--------------------------- MODULE MCRunLifecycle ---------------------------
(* Small instances of RunLifecycle for TLC.                                 *)
EXTENDS RunLifecycle

CONSTANTS a, b, c

Step(s, u, r) == [id |-> s, unwind |-> u, retired |-> r]

\* The first two Steps compensate; the last one only fails or succeeds.
Full == <<Step(a, TRUE, FALSE), Step(b, TRUE, FALSE), Step(c, FALSE, FALSE)>>

\* Redeployments: b lost its unwind, b was removed, a and b were swapped, the
\* last Step was retired, only the first Step is left.
NoUnwindB == <<Step(a, TRUE, FALSE), Step(b, FALSE, FALSE), Step(c, FALSE, FALSE)>>
RemovedB == <<Step(a, TRUE, FALSE), Step(c, FALSE, FALSE)>>
Swapped == <<Step(b, TRUE, FALSE), Step(a, TRUE, FALSE), Step(c, FALSE, FALSE)>>
RetiredC == <<Step(a, TRUE, FALSE), Step(b, TRUE, FALSE), Step(c, FALSE, TRUE)>>

OneTopology == {Full}
ShortTopology == {RemovedB}
AllTopologies == {Full, NoUnwindB, RemovedB, Swapped, RetiredC}
=============================================================================
