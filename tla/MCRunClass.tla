----------------------------- MODULE MCRunClass -----------------------------
(* Instances of RunClass for TLC. *)
EXTENDS RunClass

Three == 1 .. 3

\* Every Run on a resource of its own, or the last two on the same one.
OwnResource == [r \in Three |-> r]
SharedResource == [r \in Three |-> IF r = 1 THEN 1 ELSE 2]

\* Nobody is delayed, or the first RunID is scheduled to start later.
NoDelay == [r \in Three |-> 0]
FirstDelayed == [r \in Three |-> IF r = 1 THEN 1 ELSE 0]
=============================================================================
