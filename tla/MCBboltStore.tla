---------------------------- MODULE MCBboltStore ----------------------------
(* Small instances of BboltStore for TLC.                                   *)
EXTENDS BboltStore, TLC

CONSTANTS p, q, m, a, b, c

\* Two pipelines that exclude each other on one resource.
OneResource == (1 :> <<p, m>> @@ 2 :> <<q, m>>)
BothExcluded == [r \in Runs |-> {p, q}]

\* Only the first pipeline has Steps.
FirstSteps == [r \in Runs |-> IF r = 1 THEN <<a, b, c>> ELSE <<>>]
LargeAndSmall == (a :> "large" @@ b :> "small" @@ c :> "none")
NoSteps == [r \in Runs |-> <<>>]

\* One attempt each, but for the unwind of the first Step, which may be
\* displaced and started again.
FewAttempts == [o \in Steps \X {"forward", "unwind"} |->
                  IF o = <<a, "unwind">> THEN 2 ELSE 1]

Two == {1, 2}
=============================================================================
