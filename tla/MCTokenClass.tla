---------------------------- MODULE MCTokenClass ----------------------------
(* Small instances of TokenClass for TLC.                                   *)
EXTENDS TokenClass, TLC

CONSTANTS disk, d
CONSTANT Plain   \* Runs of one Step that nobody cancels: interchangeable

\* Two tokens.
Capacities == (disk :> 2)

Short == [r \in Runs |-> <<disk>>]
Classless == [r \in Runs |-> <<NoClass>>]
OneTry == [r \in Runs |-> IF r = d THEN 1 ELSE 0]
NoTries == [r \in Runs |-> 0]
All == Plain \cup {d}
Interchangeable == Permutations(Plain)
=============================================================================
