----------------------------- MODULE MCAwaiting -----------------------------
(***************************************************************************)
(* Three Runs.  A waits for both others and takes them with it when it is   *)
(* canceled, or for the first of them until a deadline.  B unwinds and      *)
(* waits for A, which closes a circle.  C has only its end to commit.       *)
(***************************************************************************)
EXTENDS Awaiting, TLC

CONSTANTS ra, rb, rc, w1

AllOf(ts, flag) == [targets |-> ts, any |-> FALSE, deadline |-> FALSE, cascade |-> flag]
FirstOf(ts) == [targets |-> ts, any |-> TRUE, deadline |-> TRUE, cascade |-> FALSE]

ParksOf == (ra :> {AllOf({rb, rc}, TRUE), FirstOf({rb, rc})}) @@ (rb :> {AllOf({ra}, FALSE)})
           @@ (rc :> {})
StageOf == (ra :> "forward") @@ (rb :> "unwind") @@ (rc :> "ended")
TriesOf == (ra :> 1) @@ (rb :> 1) @@ (rc :> 0)
OnOf == [x \in Callers |-> ra]
=============================================================================
