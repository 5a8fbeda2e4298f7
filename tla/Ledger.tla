------------------------------- MODULE Ledger -------------------------------
(***************************************************************************)
(* internal/ledger: pure reconciliation of a Run's durable operation facts  *)
(* against the deployment's topology.  A topology is a sequence of Steps    *)
(* [id, unwind, retired]; facts map a Step to the state of its forward (or  *)
(* unwind) operation.  The frontiers of the code are written as the         *)
(* quantified conditions they compute.                                      *)
(***************************************************************************)
EXTENDS Integers, Sequences

CONSTANTS Steps,    \* every StepID any deployment uses
          NoStep    \* the empty StepID

ASSUME StepsAssumption == NoStep \notin Steps

OpState == {"none", "unresolved", "succeeded", "failed"}

Topology == Seq([id : Steps, unwind : BOOLEAN, retired : BOOLEAN])

Decision == [kind : {"runForward", "forwardComplete", "runUnwind",
                     "unwindComplete", "invalid"},
             step : Steps \cup {NoStep}]

Decide(kind, s) == [kind |-> kind, step |-> s]

InTopology(topo, s) == \E i \in DOMAIN topo : topo[i].id = s

\* More than one operation reserved and not resolved.
MultipleUnresolved(facts) ==
    \E s, t \in Steps : s # t /\ facts[s] = "unresolved" /\ facts[t] = "unresolved"

\* Positions beyond the forward frontier (the last position that succeeded)
\* whose Step this deployment still runs.
ForwardCandidates(topo, forward) ==
    {i \in DOMAIN topo : /\ ~topo[i].retired
                         /\ \A j \in DOMAIN topo :
                               forward[topo[j].id] = "succeeded" => j < i}

\* An unresolved operation pins the Run; otherwise the first Step after the
\* frontier runs, and with none left the forward phase is complete.
NextForward(topo, forward) ==
    LET candidates == ForwardCandidates(topo, forward)
        first == CHOOSE i \in candidates : \A j \in candidates : i <= j
        pinned == CHOOSE s \in Steps : forward[s] = "unresolved"
    IN  IF MultipleUnresolved(forward) \/ \E s \in Steps : forward[s] = "failed"
          THEN Decide("invalid", NoStep)
        ELSE IF \E s \in Steps : forward[s] = "unresolved"
          THEN IF InTopology(topo, pinned) THEN Decide("runForward", pinned)
                                           ELSE Decide("invalid", NoStep)
        ELSE IF candidates = {} THEN Decide("forwardComplete", NoStep)
        ELSE IF forward[topo[first].id] # "none" THEN Decide("invalid", NoStep)
        ELSE Decide("runForward", topo[first].id)

\* Seeded fault: an unwind that was started is not a candidate again.
UnwindCandidatesNeverStarted(topo, forward, unwind) ==
    {i \in DOMAIN topo : /\ topo[i].unwind
                         /\ forward[topo[i].id] = "succeeded"
                         /\ unwind[topo[i].id] = "none"
                         /\ \A j \in DOMAIN topo :
                               unwind[topo[j].id] \in {"succeeded", "failed"} => i < j}

\* Positions below the unwind frontier (the first position whose unwind
\* resolved) whose Step still has an unwind to run.
UnwindCandidates(topo, forward, unwind) ==
    {i \in DOMAIN topo : /\ topo[i].unwind
                         /\ forward[topo[i].id] = "succeeded"
                         /\ unwind[topo[i].id] \in {"none", "unresolved"}
                         /\ \A j \in DOMAIN topo :
                               unwind[topo[j].id] \in {"succeeded", "failed"} => i < j}

\* Seeded fault: Steps unwind in topology order.
NextUnwindForwards(topo, forward, unwind) ==
    LET candidates == UnwindCandidates(topo, forward, unwind)
        first == CHOOSE i \in candidates : \A j \in candidates : i <= j
    IN  IF MultipleUnresolved(unwind) THEN Decide("invalid", NoStep)
        ELSE IF candidates = {} THEN Decide("unwindComplete", NoStep)
        ELSE Decide("runUnwind", topo[first].id)

\* Steps unwind in reverse topology order below the unwind frontier.
NextUnwind(topo, forward, unwind) ==
    LET candidates == UnwindCandidates(topo, forward, unwind)
        last == CHOOSE i \in candidates : \A j \in candidates : j <= i
    IN  IF MultipleUnresolved(unwind) THEN Decide("invalid", NoStep)
        ELSE IF candidates = {} THEN Decide("unwindComplete", NoStep)
        ELSE Decide("runUnwind", topo[last].id)
=============================================================================
