----------------------------- MODULE RecordProofs -----------------------------
(***************************************************************************)
(* TLAPS proofs about a Run's record: the worker's copy and the store's     *)
(* agree where the code relies on it, what is durable is never taken back,  *)
(* and the unwind compensates in reverse order.                             *)
(***************************************************************************)
EXTENDS RunLifecycleProofs

\* The worker's copy and the store's record, field by field: everything but
\* the cancel request and the park.
SameFacts ==
    /\ rec.phase = db.phase /\ rec.outcome = db.outcome
    /\ rec.forward = db.forward /\ rec.unwind = db.unwind
    /\ rec.failure = db.failure /\ rec.nextAt = db.nextAt
    /\ rec.lastError = db.lastError /\ rec.started = db.started

SamePark == rec.awaiting = db.awaiting /\ rec.awaited = db.awaited

\* A record carried past the read is the store's; only a gate that settled a
\* park is ahead of the store, until the reservation writes it.
CopyInv ==
    /\ Terminal(rec) => Terminal(db)
    /\ pc \in Past \cup {"take"} /\ loaded /\ ~Terminal(rec) => SameFacts
    /\ pc \in Past \cup {"take"} /\ loaded /\ ~Terminal(rec) /\ pc # "reserve"
         => SamePark

\* The operation the worker is on was never resolved, and from its
\* reservation on it is unresolved.
OpInv ==
    /\ pc \in Operating => ~Settled1(OpOf(rec, step))
    /\ pc \in {"register", "handler", "deregister", "resolve", "cycle"} =>
         OpOf(rec, step).status = "unresolved"

\* No handler was given an attempt number beyond the durable count, and the
\* one about to be given was not.
SeenInv ==
    /\ ~Terminal(db) => \A s \in Steps :
         /\ seen.forward[s] <= db.forward[s].attempts
         /\ seen.unwind[s] <= db.unwind[s].attempts
    /\ pc = "register" => OpOf(rec, step).attempts > seen[rec.phase][step]

\* What the decision saw still holds of the copy when it is acted on.
Compensated(r) ==
    \A i \in DOMAIN topo :
      topo[i].unwind /\ r.forward[topo[i].id].status = "succeeded" =>
        \E k \in 1..i : Settled1(r.unwind[topo[k].id])

InReverse(r, s) ==
    /\ r.forward[s].status = "succeeded"
    /\ \A i, j \in DOMAIN topo :
         /\ topo[i].id = s /\ j > i
         /\ topo[j].unwind /\ r.forward[topo[j].id].status = "succeeded"
         => \E k \in (i + 1)..j : Settled1(r.unwind[topo[k].id])

OrderInv ==
    /\ pc = "commit" /\ rec.phase = "unwind" => Compensated(rec)
    /\ pc \in {"reserve", "register", "handler"} /\ rec.phase = "unwind" =>
         InReverse(rec, step)

RecordInv == CopyInv /\ OpInv /\ SeenInv /\ OrderInv /\ OutcomeExplained

\* The body of DurableMonotone.
Grows ==
    /\ db.failure # NoFailure => db'.failure = db.failure
    /\ db.cancel # NoCause => db'.cancel = db.cancel
    /\ Terminal(db) => db' = db
    /\ db.phase = "unwind" => db'.phase # "forward"
    /\ ~Terminal(db') => \A s \in Steps :
         /\ db'.forward[s].attempts >= db.forward[s].attempts
         /\ db'.unwind[s].attempts >= db.unwind[s].attempts
         /\ Settled1(db.forward[s]) => db'.forward[s] = db.forward[s]
         /\ Settled1(db.unwind[s]) => db'.unwind[s] = db.unwind[s]
-----------------------------------------------------------------------------
(* The ledger's decisions.                                                  *)

\* NextForward only runs an operation that has not been resolved.
LEMMA NextForwardOpen ==
    ASSUME NEW t \in Topology, NEW f \in [Steps -> OpState],
           NextForward(t, f).kind = "runForward"
    PROVE  f[NextForward(t, f).step] \in {"none", "unresolved"}
<1> DEFINE C == ForwardCandidates(t, f)
           first == CHOOSE i \in C : \A j \in C : i <= j
           pinned == CHOOSE s \in Steps : f[s] = "unresolved"
<1>1. (\E s \in Steps : f[s] = "unresolved") => f[pinned] = "unresolved"
  OBVIOUS
<1> HIDE DEF C, first, pinned
<1>2. QED
  BY <1>1 DEF NextForward, Decide, C, first, pinned

\* NextUnwind runs the last Step that still needs its unwind: whatever needs
\* one beyond it is beyond a resolved unwind.
LEMMA NextUnwindOrder ==
    ASSUME NEW t \in Topology, NEW f \in [Steps -> OpState], NEW u \in [Steps -> OpState],
           \A i, j \in DOMAIN t : t[i].id = t[j].id => i = j,
           NextUnwind(t, f, u).kind = "runUnwind",
           NEW i \in DOMAIN t, t[i].id = NextUnwind(t, f, u).step,
           NEW j \in DOMAIN t, j > i, t[j].unwind, f[t[j].id] = "succeeded"
    PROVE  \E k \in (i + 1)..j : u[t[k].id] \in {"succeeded", "failed"}
<1> DEFINE C == UnwindCandidates(t, f, u)
           last == CHOOSE m \in C : \A n \in C : n <= m
<1>1. C \subseteq DOMAIN t /\ Len(t) \in Nat /\ DOMAIN t = 1..Len(t)
  BY DEF UnwindCandidates, Topology
<1>2. C # {} => last \in C /\ \A n \in C : n <= last
  BY <1>1, GreatestElement, Zenon
<1>a. \A n \in DOMAIN t : t[n].id \in Steps
  BY TopologySteps
<1>b. \A m \in C : \A n \in DOMAIN t :
         u[t[n].id] \in {"succeeded", "failed"} => m < n
  BY DEF UnwindCandidates
<1>c. \A m \in DOMAIN t : /\ t[m].unwind /\ f[t[m].id] = "succeeded" /\ m \notin C
         => \/ u[t[m].id] \notin {"none", "unresolved"}
            \/ \E n \in DOMAIN t : u[t[n].id] \in {"succeeded", "failed"} /\ ~(m < n)
  BY DEF UnwindCandidates
<1>3. C # {} /\ NextUnwind(t, f, u).step = t[last].id
  BY DEF NextUnwind, Decide
<1> HIDE DEF C, last
<1>4. i = last
  BY <1>1, <1>2, <1>3
<1>5. j \notin C
  BY <1>1, <1>2, <1>3, <1>4
<1>6. PICK n \in DOMAIN t : u[t[n].id] \in {"succeeded", "failed"} /\ ~(j < n)
  BY <1>1, <1>5, <1>a, <1>c DEF OpState
<1>7. last < n
  BY <1>b, <1>2, <1>3, <1>6
<1>8. n \in (i + 1)..j
  BY <1>1, <1>4, <1>6, <1>7
<1>9. QED  BY <1>6, <1>8

\* When NextUnwind has nothing left, every Step that needs an unwind is at or
\* beyond a resolved one.
LEMMA NextUnwindDone ==
    ASSUME NEW t \in Topology, NEW f \in [Steps -> OpState], NEW u \in [Steps -> OpState],
           NextUnwind(t, f, u).kind = "unwindComplete",
           NEW i \in DOMAIN t, t[i].unwind, f[t[i].id] = "succeeded"
    PROVE  \E k \in 1..i : u[t[k].id] \in {"succeeded", "failed"}
<1>1. Len(t) \in Nat /\ DOMAIN t = 1..Len(t)
  BY DEF Topology
<1>2. UnwindCandidates(t, f, u) = {}
  BY DEF NextUnwind, Decide
<1>a. \A n \in DOMAIN t : t[n].id \in Steps
  BY TopologySteps
<1>3. PICK n \in DOMAIN t : u[t[n].id] \in {"succeeded", "failed"} /\ ~(i < n)
  BY <1>1, <1>2, <1>a DEF UnwindCandidates, OpState
<1>4. n \in 1..i
  BY <1>1, <1>3
<1>5. QED  BY <1>3, <1>4

\* The operation a decision names was never resolved; in the unwind phase it
\* is next in reverse order, and a complete unwind is complete.
LEMMA DecisionFacts ==
    ASSUME EngineOK, NEW r \in Record, r.phase # "done"
    PROVE  /\ Decision1(r).kind \in {"runForward", "runUnwind"} =>
                 ~Settled1(OpOf(r, Decision1(r).step))
           /\ Decision1(r).kind \in {"runForward", "runUnwind"} /\ r.phase = "unwind"
                 => InReverse(r, Decision1(r).step)
           /\ Decision1(r).kind \in {"forwardComplete", "unwindComplete"}
                 /\ r.phase = "unwind" => Compensated(r)
<1> DEFINE F == FactsOf(r.forward)
           U == FactsOf(r.unwind)
           d == Decision1(r)
<1>1. F \in [Steps -> OpState] /\ U \in [Steps -> OpState]
  BY DEF FactsOf, Record, Op
<1>2. /\ topo \in Topology
      /\ \A i, j \in DOMAIN topo : topo[i].id = topo[j].id => i = j
  BY LifecycleAssumption, DistinctSteps DEF EngineOK, LifecycleAssumption, DistinctSteps
<1>3. \A s \in Steps : F[s] = r.forward[s].status /\ U[s] = r.unwind[s].status
  BY DEF FactsOf
<1>4. \A i \in DOMAIN topo : topo[i].id \in Steps
  BY <1>2, TopologySteps
<1>5. r.phase \in {"forward", "unwind"}
  BY DEF Record
<1>6. d = IF r.phase = "forward" THEN NextForward(topo, F) ELSE NextUnwind(topo, F, U)
  BY DEF Decision1
<1>7. d.kind \in {"runForward", "runUnwind"} => d.step \in Steps
  BY DecisionType
<1>k. DOMAIN topo = 1..Len(topo) /\ Len(topo) \in Nat
  BY <1>2 DEF Topology
<1> HIDE DEF F, U, d
<1>8. CASE r.phase = "forward"
  <2>1. d = NextForward(topo, F)
    BY <1>6, <1>8
  <2>2. d.kind \in {"runForward", "forwardComplete", "invalid"}
    BY <1>1, <1>2, <2>1, NextForwardType
  <2>3. d.kind = "runForward" => F[d.step] \in {"none", "unresolved"}
    BY <1>1, <1>2, <2>1, NextForwardOpen
  <2>4. QED  BY <1>3, <1>7, <1>8, <2>2, <2>3 DEF OpOf, Settled1, d
<1>9. CASE r.phase = "unwind"
  <2>1. d = NextUnwind(topo, F, U)
    BY <1>6, <1>9
  <2>2. /\ d.kind \in {"runUnwind", "unwindComplete", "invalid"}
        /\ d.kind = "runUnwind" =>
              F[d.step] = "succeeded" /\ U[d.step] \in {"none", "unresolved"}
    BY <1>1, <1>2, <2>1, NextUnwindType
  <2>3. ASSUME d.kind = "runUnwind"
        PROVE  InReverse(r, d.step)
    <3>1. r.forward[d.step].status = "succeeded"
      BY <1>3, <1>7, <2>2, <2>3
    <3>2. ASSUME NEW i \in DOMAIN topo, NEW j \in DOMAIN topo,
                 topo[i].id = d.step, j > i, topo[j].unwind,
                 r.forward[topo[j].id].status = "succeeded"
          PROVE  \E k \in (i + 1)..j : Settled1(r.unwind[topo[k].id])
      <4>1. F[topo[j].id] = "succeeded"
        BY <1>3, <1>4, <3>2
      <4>2. PICK k \in (i + 1)..j : U[topo[k].id] \in {"succeeded", "failed"}
        BY <1>1, <1>2, <2>1, <2>3, <3>2, <4>1, NextUnwindOrder
      <4>3. k \in DOMAIN topo
        BY <1>k, <4>2
      <4>4. Settled1(r.unwind[topo[k].id])
        BY <1>3, <1>4, <4>2, <4>3 DEF Settled1
      <4>5. QED  BY <4>2, <4>4
    <3>3. QED  BY <3>1, <3>2 DEF InReverse
  <2>4. ASSUME d.kind = "unwindComplete"
        PROVE  Compensated(r)
    <3>1. ASSUME NEW i \in DOMAIN topo, topo[i].unwind,
                 r.forward[topo[i].id].status = "succeeded"
          PROVE  \E k \in 1..i : Settled1(r.unwind[topo[k].id])
      <4>1. F[topo[i].id] = "succeeded"
        BY <1>3, <1>4, <3>1
      <4>2. PICK k \in 1..i : U[topo[k].id] \in {"succeeded", "failed"}
        BY <1>1, <1>2, <2>1, <2>4, <3>1, <4>1, NextUnwindDone
      <4>3. k \in DOMAIN topo
        BY <1>k, <4>2
      <4>4. Settled1(r.unwind[topo[k].id])
        BY <1>3, <1>4, <4>2, <4>3 DEF Settled1
      <4>5. QED  BY <4>2, <4>4
    <3>2. QED  BY <3>1 DEF Compensated
  <2>5. QED  BY <1>3, <1>7, <1>9, <2>2, <2>3, <2>4 DEF OpOf, Settled1, d
<1>10. QED  BY <1>5, <1>8, <1>9
-----------------------------------------------------------------------------
(* The operators on records.                                                *)

\* r differs from the record q in the operation of Step s of q's phase only.
OnlyOp(r, q, s) ==
    /\ \A t \in Steps : t # s \/ q.phase # "forward" => r.forward[t] = q.forward[t]
    /\ \A t \in Steps : t # s \/ q.phase = "forward" => r.unwind[t] = q.unwind[t]

\* The operation of q's phase, in r.
OpAt(r, q, s) == IF q.phase = "forward" THEN r.forward[s] ELSE r.unwind[s]

LEMMA SetOpOps ==
    ASSUME NEW r \in Record, NEW s \in Steps, NEW op \in Op
    PROVE  /\ OnlyOp(SetOp(r, s, op), r, s)
           /\ OpAt(SetOp(r, s, op), r, s) = op
           /\ SetOp(r, s, op).awaited = r.awaited
           /\ SetOp(r, s, op).lastError = r.lastError
           /\ SetOp(r, s, op).started = r.started
<1>1. CASE r.phase = "forward"
  <2>1. SetOp(r, s, op) = [r EXCEPT !.forward = [@ EXCEPT ![s] = op]]
    BY <1>1 DEF SetOp
  <2>2. QED  BY <1>1, <2>1 DEF OnlyOp, OpAt, Record
<1>2. CASE r.phase # "forward"
  <2>1. SetOp(r, s, op) = [r EXCEPT !.unwind = [@ EXCEPT ![s] = op]]
    BY <1>2 DEF SetOp
  <2>2. QED  BY <1>2, <2>1 DEF OnlyOp, OpAt, Record
<1>3. QED  BY <1>1, <1>2

\* Reserving raises the operation's attempts by one and leaves it unresolved.
LEMMA ReservedOps ==
    ASSUME NEW r \in Record, NEW s \in Steps
    PROVE  /\ OnlyOp(Reserved(r, s), r, s)
           /\ OpAt(Reserved(r, s), r, s).status = "unresolved"
           /\ OpAt(Reserved(r, s), r, s).attempts = OpOf(r, s).attempts + 1
<1> DEFINE op == [status |-> "unresolved", attempts |-> OpOf(r, s).attempts + 1]
           q == SetOp(r, s, op)
<1>1. op \in Op
  BY DEF Record, OpOf, Op, OpState
<1>a. op.status = "unresolved" /\ op.attempts = OpOf(r, s).attempts + 1
  OBVIOUS
<1>3. Reserved(r, s) = [q EXCEPT !.nextAt = FALSE, !.started = TRUE]
  BY DEF Reserved
<1> HIDE DEF op
<1>2. OnlyOp(q, r, s) /\ OpAt(q, r, s) = op /\ q \in Record
  BY <1>1, SetOpOps, SetOpType
<1> HIDE DEF q
<1>4. Reserved(r, s).forward = q.forward /\ Reserved(r, s).unwind = q.unwind
  BY <1>2, <1>3 DEF Record
<1>5. QED  BY <1>2, <1>4, <1>a DEF OnlyOp, OpAt

\* Resolving an operation keeps its attempts.
LEMMA ResolvedOps ==
    ASSUME NEW r \in Record, NEW s \in Steps, NEW st \in OpState
    PROVE  /\ OnlyOp(Resolved(r, s, st), r, s)
           /\ OpAt(Resolved(r, s, st), r, s).attempts = OpOf(r, s).attempts
           /\ OpAt(Resolved(r, s, st), r, s).status = st
<1> DEFINE op == [OpOf(r, s) EXCEPT !.status = st]
           q == SetOp(r, s, op)
<1>1. op \in Op /\ op.attempts = OpOf(r, s).attempts /\ op.status = st
  BY DEF Record, OpOf, Op
<1>3. Resolved(r, s, st) = [q EXCEPT !.awaited = NoStep, !.lastError = NoStep]
  BY DEF Resolved
<1> HIDE DEF op
<1>2. OnlyOp(q, r, s) /\ OpAt(q, r, s) = op /\ q \in Record
  BY <1>1, SetOpOps, SetOpType
<1> HIDE DEF q
<1>4. Resolved(r, s, st).forward = q.forward /\ Resolved(r, s, st).unwind = q.unwind
  BY <1>2, <1>3 DEF Record
<1>5. QED  BY <1>1, <1>2, <1>4 DEF OnlyOp, OpAt

\* ApplyTransition with the delta apply builds, when the record it is built
\* from differs from the store's in the written operation only: the store's
\* record becomes the worker's, but for the cancel request.
LEMMA MergeCopy ==
    ASSUME db \in Record, NEW r \in Record, NEW ph, NEW s,
           \A t \in Steps : t # s \/ ph # "forward" => r.forward[t] = db.forward[t],
           \A t \in Steps : t # s \/ ph # "unwind" => r.unwind[t] = db.unwind[t],
           r.failure = NoFailure => db.failure = NoFailure
    PROVE  Merge(r, ph, s) = [r EXCEPT !.cancel = db.cancel]
<1> DEFINE fw == Displaced(r, s).forward \cup (IF ph = "forward" THEN {s} ELSE {})
           uw == Displaced(r, s).unwind \cup (IF ph = "unwind" THEN {s} ELSE {})
           F == [t \in Steps |-> IF t \in fw THEN r.forward[t] ELSE db.forward[t]]
           U == [t \in Steps |-> IF t \in uw THEN r.unwind[t] ELSE db.unwind[t]]
<1>1. \A t \in Steps : t \notin fw => r.forward[t] = db.forward[t]
  OBVIOUS
<1>2. \A t \in Steps : t \notin uw => r.unwind[t] = db.unwind[t]
  OBVIOUS
<1>3. Merge(r, ph, s) =
        [r EXCEPT !.forward = F, !.unwind = U,
                  !.failure = IF r.failure = NoFailure THEN db.failure ELSE r.failure,
                  !.cancel = db.cancel]
  BY DEF Merge
<1> HIDE DEF fw, uw
<1>4. F = r.forward /\ U = r.unwind
  BY <1>1, <1>2 DEF Record
<1>5. (IF r.failure = NoFailure THEN db.failure ELSE r.failure) = r.failure
  OBVIOUS
<1> HIDE DEF F, U
<1>6. QED  BY <1>3, <1>4, <1>5 DEF Record
-----------------------------------------------------------------------------
(* Writes.                                                                  *)

\* The bound on the attempts handlers were given, for a record.
SeenWithin(sn, r) ==
    \A s \in Steps : /\ sn.forward[s] <= r.forward[s].attempts
                     /\ sn.unwind[s] <= r.unwind[s].attempts

\* An operating worker's copy is the store's.
LEMMA OperatingCopy ==
    ASSUME TypeOK, PhaseInv, CancelInv, RecordInv, pc \in Operating \cup {"commit"}
    PROVE  /\ SameFacts /\ loaded /\ ~Terminal(rec) /\ ~Terminal(db)
           /\ rec.phase \in {"forward", "unwind"} /\ rec \in Record /\ db \in Record
           /\ pc # "reserve" => SamePark
           /\ SeenWithin(seen, db)
<1>1. loaded /\ rec.phase # "done" /\ rec \in Record /\ db \in Record
  BY DEF CancelInv, PreemptInv, Past, PhaseInv, TypeOK
<1>2. ~Terminal(rec) /\ rec.phase \in {"forward", "unwind"}
  BY <1>1 DEF PhaseInv, Record
<1>3. SameFacts /\ (pc # "reserve" => SamePark)
  BY <1>1, <1>2 DEF RecordInv, CopyInv, Past
<1>4. ~Terminal(db)
  BY <1>2, <1>3 DEF SameFacts, Terminal
<1>5. QED  BY <1>1, <1>2, <1>3, <1>4 DEF RecordInv, SeenInv, SeenWithin

\* A transition of the operation the worker is on.
LEMMA OpWrite ==
    ASSUME TypeOK, PhaseInv, CancelInv, RecordInv, pc \in Operating,
           NEW r \in Record, OnlyOp(r, rec, step), r.outcome = "none",
           OpAt(r, rec, step).attempts >= OpOf(rec, step).attempts,
           \/ r.phase = rec.phase /\ r.failure = rec.failure
           \/ /\ rec.phase = "forward" /\ r.phase = "unwind" /\ r.failure # NoFailure
              /\ r.failure.kind = "canceled" =>
                    db.cancel # NoCause /\ r.failure.cause = db.cancel,
           db' = Merge(r, rec.phase, step), seen' = seen
    PROVE  /\ db' = [r EXCEPT !.cancel = db.cancel]
           /\ Grows /\ OutcomeExplained' /\ ~Terminal(db') /\ SeenWithin(seen', db')
<1>1. /\ SameFacts /\ ~Terminal(rec) /\ ~Terminal(db)
      /\ rec.phase \in {"forward", "unwind"} /\ rec \in Record /\ db \in Record
      /\ SeenWithin(seen, db) /\ step \in Steps /\ ~Settled1(OpOf(rec, step))
      /\ OutcomeExplained
  BY OperatingCopy DEF RecordInv, OpInv, PhaseInv
<1>2. r.failure = NoFailure => db.failure = NoFailure
  BY <1>1 DEF SameFacts, OutcomeExplained
<1>3. db' = [r EXCEPT !.cancel = db.cancel]
  <2>1. /\ \A t \in Steps : t # step \/ rec.phase # "forward" => r.forward[t] = db.forward[t]
        /\ \A t \in Steps : t # step \/ rec.phase # "unwind" => r.unwind[t] = db.unwind[t]
    BY <1>1 DEF SameFacts, OnlyOp
  <2>2. QED  BY <1>1, <1>2, <2>1, MergeCopy
<1>4. /\ db'.phase = r.phase /\ db'.forward = r.forward /\ db'.unwind = r.unwind
      /\ db'.failure = r.failure /\ db'.outcome = "none" /\ db'.cancel = db.cancel
  BY <1>3 DEF Record
<1>5. ~Terminal(db')
  BY <1>4 DEF Terminal
<1>6. \A s \in Steps :
        /\ db'.forward[s].attempts >= db.forward[s].attempts
        /\ db'.unwind[s].attempts >= db.unwind[s].attempts
        /\ Settled1(db.forward[s]) => db'.forward[s] = db.forward[s]
        /\ Settled1(db.unwind[s]) => db'.unwind[s] = db.unwind[s]
  <2>1. \A s \in Steps : db.forward[s].attempts \in Nat /\ db.unwind[s].attempts \in Nat
    BY <1>1 DEF Record, Op
  <2>2. QED
    BY <1>1, <1>4, <2>1 DEF OnlyOp, OpAt, OpOf, SameFacts
<1>7. SeenWithin(seen', db')
  <2>1. \A s \in Steps : /\ db.forward[s].attempts \in Nat /\ db.unwind[s].attempts \in Nat
                         /\ r.forward[s].attempts \in Nat /\ r.unwind[s].attempts \in Nat
                         /\ seen.forward[s] \in Nat /\ seen.unwind[s] \in Nat
    BY <1>1 DEF Record, Op, TypeOK
  <2>2. QED  BY <1>1, <1>4, <1>6, <2>1 DEF SeenWithin
<1>8. OutcomeExplained'
  BY <1>1, <1>4, <1>5 DEF OutcomeExplained, SameFacts
<1>9. Grows
  BY <1>1, <1>4, <1>5, <1>6 DEF Grows, OutcomeExplained, SameFacts
<1>10. QED  BY <1>3, <1>5, <1>7, <1>8, <1>9

\* A worker that returns drops its copy; what it wrote, if anything, was an
\* operation's retry.
LEMMA ExitRecordInv ==
    ASSUME TypeOK, RecordInv, NEW again, Exit(again),
           db' = db \/ (~Terminal(db') /\ SeenWithin(seen', db') /\ OutcomeExplained'),
           seen' = seen
    PROVE  RecordInv'
<1>1. /\ pc' \in {"queued", "idle"} /\ loaded' = FALSE /\ ~Terminal(rec')
  BY ExitType
<1>2. CopyInv' /\ OpInv' /\ OrderInv'
  BY <1>1 DEF CopyInv, OpInv, OrderInv, Past, Operating
<1>3. SeenInv'
  BY <1>1 DEF RecordInv, SeenInv, SeenWithin, Terminal
<1>4. OutcomeExplained'
  BY DEF RecordInv, OutcomeExplained, Terminal
<1>5. QED  BY <1>2, <1>3, <1>4 DEF RecordInv

\* A step that does not write.
LEMMA NoWriteGrows ==
    ASSUME TypeOK, db' = db
    PROVE  Grows
<1>1. db \in Record
  BY DEF TypeOK
<1>2. \A s \in Steps : db.forward[s].attempts \in Nat /\ db.unwind[s].attempts \in Nat
  BY <1>1 DEF Record, Op
<1>3. QED  BY <1>2 DEF Grows
-----------------------------------------------------------------------------
(* The invariant is inductive, and every step grows the record.             *)

\* The invariant in the initial state.
LEMMA InitRecord == Init => RecordInv
<1> SUFFICES ASSUME Init PROVE RecordInv
  OBVIOUS
<1>1. PICK delayed \in BOOLEAN : db = NewRecord(delayed)
  BY DEF Init
<1>2. /\ ~Terminal(db) /\ ~Terminal(rec) /\ db.phase = "forward"
      /\ db.failure = NoFailure
  BY <1>1, NewRecordType DEF Init
<1>3. \A s \in Steps : db.forward[s].attempts = 0 /\ db.unwind[s].attempts = 0
  BY <1>1 DEF NewRecord, NoOp
<1>4. \A s \in Steps : seen.forward[s] = 0 /\ seen.unwind[s] = 0
  BY DEF Init
<1>5. pc = "queued" /\ loaded = FALSE
  BY DEF Init
<1>6. SeenInv
  BY <1>2, <1>3, <1>4, <1>5 DEF SeenInv
<1>7. CopyInv /\ OpInv /\ OrderInv
  BY <1>2, <1>5 DEF CopyInv, OpInv, OrderInv, Past, Operating
<1>8. OutcomeExplained
  BY <1>2 DEF OutcomeExplained, NoFailure
<1>9. QED  BY <1>6, <1>7, <1>8 DEF RecordInv

\* A step of the worker that neither writes nor returns, and keeps its copy.
LEMMA QuietRecord ==
    ASSUME TypeOK, RecordInv, UNCHANGED <<db, rec, seen, topo>>,
           pc' \in Past \cup {"take"} /\ loaded' /\ ~Terminal(rec) =>
             SameFacts /\ (pc' # "reserve" => SamePark),
           OpInv', OrderInv', pc' # "register"
    PROVE  RecordInv'
<1>1. CopyInv'
  BY DEF RecordInv, CopyInv, SameFacts, SamePark, Terminal
<1>2. SeenInv' /\ OutcomeExplained'
  BY DEF RecordInv, SeenInv, OutcomeExplained, Terminal
<1>3. QED  BY <1>1, <1>2 DEF RecordInv

\* The worker's pass up to its decision.
LEMMA PassRecord ==
    ASSUME TypeOK, PhaseInv, CancelInv, RecordInv, Pass
    PROVE  RecordInv' /\ Grows
<1>a. DurableOK /\ WorkerOK /\ EngineOK /\ rec \in Record /\ db \in Record
  BY TypeParts DEF WorkerOK, DurableOK
<1>b. ASSUME pc = "decide", ~Terminal(rec)
      PROVE  loaded /\ SameFacts /\ SamePark /\ rec.phase # "done"
  BY <1>b DEF CancelInv, PreemptInv, RecordInv, CopyInv, Past, PhaseInv
<1>w. UNCHANGED <<db, seen, topo>>
  BY DEF Pass, Begin, BeginStopped, Take, Read, DecideStop, DecideCancel, DecideRun,
         DecideComplete, StoreFault, durable, engine
<1>g. Grows
  BY <1>w, NoWriteGrows
<1>1. CASE Exit(TRUE) \/ Exit(FALSE)
  <2>1. RecordInv'
    BY <1>1, <1>w, ExitRecordInv
  <2>2. QED  BY <1>g, <2>1
<1>2. CASE ~(Exit(TRUE) \/ Exit(FALSE))
  <2>1. CASE Begin
    <3>1. pc = "queued" /\ pc' = "take" /\ UNCHANGED <<loaded, rec, step>>
      BY <2>1 DEF Begin, Goto
    <3>2. ~loaded
      BY <3>1 DEF CancelInv, PreemptInv
    <3>3. OpInv' /\ OrderInv'
      BY <3>1 DEF OpInv, OrderInv, Operating
    <3>4. RecordInv'
      BY <1>w, <3>1, <3>2, <3>3, QuietRecord
    <3>5. QED  BY <1>g, <3>4
  <2>2. CASE BeginStopped
    BY <1>2, <2>2 DEF BeginStopped
  <2>3. CASE Take
    <3>1. pc = "take" /\ pc' \in {"read", "decide"} /\ UNCHANGED <<loaded, rec, step>>
      BY <1>2, <2>3 DEF Take, Goto
    <3>2. OpInv' /\ OrderInv'
      BY <3>1 DEF OpInv, OrderInv, Operating
    <3>3. loaded /\ ~Terminal(rec) => SameFacts /\ SamePark
      BY <3>1 DEF RecordInv, CopyInv, Past, Operating
    <3>4. RecordInv'
      BY <1>w, <3>1, <3>2, <3>3, QuietRecord
    <3>5. QED  BY <1>g, <3>4
  <2>4. CASE Read
    <3>1. pc = "read" /\ pc' = "decide" /\ rec' = db
      BY <1>2, <2>4 DEF Read, Goto
    <3>2. OpInv' /\ OrderInv' /\ CopyInv'
      BY <1>w, <3>1 DEF OpInv, OrderInv, Operating, CopyInv, SameFacts, SamePark, Terminal
    <3>3. SeenInv' /\ OutcomeExplained'
      BY <1>w, <3>1 DEF RecordInv, SeenInv, OutcomeExplained, Terminal
    <3>4. QED  BY <1>g, <3>2, <3>3 DEF RecordInv
  <2>5. CASE DecideStop
    <3>1. Exit(FALSE) \/ Exit(TRUE)
      BY <2>5, Zenon DEF DecideStop, MarkInvalid
    <3>2. QED  BY <1>2, <3>1
  <2>6. CASE DecideCancel
    <3>1. /\ pc = "decide" /\ ~Terminal(rec) /\ pc' = "cancel" /\ UNCHANGED <<rec, loaded>>
          /\ step' = Decision1(rec).step
          /\ Decision1(rec).kind \in {"runForward", "runUnwind"}
      BY <2>6 DEF DecideCancel, Goto, Runnable
    <3>2. loaded /\ SameFacts /\ SamePark /\ rec.phase # "done"
      BY <1>b, <3>1
    <3>3. ~Settled1(OpOf(rec, step'))
      BY <1>a, <3>1, <3>2, DecisionFacts
    <3>4. OpInv' /\ OrderInv'
      BY <3>1, <3>3 DEF OpInv, OrderInv, Operating, OpOf
    <3>5. RecordInv'
      BY <1>w, <3>1, <3>2, <3>4, QuietRecord
    <3>6. QED  BY <1>g, <3>5
  <2>7. CASE DecideRun
    <3>1. /\ pc = "decide" /\ ~Terminal(rec) /\ pc' = "reserve" /\ UNCHANGED loaded
          /\ rec' = Settled(rec) /\ step' = Decision1(rec).step
          /\ Decision1(rec).kind \in {"runForward", "runUnwind"}
      BY <2>7 DEF DecideRun, Goto, Runnable
    <3>2. loaded /\ SameFacts /\ SamePark /\ rec.phase # "done"
      BY <1>b, <3>1
    <3>3. /\ rec'.phase = rec.phase /\ rec'.outcome = rec.outcome
          /\ rec'.forward = rec.forward /\ rec'.unwind = rec.unwind
          /\ rec'.failure = rec.failure /\ rec'.nextAt = rec.nextAt
          /\ rec'.lastError = rec.lastError /\ rec'.started = rec.started
      BY <1>a, <3>1 DEF Settled, Record
    <3>4. ~Settled1(OpOf(rec, step')) /\ (rec.phase = "unwind" => InReverse(rec, step'))
      BY <1>a, <3>1, <3>2, DecisionFacts
    <3>5. OpInv' /\ OrderInv'
      BY <1>w, <3>1, <3>3, <3>4 DEF OpInv, OrderInv, Operating, OpOf, InReverse
    <3>6. CopyInv'
      BY <1>w, <3>1, <3>2, <3>3 DEF CopyInv, SameFacts, Terminal
    <3>7. SeenInv' /\ OutcomeExplained'
      BY <1>w, <3>1 DEF RecordInv, SeenInv, OutcomeExplained, Terminal
    <3>8. QED  BY <1>g, <3>5, <3>6, <3>7 DEF RecordInv
  <2>8. CASE DecideComplete
    <3>1. /\ pc = "decide" /\ ~Terminal(rec) /\ pc' = "commit" /\ UNCHANGED <<rec, loaded>>
          /\ Decision1(rec).kind \in {"forwardComplete", "unwindComplete"}
      BY <1>2, <2>8 DEF DecideComplete, Goto, MarkInvalid
    <3>2. loaded /\ SameFacts /\ SamePark /\ rec.phase # "done"
      BY <1>b, <3>1
    <3>3. rec.phase = "unwind" => Compensated(rec)
      BY <1>a, <3>1, <3>2, DecisionFacts
    <3>4. OpInv' /\ OrderInv'
      BY <1>w, <3>1, <3>3 DEF OpInv, OrderInv, Operating, Compensated
    <3>5. RecordInv'
      BY <1>w, <3>1, <3>2, <3>4, QuietRecord
    <3>6. QED  BY <1>g, <3>5
  <2>9. QED
    BY <2>1, <2>2, <2>3, <2>4, <2>5, <2>6, <2>7, <2>8 DEF Pass
<1>3. QED  BY <1>1, <1>2

\* After a transition the worker carries what it wrote.
LEMMA WroteCopy ==
    ASSUME db \in Record, rec' \in Record, rec'.outcome = "none",
           db' = [rec' EXCEPT !.cancel = db.cancel]
    PROVE  CopyInv'
<1>1. SameFacts' /\ SamePark'
  BY DEF SameFacts, SamePark, Record
<1>2. QED  BY <1>1 DEF CopyInv, Terminal, SameFacts

\* The reservation keeps the order the decision saw: the reserved operation
\* was not resolved and is not now.
LEMMA InReverseKept ==
    ASSUME topo \in Topology, NEW q \in Record, NEW r, NEW s \in Steps, InReverse(q, s),
           OnlyOp(r, q, s), q.phase = "unwind", ~Settled1(OpOf(q, s))
    PROVE  InReverse(r, s)
<1>1. \A n \in DOMAIN topo : topo[n].id \in Steps
  BY TopologySteps
<1>2. \A t \in Steps : r.forward[t] = q.forward[t]
  BY DEF OnlyOp
<1>3. \A t \in Steps : Settled1(q.unwind[t]) => Settled1(r.unwind[t])
  BY DEF OnlyOp, OpOf
<1>k. DOMAIN topo = 1..Len(topo) /\ Len(topo) \in Nat
  BY DEF Topology
<1>4. ASSUME NEW i \in DOMAIN topo, NEW j \in DOMAIN topo, topo[i].id = s, j > i,
             topo[j].unwind, r.forward[topo[j].id].status = "succeeded"
      PROVE  \E k \in (i + 1)..j : Settled1(r.unwind[topo[k].id])
  <2>1. PICK k \in (i + 1)..j : Settled1(q.unwind[topo[k].id])
    BY <1>1, <1>2, <1>4 DEF InReverse
  <2>2. k \in DOMAIN topo
    BY <1>k, <2>1
  <2>3. QED  BY <1>1, <1>3, <2>1, <2>2
<1>5. QED  BY <1>2, <1>4 DEF InReverse

\* Reserving.
LEMMA ReserveRecord ==
    ASSUME TypeOK, PhaseInv, CancelInv, RecordInv, Reserve
    PROVE  RecordInv' /\ Grows
<1>1. pc = "reserve" /\ seen' = seen /\ topo' = topo
  BY DEF Reserve, engine
<1>2. CASE StoreFault /\ Exit(TRUE)
  <2>1. db' = db
    BY <1>2 DEF StoreFault, durable
  <2>2. QED  BY <1>1, <1>2, <2>1, ExitRecordInv, NoWriteGrows
<1>3. CASE /\ rec' = Reserved(rec, step) /\ Apply(rec', rec.phase, step)
           /\ pc' = "register" /\ UNCHANGED <<loaded, step, res>>
  <2>a. /\ rec \in Record /\ db \in Record /\ rec.phase \in {"forward", "unwind"}
        /\ ~Terminal(rec) /\ SeenWithin(seen, db) /\ SameFacts
    BY <1>1, OperatingCopy DEF Operating
  <2>b. step \in Steps
    BY <1>1 DEF PhaseInv, Operating
  <2>1. /\ rec' \in Record /\ rec'.phase = rec.phase /\ rec'.outcome = rec.outcome
        /\ rec'.failure = rec.failure
    BY <1>3, <2>a, <2>b, ReservedType
  <2>2. /\ OnlyOp(rec', rec, step)
        /\ OpAt(rec', rec, step).status = "unresolved"
        /\ OpAt(rec', rec, step).attempts = OpOf(rec, step).attempts + 1
    BY <1>3, <2>a, <2>b, ReservedOps
  <2>3. rec'.outcome = "none" /\ ~Terminal(rec')
    BY <2>a, <2>1 DEF Terminal
  <2>4. db' = Merge(rec', rec.phase, step)
    BY <1>3, <2>3 DEF Apply
  <2>5. OpOf(rec, step).attempts \in Nat
    BY <2>a, <2>b DEF OpOf, Record, Op
  <2>6. /\ db' = [rec' EXCEPT !.cancel = db.cancel]
        /\ Grows /\ OutcomeExplained' /\ SeenWithin(seen', db')
    <3>1. pc \in Operating
      BY <1>1 DEF Operating
    <3>2. QED  BY <1>1, <2>1, <2>2, <2>3, <2>4, <2>5, <3>1, OpWrite
  <2>7. CopyInv'
    BY <2>a, <2>1, <2>3, <2>6, WroteCopy
  <2>8. OpOf(rec', step) = OpAt(rec', rec, step) /\ step' = step /\ pc' = "register"
    BY <1>3, <2>1 DEF OpOf, OpAt
  <2>9. OpInv'
    BY <2>2, <2>8 DEF OpInv, Settled1, OpOf
  <2>10. SeenInv'
    <3>1. seen[rec.phase][step] <= OpOf(rec, step).attempts
      BY <2>a, <2>b DEF SeenWithin, OpOf, SameFacts
    <3>2. seen[rec.phase][step] \in Nat
      BY <2>a, <2>b DEF TypeOK
    <3>3. OpOf(rec', step').attempts > seen'[rec'.phase][step']
      BY <1>1, <2>1, <2>2, <2>5, <2>8, <3>1, <3>2
    <3>4. QED  BY <2>6, <3>3 DEF SeenInv, SeenWithin, OpOf
  <2>11. OrderInv'
    <3>1. topo \in Topology
      BY LifecycleAssumption DEF TypeOK, LifecycleAssumption
    <3>2. ~Settled1(OpOf(rec, step))
      BY <1>1 DEF RecordInv, OpInv, Operating
    <3>3. rec.phase = "unwind" => InReverse(rec', step)
      BY <1>1, <2>a, <2>b, <2>2, <3>1, <3>2, InReverseKept DEF RecordInv, OrderInv
    <3>4. rec'.phase = "unwind" => InReverse(rec, step)'
      BY <1>1, <2>1, <2>8, <3>3 DEF InReverse
    <3>5. QED  BY <2>8, <3>4 DEF OrderInv
  <2>12. QED  BY <2>6, <2>7, <2>9, <2>10, <2>11 DEF RecordInv
<1>4. QED  BY <1>2, <1>3 DEF Reserve, Goto

\* From the registration to the resolution nothing is written; registering
\* hands the reserved attempt's number to the handler.
LEMMA AttemptRecord ==
    ASSUME TypeOK, PhaseInv, CancelInv, RecordInv,
           Register \/ HandlerReturn \/ Deregister \/ ResolvePreempted
    PROVE  RecordInv' /\ Grows
<1>1. /\ pc \in {"register", "handler", "deregister", "resolve"}
      /\ pc' \in {"handler", "deregister", "resolve", "cancel"}
      /\ UNCHANGED <<db, rec, loaded, step, topo>>
  BY DEF Register, HandlerReturn, Deregister, ResolvePreempted, Goto, durable, engine
<1>a. /\ rec \in Record /\ rec.phase \in {"forward", "unwind"} /\ db \in Record
      /\ SeenWithin(seen, db) /\ SameFacts /\ SamePark /\ loaded
  BY <1>1, OperatingCopy DEF Operating
<1>b. step \in Steps
  BY <1>1 DEF PhaseInv, Operating
<1>2. Grows
  BY <1>1, NoWriteGrows
<1>3. CopyInv'
  BY <1>1, <1>a DEF RecordInv, CopyInv, SameFacts, SamePark, Terminal
<1>4. OpInv'
  BY <1>1 DEF RecordInv, OpInv, Operating, OpOf
<1>5. OrderInv'
  <2>1. pc' = "handler" => pc = "register"
    BY <1>1 DEF Register, HandlerReturn, Deregister, ResolvePreempted, Goto
  <2>2. QED  BY <1>1, <2>1 DEF RecordInv, OrderInv, InReverse
<1>6. SeenWithin(seen', db')
  <2>1. CASE Register
    <3>1. seen' = [seen EXCEPT ![rec.phase][step] = OpOf(rec, step).attempts]
      BY <2>1 DEF Register
    <3>2. \A s \in Steps : seen.forward[s] \in Nat /\ seen.unwind[s] \in Nat
      BY DEF TypeOK
    <3>5. \A s \in Steps : db.forward[s].attempts \in Nat /\ db.unwind[s].attempts \in Nat
      BY <1>a DEF Record, Op
    <3>3. CASE rec.phase = "forward"
      <4>1. seen'.unwind = seen.unwind /\ seen'.forward = [seen.forward EXCEPT ![step] = OpOf(rec, step).attempts]
        BY <3>1, <3>3 DEF TypeOK
      <4>2. \A s \in Steps : seen'.forward[s] = IF s = step THEN rec.forward[step].attempts ELSE seen.forward[s]
        BY <3>3, <4>1 DEF TypeOK, OpOf
      <4>3. QED  BY <1>1, <1>a, <3>5, <4>1, <4>2 DEF SeenWithin, SameFacts
    <3>4. CASE rec.phase = "unwind"
      <4>1. seen'.forward = seen.forward /\ seen'.unwind = [seen.unwind EXCEPT ![step] = OpOf(rec, step).attempts]
        BY <3>1, <3>4 DEF TypeOK
      <4>2. \A s \in Steps : seen'.unwind[s] = IF s = step THEN rec.unwind[step].attempts ELSE seen.unwind[s]
        BY <3>4, <4>1 DEF TypeOK, OpOf
      <4>3. QED  BY <1>1, <1>a, <3>5, <4>1, <4>2 DEF SeenWithin, SameFacts
    <3>6. QED  BY <1>a, <3>3, <3>4
  <2>2. CASE ~Register
    <3>1. seen' = seen
      BY <2>2 DEF HandlerReturn, Deregister, ResolvePreempted
    <3>2. QED  BY <1>1, <1>a, <3>1 DEF SeenWithin
  <2>3. QED  BY <2>1, <2>2
<1>7. SeenInv'
  BY <1>1, <1>6 DEF SeenInv, SeenWithin
<1>8. OutcomeExplained'
  BY <1>1 DEF RecordInv, OutcomeExplained, Terminal
<1>9. QED  BY <1>2, <1>3, <1>4, <1>5, <1>7, <1>8 DEF RecordInv

\* The resolution of an operation, by its handler or by a cancel request.
LEMMA ResolveRecord ==
    ASSUME TypeOK, PhaseInv, CancelInv, RecordInv, pc \in {"resolve", "cancel"},
           rec' \in Record, OnlyOp(rec', rec, step), rec'.outcome = "none",
           OpAt(rec', rec, step).attempts = OpOf(rec, step).attempts,
           \/ rec'.phase = rec.phase /\ rec'.failure = rec.failure
           \/ /\ rec.phase = "forward" /\ rec'.phase = "unwind" /\ rec'.failure # NoFailure
              /\ rec'.failure.kind = "canceled" =>
                    db.cancel # NoCause /\ rec'.failure.cause = db.cancel,
           Apply(rec', rec.phase, step), pc' = "take", seen' = seen
    PROVE  RecordInv' /\ Grows
<1>1. pc \in Operating
  BY DEF Operating
<1>a. rec \in Record /\ db \in Record /\ step \in Steps
  BY <1>1 DEF TypeOK, PhaseInv
<1>2. db' = Merge(rec', rec.phase, step)
  BY DEF Apply, Terminal
<1>3. OpOf(rec, step).attempts \in Nat
  BY <1>a DEF OpOf, Record, Op
<1>4. /\ db' = [rec' EXCEPT !.cancel = db.cancel]
      /\ Grows /\ OutcomeExplained' /\ SeenWithin(seen', db')
  BY <1>1, <1>2, <1>3, OpWrite
<1>5. CopyInv'
  BY <1>a, <1>4, WroteCopy
<1>6. OpInv' /\ OrderInv'
  BY DEF OpInv, OrderInv, Operating
<1>7. SeenInv'
  BY <1>4 DEF SeenInv, SeenWithin
<1>8. QED  BY <1>4, <1>5, <1>6, <1>7 DEF RecordInv

\* The handler's success or permanent failure.
LEMMA ResolveOpRecord ==
    ASSUME TypeOK, PhaseInv, CancelInv, RecordInv, ResolveOp
    PROVE  RecordInv' /\ Grows
<1>1. pc = "resolve" /\ seen' = seen
  BY DEF ResolveOp
<1>2. CASE StoreFault /\ Exit(TRUE)
  <2>1. db' = db
    BY <1>2 DEF StoreFault, durable
  <2>2. QED  BY <1>1, <1>2, <2>1, ExitRecordInv, NoWriteGrows
<1>3. CASE /\ rec' = IF res.out = "fail" /\ rec.phase = "forward"
                      THEN [Resolved(rec, step, "failed") EXCEPT
                              !.phase = "unwind",
                              !.failure = [kind |-> "failed", step |-> step,
                                           cause |-> NoCause]]
                      ELSE Resolved(rec, step, IF res.out = "fail" THEN "failed"
                                                                   ELSE "succeeded")
           /\ Apply(rec', rec.phase, step)
           /\ pc' = "take"
  <2>a. rec \in Record /\ step \in Steps /\ ~Terminal(rec)
    BY <1>1, OperatingCopy DEF PhaseInv, Operating
  <2> DEFINE f == Resolved(rec, step, "failed")
             k == Resolved(rec, step, "succeeded")
             why == [kind |-> "failed", step |-> step, cause |-> NoCause]
             g == [f EXCEPT !.phase = "unwind", !.failure = why]
  <2>1. /\ f \in Record /\ f.phase = rec.phase /\ f.outcome = rec.outcome
        /\ f.failure = rec.failure
        /\ k \in Record /\ k.phase = rec.phase /\ k.outcome = rec.outcome
        /\ k.failure = rec.failure
    BY <2>a, ResolvedType DEF OpState
  <2>2. /\ OnlyOp(f, rec, step) /\ OpAt(f, rec, step).attempts = OpOf(rec, step).attempts
        /\ OnlyOp(k, rec, step) /\ OpAt(k, rec, step).attempts = OpOf(rec, step).attempts
    BY <2>a, ResolvedOps DEF OpState
  <2>3. rec' \in {f, k} \/ (rec' = g /\ rec.phase = "forward")
    BY <1>3, Zenon
  <2>w. why \in Failure /\ why # NoFailure /\ why.kind = "failed"
    BY <2>a DEF Failure, NoFailure
  <2> HIDE DEF f, k, why
  <2>4. /\ g \in Record /\ g.phase = "unwind" /\ g.outcome = f.outcome
        /\ g.failure = why /\ g.forward = f.forward /\ g.unwind = f.unwind
    BY <2>1, <2>w DEF Record
  <2> HIDE DEF g
  <2>5. OnlyOp(g, rec, step) /\ OpAt(g, rec, step).attempts = OpOf(rec, step).attempts
    BY <2>2, <2>4 DEF OnlyOp, OpAt
  <2>6. /\ rec' \in Record /\ OnlyOp(rec', rec, step) /\ rec'.outcome = "none"
        /\ OpAt(rec', rec, step).attempts = OpOf(rec, step).attempts
    BY <2>a, <2>1, <2>2, <2>3, <2>4, <2>5 DEF Terminal
  <2>7. \/ rec'.phase = rec.phase /\ rec'.failure = rec.failure
        \/ /\ rec.phase = "forward" /\ rec'.phase = "unwind" /\ rec'.failure # NoFailure
           /\ rec'.failure.kind # "canceled"
    BY <2>1, <2>3, <2>4, <2>w
  <2>8. QED  BY <1>1, <1>3, <2>6, <2>7, ResolveRecord
<1>4. QED  BY <1>2, <1>3 DEF ResolveOp, Goto

\* The cancel request that ends the forward phase.
LEMMA CancelOperationRecord ==
    ASSUME TypeOK, PhaseInv, CancelInv, RecordInv, CancelOperation
    PROVE  RecordInv' /\ Grows
<1>1. pc = "cancel" /\ seen' = seen
  BY DEF CancelOperation
<1>2. CASE StoreFault /\ Exit(TRUE)
  <2>1. db' = db
    BY <1>2 DEF StoreFault, durable
  <2>2. QED  BY <1>1, <1>2, <2>1, ExitRecordInv, NoWriteGrows
<1>3. CASE /\ rec' = [Resolved(rec, step, "failed") EXCEPT
                        !.phase = "unwind", !.nextAt = FALSE, !.awaiting = NoStep,
                        !.failure = [kind |-> "canceled", step |-> step,
                                     cause |-> CancelCause]]
           /\ Apply(rec', "forward", step)
           /\ pc' = "take"
  <2>a. rec \in Record /\ step \in Steps /\ ~Terminal(rec) /\ rec.phase = "forward"
    BY <1>1, OperatingCopy DEF PhaseInv, Operating, CancelInv, CauseInv
  <2>b. CancelCause = db.cancel /\ db.cancel # NoCause /\ db.cancel \in Causes
    BY <1>1 DEF CancelInv, CauseInv, CancelCause, TypeOK, Record
  <2> DEFINE f == Resolved(rec, step, "failed")
             why == [kind |-> "canceled", step |-> step, cause |-> CancelCause]
  <2>1. f \in Record /\ f.phase = rec.phase /\ f.outcome = rec.outcome
    BY <2>a, ResolvedType DEF OpState
  <2>2. OnlyOp(f, rec, step) /\ OpAt(f, rec, step).attempts = OpOf(rec, step).attempts
    BY <2>a, ResolvedOps DEF OpState
  <2>w. why \in Failure /\ why # NoFailure /\ why.kind = "canceled" /\ why.cause = db.cancel
    BY <2>a, <2>b DEF Failure, NoFailure
  <2>3. rec' = [f EXCEPT !.phase = "unwind", !.nextAt = FALSE, !.awaiting = NoStep,
                         !.failure = why]
    BY <1>3
  <2> HIDE DEF f, why
  <2>4. /\ rec' \in Record /\ rec'.phase = "unwind" /\ rec'.outcome = f.outcome
        /\ rec'.failure = why /\ rec'.forward = f.forward /\ rec'.unwind = f.unwind
    BY <2>1, <2>3, <2>w DEF Record
  <2>5. /\ OnlyOp(rec', rec, step) /\ rec'.outcome = "none"
        /\ OpAt(rec', rec, step).attempts = OpOf(rec, step).attempts
    BY <2>a, <2>1, <2>2, <2>4 DEF OnlyOp, OpAt, Terminal
  <2>6. Apply(rec', rec.phase, step)
    BY <1>3, <2>a
  <2>7. QED  BY <1>1, <1>3, <2>a, <2>b, <2>4, <2>5, <2>6, <2>w, ResolveRecord
<1>4. QED  BY <1>2, <1>3 DEF CancelOperation, Goto

\* A retry and a park write the record without touching an operation.
LEMMA RetryRecord ==
    ASSUME TypeOK, PhaseInv, CancelInv, RecordInv, ResolveRetry
    PROVE  RecordInv' /\ Grows
<1> DEFINE r == [rec EXCEPT !.nextAt = TRUE, !.lastError = step]
<1>1. pc = "resolve" /\ seen' = seen /\ Exit(TRUE)
  BY DEF ResolveRetry
<1>2. CASE StoreFault
  <2>1. db' = db
    BY <1>2 DEF StoreFault, durable
  <2>2. QED  BY <1>1, <2>1, ExitRecordInv, NoWriteGrows
<1>3. CASE ApplyDelayed(r, rec.phase, step)
  <2>a. rec \in Record /\ step \in Steps /\ ~Terminal(rec)
    BY <1>1, OperatingCopy DEF PhaseInv, Operating
  <2>1. /\ r \in Record /\ r.outcome = "none" /\ r.phase = rec.phase
        /\ r.failure = rec.failure /\ r.forward = rec.forward /\ r.unwind = rec.unwind
    BY <2>a DEF Record, Terminal
  <2>2. db' = Merge(r, rec.phase, step)
    BY <1>3 DEF ApplyDelayed
  <2> HIDE DEF r
  <2>3. OnlyOp(r, rec, step) /\ OpAt(r, rec, step) = OpOf(rec, step)
    BY <2>1 DEF OnlyOp, OpAt, OpOf
  <2>4. OpOf(rec, step).attempts \in Nat
    BY <2>a DEF OpOf, Record, Op
  <2>5. Grows /\ OutcomeExplained' /\ ~Terminal(db') /\ SeenWithin(seen', db')
    <3>1. pc \in Operating
      BY <1>1 DEF Operating
    <3>2. OpAt(r, rec, step).attempts >= OpOf(rec, step).attempts
      BY <2>3, <2>4
    <3>3. QED  BY <1>1, <2>1, <2>2, <2>3, <3>1, <3>2, OpWrite
  <2>6. QED  BY <1>1, <2>5, ExitRecordInv
<1>4. QED  BY <1>2, <1>3 DEF ResolveRetry

LEMMA ParkRecord ==
    ASSUME TypeOK, PhaseInv, CancelInv, RecordInv, Park
    PROVE  RecordInv' /\ Grows
<1>1. pc = "resolve" /\ seen' = seen
  BY DEF Park
<1>2. CASE StoreFault /\ Exit(TRUE)
  <2>1. db' = db
    BY <1>2 DEF StoreFault, durable
  <2>2. QED  BY <1>1, <1>2, <2>1, ExitRecordInv, NoWriteGrows
<1>3. CASE /\ rec' = [rec EXCEPT !.awaiting = step, !.awaited = NoStep]
           /\ db' = Merge(rec', rec.phase, step)
           /\ pc' = "cycle" /\ UNCHANGED <<loaded, step, res>>
  <2>a. rec \in Record /\ db \in Record /\ step \in Steps /\ ~Terminal(rec)
    BY <1>1, OperatingCopy DEF PhaseInv, Operating
  <2>1. /\ rec' \in Record /\ rec'.outcome = "none" /\ rec'.phase = rec.phase
        /\ rec'.failure = rec.failure /\ rec'.forward = rec.forward
        /\ rec'.unwind = rec.unwind
    BY <1>3, <2>a DEF Record, Terminal
  <2>2. db' = Merge(rec', rec.phase, step)
    BY <1>3
  <2>3. OnlyOp(rec', rec, step) /\ OpAt(rec', rec, step) = OpOf(rec, step)
    BY <2>1 DEF OnlyOp, OpAt, OpOf
  <2>4. OpOf(rec, step).attempts \in Nat
    BY <2>a DEF OpOf, Record, Op
  <2>5. /\ Grows /\ OutcomeExplained' /\ SeenWithin(seen', db')
        /\ db' = [rec' EXCEPT !.cancel = db.cancel]
    <3>1. pc \in Operating
      BY <1>1 DEF Operating
    <3>2. OpAt(rec', rec, step).attempts >= OpOf(rec, step).attempts
      BY <2>3, <2>4
    <3>3. QED  BY <1>1, <2>1, <2>2, <2>3, <3>1, <3>2, OpWrite
  <2>6. CopyInv'
    BY <2>a, <2>1, <2>5, WroteCopy
  <2>7. OpOf(rec', step') = OpOf(rec, step) /\ pc' = "cycle"
    BY <1>3, <2>1 DEF OpOf
  <2>8. OpInv'
    <3>1. OpOf(rec, step).status = "unresolved"
      BY <1>1 DEF RecordInv, OpInv
    <3>2. OpOf(rec', step').status = "unresolved"
      BY <2>7, <3>1
    <3>3. QED  BY <3>2 DEF OpInv, Settled1, OpOf
  <2>9. SeenInv' /\ OrderInv'
    BY <2>5, <2>7 DEF SeenInv, SeenWithin, OrderInv
  <2>10. QED  BY <2>5, <2>6, <2>8, <2>9 DEF RecordInv
<1>4. QED  BY <1>2, <1>3 DEF Park, Goto

\* The cycle check and the ends of an attempt that write nothing.
LEMMA OperateRecord ==
    ASSUME TypeOK, PhaseInv, CancelInv, RecordInv, Operate
    PROVE  RecordInv' /\ Grows
<1>1. CASE ResolveInvalid \/ ResolveInterrupted
  <2>1. Exit(FALSE) /\ UNCHANGED <<db, seen>>
    BY <1>1 DEF ResolveInvalid, ResolveInterrupted, MarkInvalid, durable
  <2>2. QED  BY <2>1, ExitRecordInv, NoWriteGrows
<1>2. CASE CycleCheck
  <2>1. pc = "cycle" /\ UNCHANGED <<db, seen, topo>>
    BY <1>2 DEF CycleCheck, StoreFault, durable, engine
  <2>2. CASE Exit(TRUE) \/ Exit(FALSE)
    BY <2>1, <2>2, ExitRecordInv, NoWriteGrows
  <2>3. CASE ~(Exit(TRUE) \/ Exit(FALSE))
    <3>1. pc' = "take" /\ UNCHANGED <<loaded, rec>>
      BY <1>2, <2>3 DEF CycleCheck, Goto, MarkInvalid
    <3>2. loaded /\ SameFacts /\ SamePark
      BY <2>1, OperatingCopy DEF Operating
    <3>3. OpInv' /\ OrderInv'
      BY <3>1 DEF OpInv, OrderInv, Operating
    <3>4. RecordInv'
      BY <2>1, <3>1, <3>2, <3>3, QuietRecord
    <3>5. QED  BY <2>1, <3>4, NoWriteGrows
  <2>4. QED  BY <2>2, <2>3
<1>3. QED
  BY <1>1, <1>2, ReserveRecord, AttemptRecord, ResolveOpRecord, RetryRecord,
     ParkRecord, CancelOperationRecord DEF Operate

\* The commit: success only from the forward phase, which has no Failure.
LEMMA CommitRecord ==
    ASSUME TypeOK, PhaseInv, CancelInv, RecordInv, Commit \/ Finish
    PROVE  RecordInv' /\ Grows
<1>1. CASE Commit
  <2>1. pc = "commit" /\ seen' = seen
    BY <1>1 DEF Commit
  <2>2. CASE StoreFault /\ Exit(FALSE)
    <3>1. db' = db
      BY <2>2 DEF StoreFault, durable
    <3>2. QED  BY <2>1, <2>2, <3>1, ExitRecordInv, NoWriteGrows
  <2>3. CASE /\ rec' = [rec EXCEPT !.phase = "done",
                          !.outcome = IF rec.phase = "forward" THEN "success"
                                                               ELSE "failure"]
             /\ Apply(rec', "done", NoStep)
             /\ pc' = "finish"
    <3>a. /\ rec \in Record /\ DurableOK /\ ~Terminal(db) /\ SameFacts
          /\ rec.phase \in {"forward", "unwind"}
      BY <2>1, OperatingCopy, TypeParts
    <3>1. /\ rec' \in Record /\ rec'.phase = "done" /\ rec'.failure = rec.failure
          /\ rec'.outcome = IF rec.phase = "forward" THEN "success" ELSE "failure"
      BY <2>3, <3>a DEF Record
    <3>2. Apply(rec', "done", NoStep)
      BY <2>3
    <3>3. /\ db'.phase = "done" /\ db'.outcome = rec'.outcome
          /\ db'.failure = IF rec'.failure = NoFailure THEN db.failure ELSE rec'.failure
          /\ db'.cancel = db.cancel
      BY <3>a, <3>1, <3>2, ApplyType
    <3>4. Terminal(db') /\ Terminal(rec') /\ db'.failure = db.failure
      BY <3>a, <3>1, <3>3 DEF Terminal, SameFacts
    <3>5. Grows
      BY <3>a, <3>3, <3>4 DEF Grows
    <3>6. OutcomeExplained'
      BY <3>a, <3>1, <3>3, <3>4 DEF RecordInv, OutcomeExplained, SameFacts
    <3>7. CopyInv' /\ OpInv' /\ OrderInv' /\ SeenInv'
      BY <2>3, <3>4 DEF CopyInv, OpInv, OrderInv, SeenInv, Past, Operating, Terminal
    <3>8. QED  BY <3>5, <3>6, <3>7 DEF RecordInv
  <2>4. QED  BY <1>1, <2>2, <2>3 DEF Commit, Goto
<1>2. CASE Finish
  <2>1. pc = "finish" /\ UNCHANGED <<db, seen, topo>>
    BY <1>2 DEF Finish, durable, engine
  <2>2. CASE Exit(FALSE)
    BY <2>1, <2>2, ExitRecordInv, NoWriteGrows
  <2>3. CASE ~Exit(FALSE)
    <3>1. pc' = "take" /\ UNCHANGED <<loaded, rec>> /\ rec.outcome = "success"
      BY <1>2, <2>3 DEF Finish, Goto
    <3>2. Terminal(rec)
      BY <3>1 DEF Terminal
    <3>3. OpInv' /\ OrderInv'
      BY <3>1 DEF OpInv, OrderInv, Operating
    <3>4. RecordInv'
      BY <2>1, <3>1, <3>2, <3>3, QuietRecord
    <3>5. QED  BY <2>1, <3>4, NoWriteGrows
  <2>4. QED  BY <2>2, <2>3
<1>3. QED  BY <1>1, <1>2

\* Steps of others: the worker stays where it is, and the store's record keeps
\* everything but, perhaps, its cancel request.
LEMMA OthersRecord ==
    ASSUME TypeOK, RecordInv, UNCHANGED <<rec, step, loaded, seen, topo>>,
           pc' = pc \/ (pc \in {"idle", "queued"} /\ pc' \in {"idle", "queued"}),
           \/ db' = db
           \/ \E c \in Causes : /\ ~Terminal(db) /\ db.cancel = NoCause
                                /\ db' = [db EXCEPT !.cancel = c]
    PROVE  RecordInv' /\ Grows
<1>a. db \in Record
  BY DEF TypeOK
<1>1. /\ db'.phase = db.phase /\ db'.outcome = db.outcome
      /\ db'.forward = db.forward /\ db'.unwind = db.unwind
      /\ db'.failure = db.failure /\ db'.nextAt = db.nextAt
      /\ db'.lastError = db.lastError /\ db'.started = db.started
      /\ db'.awaiting = db.awaiting /\ db'.awaited = db.awaited
      /\ db.cancel # NoCause => db'.cancel = db.cancel
      /\ Terminal(db) => db' = db
  BY <1>a DEF Record, Terminal
<1>2. CopyInv'
  BY <1>1 DEF RecordInv, CopyInv, SameFacts, SamePark, Past, Operating, Terminal
<1>3. OpInv' /\ OrderInv'
  BY DEF RecordInv, OpInv, OrderInv, OpOf, Operating, InReverse, Compensated
<1>4. SeenInv'
  BY <1>1 DEF RecordInv, SeenInv, OpOf, Terminal
<1>5. OutcomeExplained'
  BY <1>1 DEF RecordInv, OutcomeExplained, Terminal
<1>6. \A s \in Steps : db.forward[s].attempts \in Nat /\ db.unwind[s].attempts \in Nat
  BY <1>a DEF Record, Op
<1>7. Grows
  BY <1>1, <1>6 DEF Grows
<1>8. QED  BY <1>2, <1>3, <1>4, <1>5, <1>7 DEF RecordInv

\* A poke.
LEMMA PokeRecord ==
    ASSUME TypeOK, PhaseInv, RecordInv, Poke, UNCHANGED <<db, seen, topo>>
    PROVE  RecordInv' /\ Grows
<1>1. UNCHANGED <<rec, step, loaded>> /\ (pc' = pc \/ (pc = "idle" /\ pc' = "queued"))
  BY TypeParts, PokeType
<1>2. QED  BY <1>1, OthersRecord

\* A cancel request writes nothing but itself.
LEMMA RequestRecord ==
    ASSUME TypeOK, PhaseInv, CancelInv, RecordInv, NEW c \in Causes, Cancel(c)
    PROVE  RecordInv' /\ Grows
<1>1. CASE CancelRequest(c)
  <2>1. UNCHANGED <<rec, step, loaded, seen, topo, pc>>
    BY <1>1 DEF CancelRequest, worker, engine
  <2>2. \/ db' = db
        \/ ~Terminal(db) /\ db.cancel = NoCause /\ db' = [db EXCEPT !.cancel = c]
    BY <1>1 DEF CancelRequest
  <2>3. QED  BY <2>1, <2>2, OthersRecord
<1>2. CASE CancelMark(c) \/ CancelPreempt(c)
  <2>1. UNCHANGED <<db, rec, step, loaded, seen, topo, pc>>
    BY <1>2 DEF CancelMark, CancelPreempt, worker, engine, durable
  <2>2. QED  BY <2>1, OthersRecord
<1>3. CASE CancelPoke(c)
  <2>1. Poke /\ UNCHANGED <<db, seen, topo>>
    BY <1>3 DEF CancelPoke, durable, engine
  <2>2. QED  BY <2>1, PokeRecord
<1>4. QED  BY <1>1, <1>2, <1>3 DEF Cancel

\* Time, targets, shutdown, crash and redeployment.
LEMMA EnvironmentRecord ==
    ASSUME TypeOK, PhaseInv, CancelInv, RecordInv, Environment
    PROVE  RecordInv' /\ Grows
<1>1. CASE TimePasses \/ TargetsDone \/ DeadlinePasses
  <2>1. UNCHANGED <<db, seen, topo>>
    BY <1>1 DEF TimePasses, TargetsDone, DeadlinePasses, engine
  <2>2. CASE Poke
    BY <2>1, <2>2, PokeRecord
  <2>3. CASE ~Poke
    <3>1. UNCHANGED <<pc, rec, step, loaded>>
      BY <1>1, <2>3 DEF TimePasses, TargetsDone, DeadlinePasses, worker
    <3>2. QED  BY <2>1, <3>1, OthersRecord
  <2>4. QED  BY <2>2, <2>3
<1>2. CASE Drain \/ StopEngine \/ Quiescent
  <2>1. UNCHANGED <<db, rec, step, loaded, seen, topo, pc>>
    BY <1>2 DEF Drain, StopEngine, Quiescent, vars, worker, engine, durable
  <2>2. QED  BY <2>1, OthersRecord
<1>3. CASE ProcessEnds
  <2>1. /\ pc' = "idle" /\ loaded' = FALSE /\ rec' = NewRecord(FALSE)
        /\ UNCHANGED <<db, seen>>
    BY <1>3 DEF ProcessEnds, durable
  <2>2. ~Terminal(rec')
    BY <2>1, NewRecordType
  <2>3. CopyInv' /\ OpInv' /\ OrderInv'
    BY <2>1, <2>2 DEF CopyInv, OpInv, OrderInv, Past, Operating
  <2>4. SeenInv' /\ OutcomeExplained'
    BY <2>1 DEF RecordInv, SeenInv, OutcomeExplained, Terminal
  <2>5. QED  BY <2>1, <2>3, <2>4, NoWriteGrows DEF RecordInv
<1>4. CASE Restart
  <2>1. /\ UNCHANGED <<db, rec, loaded, seen>> /\ status = "down"
        /\ pc' \in {"idle", "queued"}
    BY <1>4 DEF Restart, durable
  <2>2. pc \in {"idle", "queued"}
    BY <2>1 DEF CancelInv, PreemptInv
  <2>3. CopyInv' /\ OpInv' /\ OrderInv'
    BY <2>1, <2>2 DEF RecordInv, CopyInv, OpInv, OrderInv, Past, Operating, Terminal
  <2>4. SeenInv' /\ OutcomeExplained'
    BY <2>1 DEF RecordInv, SeenInv, OutcomeExplained, Terminal
  <2>5. QED  BY <2>1, <2>3, <2>4, NoWriteGrows DEF RecordInv
<1>5. QED  BY <1>1, <1>2, <1>3, <1>4 DEF Environment

\* The whole invariant is inductive.
Inv == TypeOK /\ PhaseInv /\ CancelInv /\ RecordInv

LEMMA InitInv == Init => Inv
  BY InitType, InitCancel, InitRecord DEF Inv

LEMMA RecordStep ==
    ASSUME Inv, [Next]_vars
    PROVE  RecordInv' /\ Grows
<1> USE DEF Inv
<1>1. CASE UNCHANGED vars
  <2>1. UNCHANGED <<db, rec, step, loaded, seen, topo, pc>>
    BY <1>1 DEF vars, worker, engine, durable
  <2>2. QED  BY <2>1, OthersRecord
<1>2. QED
  BY <1>1, PassRecord, OperateRecord, CommitRecord, RequestRecord, EnvironmentRecord
  DEF Next

LEMMA InvStep == Inv /\ [Next]_vars => Inv'
  BY TypeStep, CancelStep, RecordStep DEF Inv
-----------------------------------------------------------------------------
(* The theorems.                                                            *)

\* processRun's carried record: at every decision the worker's copy is the
\* store's but for a cancel request, and a request it lacks is announced.
THEOREM CarriedRecordAlways == Spec => []CarriedRecord
<1>1. Inv => CarriedRecord
  <2> SUFFICES ASSUME Inv PROVE CarriedRecord
    OBVIOUS
  <2>1. ASSUME pc = "decide", ~Terminal(rec)
        PROVE  [rec EXCEPT !.cancel = db.cancel] = db
    <3>1. SameFacts /\ SamePark /\ rec \in Record /\ db \in Record
      BY <2>1 DEF Inv, RecordInv, CopyInv, CancelInv, PreemptInv, Past, TypeOK
    <3>2. QED  BY <3>1 DEF SameFacts, SamePark, Record
  <2>2. ASSUME Carrying, ~Terminal(db), rec.cancel # db.cancel, Marked
        PROVE  dirty
    <3>1. pc \in Past \cup {"take", "finish"} /\ loaded
      BY <2>2 DEF Inv, Carrying, CancelInv, PreemptInv, TypeOK, WorkerPc, Past, Operating
    <3>2. db.cancel \in Causes
      BY <2>2 DEF Inv, CancelInv, CauseInv, TypeOK, Record
    <3>3. QED  BY <2>2, <3>1, <3>2 DEF Inv, CancelInv, PreemptInv, Marked
  <2>3. QED  BY <2>1, <2>2 DEF CarriedRecord
<1>2. QED  BY <1>1, InitInv, InvStep, PTL DEF Spec

\* runForward and runUnwind: the attempt a handler is about to be given is
\* durable, and its number was never given before.
THEOREM ReservedBeforeInvokedAlways == Spec => []ReservedBeforeInvoked
<1>1. Inv => ReservedBeforeInvoked
  <2> SUFFICES ASSUME Inv, pc = "register"
               PROVE  /\ OpOf(db, step) = OpOf(rec, step)
                      /\ OpOf(db, step).status = "unresolved"
                      /\ OpOf(db, step).attempts > seen[rec.phase][step]
    BY DEF ReservedBeforeInvoked
  <2>1. SameFacts
    BY OperatingCopy DEF Inv, Operating
  <2>2. OpOf(db, step) = OpOf(rec, step)
    BY <2>1 DEF SameFacts, OpOf
  <2>3. QED  BY <2>2 DEF Inv, RecordInv, OpInv, SeenInv
<1>2. QED  BY <1>1, InitInv, InvStep, PTL DEF Spec

\* reduceAndComplete and cancelOperation: the outcome, the phase and the
\* Failure of the stored record explain each other.
THEOREM OutcomeExplainedAlways == Spec => []OutcomeExplained
<1>1. Inv => OutcomeExplained
  BY DEF Inv, RecordInv
<1>2. QED  BY <1>1, InitInv, InvStep, PTL DEF Spec

\* NextUnwind: nothing that succeeded is left uncompensated by a Run that
\* commits failure, and unwinds run in reverse order, whatever deployments,
\* faults and crashes came between.
THEOREM UnwindSoundAlways == Spec => []UnwindSound
<1>1. Inv => UnwindSound
  <2> SUFFICES ASSUME Inv PROVE UnwindSound
    OBVIOUS
  <2>1. pc \in {"commit", "handler"} => SameFacts
    BY OperatingCopy DEF Inv, Operating
  <2>2. CompensationComplete
    BY <2>1 DEF Inv, RecordInv, OrderInv, Compensated, CompensationComplete, SameFacts
  <2>3. UnwindInReverse
    BY <2>1 DEF Inv, RecordInv, OrderInv, InReverse, UnwindInReverse, SameFacts
  <2>4. QED  BY <2>2, <2>3 DEF UnwindSound
<1>2. QED  BY <1>1, InitInv, InvStep, PTL DEF Spec

\* What is durable is never taken back by any step of the worker, a cancel
\* request, a crash or a redeployment.
THEOREM DurableMonotoneAlways == Spec => DurableMonotone
<1>1. Inv /\ [Next]_vars => [Grows]_db
  BY RecordStep
<1>2. Spec => [][Grows]_db
  BY <1>1, InitInv, InvStep, PTL DEF Spec
<1>3. QED  BY <1>2 DEF DurableMonotone, Grows
-----------------------------------------------------------------------------
(* No Run is stranded.                                                      *)

\* Until a store call fails no Run is stranded; an attempt counts as
\* interrupted only by a shutdown that is still under way, and a worker that
\* finishes has committed.
StrandInv ==
    /\ faults = 0 => NeverStranded
    /\ res.interrupted => status = "stopping"
    /\ pc = "finish" => Terminal(rec)

\* A worker that returns leaves the Run redispatched, terminal, invalid, or
\* parked on targets whose completion pokes it; or the Engine is stopping.
LEMMA ExitStrand ==
    ASSUME NEW again \in BOOLEAN, Exit(again), UNCHANGED <<status, draining>>,
           \/ again
           \/ status # "up" \/ draining
           \/ Terminal(db') \/ invalid'
           \/ join' /\ ~targets' /\ ~expired'
           \/ faults' # 0
    PROVE  StrandInv'
<1>1. res' = NoResult
  BY DEF Exit
<1>2. ~res'.interrupted
  BY <1>1, Zenon DEF NoResult
<1>3. NeverStranded' \/ faults' # 0
  BY DEF Exit, NeverStranded
<1>4. pc' # "finish"
  BY DEF Exit
<1>5. QED  BY <1>2, <1>3, <1>4 DEF StrandInv

\* A store call that fails is counted.
LEMMA FaultCounted ==
    ASSUME TypeOK, StoreFault
    PROVE  faults' # 0 /\ UNCHANGED durable
  BY DEF TypeOK, StoreFault

\* The worker keeps a Run it works on, and every return is accounted for.
LEMMA WorkerStrand ==
    ASSUME Inv, StrandInv, Pass \/ Operate \/ Commit \/ Finish
    PROVE  StrandInv'
<1>a. TypeOK /\ (Terminal(rec) => Terminal(db))
  BY DEF Inv, RecordInv, CopyInv
<1>u. UNCHANGED <<status, draining>>
  BY DEF Pass, Begin, BeginStopped, Take, Read, DecideStop, DecideCancel, DecideRun,
         DecideComplete, Operate, Reserve, Register, HandlerReturn, Deregister,
         ResolveInvalid, ResolvePreempted, ResolveOp, ResolveInterrupted, ResolveRetry,
         Park, CycleCheck, CancelOperation, Commit, Finish, engine
<1>1. CASE Exit(TRUE)
  BY <1>1, <1>u, ExitStrand
<1>2. CASE Exit(FALSE) /\ ~Exit(TRUE)
  <2>1. CASE BeginStopped \/ Take
    <3>1. status # "up" \/ draining
      BY <1>2, <2>1 DEF BeginStopped, Take, Exit, Goto
    <3>2. QED  BY <1>2, <1>u, <3>1, ExitStrand
  <2>2. CASE DecideStop
    <3>1. db' = db /\ targets' = targets /\ expired' = expired
      BY <2>2 DEF DecideStop, durable
    <3>2. \/ Terminal(db') \/ invalid' \/ draining
          \/ join' /\ ~targets' /\ ~expired'
      BY <1>2, <1>a, <2>2, <3>1 DEF DecideStop, MarkInvalid, Parked, Terminal
    <3>3. QED  BY <1>2, <1>u, <3>2, ExitStrand
  <2>3. CASE DecideComplete \/ ResolveInvalid \/ CycleCheck
    <3>1. invalid'
      BY <1>2, <2>3 DEF DecideComplete, ResolveInvalid, CycleCheck, MarkInvalid, Exit, Goto
    <3>2. QED  BY <1>2, <1>u, <3>1, ExitStrand
  <2>4. CASE ResolveInterrupted
    <3>1. status # "up"
      BY <2>4 DEF ResolveInterrupted, StrandInv
    <3>2. QED  BY <1>2, <1>u, <3>1, ExitStrand
  <2>5. CASE Commit
    <3>1. faults' # 0
      BY <1>2, <1>a, <2>5, FaultCounted DEF Commit, Exit, Goto
    <3>2. QED  BY <1>2, <1>u, <3>1, ExitStrand
  <2>6. CASE Finish
    <3>1. Terminal(db')
      BY <2>6, <1>a DEF Finish, durable, Terminal, StrandInv
    <3>2. QED  BY <1>2, <1>u, <3>1, ExitStrand
  <2>7. CASE \/ Begin \/ Read \/ DecideCancel \/ DecideRun
             \/ Reserve \/ Register \/ HandlerReturn \/ Deregister
             \/ ResolvePreempted \/ ResolveOp \/ ResolveRetry \/ Park \/ CancelOperation
    <3>1. pc' \notin {"idle", "queued"}
      BY <1>2, <2>7 DEF Begin, Read, DecideCancel, DecideRun, Reserve, Register,
         HandlerReturn, Deregister, ResolvePreempted, ResolveOp, ResolveRetry, Park,
         CancelOperation, Goto
    <3>2. QED  BY <1>2, <3>1 DEF Exit
  <2>8. QED
    BY <2>1, <2>2, <2>3, <2>4, <2>5, <2>6, <2>7 DEF Pass, Operate
<1>3. CASE ~Exit(FALSE) /\ ~Exit(TRUE)
  <2>1. pc' # "idle"
    BY <1>3 DEF Pass, Begin, BeginStopped, Take, Read, DecideStop, DecideCancel, DecideRun,
         DecideComplete, Operate, Reserve, Register, HandlerReturn, Deregister,
         ResolveInvalid, ResolvePreempted, ResolveOp, ResolveInterrupted, ResolveRetry,
         Park, CycleCheck, CancelOperation, Commit, Finish, MarkInvalid, Goto
  <2>2. res' = res \/ res' = NoResult \/ (res'.interrupted => status = "stopping")
    <3>1. CASE HandlerReturn
      <4>1. PICK out \in Returned :
              res' = [out |-> out,
                      preempted |-> IF out = "panic" THEN NoCause ELSE cut,
                      interrupted |-> out # "panic" /\ cut = NoCause
                                      /\ status = "stopping"]
        BY <3>1, Zenon DEF HandlerReturn
      <4>2. res'.interrupted = (out # "panic" /\ cut = NoCause /\ status = "stopping")
        BY <4>1, Zenon
      <4>3. QED  BY <4>2
    <3>2. CASE ~HandlerReturn
      BY <1>3, <3>2 DEF Pass, Begin, BeginStopped, Take, Read, DecideStop, DecideCancel,
         DecideRun, DecideComplete, Operate, Reserve, Register, Deregister,
         ResolveInvalid, ResolvePreempted, ResolveOp, ResolveInterrupted, ResolveRetry,
         Park, CycleCheck, CancelOperation, Commit, Finish, MarkInvalid
    <3>3. QED  BY <3>1, <3>2
  <2>5. pc' = "finish" => Terminal(rec')
    <3>1. pc' = "finish" => Commit
      BY <1>3 DEF Pass, Begin, BeginStopped, Take, Read, DecideStop, DecideCancel,
         DecideRun, DecideComplete, Operate, Reserve, Register, HandlerReturn, Deregister,
         ResolveInvalid, ResolvePreempted, ResolveOp, ResolveInterrupted, ResolveRetry,
         Park, CycleCheck, CancelOperation, Finish, MarkInvalid, Goto
    <3>2. ASSUME Commit
          PROVE  Terminal(rec')
      <4>1. rec' = [rec EXCEPT !.phase = "done",
                      !.outcome = IF rec.phase = "forward" THEN "success"
                                                           ELSE "failure"]
        BY <1>3, <3>2 DEF Commit
      <4>2. rec \in Record
        BY <1>a DEF TypeOK
      <4>3. QED  BY <4>1, <4>2 DEF Terminal, Record
    <3>3. QED  BY <3>1, <3>2
  <2>3. ~NoResult.interrupted
    BY Zenon DEF NoResult
  <2>4. QED  BY <1>u, <2>1, <2>2, <2>3, <2>5 DEF StrandInv, NeverStranded
<1>4. QED  BY <1>1, <1>2, <1>3

\* A poke gives an idle Run a worker, and a worker stays.
LEMMA PokeStrand ==
    ASSUME StrandInv, Poke, UNCHANGED <<status>>
    PROVE  StrandInv'
<1>1. pc' # "idle" /\ UNCHANGED <<rec, res>> /\ (pc' = "finish" => pc = "finish")
  BY DEF Poke
<1>2. QED  BY <1>1 DEF StrandInv, NeverStranded, Terminal

\* Cancel requests, time, targets, shutdown, crash and redeployment.
LEMMA OthersStrand ==
    ASSUME StrandInv, (\E c \in Causes : Cancel(c)) \/ Environment, TypeOK
    PROVE  StrandInv'
<1>1. CASE Poke /\ UNCHANGED status
  BY <1>1, PokeStrand
<1>2. CASE ~(Poke /\ UNCHANGED status)
  <2>1. ASSUME NEW c \in Causes, Cancel(c)
        PROVE  StrandInv'
    <3>1. /\ UNCHANGED <<status, draining, invalid, pc, join, targets, expired, res, rec, faults>>
          /\ Terminal(db) => Terminal(db')
      BY <1>2, <2>1 DEF Cancel, CancelRequest, CancelMark, CancelPreempt, CancelPoke, engine,
         worker, counters, durable, Terminal
    <3>2. QED  BY <3>1 DEF StrandInv, NeverStranded, Terminal
  <2>2. CASE TimePasses \/ Quiescent
    <3>1. UNCHANGED <<db, status, draining, invalid, pc, join, targets, expired, res, rec,
                      faults>>
      BY <2>2 DEF TimePasses, Quiescent, vars, engine, worker, counters, durable
    <3>2. QED  BY <3>1 DEF StrandInv, NeverStranded, Terminal
  <2>3. CASE TargetsDone \/ DeadlinePasses
    <3>1. ~join /\ UNCHANGED <<db, status, draining, invalid, pc, join, res, rec, faults>>
      BY <1>2, <2>3 DEF TargetsDone, DeadlinePasses, engine, worker, counters
    <3>2. QED  BY <3>1 DEF StrandInv, NeverStranded, Terminal
  <2>4. CASE Drain \/ StopEngine
    <3>1. /\ UNCHANGED <<res, rec, pc>> /\ (draining' \/ status' = "stopping")
          /\ status = "up" /\ status' # "down"
      BY <2>4 DEF Drain, StopEngine, worker
    <3>2. QED  BY <3>1 DEF StrandInv, NeverStranded, Terminal
  <2>5. CASE ProcessEnds
    <3>1. status' = "down" /\ res' = NoResult /\ pc' = "idle"
      BY <2>5 DEF ProcessEnds
    <3>2. ~res'.interrupted
      BY <3>1, Zenon DEF NoResult
    <3>3. QED  BY <3>1, <3>2 DEF StrandInv, NeverStranded
  <2>6. CASE Restart
    <3>1. /\ pc' = IF Terminal(db) THEN "idle" ELSE "queued"
          /\ status = "down" /\ UNCHANGED <<db, res>>
      BY <2>6 DEF Restart, durable
    <3>2. ~res.interrupted
      BY <3>1 DEF StrandInv
    <3>3. QED  BY <3>1, <3>2 DEF StrandInv, NeverStranded, Terminal
  <2>7. QED
    BY <2>1, <2>2, <2>3, <2>4, <2>5, <2>6 DEF Environment
<1>3. QED  BY <1>1, <1>2

\* Dispatcher contract: as long as no store call has failed, a Run that is
\* neither terminal nor invalid has a worker, or is parked on targets whose
\* completion pokes it, whatever cancel requests, shutdowns, crashes and
\* redeployments came between.  (A failed commit does strand the Run until
\* the next Start.)
THEOREM NeverStrandedWithoutFaults == Spec => [](faults = 0 => NeverStranded)
<1>1. Init => Inv /\ StrandInv
  <2>1. Init => StrandInv
    <3>1. Init => res = NoResult /\ pc = "queued"
      BY DEF Init
    <3>2. ~NoResult.interrupted
      BY Zenon DEF NoResult
    <3>3. QED  BY <3>1, <3>2 DEF StrandInv, NeverStranded
  <2>2. QED  BY <2>1, InitInv
<1>2. Inv /\ StrandInv /\ [Next]_vars => (Inv /\ StrandInv)'
  <2>1. ASSUME StrandInv, UNCHANGED vars
        PROVE  StrandInv'
    <3>1. UNCHANGED <<db, status, draining, invalid, pc, join, targets, expired, res, rec,
                      faults>>
      BY <2>1 DEF vars, engine, worker, counters, durable
    <3>2. QED  BY <2>1, <3>1 DEF StrandInv, NeverStranded, Terminal
  <2>2. QED
    BY <2>1, InvStep, WorkerStrand, OthersStrand DEF Next, Inv
<1>3. StrandInv => (faults = 0 => NeverStranded)
  BY DEF StrandInv
<1>4. QED  BY <1>1, <1>2, <1>3, PTL DEF Spec
===============================================================================
