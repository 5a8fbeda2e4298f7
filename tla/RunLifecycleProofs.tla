------------------------- MODULE RunLifecycleProofs -------------------------
(***************************************************************************)
(* TLAPS proofs about RunLifecycle, for every set of Steps, topologies,     *)
(* cancel causes and bounds.                                                *)
(***************************************************************************)
EXTENDS RunLifecycle, TLAPS, WellFoundedInduction

-----------------------------------------------------------------------------
(* The ledger's decisions name Steps of the topology.                       *)

\* A nonempty set of naturals has a least element.
LEMMA LeastElement ==
    ASSUME NEW S, S \subseteq Nat, S # {}
    PROVE  \E i \in S : \A j \in S : i <= j
<1>1. PICK x \in S : \A y \in S : ~(<<y, x>> \in OpToRel(<, Nat))
  BY NatLessThanWellFounded, WFMin, Zenon
<1>2. \A y \in S : ~(y < x)
  BY <1>1 DEF OpToRel
<1>3. QED  BY <1>2

\* A nonempty set of positions of a sequence has a greatest element.
LEMMA GreatestElement ==
    ASSUME NEW n \in Nat, NEW S, S \subseteq 1..n, S # {}
    PROVE  \E i \in S : \A j \in S : j <= i
<1> DEFINE T == {n - i : i \in S}
<1>0. \A i \in S : i \in Int /\ 1 <= i /\ i <= n
  OBVIOUS
<1>1. T \subseteq Nat /\ T # {}
  <2>1. \A i \in S : n - i \in Nat
    BY <1>0
  <2>2. T \subseteq Nat
    BY <2>1
  <2>3. T # {}
    BY Zenon
  <2>4. QED  BY <2>2, <2>3
<1>2. PICK t \in T : \A u \in T : t <= u
  BY <1>1, LeastElement
<1>3. PICK i \in S : t = n - i
  BY <1>2
<1>4. \A j \in S : j <= i
  <2>1. \A j \in S : n - j \in T
    OBVIOUS
  <2>2. QED  BY <1>0, <1>2, <1>3, <2>1
<1>5. QED  BY <1>4

\* The elements of a topology are Steps.
LEMMA TopologySteps ==
    ASSUME NEW t \in Topology
    PROVE  \A i \in DOMAIN t : t[i].id \in Steps
<1> DEFINE S == [id : Steps, unwind : BOOLEAN, retired : BOOLEAN]
<1>1. t \in Seq(S)
  BY DEF Topology
<1>2. \A x \in S : x.id \in Steps
  OBVIOUS
<1> HIDE DEF S
<1>3. \A i \in DOMAIN t : t[i] \in S
  BY <1>1
<1>4. QED  BY <1>2, <1>3

\* NextForward names a Step exactly when it asks to run one.
LEMMA NextForwardType ==
    ASSUME NEW t \in Topology, NEW f \in [Steps -> OpState]
    PROVE  /\ NextForward(t, f) \in Decision
           /\ NextForward(t, f).kind \in {"runForward", "forwardComplete", "invalid"}
           /\ NextForward(t, f).kind = "runForward" =>
                 NextForward(t, f).step \in Steps
<1> DEFINE C == ForwardCandidates(t, f)
           first == CHOOSE i \in C : \A j \in C : i <= j
           pinned == CHOOSE s \in Steps : f[s] = "unresolved"
<1>1. C \subseteq Nat /\ C \subseteq DOMAIN t
  BY DEF ForwardCandidates, Topology
<1>2. C # {} => first \in C
  BY <1>1, LeastElement, Zenon
<1>4. (\E s \in Steps : f[s] = "unresolved") => pinned \in Steps
  OBVIOUS
<1>a. \A i \in DOMAIN t : t[i].id \in Steps
  BY TopologySteps
<1> HIDE DEF C, first, pinned
<1>3. C # {} => t[first].id \in Steps
  BY <1>1, <1>2, <1>a
<1>5. QED
  BY <1>3, <1>4 DEF NextForward, Decide, Decision, C, first, pinned

\* NextUnwind names a Step exactly when it asks to run one.
LEMMA NextUnwindType ==
    ASSUME NEW t \in Topology, NEW f \in [Steps -> OpState],
           NEW u \in [Steps -> OpState]
    PROVE  /\ NextUnwind(t, f, u) \in Decision
           /\ NextUnwind(t, f, u).kind \in {"runUnwind", "unwindComplete", "invalid"}
           /\ NextUnwind(t, f, u).kind = "runUnwind" =>
                 /\ NextUnwind(t, f, u).step \in Steps
                 /\ f[NextUnwind(t, f, u).step] = "succeeded"
                 /\ u[NextUnwind(t, f, u).step] \in {"none", "unresolved"}
<1> DEFINE C == UnwindCandidates(t, f, u)
           last == CHOOSE i \in C : \A j \in C : j <= i
<1>1. C \subseteq DOMAIN t /\ Len(t) \in Nat /\ DOMAIN t = 1..Len(t)
  BY DEF UnwindCandidates, Topology
<1>2. C # {} => last \in C
  BY <1>1, GreatestElement, Zenon
<1>a. \A i \in DOMAIN t : t[i].id \in Steps
  BY TopologySteps
<1>b. \A i \in C : f[t[i].id] = "succeeded" /\ u[t[i].id] \in {"none", "unresolved"}
  BY DEF UnwindCandidates
<1> HIDE DEF C, last
<1>3. C # {} => /\ t[last].id \in Steps
                /\ f[t[last].id] = "succeeded"
                /\ u[t[last].id] \in {"none", "unresolved"}
  BY <1>1, <1>2, <1>a, <1>b
<1>5. QED
  BY <1>3 DEF NextUnwind, Decide, Decision, C, last
-----------------------------------------------------------------------------
(* The operators on records.                                                *)

\* The record that starts a Run, and the one an idle worker holds.
LEMMA NewRecordType ==
    ASSUME NEW delayed \in BOOLEAN
    PROVE  /\ NewRecord(delayed) \in Record
           /\ NewRecord(delayed).phase = "forward"
           /\ ~Terminal(NewRecord(delayed))
           /\ NewRecord(delayed).failure = NoFailure
           /\ NewRecord(delayed).cancel = NoCause
  BY DEF NewRecord, Record, NoOp, Op, OpState, NoFailure, Failure, Terminal

\* SetOp replaces one operation of the record's phase and nothing else.
LEMMA SetOpType ==
    ASSUME NEW r \in Record, NEW s, NEW op, s \in Steps => op \in Op
    PROVE  /\ SetOp(r, s, op) \in Record
           /\ SetOp(r, s, op).phase = r.phase
           /\ SetOp(r, s, op).outcome = r.outcome
           /\ SetOp(r, s, op).failure = r.failure
           /\ SetOp(r, s, op).cancel = r.cancel
           /\ SetOp(r, s, op).nextAt = r.nextAt
           /\ SetOp(r, s, op).awaiting = r.awaiting
<1>1. [r.forward EXCEPT ![s] = op] \in [Steps -> Op]
  BY DEF Record
<1>2. [r.unwind EXCEPT ![s] = op] \in [Steps -> Op]
  BY DEF Record
<1>3. QED  BY <1>1, <1>2 DEF SetOp, Record

\* Reserving and resolving an operation keep the phase, the outcome, the
\* Failure and the cancel request.
LEMMA ReservedType ==
    ASSUME NEW r \in Record, NEW s \in Steps
    PROVE  /\ Reserved(r, s) \in Record
           /\ Reserved(r, s).phase = r.phase
           /\ Reserved(r, s).outcome = r.outcome
           /\ Reserved(r, s).failure = r.failure
           /\ Reserved(r, s).cancel = r.cancel
<1> DEFINE op == [status |-> "unresolved", attempts |-> OpOf(r, s).attempts + 1]
<1>1. op \in Op
  BY DEF Record, OpOf, Op, OpState
<1> HIDE DEF op
<1> DEFINE q == SetOp(r, s, op)
<1>2. /\ q \in Record /\ q.phase = r.phase /\ q.outcome = r.outcome
      /\ q.failure = r.failure /\ q.cancel = r.cancel
  BY <1>1, SetOpType
<1>3. Reserved(r, s) = [q EXCEPT !.nextAt = FALSE, !.started = TRUE]
  BY DEF Reserved, op
<1> HIDE DEF q
<1>4. QED  BY <1>2, <1>3 DEF Record

LEMMA ResolvedType ==
    ASSUME NEW r \in Record, NEW s \in Steps, NEW st \in OpState
    PROVE  /\ Resolved(r, s, st) \in Record
           /\ Resolved(r, s, st).phase = r.phase
           /\ Resolved(r, s, st).outcome = r.outcome
           /\ Resolved(r, s, st).failure = r.failure
           /\ Resolved(r, s, st).cancel = r.cancel
<1> DEFINE op == [OpOf(r, s) EXCEPT !.status = st]
<1>1. op \in Op
  BY DEF Record, OpOf, Op
<1> HIDE DEF op
<1> DEFINE q == SetOp(r, s, op)
<1>2. /\ q \in Record /\ q.phase = r.phase /\ q.outcome = r.outcome
      /\ q.failure = r.failure /\ q.cancel = r.cancel
  BY <1>1, SetOpType
<1>3. Resolved(r, s, st) = [q EXCEPT !.awaited = NoStep, !.lastError = NoStep]
  BY DEF Resolved, op
<1> HIDE DEF q
<1>4. QED  BY <1>2, <1>3 DEF Record

\* A transition keeps the store's cancel request, writes the worker's phase
\* and outcome, and writes a Failure only when the worker has one.
LEMMA MergeType ==
    ASSUME db \in Record, NEW r \in Record, NEW ph, NEW s
    PROVE  /\ Merge(r, ph, s) \in Record
           /\ Merge(r, ph, s).phase = r.phase
           /\ Merge(r, ph, s).outcome = r.outcome
           /\ Merge(r, ph, s).failure =
                 IF r.failure = NoFailure THEN db.failure ELSE r.failure
           /\ Merge(r, ph, s).cancel = db.cancel
<1> DEFINE fw == Displaced(r, s).forward \cup (IF ph = "forward" THEN {s} ELSE {})
           uw == Displaced(r, s).unwind \cup (IF ph = "unwind" THEN {s} ELSE {})
           F == [t \in Steps |-> IF t \in fw THEN r.forward[t] ELSE db.forward[t]]
           U == [t \in Steps |-> IF t \in uw THEN r.unwind[t] ELSE db.unwind[t]]
<1>1. F \in [Steps -> Op] /\ U \in [Steps -> Op]
  <2> HIDE DEF fw, uw
  <2> QED  BY DEF Record
<1>2. Merge(r, ph, s) =
        [r EXCEPT !.forward = F, !.unwind = U,
                  !.failure = IF r.failure = NoFailure THEN db.failure ELSE r.failure,
                  !.cancel = db.cancel]
  BY DEF Merge
<1> HIDE DEF F, U
<1>3. QED  BY <1>1, <1>2 DEF Record

\* Compaction keeps everything a reader of the outcome sees.
LEMMA CompactType ==
    ASSUME NEW r \in Record
    PROVE  /\ Compact(r) \in Record
           /\ Compact(r).phase = r.phase
           /\ Compact(r).outcome = r.outcome
           /\ Compact(r).failure = r.failure
           /\ Compact(r).cancel = r.cancel
<1> DEFINE F == [s \in Steps |-> NoOp]
           U == [s \in Steps |-> IF r.unwind[s].status = "failed" THEN r.unwind[s]
                                                                ELSE NoOp]
<1>1. F \in [Steps -> Op] /\ U \in [Steps -> Op]
  BY DEF Record, NoOp, Op, OpState
<1>2. Compact(r) = [r EXCEPT !.forward = F, !.unwind = U, !.nextAt = FALSE,
                      !.awaiting = NoStep, !.awaited = NoStep, !.lastError = NoStep]
  BY DEF Compact
<1> HIDE DEF F, U
<1>3. QED  BY <1>1, <1>2 DEF Record
-----------------------------------------------------------------------------
(* The parts actions are built from.                                        *)

\* The worker is between its decision and the operation's resolution.
Operating == {"cancel", "reserve", "register", "handler", "deregister",
              "resolve", "cycle"}

\* A terminal record is in the last phase and no other is; an operation in
\* progress has a Step, and its Run is in one of the first two phases.
PhaseInv ==
    /\ db.phase = "done" <=> Terminal(db)
    /\ rec.phase = "done" <=> Terminal(rec)
    /\ pc \in Operating => step \in Steps
    /\ pc \in Operating \cup {"commit"} => rec.phase # "done"

\* TypeOK and PhaseInv together, by the part of the state they are about.
DurableOK ==
    /\ db \in Record /\ due \in BOOLEAN /\ targets \in BOOLEAN /\ expired \in BOOLEAN
    /\ db.phase = "done" <=> Terminal(db)

WorkerOK ==
    /\ pc \in WorkerPc /\ repoke \in BOOLEAN /\ loaded \in BOOLEAN
    /\ rec \in Record /\ step \in Steps \cup {NoStep} /\ res \in Result
    /\ rec.phase = "done" <=> Terminal(rec)
    /\ pc \in Operating => step \in Steps
    /\ pc \in Operating \cup {"commit"} => rec.phase # "done"

EngineOK ==
    /\ status \in {"up", "stopping", "down"} /\ draining \in BOOLEAN
    /\ topo \in Topologies
    /\ invalid \in BOOLEAN /\ dirty \in BOOLEAN /\ join \in BOOLEAN
    /\ pending \in Causes \cup {NoCause} /\ cut \in Causes \cup {NoCause}
    /\ attempt \in {"none", "forward", "unwind"}
    /\ cpc \in [Causes -> {"idle", "mark", "preempt", "poke", "done"}]
    /\ faults \in Nat /\ restarts \in Nat /\ retries \in Nat
    /\ seen \in [forward : [Steps -> Nat], unwind : [Steps -> Nat]]

\* The two ways to write the invariant agree.
LEMMA TypeParts == TypeOK /\ PhaseInv <=> DurableOK /\ WorkerOK /\ EngineOK
  BY Zenon DEF TypeOK, PhaseInv, DurableOK, WorkerOK, EngineOK

\* They agree in the next state too.
LEMMA TypePartsPrime ==
    DurableOK' /\ WorkerOK' /\ EngineOK' => TypeOK' /\ PhaseInv'
  BY Zenon DEF TypeOK, PhaseInv, DurableOK, WorkerOK, EngineOK

\* A step that leaves a part alone keeps it.
LEMMA DurableFrame ==
    ASSUME DurableOK, UNCHANGED durable
    PROVE  DurableOK'
  BY DEF DurableOK, durable, Terminal

LEMMA WorkerFrame ==
    ASSUME WorkerOK, UNCHANGED worker
    PROVE  WorkerOK'
  BY DEF WorkerOK, worker, Terminal

LEMMA EngineFrame ==
    ASSUME EngineOK, UNCHANGED <<preempt, engine, invalid, join, cpc, counters, seen>>
    PROVE  EngineOK'
  BY DEF EngineOK, preempt, engine, counters

\* A worker that returned holds no record.
LEMMA ExitType ==
    ASSUME NEW again, Exit(again)
    PROVE  /\ pc' \in {"queued", "idle"} /\ repoke' = FALSE /\ loaded' = FALSE
           /\ rec' \in Record /\ rec'.phase = "forward" /\ ~Terminal(rec')
           /\ rec'.failure = NoFailure /\ rec'.cancel = NoCause
           /\ step' = NoStep /\ res' = NoResult /\ res' \in Result
<1>1. rec' = NewRecord(FALSE)
  BY DEF Exit
<1>2. /\ rec' \in Record /\ rec'.phase = "forward" /\ ~Terminal(rec')
      /\ rec'.failure = NoFailure /\ rec'.cancel = NoCause
  BY <1>1, NewRecordType
<1>3. QED  BY <1>2 DEF Exit, NoResult, Result, Returned

\* A successful transition.
LEMMA ApplyType ==
    ASSUME DurableOK, NEW r \in Record, NEW ph, NEW s, Apply(r, ph, s)
    PROVE  /\ db' \in Record /\ due' \in BOOLEAN
           /\ targets' \in BOOLEAN /\ expired' \in BOOLEAN
           /\ faults' = faults
           /\ db'.phase = r.phase /\ db'.outcome = r.outcome
           /\ db'.failure = IF r.failure = NoFailure THEN db.failure ELSE r.failure
           /\ db'.cancel = db.cancel
<1> DEFINE m == Merge(r, ph, s)
<1>1. /\ m \in Record /\ m.phase = r.phase /\ m.outcome = r.outcome
      /\ m.failure = IF r.failure = NoFailure THEN db.failure ELSE r.failure
      /\ m.cancel = db.cancel
  BY MergeType DEF DurableOK
<1> HIDE DEF m
<1>2. /\ Compact(m) \in Record /\ Compact(m).phase = m.phase
      /\ Compact(m).outcome = m.outcome /\ Compact(m).failure = m.failure
      /\ Compact(m).cancel = m.cancel
  BY <1>1, CompactType
<1>3. db' = Compact(m) \/ db' = m
  BY DEF Apply, m
<1>4. due' \in BOOLEAN /\ targets' \in BOOLEAN /\ expired' \in BOOLEAN
  BY DEF Apply, DurableOK
<1>5. QED  BY <1>1, <1>2, <1>3, <1>4 DEF Apply

\* A poke starts a worker or leaves the running one a re-poke.
LEMMA PokeType ==
    ASSUME WorkerOK, Poke
    PROVE  /\ pc' \in {pc, "queued"} /\ (pc # "idle" => pc' = pc)
           /\ repoke' \in BOOLEAN /\ UNCHANGED <<loaded, rec, step, res>>
  BY DEF WorkerOK, Poke, WorkerPc

\* Facts of a record, and the decisions made from it.
LEMMA DecisionType ==
    ASSUME EngineOK, NEW r \in Record
    PROVE  /\ Decision1(r).kind \in {"runForward", "runUnwind"} =>
                 Decision1(r).step \in Steps
           /\ Decision1(r).kind \in {"runForward", "forwardComplete"} =>
                 r.phase = "forward"
           /\ Decision1(r).kind \in {"runUnwind", "unwindComplete"} =>
                 r.phase # "forward"
<1> DEFINE F == FactsOf(r.forward)
           U == FactsOf(r.unwind)
<1>1. F \in [Steps -> OpState] /\ U \in [Steps -> OpState]
  BY DEF FactsOf, Record, Op
<1>2. topo \in Topology
  BY LifecycleAssumption DEF EngineOK, LifecycleAssumption
<1> HIDE DEF F, U
<1>3. /\ NextForward(topo, F).kind \in {"runForward", "forwardComplete", "invalid"}
      /\ NextForward(topo, F).kind = "runForward" => NextForward(topo, F).step \in Steps
  BY <1>1, <1>2, NextForwardType
<1>4. /\ NextUnwind(topo, F, U).kind \in {"runUnwind", "unwindComplete", "invalid"}
      /\ NextUnwind(topo, F, U).kind = "runUnwind" =>
            NextUnwind(topo, F, U).step \in Steps
  BY <1>1, <1>2, NextUnwindType
<1>5. QED  BY <1>3, <1>4 DEF Decision1, F, U
-----------------------------------------------------------------------------
(* Type correctness.                                                        *)

\* The initial state has its type.
LEMMA InitType == Init => TypeOK /\ PhaseInv
<1> SUFFICES ASSUME Init PROVE TypeOK /\ PhaseInv
  OBVIOUS
<1>1. PICK delayed \in BOOLEAN : db = NewRecord(delayed) /\ due = ~delayed
  BY DEF Init
<1>2. db \in Record /\ db.phase = "forward" /\ ~Terminal(db) /\ due \in BOOLEAN
  BY <1>1, NewRecordType
<1>3. rec \in Record /\ rec.phase = "forward" /\ ~Terminal(rec)
  BY NewRecordType DEF Init
<1>4. QED
  BY <1>2, <1>3 DEF Init, TypeOK, PhaseInv, Operating, WorkerPc, NoResult, Result

\* A worker that returns, and one that stops at an invalid Run.
LEMMA ExitOK ==
    ASSUME NEW again, Exit(again)
    PROVE  WorkerOK'
<1>1. /\ pc' \in {"queued", "idle"} /\ repoke' = FALSE /\ loaded' = FALSE
      /\ rec' \in Record /\ rec'.phase = "forward" /\ ~Terminal(rec')
      /\ step' = NoStep /\ res' \in Result
  BY ExitType
<1>2. QED  BY <1>1 DEF WorkerOK, Operating, WorkerPc, Terminal

\* A failing store call.
LEMMA StoreFaultOK ==
    ASSUME DurableOK, EngineOK, StoreFault
    PROVE  DurableOK' /\ faults' \in Nat
<1>1. UNCHANGED durable /\ faults' \in Nat
  BY LifecycleAssumption DEF StoreFault, EngineOK, LifecycleAssumption
<1>2. QED  BY <1>1, DurableFrame

\* A successful transition to a record in the right phase.
LEMMA ApplyOK ==
    ASSUME DurableOK, NEW r \in Record, r.phase = "done" <=> Terminal(r),
           NEW ph, NEW s, Apply(r, ph, s)
    PROVE  DurableOK' /\ faults' = faults
<1>1. /\ db' \in Record /\ due' \in BOOLEAN /\ targets' \in BOOLEAN
      /\ expired' \in BOOLEAN /\ faults' = faults
      /\ db'.phase = r.phase /\ db'.outcome = r.outcome
  BY ApplyType
<1>2. QED  BY <1>1 DEF DurableOK, Terminal

\* One pass of the worker up to its decision keeps the types.
LEMMA PassType ==
    ASSUME DurableOK, WorkerOK, EngineOK, Pass
    PROVE  DurableOK' /\ WorkerOK' /\ EngineOK'
<1>1. CASE Begin \/ BeginStopped \/ Take
  <2>1. UNCHANGED durable /\ EngineOK'
    BY <1>1 DEF Begin, BeginStopped, Take, EngineOK, preempt, engine, counters
  <2>2. CASE Exit(FALSE)
    BY <2>1, <2>2, ExitOK, DurableFrame
  <2>3. CASE ~Exit(FALSE)
    <3>1. pc' \in {"take", "read", "decide"} /\ UNCHANGED <<repoke, loaded, rec, step, res>>
      BY <1>1, <2>3 DEF Begin, BeginStopped, Take, Goto
    <3>2. WorkerOK'
      BY <3>1 DEF WorkerOK, WorkerPc, Operating, Terminal
    <3>3. QED  BY <2>1, <3>2, DurableFrame
  <2>4. QED  BY <2>2, <2>3
<1>2. CASE Read
  <2>1. CASE pc' = "decide" /\ rec' = db /\ UNCHANGED <<durable, faults, repoke, step, res>> /\ loaded' = TRUE
    <3>1. WorkerOK'
      BY <2>1 DEF WorkerOK, WorkerPc, Operating, Terminal, DurableOK
    <3>2. EngineOK'
      BY <1>2, <2>1 DEF Read, EngineOK, preempt, engine
    <3>3. QED  BY <2>1, <3>1, <3>2, DurableFrame
  <2>2. CASE StoreFault /\ Exit(TRUE)
    <3>1. DurableOK' /\ faults' \in Nat /\ WorkerOK'
      BY <2>2, StoreFaultOK, ExitOK
    <3>2. EngineOK'
      BY <1>2, <3>1 DEF Read, EngineOK, preempt, engine
    <3>3. QED  BY <3>1, <3>2
  <2>3. QED  BY <1>2, <2>1, <2>2 DEF Read, Goto
<1>3. CASE DecideStop
  <2>1. UNCHANGED durable /\ EngineOK'
    BY <1>3 DEF DecideStop, MarkInvalid, EngineOK, preempt, engine, counters
  <2>2. Exit(FALSE) \/ Exit(TRUE)
    BY <1>3, Zenon DEF DecideStop, MarkInvalid
  <2>3. QED  BY <2>1, <2>2, ExitOK, DurableFrame
<1>4. CASE DecideCancel
  <2>1. UNCHANGED <<durable, rec, repoke, loaded, res>> /\ pc' = "cancel" /\ EngineOK'
    BY <1>4 DEF DecideCancel, Goto, EngineOK, preempt, engine, counters
  <2>2. step' \in Steps /\ rec.phase = "forward"
    BY <1>4, DecisionType DEF DecideCancel, Runnable, Canceled, WorkerOK
  <2>3. WorkerOK'
    BY <2>1, <2>2 DEF WorkerOK, WorkerPc, Operating, Terminal
  <2>4. QED  BY <2>1, <2>3, DurableFrame
<1>5. CASE DecideRun
  <2>1. step' \in Steps
    BY <1>5, DecisionType DEF DecideRun, Runnable, WorkerOK
  <2>2. rec' \in Record /\ rec'.phase = rec.phase /\ rec'.outcome = rec.outcome
    BY <1>5 DEF DecideRun, Settled, WorkerOK, Record
  <2>3. WorkerOK'
    BY <1>5, <2>1, <2>2 DEF DecideRun, Goto, WorkerOK, WorkerPc, Operating, Terminal
  <2>4. DurableOK' /\ faults' \in Nat
    <3>1. CASE StoreFault
      BY <3>1, StoreFaultOK
    <3>2. CASE UNCHANGED <<durable, faults>>
      BY <3>2, DurableFrame DEF EngineOK
    <3>3. QED  BY <1>5, <3>1, <3>2 DEF DecideRun
  <2>5. EngineOK'
    BY <1>5, <2>4 DEF DecideRun, EngineOK, preempt, engine
  <2>6. QED  BY <2>3, <2>4, <2>5
<1>6. CASE DecideComplete
  <2>1. UNCHANGED durable /\ EngineOK'
    BY <1>6 DEF DecideComplete, MarkInvalid, EngineOK, preempt, engine, counters
  <2>2. CASE Exit(FALSE)
    BY <2>1, <2>2, ExitOK, DurableFrame
  <2>3. CASE pc' = "commit" /\ UNCHANGED <<repoke, loaded, rec, step, res>>
    <3>1. WorkerOK'
      BY <1>6, <2>3 DEF DecideComplete, WorkerOK, WorkerPc, Operating, Terminal
    <3>2. QED  BY <2>1, <3>1, DurableFrame
  <2>4. QED  BY <1>6, <2>2, <2>3 DEF DecideComplete, Goto, MarkInvalid
<1>7. QED
  BY <1>1, <1>2, <1>3, <1>4, <1>5, <1>6 DEF Pass
\* The operation, from its reservation to its resolution, keeps the types.
LEMMA OperateType ==
    ASSUME DurableOK, WorkerOK, EngineOK, Operate
    PROVE  DurableOK' /\ WorkerOK' /\ EngineOK'
<1>1. CASE Reserve
  <2>1. CASE /\ rec' = Reserved(rec, step) /\ Apply(rec', rec.phase, step)
             /\ pc' = "register" /\ UNCHANGED <<repoke, loaded, step, res>>
    <3>1. step \in Steps /\ rec \in Record /\ rec.phase # "done"
      BY <1>1 DEF Reserve, WorkerOK, Operating
    <3>2. rec' \in Record /\ rec'.phase = rec.phase /\ rec'.outcome = rec.outcome
      BY <2>1, <3>1, ReservedType
    <3>3. DurableOK' /\ faults' = faults
      BY <2>1, <3>2, ApplyOK DEF WorkerOK, Terminal
    <3>4. WorkerOK'
      BY <2>1, <3>1, <3>2 DEF WorkerOK, WorkerPc, Operating, Terminal
    <3>5. EngineOK'
      BY <1>1, <3>3 DEF Reserve, EngineOK, preempt, engine
    <3>6. QED  BY <3>3, <3>4, <3>5
  <2>2. CASE StoreFault /\ Exit(TRUE)
    <3>1. DurableOK' /\ faults' \in Nat /\ WorkerOK'
      BY <2>2, StoreFaultOK, ExitOK
    <3>2. EngineOK'
      BY <1>1, <3>1 DEF Reserve, EngineOK, preempt, engine
    <3>3. QED  BY <3>1, <3>2
  <2>3. QED  BY <1>1, <2>1, <2>2 DEF Reserve, Goto
<1>2. CASE Register
  <2>1. UNCHANGED <<durable, repoke, loaded, rec, step, res>> /\ pc' = "handler"
    BY <1>2 DEF Register, Goto
  <2>2. step \in Steps /\ rec \in Record /\ rec.phase \in {"forward", "unwind"}
    BY <1>2 DEF Register, WorkerOK, Operating, Record
  <2>3. WorkerOK'
    BY <2>1, <2>2 DEF WorkerOK, WorkerPc, Operating, Terminal
  <2>4. OpOf(rec, step).attempts \in Nat
    BY <2>2 DEF OpOf, Record, Op
  <2>5. seen' \in [forward : [Steps -> Nat], unwind : [Steps -> Nat]]
    BY <1>2, <2>2, <2>4 DEF Register, EngineOK
  <2>6. EngineOK'
    BY <1>2, <2>2, <2>5 DEF Register, EngineOK, engine, counters
  <2>7. QED  BY <2>1, <2>3, <2>6, DurableFrame
<1>3. CASE HandlerReturn
  <2>1. PICK out \in Returned :
          /\ IF out \in {"error", "await", "panic"} /\ cut = NoCause /\ status = "up"
               THEN retries < MaxRetries /\ retries' = retries + 1
               ELSE UNCHANGED retries
          /\ res' = [out |-> out,
                     preempted |-> IF out = "panic" THEN NoCause ELSE cut,
                     interrupted |-> out # "panic" /\ cut = NoCause
                                     /\ status = "stopping"]
    BY <1>3 DEF HandlerReturn
  <2>2. res' \in Result /\ retries' \in Nat
    BY <2>1 DEF Result, EngineOK
  <2>3. UNCHANGED <<durable, repoke, loaded, rec, step>> /\ pc' = "deregister" /\ pc = "handler"
    BY <1>3 DEF HandlerReturn, Goto
  <2>4. WorkerOK'
    BY <2>2, <2>3 DEF WorkerOK, WorkerPc, Operating, Terminal
  <2>5. EngineOK'
    BY <1>3, <2>2 DEF HandlerReturn, EngineOK, preempt, engine
  <2>6. QED  BY <2>3, <2>4, <2>5, DurableFrame
<1>4. CASE Deregister
  <2>1. UNCHANGED <<durable, repoke, loaded, rec, step, res>> /\ pc' = "resolve" /\ pc = "deregister"
    BY <1>4 DEF Deregister, Goto
  <2>2. WorkerOK'
    BY <2>1 DEF WorkerOK, WorkerPc, Operating, Terminal
  <2>3. EngineOK'
    BY <1>4 DEF Deregister, EngineOK, engine, counters
  <2>4. QED  BY <2>1, <2>2, <2>3, DurableFrame
<1>5. CASE ResolveInvalid \/ ResolveInterrupted
  <2>1. Exit(FALSE) /\ UNCHANGED durable
    BY <1>5 DEF ResolveInvalid, ResolveInterrupted, MarkInvalid
  <2>2. EngineOK'
    BY <1>5 DEF ResolveInvalid, ResolveInterrupted, MarkInvalid, EngineOK, preempt,
                engine, counters
  <2>3. QED  BY <2>1, <2>2, ExitOK, DurableFrame
<1>6. CASE ResolvePreempted
  <2>1. UNCHANGED <<durable, repoke, loaded, rec, step, res>> /\ pc' = "cancel" /\ pc = "resolve"
    BY <1>6 DEF ResolvePreempted, Goto
  <2>2. WorkerOK'
    BY <2>1 DEF WorkerOK, WorkerPc, Operating, Terminal
  <2>3. EngineOK'
    BY <1>6 DEF ResolvePreempted, EngineOK, preempt, engine, counters
  <2>4. QED  BY <2>1, <2>2, <2>3, DurableFrame
<1>7. CASE ResolveOp
  <2> DEFINE failed == res.out = "fail"
             r == Resolved(rec, step, IF failed THEN "failed" ELSE "succeeded")
  <2>1. CASE /\ rec' = IF failed /\ rec.phase = "forward"
                        THEN [r EXCEPT !.phase = "unwind",
                                !.failure = [kind |-> "failed", step |-> step,
                                             cause |-> NoCause]]
                        ELSE r
             /\ Apply(rec', rec.phase, step)
             /\ pc' = "take" /\ step' = NoStep /\ res' = NoResult
             /\ UNCHANGED <<repoke, loaded>>
    <3>1. step \in Steps /\ rec \in Record /\ rec.phase # "done"
      BY <1>7 DEF ResolveOp, WorkerOK, Operating
    <3>2. r \in Record /\ r.phase = rec.phase /\ r.outcome = rec.outcome
      BY <3>1, ResolvedType DEF OpState
    <3> HIDE DEF r, failed
    <3>3. rec' \in Record /\ rec'.phase # "done" /\ rec'.outcome = rec.outcome
      BY <2>1, <3>1, <3>2 DEF Record, Failure
    <3>4. DurableOK' /\ faults' = faults
      BY <2>1, <3>1, <3>3, ApplyOK DEF WorkerOK, Terminal
    <3>5. WorkerOK'
      BY <2>1, <3>1, <3>3 DEF WorkerOK, WorkerPc, Operating, Terminal, NoResult, Result
    <3>6. EngineOK'
      BY <1>7, <3>4 DEF ResolveOp, EngineOK, preempt, engine
    <3>7. QED  BY <3>4, <3>5, <3>6
  <2>2. CASE StoreFault /\ Exit(TRUE)
    <3>1. DurableOK' /\ faults' \in Nat /\ WorkerOK'
      BY <2>2, StoreFaultOK, ExitOK
    <3>2. EngineOK'
      BY <1>7, <3>1 DEF ResolveOp, EngineOK, preempt, engine
    <3>3. QED  BY <3>1, <3>2
  <2>3. QED  BY <1>7, <2>1, <2>2 DEF ResolveOp, Goto
<1>8. CASE ResolveRetry
  <2> DEFINE r == [rec EXCEPT !.nextAt = TRUE, !.lastError = step]
  <2>1. r \in Record /\ r.phase = rec.phase /\ r.outcome = rec.outcome
    BY DEF WorkerOK, Record
  <2>2. DurableOK' /\ faults' \in Nat
    <3>1. CASE StoreFault
      BY <3>1, StoreFaultOK
    <3>2. CASE ApplyDelayed(r, rec.phase, step)
      <4> HIDE DEF r
      <4>1. db' \in Record /\ db'.phase = rec.phase /\ db'.outcome = rec.outcome
        BY <3>2, <2>1, MergeType DEF ApplyDelayed, DurableOK
      <4>2. QED  BY <3>2, <4>1 DEF ApplyDelayed, DurableOK, WorkerOK, EngineOK, Terminal
    <3>3. QED  BY <1>8, <3>1, <3>2 DEF ResolveRetry
  <2>3. WorkerOK'
    BY <1>8, ExitOK DEF ResolveRetry
  <2>4. EngineOK'
    BY <1>8, <2>2 DEF ResolveRetry, EngineOK, preempt, engine
  <2>5. QED  BY <2>2, <2>3, <2>4
<1>9. CASE Park
  <2>1. CASE /\ rec' = [rec EXCEPT !.awaiting = step, !.awaited = NoStep]
             /\ db' = Merge(rec', rec.phase, step)
             /\ targets' \in BOOLEAN /\ expired' = FALSE
             /\ UNCHANGED <<due, faults, repoke, loaded, step, res>> /\ pc' = "cycle"
    <3>1. step \in Steps /\ rec \in Record /\ rec.phase # "done"
      BY <1>9 DEF Park, WorkerOK, Operating
    <3>2. rec' \in Record /\ rec'.phase = rec.phase /\ rec'.outcome = rec.outcome
      BY <2>1, <3>1 DEF Record
    <3>a. db' = Merge(rec', rec.phase, step)
      BY <2>1
    <3>3. db' \in Record /\ db'.phase = rec.phase /\ db'.outcome = rec.outcome
      BY <3>a, <3>2, MergeType DEF DurableOK
    <3>4. DurableOK'
      BY <2>1, <3>3 DEF DurableOK, WorkerOK, Terminal
    <3>5. WorkerOK'
      BY <2>1, <3>1, <3>2 DEF WorkerOK, WorkerPc, Operating, Terminal
    <3>6. EngineOK'
      BY <1>9, <2>1 DEF Park, EngineOK, preempt, engine
    <3>7. QED  BY <3>4, <3>5, <3>6
  <2>2. CASE StoreFault /\ Exit(TRUE)
    <3>1. DurableOK' /\ faults' \in Nat /\ WorkerOK'
      BY <2>2, StoreFaultOK, ExitOK
    <3>2. EngineOK'
      BY <1>9, <3>1 DEF Park, EngineOK, preempt, engine
    <3>3. QED  BY <3>1, <3>2
  <2>3. QED  BY <1>9, <2>1, <2>2 DEF Park, Goto
<1>10. CASE CycleCheck
  <2>1. CASE /\ pc' = "take" /\ step' = NoStep /\ res' = NoResult
             /\ UNCHANGED <<durable, faults, invalid, join, repoke, loaded, rec>>
    <3>1. WorkerOK'
      BY <2>1 DEF WorkerOK, WorkerPc, Operating, Terminal, NoResult, Result
    <3>2. EngineOK'
      BY <1>10, <2>1 DEF CycleCheck, EngineOK, preempt, engine
    <3>3. QED  BY <2>1, <3>1, <3>2, DurableFrame
  <2>2. CASE StoreFault /\ Exit(TRUE) /\ UNCHANGED <<invalid, join>>
    <3>1. DurableOK' /\ faults' \in Nat /\ WorkerOK'
      BY <2>2, StoreFaultOK, ExitOK
    <3>2. EngineOK'
      BY <1>10, <2>2, <3>1 DEF CycleCheck, EngineOK, preempt, engine
    <3>3. QED  BY <3>1, <3>2
  <2>3. CASE MarkInvalid /\ UNCHANGED <<durable, faults>>
    <3>1. WorkerOK'
      BY <2>3, ExitOK DEF MarkInvalid
    <3>2. EngineOK'
      BY <1>10, <2>3 DEF CycleCheck, MarkInvalid, EngineOK, preempt, engine
    <3>3. QED  BY <2>3, <3>1, <3>2, DurableFrame
  <2>4. QED  BY <1>10, <2>1, <2>2, <2>3 DEF CycleCheck, Goto
<1>11. CASE CancelOperation
  <2> DEFINE q == Resolved(rec, step, "failed")
  <2>1. CASE /\ rec' = [q EXCEPT !.phase = "unwind", !.nextAt = FALSE,
                          !.awaiting = NoStep,
                          !.failure = [kind |-> "canceled", step |-> step,
                                       cause |-> CancelCause]]
             /\ Apply(rec', "forward", step)
             /\ pc' = "take" /\ step' = NoStep /\ res' = NoResult
             /\ UNCHANGED <<repoke, loaded>>
    <3>1. step \in Steps /\ rec \in Record /\ rec.phase # "done"
      BY <1>11 DEF CancelOperation, WorkerOK, Operating
    <3>2. q \in Record /\ q.phase = rec.phase /\ q.outcome = rec.outcome
      BY <3>1, ResolvedType DEF OpState
    <3>a. CancelCause \in Causes \cup {NoCause}
      BY DEF CancelCause, WorkerOK, Record, Result
    <3> HIDE DEF q
    <3>3. rec' \in Record /\ rec'.phase # "done" /\ rec'.outcome = rec.outcome
      BY <2>1, <3>1, <3>2, <3>a DEF Record, Failure
    <3>4. DurableOK' /\ faults' = faults
      BY <2>1, <3>1, <3>3, ApplyOK DEF WorkerOK, Terminal
    <3>5. WorkerOK'
      BY <2>1, <3>1, <3>3 DEF WorkerOK, WorkerPc, Operating, Terminal, NoResult, Result
    <3>6. EngineOK'
      BY <1>11, <3>4 DEF CancelOperation, EngineOK, preempt, engine
    <3>7. QED  BY <3>4, <3>5, <3>6
  <2>2. CASE StoreFault /\ Exit(TRUE)
    <3>1. DurableOK' /\ faults' \in Nat /\ WorkerOK'
      BY <2>2, StoreFaultOK, ExitOK
    <3>2. EngineOK'
      BY <1>11, <3>1 DEF CancelOperation, EngineOK, preempt, engine
    <3>3. QED  BY <3>1, <3>2
  <2>3. QED  BY <1>11, <2>1, <2>2 DEF CancelOperation, Goto
<1>12. QED
  BY <1>1, <1>2, <1>3, <1>4, <1>5, <1>6, <1>7, <1>8, <1>9, <1>10, <1>11 DEF Operate
\* The commit of the outcome and the end of the pass keep the types.
LEMMA CommitType ==
    ASSUME DurableOK, WorkerOK, EngineOK, Commit \/ Finish
    PROVE  DurableOK' /\ WorkerOK' /\ EngineOK'
<1>1. CASE Commit
  <2>1. CASE /\ rec' = [rec EXCEPT !.phase = "done",
                          !.outcome = IF rec.phase = "forward" THEN "success"
                                                               ELSE "failure"]
             /\ Apply(rec', "done", NoStep)
             /\ pc' = "finish" /\ UNCHANGED <<repoke, loaded, step, res>>
    <3>1. rec' \in Record /\ rec'.phase = "done" /\ rec'.outcome # "none"
      BY <2>1 DEF WorkerOK, Record
    <3>2. Apply(rec', "done", NoStep)
      BY <2>1
    <3>3. DurableOK' /\ faults' = faults
      BY <3>1, <3>2, ApplyOK DEF Terminal
    <3>4. WorkerOK'
      BY <2>1, <3>1 DEF WorkerOK, WorkerPc, Operating, Terminal
    <3>5. EngineOK'
      BY <1>1, <3>3 DEF Commit, EngineOK, preempt, engine
    <3>6. QED  BY <3>3, <3>4, <3>5
  <2>2. CASE StoreFault /\ Exit(FALSE)
    <3>1. DurableOK' /\ faults' \in Nat /\ WorkerOK'
      BY <2>2, StoreFaultOK, ExitOK
    <3>2. EngineOK'
      BY <1>1, <3>1 DEF Commit, EngineOK, preempt, engine
    <3>3. QED  BY <3>1, <3>2
  <2>3. QED  BY <1>1, <2>1, <2>2 DEF Commit, Goto
<1>2. CASE Finish
  <2>1. UNCHANGED durable /\ EngineOK'
    BY <1>2 DEF Finish, EngineOK, engine, counters
  <2>2. CASE Exit(FALSE)
    BY <2>1, <2>2, ExitOK, DurableFrame
  <2>3. CASE ~Exit(FALSE)
    <3>1. pc' = "take" /\ UNCHANGED <<repoke, loaded, rec, step, res>>
      BY <1>2, <2>3 DEF Finish, Goto
    <3>2. WorkerOK'
      BY <3>1 DEF WorkerOK, WorkerPc, Operating, Terminal
    <3>3. QED  BY <2>1, <3>2, DurableFrame
  <2>4. QED  BY <2>2, <2>3
<1>3. QED  BY <1>1, <1>2

\* A poke keeps the worker's types.
LEMMA PokeOK ==
    ASSUME WorkerOK, Poke
    PROVE  WorkerOK'
  BY PokeType DEF WorkerOK, WorkerPc, Operating, Terminal

\* A cancel request keeps the types.
LEMMA CancelType ==
    ASSUME DurableOK, WorkerOK, EngineOK, NEW c \in Causes, Cancel(c)
    PROVE  DurableOK' /\ WorkerOK' /\ EngineOK'
<1>1. CASE CancelRequest(c)
  <2>1. WorkerOK'
    BY <1>1, WorkerFrame DEF CancelRequest
  <2>2. DurableOK'
    BY <1>1 DEF CancelRequest, DurableOK, Record, Terminal
  <2>3. EngineOK'
    BY <1>1 DEF CancelRequest, EngineOK, preempt, engine, counters
  <2>4. QED  BY <2>1, <2>2, <2>3
<1>2. CASE CancelMark(c) \/ CancelPreempt(c)
  <2>1. UNCHANGED durable /\ UNCHANGED worker
    BY <1>2 DEF CancelMark, CancelPreempt
  <2>2. EngineOK'
    BY <1>2 DEF CancelMark, CancelPreempt, EngineOK, engine, counters
  <2>3. QED  BY <2>1, <2>2, DurableFrame, WorkerFrame
<1>3. CASE CancelPoke(c)
  <2>1. UNCHANGED durable /\ WorkerOK'
    BY <1>3, PokeOK DEF CancelPoke
  <2>2. EngineOK'
    BY <1>3 DEF CancelPoke, EngineOK, preempt, engine, counters
  <2>3. QED  BY <2>1, <2>2, DurableFrame
<1>4. QED  BY <1>1, <1>2, <1>3 DEF Cancel

\* Time, the await targets, shutdown, crash and redeployment keep the types.
LEMMA EnvironmentType ==
    ASSUME DurableOK, WorkerOK, EngineOK, Environment
    PROVE  DurableOK' /\ WorkerOK' /\ EngineOK'
<1>1. CASE TimePasses \/ TargetsDone \/ DeadlinePasses
  <2>1. DurableOK'
    BY <1>1 DEF TimePasses, TargetsDone, DeadlinePasses, DurableOK, Terminal
  <2>2. WorkerOK'
    BY <1>1, PokeOK, WorkerFrame DEF TimePasses, TargetsDone, DeadlinePasses
  <2>3. EngineOK'
    BY <1>1 DEF TimePasses, TargetsDone, DeadlinePasses, EngineOK, preempt,
                engine, counters
  <2>4. QED  BY <2>1, <2>2, <2>3
<1>2. CASE Drain \/ StopEngine
  <2>1. UNCHANGED durable /\ UNCHANGED worker
    BY <1>2 DEF Drain, StopEngine
  <2>2. EngineOK'
    BY <1>2 DEF Drain, StopEngine, EngineOK, preempt, counters
  <2>3. QED  BY <2>1, <2>2, DurableFrame, WorkerFrame
<1>3. CASE ProcessEnds
  <2>1. rec' \in Record /\ rec'.phase = "forward" /\ ~Terminal(rec')
    BY <1>3, NewRecordType DEF ProcessEnds
  <2>2. WorkerOK'
    BY <1>3, <2>1 DEF ProcessEnds, WorkerOK, WorkerPc, Operating, Terminal,
                      NoResult, Result
  <2>3. cpc' \in [Causes -> {"idle", "mark", "preempt", "poke", "done"}]
    BY <1>3 DEF ProcessEnds, EngineOK
  <2>a. /\ status' = "down" /\ draining' = FALSE /\ invalid' = FALSE /\ join' = FALSE
        /\ dirty' = FALSE /\ pending' = NoCause /\ attempt' = "none" /\ cut' = NoCause
        /\ restarts' = restarts + 1 /\ UNCHANGED <<topo, faults, retries, seen>>
    BY <1>3 DEF ProcessEnds
  <2>b. /\ topo' \in Topologies /\ faults' \in Nat /\ retries' \in Nat
        /\ restarts' \in Nat
        /\ seen' \in [forward : [Steps -> Nat], unwind : [Steps -> Nat]]
    BY <2>a DEF EngineOK
  <2>4. EngineOK'
    BY <2>3, <2>a, <2>b, Zenon DEF EngineOK
  <2>5. QED  BY <1>3, <2>2, <2>4, DurableFrame DEF ProcessEnds
<1>4. CASE Restart
  <2>1. UNCHANGED durable
    BY <1>4 DEF Restart
  <2>2. WorkerOK'
    BY <1>4 DEF Restart, WorkerOK, WorkerPc, Operating, Terminal
  <2>3. EngineOK'
    BY <1>4 DEF Restart, EngineOK, preempt, counters
  <2>4. QED  BY <2>1, <2>2, <2>3, DurableFrame
<1>5. CASE UNCHANGED vars
  BY <1>5, DurableFrame, WorkerFrame, EngineFrame DEF vars
<1>6. QED
  BY <1>1, <1>2, <1>3, <1>4, <1>5 DEF Environment, Quiescent

\* Every step keeps TypeOK, strengthened with PhaseInv.
LEMMA TypeStep ==
    ASSUME TypeOK, PhaseInv, [Next]_vars
    PROVE  TypeOK' /\ PhaseInv'
<1>1. DurableOK /\ WorkerOK /\ EngineOK
  BY TypeParts
<1>2. CASE Pass
  BY <1>1, <1>2, PassType, TypePartsPrime
<1>3. CASE Operate
  BY <1>1, <1>3, OperateType, TypePartsPrime
<1>4. CASE Commit \/ Finish
  BY <1>1, <1>4, CommitType, TypePartsPrime
<1>5. CASE \E c \in Causes : Cancel(c)
  BY <1>1, <1>5, CancelType, TypePartsPrime
<1>6. CASE Environment
  BY <1>1, <1>6, EnvironmentType, TypePartsPrime
<1>7. CASE UNCHANGED vars
  BY <1>1, <1>7, DurableFrame, WorkerFrame, EngineFrame, TypePartsPrime DEF vars
<1>8. QED
  BY <1>2, <1>3, <1>4, <1>5, <1>6, <1>7 DEF Next

\* The record, the worker's copy and the Engine's maps have their types in
\* every reachable state, whatever the Steps, deployments and causes.
THEOREM TypeCorrect == Spec => []TypeOK
<1>1. Init => TypeOK /\ PhaseInv
  BY InitType
<1>2. TypeOK /\ PhaseInv /\ [Next]_vars => (TypeOK /\ PhaseInv)'
  BY TypeStep
<1>3. QED  BY <1>1, <1>2, PTL DEF Spec

-----------------------------------------------------------------------------
(* The cancellation protocol. *)

\* The worker has read the record in this pass.
Past == {"decide", "commit"} \cup Operating

\* An attempt is registered while, and only while, its handler runs.
AttemptInv ==
    /\ attempt # "none" <=> pc \in {"handler", "deregister"}
    /\ attempt # "none" => attempt = rec.phase
    /\ attempt = "unwind" => cut = NoCause

\* Every trace of a cancel request in memory is of the one the store accepted.
CauseInv ==
    /\ \A c \in Causes : cpc[c] \in {"mark", "preempt", "poke"} => db.cancel = c
    /\ db.cancel # NoCause => cpc[db.cancel] # "idle"
    /\ pending \in {NoCause, db.cancel}
    /\ cut \in {NoCause, db.cancel}
    /\ rec.cancel \in {NoCause, db.cancel}
    /\ res.preempted \in {NoCause, db.cancel}
    /\ pc = "cancel" => CancelCause # NoCause /\ rec.phase = "forward"

\* A request the worker's record lacks is announced by the dirty mark; if its
\* caller is past the preemption, the preemption waits for the registration.
PreemptInv ==
    /\ pc \in Past => loaded
    /\ pc \in {"idle", "queued"} => ~loaded
    /\ status = "down" => pc \in {"idle", "queued"}
    /\ pc \in Past \cup {"take", "finish"} /\ loaded /\ rec.cancel # db.cancel
         => dirty \/ cpc[db.cancel] = "mark"
    /\ pc \in {"decide", "reserve", "register"} /\ rec.cancel # db.cancel
         /\ cpc[db.cancel] \in {"poke", "done"} => pending = db.cancel
    /\ pc \in {"reserve", "register", "handler"} /\ rec.phase = "forward"
         => rec.cancel = NoCause

CancelInv == AttemptInv /\ CauseInv /\ PreemptInv /\ CancelCutsForward

\* A worker that returns takes its part of the invariant with it.
LEMMA ExitCancelInv ==
    ASSUME TypeOK, CancelInv, NEW again, Exit(again),
           pc \notin {"handler", "deregister"}, db'.cancel = db.cancel,
           UNCHANGED <<cpc, attempt, cut>>, pending' \in {NoCause, pending}
    PROVE  CancelInv'
<1>a. /\ pc' \in {"queued", "idle"} /\ loaded' = FALSE /\ rec'.cancel = NoCause
      /\ res' = NoResult
  BY ExitType
<1>1. /\ pc' \in {"queued", "idle"} /\ loaded' = FALSE /\ rec'.cancel = NoCause
      /\ res'.preempted = NoCause
  BY <1>a, Zenon DEF NoResult
<1>2. AttemptInv'
  BY <1>1 DEF CancelInv, AttemptInv
<1>3. CauseInv'
  BY <1>1 DEF CancelInv, CauseInv
<1>4. PreemptInv' /\ CancelCutsForward'
  BY <1>1 DEF PreemptInv, CancelCutsForward, Past, Operating
<1>5. QED  BY <1>2, <1>3, <1>4 DEF CancelInv

\* The invariant in the initial state.
LEMMA InitCancel == Init => CancelInv
<1> SUFFICES ASSUME Init PROVE CancelInv
  OBVIOUS
<1>1. PICK delayed \in BOOLEAN : db = NewRecord(delayed)
  BY DEF Init
<1>2. db.cancel = NoCause /\ rec.cancel = NoCause
  BY <1>1, NewRecordType DEF Init
<1>3. res.preempted = NoCause
  BY DEF Init, NoResult
<1>4. QED
  BY <1>2, <1>3 DEF Init, CancelInv, AttemptInv, CauseInv, PreemptInv,
     CancelCutsForward, Past, Operating

\* The worker's pass keeps the invariant: a dirty mark is taken before the
\* read that replaces the record.
LEMMA PassCancel ==
    ASSUME TypeOK, PhaseInv, CancelInv, Pass
    PROVE  CancelInv'
<1> USE DEF CancelInv
<1>a. EngineOK /\ rec \in Record
  BY TypeParts DEF WorkerOK
<1>1. CASE Begin
  <2>1. pc = "queued" /\ pc' = "take" /\ status # "down" /\
        UNCHANGED <<db, status, cpc, pending, cut, attempt, dirty, loaded, rec, res>>
    BY <1>1 DEF Begin, Goto, durable, preempt, engine
  <2>2. AttemptInv'
    BY <2>1 DEF AttemptInv
  <2>3. CauseInv'
    BY <2>1 DEF CauseInv
  <2>4. PreemptInv' /\ CancelCutsForward'
    BY <2>1 DEF PreemptInv, CancelCutsForward, Past, Operating
  <2>5. QED  BY <2>2, <2>3, <2>4
<1>2. CASE BeginStopped
  <2>1. QED  BY <1>2, ExitCancelInv DEF BeginStopped, durable, preempt
<1>3. CASE Take
  <2>1. CASE Exit(FALSE)
    BY <1>3, <2>1, ExitCancelInv DEF Take, durable
  <2>2. CASE ~Exit(FALSE)
    <3>1. /\ pc = "take" /\ dirty' = FALSE /\ status # "stopping"
          /\ pc' = IF dirty \/ ~loaded THEN "read" ELSE "decide"
          /\ UNCHANGED <<db, status, cpc, pending, cut, attempt, loaded, rec, res>>
      BY <1>3, <2>2 DEF Take, Goto, durable, engine
    <3>2. AttemptInv'
      BY <3>1 DEF AttemptInv
    <3>3. CauseInv'
      BY <3>1 DEF CauseInv
    <3>4. PreemptInv' /\ CancelCutsForward'
      BY <3>1 DEF PreemptInv, CancelCutsForward, Past, Operating
    <3>5. QED  BY <3>2, <3>3, <3>4
  <2>3. QED  BY <2>1, <2>2
<1>4. CASE Read
  <2>1. CASE Exit(TRUE)
    BY <1>4, <2>1, ExitCancelInv DEF Read, StoreFault, durable, preempt
  <2>2. CASE ~Exit(TRUE)
    <3>1. /\ pc = "read" /\ pc' = "decide" /\ rec' = db /\ loaded' = TRUE
          /\ UNCHANGED <<db, status, cpc, pending, cut, attempt, dirty, res>>
      BY <1>4, <2>2 DEF Read, Goto, durable, preempt, engine
    <3>p. AttemptInv'
      BY <3>1 DEF AttemptInv
    <3>q. CauseInv'
      BY <3>1 DEF CauseInv
    <3>r. PreemptInv' /\ CancelCutsForward'
      BY <3>1 DEF PreemptInv, AttemptInv, CauseInv, CancelCutsForward, Past, Operating
    <3>s. QED  BY <3>p, <3>q, <3>r
  <2>3. QED  BY <2>1, <2>2
<1>5. CASE DecideStop
  <2>1. Exit(FALSE) \/ Exit(TRUE)
    BY <1>5, Zenon DEF DecideStop, MarkInvalid
  <2>2. pc = "decide" /\ UNCHANGED <<db, cpc, attempt, cut, pending>>
    BY <1>5 DEF DecideStop, durable, preempt
  <2>3. QED  BY <2>1, <2>2, ExitCancelInv
<1>6. CASE DecideCancel
  <2>1. /\ pc = "decide" /\ pc' = "cancel"
        /\ UNCHANGED <<db, status, cpc, pending, cut, attempt, dirty, loaded, rec, res>>
    BY <1>6 DEF DecideCancel, Goto, durable, preempt, engine
  <2>2. rec.cancel # NoCause /\ rec.phase = "forward"
    BY <1>a, <1>6, DecisionType DEF DecideCancel, Canceled
  <2>3. CancelCause' # NoCause
    BY <2>1, <2>2 DEF CancelCause
  <2>p. AttemptInv'
    BY <2>1, <2>2, <2>3 DEF AttemptInv
  <2>q. CauseInv'
    BY <2>1, <2>2, <2>3 DEF CauseInv
  <2>r. PreemptInv' /\ CancelCutsForward'
    BY <2>1, <2>2, <2>3 DEF PreemptInv, AttemptInv, CauseInv, CancelCutsForward, Past, Operating
  <2>s. QED  BY <2>p, <2>q, <2>r
<1>7. CASE DecideRun
  <2>1. /\ pc = "decide" /\ pc' = "reserve" /\ rec' = Settled(rec)
        /\ UNCHANGED <<db, status, cpc, pending, cut, attempt, dirty, loaded, res>>
    BY <1>7 DEF DecideRun, StoreFault, Goto, durable, preempt, engine
  <2>2. rec'.cancel = rec.cancel /\ rec'.phase = rec.phase
    BY <1>a, <2>1 DEF Settled, Record
  <2>3. rec.phase = "forward" => rec.cancel = NoCause
    <3>1. Decision1(rec).kind \in {"runForward", "runUnwind"} /\ ~Canceled(Decision1(rec))
      BY <1>7 DEF DecideRun, Runnable
    <3>2. rec.phase = "forward" => Decision1(rec).kind = "runForward"
      BY <1>a, <3>1, DecisionType
    <3>3. QED  BY <3>1, <3>2 DEF Canceled
  <2>4. /\ pc = "decide" /\ pc' = "reserve"
        /\ UNCHANGED <<db, status, cpc, pending, cut, attempt, dirty, loaded, res>>
    BY <2>1
  <2>p. AttemptInv'
    BY <2>2, <2>3, <2>4 DEF AttemptInv
  <2>q. CauseInv'
    BY <2>2, <2>3, <2>4 DEF CauseInv
  <2>r. PreemptInv' /\ CancelCutsForward'
    BY <2>2, <2>3, <2>4 DEF PreemptInv, AttemptInv, CauseInv, CancelCutsForward, Past, Operating
  <2>s. QED  BY <2>p, <2>q, <2>r
<1>8. CASE DecideComplete
  <2>1. pc = "decide" /\ UNCHANGED <<db, status, cpc, pending, cut, attempt, dirty>>
    BY <1>8 DEF DecideComplete, durable, preempt, engine
  <2>2. CASE Exit(FALSE)
    BY <2>1, <2>2, ExitCancelInv
  <2>3. CASE ~Exit(FALSE)
    <3>1. pc' = "commit" /\ UNCHANGED <<loaded, rec, res>>
      BY <1>8, <2>3 DEF DecideComplete, Goto, MarkInvalid
    <3>2. pc = "decide" /\ UNCHANGED <<db, status, cpc, pending, cut, attempt, dirty>>
      BY <2>1
    <3>p. AttemptInv'
      BY <3>1, <3>2 DEF AttemptInv
    <3>q. CauseInv'
      BY <3>1, <3>2 DEF CauseInv
    <3>r. PreemptInv' /\ CancelCutsForward'
      BY <3>1, <3>2 DEF PreemptInv, AttemptInv, CauseInv, CancelCutsForward, Past, Operating
    <3>s. QED  BY <3>p, <3>q, <3>r
  <2>4. QED  BY <2>2, <2>3
<1>9. QED
  BY <1>1, <1>2, <1>3, <1>4, <1>5, <1>6, <1>7, <1>8 DEF Pass

\* The operation keeps the invariant: registration takes the preemption left
\* for it, and whatever the handler returned is judged by what cut it.
LEMMA OperateCancel ==
    ASSUME TypeOK, PhaseInv, CancelInv, Operate
    PROVE  CancelInv'
<1> USE DEF CancelInv
<1>a. DurableOK /\ EngineOK /\ rec \in Record /\ (pc \in Operating => step \in Steps)
  BY TypeParts DEF WorkerOK
<1>b. Operating = {"cancel", "reserve", "register", "handler", "deregister",
                   "resolve", "cycle"}
  BY DEF Operating
<1>1. CASE Reserve
  <2>1. pc = "reserve" /\ UNCHANGED <<status, cpc, pending, cut, attempt, dirty>>
    BY <1>1 DEF Reserve, preempt, engine
  <2>2. CASE StoreFault /\ Exit(TRUE)
    <3>1. db' = db
      BY <2>2 DEF StoreFault, durable
    <3>2. QED  BY <2>1, <2>2, <3>1, ExitCancelInv
  <2>3. CASE /\ rec' = Reserved(rec, step) /\ Apply(rec', rec.phase, step)
             /\ pc' = "register" /\ UNCHANGED <<loaded, step, res>>
    <3>1. rec' \in Record /\ rec'.phase = rec.phase /\ rec'.cancel = rec.cancel
      BY <1>a, <1>b, <2>1, <2>3, ReservedType
    <3>2. Apply(rec', rec.phase, step)
      BY <2>3
    <3>3. db'.cancel = db.cancel
      BY <1>a, <3>1, <3>2, ApplyType
    <3>4. pc = "reserve" /\ pc' = "register"
          /\ UNCHANGED <<status, cpc, pending, cut, attempt, dirty, loaded, res>>
      BY <2>1, <2>3
    <3>p. AttemptInv'
      BY <3>1, <3>3, <3>4 DEF AttemptInv
    <3>q. CauseInv'
      BY <3>1, <3>3, <3>4 DEF CauseInv
    <3>r. PreemptInv' /\ CancelCutsForward'
      BY <3>1, <3>3, <3>4 DEF PreemptInv, AttemptInv, CauseInv, CancelCutsForward, Past, Operating
    <3>s. QED  BY <3>p, <3>q, <3>r
  <2>4. QED  BY <1>1, <2>2, <2>3 DEF Reserve, Goto
<1>2. CASE Register
  <2>1. /\ pc = "register" /\ pc' = "handler" /\ attempt' = rec.phase
        /\ pending' = NoCause
        /\ cut' = IF rec.phase = "forward" THEN pending ELSE NoCause
        /\ UNCHANGED <<db, status, cpc, dirty, loaded, rec, res>>
    BY <1>2 DEF Register, Goto, durable, engine
  <2>2. rec.phase \in {"forward", "unwind"}
    BY <1>a, <2>1 DEF PhaseInv, Operating, Record
  <2>3. db.cancel # NoCause => cpc[db.cancel] \in {"mark", "preempt", "poke", "done"}
    BY <1>a DEF CauseInv, EngineOK, DurableOK, Record
  <2>p. AttemptInv'
    BY <2>1, <2>2, <2>3 DEF AttemptInv
  <2>q. CauseInv'
    BY <2>1, <2>2, <2>3 DEF CauseInv
  <2>r. PreemptInv' /\ CancelCutsForward'
    BY <2>1, <2>2, <2>3 DEF PreemptInv, AttemptInv, CauseInv, CancelCutsForward, Past, Operating
  <2>s. QED  BY <2>p, <2>q, <2>r
<1>3. CASE HandlerReturn
  <2>1. /\ pc = "handler" /\ pc' = "deregister"
        /\ res'.preempted \in {NoCause, cut}
        /\ UNCHANGED <<db, status, cpc, pending, cut, attempt, dirty, loaded, rec>>
    BY <1>3 DEF HandlerReturn, Goto, durable, preempt, engine
  <2>p. AttemptInv'
    BY <2>1 DEF AttemptInv
  <2>q. CauseInv'
    BY <2>1 DEF CauseInv
  <2>r. PreemptInv' /\ CancelCutsForward'
    BY <2>1 DEF PreemptInv, AttemptInv, CauseInv, CancelCutsForward, Past, Operating
  <2>s. QED  BY <2>p, <2>q, <2>r
<1>4. CASE Deregister
  <2>1. /\ pc = "deregister" /\ pc' = "resolve" /\ attempt' = "none" /\ cut' = NoCause
        /\ UNCHANGED <<db, status, cpc, pending, dirty, loaded, rec, res>>
    BY <1>4 DEF Deregister, Goto, durable, engine
  <2>p. AttemptInv'
    BY <2>1 DEF AttemptInv
  <2>q. CauseInv'
    BY <2>1 DEF CauseInv
  <2>r. PreemptInv' /\ CancelCutsForward'
    BY <2>1 DEF PreemptInv, AttemptInv, CauseInv, CancelCutsForward, Past, Operating
  <2>s. QED  BY <2>p, <2>q, <2>r
<1>5. CASE ResolveInvalid \/ ResolveInterrupted
  <2>1. /\ Exit(FALSE) /\ pc = "resolve"
        /\ UNCHANGED <<db, cpc, attempt, cut, pending>>
    BY <1>5 DEF ResolveInvalid, ResolveInterrupted, MarkInvalid, durable, preempt
  <2>2. QED  BY <2>1, ExitCancelInv
<1>6. CASE ResolvePreempted
  <2>1. /\ pc = "resolve" /\ pc' = "cancel"
        /\ UNCHANGED <<db, status, cpc, pending, cut, attempt, dirty, loaded, rec, res>>
    BY <1>6 DEF ResolvePreempted, Goto, durable, preempt, engine
  <2>2. rec.phase = "forward" /\ CancelCause # NoCause
    BY <1>6 DEF ResolvePreempted, CancelCause
  <2>3. CancelCause' # NoCause
    BY <2>1, <2>2 DEF CancelCause
  <2>p. AttemptInv'
    BY <2>1, <2>2, <2>3 DEF AttemptInv
  <2>q. CauseInv'
    BY <2>1, <2>2, <2>3 DEF CauseInv
  <2>r. PreemptInv' /\ CancelCutsForward'
    BY <2>1, <2>2, <2>3 DEF PreemptInv, AttemptInv, CauseInv, CancelCutsForward, Past, Operating
  <2>s. QED  BY <2>p, <2>q, <2>r
<1>7. CASE ResolveOp
  <2>1. pc = "resolve" /\ UNCHANGED <<status, cpc, pending, cut, attempt, dirty>>
    BY <1>7 DEF ResolveOp, preempt, engine
  <2>2. CASE StoreFault /\ Exit(TRUE)
    <3>1. db' = db
      BY <2>2 DEF StoreFault, durable
    <3>2. QED  BY <2>1, <2>2, <3>1, ExitCancelInv
  <2>3. CASE /\ rec' = IF res.out = "fail" /\ rec.phase = "forward"
                        THEN [Resolved(rec, step, "failed") EXCEPT
                                !.phase = "unwind",
                                !.failure = [kind |-> "failed", step |-> step,
                                             cause |-> NoCause]]
                        ELSE Resolved(rec, step, IF res.out = "fail" THEN "failed"
                                                                     ELSE "succeeded")
             /\ Apply(rec', rec.phase, step)
             /\ pc' = "take" /\ step' = NoStep /\ res' = NoResult
             /\ UNCHANGED loaded
    <3> DEFINE f == Resolved(rec, step, "failed")
               k == Resolved(rec, step, "succeeded")
    <3>b. f \in Record /\ f.cancel = rec.cancel /\ k \in Record /\ k.cancel = rec.cancel
      BY <1>a, <1>b, <2>1, ResolvedType DEF OpState
    <3> DEFINE g == [f EXCEPT !.phase = "unwind",
                       !.failure = [kind |-> "failed", step |-> step, cause |-> NoCause]]
    <3>c. rec' \in {f, g, k}
      BY <2>3, Zenon
    <3> HIDE DEF f, k
    <3>d. g \in Record /\ g.cancel = rec.cancel
      BY <1>a, <1>b, <2>1, <3>b DEF Record, Failure
    <3> HIDE DEF g
    <3>1. rec' \in Record /\ rec'.cancel = rec.cancel
      BY <3>b, <3>c, <3>d
    <3>2. Apply(rec', rec.phase, step)
      BY <2>3
    <3>3. db'.cancel = db.cancel
      BY <1>a, <3>1, <3>2, ApplyType
    <3>4. pc = "resolve" /\ pc' = "take"
          /\ UNCHANGED <<status, cpc, pending, cut, attempt, dirty, loaded>>
      BY <2>1, <2>3
    <3>5. res'.preempted \in {NoCause, res.preempted}
      BY <2>3, Zenon DEF NoResult
    <3>p. AttemptInv'
      BY <3>1, <3>3, <3>4, <3>5 DEF AttemptInv
    <3>q. CauseInv'
      BY <3>1, <3>3, <3>4, <3>5 DEF CauseInv
    <3>r. PreemptInv' /\ CancelCutsForward'
      BY <3>1, <3>3, <3>4, <3>5 DEF PreemptInv, AttemptInv, CauseInv, CancelCutsForward, Past, Operating
    <3>s. QED  BY <3>p, <3>q, <3>r
  <2>4. QED  BY <1>7, <2>2, <2>3 DEF ResolveOp, Goto
<1>8. CASE ResolveRetry
  <2> DEFINE r == [rec EXCEPT !.nextAt = TRUE, !.lastError = step]
  <2>1. /\ Exit(TRUE) /\ pc = "resolve"
        /\ UNCHANGED <<cpc, attempt, cut, pending>>
    BY <1>8 DEF ResolveRetry, preempt
  <2>2. r \in Record
    BY <1>a, <1>b, <2>1 DEF Record
  <2>3. ApplyDelayed(r, rec.phase, step) \/ StoreFault
    BY <1>8 DEF ResolveRetry
  <2> HIDE DEF r
  <2>4. db'.cancel = db.cancel
    BY <1>a, <2>2, <2>3, MergeType DEF ApplyDelayed, StoreFault, DurableOK, durable
  <2>5. QED  BY <2>1, <2>4, ExitCancelInv
<1>9. CASE Park
  <2>1. pc = "resolve" /\ UNCHANGED <<status, cpc, pending, cut, attempt, dirty>>
    BY <1>9 DEF Park, preempt, engine
  <2>2. CASE StoreFault /\ Exit(TRUE)
    <3>1. db' = db
      BY <2>2 DEF StoreFault, durable
    <3>2. QED  BY <2>1, <2>2, <3>1, ExitCancelInv
  <2>3. CASE /\ rec' = [rec EXCEPT !.awaiting = step, !.awaited = NoStep]
             /\ db' = Merge(rec', rec.phase, step)
             /\ pc' = "cycle" /\ UNCHANGED <<loaded, step, res>>
    <3>1. rec' \in Record /\ rec'.cancel = rec.cancel
      BY <1>a, <1>b, <2>1, <2>3 DEF Record
    <3>2. db' = Merge(rec', rec.phase, step)
      BY <2>3
    <3>3. db'.cancel = db.cancel
      BY <1>a, <3>1, <3>2, MergeType DEF DurableOK
    <3>4. pc = "resolve" /\ pc' = "cycle"
          /\ UNCHANGED <<status, cpc, pending, cut, attempt, dirty, loaded>>
      BY <2>1, <2>3
    <3>5. res'.preempted \in {NoCause, res.preempted}
      BY <2>3, Zenon DEF NoResult
    <3>p. AttemptInv'
      BY <3>1, <3>3, <3>4, <3>5 DEF AttemptInv
    <3>q. CauseInv'
      BY <3>1, <3>3, <3>4, <3>5 DEF CauseInv
    <3>r. PreemptInv' /\ CancelCutsForward'
      BY <3>1, <3>3, <3>4, <3>5 DEF PreemptInv, AttemptInv, CauseInv, CancelCutsForward, Past, Operating
    <3>s. QED  BY <3>p, <3>q, <3>r
  <2>4. QED  BY <1>9, <2>2, <2>3 DEF Park, Goto
<1>10. CASE CycleCheck
  <2>1. pc = "cycle" /\ UNCHANGED <<db, status, cpc, pending, cut, attempt, dirty>>
    BY <1>10 DEF CycleCheck, StoreFault, durable, preempt, engine
  <2>2. CASE Exit(TRUE) \/ Exit(FALSE)
    BY <2>1, <2>2, ExitCancelInv
  <2>3. CASE ~(Exit(TRUE) \/ Exit(FALSE))
    <3>1. pc' = "take" /\ res' = NoResult /\ UNCHANGED <<loaded, rec>>
      BY <1>10, <2>3 DEF CycleCheck, Goto, MarkInvalid
    <3>2. pc' = "take" /\ res'.preempted = NoCause /\ UNCHANGED <<loaded, rec>>
      BY <3>1, Zenon DEF NoResult
    <3>3. pc = "cycle" /\ UNCHANGED <<db, status, cpc, pending, cut, attempt, dirty>>
      BY <2>1
    <3>p. AttemptInv'
      BY <3>2, <3>3 DEF AttemptInv
    <3>q. CauseInv'
      BY <3>2, <3>3 DEF CauseInv
    <3>r. PreemptInv' /\ CancelCutsForward'
      BY <3>2, <3>3 DEF PreemptInv, AttemptInv, CauseInv, CancelCutsForward, Past, Operating
    <3>s. QED  BY <3>p, <3>q, <3>r
  <2>4. QED  BY <2>2, <2>3
<1>11. CASE CancelOperation
  <2>1. pc = "cancel" /\ UNCHANGED <<status, cpc, pending, cut, attempt, dirty>>
    BY <1>11 DEF CancelOperation, preempt, engine
  <2>2. CASE StoreFault /\ Exit(TRUE)
    <3>1. db' = db
      BY <2>2 DEF StoreFault, durable
    <3>2. QED  BY <2>1, <2>2, <3>1, ExitCancelInv
  <2>3. CASE /\ rec' = [Resolved(rec, step, "failed") EXCEPT
                          !.phase = "unwind", !.nextAt = FALSE, !.awaiting = NoStep,
                          !.failure = [kind |-> "canceled", step |-> step,
                                       cause |-> CancelCause]]
             /\ Apply(rec', "forward", step)
             /\ pc' = "take" /\ res' = NoResult
             /\ UNCHANGED loaded
    <3> DEFINE q == Resolved(rec, step, "failed")
    <3>a. q \in Record /\ q.cancel = rec.cancel
      BY <1>a, <1>b, <2>1, ResolvedType DEF OpState
    <3>b. CancelCause \in Causes \cup {NoCause}
      BY <1>a DEF CancelCause, TypeOK, Record, Result
    <3>c. rec' = [q EXCEPT !.phase = "unwind", !.nextAt = FALSE, !.awaiting = NoStep,
                    !.failure = [kind |-> "canceled", step |-> step,
                                 cause |-> CancelCause]]
      BY <2>3
    <3> HIDE DEF q
    <3>1. rec' \in Record /\ rec'.cancel = rec.cancel
      BY <1>a, <1>b, <2>1, <3>a, <3>b, <3>c DEF Record, Failure
    <3>2. Apply(rec', "forward", step)
      BY <2>3
    <3>3. db'.cancel = db.cancel
      BY <1>a, <3>1, <3>2, ApplyType
    <3>4. pc = "cancel" /\ pc' = "take"
          /\ UNCHANGED <<status, cpc, pending, cut, attempt, dirty, loaded>>
      BY <2>1, <2>3
    <3>5. res'.preempted \in {NoCause, res.preempted}
      BY <2>3, Zenon DEF NoResult
    <3>p. AttemptInv'
      BY <3>1, <3>3, <3>4, <3>5 DEF AttemptInv
    <3>q. CauseInv'
      BY <3>1, <3>3, <3>4, <3>5 DEF CauseInv
    <3>r. PreemptInv' /\ CancelCutsForward'
      BY <3>1, <3>3, <3>4, <3>5 DEF PreemptInv, AttemptInv, CauseInv, CancelCutsForward, Past, Operating
    <3>s. QED  BY <3>p, <3>q, <3>r
  <2>4. QED  BY <1>11, <2>2, <2>3 DEF CancelOperation, Goto
<1>12. QED
  BY <1>1, <1>2, <1>3, <1>4, <1>5, <1>6, <1>7, <1>8, <1>9, <1>10, <1>11 DEF Operate
\* The commit of the outcome keeps the invariant; the end of the pass drops
\* a preemption no attempt took.
LEMMA CommitCancel ==
    ASSUME TypeOK, PhaseInv, CancelInv, Commit \/ Finish
    PROVE  CancelInv'
<1> USE DEF CancelInv
<1>a. DurableOK /\ rec \in Record
  BY TypeParts DEF WorkerOK
<1>1. CASE Commit
  <2>1. pc = "commit" /\ UNCHANGED <<status, cpc, pending, cut, attempt, dirty>>
    BY <1>1 DEF Commit, preempt, engine
  <2>2. CASE StoreFault /\ Exit(FALSE)
    <3>1. db' = db
      BY <2>2 DEF StoreFault, durable
    <3>2. QED  BY <2>1, <2>2, <3>1, ExitCancelInv
  <2>3. CASE /\ rec' = [rec EXCEPT !.phase = "done",
                          !.outcome = IF rec.phase = "forward" THEN "success"
                                                               ELSE "failure"]
             /\ Apply(rec', "done", NoStep)
             /\ pc' = "finish" /\ UNCHANGED <<loaded, step, res>>
    <3>1. rec' \in Record /\ rec'.cancel = rec.cancel
      BY <1>a, <2>3 DEF Record
    <3>2. Apply(rec', "done", NoStep)
      BY <2>3
    <3>3. db'.cancel = db.cancel
      BY <1>a, <3>1, <3>2, ApplyType
    <3>4. pc = "commit" /\ pc' = "finish"
          /\ UNCHANGED <<status, cpc, pending, cut, attempt, dirty, loaded, res>>
      BY <2>1, <2>3
    <3>p. AttemptInv'
      BY <3>1, <3>3, <3>4 DEF AttemptInv
    <3>q. CauseInv'
      BY <3>1, <3>3, <3>4 DEF CauseInv
    <3>r. PreemptInv' /\ CancelCutsForward'
      BY <3>1, <3>3, <3>4 DEF PreemptInv, AttemptInv, CauseInv, CancelCutsForward, Past, Operating
    <3>s. QED  BY <3>p, <3>q, <3>r
  <2>4. QED  BY <1>1, <2>2, <2>3 DEF Commit, Goto
<1>2. CASE Finish
  <2>1. /\ pc = "finish" /\ pending' = NoCause
        /\ UNCHANGED <<db, status, cpc, cut, attempt, dirty>>
    BY <1>2 DEF Finish, durable, engine
  <2>2. CASE Exit(FALSE)
    BY <2>1, <2>2, ExitCancelInv
  <2>3. CASE ~Exit(FALSE)
    <3>1. pc' = "take" /\ UNCHANGED <<loaded, rec, res>>
      BY <1>2, <2>3 DEF Finish, Goto
    <3>2. /\ pc = "finish" /\ pending' = NoCause
          /\ UNCHANGED <<db, status, cpc, cut, attempt, dirty>>
      BY <2>1
    <3>3. AttemptInv'
      BY <3>1, <3>2 DEF AttemptInv
    <3>4. CauseInv'
      BY <3>1, <3>2 DEF CauseInv
    <3>5. PreemptInv' /\ CancelCutsForward'
      BY <3>1, <3>2 DEF PreemptInv, CancelCutsForward, Past, Operating
    <3>6. QED  BY <3>3, <3>4, <3>5
  <2>4. QED  BY <2>2, <2>3
<1>3. QED  BY <1>1, <1>2

\* A poke only starts a worker where there is none.
LEMMA PokeCancel ==
    ASSUME TypeOK, PhaseInv, CancelInv, Poke,
           UNCHANGED <<status, pending, cut, attempt, dirty>>, db'.cancel = db.cancel,
           cpc' = cpc \/ \E c \in Causes : cpc[c] = "poke" /\ cpc' = [cpc EXCEPT ![c] = "done"]
    PROVE  CancelInv'
<1> USE DEF CancelInv
<1>a. WorkerOK /\ EngineOK /\ DurableOK
  BY TypeParts
<1>1. /\ pc' = pc \/ (pc = "idle" /\ pc' = "queued")
      /\ UNCHANGED <<loaded, rec, res>>
  BY <1>a, PokeType
<1>2. /\ \A c \in Causes : cpc'[c] = cpc[c] \/ (cpc[c] = "poke" /\ cpc'[c] = "done")
  BY <1>a DEF EngineOK
<1>3. db.cancel # NoCause => db.cancel \in Causes
  BY <1>a DEF DurableOK, Record
<1>4. /\ UNCHANGED <<status, pending, cut, attempt, dirty>> /\ db'.cancel = db.cancel
  OBVIOUS
<1>p. AttemptInv'
  BY <1>1, <1>2, <1>3, <1>4 DEF AttemptInv
<1>q. CauseInv'
  BY <1>1, <1>2, <1>3, <1>4 DEF CauseInv, CancelCause
<1>r. PreemptInv' /\ CancelCutsForward'
  BY <1>1, <1>2, <1>3, <1>4 DEF PreemptInv, AttemptInv, CauseInv, CancelCutsForward, Past, Operating
<1>s. QED  BY <1>p, <1>q, <1>r

\* A cancel request leaves its announcements in the order the worker needs.
LEMMA RequestCancel ==
    ASSUME TypeOK, PhaseInv, CancelInv, NEW c \in Causes, Cancel(c)
    PROVE  CancelInv'
<1> USE DEF CancelInv
<1>a. EngineOK /\ DurableOK
  BY TypeParts
<1>b. c # NoCause /\ (db.cancel # NoCause => db.cancel \in Causes)
  BY <1>a, LifecycleAssumption DEF DurableOK, Record, LifecycleAssumption
<1>1. CASE CancelRequest(c)
  <2>1. /\ UNCHANGED <<status, pending, cut, attempt, dirty, pc, loaded, rec, res>>
        /\ cpc[c] = "idle"
    BY <1>1 DEF CancelRequest, preempt, engine, worker
  <2>2. CASE db' = db /\ cpc' = [cpc EXCEPT ![c] = "done"]
    <3>1. /\ UNCHANGED <<db, status, pending, cut, attempt, dirty, pc, loaded, rec, res>>
          /\ cpc[c] = "idle" /\ cpc'[c] = "done" /\ \A d \in Causes \ {c} : cpc'[d] = cpc[d]
      BY <1>a, <2>1, <2>2 DEF EngineOK
    <3>2. db.cancel # c
      BY <1>b, <2>1 DEF CauseInv
    <3>3. db.cancel # NoCause => cpc'[db.cancel] = cpc[db.cancel]
      BY <1>b, <3>1, <3>2
    <3>p. AttemptInv'
      BY <3>1, <3>2, <3>3 DEF AttemptInv
    <3>q. CauseInv'
      BY <3>1, <3>2, <3>3 DEF CauseInv, CancelCause
    <3>r. PreemptInv' /\ CancelCutsForward'
      BY <3>1, <3>2, <3>3 DEF PreemptInv, AttemptInv, CauseInv, CancelCutsForward, Past, Operating
    <3>s. QED  BY <3>p, <3>q, <3>r
  <2>3. CASE db.cancel = NoCause /\ db' = [db EXCEPT !.cancel = c] /\ cpc' = [cpc EXCEPT ![c] = "mark"]
    <3>1. /\ db.cancel = NoCause /\ db'.cancel = c /\ cpc'[c] = "mark"
          /\ \A d \in Causes \ {c} : cpc'[d] = cpc[d]
      BY <1>a, <2>3 DEF EngineOK, DurableOK, Record
    <3>2. /\ UNCHANGED <<status, pending, cut, attempt, dirty, pc, loaded, rec, res>>
          /\ c # NoCause
      BY <1>b, <2>1
    <3>3. UNCHANGED CancelCause
      BY <3>2 DEF CancelCause
    <3>p. AttemptInv'
      BY <3>1, <3>2, <3>3 DEF AttemptInv
    <3>q. CauseInv'
      BY <3>1, <3>2, <3>3, LifecycleAssumption DEF CauseInv, LifecycleAssumption, CancelCause
    <3>r. PreemptInv' /\ CancelCutsForward'
      BY <3>1, <3>2, <3>3 DEF PreemptInv, AttemptInv, CauseInv, CancelCutsForward, Past, Operating
    <3>s. QED  BY <3>p, <3>q, <3>r
  <2>4. QED  BY <1>1, <2>2, <2>3 DEF CancelRequest
<1>2. CASE CancelMark(c)
  <2>1. /\ cpc[c] = "mark" /\ dirty' = TRUE /\ cpc'[c] = "preempt"
        /\ \A d \in Causes \ {c} : cpc'[d] = cpc[d]
    BY <1>2, <1>a DEF CancelMark, EngineOK
  <2>2. UNCHANGED <<db, status, pending, cut, attempt, pc, loaded, rec, res>>
    BY <1>2 DEF CancelMark, durable, engine, worker
  <2>3. db.cancel = c
    BY <2>1 DEF CauseInv
  <2>p. AttemptInv'
    BY <2>1, <2>2, <2>3, <1>b DEF AttemptInv
  <2>q. CauseInv'
    BY <2>1, <2>2, <2>3, <1>b DEF CauseInv, CancelCause
  <2>r. PreemptInv' /\ CancelCutsForward'
    BY <2>1, <2>2, <2>3, <1>b DEF PreemptInv, AttemptInv, CauseInv, CancelCutsForward, Past, Operating
  <2>s. QED  BY <2>p, <2>q, <2>r
<1>3. CASE CancelPreempt(c)
  <2>1. /\ cpc[c] = "preempt" /\ cpc'[c] = "poke"
        /\ \A d \in Causes \ {c} : cpc'[d] = cpc[d]
    BY <1>3, <1>a DEF CancelPreempt, EngineOK
  <2>2. /\ UNCHANGED <<db, status, dirty, attempt, pc, loaded, rec, res>>
        /\ cut' = IF attempt = "forward" /\ cut = NoCause THEN c ELSE cut
        /\ pending' = IF attempt = "none" THEN c ELSE pending
    BY <1>3 DEF CancelPreempt, durable, engine, worker
  <2>3. db.cancel = c
    BY <2>1 DEF CauseInv
  <2>p. AttemptInv'
    BY <2>1, <2>2, <2>3, <1>b DEF AttemptInv
  <2>q. CauseInv'
    BY <2>1, <2>2, <2>3, <1>b DEF CauseInv, CancelCause
  <2>r. PreemptInv' /\ CancelCutsForward'
    BY <2>1, <2>2, <2>3, <1>b DEF PreemptInv, AttemptInv, CauseInv, CancelCutsForward, Past, Operating
  <2>s. QED  BY <2>p, <2>q, <2>r
<1>4. CASE CancelPoke(c)
  <2>1. /\ Poke /\ UNCHANGED <<db, status, pending, cut, attempt, dirty>>
        /\ cpc[c] = "poke" /\ cpc' = [cpc EXCEPT ![c] = "done"]
    BY <1>4 DEF CancelPoke, durable, preempt, engine
  <2>2. QED  BY <2>1, PokeCancel
<1>5. QED  BY <1>1, <1>2, <1>3, <1>4 DEF Cancel

\* Time, targets, shutdown, crash and redeployment keep the invariant: a
\* crash drops every trace of a request in memory, and the record keeps it.
LEMMA EnvironmentCancel ==
    ASSUME TypeOK, PhaseInv, CancelInv, Environment
    PROVE  CancelInv'
<1> USE DEF CancelInv
<1>a. EngineOK /\ DurableOK
  BY TypeParts
<1>b. db.cancel # NoCause => db.cancel \in Causes
  BY <1>a DEF DurableOK, Record
<1>1. CASE TimePasses \/ TargetsDone \/ DeadlinePasses
  <2>1. UNCHANGED <<db, status, cpc, pending, cut, attempt, dirty>>
    BY <1>1 DEF TimePasses, TargetsDone, DeadlinePasses, preempt, engine
  <2>2. CASE Poke
    BY <2>1, <2>2, PokeCancel
  <2>3. CASE ~Poke
    <3>1. UNCHANGED <<pc, loaded, rec, res>>
      BY <1>1, <2>3 DEF TimePasses, TargetsDone, DeadlinePasses, worker
    <3>2. UNCHANGED <<db, status, cpc, pending, cut, attempt, dirty>>
      BY <2>1
    <3>p. AttemptInv'
      BY <3>1, <3>2 DEF AttemptInv
    <3>q. CauseInv'
      BY <3>1, <3>2 DEF CauseInv, CancelCause
    <3>r. PreemptInv' /\ CancelCutsForward'
      BY <3>1, <3>2 DEF PreemptInv, AttemptInv, CauseInv, CancelCutsForward, Past, Operating
    <3>s. QED  BY <3>p, <3>q, <3>r
  <2>4. QED  BY <2>2, <2>3
<1>2. CASE Drain \/ StopEngine
  <2>1. /\ UNCHANGED <<db, cpc, pending, cut, attempt, dirty, pc, loaded, rec, res>>
        /\ status' # "down"
    BY <1>2 DEF Drain, StopEngine, durable, preempt, worker
  <2>p. AttemptInv'
    BY <2>1 DEF AttemptInv
  <2>q. CauseInv'
    BY <2>1 DEF CauseInv, CancelCause
  <2>r. PreemptInv' /\ CancelCutsForward'
    BY <2>1 DEF PreemptInv, AttemptInv, CauseInv, CancelCutsForward, Past, Operating
  <2>s. QED  BY <2>p, <2>q, <2>r
<1>3. CASE ProcessEnds
  <2>1. /\ pending' = NoCause /\ attempt' = "none" /\ cut' = NoCause
        /\ pc' = "idle" /\ loaded' = FALSE /\ rec' = NewRecord(FALSE) /\ res' = NoResult
        /\ db' = db
        /\ \A c \in Causes : cpc'[c] = IF cpc[c] = "idle" THEN "idle" ELSE "done"
    BY <1>3 DEF ProcessEnds, durable
  <2>2. rec'.cancel = NoCause
    BY <2>1, NewRecordType
  <2>3. res'.preempted = NoCause
    BY <2>1, Zenon DEF NoResult
  <2>4. /\ pending' = NoCause /\ attempt' = "none" /\ cut' = NoCause
        /\ pc' = "idle" /\ loaded' = FALSE /\ db' = db
        /\ \A c \in Causes : cpc'[c] = IF cpc[c] = "idle" THEN "idle" ELSE "done"
    BY <2>1
  <2>p. AttemptInv'
    BY <2>2, <2>3, <2>4, <1>b DEF AttemptInv
  <2>q. CauseInv'
    BY <2>2, <2>3, <2>4, <1>b DEF CauseInv
  <2>r. PreemptInv' /\ CancelCutsForward'
    BY <2>2, <2>3, <2>4, <1>b DEF PreemptInv, AttemptInv, CauseInv, CancelCutsForward, Past, Operating
  <2>s. QED  BY <2>p, <2>q, <2>r
<1>4. CASE Restart
  <2>1. /\ UNCHANGED <<db, cpc, pending, cut, attempt, dirty, loaded, rec, res>>
        /\ status = "down" /\ status' = "up" /\ pc' \in {"idle", "queued"}
    BY <1>4 DEF Restart, durable, preempt
  <2>2. pc \in {"idle", "queued"}
    BY <2>1 DEF PreemptInv
  <2>p. AttemptInv'
    BY <2>1, <2>2 DEF AttemptInv
  <2>q. CauseInv'
    BY <2>1, <2>2 DEF CauseInv
  <2>r. PreemptInv' /\ CancelCutsForward'
    BY <2>1, <2>2 DEF PreemptInv, AttemptInv, CauseInv, CancelCutsForward, Past, Operating
  <2>s. QED  BY <2>p, <2>q, <2>r
<1>5. CASE Quiescent
  <2>1. UNCHANGED <<db, status, cpc, pending, cut, attempt, dirty, pc, loaded, rec, res>>
    BY <1>5 DEF Quiescent, vars, durable, preempt, engine, worker
  <2>p. AttemptInv'
    BY <2>1 DEF AttemptInv
  <2>q. CauseInv'
    BY <2>1 DEF CauseInv, CancelCause
  <2>r. PreemptInv' /\ CancelCutsForward'
    BY <2>1 DEF PreemptInv, AttemptInv, CauseInv, CancelCutsForward, Past, Operating
  <2>s. QED  BY <2>p, <2>q, <2>r
<1>6. QED
  BY <1>1, <1>2, <1>3, <1>4, <1>5 DEF Environment

\* The whole invariant is inductive.
LEMMA CancelStep ==
    ASSUME TypeOK, PhaseInv, CancelInv, [Next]_vars
    PROVE  CancelInv'
<1>1. CASE UNCHANGED vars
  <2>1. UNCHANGED <<db, status, cpc, pending, cut, attempt, dirty, pc, loaded, rec, res>>
    BY <1>1 DEF vars, durable, preempt, engine, worker
  <2>2. QED
    BY <2>1 DEF CancelInv, AttemptInv, CauseInv, PreemptInv, CancelCutsForward, CancelCause
<1>2. QED
  BY <1>1, PassCancel, OperateCancel, CommitCancel, RequestCancel, EnvironmentCancel
  DEF Next

\* Once a cancel call has passed its preemption no forward handler runs with a
\* live context, however the request interleaved with preemptAttempt,
\* attemptContext, the reservation, a crash or a redeployment.
THEOREM CancelCutsForwardAlways == Spec => []CancelCutsForward
<1>1. Init => TypeOK /\ PhaseInv /\ CancelInv
  BY InitType, InitCancel
<1>2. TypeOK /\ PhaseInv /\ CancelInv /\ [Next]_vars => (TypeOK /\ PhaseInv /\ CancelInv)'
  BY TypeStep, CancelStep
<1>3. CancelInv => CancelCutsForward
  BY DEF CancelInv
<1>4. QED  BY <1>1, <1>2, <1>3, PTL DEF Spec

\* attemptContext and preemptAttempt never cut an unwind attempt.
THEOREM UnwindNeverCutAlways == Spec => []UnwindNeverCut
<1>1. Init => TypeOK /\ PhaseInv /\ CancelInv
  BY InitType, InitCancel
<1>2. TypeOK /\ PhaseInv /\ CancelInv /\ [Next]_vars => (TypeOK /\ PhaseInv /\ CancelInv)'
  BY TypeStep, CancelStep
<1>3. CancelInv => UnwindNeverCut
  BY DEF CancelInv, AttemptInv, UnwindNeverCut
<1>4. QED  BY <1>1, <1>2, <1>3, PTL DEF Spec
=============================================================================
