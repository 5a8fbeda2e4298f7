--------------------------- MODULE RunClassProofs ---------------------------
(***************************************************************************)
(* Theorems about RunClass, for any set of Runs, resources, delays and     *)
(* capacities and any number of crashes: the pool's books always agree,    *)
(* and, when callers wait for Start to return, every started Run holds its *)
(* token and no Run starts beyond the capacity of its deployment.          *)
(***************************************************************************)
EXTENDS RunClass, FiniteSetTheorems, WellFoundedInduction, TLAPS

(* A subset of Runs is finite, and its cardinality a natural number. *)
LEMMA FiniteRuns ==
    ASSUME NEW S \in SUBSET Runs
    PROVE  IsFiniteSet(S) /\ Cardinality(S) \in Nat
BY FS_Subset, FS_CardinalityType, RunsAssumption

(* Counting one Run more, or one less. *)
LEMMA CountRuns ==
    ASSUME NEW S \in SUBSET Runs, NEW w \in Runs
    PROVE  /\ w \notin S => Cardinality(S \cup {w}) = Cardinality(S) + 1
           /\ w \in S => /\ Cardinality(S \ {w}) = Cardinality(S) - 1
                         /\ Cardinality(S) >= 1
<1>1. IsFiniteSet(S) /\ Cardinality(S) \in Nat
  BY FiniteRuns
<1>2. w \notin S => Cardinality(S \cup {w}) = Cardinality(S) + 1
  BY <1>1, FS_AddElement
<1>3. ASSUME w \in S
      PROVE  Cardinality(S \ {w}) = Cardinality(S) - 1 /\ Cardinality(S) >= 1
  <2>1. Cardinality(S \ {w}) = Cardinality(S) - 1
    BY <1>1, <1>3, FS_RemoveElement
  <2>2. Cardinality(S \ {w}) \in Nat
    BY FiniteRuns
  <2> QED BY <1>1, <2>1, <2>2
<1> QED BY <1>2, <1>3

-----------------------------------------------------------------------------
(* The pool's operations, one lemma each: the books still agree. *)
GoodPool(p) == p \in PoolType /\ PoolOK(p)

LEMMA NewPoolGood == GoodPool(NewPool)
<1>1. Cardinality({}) = 0
  BY FS_EmptySet
<1> QED BY <1>1 DEF GoodPool, PoolType, PoolOK, NewPool

LEMMA AdmitGood ==
    ASSUME NEW p, GoodPool(p), NEW w \in Runs
    PROVE  GoodPool(Admit(p, w)) /\ Admit(p, w).holders = p.holders
BY DEF GoodPool, PoolType, PoolOK, Admit

LEMMA ForgetGood ==
    ASSUME NEW p, GoodPool(p), NEW w \in Runs
    PROVE  /\ GoodPool(Forget(p, w))
           /\ Forget(p, w).holders = p.holders
           /\ w \notin Forget(p, w).pending
BY DEF GoodPool, PoolType, PoolOK, Forget

LEMMA ClearGood ==
    ASSUME NEW p, GoodPool(p), NEW w \in Runs
    PROVE  GoodPool(Clear(p, w)) /\ Clear(p, w).holders = p.holders
BY DEF GoodPool, PoolType, PoolOK, Clear

(* Taking a token after leaving the line, as Hold and a grant do. *)
LEMMA TakeGood ==
    ASSUME NEW p, GoodPool(p), NEW w \in Runs, w \notin p.holders,
           w \notin p.pending
    PROVE  GoodPool([p EXCEPT !.inUse = @ + 1, !.holders = @ \cup {w}])
<1> DEFINE q == [p EXCEPT !.inUse = @ + 1, !.holders = @ \cup {w}]
<1>1. Cardinality(p.holders \cup {w}) = Cardinality(p.holders) + 1
  BY CountRuns DEF GoodPool, PoolType
<1>2. q \in PoolType
  <2>1. p.inUse + 1 \in Nat /\ p.holders \cup {w} \in SUBSET Runs
    BY DEF GoodPool, PoolType
  <2>2. p \in PoolType
    BY DEF GoodPool
  <2> QED BY <2>1, <2>2 DEF PoolType
<1>3. /\ q.inUse = p.inUse + 1 /\ q.holders = p.holders \cup {w}
      /\ q.pending = p.pending /\ q.line = p.line
      /\ q.aside = p.aside /\ q.parked = p.parked
  BY DEF GoodPool, PoolType
<1> HIDE DEF q
<1>4. PoolOK(q)
  BY <1>1, <1>3 DEF GoodPool, PoolOK
<1>5. GoodPool(q)
  BY <1>2, <1>4 DEF GoodPool
<1> QED BY <1>5 DEF q

LEMMA HoldGood ==
    ASSUME NEW p, GoodPool(p), NEW w \in Runs
    PROVE  GoodPool(Hold(p, w)) /\ Hold(p, w).holders = p.holders \cup {w}
<1>1. CASE w \in p.holders
  BY <1>1 DEF Hold
<1>2. CASE w \notin p.holders
  <2> DEFINE f == Forget(p, w)
  <2>1. GoodPool(f) /\ f.holders = p.holders /\ w \notin f.pending
    BY ForgetGood
  <2>2. Hold(p, w) = [f EXCEPT !.inUse = @ + 1, !.holders = @ \cup {w}]
    BY <1>2 DEF Hold
  <2> HIDE DEF f
  <2>3. GoodPool([f EXCEPT !.inUse = @ + 1, !.holders = @ \cup {w}])
    BY <1>2, <2>1, TakeGood
  <2> QED BY <2>1, <2>2, <2>3 DEF GoodPool, PoolType
<1> QED BY <1>1, <1>2

LEMMA ReleaseGood ==
    ASSUME NEW p, GoodPool(p), NEW w \in Runs
    PROVE  /\ GoodPool(Release(p, w))
           /\ Release(p, w).holders = p.holders \ {w}
           /\ Release(p, w).inUse <= p.inUse
<1>1. CASE w \in p.holders
  <2> DEFINE q == [p EXCEPT !.inUse = @ - 1, !.holders = @ \ {w}]
  <2>1. /\ Cardinality(p.holders \ {w}) = Cardinality(p.holders) - 1
        /\ Cardinality(p.holders) >= 1
    BY <1>1, CountRuns DEF GoodPool, PoolType
  <2>2. /\ q.inUse = p.inUse - 1 /\ q.holders = p.holders \ {w}
        /\ q.pending = p.pending /\ q.line = p.line
        /\ q.aside = p.aside /\ q.parked = p.parked
    BY DEF GoodPool, PoolType
  <2>3. p.inUse \in Nat /\ p.inUse = Cardinality(p.holders)
    BY DEF GoodPool, PoolType, PoolOK
  <2>4. p.inUse - 1 \in Nat
    BY <2>1, <2>3
  <2>5. q \in PoolType
    BY <2>4 DEF GoodPool, PoolType
  <2>6. Release(p, w) = q
    BY <1>1 DEF Release
  <2> HIDE DEF q
  <2>7. PoolOK(q)
    BY <2>1, <2>2, <2>3 DEF GoodPool, PoolOK
  <2> QED BY <2>2, <2>3, <2>5, <2>6, <2>7 DEF GoodPool
<1>2. CASE w \notin p.holders
  <2>1. Release(p, w) = Forget(p, w)
    BY <1>2 DEF Release
  <2>2. GoodPool(Forget(p, w)) /\ Forget(p, w).holders = p.holders
    BY ForgetGood
  <2>3. Forget(p, w).inUse = p.inUse /\ p.inUse \in Nat
    BY DEF GoodPool, PoolType, Forget
  <2>4. p.holders \ {w} = p.holders
    BY <1>2
  <2> QED BY <2>1, <2>2, <2>3, <2>4
<1> QED BY <1>1, <1>2

(* A refusal changes no holder; a grant adds w and fits the capacity. *)
LEMMA AcquireGood ==
    ASSUME NEW p, GoodPool(p), NEW w \in Runs, NEW c \in Nat, NEW pl
    PROVE  /\ GoodPool(Acquire(p, w, c, pl))
           /\ ~Granted(p, w, c, pl) =>
                Acquire(p, w, c, pl).holders = p.holders
           /\ Granted(p, w, c, pl) =>
                /\ Acquire(p, w, c, pl).holders = p.holders \cup {w}
                /\ w \notin p.holders => Acquire(p, w, c, pl).inUse <= c
<1>1. CASE w \in p.holders
  BY <1>1 DEF Acquire, GoodPool, PoolType
<1>2. CASE w \notin p.holders /\ Granted(p, w, c, pl)
  <2> DEFINE f == Forget(p, w)
             ahead == Ahead(Enter(p, w), pl, w)
  <2>1. GoodPool(f) /\ f.holders = p.holders /\ w \notin f.pending
    BY ForgetGood
  <2>2. Acquire(p, w, c, pl) =
            [f EXCEPT !.inUse = @ + 1, !.holders = @ \cup {w}]
    BY <1>2 DEF Acquire
  <2>3. f.inUse = p.inUse /\ p.inUse \in Nat
    BY DEF Forget, GoodPool, PoolType
  <2>4. p.inUse + Cardinality(ahead) < c
    BY <1>2 DEF Granted
  <2>5. ahead \in SUBSET Runs
    BY DEF Ahead, Enter, GoodPool, PoolType
  <2>6. Cardinality(ahead) \in Nat
    BY <2>5, FiniteRuns
  <2> HIDE DEF f, ahead
  <2>7. GoodPool([f EXCEPT !.inUse = @ + 1, !.holders = @ \cup {w}])
    BY <1>2, <2>1, TakeGood
  <2>8. p.inUse + 1 <= c
    BY <2>3, <2>4, <2>6
  <2> QED BY <1>2, <2>1, <2>2, <2>3, <2>7, <2>8 DEF GoodPool, PoolType
<1>3. CASE w \notin p.holders /\ ~Granted(p, w, c, pl)
  BY <1>3 DEF Acquire, Enter, GoodPool, PoolType, PoolOK
<1> QED BY <1>1, <1>2, <1>3

(* A nonempty set of natural numbers has a least element. *)
LEMMA LeastNumber ==
    ASSUME NEW S, S \subseteq Nat, S # {}
    PROVE  \E m \in S : \A n \in S : m <= n
<1>1. PICK m \in S : \A n \in S : ~(<<n, m>> \in OpToRel(<, Nat))
  BY NatLessThanWellFounded, WFMin, Zenon
<1>2. \A n \in S : ~(n < m)
  BY <1>1 DEF OpToRel
<1> QED BY <1>2

(* A nonempty line has a first member. *)
LEMMA FirstInLine ==
    ASSUME NEW S \in SUBSET Runs, S # {}, NEW pl \in [Runs -> Nat]
    PROVE  \E m \in S : \A n \in S \ {m} : Before(pl, m, n)
<1>1. S \in SUBSET Nat
  BY RunsAssumption
<1> DEFINE P == {pl[m] : m \in S}
<1>2. P \in SUBSET Nat /\ P # {}
  OBVIOUS
<1>3. PICK t \in P : \A u \in P : t <= u
  BY <1>2, LeastNumber
<1> DEFINE F == {m \in S : pl[m] = t}
<1>4. F \in SUBSET Nat /\ F # {}
  BY <1>1, <1>3
<1> HIDE DEF F
<1>5. PICK m \in F : \A n \in F : m <= n
  BY <1>4, LeastNumber
<1>6. m \in S /\ pl[m] = t /\ m \in Nat
  BY <1>1, <1>5 DEF F
<1>7. ASSUME NEW n \in S \ {m}
      PROVE  Before(pl, m, n)
  <2>1. n \in Nat /\ pl[n] \in Nat /\ pl[m] \in Nat /\ pl[m] <= pl[n]
    BY <1>1, <1>3, <1>6, <1>7
  <2>2. pl[n] = pl[m] => m <= n
    BY <1>5, <1>6, <1>7 DEF F
  <2> QED BY <1>6, <1>7, <2>1, <2>2 DEF Before
<1> QED BY <1>6, <1>7

(* A kick is a Run of the line, or none. *)
LEMMA HeadType ==
    ASSUME NEW p, GoodPool(p), NEW c, NEW pl \in [Runs -> Nat]
    PROVE  Head(p, c, pl) \in p.line \cup {NoRun}
<1>1. CASE p.inUse < c /\ p.line # {}
  <2>1. \E m \in p.line : \A n \in p.line \ {m} : Before(pl, m, n)
    BY <1>1, FirstInLine DEF GoodPool, PoolType
  <2> QED BY <1>1, <2>1 DEF Head
<1>2. CASE ~(p.inUse < c /\ p.line # {})
  BY <1>2 DEF Head
<1> QED BY <1>1, <1>2
-----------------------------------------------------------------------------
(* Type correctness and the pool's books, kept together: a Release needs   *)
(* inUse to count the holder before it can subtract one.                   *)
Good == TypeOK /\ PoolConsistent

LEMMA GoodIsGoodPool == Good => GoodPool(pool)
BY DEF Good, GoodPool, TypeOK, PoolConsistent

LEMMA InitGood == Init => Good
<1> SUFFICES ASSUME Init PROVE Good
  OBVIOUS
<1>1. GoodPool(pool)
  BY NewPoolGood DEF Init
<1>2. PoolConsistent /\ pool \in PoolType
  BY <1>1 DEF GoodPool, PoolConsistent
<1>3. TypeOK
  BY <1>2, ClassAssumption DEF Init, TypeOK, CallStates, WorkerStates
<1> QED BY <1>2, <1>3 DEF Good

(* Only these actions touch the pool. *)
LEMMA PoolStep ==
    ASSUME Good, [Next]_vars
    PROVE  pool' \in PoolType /\ PoolConsistent'
<1>0. GoodPool(pool)
  BY GoodIsGoodPool
<1>1. SUFFICES GoodPool(pool')
  BY <1>1 DEF GoodPool, PoolConsistent
<1>2. cap \in Nat
  BY ClassAssumption DEF Good, TypeOK
<1>3. ASSUME NEW r \in Runs, Schedule(r) PROVE GoodPool(pool')
  <2>1. \/ UNCHANGED pool \/ pool' = Admit(pool, r) \/ pool' = Release(pool, r)
    BY <1>3 DEF Schedule, ScheduleStamp, ScheduleAdmit, ScheduleCheck,
         ScheduleCreate, ScheduleTakeBack, ScheduleCount, ScheduleDispatch
  <2> QED BY <1>0, <2>1, AdmitGood, ReleaseGood
<1>4. ASSUME NEW r \in Runs, Worker(r) PROVE GoodPool(pool')
  <2>1. \/ UNCHANGED pool \/ pool' = Acquire(pool, r, cap, place)
        \/ pool' = Release(pool, r) \/ pool' = Clear(pool, r)
    BY <1>4 DEF Worker, Gate, GateGone, GateFault, GateInvalid, GateCancel,
         GateSleep, GateAcquire, GatePass, DeliverKick, Reserve, Attempt,
         ReleaseRunClass, Exit, WakeUp
  <2>2. GoodPool(Acquire(pool, r, cap, place))
    BY <1>0, <1>2, AcquireGood
  <2>3. GoodPool(Release(pool, r)) /\ GoodPool(Clear(pool, r))
    BY <1>0, ReleaseGood, ClearGood
  <2> QED BY <1>0, <2>1, <2>2, <2>3
<1>5. ASSUME Starting PROVE GoodPool(pool')
  <2>1. ASSUME NEW r \in Runs, StartSeed(r)
        PROVE  pool' = Hold(pool, r) \/ pool' = Admit(pool, r)
    BY <2>1 DEF StartSeed
  <2>2. ASSUME NEW r \in Runs, StartDispatch(r) PROVE UNCHANGED pool
    BY <2>2 DEF StartDispatch
  <2>3. ASSUME StartBegin \/ StartList \/ StartSeeded \/ StartDone
        PROVE  UNCHANGED pool
    BY <2>3 DEF StartBegin, StartList, StartSeeded, StartDone
  <2> QED BY <1>0, <1>5, <2>1, <2>2, <2>3, HoldGood, AdmitGood DEF Starting
<1>6. CASE Crash
  BY <1>6, NewPoolGood DEF Crash
<1>7. CASE \/ \E r \in Runs : Cancel(r)
           \/ Tick \/ Rest \/ UNCHANGED vars
  BY <1>0, <1>7 DEF Cancel, Tick, Rest, vars
<1> QED BY <1>3, <1>4, <1>5, <1>6, <1>7 DEF Next

(* The kick a worker owes names a Run. *)
LEMMA OwedStep ==
    ASSUME Good, [Next]_vars
    PROVE  owed' \in [Runs -> Runs \cup {NoRun}]
<1>0. GoodPool(pool) /\ cap \in Nat /\ place \in [Runs -> Nat]
  BY GoodIsGoodPool, ClassAssumption DEF Good, TypeOK
<1>1. owed \in [Runs -> Runs \cup {NoRun}]
  BY DEF Good, TypeOK
<1>2. ASSUME NEW p, GoodPool(p)
      PROVE  Head(p, cap, place) \in Runs \cup {NoRun}
  <2>1. Head(p, cap, place) \in p.line \cup {NoRun}
    BY <1>0, <1>2, HeadType
  <2> QED BY <1>2, <2>1 DEF GoodPool, PoolType
<1>3. ASSUME NEW r \in Runs, Worker(r)
      PROVE  owed' \in [Runs -> Runs \cup {NoRun}]
  <2>1. CASE UNCHANGED owed \/ owed' = [owed EXCEPT ![r] = NoRun]
    BY <1>1, <2>1
  <2>2. CASE owed' = [owed EXCEPT ![r] = AcquireKick(pool, r, cap, place)]
    <3>1. AcquireKick(pool, r, cap, place) \in Runs \cup {NoRun}
      BY <1>0, <1>2, AcquireGood DEF AcquireKick
    <3> QED BY <1>1, <2>2, <3>1
  <2>3. CASE owed' = [owed EXCEPT ![r] = ReleaseKick(pool, r, cap, place)]
    <3>1. ReleaseKick(pool, r, cap, place) \in Runs \cup {NoRun}
      BY <1>0, <1>2, ReleaseGood DEF ReleaseKick
    <3> QED BY <1>1, <2>3, <3>1
  <2>4. CASE owed' = [owed EXCEPT ![r] = ClearKick(pool, r, cap, place)]
    <3>1. ClearKick(pool, r, cap, place) \in Runs \cup {NoRun}
      BY <1>0, <1>2, ClearGood DEF ClearKick
    <3> QED BY <1>1, <2>4, <3>1
  <2> QED BY <1>3, <2>1, <2>2, <2>3, <2>4 DEF Worker, Gate, GateGone, GateFault,
         GateInvalid, GateCancel, GateSleep, GateAcquire, GatePass, DeliverKick,
         Reserve, Attempt, ReleaseRunClass, Exit, WakeUp, worker
<1>4. CASE Crash
  BY <1>4 DEF Crash
<1>5. ASSUME NEW r \in Runs, Schedule(r) \/ Cancel(r) PROVE UNCHANGED owed
  BY <1>5 DEF Schedule, ScheduleStamp, ScheduleAdmit, ScheduleCheck,
       ScheduleCreate, ScheduleTakeBack, ScheduleCount, ScheduleDispatch,
       Cancel, worker
<1>6. ASSUME Starting \/ Tick \/ Rest \/ UNCHANGED vars PROVE UNCHANGED owed
  BY <1>6 DEF Starting, StartBegin, StartList, StartSeed, StartSeeded,
       StartDispatch, StartDone, Tick, Rest, vars, worker
<1> QED BY <1>1, <1>3, <1>4, <1>5, <1>6 DEF Next
(* The other components keep their types. *)
LEMMA RestStep ==
    ASSUME Good, [Next]_vars
    PROVE  TypeOK'
<1>0. pool' \in PoolType /\ owed' \in [Runs -> Runs \cup {NoRun}]
  BY PoolStep, OwedStep
<1>1. TypeOK
  BY DEF Good
<1> USE DEF CallStates, WorkerStates
<1>2. ASSUME NEW r \in Runs, Schedule(r) PROVE TypeOK'
  <2>1. CASE ScheduleStamp(r)
    <3>1. now + Delay[r] \in Nat
      BY <1>1, ClassAssumption DEF TypeOK
    <3> QED BY <1>0, <1>1, <2>1, <3>1
            DEF ScheduleStamp, TypeOK, deploy, start, worker, bounds
  <2>2. CASE ScheduleAdmit(r)
    BY <1>0, <1>1, <2>2 DEF ScheduleAdmit, TypeOK, store, deploy, start, worker, bounds
  <2>3. CASE ScheduleCheck(r)
    BY <1>0, <1>1, <2>3 DEF ScheduleCheck, TypeOK, store, deploy, start, worker, bounds
  <2>4. CASE ScheduleCreate(r)
    BY <1>0, <1>1, <2>4 DEF ScheduleCreate, TypeOK, deploy, start, worker, bounds
  <2>5. CASE ScheduleTakeBack(r)
    BY <1>0, <1>1, <2>5 DEF ScheduleTakeBack, TypeOK, store, deploy, start, worker, bounds
  <2>6. CASE ScheduleCount(r)
    BY <1>0, <1>1, <2>6 DEF ScheduleCount, TypeOK, store, deploy, start, worker, bounds
  <2>7. CASE ScheduleDispatch(r)
    BY <1>0, <1>1, <2>7
       DEF ScheduleDispatch, Dispatch, TypeOK, store, deploy, start, bounds
  <2> QED BY <1>2, <2>1, <2>2, <2>3, <2>4, <2>5, <2>6, <2>7 DEF Schedule
<1>3. ASSUME NEW r \in Runs, Cancel(r) PROVE TypeOK'
  BY <1>0, <1>1, <1>3 DEF Cancel, Dispatch, TypeOK, deploy, start, bounds
<1>4. ASSUME NEW r \in Runs, Gate(r) PROVE TypeOK'
  <2>1. CASE GateGone(r) \/ GateSleep(r) \/ GatePass(r)
    BY <1>0, <1>1, <2>1
       DEF GateGone, GateSleep, GatePass, Leave, TypeOK, store, deploy, start, bounds
  <2>2. CASE GateFault(r)
    BY <1>0, <1>1, <2>2 DEF GateFault, Leave, TypeOK, store, deploy, start
  <2>3. CASE GateInvalid(r)
    BY <1>0, <1>1, <2>3 DEF GateInvalid, Leave, TypeOK, store, deploy, start, bounds
  <2>4. CASE GateCancel(r)
    BY <1>0, <1>1, <2>4 DEF GateCancel, Leave, TypeOK, deploy, start
  <2>5. CASE GateAcquire(r)
    BY <1>0, <1>1, <2>5 DEF GateAcquire, Leave, TypeOK, store, deploy, start, bounds
  <2> QED BY <1>4, <2>1, <2>2, <2>3, <2>4, <2>5 DEF Gate
<1>5. ASSUME NEW r \in Runs, Worker(r), ~Gate(r) PROVE TypeOK'
  <2>1. CASE DeliverKick(r)
    BY <1>0, <1>1, <2>1
       DEF DeliverKick, Dispatch, TypeOK, store, deploy, start, bounds
  <2>2. CASE Reserve(r)
    BY <1>0, <1>1, <2>2 DEF Reserve, Leave, TypeOK, deploy, start
  <2>3. CASE Attempt(r)
    BY <1>0, <1>1, <2>3 DEF Attempt, Leave, TypeOK, deploy, start
  <2>4. CASE ReleaseRunClass(r)
    BY <1>0, <1>1, <2>4 DEF ReleaseRunClass, Leave, TypeOK, store, deploy, start, bounds
  <2>5. CASE Exit(r) \/ WakeUp(r)
    BY <1>0, <1>1, <2>5 DEF Exit, WakeUp, TypeOK, store, deploy, start, bounds
  <2> QED BY <1>5, <2>1, <2>2, <2>3, <2>4, <2>5 DEF Worker
<1>6. ASSUME NEW r \in Runs, StartSeed(r) \/ StartDispatch(r) PROVE TypeOK'
  <2>1. CASE StartSeed(r)
    BY <1>0, <1>1, <2>1 DEF StartSeed, TypeOK, store, deploy, worker, bounds
  <2>2. CASE StartDispatch(r)
    BY <1>0, <1>1, <2>2 DEF StartDispatch, Dispatch, TypeOK, store, deploy, bounds
  <2> QED BY <1>6, <2>1, <2>2
<1>7. CASE StartBegin \/ StartDone \/ StartSeeded
  BY <1>0, <1>1, <1>7
     DEF StartBegin, StartDone, StartSeeded, TypeOK, store, deploy, worker, bounds
<1>8. CASE StartList
  BY <1>0, <1>1, <1>8 DEF StartList, Live, TypeOK, store, deploy, worker, bounds
<1>9. CASE Crash
  BY <1>0, <1>1, <1>9, ClassAssumption DEF Crash, TypeOK, store
<1>10. CASE Tick
  BY <1>0, <1>1, <1>10 DEF Tick, TypeOK, store, deploy, start, worker
<1>11. CASE Rest \/ UNCHANGED vars
  BY <1>1, <1>11
     DEF Rest, TypeOK, vars, store, deploy, start, worker, bounds
<1> QED BY <1>2, <1>3, <1>4, <1>5, <1>6, <1>7, <1>8, <1>9, <1>10, <1>11
       DEF Next, Starting

LEMMA GoodStep == Good /\ [Next]_vars => Good'
BY PoolStep, RestStep DEF Good

(* However Schedule calls, workers, cancels, Start and crashes interleave,  *)
(* the run class keeps its books: inUse is the number of holders, a pending *)
(* member is in line or set aside but not both, no holder is pending, and   *)
(* every variable keeps its type.                                           *)
THEOREM PoolConsistentAlways == Spec => [](TypeOK /\ PoolConsistent)
<1>1. Good => TypeOK /\ PoolConsistent
  BY DEF Good
<1> QED BY <1>1, InitGood, GoodStep, PTL DEF Spec

-----------------------------------------------------------------------------
(***************************************************************************)
(* The class bound.  StartsWithinCapacity is about one step; what makes it *)
(* true is spread over Start, Schedule and the workers:                    *)
(***************************************************************************)

(* No caller and no worker is about before the pool is seeded. *)
Quiet == boot \in {"down", "list", "seed"} =>
            \A r \in Runs : /\ wpc[r] = "none" /\ owed[r] = NoRun
                            /\ call[r] \in {"idle", "over"}

(* Seeding holds for the started Runs and for nobody else. *)
Seeding == /\ boot \in {"down", "list"} => pool.holders = {}
           /\ boot = "seed" => /\ snap.begun = Live \cap started
                               /\ pool.holders \subseteq snap.begun
                               /\ snap.begun \subseteq pool.holders \cup recs

(* A Run exists once its call created it, and starts only then. *)
Created == \A r \in Runs :
              /\ call[r] \in {"idle", "admit", "check", "create", "uncounted",
                              "takeback"} => rstate[r] = "absent"
              /\ r \in started => rstate[r] # "absent"

(* What a worker past the gate knows. *)
PastGate == \A r \in Runs :
               /\ wpc[r] \in {"reserve", "attempt"} => rstate[r] = "live"
               /\ wpc[r] = "reserve" => r \in pool.holders
               /\ wpc[r] = "release" => rstate[r] = "terminal"

(* While a holder has yet to start, the class is within its capacity: only *)
(* Hold exceeds it, and Hold is for started Runs.                          *)
Fits == pool.holders \subseteq started \/ pool.inUse <= cap

ClassInv == Good /\ Quiet /\ Seeding /\ Created /\ PastGate /\ Fits /\ StartedHold

LEMMA InitClassInv == Init => ClassInv
BY InitGood DEF Init, ClassInv, Quiet, Seeding, Created, PastGate, Fits,
     StartedHold, NewPool

(* With callers that wait, callers and workers act on a seeded pool only;  *)
(* none of them moves Start, so Quiet and Seeding hold after the step.     *)
LEMMA AfterSeeding ==
    ASSUME ~EarlyCallers, ClassInv, NEW r \in Runs,
           Schedule(r) \/ Cancel(r) \/ Worker(r)
    PROVE  boot \in {"poke", "up"} /\ UNCHANGED <<boot, cap>> /\ Quiet' /\ Seeding'
<1>1. boot \in {"down", "list", "seed", "poke", "up"}
  BY DEF ClassInv, Good, TypeOK
<1>2. CASE Schedule(r)
  <2>1. UNCHANGED <<boot, cap>>
    BY <1>2 DEF Schedule, ScheduleStamp, ScheduleAdmit, ScheduleCheck,
         ScheduleCreate, ScheduleTakeBack, ScheduleCount, ScheduleDispatch,
         start, deploy
  <2>2. Open \/ call[r] \notin {"idle", "over"}
    BY <1>2 DEF Schedule, ScheduleStamp, ScheduleAdmit, ScheduleCheck,
         ScheduleCreate, ScheduleTakeBack, ScheduleCount, ScheduleDispatch
  <2>3. boot \in {"poke", "up"}
    BY <1>1, <2>2 DEF Open, ClassInv, Quiet
  <2> QED BY <2>1, <2>3 DEF Quiet, Seeding
<1>3. CASE Cancel(r)
  <2>1. UNCHANGED <<boot, cap>> /\ Open
    BY <1>3 DEF Cancel, start, deploy
  <2> QED BY <2>1 DEF Open, Quiet, Seeding
<1>4. CASE Worker(r)
  <2>1. UNCHANGED <<boot, cap>>
    BY <1>4 DEF Worker, Gate, GateGone, GateFault, GateInvalid, GateCancel,
         GateSleep, GateAcquire, GatePass, DeliverKick, Reserve, Attempt,
         ReleaseRunClass, Exit, WakeUp, start, deploy
  <2>2. wpc[r] # "none" \/ owed[r] # NoRun
    BY <1>4 DEF Worker, Gate, GateGone, GateFault, GateInvalid, GateCancel,
         GateSleep, GateAcquire, GatePass, DeliverKick, Reserve, Attempt,
         ReleaseRunClass, Exit, WakeUp, Runnable
  <2>3. boot \in {"poke", "up"}
    BY <1>1, <2>2 DEF ClassInv, Quiet
  <2> QED BY <2>1, <2>3 DEF Quiet, Seeding
<1> QED BY <1>2, <1>3, <1>4

(* Steps that keep the holders keep the count, so they keep Fits. *)
LEMMA SameHolders ==
    ASSUME ClassInv, Good', pool'.holders = pool.holders,
           UNCHANGED cap, started \subseteq started'
    PROVE  Fits'
<1>1. pool'.inUse = pool.inUse
  BY DEF ClassInv, Good, PoolConsistent, PoolOK
<1> QED BY <1>1 DEF ClassInv, Fits

LEMMA ScheduleStep ==
    ASSUME ~EarlyCallers, ClassInv, Good', NEW r \in Runs, Schedule(r)
    PROVE  ClassInv'
<1>0. boot \in {"poke", "up"} /\ UNCHANGED <<boot, cap>> /\ Quiet' /\ Seeding'
  BY AfterSeeding
<1>1. GoodPool(pool) /\ TypeOK
  BY GoodIsGoodPool DEF ClassInv, Good
<1>2. UNCHANGED started
  BY DEF Schedule, ScheduleStamp, ScheduleAdmit, ScheduleCheck, ScheduleCreate,
       ScheduleTakeBack, ScheduleCount, ScheduleDispatch, store
<1>3. CASE ScheduleStamp(r) \/ ScheduleCheck(r)
  <2>1. UNCHANGED <<rstate, pool, wpc>>
    BY <1>3 DEF ScheduleStamp, ScheduleCheck, store, worker
  <2>2. Created'
    BY <1>1, <1>2, <1>3, <2>1
       DEF ScheduleStamp, ScheduleCheck, ClassInv, Created, TypeOK
  <2>3. PastGate' /\ StartedHold' /\ Fits'
    BY <1>0, <1>2, <2>1 DEF ClassInv, PastGate, StartedHold, Fits, Live
  <2> QED BY <1>0, <2>2, <2>3 DEF ClassInv
<1>4. CASE ScheduleAdmit(r) \/ ScheduleCount(r)
  <2>1. UNCHANGED <<rstate, wpc>> /\ pool' \in {pool, Admit(pool, r)}
    BY <1>4 DEF ScheduleAdmit, ScheduleCount, store, worker
  <2>2. pool'.holders = pool.holders
    BY <1>1, <2>1, AdmitGood
  <2>3. Created'
    BY <1>1, <1>2, <1>4, <2>1
       DEF ScheduleAdmit, ScheduleCount, ClassInv, Created, TypeOK
  <2>4. PastGate' /\ StartedHold'
    BY <1>0, <1>2, <2>1, <2>2 DEF ClassInv, PastGate, StartedHold, Live
  <2>5. Fits'
    BY <1>0, <1>2, <2>2, SameHolders
  <2> QED BY <1>0, <2>3, <2>4, <2>5 DEF ClassInv
<1>5. CASE ScheduleCreate(r)
  <2>1. UNCHANGED <<pool, wpc>> /\ rstate[r] = "absent"
    BY <1>5 DEF ScheduleCreate, worker, ClassInv, Created
  <2>2. r \notin started /\ wpc[r] \notin {"reserve", "attempt", "release"}
    BY <2>1 DEF ClassInv, Created, PastGate
  <2>3. rstate' = rstate \/ rstate' = [rstate EXCEPT ![r] = "live"]
    BY <1>5 DEF ScheduleCreate
  <2>4. Created'
    BY <1>1, <1>2, <1>5, <2>2 DEF ScheduleCreate, ClassInv, Created, TypeOK
  <2>5. PastGate' /\ StartedHold'
    BY <1>0, <1>1, <1>2, <2>1, <2>2, <2>3
       DEF ClassInv, PastGate, StartedHold, Live, TypeOK
  <2>6. Fits'
    BY <1>0, <1>2, <2>1 DEF ClassInv, Fits
  <2> QED BY <1>0, <2>4, <2>5, <2>6 DEF ClassInv
<1>6. CASE ScheduleTakeBack(r)
  <2>1. UNCHANGED <<rstate, wpc>> /\ rstate[r] = "absent"
    BY <1>6 DEF ScheduleTakeBack, store, worker, ClassInv, Created
  <2>2. /\ pool'.holders = pool.holders \ {r}
        /\ pool'.inUse <= pool.inUse
    BY <1>1, <1>6, ReleaseGood DEF ScheduleTakeBack
  <2>3. Created'
    BY <1>1, <1>2, <1>6, <2>1 DEF ScheduleTakeBack, ClassInv, Created, TypeOK
  <2>4. PastGate' /\ StartedHold'
    BY <1>0, <1>2, <2>1, <2>2 DEF ClassInv, PastGate, StartedHold, Live
  <2>5. pool.inUse \in Nat /\ pool'.inUse \in Nat /\ cap \in Nat
    BY <1>1, ClassAssumption DEF Good, TypeOK, PoolType
  <2>6. Fits'
    BY <1>0, <1>2, <2>2, <2>5 DEF ClassInv, Fits
  <2> QED BY <1>0, <2>3, <2>4, <2>6 DEF ClassInv
<1>7. CASE ScheduleDispatch(r)
  <2>1. UNCHANGED <<rstate, pool>>
    BY <1>7 DEF ScheduleDispatch, store
  <2>2. \A q \in Runs : wpc'[q] = wpc[q] \/ wpc'[q] = "queued"
    BY <1>1, <1>7 DEF ScheduleDispatch, Dispatch, TypeOK
  <2>3. Created'
    BY <1>1, <1>2, <1>7, <2>1 DEF ScheduleDispatch, ClassInv, Created, TypeOK
  <2>4. PastGate' /\ StartedHold' /\ Fits'
    BY <1>0, <1>2, <2>1, <2>2 DEF ClassInv, PastGate, StartedHold, Fits, Live
  <2> QED BY <1>0, <2>3, <2>4 DEF ClassInv
<1> QED BY <1>3, <1>4, <1>5, <1>6, <1>7 DEF Schedule

(* Steps of callers and workers that only move workers to points before    *)
(* the gate: everything but wpc, which nobody past the gate shares, stays. *)
LEMMA QuietStep ==
    ASSUME ClassInv, Good', Quiet', Seeding',
           UNCHANGED <<rstate, started, boot, cap, call>>,
           pool'.holders = pool.holders,
           \A q \in Runs : wpc'[q] \in {wpc[q], "queued", "exit", "asleep", "none"}
    PROVE  ClassInv'
<1>1. Created' /\ StartedHold'
  BY DEF ClassInv, Created, StartedHold, Live
<1>2. PastGate'
  BY DEF ClassInv, PastGate
<1>3. Fits'
  BY SameHolders
<1> QED BY <1>1, <1>2, <1>3 DEF ClassInv

LEMMA CancelStep ==
    ASSUME ~EarlyCallers, ClassInv, Good', NEW r \in Runs, Cancel(r)
    PROVE  ClassInv'
<1>0. UNCHANGED <<boot, cap>> /\ Quiet' /\ Seeding'
  BY AfterSeeding
<1>1. TypeOK
  BY DEF ClassInv, Good
<1>2. UNCHANGED <<rstate, started, call, pool>>
  BY DEF Cancel
<1>3. \A q \in Runs : wpc'[q] \in {wpc[q], "queued"}
  BY <1>1 DEF Cancel, Dispatch, TypeOK
<1> QED BY <1>0, <1>2, <1>3, QuietStep

(* A terminal commit of a live Run, by its own worker. *)
LEMMA TerminalStep ==
    ASSUME ClassInv, Good', Quiet', Seeding', NEW r \in Runs, rstate[r] = "live",
           rstate' = [rstate EXCEPT ![r] = "terminal"],
           wpc' = [wpc EXCEPT ![r] = "release"],
           UNCHANGED <<started, boot, cap, call, pool>>
    PROVE  ClassInv'
<1>1. TypeOK
  BY DEF ClassInv, Good
<1>2. Created'
  BY <1>1 DEF ClassInv, Created, TypeOK
<1>3. PastGate'
  BY <1>1 DEF ClassInv, PastGate, TypeOK
<1>4. StartedHold' /\ Fits'
  BY <1>1 DEF ClassInv, StartedHold, Fits, Live, TypeOK
<1> QED BY <1>2, <1>3, <1>4 DEF ClassInv

LEMMA GateStep ==
    ASSUME ~EarlyCallers, ClassInv, Good', NEW r \in Runs, Gate(r)
    PROVE  ClassInv'
<1>0. boot \in {"poke", "up"} /\ UNCHANGED <<boot, cap>> /\ Quiet' /\ Seeding'
  BY AfterSeeding DEF Worker
<1>1. GoodPool(pool) /\ TypeOK /\ cap \in Nat
  BY GoodIsGoodPool, ClassAssumption DEF ClassInv, Good, TypeOK
<1>2. UNCHANGED <<started, call>>
  BY DEF Gate, GateGone, GateFault, GateInvalid, GateCancel, GateSleep,
       GateAcquire, GatePass, store
<1>3. CASE GateGone(r) \/ GateFault(r) \/ GateInvalid(r) \/ GateSleep(r)
  <2>1. UNCHANGED rstate /\ pool' \in {pool, Clear(pool, r)}
    BY <1>3 DEF GateGone, GateFault, GateInvalid, GateSleep, store
  <2>2. pool'.holders = pool.holders
    BY <1>1, <2>1, ClearGood
  <2>3. \A q \in Runs : wpc'[q] \in {wpc[q], "exit"}
    BY <1>1, <1>3
       DEF GateGone, GateFault, GateInvalid, GateSleep, Leave, TypeOK
  <2> QED BY <1>0, <1>2, <2>1, <2>2, <2>3, QuietStep
<1>4. CASE GateCancel(r)
  <2>1. UNCHANGED pool /\ rstate[r] = "live"
    BY <1>4 DEF GateCancel, Live
  <2>2. CASE /\ rstate' = [rstate EXCEPT ![r] = "terminal"]
             /\ wpc' = [wpc EXCEPT ![r] = "release"]
    BY <1>0, <1>2, <2>1, <2>2, TerminalStep
  <2>3. CASE rstate' = rstate /\ Leave(r, TRUE)
    <3>1. \A q \in Runs : wpc'[q] \in {wpc[q], "exit"}
      BY <1>1, <2>3 DEF Leave, TypeOK
    <3> QED BY <1>0, <1>2, <2>1, <2>3, <3>1, QuietStep
  <2> QED BY <1>4, <2>2, <2>3 DEF GateCancel
<1>5. CASE GateAcquire(r) /\ ~Granted(pool, r, cap, place)
  <2>1. UNCHANGED rstate /\ pool'.holders = pool.holders
    BY <1>1, <1>5, AcquireGood DEF GateAcquire, store
  <2>2. \A q \in Runs : wpc'[q] \in {wpc[q], "exit"}
    BY <1>1, <1>5 DEF GateAcquire, Leave, TypeOK
  <2> QED BY <1>0, <1>2, <2>1, <2>2, QuietStep
<1>6. CASE GateAcquire(r) /\ Granted(pool, r, cap, place)
  <2>1. UNCHANGED rstate /\ rstate[r] = "live"
    BY <1>6 DEF GateAcquire, Runnable, Live, store
  <2>2. /\ pool'.holders = pool.holders \cup {r}
        /\ r \notin pool.holders => pool'.inUse <= cap
    BY <1>1, <1>6, AcquireGood DEF GateAcquire
  <2>3. wpc' = [wpc EXCEPT ![r] = "reserve"]
    BY <1>6 DEF GateAcquire
  <2>4. Created' /\ StartedHold'
    BY <1>0, <1>2, <2>1, <2>2 DEF ClassInv, Created, StartedHold, Live
  <2>5. PastGate'
    BY <1>1, <2>1, <2>2, <2>3 DEF ClassInv, PastGate, TypeOK
  <2>6. Fits'
    <3>1. CASE r \in pool.holders
      <4>1. pool'.holders = pool.holders
        BY <2>2, <3>1
      <4> QED BY <1>0, <1>2, <4>1, SameHolders
    <3>2. CASE r \notin pool.holders
      BY <1>0, <2>2, <3>2 DEF Fits
    <3> QED BY <3>1, <3>2
  <2> QED BY <1>0, <2>4, <2>5, <2>6 DEF ClassInv
<1>7. CASE GatePass(r)
  <2>1. UNCHANGED <<rstate, pool>> /\ rstate[r] = "live"
    BY <1>7 DEF GatePass, Runnable, Live, store
  <2>2. wpc' = [wpc EXCEPT ![r] = "attempt"]
    BY <1>7 DEF GatePass
  <2>3. Created' /\ StartedHold' /\ Fits'
    BY <1>0, <1>2, <2>1 DEF ClassInv, Created, StartedHold, Fits, Live
  <2>4. PastGate'
    BY <1>1, <2>1, <2>2 DEF ClassInv, PastGate, TypeOK
  <2> QED BY <1>0, <2>3, <2>4 DEF ClassInv
<1> QED BY <1>3, <1>4, <1>5, <1>6, <1>7 DEF Gate

LEMMA WorkerStep ==
    ASSUME ~EarlyCallers, ClassInv, Good', NEW r \in Runs, Worker(r), ~Gate(r)
    PROVE  ClassInv'
<1>0. boot \in {"poke", "up"} /\ UNCHANGED <<boot, cap>> /\ Quiet' /\ Seeding'
  BY AfterSeeding
<1>1. GoodPool(pool) /\ TypeOK /\ cap \in Nat
  BY GoodIsGoodPool, ClassAssumption DEF ClassInv, Good, TypeOK
<1>2. CASE DeliverKick(r) \/ Exit(r) \/ WakeUp(r)
  <2>1. UNCHANGED <<rstate, started, call, pool>>
    BY <1>2 DEF DeliverKick, Exit, WakeUp, store
  <2>2. \A q \in Runs : wpc'[q] \in {wpc[q], "queued", "asleep", "none"}
    BY <1>1, <1>2 DEF DeliverKick, Dispatch, Exit, WakeUp, TypeOK
  <2> QED BY <1>0, <2>1, <2>2, QuietStep
<1>3. CASE Reserve(r)
  <2>1. UNCHANGED <<rstate, call, pool>> /\ rstate[r] = "live" /\ r \in pool.holders
    BY <1>3 DEF Reserve, ClassInv, PastGate
  <2>2. CASE started' = started \cup {r} /\ wpc' = [wpc EXCEPT ![r] = "attempt"]
    <3>1. Created' /\ StartedHold' /\ Fits'
      BY <1>0, <2>1, <2>2 DEF ClassInv, Created, StartedHold, Fits, Live
    <3>2. PastGate'
      BY <1>1, <2>1, <2>2 DEF ClassInv, PastGate, TypeOK
    <3> QED BY <1>0, <3>1, <3>2 DEF ClassInv
  <2>3. CASE started' = started /\ Leave(r, TRUE)
    <3>1. \A q \in Runs : wpc'[q] \in {wpc[q], "exit"}
      BY <1>1, <2>3 DEF Leave, TypeOK
    <3> QED BY <1>0, <2>1, <2>3, <3>1, QuietStep
  <2> QED BY <1>3, <2>2, <2>3 DEF Reserve
<1>4. CASE Attempt(r)
  <2>1. UNCHANGED <<started, call, pool>> /\ rstate[r] = "live"
    BY <1>4 DEF Attempt, ClassInv, PastGate
  <2>2. CASE /\ rstate' = [rstate EXCEPT ![r] = "terminal"]
             /\ wpc' = [wpc EXCEPT ![r] = "release"]
    BY <1>0, <2>1, <2>2, TerminalStep
  <2>3. CASE rstate' = rstate /\ Leave(r, TRUE)
    <3>1. \A q \in Runs : wpc'[q] \in {wpc[q], "exit"}
      BY <1>1, <2>3 DEF Leave, TypeOK
    <3> QED BY <1>0, <2>1, <2>3, <3>1, QuietStep
  <2> QED BY <1>4, <2>2, <2>3 DEF Attempt
<1>5. CASE ReleaseRunClass(r)
  <2>1. UNCHANGED <<rstate, started, call>> /\ rstate[r] = "terminal"
    BY <1>5 DEF ReleaseRunClass, store, ClassInv, PastGate
  <2>2. pool'.holders = pool.holders \ {r} /\ pool'.inUse <= pool.inUse
    BY <1>1, <1>5, ReleaseGood DEF ReleaseRunClass
  <2>3. wpc' = [wpc EXCEPT ![r] = "exit"]
    BY <1>5 DEF ReleaseRunClass, Leave
  <2>4. Created' /\ StartedHold'
    BY <1>0, <2>1, <2>2 DEF ClassInv, Created, StartedHold, Live
  <2>5. PastGate'
    BY <1>1, <2>1, <2>2, <2>3 DEF ClassInv, PastGate, TypeOK
  <2>6. pool.inUse \in Nat /\ pool'.inUse \in Nat
    BY <1>1 DEF Good, TypeOK, PoolType
  <2>7. Fits'
    BY <1>0, <1>1, <2>1, <2>2, <2>6 DEF ClassInv, Fits
  <2> QED BY <1>0, <2>4, <2>5, <2>7 DEF ClassInv
<1> QED BY <1>2, <1>3, <1>4, <1>5 DEF Worker

LEMMA StartStep ==
    ASSUME ClassInv, Good', Starting
    PROVE  ClassInv'
<1>1. GoodPool(pool) /\ TypeOK
  BY GoodIsGoodPool DEF ClassInv, Good
<1>2. CASE StartBegin \/ StartList
  <2>1. UNCHANGED <<rstate, started, call, pool, cap, wpc, owed>>
    BY <1>2 DEF StartBegin, StartList, store, deploy, worker
  <2>2. boot \in {"down", "list"} /\ boot' \in {"list", "seed"}
    BY <1>2 DEF StartBegin, StartList
  <2>3. Quiet'
    BY <2>1, <2>2 DEF ClassInv, Quiet
  <2>4. Seeding'
    BY <1>2, <2>1, <2>2 DEF StartBegin, StartList, ClassInv, Seeding, Live
  <2>5. Created' /\ PastGate' /\ Fits' /\ StartedHold'
    BY <2>1, <2>2 DEF ClassInv, Created, PastGate, Fits, StartedHold
  <2> QED BY <2>3, <2>4, <2>5 DEF ClassInv
<1>3. ASSUME NEW r \in Runs, StartSeed(r) PROVE ClassInv'
  <2>1. UNCHANGED <<rstate, started, call, cap, wpc, owed, boot, snap>>
    BY <1>3 DEF StartSeed, store, deploy, worker
  <2>2. boot = "seed" /\ recs' = recs \ {r}
    BY <1>3 DEF StartSeed
  <2>3. pool'.holders = IF r \in snap.begun THEN pool.holders \cup {r} ELSE pool.holders
    BY <1>1, <1>3, HoldGood, AdmitGood DEF StartSeed
  <2>4. Quiet' /\ Created' /\ StartedHold'
    BY <2>1, <2>2 DEF ClassInv, Quiet, Created, StartedHold
  <2>5. Seeding'
    BY <2>1, <2>2, <2>3 DEF ClassInv, Seeding, Live
  <2>6. PastGate'
    BY <2>1, <2>2 DEF ClassInv, Quiet, PastGate
  <2>7. Fits'
    BY <2>1, <2>2, <2>3 DEF ClassInv, Seeding, Fits
  <2> QED BY <2>4, <2>5, <2>6, <2>7 DEF ClassInv
<1>4. CASE StartSeeded
  <2>1. UNCHANGED <<rstate, started, call, pool, cap, wpc, owed>>
    BY <1>4 DEF StartSeeded, store, deploy, worker
  <2>2. boot = "seed" /\ boot' = "poke" /\ recs = {}
    BY <1>4 DEF StartSeeded
  <2>3. StartedHold'
    BY <2>1, <2>2 DEF ClassInv, Seeding, StartedHold, Live
  <2>4. Quiet' /\ Seeding' /\ Created' /\ PastGate' /\ Fits'
    BY <2>1, <2>2 DEF ClassInv, Quiet, Seeding, Created, PastGate, Fits
  <2> QED BY <2>3, <2>4 DEF ClassInv
<1>5. ASSUME NEW r \in Runs, StartDispatch(r) PROVE ClassInv'
  <2>1. UNCHANGED <<rstate, started, call, pool, cap, boot>> /\ boot = "poke"
    BY <1>5 DEF StartDispatch, store, deploy
  <2>2. \A q \in Runs : wpc'[q] \in {wpc[q], "queued", "asleep"}
    BY <1>1, <1>5 DEF StartDispatch, Dispatch, TypeOK
  <2>3. Quiet' /\ Seeding'
    BY <2>1 DEF Quiet, Seeding
  <2> QED BY <2>1, <2>2, <2>3, QuietStep
<1>6. CASE StartDone
  <2>1. UNCHANGED <<rstate, started, call, pool, cap, wpc, owed>>
    BY <1>6 DEF StartDone, store, deploy, worker
  <2>2. boot = "poke" /\ boot' = "up"
    BY <1>6 DEF StartDone
  <2>3. Quiet' /\ Seeding' /\ Created' /\ PastGate' /\ Fits' /\ StartedHold'
    BY <2>1, <2>2
       DEF ClassInv, Quiet, Seeding, Created, PastGate, Fits, StartedHold, Live
  <2> QED BY <2>3 DEF ClassInv
<1> QED BY <1>2, <1>3, <1>4, <1>5, <1>6 DEF Starting

LEMMA CrashStep ==
    ASSUME ClassInv, Good', Crash
    PROVE  ClassInv'
<1>1. boot' = "down" /\ pool'.holders = {} /\ UNCHANGED <<rstate, started>>
  BY DEF Crash, NewPool, store
<1>2. Quiet' /\ Seeding' /\ Fits' /\ StartedHold'
  BY <1>1 DEF Crash, Quiet, Seeding, Fits, StartedHold
<1>3. Created' /\ PastGate'
  BY <1>1 DEF Crash, ClassInv, Created, PastGate
<1> QED BY <1>2, <1>3 DEF ClassInv

LEMMA ClassStep ==
    ASSUME ~EarlyCallers, ClassInv, [Next]_vars
    PROVE  ClassInv'
<1>1. Good'
  BY GoodStep DEF ClassInv
<1>2. ASSUME Tick \/ Rest \/ UNCHANGED vars PROVE ClassInv'
  <2>1. UNCHANGED <<rstate, started, call, pool, cap, wpc, owed, boot, recs, snap>>
    BY <1>2 DEF Tick, Rest, vars, store, deploy, start, worker
  <2>2. Quiet' /\ Seeding' /\ Created' /\ PastGate' /\ Fits' /\ StartedHold'
    BY <2>1
       DEF ClassInv, Quiet, Seeding, Created, PastGate, Fits, StartedHold, Live
  <2> QED BY <1>1, <2>2 DEF ClassInv
<1>3. ASSUME NEW r \in Runs, Worker(r) PROVE ClassInv'
  BY <1>1, <1>3, GateStep, WorkerStep
<1> QED BY <1>1, <1>2, <1>3, ScheduleStep, CancelStep, StartStep, CrashStep DEF Next

(* When callers wait for Start to return, a started Run that is not         *)
(* terminal holds a token of its run class from the end of seeding on,      *)
(* through retries, store faults, cancels, restarts and capacity changes.   *)
THEOREM StartedHoldAlways == ~EarlyCallers /\ Spec => []StartedHold
<1> SUFFICES ASSUME ~EarlyCallers PROVE Spec => []StartedHold
  OBVIOUS
<1>1. ClassInv /\ [Next]_vars => ClassInv'
  BY ClassStep
<1>2. ClassInv => StartedHold
  BY DEF ClassInv
<1> QED BY <1>1, <1>2, InitClassInv, PTL DEF Spec

(* Under the same assumption no Run ever starts beyond the capacity of its  *)
(* deployment: its reservation commits only while the started nonterminal   *)
(* Runs of the class, it included, fit.                                     *)
THEOREM StartsWithinCapacityAlways == ~EarlyCallers /\ Spec => StartsWithinCapacity
<1> SUFFICES ASSUME ~EarlyCallers PROVE Spec => StartsWithinCapacity
  OBVIOUS
<1>1. ClassInv /\ [Next]_vars => ClassInv'
  BY ClassStep
<1> DEFINE Step == \A r \in started' \ started :
                Cardinality({q \in started' : rstate'[q] = "live"}) <= cap
<1>2. ASSUME ClassInv, [Next]_vars PROVE Step
  <2> SUFFICES ASSUME NEW r \in started', r \notin started
               PROVE  Cardinality({q \in started' : rstate'[q] = "live"}) <= cap
    OBVIOUS
  <2>1. ClassInv' /\ TypeOK /\ TypeOK' /\ PoolConsistent'
    BY <1>1, <1>2 DEF ClassInv, Good
  <2>2. PICK w \in Runs : Reserve(w)
    <3>1. \A w \in Runs : Schedule(w) => UNCHANGED started
      BY DEF Schedule, ScheduleStamp, ScheduleAdmit, ScheduleCheck, ScheduleCreate,
           ScheduleTakeBack, ScheduleCount, ScheduleDispatch, store
    <3>2. \A w \in Runs : Worker(w) => Reserve(w) \/ UNCHANGED started
      BY DEF Worker, Gate, GateGone, GateFault, GateInvalid, GateCancel, GateSleep,
           GateAcquire, GatePass, DeliverKick, Attempt, ReleaseRunClass, Exit,
           WakeUp, store
    <3>3. Starting => UNCHANGED started
      BY DEF Starting, StartBegin, StartList, StartSeed, StartSeeded,
           StartDispatch, StartDone, store
    <3>4. \A w \in Runs : Cancel(w) => UNCHANGED started
      BY DEF Cancel
    <3>5. Crash \/ Tick \/ Rest \/ UNCHANGED vars => UNCHANGED started
      BY DEF Crash, Tick, Rest, vars, store
    <3> QED BY <1>2, <3>1, <3>2, <3>3, <3>4, <3>5 DEF Next
  <2>3. UNCHANGED pool /\ UNCHANGED cap /\ w \in pool.holders
    BY <1>2, <2>2 DEF Reserve, ClassInv, PastGate, deploy
  <2>4. w = r
    BY <2>2 DEF Reserve
  <2>5. pool.inUse <= cap
    BY <1>2, <2>3, <2>4 DEF ClassInv, Fits
  <2>6. boot' \in {"poke", "up"}
    BY <1>2, <2>2, AfterSeeding DEF Worker
  <2>7. {q \in started' : rstate'[q] = "live"} \subseteq pool.holders
    BY <2>1, <2>3, <2>6 DEF ClassInv, StartedHold, Live, TypeOK
  <2>8. /\ pool.holders \in SUBSET Runs
        /\ pool.inUse = Cardinality(pool.holders)
    BY <2>1, <2>3 DEF PoolConsistent, PoolOK, TypeOK, PoolType
  <2>9. IsFiniteSet(pool.holders) /\ Cardinality(pool.holders) \in Nat
    BY <2>8, FiniteRuns
  <2>10. Cardinality({q \in started' : rstate'[q] = "live"})
            <= Cardinality(pool.holders)
    BY <2>7, <2>9, FS_Subset
  <2>11. /\ Cardinality({q \in started' : rstate'[q] = "live"}) \in Nat
         /\ cap \in Nat
    BY <2>1, FiniteRuns, ClassAssumption DEF TypeOK
  <2> QED BY <2>5, <2>8, <2>9, <2>10, <2>11
<1> QED BY <1>1, <1>2, InitClassInv, PTL DEF Spec, StartsWithinCapacity
-----------------------------------------------------------------------------
(***************************************************************************)
(* Membership ends at terminality.  The one way round it is the late count: *)
(* a Run that was refused a place and created all the same is admitted      *)
(* after the fact, and a cancel may have completed it by then.  Without     *)
(* cancels, or without a bound on the queue, nobody reaches a Run whose     *)
(* call has not yet admitted it:                                            *)
(***************************************************************************)
Members(p) == p.holders \cup p.pending

(* The call of such a Run. *)
Unadmitted == {"idle", "admit", "check", "uncounted", "count"}

Unseen == \A r \in Runs : call[r] \in Unadmitted =>
              /\ r \notin Members(pool) /\ wpc[r] = "none"
              /\ \A q \in Runs : owed[q] # r

Counting == \A r \in Runs : call[r] = "count" => rstate[r] = "live"

(* An unbounded queue refuses nobody. *)
NoRefusal == MaxQueued = 0 =>
                 \A r \in Runs : call[r] \notin {"check", "uncounted", "count"}

(* What Start has listed exists, and is still live while it is seeded. *)
Listed == /\ boot # "up" => \A r \in Runs : call[r] \in {"idle", "over"}
          /\ boot = "seed" => recs \subseteq Live
          /\ \A r \in recs \cup snap.listed : rstate[r] # "absent"

(* MembersLive, Run by Run. *)
Kept == \A r \in Runs : r \in Members(pool) =>
            \/ rstate[r] = "live" \/ call[r] \in {"create", "takeback"}
            \/ wpc[r] = "release"

MemberInv == Unseen /\ Counting /\ NoRefusal /\ Listed /\ Kept

LEMMA KeptIsMembersLive ==
    ASSUME TypeOK, Kept
    PROVE  MembersLive
<1>1. Members(pool) \subseteq Runs
  BY DEF TypeOK, PoolType, Members
<1> QED BY <1>1 DEF Kept, MembersLive, Live, Members

(* What an operation of the pool does to its members. *)
LEMMA PoolMembers ==
    ASSUME NEW p, GoodPool(p), NEW w \in Runs, NEW c, NEW pl
    PROVE  /\ Members(Admit(p, w)) \subseteq Members(p) \cup {w}
           /\ Members(Hold(p, w)) \subseteq Members(p) \cup {w}
           /\ Members(Acquire(p, w, c, pl)) \subseteq Members(p) \cup {w}
           /\ Members(Clear(p, w)) = Members(p)
           /\ Members(Release(p, w)) = Members(p) \ {w}
<1>1. Members(Admit(p, w)) \subseteq Members(p) \cup {w}
  BY DEF Members, GoodPool, PoolType, PoolOK, Admit
<1>2. Members(Hold(p, w)) \subseteq Members(p) \cup {w}
  BY DEF Members, GoodPool, PoolType, PoolOK, Hold, Forget
<1>3. Members(Acquire(p, w, c, pl)) \subseteq Members(p) \cup {w}
  BY DEF Members, GoodPool, PoolType, PoolOK, Acquire, Forget, Enter
<1>4. Members(Clear(p, w)) = Members(p)
  BY DEF Members, GoodPool, PoolType, PoolOK, Clear
<1>5. Members(Release(p, w)) = Members(p) \ {w}
  BY DEF Members, GoodPool, PoolType, PoolOK, Release, Forget
<1> QED BY <1>1, <1>2, <1>3, <1>4, <1>5

(* Whoever is kicked is a member. *)
LEMMA KickIsMember ==
    ASSUME NEW p, GoodPool(p), NEW c, NEW pl \in [Runs -> Nat]
    PROVE  Head(p, c, pl) \in Members(p) \cup {NoRun}
<1>1. Head(p, c, pl) \in p.line \cup {NoRun}
  BY HeadType
<1> QED BY <1>1 DEF Members, GoodPool, PoolOK

LEMMA InitMemberInv == Init => MemberInv
BY RunsAssumption DEF Init, MemberInv, Unseen, Counting, NoRefusal, Listed, Kept,
     NewPool, Members

(* Steps that move no call and take nobody's life: who is new to the pool   *)
(* is live, and who is given a worker or owed a kick is a member or was     *)
(* listed by Start.                                                        *)
LEMMA MemberStep ==
    ASSUME ClassInv, ClassInv', MemberInv, NEW r \in Runs,
           UNCHANGED <<rstate, call, boot>>, recs' \subseteq recs, UNCHANGED snap,
           Members(pool') \subseteq Members(pool) \cup {r},
           r \in Members(pool') => r \in Members(pool) \/ rstate[r] = "live",
           call[r] \in Unadmitted => Members(pool') \subseteq Members(pool),
           \A q \in Runs : owed'[q] \in Members(pool') \cup {NoRun, owed[q]},
           \A q \in Runs : wpc'[q] = wpc[q] \/ call[q] \notin Unadmitted,
           \A q \in Runs : wpc[q] = "release" =>
                wpc'[q] = "release" \/ q \notin Members(pool')
    PROVE  MemberInv'
<1>1. TypeOK /\ NoRun \notin Runs
  BY RunsAssumption DEF ClassInv, Good
<1>2. Unseen'
  <2> SUFFICES ASSUME NEW q \in Runs, call[q] \in Unadmitted
               PROVE  /\ q \notin Members(pool') /\ wpc'[q] = "none"
                      /\ \A o \in Runs : owed'[o] # q
    BY DEF Unseen
  <2>1. /\ q \notin Members(pool) /\ wpc[q] = "none"
        /\ \A o \in Runs : owed[o] # q
    BY DEF MemberInv, Unseen
  <2>2. q \notin Members(pool')
    BY <2>1
  <2> QED BY <1>1, <2>1, <2>2
<1>3. Counting' /\ NoRefusal'
  BY DEF MemberInv, Counting, NoRefusal
<1>4. Listed'
  BY DEF MemberInv, Listed, Live
<1>5. Kept'
  BY <1>1 DEF MemberInv, Kept
<1> QED BY <1>2, <1>3, <1>4, <1>5 DEF MemberInv

LEMMA MemberSchedule ==
    ASSUME ~EarlyCallers, ClassInv, ClassInv', MemberInv, NEW r \in Runs, Schedule(r)
    PROVE  MemberInv'
<1>0. TypeOK /\ TypeOK' /\ GoodPool(pool)
  BY GoodIsGoodPool DEF ClassInv, Good
<1>1. UNCHANGED <<boot, recs, snap, owed>>
  BY DEF Schedule, ScheduleStamp, ScheduleAdmit, ScheduleCheck, ScheduleCreate,
       ScheduleTakeBack, ScheduleCount, ScheduleDispatch, start, worker
<1>2. boot = "up"
  <2>1. Open \/ call[r] \notin {"idle", "over"}
    BY DEF Schedule, ScheduleStamp, ScheduleAdmit, ScheduleCheck,
         ScheduleCreate, ScheduleTakeBack, ScheduleCount, ScheduleDispatch
  <2> QED BY <2>1 DEF Open, MemberInv, Listed
<1>3. CASE ScheduleStamp(r) \/ ScheduleCheck(r)
  <2>1. UNCHANGED <<rstate, pool, wpc>>
    BY <1>3 DEF ScheduleStamp, ScheduleCheck, store, worker
  <2>2. /\ call[r] \in {"idle", "check"}
        /\ call' = [call EXCEPT ![r] = call'[r]]
        /\ call[r] = "idle" => call'[r] = "admit"
        /\ call[r] = "check" => call'[r] \in {"uncounted", "over"}
    BY <1>0, <1>3 DEF ScheduleStamp, ScheduleCheck, TypeOK
  <2> QED BY <1>0, <1>1, <1>2, <2>1, <2>2
          DEF MemberInv, Unseen, Counting, NoRefusal, Listed, Kept, Live,
               TypeOK, Unadmitted
<1>4. CASE ScheduleAdmit(r)
  <2>1. UNCHANGED <<rstate, wpc>> /\ call[r] = "admit"
    BY <1>4 DEF ScheduleAdmit, store, worker
  <2>2. \/ /\ pool' = pool /\ call' = [call EXCEPT ![r] = "check"] /\ MaxQueued # 0
        \/ pool' = Admit(pool, r) /\ call' = [call EXCEPT ![r] = "create"]
    BY <1>4 DEF ScheduleAdmit, Admits
  <2>3. Members(pool') \subseteq Members(pool) \cup {r}
    BY <1>0, <2>2, PoolMembers
  <2>4. Members(pool') = Members(pool) \/ call'[r] = "create"
    BY <1>0, <2>2 DEF TypeOK
  <2>5. /\ \A q \in Runs \ {r} : call'[q] = call[q]
        /\ call'[r] \in {"check", "create"}
        /\ MaxQueued = 0 => call'[r] = "create"
    BY <1>0, <2>2 DEF TypeOK
  <2>6. Unseen'
    BY <1>1, <2>1, <2>3, <2>4, <2>5 DEF MemberInv, Unseen, Unadmitted
  <2>7. Counting' /\ NoRefusal' /\ Listed'
    BY <1>1, <1>2, <2>1, <2>5 DEF MemberInv, Counting, NoRefusal, Listed, Live
  <2>8. Kept'
    BY <2>1, <2>3, <2>4, <2>5 DEF MemberInv, Kept
  <2> QED BY <2>6, <2>7, <2>8 DEF MemberInv
<1>5. CASE ScheduleCreate(r)
  <2>1. UNCHANGED <<pool, wpc>> /\ call[r] \in {"create", "uncounted"}
    BY <1>5 DEF ScheduleCreate, worker
  <2>2. \A q \in Runs \ {r} : call'[q] = call[q] /\ rstate'[q] = rstate[q]
    BY <1>0, <1>5 DEF ScheduleCreate, TypeOK
  <2>3. \/ rstate'[r] = "live" /\ call'[r] = IF call[r] = "create" THEN "dispatch" ELSE "count"
        \/ rstate'[r] = rstate[r] /\ call'[r] = IF call[r] = "create" THEN "takeback" ELSE "over"
    BY <1>0, <1>5 DEF ScheduleCreate, TypeOK
  <2>4. Unseen'
    BY <1>1, <2>1, <2>2, <2>3 DEF MemberInv, Unseen, Unadmitted
  <2>5. Counting' /\ NoRefusal'
    BY <2>1, <2>2, <2>3 DEF MemberInv, Counting, NoRefusal
  <2>6. Listed'
    BY <1>0, <1>1, <1>2, <2>2, <2>3 DEF MemberInv, Listed, TypeOK
  <2>7. Kept'
    BY <2>1, <2>2, <2>3 DEF MemberInv, Kept, Unseen, Unadmitted
  <2> QED BY <2>4, <2>5, <2>6, <2>7 DEF MemberInv
<1>6. CASE ScheduleTakeBack(r)
  <2>1. UNCHANGED <<rstate, wpc>> /\ call' = [call EXCEPT ![r] = "over"]
    BY <1>6 DEF ScheduleTakeBack, store, worker
  <2>2. Members(pool') = Members(pool) \ {r}
    BY <1>0, <1>6, PoolMembers DEF ScheduleTakeBack
  <2> QED BY <1>0, <1>1, <1>2, <2>1, <2>2
          DEF MemberInv, Unseen, Counting, NoRefusal, Listed, Kept, Live,
               TypeOK, Unadmitted
<1>7. CASE ScheduleCount(r)
  <2>1. UNCHANGED <<rstate, wpc>> /\ call[r] = "count" /\ call' = [call EXCEPT ![r] = "dispatch"]
    BY <1>7 DEF ScheduleCount, store, worker
  <2>2. Members(pool') \subseteq Members(pool) \cup {r}
    BY <1>0, <1>7, PoolMembers DEF ScheduleCount
  <2>3. rstate[r] = "live"
    BY <2>1 DEF MemberInv, Counting
  <2>4. Unseen'
    BY <1>0, <1>1, <2>1, <2>2 DEF MemberInv, Unseen, Unadmitted, TypeOK
  <2>5. Counting' /\ NoRefusal' /\ Listed'
    BY <1>0, <1>1, <1>2, <2>1 DEF MemberInv, Counting, NoRefusal, Listed, Live, TypeOK
  <2>6. Kept'
    BY <1>0, <2>1, <2>2, <2>3 DEF MemberInv, Kept, TypeOK
  <2> QED BY <2>4, <2>5, <2>6 DEF MemberInv
<1>8. CASE ScheduleDispatch(r)
  <2>1. UNCHANGED <<rstate, pool>> /\ call[r] = "dispatch" /\ call' = [call EXCEPT ![r] = "over"]
    BY <1>8 DEF ScheduleDispatch, store
  <2>2. \A q \in Runs : wpc'[q] = wpc[q] \/ (q = r /\ wpc[q] = "none")
    BY <1>0, <1>8 DEF ScheduleDispatch, Dispatch, TypeOK
  <2>3. Unseen'
    BY <1>0, <1>1, <2>1, <2>2 DEF MemberInv, Unseen, Unadmitted, TypeOK
  <2>4. Counting' /\ NoRefusal' /\ Listed'
    BY <1>0, <1>1, <1>2, <2>1 DEF MemberInv, Counting, NoRefusal, Listed, Live, TypeOK
  <2>5. Kept'
    BY <1>0, <2>1, <2>2 DEF MemberInv, Kept, TypeOK
  <2> QED BY <2>3, <2>4, <2>5 DEF MemberInv
<1> QED BY <1>3, <1>4, <1>5, <1>6, <1>7, <1>8 DEF Schedule

(* A terminal commit: the worker is about to release the Run. *)
LEMMA MemberTerminal ==
    ASSUME ClassInv, MemberInv, NEW r \in Runs, boot \in {"poke", "up"},
           rstate[r] = "live", wpc[r] # "none",
           rstate' = [rstate EXCEPT ![r] = "terminal"],
           wpc' = [wpc EXCEPT ![r] = "release"],
           UNCHANGED <<boot, call, pool, owed, recs, snap>>
    PROVE  MemberInv'
<1>0. TypeOK
  BY DEF ClassInv, Good
<1>1. call[r] \notin Unadmitted
  BY DEF MemberInv, Unseen
<1>2. Unseen'
  BY <1>0, <1>1 DEF MemberInv, Unseen, TypeOK
<1>3. Counting' /\ NoRefusal'
  BY <1>0, <1>1 DEF MemberInv, Counting, NoRefusal, TypeOK, Unadmitted
<1>4. Listed'
  BY <1>0 DEF MemberInv, Listed, TypeOK
<1>5. Kept'
  BY <1>0 DEF MemberInv, Kept, TypeOK
<1> QED BY <1>2, <1>3, <1>4, <1>5 DEF MemberInv

LEMMA MemberWorker ==
    ASSUME ~EarlyCallers, ClassInv, ClassInv', MemberInv, NEW r \in Runs, Worker(r)
    PROVE  MemberInv'
<1>0. TypeOK /\ TypeOK' /\ GoodPool(pool) /\ GoodPool(pool')
  BY GoodIsGoodPool DEF ClassInv, Good, GoodPool, TypeOK, PoolConsistent
<1>1. boot \in {"poke", "up"} /\ UNCHANGED <<boot, cap, recs, snap, call, place>>
  <2>1. boot \in {"poke", "up"} /\ UNCHANGED <<boot, cap>>
    BY AfterSeeding
  <2>2. UNCHANGED <<recs, snap, call, place>>
    BY DEF Worker, Gate, GateGone, GateFault, GateInvalid, GateCancel,
         GateSleep, GateAcquire, GatePass, DeliverKick, Reserve, Attempt,
         ReleaseRunClass, Exit, WakeUp, start, store
  <2> QED BY <2>1, <2>2
<1>2. place \in [Runs -> Nat] /\ cap \in Nat
  BY <1>0, ClassAssumption DEF TypeOK
<1>3. wpc[r] # "none" => call[r] \notin Unadmitted
  BY DEF MemberInv, Unseen
<1>4. CASE (GateCancel(r) \/ Attempt(r)) /\ rstate' = [rstate EXCEPT ![r] = "terminal"] /\ rstate' # rstate
  <2>1. wpc' = [wpc EXCEPT ![r] = "release"] /\ UNCHANGED <<pool, owed>> /\ wpc[r] # "none"
    BY <1>4 DEF GateCancel, Attempt
  <2>2. rstate[r] = "live"
    BY <1>4 DEF GateCancel, Attempt, Live, ClassInv, PastGate
  <2> QED BY <1>1, <1>4, <2>1, <2>2, MemberTerminal
<1>5. CASE \/ (GateCancel(r) \/ Attempt(r)) /\ rstate' = rstate
           \/ GateGone(r) \/ GateFault(r) \/ GateSleep(r) \/ GatePass(r)
           \/ Reserve(r) \/ Exit(r) \/ WakeUp(r)
  <2>1. UNCHANGED <<rstate, pool, owed>> /\ wpc[r] \notin {"none", "release"}
    BY <1>5 DEF GateCancel, Attempt, GateGone, GateFault, GateSleep, GatePass,
         Reserve, Exit, WakeUp, Runnable, store
  <2>2. \A q \in Runs \ {r} : wpc'[q] = wpc[q]
    BY <1>0, <1>5 DEF GateCancel, Attempt, GateGone, GateFault, GateSleep, GatePass,
         Reserve, Exit, WakeUp, Leave, TypeOK
  <2> QED BY <1>1, <1>3, <2>1, <2>2, MemberStep
<1>6. CASE GateInvalid(r)
  <2>1. UNCHANGED rstate /\ wpc[r] = "queued" /\ wpc' = [wpc EXCEPT ![r] = "exit"]
    BY <1>6 DEF GateInvalid, Leave, store
  <2>2. Members(pool') = Members(pool)
    BY <1>0, <1>6, PoolMembers DEF GateInvalid
  <2>3. \/ UNCHANGED owed
        \/ owed' = [owed EXCEPT ![r] = NoRun]
        \/ owed' = [owed EXCEPT ![r] = Head(pool', cap, place)]
    BY <1>6 DEF GateInvalid, ClearKick
  <2>4. \A q \in Runs : owed'[q] \in Members(pool') \cup {NoRun, owed[q]}
    BY <1>0, <1>2, <2>3, KickIsMember DEF TypeOK
  <2>5. \A q \in Runs \ {r} : wpc'[q] = wpc[q]
    BY <1>0, <2>1 DEF TypeOK
  <2> QED BY <1>1, <1>3, <2>1, <2>2, <2>4, <2>5, MemberStep
<1>7. CASE GateAcquire(r)
  <2>1. UNCHANGED rstate /\ wpc[r] = "queued" /\ rstate[r] = "live"
    BY <1>7 DEF GateAcquire, Runnable, store, Live
  <2>2. Members(pool') \subseteq Members(pool) \cup {r}
    BY <1>0, <1>7, PoolMembers DEF GateAcquire
  <2>3. \/ owed' = [owed EXCEPT ![r] = NoRun]
        \/ owed' = [owed EXCEPT ![r] = Head(pool', cap, place)]
    BY <1>7 DEF GateAcquire, AcquireKick
  <2>4. \A q \in Runs : owed'[q] \in Members(pool') \cup {NoRun, owed[q]}
    BY <1>0, <1>2, <2>3, KickIsMember DEF TypeOK
  <2>5. \A q \in Runs \ {r} : wpc'[q] = wpc[q]
    BY <1>0, <1>7 DEF GateAcquire, Leave, TypeOK
  <2> QED BY <1>1, <1>3, <2>1, <2>2, <2>4, <2>5, MemberStep
<1>8. CASE DeliverKick(r)
  <2>1. UNCHANGED <<rstate, pool>> /\ owed[r] # NoRun /\ owed' = [owed EXCEPT ![r] = NoRun]
    BY <1>8 DEF DeliverKick, store
  <2>2. owed[r] \in Runs
    BY <1>0, <2>1 DEF TypeOK
  <2>3. call[owed[r]] \notin Unadmitted
    BY <2>2 DEF MemberInv, Unseen
  <2>4. \A q \in Runs : wpc'[q] = wpc[q] \/ (q = owed[r] /\ wpc[q] = "none")
    BY <1>0, <1>8, <2>2 DEF DeliverKick, Dispatch, TypeOK
  <2>5. \A q \in Runs : owed'[q] \in {NoRun, owed[q]}
    BY <1>0, <2>1 DEF TypeOK
  <2> QED BY <1>1, <2>1, <2>3, <2>4, <2>5, MemberStep
<1>9. CASE ReleaseRunClass(r)
  <2>1. UNCHANGED rstate /\ wpc[r] = "release" /\ wpc' = [wpc EXCEPT ![r] = "exit"]
    BY <1>9 DEF ReleaseRunClass, Leave, store
  <2>2. Members(pool') = Members(pool) \ {r}
    BY <1>0, <1>9, PoolMembers DEF ReleaseRunClass
  <2>3. \/ owed' = [owed EXCEPT ![r] = NoRun]
        \/ owed' = [owed EXCEPT ![r] = Head(pool', cap, place)]
    BY <1>9 DEF ReleaseRunClass, ReleaseKick
  <2>4. \A q \in Runs : owed'[q] \in Members(pool') \cup {NoRun, owed[q]}
    BY <1>0, <1>2, <2>3, KickIsMember DEF TypeOK
  <2>5. \A q \in Runs \ {r} : wpc'[q] = wpc[q]
    BY <1>0, <2>1 DEF TypeOK
  <2> QED BY <1>1, <1>3, <2>1, <2>2, <2>4, <2>5, MemberStep
<1>10. ASSUME GateCancel(r) \/ Attempt(r)
       PROVE  rstate' = rstate \/ rstate' = [rstate EXCEPT ![r] = "terminal"]
  BY <1>10 DEF GateCancel, Attempt
<1> QED BY <1>4, <1>5, <1>6, <1>7, <1>8, <1>9, <1>10 DEF Worker, Gate

LEMMA MemberStart ==
    ASSUME ClassInv, ClassInv', MemberInv, Starting
    PROVE  MemberInv'
<1>0. TypeOK /\ GoodPool(pool)
  BY GoodIsGoodPool DEF ClassInv, Good
<1>1. CASE StartBegin \/ StartList \/ StartSeeded \/ StartDone
  <2>1. UNCHANGED <<rstate, call, pool, wpc, owed>>
    BY <1>1 DEF StartBegin, StartList, StartSeeded, StartDone, store, worker
  <2>2. Unseen' /\ Counting' /\ NoRefusal' /\ Kept'
    BY <2>1 DEF MemberInv, Unseen, Counting, NoRefusal, Kept, Live
  <2>3. boot # "up" => \A r \in Runs : call[r] \in {"idle", "over"}
    BY DEF MemberInv, Listed
  <2>4. Listed'
    BY <1>1, <2>1, <2>3
       DEF MemberInv, Listed, StartBegin, StartList, StartSeeded, StartDone, Live
  <2> QED BY <2>2, <2>4 DEF MemberInv
<1>2. ASSUME NEW r \in Runs, StartSeed(r) PROVE MemberInv'
  <2>1. UNCHANGED <<rstate, call, boot, snap, wpc, owed>> /\ recs' \subseteq recs
    BY <1>2 DEF StartSeed, store, worker
  <2>2. Members(pool') \subseteq Members(pool) \cup {r}
    BY <1>0, <1>2, PoolMembers DEF StartSeed
  <2>3. rstate[r] = "live"
    BY <1>2 DEF StartSeed, MemberInv, Listed, Live
  <2>4. call[r] \notin Unadmitted
    <3>1. call[r] \in {"idle", "over"}
      BY <1>2 DEF StartSeed, MemberInv, Listed
    <3>2. call[r] # "idle"
      BY <2>3 DEF ClassInv, Created
    <3> QED BY <3>1, <3>2 DEF Unadmitted
  <2> QED BY <2>1, <2>2, <2>3, <2>4, MemberStep
<1>3. ASSUME NEW r \in Runs, StartDispatch(r) PROVE MemberInv'
  <2>1. UNCHANGED <<rstate, call, boot, snap, pool, owed>> /\ recs' \subseteq recs
    BY <1>3 DEF StartDispatch, store
  <2>2. rstate[r] # "absent" /\ boot = "poke"
    BY <1>3 DEF StartDispatch, MemberInv, Listed
  <2>3. call[r] \notin Unadmitted
    <3>1. call[r] \in {"idle", "over"}
      BY <2>2 DEF MemberInv, Listed
    <3>2. call[r] # "idle"
      BY <2>2 DEF ClassInv, Created
    <3> QED BY <3>1, <3>2 DEF Unadmitted
  <2>4. \A q \in Runs : wpc'[q] = wpc[q] \/ (q = r /\ wpc[q] = "none")
    BY <1>0, <1>3 DEF StartDispatch, Dispatch, TypeOK
  <2> QED BY <2>1, <2>3, <2>4, MemberStep
<1> QED BY <1>1, <1>2, <1>3 DEF Starting

(* With no cancel the Run of a late count has no worker; with no bound      *)
(* there is no late count.                                                  *)
LEMMA MemberCancel ==
    ASSUME Cancelable = {} \/ MaxQueued = 0, ClassInv, ClassInv', MemberInv,
           NEW r \in Runs, Cancel(r)
    PROVE  MemberInv'
<1>1. TypeOK /\ MaxQueued = 0
  BY DEF Cancel, ClassInv, Good
<1>2. UNCHANGED <<rstate, call, boot, snap, recs, pool, owed>> /\ rstate[r] = "live"
  BY DEF Cancel, Live, start
<1>3. call[r] \notin Unadmitted
  BY <1>1, <1>2 DEF ClassInv, Created, MemberInv, NoRefusal, Unadmitted
<1>4. \A q \in Runs : wpc'[q] = wpc[q] \/ (q = r /\ wpc[q] \in {"none", "asleep"})
  BY <1>1 DEF Cancel, Dispatch, TypeOK
<1> QED BY <1>2, <1>3, <1>4, MemberStep

LEMMA MemberCrash ==
    ASSUME ClassInv, MemberInv, Crash
    PROVE  MemberInv'
<1>0. TypeOK /\ NoRun \notin Runs
  BY RunsAssumption DEF ClassInv, Good
<1>1. /\ boot' = "down" /\ Members(pool') = {} /\ recs' = {} /\ snap'.listed = {}
      /\ \A r \in Runs : wpc'[r] = "none" /\ owed'[r] = NoRun /\ call'[r] \in {"idle", "over"}
  BY DEF Crash, NewPool, Members
<1> QED BY <1>0, <1>1
        DEF MemberInv, Unseen, Counting, NoRefusal, Listed, Kept, Members

LEMMA MemberInvStep ==
    ASSUME ~EarlyCallers, Cancelable = {} \/ MaxQueued = 0,
           ClassInv, MemberInv, [Next]_vars
    PROVE  ClassInv' /\ MemberInv'
<1>1. ClassInv'
  BY ClassStep
<1>2. ASSUME Tick \/ Rest \/ UNCHANGED vars PROVE MemberInv'
  <2>1. UNCHANGED <<rstate, call, pool, wpc, owed, boot, recs, snap>>
    BY <1>2 DEF Tick, Rest, vars, store, start, worker
  <2> QED BY <2>1
          DEF MemberInv, Unseen, Counting, NoRefusal, Listed, Kept, Live
<1> QED BY <1>1, <1>2, MemberSchedule, MemberWorker, MemberStart, MemberCancel,
          MemberCrash DEF Next

(* When callers wait for Start to return, and either no Run is ever         *)
(* canceled or the queue has no bound, a Run's membership of its class ends  *)
(* with the Run: every member is live, is being created or taken back, or   *)
(* is about to be released by its worker.  Both other settings have          *)
(* counterexamples: Start seeds a Run that an early caller's worker has      *)
(* completed, and a late count admits a Run that a cancel has completed.     *)
THEOREM MembersLiveAlways ==
    ~EarlyCallers /\ (Cancelable = {} \/ MaxQueued = 0) /\ Spec => []MembersLive
<1> SUFFICES ASSUME ~EarlyCallers, Cancelable = {} \/ MaxQueued = 0
             PROVE  Spec => []MembersLive
  OBVIOUS
<1>1. ClassInv /\ MemberInv /\ [Next]_vars => ClassInv' /\ MemberInv'
  BY MemberInvStep
<1>2. ClassInv /\ MemberInv => MembersLive
  BY KeptIsMembersLive DEF ClassInv, Good, MemberInv
<1> QED BY <1>1, <1>2, InitClassInv, InitMemberInv, PTL DEF Spec

-----------------------------------------------------------------------------
(***************************************************************************)
(* No token is idle.  The one kick the code drops is that of an admission  *)
(* taken back (LostKick); as long as none is, whoever comes to the head of *)
(* the line is kicked by the step that brought it there.                   *)
(***************************************************************************)
NoTakeBack == \A r \in Runs : call[r] # "takeback"

(* A kick is delivered before its worker goes on. *)
Owing == \A r \in Runs : owed[r] # NoRun => wpc[r] \in {"reserve", "exit"}

(* Who was reported invalid is out of the line for good: it was created by *)
(* an earlier deployment, so nobody admits it again.                       *)
OutOfLine == /\ marked \subseteq invalid /\ marked \cap pool.line = {}
             /\ \A r \in invalid : call[r] = "over" /\ rstate[r] # "absent"
             /\ boot \in {"down", "list", "seed"} => marked = {}

(* Start queues what it has listed, and will dispatch all of it. *)
QueuedListed == /\ boot \in {"down", "list"} => pool.line = {}
                /\ boot = "seed" => recs \cup pool.line \subseteq snap.listed

(* h is the head of the line and the class has room for it. *)
FirstWithRoom(p, c, pl, h) == /\ h \in p.line /\ p.inUse < c
                              /\ \A n \in p.line \ {h} : Before(pl, h, n)

HeadOnItsWay == boot \in {"poke", "up"} =>
    \A h \in Runs : FirstWithRoom(pool, cap, place, h) => OnItsWay(h)

IdleInv == Owing /\ OutOfLine /\ QueuedListed /\ HeadOnItsWay

(* Head is the first in line, and there is only one. *)
LEMMA HeadIsFirst ==
    ASSUME NEW p, GoodPool(p), NEW c, NEW pl \in [Runs -> Nat]
    PROVE  /\ Head(p, c, pl) # NoRun =>
                Head(p, c, pl) \in Runs /\ FirstWithRoom(p, c, pl, Head(p, c, pl))
           /\ \A h \in Runs : FirstWithRoom(p, c, pl, h) => Head(p, c, pl) = h
<1>0. p.line \in SUBSET Runs
  BY DEF GoodPool, PoolType
<1>1. CASE p.inUse < c /\ p.line # {}
  <2> DEFINE first(m) == m \in p.line /\ \A n \in p.line \ {m} : Before(pl, m, n)
  <2>1. \E m \in p.line : \A n \in p.line \ {m} : Before(pl, m, n)
    BY <1>0, <1>1, FirstInLine
  <2>2. Head(p, c, pl) = CHOOSE m \in p.line : \A n \in p.line \ {m} : Before(pl, m, n)
    BY <1>1 DEF Head
  <2>3. first(Head(p, c, pl))
    BY <2>1, <2>2
  <2>4. ASSUME NEW a \in Runs, NEW b \in Runs, first(a), first(b) PROVE a = b
    <3>1. a # b => Before(pl, a, b) /\ Before(pl, b, a)
      BY <2>4
    <3>2. a \in Nat /\ b \in Nat /\ pl[a] \in Nat /\ pl[b] \in Nat
      BY RunsAssumption
    <3> QED BY <3>1, <3>2 DEF Before
  <2> HIDE DEF first
  <2>5. Head(p, c, pl) \in Runs
    BY <1>0, <2>3 DEF first
  <2>6. \A h \in Runs : FirstWithRoom(p, c, pl, h) <=> first(h)
    BY <1>1 DEF FirstWithRoom, first
  <2> QED BY <2>3, <2>4, <2>5, <2>6
<1>2. CASE ~(p.inUse < c /\ p.line # {})
  BY <1>2 DEF Head, FirstWithRoom
<1> QED BY <1>1, <1>2

LEMMA HeadOnItsWayIsNoIdleToken ==
    ASSUME ClassInv, HeadOnItsWay
    PROVE  NoIdleToken
<1>1. GoodPool(pool) /\ place \in [Runs -> Nat]
  BY GoodIsGoodPool DEF ClassInv, Good, TypeOK
<1> QED BY <1>1, HeadIsFirst DEF HeadOnItsWay, NoIdleToken

(* The operations on the line: who is first afterwards was first before,   *)
(* or is the one admitted, or is the kick.                                 *)
LEMMA FirstAfter ==
    ASSUME NEW p, GoodPool(p), NEW w \in Runs, NEW c \in Nat, NEW pl \in [Runs -> Nat],
           NEW h \in Runs
    PROVE  /\ FirstWithRoom(Admit(p, w), c, pl, h) => h = w \/ FirstWithRoom(p, c, pl, h)
           /\ FirstWithRoom(Clear(p, w), c, pl, h) =>
                \/ ClearKick(p, w, c, pl) = h
                \/ h # w /\ FirstWithRoom(p, c, pl, h)
           /\ FirstWithRoom(Release(p, w), c, pl, h) =>
                \/ ReleaseKick(p, w, c, pl) = h
                \/ h # w /\ FirstWithRoom(p, c, pl, h)
           /\ FirstWithRoom(Acquire(p, w, c, pl), c, pl, h) =>
                \/ AcquireKick(p, w, c, pl) = h
                \/ w \in p.holders /\ FirstWithRoom(p, c, pl, h)
                \/ h # w /\ FirstWithRoom(p, c, pl, h)
<1>1. FirstWithRoom(Admit(p, w), c, pl, h) => h = w \/ FirstWithRoom(p, c, pl, h)
  BY DEF FirstWithRoom, Admit, GoodPool, PoolType
<1>2. ASSUME FirstWithRoom(Clear(p, w), c, pl, h)
      PROVE  ClearKick(p, w, c, pl) = h \/ (h # w /\ FirstWithRoom(p, c, pl, h))
  <2>1. CASE w \in p.pending \ p.aside
    BY <1>2, <2>1, ClearGood, HeadIsFirst DEF ClearKick
  <2>2. CASE w \notin p.pending \ p.aside
    BY <1>2, <2>2 DEF Clear, FirstWithRoom, GoodPool, PoolOK
  <2> QED BY <2>1, <2>2
<1>3. ASSUME FirstWithRoom(Release(p, w), c, pl, h)
      PROVE  ReleaseKick(p, w, c, pl) = h \/ (h # w /\ FirstWithRoom(p, c, pl, h))
  <2>1. CASE w \in p.holders \cup p.pending
    BY <1>3, <2>1, ReleaseGood, HeadIsFirst DEF ReleaseKick
  <2>2. CASE w \notin p.holders \cup p.pending
    BY <1>3, <2>2 DEF Release, Forget, FirstWithRoom, GoodPool, PoolType, PoolOK
  <2> QED BY <2>1, <2>2
<1>4. ASSUME FirstWithRoom(Acquire(p, w, c, pl), c, pl, h)
      PROVE  \/ AcquireKick(p, w, c, pl) = h
             \/ w \in p.holders /\ FirstWithRoom(p, c, pl, h)
             \/ h # w /\ FirstWithRoom(p, c, pl, h)
  <2>1. CASE w \in p.holders
    BY <1>4, <2>1 DEF Acquire
  <2>2. CASE w \notin p.holders /\ Granted(p, w, c, pl)
    BY <1>4, <2>2, AcquireGood, HeadIsFirst DEF AcquireKick
  <2>3. CASE w \notin p.holders /\ ~Granted(p, w, c, pl)
    <3> DEFINE e == Enter(p, w)
    <3>1. /\ Acquire(p, w, c, pl).line = e.line /\ Acquire(p, w, c, pl).inUse = p.inUse
          /\ e.line = p.line \cup {w} /\ e.line \in SUBSET Runs /\ p.inUse \in Nat
      BY <2>3 DEF Acquire, Enter, GoodPool, PoolType
    <3> HIDE DEF e
    <3>2. ~(p.inUse + Cardinality(Ahead(e, pl, w)) < c)
      BY <2>3 DEF Granted, e
    <3>3. p.inUse < c /\ h \in p.line \cup {w} /\ \A n \in (p.line \cup {w}) \ {h} : Before(pl, h, n)
      BY <1>4, <3>1 DEF FirstWithRoom
    <3>4. h # w
      <4> SUFFICES ASSUME h = w PROVE FALSE
        OBVIOUS
      <4>1. Ahead(e, pl, w) = {}
        <5> SUFFICES ASSUME NEW m \in e.line, Before(pl, m, w) PROVE FALSE
          BY DEF Ahead
        <5>1. m \in Nat /\ w \in Nat /\ pl[m] \in Nat /\ pl[w] \in Nat
          BY <3>1, RunsAssumption
        <5>2. m # w => Before(pl, w, m)
          BY <3>1, <3>3
        <5> QED BY <5>1, <5>2 DEF Before
      <4>2. Cardinality(Ahead(e, pl, w)) = 0
        BY <4>1, FS_EmptySet
      <4> QED BY <3>1, <3>2, <3>3, <4>2
    <3> QED BY <3>3, <3>4 DEF FirstWithRoom
  <2> QED BY <2>1, <2>2, <2>3
<1> QED BY <1>1, <1>2, <1>3, <1>4

(* Whoever is dispatched is on its way. *)
LEMMA DispatchedOnItsWay ==
    ASSUME TypeOK, NEW r \in Runs, Dispatch(r)
    PROVE  /\ OnItsWay(r)'
           /\ \A q \in Runs : q # r => wpc'[q] = wpc[q]
           /\ wpc'[r] \in {wpc[r], "queued"} /\ (wpc[r] # "none" => wpc'[r] = wpc[r])
           /\ repoke \subseteq repoke'
<1>1. wpc' \in [Runs -> WorkerStates] /\ wpc'[r] # "none"
  BY DEF Dispatch, TypeOK, WorkerStates
<1>2. wpc'[r] = "exit" => r \in repoke'
  BY DEF Dispatch, TypeOK
<1>3. OnItsWay(r)'
  BY <1>1, <1>2 DEF OnItsWay
<1> QED BY <1>3 DEF Dispatch, TypeOK

(* A Run to which a step does nothing stays on its way. *)
LEMMA StillOnItsWay ==
    ASSUME NEW h \in Runs, OnItsWay(h),
           wpc'[h] = wpc[h] \/ wpc'[h] \notin {"none", "exit"},
           h \in again \cup repoke => h \in again' \cup repoke' \/ wpc'[h] \notin {"none", "exit"},
           \A q \in Runs : owed[q] = h => owed'[q] = h,
           call[h] \in {"create", "dispatch", "takeback"} =>
                call'[h] \in {"create", "dispatch", "takeback"},
           boot = "poke" /\ h \in recs => boot' = "poke" /\ h \in recs'
    PROVE  OnItsWay(h)'
BY DEF OnItsWay

LEMMA InitIdleInv == Init => IdleInv
BY DEF Init, IdleInv, Owing, OutOfLine, QueuedListed, HeadOnItsWay, NewPool

(* A call that puts its Run in line has yet to dispatch it. *)
LEMMA IdleSchedule ==
    ASSUME ~EarlyCallers, NoTakeBack, ClassInv, MemberInv, IdleInv,
           NEW r \in Runs, Schedule(r)
    PROVE  IdleInv'
<1>0. TypeOK /\ GoodPool(pool) /\ boot \in {"poke", "up"}
  BY GoodIsGoodPool, AfterSeeding DEF ClassInv, Good
<1>1. UNCHANGED <<boot, recs, snap, cap, owed, again, marked, invalid>>
  BY DEF Schedule, ScheduleStamp, ScheduleAdmit, ScheduleCheck, ScheduleCreate,
       ScheduleTakeBack, ScheduleCount, ScheduleDispatch, start, worker, deploy
<1>2. cap \in Nat /\ place \in [Runs -> Nat] /\ pool.line \subseteq Members(pool)
  BY <1>0, ClassAssumption DEF TypeOK, Members, GoodPool, PoolOK
<1>3. /\ \A q \in Runs : q # r => call'[q] = call[q] /\ rstate'[q] = rstate[q]
      /\ call[r] # "over"
  BY <1>0 DEF Schedule, ScheduleStamp, ScheduleAdmit, ScheduleCheck, ScheduleCreate,
       ScheduleTakeBack, ScheduleCount, ScheduleDispatch, store, TypeOK
<1>4. r \notin invalid /\ invalid \subseteq Runs
  BY <1>0, <1>3 DEF IdleInv, OutOfLine, TypeOK
<1>5. CASE ScheduleDispatch(r)
  <2>1. UNCHANGED <<pool, place>> /\ Dispatch(r)
    BY <1>5 DEF ScheduleDispatch, store
  <2>2. /\ OnItsWay(r)' /\ \A q \in Runs : q # r => wpc'[q] = wpc[q]
        /\ wpc'[r] \in {wpc[r], "queued"} /\ (wpc[r] # "none" => wpc'[r] = wpc[r])
        /\ repoke \subseteq repoke'
    BY <1>0, <2>1, DispatchedOnItsWay
  <2>3. Owing'
    BY <1>1, <2>2 DEF IdleInv, Owing
  <2>4. HeadOnItsWay'
    <3> SUFFICES ASSUME NEW h \in Runs, FirstWithRoom(pool, cap, place, h), h # r
                 PROVE  OnItsWay(h)'
      BY <1>1, <2>1, <2>2 DEF HeadOnItsWay
    <3>1. OnItsWay(h)
      BY <1>0 DEF IdleInv, HeadOnItsWay
    <3> QED BY <1>1, <1>3, <2>2, <3>1, StillOnItsWay
  <2>5. OutOfLine' /\ QueuedListed'
    BY <1>0, <1>1, <1>3, <1>4, <2>1 DEF IdleInv, OutOfLine, QueuedListed
  <2> QED BY <2>3, <2>4, <2>5 DEF IdleInv
<1>6. CASE ~ScheduleDispatch(r)
  <2>1. UNCHANGED <<wpc, repoke>>
    BY <1>6 DEF Schedule, ScheduleStamp, ScheduleAdmit, ScheduleCheck, ScheduleCreate,
         ScheduleTakeBack, ScheduleCount, worker
  <2>2. /\ pool' = pool \/ pool' = Admit(pool, r)
        /\ pool' # pool => call'[r] \in {"create", "dispatch"}
        /\ call[r] \in {"create", "dispatch", "takeback"} =>
              call'[r] \in {"create", "dispatch", "takeback"}
        /\ call'[r] \in {"create", "dispatch", "takeback"} \/ call[r] \in Unadmitted
    BY <1>0, <1>6 DEF Schedule, ScheduleStamp, ScheduleAdmit, ScheduleCheck, ScheduleCreate,
         ScheduleTakeBack, ScheduleCount, TypeOK, NoTakeBack, Unadmitted
  <2>3. pool'.line \subseteq pool.line \cup {r}
    BY <1>0, <2>2 DEF Admit, GoodPool, PoolType
  <2>4. \A q \in Runs : q # r => place'[q] = place[q]
    BY <1>0 DEF Schedule, ScheduleStamp, ScheduleAdmit, ScheduleCheck, ScheduleCreate,
         ScheduleTakeBack, ScheduleCount, ScheduleDispatch, store, TypeOK
  <2>5. ASSUME NEW h \in Runs, FirstWithRoom(pool', cap, place', h)
        PROVE  OnItsWay(h)'
    <3>1. CASE call'[r] \in {"create", "dispatch", "takeback"} /\ h = r
      BY <3>1 DEF OnItsWay
    <3>2. CASE call'[r] \in {"create", "dispatch", "takeback"} /\ h # r
      <4>1. place' = place
        BY <1>0, <3>2 DEF Schedule, ScheduleStamp, ScheduleAdmit, ScheduleCheck, ScheduleCreate,
             ScheduleTakeBack, ScheduleCount, ScheduleDispatch, store, TypeOK
      <4>2. FirstWithRoom(pool, cap, place, h)
        BY <1>0, <1>2, <2>2, <2>5, <3>2, <4>1, FirstAfter
      <4>3. OnItsWay(h)
        BY <1>0, <4>2 DEF IdleInv, HeadOnItsWay
      <4> QED BY <1>1, <1>3, <2>1, <3>2, <4>3, StillOnItsWay
    <3>3. CASE call'[r] \notin {"create", "dispatch", "takeback"}
      <4>1. pool' = pool /\ r \notin pool.line
        BY <1>2, <2>2, <3>3 DEF MemberInv, Unseen
      <4>2. FirstWithRoom(pool, cap, place, h) /\ h # r
        BY <1>0, <2>4, <2>5, <4>1 DEF FirstWithRoom, Before, GoodPool, PoolType
      <4>3. OnItsWay(h)
        BY <1>0, <4>2 DEF IdleInv, HeadOnItsWay
      <4> QED BY <1>1, <1>3, <2>1, <4>2, <4>3, StillOnItsWay
    <3> QED BY <3>1, <3>2, <3>3
  <2>6. HeadOnItsWay'
    BY <1>1, <2>5 DEF HeadOnItsWay
  <2>7. Owing' /\ OutOfLine' /\ QueuedListed'
    BY <1>0, <1>1, <1>3, <1>4, <2>1, <2>3 DEF IdleInv, Owing, OutOfLine, QueuedListed
  <2> QED BY <2>6, <2>7 DEF IdleInv
<1> QED BY <1>5, <1>6

LEMMA IdleCancel ==
    ASSUME ~EarlyCallers, ClassInv, IdleInv, NEW r \in Runs, Cancel(r)
    PROVE  IdleInv'
<1>0. TypeOK /\ boot \in {"poke", "up"}
  BY AfterSeeding DEF ClassInv, Good
<1>1. UNCHANGED <<rstate, place, deploy, marked, pool, start, call, owed, again>>
  BY DEF Cancel
<1>2. /\ OnItsWay(r)' /\ \A q \in Runs : q # r => wpc'[q] = wpc[q]
      /\ wpc[r] \notin {"none", "asleep"} => wpc'[r] = wpc[r]
      /\ repoke \subseteq repoke'
  <2>1. CASE wpc[r] = "asleep"
    BY <1>0, <2>1 DEF Cancel, OnItsWay, TypeOK
  <2>2. CASE wpc[r] # "asleep"
    BY <1>0, <2>2, DispatchedOnItsWay DEF Cancel
  <2> QED BY <2>1, <2>2
<1>3. Owing'
  BY <1>1, <1>2 DEF IdleInv, Owing
<1>4. HeadOnItsWay'
  <2> SUFFICES ASSUME NEW h \in Runs, FirstWithRoom(pool, cap, place, h), h # r
               PROVE  OnItsWay(h)'
    BY <1>1, <1>2 DEF HeadOnItsWay, deploy, start
  <2>1. OnItsWay(h)
    BY <1>0 DEF IdleInv, HeadOnItsWay
  <2> QED BY <1>1, <1>2, <2>1, StillOnItsWay DEF start
<1>5. OutOfLine' /\ QueuedListed'
  BY <1>1 DEF IdleInv, OutOfLine, QueuedListed, deploy, start
<1> QED BY <1>3, <1>4, <1>5 DEF IdleInv

(* A step of r's worker that leaves the line alone. *)
LEMMA IdleWorkerAlone ==
    ASSUME ClassInv, IdleInv, NEW r \in Runs, boot \in {"poke", "up"},
           UNCHANGED <<boot, recs, snap, cap, place, call, marked, invalid, pool, owed>>,
           owed[r] = NoRun \/ wpc'[r] \in {"reserve", "exit"},
           \A q \in Runs : q # r => /\ wpc'[q] = wpc[q] /\ rstate'[q] = rstate[q]
                                    /\ q \in again \cup repoke => q \in again' \cup repoke',
           rstate[r] # "absent" => rstate'[r] # "absent",
           r \notin pool.line \/ (OnItsWay(r) => OnItsWay(r)')
    PROVE  IdleInv'
<1>0. TypeOK
  BY DEF ClassInv, Good
<1>1. Owing'
  BY DEF IdleInv, Owing
<1>2. HeadOnItsWay'
  <2> SUFFICES ASSUME NEW h \in Runs, FirstWithRoom(pool, cap, place, h) PROVE OnItsWay(h)'
    BY DEF HeadOnItsWay
  <2>1. OnItsWay(h) /\ h \in pool.line
    BY DEF IdleInv, HeadOnItsWay, FirstWithRoom
  <2>2. CASE h # r
    BY <2>1, <2>2, StillOnItsWay
  <2> QED BY <2>1, <2>2
<1>3. OutOfLine' /\ QueuedListed'
  BY <1>0 DEF IdleInv, OutOfLine, QueuedListed, TypeOK
<1> QED BY <1>1, <1>2, <1>3 DEF IdleInv

(* A step of r's worker that moves the line and owes the new head a kick. *)
LEMMA IdleWorkerKick ==
    ASSUME ClassInv, IdleInv, NEW r \in Runs, boot \in {"poke", "up"},
           UNCHANGED <<boot, recs, snap, cap, place, call, invalid, rstate, repoke>>,
           owed[r] = NoRun, wpc'[r] \in {"reserve", "exit"},
           \A q \in Runs : q # r => wpc'[q] = wpc[q] /\ owed'[q] = owed[q]
                                    /\ (q \in again => q \in again'),
           marked' \subseteq invalid, marked' \cap pool'.line = {},
           \A h \in Runs : FirstWithRoom(pool', cap, place, h) =>
                \/ owed'[r] = h
                \/ h = r /\ wpc'[r] = "reserve"
                \/ h # r /\ FirstWithRoom(pool, cap, place, h)
    PROVE  IdleInv'
<1>0. TypeOK /\ NoRun \notin Runs
  BY RunsAssumption DEF ClassInv, Good
<1>1. Owing'
  BY DEF IdleInv, Owing
<1>2. HeadOnItsWay'
  <2> SUFFICES ASSUME NEW h \in Runs, FirstWithRoom(pool', cap, place, h) PROVE OnItsWay(h)'
    BY DEF HeadOnItsWay
  <2>1. CASE owed'[r] = h \/ (h = r /\ wpc'[r] = "reserve")
    BY <2>1 DEF OnItsWay
  <2>2. CASE h # r /\ FirstWithRoom(pool, cap, place, h)
    <3>1. OnItsWay(h)
      BY <2>2 DEF IdleInv, HeadOnItsWay
    <3>2. \A q \in Runs : owed[q] = h => owed'[q] = h
      BY <1>0
    <3> QED BY <2>2, <3>1, <3>2, StillOnItsWay
  <2> QED BY <2>1, <2>2
<1>3. OutOfLine' /\ QueuedListed'
  BY DEF IdleInv, OutOfLine, QueuedListed
<1> QED BY <1>1, <1>2, <1>3 DEF IdleInv

LEMMA IdleWorker ==
    ASSUME ~EarlyCallers, ClassInv, ClassInv', MemberInv, IdleInv, NEW r \in Runs, Worker(r)
    PROVE  IdleInv'
<1>0. TypeOK /\ TypeOK' /\ GoodPool(pool) /\ NoRun \notin Runs
  BY GoodIsGoodPool, RunsAssumption DEF ClassInv, Good
<1>1. boot \in {"poke", "up"} /\ UNCHANGED <<boot, cap, recs, snap, call, place, invalid>>
  <2>1. boot \in {"poke", "up"}
    BY AfterSeeding
  <2>2. UNCHANGED <<boot, cap, recs, snap, call, place, invalid>>
    BY DEF Worker, Gate, GateGone, GateFault, GateInvalid, GateCancel,
         GateSleep, GateAcquire, GatePass, DeliverKick, Reserve, Attempt,
         ReleaseRunClass, Exit, WakeUp, start, store, deploy
  <2> QED BY <2>1, <2>2
<1>2. cap \in Nat /\ place \in [Runs -> Nat] /\ pool.line \subseteq Members(pool)
  BY <1>0, ClassAssumption DEF TypeOK, Members, GoodPool, PoolOK
<1>3. wpc[r] \notin {"reserve", "exit"} => owed[r] = NoRun
  BY DEF IdleInv, Owing
<1>4. CASE GateGone(r)
  <2>1. UNCHANGED <<rstate, pool, marked, owed, repoke>> /\ wpc[r] = "queued" /\ rstate[r] # "live"
    BY <1>4 DEF GateGone, store
  <2>2. wpc' = [wpc EXCEPT ![r] = "exit"] /\ again' = again \ {r}
    BY <1>4 DEF GateGone, Leave
  <2>3. r \in pool.line => call[r] \in {"create", "takeback"}
    BY <1>2, <2>1 DEF MemberInv, Kept
  <2>4. r \notin pool.line \/ OnItsWay(r)'
    BY <1>1, <2>3 DEF OnItsWay
  <2> QED BY <1>0, <1>1, <1>3, <2>1, <2>2, <2>4, IdleWorkerAlone DEF TypeOK
<1>5. CASE \/ GateFault(r) \/ GateSleep(r)
           \/ (GateCancel(r) \/ Attempt(r) \/ Reserve(r)) /\ Leave(r, TRUE)
  <2>1. UNCHANGED <<pool, marked, owed, repoke>> /\ wpc[r] # "exit" /\ (wpc[r] = "reserve" => owed[r] = NoRun)
    BY <1>5 DEF GateFault, GateSleep, GateCancel, Attempt, Reserve, Runnable
  <2>2. wpc' = [wpc EXCEPT ![r] = "exit"] /\ again' = again \cup {r}
    BY <1>5 DEF GateFault, GateSleep, Leave
  <2>3. rstate' = rstate \/ rstate' = [rstate EXCEPT ![r] = "terminal"]
    BY <1>5 DEF GateFault, GateSleep, GateCancel, Attempt, Reserve, store
  <2>4. /\ \A q \in Runs : q # r => rstate'[q] = rstate[q] /\ wpc'[q] = wpc[q]
        /\ wpc'[r] = "exit" /\ (rstate[r] # "absent" => rstate'[r] # "absent")
    BY <1>0, <2>2, <2>3 DEF TypeOK
  <2>5. OnItsWay(r)'
    BY <2>2, <2>4 DEF OnItsWay
  <2> QED BY <1>1, <2>1, <2>2, <2>4, <2>5, IdleWorkerAlone
<1>6. CASE \/ (GateCancel(r) \/ Attempt(r)) /\ wpc' = [wpc EXCEPT ![r] = "release"]
           \/ GatePass(r) \/ WakeUp(r)
           \/ Reserve(r) /\ wpc' = [wpc EXCEPT ![r] = "attempt"]
  <2>1. UNCHANGED <<pool, marked, owed, repoke>> /\ wpc[r] # "exit" /\ (wpc[r] = "reserve" => owed[r] = NoRun)
    BY <1>6 DEF GatePass, WakeUp, GateCancel, Attempt, Reserve, Runnable
  <2>2. /\ \A q \in Runs : q # r => wpc'[q] = wpc[q]
        /\ wpc'[r] \in {"release", "attempt", "queued"}
    BY <1>0, <1>6 DEF GatePass, WakeUp, TypeOK
  <2>3. rstate' = rstate \/ rstate' = [rstate EXCEPT ![r] = "terminal"]
    BY <1>6 DEF GatePass, WakeUp, GateCancel, Attempt, Reserve, store
  <2>4. \A q \in Runs : q # r => (q \in again => q \in again')
    BY <1>6 DEF GatePass, WakeUp, GateCancel, Attempt, Reserve, Leave
  <2>5. /\ \A q \in Runs : q # r => rstate'[q] = rstate[q]
        /\ rstate[r] # "absent" => rstate'[r] # "absent"
    BY <1>0, <2>3 DEF TypeOK
  <2>6. OnItsWay(r)'
    BY <2>2 DEF OnItsWay
  <2> QED BY <1>1, <1>3, <2>1, <2>2, <2>4, <2>5, <2>6, IdleWorkerAlone
<1>7. CASE GateInvalid(r)
  <2>1. /\ wpc[r] = "queued" /\ wpc'[r] = "exit" /\ r \in invalid /\ UNCHANGED <<rstate, repoke>>
        /\ \A q \in Runs : q # r => wpc'[q] = wpc[q] /\ (q \in again => q \in again')
    BY <1>0, <1>7 DEF GateInvalid, Leave, store, TypeOK
  <2>2. CASE r \in marked
    <3>1. UNCHANGED <<marked, pool, owed>> /\ r \notin pool.line
      BY <1>7, <2>2 DEF GateInvalid, IdleInv, OutOfLine
    <3> QED BY <1>1, <1>3, <2>1, <3>1, IdleWorkerAlone
  <2>3. CASE r \notin marked
    <3>1. /\ marked' = marked \cup {r} /\ pool' = Clear(pool, r)
          /\ owed' = [owed EXCEPT ![r] = ClearKick(pool, r, cap, place)]
      BY <1>7, <2>3 DEF GateInvalid
    <3>2. pool'.line \subseteq pool.line \ {r}
      BY <1>0, <3>1 DEF Clear, GoodPool, PoolType, PoolOK
    <3>3. marked' \subseteq invalid /\ marked' \cap pool'.line = {}
      BY <2>1, <3>1, <3>2 DEF IdleInv, OutOfLine
    <3>4. /\ owed'[r] = ClearKick(pool, r, cap, place)
          /\ \A q \in Runs : q # r => owed'[q] = owed[q]
      BY <1>0, <3>1 DEF TypeOK
    <3>5. \A h \in Runs : FirstWithRoom(pool', cap, place, h) =>
                owed'[r] = h \/ (h # r /\ FirstWithRoom(pool, cap, place, h))
      BY <1>0, <1>2, <3>1, <3>4, FirstAfter
    <3> QED BY <1>1, <1>3, <2>1, <3>3, <3>4, <3>5, IdleWorkerKick
  <2> QED BY <2>2, <2>3
<1>8. CASE GateAcquire(r)
  <2>1. /\ wpc[r] = "queued" /\ r \notin invalid /\ UNCHANGED <<rstate, repoke, marked>>
        /\ pool' = Acquire(pool, r, cap, place)
        /\ owed' = [owed EXCEPT ![r] = AcquireKick(pool, r, cap, place)]
    BY <1>8 DEF GateAcquire, Runnable, store
  <2>2. /\ Granted(pool, r, cap, place) => wpc'[r] = "reserve"
        /\ wpc'[r] \in {"reserve", "exit"}
        /\ \A q \in Runs : q # r => wpc'[q] = wpc[q] /\ (q \in again => q \in again')
    BY <1>0, <1>8 DEF GateAcquire, Leave, TypeOK
  <2>3. /\ owed'[r] = AcquireKick(pool, r, cap, place)
        /\ \A q \in Runs : q # r => owed'[q] = owed[q]
    BY <1>0, <2>1 DEF TypeOK
  <2>4. pool'.line \subseteq pool.line \cup {r}
    BY <1>0, <2>1 DEF Acquire, Forget, Enter, GoodPool, PoolType, PoolOK
  <2>5. marked' \subseteq invalid /\ marked' \cap pool'.line = {}
    BY <2>1, <2>4 DEF IdleInv, OutOfLine
  <2>6. r \in pool.holders => r \notin pool.line
    BY <1>0 DEF GoodPool, PoolOK
  <2>7. \A h \in Runs : FirstWithRoom(pool', cap, place, h) =>
              owed'[r] = h \/ (h # r /\ FirstWithRoom(pool, cap, place, h))
    BY <1>0, <1>2, <2>1, <2>3, <2>6, FirstAfter DEF FirstWithRoom
  <2> QED BY <1>1, <1>3, <2>1, <2>2, <2>3, <2>5, <2>7, IdleWorkerKick
<1>9. CASE ReleaseRunClass(r)
  <2>1. /\ wpc[r] = "release" /\ wpc'[r] = "exit" /\ UNCHANGED <<rstate, repoke, marked>>
        /\ pool' = Release(pool, r)
        /\ owed' = [owed EXCEPT ![r] = ReleaseKick(pool, r, cap, place)]
        /\ \A q \in Runs : q # r => wpc'[q] = wpc[q] /\ (q \in again => q \in again')
    BY <1>0, <1>9 DEF ReleaseRunClass, Leave, store, TypeOK
  <2>2. /\ owed'[r] = ReleaseKick(pool, r, cap, place)
        /\ \A q \in Runs : q # r => owed'[q] = owed[q]
    BY <1>0, <2>1 DEF TypeOK
  <2>3. pool'.line \subseteq pool.line
    BY <1>0, <2>1 DEF Release, Forget, GoodPool, PoolType
  <2>4. marked' \subseteq invalid /\ marked' \cap pool'.line = {}
    BY <2>1, <2>3 DEF IdleInv, OutOfLine
  <2>5. \A h \in Runs : FirstWithRoom(pool', cap, place, h) =>
              owed'[r] = h \/ (h # r /\ FirstWithRoom(pool, cap, place, h))
    BY <1>0, <1>2, <2>1, <2>2, FirstAfter
  <2> QED BY <1>1, <1>3, <2>1, <2>2, <2>4, <2>5, IdleWorkerKick
<1>10. CASE Exit(r)
  <2>1. /\ wpc[r] = "exit" /\ owed[r] = NoRun /\ UNCHANGED <<rstate, pool, marked, owed>>
        /\ repoke' = repoke \ {r} /\ again' = again \ {r}
        /\ \A q \in Runs : q # r => wpc'[q] = wpc[q]
        /\ r \in again \cup repoke => wpc'[r] \in {"queued", "asleep"}
    BY <1>0, <1>10 DEF Exit, store, TypeOK
  <2>2. OnItsWay(r) => OnItsWay(r)'
    BY <1>1, <2>1 DEF OnItsWay
  <2> QED BY <1>1, <2>1, <2>2, IdleWorkerAlone
<1>11. CASE DeliverKick(r)
  <2>0. PICK k \in Runs : k = owed[r]
    BY <1>0, <1>11 DEF DeliverKick, TypeOK
  <2>1. /\ Dispatch(k) /\ UNCHANGED <<rstate, pool, marked, again>>
        /\ owed'[r] = NoRun /\ \A q \in Runs : q # r => owed'[q] = owed[q]
    BY <1>0, <1>11, <2>0 DEF DeliverKick, store, TypeOK
  <2>2. /\ OnItsWay(k)' /\ \A q \in Runs : q # k => wpc'[q] = wpc[q]
        /\ wpc[k] # "none" => wpc'[k] = wpc[k]
        /\ repoke \subseteq repoke'
    BY <1>0, <2>1, DispatchedOnItsWay
  <2>3. Owing'
    BY <1>0, <2>1, <2>2 DEF IdleInv, Owing
  <2>4. HeadOnItsWay'
    <3> SUFFICES ASSUME NEW h \in Runs, FirstWithRoom(pool, cap, place, h), h # k
                 PROVE  OnItsWay(h)'
      BY <1>1, <2>1, <2>2 DEF HeadOnItsWay
    <3>1. OnItsWay(h)
      BY <1>1 DEF IdleInv, HeadOnItsWay
    <3>2. \A q \in Runs : owed[q] = h => owed'[q] = h
      BY <2>0, <2>1
    <3> QED BY <1>1, <2>1, <2>2, <3>1, <3>2, StillOnItsWay
  <2>5. OutOfLine' /\ QueuedListed'
    BY <1>1, <2>1 DEF IdleInv, OutOfLine, QueuedListed
  <2> QED BY <2>3, <2>4, <2>5 DEF IdleInv
<1>12. ASSUME GateCancel(r) \/ Attempt(r) \/ Reserve(r)
       PROVE  \/ Leave(r, TRUE)
              \/ (GateCancel(r) \/ Attempt(r)) /\ wpc' = [wpc EXCEPT ![r] = "release"]
              \/ Reserve(r) /\ wpc' = [wpc EXCEPT ![r] = "attempt"]
  <2>1. GateCancel(r) => Leave(r, TRUE) \/ wpc' = [wpc EXCEPT ![r] = "release"]
    BY DEF GateCancel
  <2>2. Attempt(r) => Leave(r, TRUE) \/ wpc' = [wpc EXCEPT ![r] = "release"]
    BY DEF Attempt
  <2>3. Reserve(r) => Leave(r, TRUE) \/ wpc' = [wpc EXCEPT ![r] = "attempt"]
    BY DEF Reserve
  <2> QED BY <1>12, <2>1, <2>2, <2>3
<1> QED BY <1>4, <1>5, <1>6, <1>7, <1>8, <1>9, <1>10, <1>11, <1>12 DEF Worker, Gate

LEMMA IdleStart ==
    ASSUME ClassInv, MemberInv, IdleInv, Starting
    PROVE  IdleInv'
<1>0. TypeOK /\ GoodPool(pool)
  BY GoodIsGoodPool DEF ClassInv, Good
<1>1. UNCHANGED <<rstate, place, cap, invalid, marked, call, owed, again>>
  BY DEF Starting, StartBegin, StartList, StartSeeded, StartDone, StartSeed,
       StartDispatch, store, deploy, worker
<1>2. CASE StartBegin \/ StartList \/ StartSeeded \/ StartDone
  <2>1. UNCHANGED <<pool, wpc, repoke>>
    BY <1>2 DEF StartBegin, StartList, StartSeeded, StartDone, worker
  <2>2. Owing' /\ OutOfLine'
    BY <1>1, <1>2, <2>1 DEF IdleInv, Owing, OutOfLine, StartBegin, StartList, StartSeeded, StartDone
  <2>3. QueuedListed'
    BY <1>2, <2>1 DEF IdleInv, QueuedListed, StartBegin, StartList, StartSeeded, StartDone
  <2>4. HeadOnItsWay'
    <3>1. CASE StartBegin \/ StartList
      BY <3>1 DEF StartBegin, StartList, HeadOnItsWay
    <3>2. CASE StartSeeded
      BY <2>1, <3>2 DEF StartSeeded, HeadOnItsWay, IdleInv, QueuedListed, FirstWithRoom, OnItsWay
    <3>3. CASE StartDone
      BY <1>1, <2>1, <3>3 DEF StartDone, IdleInv, HeadOnItsWay, OnItsWay
    <3> QED BY <1>2, <3>1, <3>2, <3>3
  <2> QED BY <2>2, <2>3, <2>4 DEF IdleInv
<1>3. ASSUME NEW r \in Runs, StartSeed(r) PROVE IdleInv'
  <2>1. UNCHANGED <<boot, snap, wpc, repoke>> /\ boot = "seed" /\ recs' = recs \ {r} /\ r \in recs
    BY <1>3 DEF StartSeed, worker
  <2>2. pool'.line \subseteq pool.line \cup {r}
    BY <1>0, <1>3 DEF StartSeed, Hold, Admit, Forget, GoodPool, PoolType
  <2> QED BY <1>1, <2>1, <2>2 DEF IdleInv, Owing, OutOfLine, QueuedListed, HeadOnItsWay
<1>4. ASSUME NEW r \in Runs, StartDispatch(r) PROVE IdleInv'
  <2>1. UNCHANGED <<pool, boot, snap>> /\ boot = "poke" /\ recs' = recs \ {r}
    BY <1>4 DEF StartDispatch
  <2>2. /\ OnItsWay(r)' /\ \A q \in Runs : q # r => wpc'[q] = wpc[q]
        /\ wpc[r] # "none" => wpc'[r] = wpc[r]
        /\ repoke \subseteq repoke'
    <3>1. CASE Dispatch(r)
      BY <1>0, <3>1, DispatchedOnItsWay
    <3>2. CASE wpc[r] = "none" /\ wpc' = [wpc EXCEPT ![r] = "asleep"] /\ repoke' = repoke
      BY <1>0, <3>2 DEF OnItsWay, TypeOK
    <3> QED BY <1>4, <3>1, <3>2 DEF StartDispatch
  <2>3. Owing' /\ OutOfLine' /\ QueuedListed'
    BY <1>1, <2>1, <2>2 DEF IdleInv, Owing, OutOfLine, QueuedListed
  <2>4. HeadOnItsWay'
    <3> SUFFICES ASSUME NEW h \in Runs, FirstWithRoom(pool, cap, place, h), h # r
                 PROVE  OnItsWay(h)'
      BY <1>1, <2>1, <2>2 DEF HeadOnItsWay
    <3>1. OnItsWay(h)
      BY <2>1 DEF IdleInv, HeadOnItsWay
    <3> QED BY <1>1, <2>1, <2>2, <3>1, StillOnItsWay
  <2> QED BY <2>3, <2>4 DEF IdleInv
<1> QED BY <1>2, <1>3, <1>4 DEF Starting

LEMMA IdleCrash ==
    ASSUME ClassInv, Crash
    PROVE  IdleInv'
<1>1. /\ boot' = "down" /\ pool'.line = {} /\ marked' = {} /\ UNCHANGED rstate
      /\ \A r \in Runs : owed'[r] = NoRun
      /\ \A r \in Runs : call'[r] = IF call[r] = "idle" THEN "idle" ELSE "over"
      /\ invalid' \subseteq Runs /\ \A r \in invalid' : rstate[r] = "live"
  BY DEF Crash, NewPool, Live, store
<1>2. \A r \in invalid' : call[r] # "idle"
  BY <1>1 DEF ClassInv, Created
<1> QED BY <1>1, <1>2 DEF IdleInv, Owing, OutOfLine, QueuedListed, HeadOnItsWay

(* When callers wait for Start to return, no Run is canceled or the queue   *)
(* has no bound, and no admission is taken back, no kick is lost: whenever  *)
(* the class has a free token and somebody is in line, the head of the line *)
(* is on its way to ask for it - through refusals, grants past the head,    *)
(* invalid Runs set aside, failed writes and reads, crashes and restarts.   *)
THEOREM NoIdleTokenAlways ==
    /\ ~EarlyCallers /\ (Cancelable = {} \/ MaxQueued = 0)
    /\ Spec /\ []NoTakeBack
    => []NoIdleToken
<1> SUFFICES ASSUME ~EarlyCallers, Cancelable = {} \/ MaxQueued = 0
             PROVE  Spec /\ []NoTakeBack => []NoIdleToken
  OBVIOUS
<1>1. ClassInv /\ MemberInv /\ [Next]_vars => ClassInv' /\ MemberInv'
  BY MemberInvStep
<1>2. ASSUME ClassInv, MemberInv, IdleInv, NoTakeBack, [Next]_vars PROVE IdleInv'
  <2>1. ClassInv'
    BY <1>1, <1>2
  <2>2. ASSUME Tick \/ Rest \/ UNCHANGED vars PROVE IdleInv'
    <3>1. UNCHANGED <<rstate, place, cap, invalid, marked, pool, boot, recs, snap, call,
                      wpc, owed, again, repoke>>
      BY <2>2 DEF Tick, Rest, vars, store, deploy, start, worker
    <3>2. HeadOnItsWay'
      BY <1>2, <3>1 DEF IdleInv, HeadOnItsWay, OnItsWay
    <3> QED BY <1>2, <3>1, <3>2 DEF IdleInv, Owing, OutOfLine, QueuedListed
  <2> QED BY <1>2, <2>1, <2>2, IdleSchedule, IdleCancel, IdleWorker, IdleStart, IdleCrash
          DEF Next
<1>3. ClassInv /\ IdleInv => NoIdleToken
  BY HeadOnItsWayIsNoIdleToken DEF IdleInv
<1> QED BY <1>1, <1>2, <1>3, InitClassInv, InitMemberInv, InitIdleInv, PTL DEF Spec

(* An admission is taken back only when the store refuses the Run: not when *)
(* no two Runs share a slot and no write fails.                             *)
THEOREM NothingTakenBack ==
    /\ ~EarlyCallers /\ ~Faults
    /\ \A q, r \in Runs : Resource[q] = Resource[r] => q = r
    /\ Spec
    => []NoTakeBack
<1> SUFFICES ASSUME ~EarlyCallers, ~Faults,
                    \A q, r \in Runs : Resource[q] = Resource[r] => q = r
             PROVE  Spec => []NoTakeBack
  OBVIOUS
<1>1. ASSUME ClassInv, NoTakeBack, [Next]_vars PROVE NoTakeBack'
  <2>0. TypeOK
    BY <1>1 DEF ClassInv, Good
  <2>1. ASSUME NEW r \in Runs, Schedule(r) PROVE NoTakeBack'
    <3>1. CASE ScheduleCreate(r)
      <4>1. rstate[r] # "live"
        BY <1>1, <3>1 DEF ScheduleCreate, ClassInv, Created
      <4>2. ~Occupied(r)
        BY <4>1 DEF Occupied, Live
      <4> QED BY <1>1, <2>0, <3>1, <4>2 DEF ScheduleCreate, NoTakeBack, TypeOK
    <3>2. CASE ~ScheduleCreate(r)
      BY <1>1, <2>0, <2>1, <3>2 DEF Schedule, ScheduleStamp, ScheduleAdmit, ScheduleCheck,
           ScheduleTakeBack, ScheduleCount, ScheduleDispatch, NoTakeBack, TypeOK
    <3> QED BY <3>1, <3>2
  <2>2. ASSUME NEW r \in Runs, Cancel(r) \/ Worker(r) PROVE UNCHANGED call
    BY <2>2 DEF Cancel, Worker, Gate, GateGone, GateFault, GateInvalid, GateCancel,
         GateSleep, GateAcquire, GatePass, DeliverKick, Reserve, Attempt,
         ReleaseRunClass, Exit, WakeUp
  <2>3. Starting \/ Tick \/ Rest \/ UNCHANGED vars => UNCHANGED call
    BY DEF Starting, StartBegin, StartList, StartSeeded, StartDone, StartSeed,
         StartDispatch, Tick, Rest, vars
  <2>4. Crash => NoTakeBack'
    BY DEF Crash, NoTakeBack
  <2>5. UNCHANGED call => NoTakeBack'
    BY <1>1 DEF NoTakeBack
  <2> QED BY <1>1, <2>1, <2>2, <2>3, <2>4, <2>5 DEF Next
<1>2. Init => NoTakeBack
  BY DEF Init, NoTakeBack
<1>3. ClassInv /\ [Next]_vars => ClassInv'
  BY ClassStep
<1> QED BY <1>1, <1>2, <1>3, InitClassInv, PTL DEF Spec
=============================================================================
