------------------------------ MODULE RunClass ------------------------------
(***************************************************************************)
(* Several Runs of one run class: the Schedule calls that create them, the *)
(* Engine's Start that recovers them, and the workers that take the class  *)
(* token, start, finish and hand it on.  RunLifecycle follows one Run in   *)
(* full; here a Run is only absent, live or terminal, started or not, and  *)
(* the subject is how the pool in memory and the records in the store      *)
(* follow each other while all of these interleave and the Engine crashes. *)
(*                                                                         *)
(* The pool returns kicks, the Runs to wake; a worker carries the one it   *)
(* owes in owed[r] until it dispatches it.  The kick Schedule's Release    *)
(* returns is dropped, as in the code.                                     *)
(***************************************************************************)
EXTENDS RunPool

CONSTANTS Resource,      \* Resource[r]: the mutex slot Run r needs
          Delay,         \* Delay[r]: how far ahead of its creation r may start
          Capacities,    \* the capacities the class may be deployed with
          MaxQueued,     \* RunClass.MaxQueued, 0 for unbounded
          EarlyCallers,  \* may Schedule be called while Start is still running?
          Breakable,     \* Runs a redeployment may make invalid
          Cancelable,    \* Runs somebody may cancel
          Faults,        \* may a store write fail?
          MaxTime, MaxTries, MaxCrashes   \* bounds on the counters

ASSUME ClassAssumption ==
    /\ Delay \in [Runs -> Nat]
    /\ Capacities \subseteq Nat \ {0}
    /\ MaxQueued \in Nat
    /\ EarlyCallers \in BOOLEAN /\ Faults \in BOOLEAN
    /\ Breakable \subseteq Runs /\ Cancelable \subseteq Runs
    /\ MaxTime \in Nat /\ MaxTries \in Nat /\ MaxCrashes \in Nat

VARIABLES
    rstate,   \* the store: "absent", "live" or "terminal"
    started,  \* the store: the Runs whose record has StartedAt
    cancel,   \* the store: the Runs with a cancel request
    place,    \* eligibleSince of every Run that was stamped
    cap,      \* the class's capacity in this deployment
    invalid,  \* live Runs this deployment cannot continue
    marked,   \* Engine.invalid: the invalid Runs already reported
    pool,     \* Engine.runs
    boot,     \* how far Start has come
    recs,     \* Start: records of ListNonterminal not yet seeded / dispatched
    snap,     \* Start: the records listed, and which of them had started
    call,     \* the Schedule call that would create r
    wpc,      \* r's worker
    owed,     \* the kick r's worker has yet to dispatch
    again,    \* r's worker asked to be redispatched
    repoke,   \* Dispatcher.repoke
    now, tries, crashes

store  == <<rstate, started, cancel, place>>
deploy == <<cap, invalid>>
start  == <<boot, recs, snap>>
worker == <<wpc, owed, again, repoke>>
bounds == <<now, tries, crashes>>
vars   == <<store, deploy, marked, pool, start, call, worker, bounds>>

CallStates == {"idle", "admit", "check", "create", "uncounted",
               "takeback", "count", "dispatch", "over"}
WorkerStates == {"none", "asleep", "queued", "reserve", "attempt",
                 "release", "exit"}

TypeOK ==
    /\ rstate \in [Runs -> {"absent", "live", "terminal"}]
    /\ started \subseteq Runs /\ cancel \subseteq Runs
    /\ place \in [Runs -> Nat]
    /\ cap \in Capacities
    /\ invalid \subseteq Runs /\ marked \subseteq Runs
    /\ pool \in PoolType
    /\ boot \in {"down", "list", "seed", "poke", "up"}
    /\ recs \subseteq Runs
    /\ snap \in [listed : SUBSET Runs, begun : SUBSET Runs]
    /\ call \in [Runs -> CallStates]
    /\ wpc \in [Runs -> WorkerStates]
    /\ owed \in [Runs -> Runs \cup {NoRun}]
    /\ again \subseteq Runs /\ repoke \subseteq Runs
    /\ now \in Nat /\ tries \in [Runs -> Nat] /\ crashes \in Nat

Live == {r \in Runs : rstate[r] = "live"}
Occupied(r) == \E q \in Live : Resource[q] = Resource[r]
Eligible(r) == place[r] <= now

Init ==
    /\ rstate = [r \in Runs |-> "absent"]
    /\ started = {} /\ cancel = {}
    /\ place = [r \in Runs |-> 0]
    /\ cap \in Capacities
    /\ invalid = {} /\ marked = {}
    /\ pool = NewPool
    /\ boot = "down" /\ recs = {} /\ snap = [listed |-> {}, begun |-> {}]
    /\ call = [r \in Runs |-> "idle"]
    /\ wpc = [r \in Runs |-> "none"]
    /\ owed = [r \in Runs |-> NoRun]
    /\ again = {} /\ repoke = {}
    /\ now = 0 /\ tries = [r \in Runs |-> 0] /\ crashes = 0

-----------------------------------------------------------------------------
(* Dispatcher.Dispatch(r, 0): a worker for r, or a re-poke of the one it has. *)
Dispatch(r) ==
    /\ wpc' = IF wpc[r] = "none" THEN [wpc EXCEPT ![r] = "queued"] ELSE wpc
    /\ repoke' = IF wpc[r] = "none" THEN repoke ELSE repoke \cup {r}

(***************************************************************************)
(* Schedule.  Every r is a fresh RunID, so it has one call.                *)
(***************************************************************************)
Open == boot = "up" \/ (EarlyCallers /\ boot # "down")

(* The record's times are read from the clock before anything is admitted; *)
(* MaxTime is late enough for every start time to come.                    *)
ScheduleStamp(r) ==
    /\ Open /\ call[r] = "idle" /\ now + Delay[r] <= MaxTime
    /\ place' = [place EXCEPT ![r] = now + Delay[r]]
    /\ call' = [call EXCEPT ![r] = "admit"]
    /\ UNCHANGED <<rstate, started, cancel, deploy, marked, pool, start, worker, bounds>>

ScheduleAdmit(r) ==
    /\ call[r] = "admit"
    /\ IF Admits(pool, r, MaxQueued)
       THEN pool' = Admit(pool, r) /\ call' = [call EXCEPT ![r] = "create"]
       ELSE pool' = pool /\ call' = [call EXCEPT ![r] = "check"]
    /\ UNCHANGED <<store, deploy, marked, start, worker, bounds>>

(* Refused: with the slot free it is RunClassFullError (and a failed read  *)
(* ends the call too); with the slot occupied the call goes on, uncounted. *)
ScheduleCheck(r) ==
    /\ call[r] = "check"
    /\ \/ Occupied(r) /\ call' = [call EXCEPT ![r] = "uncounted"]
       \/ (~Occupied(r) \/ Faults) /\ call' = [call EXCEPT ![r] = "over"]
    /\ UNCHANGED <<store, deploy, marked, pool, start, worker, bounds>>

(* CreateRun: created unless the slot is taken (or the write fails). *)
ScheduleCreate(r) ==
    /\ call[r] \in {"create", "uncounted"}
    /\ \/ /\ ~Occupied(r)
          /\ rstate' = [rstate EXCEPT ![r] = "live"]
          /\ call' = [call EXCEPT ![r] =
                        IF @ = "create" THEN "dispatch" ELSE "count"]
       \/ /\ Occupied(r) \/ Faults
          /\ rstate' = rstate
          /\ call' = [call EXCEPT ![r] =
                        IF @ = "create" THEN "takeback" ELSE "over"]
    /\ UNCHANGED <<started, cancel, place, deploy, marked, pool, start, worker, bounds>>

\* Seeded fault: an admission that created nothing is kept.
ScheduleTakeBackForgotten(r) ==
    /\ call[r] = "takeback"
    /\ call' = [call EXCEPT ![r] = "over"]
    /\ UNCHANGED <<store, deploy, marked, pool, start, worker, bounds>>

(* The admission is taken back; the kick Release returns is not delivered. *)
ScheduleTakeBack(r) ==
    /\ call[r] = "takeback"
    /\ pool' = Release(pool, r)
    /\ call' = [call EXCEPT ![r] = "over"]
    /\ UNCHANGED <<store, deploy, marked, start, worker, bounds>>

ScheduleCount(r) ==
    /\ call[r] = "count"
    /\ pool' = Admit(pool, r)
    /\ call' = [call EXCEPT ![r] = "dispatch"]
    /\ UNCHANGED <<store, deploy, marked, start, worker, bounds>>

ScheduleDispatch(r) ==
    /\ call[r] = "dispatch"
    /\ call' = [call EXCEPT ![r] = "over"]
    /\ Dispatch(r)
    /\ UNCHANGED <<store, deploy, marked, pool, start, owed, again, bounds>>

Schedule(r) == \/ ScheduleStamp(r) \/ ScheduleAdmit(r) \/ ScheduleCheck(r)
               \/ ScheduleCreate(r) \/ ScheduleTakeBack(r)
               \/ ScheduleCount(r) \/ ScheduleDispatch(r)

(* Run.Cancel: the request is stored, then the Run is woken and dispatched. *)
Cancel(r) ==
    /\ Open /\ r \in (Cancelable \cap Live) \ cancel
    /\ cancel' = cancel \cup {r}
    /\ IF wpc[r] = "asleep"
       THEN wpc' = [wpc EXCEPT ![r] = "queued"] /\ repoke' = repoke \cup {r}
       ELSE Dispatch(r)
    /\ UNCHANGED <<rstate, started, place, deploy, marked, pool, start, call,
                   owed, again, bounds>>

-----------------------------------------------------------------------------
(***************************************************************************)
(* processRun, one pass of r's worker up to the class gate.  The record is *)
(* read at the start of the pass; only this worker starts or completes r,  *)
(* so reading it and acting on it are one step.                            *)
(***************************************************************************)
Leave(r, redo) ==
    /\ wpc' = [wpc EXCEPT ![r] = "exit"]
    /\ again' = IF redo THEN again \cup {r} ELSE again \ {r}

(* Not found (a kicked placeholder) or already terminal: nothing to do. *)
GateGone(r) ==
    /\ wpc[r] = "queued" /\ rstate[r] # "live"
    /\ Leave(r, FALSE)
    /\ UNCHANGED <<store, deploy, marked, pool, start, call, owed, repoke, bounds>>

(* The store read failed: another pass in a second. *)
GateFault(r) ==
    /\ wpc[r] = "queued" /\ Faults /\ tries[r] < MaxTries
    /\ tries' = [tries EXCEPT ![r] = @ + 1]
    /\ Leave(r, TRUE)
    /\ UNCHANGED <<store, deploy, marked, pool, start, call, owed, repoke, now, crashes>>

(* markInvalid: reported once; the report sets r aside and owes a kick. *)
GateInvalid(r) ==
    /\ wpc[r] = "queued" /\ r \in Live \cap invalid
    /\ IF r \in marked
       THEN UNCHANGED <<marked, pool, owed>>
       ELSE /\ marked' = marked \cup {r}
            /\ pool' = Clear(pool, r)
            /\ owed' = [owed EXCEPT ![r] = ClearKick(pool, r, cap, place)]
    /\ Leave(r, FALSE)
    /\ UNCHANGED <<store, deploy, start, call, repoke, bounds>>

(* A pending cancel resolves the Run with or without a token: nothing      *)
(* started, nothing unwinds, and the next commit is the terminal one.      *)
GateCancel(r) ==
    /\ wpc[r] = "queued" /\ r \in (Live \cap cancel) \ invalid
    /\ \/ /\ rstate' = [rstate EXCEPT ![r] = "terminal"]
          /\ wpc' = [wpc EXCEPT ![r] = "release"] /\ again' = again \ {r}
       \/ /\ Faults /\ tries[r] < MaxTries /\ rstate' = rstate
          /\ Leave(r, TRUE)
    /\ tries' = IF rstate' = rstate THEN [tries EXCEPT ![r] = @ + 1] ELSE tries
    /\ UNCHANGED <<started, cancel, place, deploy, marked, pool, start, call,
                   owed, repoke, now, crashes>>

Runnable(r) == wpc[r] = "queued" /\ r \in (Live \ invalid) \ cancel

(* retryGate: not eligible yet, the worker sleeps until it is. *)
GateSleep(r) ==
    /\ Runnable(r) /\ r \notin started /\ ~Eligible(r)
    /\ Leave(r, TRUE)
    /\ UNCHANGED <<store, deploy, marked, pool, start, call, owed, repoke, bounds>>

(* acquireRunClass of an unstarted Run: granted, or left in line. *)
GateAcquire(r) ==
    /\ Runnable(r) /\ r \notin started /\ Eligible(r)
    /\ pool' = Acquire(pool, r, cap, place)
    /\ owed' = [owed EXCEPT ![r] = AcquireKick(pool, r, cap, place)]
    /\ IF Granted(pool, r, cap, place)
       THEN wpc' = [wpc EXCEPT ![r] = "reserve"] /\ again' = again
       ELSE Leave(r, FALSE)
    /\ UNCHANGED <<store, deploy, marked, start, call, repoke, bounds>>

(* acquireRunClass of a started Run: it holds already. *)
GatePass(r) ==
    /\ Runnable(r) /\ r \in started
    /\ wpc' = [wpc EXCEPT ![r] = "attempt"]
    /\ UNCHANGED <<store, deploy, marked, pool, start, call, owed, again, repoke, bounds>>

Gate(r) == \/ GateGone(r) \/ GateFault(r) \/ GateInvalid(r) \/ GateCancel(r)
           \/ GateSleep(r) \/ GateAcquire(r) \/ GatePass(r)

(* The kick is dispatched before the worker does anything else. *)
DeliverKick(r) ==
    /\ owed[r] # NoRun
    /\ owed' = [owed EXCEPT ![r] = NoRun]
    /\ Dispatch(owed[r])
    /\ UNCHANGED <<store, deploy, marked, pool, start, call, again, bounds>>

(* The first reservation commits StartedAt, or the write fails. *)
Reserve(r) ==
    /\ wpc[r] = "reserve" /\ owed[r] = NoRun
    /\ \/ /\ started' = started \cup {r} /\ tries' = tries
          /\ wpc' = [wpc EXCEPT ![r] = "attempt"] /\ again' = again
       \/ /\ Faults /\ tries[r] < MaxTries
          /\ started' = started /\ tries' = [tries EXCEPT ![r] = @ + 1]
          /\ Leave(r, TRUE)
    /\ UNCHANGED <<rstate, cancel, place, deploy, marked, pool, start, call,
                   owed, repoke, now, crashes>>

(* The rest of a started Run's life, to its terminal commit; a retry, a    *)
(* park or a throttle ends the pass with the Run live and the token held.  *)
Attempt(r) ==
    /\ wpc[r] = "attempt"
    /\ \/ /\ rstate' = [rstate EXCEPT ![r] = "terminal"] /\ tries' = tries
          /\ wpc' = [wpc EXCEPT ![r] = "release"] /\ again' = again \ {r}
       \/ /\ tries[r] < MaxTries
          /\ rstate' = rstate /\ tries' = [tries EXCEPT ![r] = @ + 1]
          /\ Leave(r, TRUE)
    /\ UNCHANGED <<started, cancel, place, deploy, marked, pool, start, call,
                   owed, repoke, now, crashes>>

\* Seeded fault: the kick of a release is not delivered.
ReleaseRunClassNoKick(r) ==
    /\ wpc[r] = "release"
    /\ pool' = Release(pool, r)
    /\ Leave(r, FALSE)
    /\ UNCHANGED <<store, deploy, marked, start, call, owed, repoke, bounds>>

(* completeRun: membership ends, the head is owed a kick. *)
ReleaseRunClass(r) ==
    /\ wpc[r] = "release"
    /\ pool' = Release(pool, r)
    /\ owed' = [owed EXCEPT ![r] = ReleaseKick(pool, r, cap, place)]
    /\ Leave(r, FALSE)
    /\ UNCHANGED <<store, deploy, marked, start, call, repoke, bounds>>

(* The worker ends: a re-poke redispatches at once, a request with its delay. *)
Exit(r) ==
    /\ wpc[r] = "exit" /\ owed[r] = NoRun
    /\ wpc' = [wpc EXCEPT ![r] = IF r \in repoke THEN "queued"
                                 ELSE IF r \in again THEN "asleep" ELSE "none"]
    /\ repoke' = repoke \ {r} /\ again' = again \ {r}
    /\ UNCHANGED <<store, deploy, marked, pool, start, call, owed, bounds>>

(* A delayed dispatch comes due.  How long a delay is is left open: a Run  *)
(* woken before its start time is put to sleep again by the gate.          *)
WakeUp(r) ==
    /\ wpc[r] = "asleep"
    /\ wpc' = [wpc EXCEPT ![r] = "queued"]
    /\ UNCHANGED <<store, deploy, marked, pool, start, call, owed, again, repoke, bounds>>

Worker(r) == \/ Gate(r) \/ DeliverKick(r) \/ Reserve(r) \/ Attempt(r)
             \/ ReleaseRunClass(r) \/ Exit(r) \/ WakeUp(r)

-----------------------------------------------------------------------------
(***************************************************************************)
(* Start: the Engine is open to callers as soon as it is marked started;   *)
(* then it lists, seeds the pool record by record, and dispatches.         *)
(***************************************************************************)
StartBegin ==
    /\ boot = "down"
    /\ boot' = "list"
    /\ UNCHANGED <<store, deploy, marked, pool, recs, snap, call, worker, bounds>>

StartList ==
    /\ boot = "list"
    /\ boot' = "seed" /\ recs' = Live
    /\ snap' = [listed |-> Live, begun |-> Live \cap started]
    /\ UNCHANGED <<store, deploy, marked, pool, call, worker, bounds>>

\* Seeded fault: recovery queues the started Runs again.
StartSeedRequeues(r) ==
    /\ boot = "seed" /\ r \in recs
    /\ recs' = recs \ {r}
    /\ pool' = Admit(pool, r)
    /\ UNCHANGED <<store, deploy, marked, boot, snap, call, worker, bounds>>

StartSeed(r) ==
    /\ boot = "seed" /\ r \in recs
    /\ recs' = recs \ {r}
    /\ pool' = IF r \in snap.begun THEN Hold(pool, r) ELSE Admit(pool, r)
    /\ UNCHANGED <<store, deploy, marked, boot, snap, call, worker, bounds>>

StartSeeded ==
    /\ boot = "seed" /\ recs = {}
    /\ boot' = "poke" /\ recs' = snap.listed
    /\ UNCHANGED <<store, deploy, marked, pool, snap, call, worker, bounds>>

\* Seeded fault: only the Runs in line are dispatched.
StartDispatchQueuedOnly(r) ==
    /\ boot = "poke" /\ r \in recs
    /\ recs' = recs \ {r}
    /\ IF r \in snap.begun THEN UNCHANGED <<wpc, repoke>> ELSE Dispatch(r)
    /\ UNCHANGED <<store, deploy, marked, pool, boot, snap, call, owed, again, bounds>>

(* A started Run may have an unresolved attempt: dispatched after a delay. *)
StartDispatch(r) ==
    /\ boot = "poke" /\ r \in recs
    /\ recs' = recs \ {r}
    /\ \/ Dispatch(r)
       \/ /\ r \in snap.begun /\ wpc[r] = "none"
          /\ wpc' = [wpc EXCEPT ![r] = "asleep"] /\ repoke' = repoke
    /\ UNCHANGED <<store, deploy, marked, pool, boot, snap, call, owed, again, bounds>>

StartDone ==
    /\ boot = "poke" /\ recs = {}
    /\ boot' = "up" /\ snap' = [listed |-> {}, begun |-> {}]
    /\ UNCHANGED <<store, deploy, marked, pool, recs, call, worker, bounds>>

(* The process ends and the next deployment is started: only the store is  *)
(* left.  Calls under way are gone; capacity and validity may change.      *)
Crash ==
    /\ boot # "down" /\ crashes < MaxCrashes
    /\ crashes' = crashes + 1
    /\ cap' \in Capacities
    /\ invalid' \in SUBSET (Breakable \cap Live)
    /\ marked' = {} /\ pool' = NewPool
    /\ boot' = "down" /\ recs' = {} /\ snap' = [listed |-> {}, begun |-> {}]
    /\ call' = [r \in Runs |-> IF call[r] = "idle" THEN "idle" ELSE "over"]
    /\ wpc' = [r \in Runs |-> "none"] /\ owed' = [r \in Runs |-> NoRun]
    /\ again' = {} /\ repoke' = {}
    /\ UNCHANGED <<store, now, tries>>

Tick ==
    /\ now < MaxTime /\ now' = now + 1
    /\ UNCHANGED <<store, deploy, marked, pool, start, call, worker, tries, crashes>>

Starting == \/ StartBegin \/ StartList \/ StartSeeded \/ StartDone
            \/ \E r \in Runs : StartSeed(r) \/ StartDispatch(r)

(* Everything that may happen is over: the only state a run may rest in. *)
Rest == /\ boot = "up" /\ now = MaxTime
        /\ \A r \in Runs : /\ wpc[r] = "none"
                           /\ call[r] = "over" \/ (call[r] = "idle" /\ Delay[r] > 0)
        /\ UNCHANGED vars

Next == \/ \E r \in Runs : Schedule(r) \/ Cancel(r) \/ Worker(r)
        \/ Starting \/ Crash \/ Tick \/ Rest

Spec == Init /\ [][Next]_vars

(***************************************************************************)
(* Fairness.  Start, a Schedule call under way and a dispatched worker run *)
(* to their end (Go schedules every runnable goroutine, timers fire, and   *)
(* an attempt that may be retried MaxTries times ends); nobody is obliged  *)
(* to call Schedule or Cancel, and nothing is assumed about crashes.       *)
(***************************************************************************)
FairSpec == /\ Spec /\ WF_vars(Starting) /\ WF_vars(Tick)
            /\ \A r \in Runs : /\ WF_vars(Schedule(r) /\ call[r] # "idle")
                               /\ WF_vars(Worker(r))

-----------------------------------------------------------------------------
(***************************************************************************)
(* Properties.                                                             *)
(***************************************************************************)

(* runpool: inUse counts the holders, a member is in line or set aside and *)
(* never both, a holder is not pending and only members in line are parked *)
(* - after any interleaving of Admit, Acquire, Hold, Release and Clear.    *)
PoolConsistent == PoolOK(pool)

(* Invariant 111: once Start has seeded the pool, every started Run that   *)
(* is not terminal holds a token - through retries, faults and restarts -  *)
(* so counting holders counts the Runs the class is there to bound.        *)
StartedHold == boot \in {"poke", "up"} => Live \cap started \subseteq pool.holders

(* Invariants 111 and 113: whenever a Run starts, the started nonterminal  *)
(* Runs, it included, fit the capacity of this deployment, although a      *)
(* restart with a lowered capacity re-holds more than that.                *)
StartsWithinCapacity ==
    [][\A r \in started' \ started :
            Cardinality({q \in started' : rstate'[q] = "live"}) <= cap]_vars

(* releaseRunClass ends membership at terminality: the pool's members are  *)
(* live Runs, Runs whose Schedule call is still under way, and Runs whose  *)
(* worker is about to release them.  A member that is none of these would  *)
(* keep its token or its place until the process ends.                     *)
MembersLive ==
    \A r \in pool.holders \cup pool.pending :
        \/ r \in Live
        \/ call[r] \in {"create", "takeback"}
        \/ wpc[r] = "release"

(* A kick is never lost: when the class has a free token and somebody is   *)
(* in line, then the head of the line is on its way to ask for it.  It has *)
(* a worker that will make another pass, or is owed a kick, or the call    *)
(* that created it has yet to dispatch it, or Start has.                   *)
OnItsWay(r) == \/ wpc[r] \notin {"none", "exit"}
               \/ wpc[r] = "exit" /\ r \in again \cup repoke
               \/ \E q \in Runs : owed[q] = r
               \/ call[r] \in {"create", "dispatch", "takeback"}
               \/ boot = "poke" /\ r \in recs
NoIdleToken ==
    boot \in {"poke", "up"} /\ Head(pool, cap, place) # NoRun
        => OnItsWay(Head(pool, cap, place))

(* A Run created in the store is started by a token or resolved by a       *)
(* cancel, and reaches terminality, whatever order the others ask in and   *)
(* whoever is set aside as invalid, unless an invalid Run had started: it  *)
(* keeps its token for the deployment that will continue it.               *)
EveryRunEnds ==
    \A r \in Runs : rstate[r] = "live"
        ~> rstate[r] = "terminal" \/ r \in invalid \/ invalid \cap started # {}
=============================================================================
