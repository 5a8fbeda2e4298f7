----------------------------- MODULE TokenClass -----------------------------
(***************************************************************************)
(* Concurrency classes and the dispatcher: Runs whose Steps need a token per *)
(* attempt, the goroutines that carry their workers, and the cancels that    *)
(* wake them.  A Run's record is reduced to how many Steps have succeeded    *)
(* and not been unwound; parks, handler violations, shutdown and a failed    *)
(* terminal commit are RunLifecycle's subject, run classes RunClass's.       *)
(*                                                                         *)
(* internal/dispatcher in full: a key has at most one worker (Dispatcher.   *)
(* active is wpc[r] # "none"), but a goroutine that has given up its key     *)
(* still has its own redispatch to make; those are counted in late.          *)
(***************************************************************************)
EXTENDS TokenPool

CONSTANTS StepsOf,      \* the concurrency class of each Step of each Run
          Delayed,      \* Runs scheduled to start later
          Recovered,    \* Runs an earlier Engine left with an attempt unresolved
          Cancelable,
          Concurrency,  \* workers at once; 0 is unbounded
          MaxTries      \* bound on each Run's retries and failed commits

ASSUME StepsAssumption == StepsOf \in [Runs -> Seq(Classes \cup {NoClass})]
ASSUME WorkAssumption ==
    /\ Delayed \subseteq Runs /\ Recovered \subseteq Runs /\ Cancelable \subseteq Runs
    /\ Concurrency \in Nat /\ MaxTries \in [Runs -> Nat]

VARIABLES
    rec,     \* the store
    pool,    \* Engine.pool
    wpc,     \* where r's worker is
    again,   \* the Runs whose pass has returned and asked for a redispatch
    held,    \* the class whose token the pass holds
    owed,    \* kicks the pass has yet to dispatch
    repoke,  \* Dispatcher.repoke
    signal,  \* Dispatcher.wakes
    late,    \* redispatches under way by goroutines that gave up r
    call,    \* requestCancel of r
    tries

pass == <<again, held, owed>>
vars == <<rec, pool, wpc, pass, repoke, signal, late, call, tries>>

Phases == {"forward", "unwind"}
InRun == {"read", "gate", "acquire", "attempt", "clear", "left"}

TypeOK ==
    /\ rec \in [Runs -> [state : {"absent", "live", "terminal"}, phase : Phases,
                         done : Nat, due : BOOLEAN, cancel : BOOLEAN]]
    /\ \A r \in Runs : rec[r].done <= Len(StepsOf[r])
    /\ pool \in PoolType
    /\ wpc \in [Runs -> {"none", "arming", "waiting", "sem"} \cup InRun]
    /\ again \subseteq Runs
    /\ held \in [Runs -> Limited \cup {NoClass}]
    /\ owed \in [Runs -> Seq(Runs)]
    /\ repoke \subseteq Runs
    /\ signal \in [Runs -> {"none", "armed", "fired"}]
    /\ late \in [Runs -> [now : Nat, later : Nat]]
    /\ call \in [Runs -> {"idle", "wake", "dispatch", "over"}]
    /\ tries \in [Runs -> Nat]

NoRecord == [state |-> "absent", phase |-> "forward", done |-> 0, due |-> TRUE, cancel |-> FALSE]

Init ==
    /\ rec = [r \in Runs |-> NoRecord]
    /\ pool = NewPool
    /\ wpc = [r \in Runs |-> "none"] /\ again = {}
    /\ held = [r \in Runs |-> NoClass] /\ owed = [r \in Runs |-> <<>>]
    /\ repoke = {} /\ signal = [r \in Runs |-> "none"]
    /\ late = [r \in Runs |-> [now |-> 0, later |-> 0]]
    /\ call = [r \in Runs |-> "idle"] /\ tries = [r \in Runs |-> 0]
-----------------------------------------------------------------------------
(* The dispatcher.                                                          *)

\* Dispatch, up to the unlock of Dispatcher.mu: a worker, or a re-poke of the
\* one there is.  The wake of a delayed worker is armed after that.
Dispatch(r, delayed) ==
    IF wpc[r] = "none"
      THEN /\ wpc' = [wpc EXCEPT ![r] = IF delayed THEN "arming" ELSE "sem"]
           /\ UNCHANGED repoke
      ELSE repoke' = repoke \cup {r} /\ UNCHANGED wpc

Arm(r) ==
    /\ wpc[r] = "arming"
    /\ wpc' = [wpc EXCEPT ![r] = "waiting"]
    /\ signal' = [signal EXCEPT ![r] = "armed"]
    /\ UNCHANGED <<rec, pool, pass, repoke, late, call, tries>>

WaitOver(r) ==
    /\ wpc[r] = "waiting"
    /\ wpc' = [wpc EXCEPT ![r] = "sem"]
    /\ signal' = [signal EXCEPT ![r] = "none"]
    /\ UNCHANGED <<rec, pool, pass, repoke, late, call, tries>>

\* The delay passes, however long it is (the gate puts a Run that is not due
\* to sleep again), or a wake cuts it short.
TimerFires(r) == signal[r] = "armed" /\ WaitOver(r)
Woken(r) == signal[r] = "fired" /\ WaitOver(r)

\* A slot of the semaphore; processRun begins.
Enter(r) ==
    /\ wpc[r] = "sem"
    /\ Concurrency > 0 => Cardinality({q \in Runs : wpc[q] \in InRun}) < Concurrency
    /\ wpc' = [wpc EXCEPT ![r] = "read"]
    /\ UNCHANGED <<rec, pool, pass, repoke, signal, late, call, tries>>

\* Seeded fault: only a re-poke leads to a redispatch.
ClearActiveRepokeOnly(r) ==
    /\ wpc[r] = "left"
    /\ wpc' = [wpc EXCEPT ![r] = "none"]
    /\ repoke' = repoke \ {r}
    /\ late' = IF r \in repoke THEN [late EXCEPT ![r].now = @ + 1] ELSE late
    /\ again' = again \ {r}
    /\ UNCHANGED <<rec, pool, held, owed, signal, call, tries>>

\* processRun has returned: the slot and the key are given up.  A re-poke
\* overrides the delay the pass asked for.
ClearActive(r) ==
    /\ wpc[r] = "left"
    /\ wpc' = [wpc EXCEPT ![r] = "none"]
    /\ repoke' = repoke \ {r}
    /\ late' = IF r \in repoke THEN [late EXCEPT ![r].now = @ + 1]
               ELSE IF r \in again THEN [late EXCEPT ![r].later = @ + 1]
               ELSE late
    /\ again' = again \ {r}
    /\ UNCHANGED <<rec, pool, held, owed, signal, call, tries>>

\* The goroutine's last act, by when somebody else may have dispatched r.
Redispatch(r) ==
    /\ \/ late[r].now > 0 /\ late' = [late EXCEPT ![r].now = @ - 1] /\ Dispatch(r, FALSE)
       \/ late[r].later > 0 /\ late' = [late EXCEPT ![r].later = @ - 1] /\ Dispatch(r, TRUE)
    /\ UNCHANGED <<rec, pool, pass, signal, call, tries>>
-----------------------------------------------------------------------------
(* processRun.                                                              *)

Over(r) == IF rec[r].phase = "forward" THEN rec[r].done = Len(StepsOf[r]) ELSE rec[r].done = 0

\* The class of the Step the ledger names next.
ClassOf(r) == StepsOf[r][IF rec[r].phase = "forward" THEN rec[r].done + 1 ELSE rec[r].done]

\* The pass returns, wanting to be redispatched after a delay or not at all.
Leave(r, redo) ==
    /\ wpc' = [wpc EXCEPT ![r] = "left"]
    /\ again' = IF redo THEN again \cup {r} ELSE again

\* A failed store call asks for a redispatch in a second.
Fault(r) ==
    /\ tries[r] < MaxTries[r] /\ tries' = [tries EXCEPT ![r] = @ + 1]
    /\ UNCHANGED rec

\* The record is read at the start of a pass; afterwards it is carried, and
\* read again when a cancel has marked the Run dirty.
ReadFails(r) ==
    /\ \/ wpc[r] = "read"
       \/ wpc[r] = "gate" /\ rec[r].cancel
    /\ Fault(r) /\ Leave(r, TRUE)
    /\ UNCHANGED <<pool, held, owed, repoke, signal, late, call>>

\* The Run was terminal, or every Step is done and the outcome is committed; of
\* a terminal record nothing else matters here.
GateTerminal(r) ==
    /\ wpc[r] \in {"read", "gate"}
    /\ rec[r].state = "terminal" \/ Over(r)
    /\ rec' = [rec EXCEPT ![r] = [NoRecord EXCEPT !.state = "terminal"]]
    /\ Leave(r, FALSE)
    /\ UNCHANGED <<pool, held, owed, repoke, signal, late, call, tries>>

Working(r) == rec[r].state = "live" /\ ~Over(r)
Canceling(r) == rec[r].phase = "forward" /\ rec[r].cancel

\* cancelOperation without an attempt; the park is dropped after the commit.
GateCancel(r) ==
    /\ wpc[r] \in {"read", "gate"} /\ Working(r) /\ Canceling(r)
    /\ \/ /\ rec' = [rec EXCEPT ![r].phase = "unwind", ![r].due = TRUE]
          /\ wpc' = [wpc EXCEPT ![r] = "clear"]
          /\ UNCHANGED <<again, tries>>
       \/ Fault(r) /\ Leave(r, TRUE)
    /\ UNCHANGED <<pool, held, owed, repoke, signal, late, call>>

\* retryGate.
GateRetry(r) ==
    /\ wpc[r] \in {"read", "gate"} /\ Working(r) /\ ~Canceling(r)
    /\ IF rec[r].due THEN wpc' = [wpc EXCEPT ![r] = "acquire"] /\ UNCHANGED again
       ELSE Leave(r, TRUE)
    /\ UNCHANGED <<rec, pool, held, owed, repoke, signal, late, call, tries>>

\* acquireClass: a token, none needed, or throttled with the worker released.
AcquireClass(r) ==
    LET k == ClassOf(r)
    IN  /\ wpc[r] = "acquire"
        /\ pool' = Acquire(pool, k, r)
        /\ owed' = [owed EXCEPT ![r] = AcquireKicks(pool, k, r)]
        /\ IF Granted(pool, k)
             THEN /\ wpc' = [wpc EXCEPT ![r] = "attempt"] /\ UNCHANGED again
                  /\ held' = [held EXCEPT ![r] = IF k \in Limited THEN k ELSE NoClass]
             ELSE Leave(r, FALSE) /\ UNCHANGED held
        /\ UNCHANGED <<rec, repoke, signal, late, call, tries>>

\* Kicks are dispatched before the pass does anything else.
DeliverKick(r) ==
    /\ owed[r] # <<>>
    /\ owed' = [owed EXCEPT ![r] = Tail(@)]
    /\ Dispatch(Head(owed[r]), FALSE)
    /\ UNCHANGED <<rec, pool, again, held, signal, late, call, tries>>

\* Seeded fault: an attempt that will be retried keeps its token.
ReleaseClassDoneOnly(r) ==
    /\ IF held[r] = NoClass \/ r \in again' THEN UNCHANGED <<pool, owed>>
       ELSE /\ pool' = Release(pool, held[r])
            /\ owed' = [owed EXCEPT ![r] = ReleaseKicks(pool, held[r])]
    /\ held' = [held EXCEPT ![r] = NoClass]

\* releaseClass, whatever the attempt came to.
ReleaseClass(r) ==
    /\ IF held[r] = NoClass THEN UNCHANGED <<pool, owed>>
       ELSE /\ pool' = Release(pool, held[r])
            /\ owed' = [owed EXCEPT ![r] = ReleaseKicks(pool, held[r])]
    /\ held' = [held EXCEPT ![r] = NoClass]

\* Seeded fault: an unwind counts as another Step done.
ResolvedUp(r) == rec[r].done + 1

\* One Step more has succeeded, or one fewer is left to unwind (a failed unwind
\* is resolved too).
Resolved(r) == IF rec[r].phase = "forward" THEN rec[r].done + 1 ELSE rec[r].done - 1

Round(r) == wpc' = [wpc EXCEPT ![r] = "gate"] /\ UNCHANGED again

\* runForward and runUnwind, from the reservation to the commit, and the token's
\* return: the progress an attempt commits is read by nobody but this worker, so
\* the two are one step.  A forward attempt that a cancel cut succeeds or is
\* resolved as canceled; it is not parked, so its clearClassWait does nothing.
Attempt(r) ==
    /\ wpc[r] = "attempt"
    /\ \/ /\ rec' = [rec EXCEPT ![r].done = Resolved(r)]
          /\ Round(r) /\ ReleaseClass(r) /\ UNCHANGED tries
       \/ /\ rec[r].phase = "forward"
          /\ rec' = [rec EXCEPT ![r].phase = "unwind"]
          /\ Round(r) /\ ReleaseClass(r) /\ UNCHANGED tries
       \/ /\ ~Canceling(r) /\ tries[r] < MaxTries[r]
          /\ rec' = [rec EXCEPT ![r].due = FALSE]
          /\ tries' = [tries EXCEPT ![r] = @ + 1] /\ Leave(r, TRUE) /\ ReleaseClass(r)
       \/ Fault(r) /\ Leave(r, TRUE) /\ ReleaseClass(r)
    /\ UNCHANGED <<repoke, signal, late, call>>

\* Seeded fault: the park of a canceled Run is kept.
ClearClassWaitForgotten(r) ==
    /\ wpc[r] = "clear"
    /\ wpc' = [wpc EXCEPT ![r] = "gate"]
    /\ UNCHANGED <<rec, pool, pass, repoke, signal, late, call, tries>>

\* clearClassWait: a Run canceled while throttled leaves the line.
ClearClassWait(r) ==
    /\ wpc[r] = "clear"
    /\ pool' = Unpark(pool, r)
    /\ owed' = [owed EXCEPT ![r] = UnparkKicks(pool, r)]
    /\ wpc' = [wpc EXCEPT ![r] = "gate"]
    /\ UNCHANGED <<rec, again, held, repoke, signal, late, call, tries>>

Worker(r) ==
    \/ Arm(r) \/ TimerFires(r) \/ Woken(r) \/ Enter(r) \/ Redispatch(r)
    \/ DeliverKick(r)
    \/ /\ owed[r] = <<>>
       /\ \/ ClearActive(r) \/ ReadFails(r) \/ GateTerminal(r) \/ GateCancel(r) \/ GateRetry(r)
          \/ AcquireClass(r) \/ Attempt(r) \/ ClearClassWait(r)
-----------------------------------------------------------------------------
(* Callers and time.                                                        *)

\* Schedule creates a Run, perhaps for later, and dispatches it at once; Start
\* dispatches a Run with an unresolved attempt after the recovery backoff.
Begin(r) ==
    /\ rec[r].state = "absent"
    /\ IF r \in Recovered
         THEN \E done \in 0..Len(StepsOf[r]), phase \in Phases :
                /\ IF phase = "forward" THEN done < Len(StepsOf[r]) ELSE done > 0
                /\ rec' = [rec EXCEPT ![r] = [@ EXCEPT !.state = "live", !.done = done,
                                                       !.phase = phase]]
         ELSE rec' = [rec EXCEPT ![r].state = "live", ![r].due = r \notin Delayed]
    /\ Dispatch(r, r \in Recovered)
    /\ UNCHANGED <<pool, pass, signal, late, call, tries>>

\* requestCancel: the request, with its mark and its preemption, is accepted;
\* then the delay of a waiting worker is cut; then the Run is dispatched.
CancelRequest(r) ==
    /\ r \in Cancelable /\ call[r] = "idle" /\ rec[r].state = "live"
    /\ rec' = [rec EXCEPT ![r].cancel = TRUE]
    /\ call' = [call EXCEPT ![r] = "wake"]
    /\ UNCHANGED <<pool, wpc, pass, repoke, signal, late, tries>>

CancelWake(r) ==
    /\ call[r] = "wake"
    /\ signal' = [signal EXCEPT ![r] = IF @ = "armed" THEN "fired" ELSE @]
    /\ call' = [call EXCEPT ![r] = "dispatch"]
    /\ UNCHANGED <<rec, pool, wpc, pass, repoke, late, tries>>

CancelDispatch(r) ==
    /\ call[r] = "dispatch"
    /\ call' = [call EXCEPT ![r] = "over"]
    /\ Dispatch(r, FALSE)
    /\ UNCHANGED <<rec, pool, pass, signal, late, tries>>

Canceler(r) == CancelWake(r) \/ CancelDispatch(r)

\* NextAttemptAt passes.
ComesDue(r) ==
    /\ ~rec[r].due /\ rec' = [rec EXCEPT ![r].due = TRUE]
    /\ UNCHANGED <<pool, wpc, pass, repoke, signal, late, call, tries>>

\* Everything that was begun is over.
Rest ==
    /\ \A r \in Runs : /\ wpc[r] = "none" /\ late[r] = [now |-> 0, later |-> 0]
                       /\ rec[r].state = "terminal" /\ call[r] \in {"idle", "over"}
    /\ UNCHANGED vars

Next ==
    \/ \E r \in Runs : \/ Begin(r) \/ CancelRequest(r) \/ Canceler(r)
                       \/ Worker(r) \/ ComesDue(r)
    \/ Rest

Spec == Init /\ [][Next]_vars
-----------------------------------------------------------------------------
(* Properties.                                                              *)

\* The tokens out are exactly those that passes hold, never more than the
\* capacity, through retries, failures, failed commits and cancels; a Run waits
\* on one class at most, once, and not while it holds a token.
TokensAccounted ==
    \A k \in Limited :
        /\ pool.inUse[k] = Cardinality({r \in Runs : held[r] = k})
        /\ pool.inUse[k] <= Capacity[k]
        /\ Members(pool.waiters[k]) = {r \in Runs : pool.parked[r] = k}
        /\ Len(pool.waiters[k]) = Cardinality(Members(pool.waiters[k]))
        /\ \A r \in Members(pool.waiters[k]) : held[r] = NoClass

\* Another pass of r will begin.
OnItsWay(r) ==
    \/ wpc[r] \notin {"none", "left"}
    \/ wpc[r] = "left" /\ r \in repoke \cup again
    \/ late[r].now + late[r].later > 0
    \/ call[r] \in {"wake", "dispatch"}
    \/ \E q \in Runs : r \in Members(owed[q])

\* tokenpool and dispatcher together: while a token is free and a Run waits for
\* it, the head of the line is on its way to ask; no order of releases,
\* cancels, refusals and re-pokes strands the line.
NoTokenIdle ==
    \A k \in Limited : Free(pool, k) /\ pool.waiters[k] # <<>> => OnItsWay(Head(pool.waiters[k]))

\* No stale entry eats a wake: whoever waits for a class still needs it, or is
\* about to leave the line.
WaitersNeedTheClass ==
    \A r \in Runs : pool.parked[r] # NoClass =>
        \/ Working(r) /\ ClassOf(r) = pool.parked[r]
        \/ wpc[r] = "clear"

\* The pool's books and its lines agree with what the Runs do.
PoolSound == TypeOK /\ TokensAccounted /\ WaitersNeedTheClass

\* A Run that is not over is on its way or in line for a token: a poke that
\* was suppressed, a redispatch that found another worker, a kick and a refusal
\* in any order leave no Run that nobody will ever dispatch.
NoRunForgotten ==
    \A r \in Runs : rec[r].state = "live" => OnItsWay(r) \/ pool.parked[r] # NoClass

\* A cancel that has returned leaves no forward delay to wait out: the Run's
\* worker, if it is waiting, has been woken.
CancelAtOnce ==
    \A r \in Runs : /\ call[r] = "over" /\ rec[r].state = "live" /\ Canceling(r)
                    /\ wpc[r] = "waiting"
                    => signal[r] = "fired"
=============================================================================
