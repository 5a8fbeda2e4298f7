---------------------------- MODULE RunLifecycle ----------------------------
(***************************************************************************)
(* One Run, from its creation to its terminal outcome: the worker that      *)
(* advances it (engine.processRun), the callers that cancel it              *)
(* (engine.requestCancel), the handlers' outcomes, store faults, shutdown,  *)
(* crash and redeployment.  Every store call and every critical section is  *)
(* a step of its own, so a cancel request lands between any two of them.    *)
(*                                                                         *)
(* The Run's pipeline has no run class and its Steps no concurrency class   *)
(* (those gates are other components); its await targets are other Runs,    *)
(* seen here only as done or not done.                                      *)
(***************************************************************************)
EXTENDS Ledger

CONSTANTS
    Topologies,   \* the deployments' definitions of the pipeline
    Causes,       \* cancel requests, each by the cause it carries
    NoCause,      \* no cancel request
    MaxRetries,   \* bound on attempts that end in an error, a park or a panic
    MaxFaults,    \* bound on failing store calls
    MaxRestarts   \* bound on crashes and shutdowns

ASSUME LifecycleAssumption ==
    /\ NoCause \notin Causes
    /\ Topologies \subseteq Topology
    /\ Topologies # {}
    /\ MaxRetries \in Nat /\ MaxFaults \in Nat /\ MaxRestarts \in Nat

\* Bind rejects a definition that lists a Step twice.
ASSUME DistinctSteps ==
    \A t \in Topologies : \A i, j \in DOMAIN t : t[i].id = t[j].id => i = j

VARIABLES
    \* durable
    db,        \* the Run's record in the store
    due,       \* the instant of db.nextAt has been reached
    targets,   \* the targets of the park db.awaiting are done
    expired,   \* the deadline of that park has passed
    \* the Engine process
    status,    \* "up", "stopping" (base context canceled), "down"
    draining,  \* Stop is draining: no new attempt, no dispatch
    topo,      \* this deployment's topology
    invalid,   \* Engine.invalid holds the Run
    dirty,     \* Engine.dirty holds the Run
    pending,   \* Engine.pendingPreempt of the Run
    attempt,   \* phase of the registered attempt (Engine.attemptCancel)
    cut,       \* preemption cause of the attempt's context
    join,      \* the Run is registered in Engine.joins
    \* the Run's worker
    pc, repoke, loaded, rec, step, res,
    \* the cancel requests in progress
    cpc,
    \* bounds and history
    faults, restarts, retries, seen

durable   == <<db, due, targets, expired>>
preempt   == <<dirty, pending, attempt, cut>>
engine    == <<status, draining, topo>>
worker    == <<pc, repoke, loaded, rec, step, res>>
counters  == <<faults, restarts, retries>>
vars == <<durable, preempt, engine, invalid, join, worker, cpc, counters, seen>>
-----------------------------------------------------------------------------
Op == [status : OpState, attempts : Nat]

NoOp == [status |-> "none", attempts |-> 0]

Failure == [kind : {"none", "failed", "canceled"},
            step : Steps \cup {NoStep},
            cause : Causes \cup {NoCause}]

NoFailure == [kind |-> "none", step |-> NoStep, cause |-> NoCause]

\* driver.RunRecord.  A park (awaiting), its memory (awaited) and the last
\* error are identified by the Step whose handler produced them.
Record == [phase : {"forward", "unwind", "done"},
           forward : [Steps -> Op], unwind : [Steps -> Op],
           failure : Failure, outcome : {"none", "success", "failure"},
           nextAt : BOOLEAN, awaiting : Steps \cup {NoStep},
           awaited : Steps \cup {NoStep}, lastError : Steps \cup {NoStep},
           cancel : Causes \cup {NoCause}, started : BOOLEAN]

NewRecord(delayed) ==
    [phase |-> "forward", forward |-> [s \in Steps |-> NoOp],
     unwind |-> [s \in Steps |-> NoOp], failure |-> NoFailure,
     outcome |-> "none", nextAt |-> delayed, awaiting |-> NoStep,
     awaited |-> NoStep, lastError |-> NoStep, cancel |-> NoCause,
     started |-> FALSE]

Terminal(r) == r.outcome # "none"

FactsOf(ops) == [s \in Steps |-> ops[s].status]

\* What an attempt may return: success, a permanent failure, an ordinary
\* error, a park, a panic, or a handler contract violation.
Returned == {"ok", "fail", "error", "await", "panic", "violation"}

Result == [out : Returned \cup {"none"}, preempted : Causes \cup {NoCause},
           interrupted : BOOLEAN]

NoResult == [out |-> "none", preempted |-> NoCause, interrupted |-> FALSE]

WorkerPc == {"idle", "queued", "take", "read", "decide", "cancel", "reserve",
             "register", "handler", "deregister", "resolve", "cycle",
             "commit", "finish"}

TypeOK ==
    /\ db \in Record /\ due \in BOOLEAN /\ targets \in BOOLEAN /\ expired \in BOOLEAN
    /\ status \in {"up", "stopping", "down"} /\ draining \in BOOLEAN
    /\ topo \in Topologies
    /\ invalid \in BOOLEAN /\ dirty \in BOOLEAN /\ join \in BOOLEAN
    /\ pending \in Causes \cup {NoCause} /\ cut \in Causes \cup {NoCause}
    /\ attempt \in {"none", "forward", "unwind"}
    /\ pc \in WorkerPc /\ repoke \in BOOLEAN /\ loaded \in BOOLEAN
    /\ rec \in Record /\ step \in Steps \cup {NoStep} /\ res \in Result
    /\ cpc \in [Causes -> {"idle", "mark", "preempt", "poke", "done"}]
    /\ faults \in Nat /\ restarts \in Nat /\ retries \in Nat
    /\ seen \in [forward : [Steps -> Nat], unwind : [Steps -> Nat]]

Init ==
    /\ \E delayed \in BOOLEAN : db = NewRecord(delayed) /\ due = ~delayed
    /\ targets = FALSE /\ expired = FALSE
    /\ status = "up" /\ draining = FALSE /\ topo \in Topologies
    /\ invalid = FALSE /\ dirty = FALSE /\ pending = NoCause
    /\ attempt = "none" /\ cut = NoCause /\ join = FALSE
    /\ pc = "queued" /\ repoke = FALSE /\ loaded = FALSE
    /\ rec = NewRecord(FALSE) /\ step = NoStep /\ res = NoResult
    /\ cpc = [c \in Causes |-> "idle"]
    /\ faults = 0 /\ restarts = 0 /\ retries = 0
    /\ seen = [forward |-> [s \in Steps |-> 0], unwind |-> [s \in Steps |-> 0]]
-----------------------------------------------------------------------------
(* The store: ApplyTransition, with the delta Engine.apply builds.          *)

\* The unresolved operations of r that neither the cursor's Step nor an
\* explicit write covers; apply writes them as rows.
Displaced(r, s) ==
    [forward |-> {t \in Steps \ {s} : r.forward[t].status = "unresolved"},
     unwind  |-> {t \in Steps \ {s} : r.unwind[t].status = "unresolved"}]

\* Seeded fault: a transition writes the carried cancel request back.
MergeCarriedCancel(r, ph, s) ==
    [r EXCEPT !.failure = IF r.failure = NoFailure THEN db.failure ELSE r.failure]

\* The record after a transition that writes r's cursor, the operation of
\* Step s in phase ph, and the displaced operations.  The cancel request is
\* never part of a transition.
Merge(r, ph, s) ==
    LET d == Displaced(r, s)
        fw == d.forward \cup (IF ph = "forward" THEN {s} ELSE {})
        uw == d.unwind \cup (IF ph = "unwind" THEN {s} ELSE {})
    IN [r EXCEPT
          !.forward = [t \in Steps |-> IF t \in fw THEN r.forward[t] ELSE db.forward[t]],
          !.unwind  = [t \in Steps |-> IF t \in uw THEN r.unwind[t] ELSE db.unwind[t]],
          !.failure = IF r.failure = NoFailure THEN db.failure ELSE r.failure,
          !.cancel  = db.cancel]

\* RunRecord.CompactTerminal: a terminal Run keeps its failed unwinds.
Compact(r) ==
    [r EXCEPT
       !.forward = [s \in Steps |-> NoOp],
       !.unwind = [s \in Steps |->
                     IF r.unwind[s].status = "failed" THEN r.unwind[s] ELSE NoOp],
       !.nextAt = FALSE, !.awaiting = NoStep, !.awaited = NoStep,
       !.lastError = NoStep]

Apply(r, ph, s) ==
    /\ ~Terminal(db)
    /\ db' = IF Terminal(r) THEN Compact(Merge(r, ph, s)) ELSE Merge(r, ph, s)
    /\ due' = IF r.nextAt THEN due ELSE TRUE
    /\ targets' = (targets /\ r.awaiting # NoStep)
    /\ expired' = (expired /\ r.awaiting # NoStep)
    /\ UNCHANGED faults

\* As Apply, for a record whose NextAttemptAt is a new instant.
ApplyDelayed(r, ph, s) ==
    /\ ~Terminal(db)
    /\ db' = Merge(r, ph, s)
    /\ due' = FALSE
    /\ UNCHANGED <<targets, expired, faults>>

\* A store call that fails: nothing is written.
StoreFault ==
    /\ faults < MaxFaults
    /\ faults' = faults + 1
    /\ UNCHANGED durable
-----------------------------------------------------------------------------
(* The dispatcher, for one Run: a worker, or none, and a re-poke.           *)

Goto(label) ==
    /\ pc' = label
    /\ UNCHANGED repoke

\* Seeded fault: a poke suppressed while the worker ran is forgotten.
ExitDropsRepoke(again) ==
    /\ pc' = IF status = "up" /\ ~draining /\ again THEN "queued" ELSE "idle"
    /\ repoke' = FALSE /\ loaded' = FALSE
    /\ rec' = NewRecord(FALSE) /\ step' = NoStep /\ res' = NoResult

\* The worker returns: a suppressed poke redispatches it at once, otherwise
\* it is redispatched when it asked to be; never once dispatch is stopped.
Exit(again) ==
    /\ pc' = IF status = "up" /\ ~draining /\ (again \/ repoke) THEN "queued" ELSE "idle"
    /\ repoke' = FALSE /\ loaded' = FALSE
    /\ rec' = NewRecord(FALSE) /\ step' = NoStep /\ res' = NoResult

\* Dispatcher.Dispatch(id, 0).
Poke ==
    /\ IF pc = "idle" THEN pc' = "queued" /\ UNCHANGED repoke
                      ELSE repoke' = TRUE /\ UNCHANGED pc
    /\ UNCHANGED <<loaded, rec, step, res>>

\* The in-memory conclusion that this deployment cannot continue the Run: its
\* park registration is dropped, unless the same conclusion was drawn before.
MarkInvalid ==
    /\ invalid' = TRUE
    /\ join' = FALSE \/ (invalid /\ join' = join)
    /\ Exit(FALSE)
-----------------------------------------------------------------------------
(* processRun: one pass of the worker.                                      *)

\* The dispatched worker starts; its delay elapsed or a wake cut it.
Begin ==
    /\ pc = "queued" /\ status # "down"
    /\ Goto("take")
    /\ UNCHANGED <<durable, preempt, engine, invalid, join, loaded, rec, step,
                   res, cpc, counters, seen>>

\* A worker still waiting exits when dispatch stops.
BeginStopped ==
    /\ pc = "queued" /\ (draining \/ status = "stopping")
    /\ Exit(FALSE)
    /\ UNCHANGED <<durable, preempt, engine, invalid, join, cpc, counters, seen>>

\* The dirty mark is taken before any read.
Take ==
    /\ pc = "take"
    /\ IF status = "stopping"
         THEN Exit(FALSE) /\ UNCHANGED dirty
         ELSE /\ dirty' = FALSE
              /\ Goto(IF dirty \/ ~loaded THEN "read" ELSE "decide")
              /\ UNCHANGED <<loaded, rec, step, res>>
    /\ UNCHANGED <<durable, pending, attempt, cut, engine, invalid, join, cpc,
                   counters, seen>>

Read ==
    /\ pc = "read"
    /\ \/ /\ rec' = db /\ loaded' = TRUE
          /\ Goto("decide")
          /\ UNCHANGED <<durable, faults, step, res>>
       \/ StoreFault /\ Exit(TRUE)
    /\ UNCHANGED <<preempt, engine, invalid, join, restarts, retries, cpc, seen>>

Decision1(r) ==
    IF r.phase = "forward"
      THEN NextForward(topo, FactsOf(r.forward))
      ELSE NextUnwind(topo, FactsOf(r.forward), FactsOf(r.unwind))

\* awaitGate holds a park whose targets are not done and whose deadline has
\* not passed.  A gate that lets the Run through settles the park into the
\* operation's memory.
Parked(r) == r.awaiting # NoStep /\ ~targets /\ ~expired

Settled(r) == IF r.awaiting = NoStep THEN r
              ELSE [r EXCEPT !.awaited = r.awaiting, !.awaiting = NoStep]

\* Seeded fault: the retry gate tests that an instant is set, not that it is
\* in the future.
WaitingWhenSet(r) == r.nextAt

Waiting(r) == r.nextAt /\ ~due

Runnable(d) == d.kind \in {"runForward", "runUnwind"} /\ ~draining

\* Whether the pending cancellation, not an attempt, resolves decision d.
Canceled(d) == d.kind = "runForward" /\ rec.cancel # NoCause

\* The Run is terminal, not reconcilable, or has nothing to start now.  The
\* gate that first registers a park searches the await graph for a cycle.
DecideStop ==
    /\ pc = "decide"
    /\ LET d == Decision1(rec) IN
       \/ Terminal(rec) /\ Exit(FALSE) /\ UNCHANGED <<invalid, join>>
       \/ ~Terminal(rec) /\ d.kind = "invalid" /\ MarkInvalid
       \/ /\ ~Terminal(rec) /\ d.kind \in {"runForward", "runUnwind"} /\ draining
          /\ Exit(FALSE) /\ UNCHANGED <<invalid, join>>
       \/ /\ ~Terminal(rec) /\ Runnable(d) /\ ~Canceled(d) /\ Parked(rec)
          /\ Exit(FALSE) /\ join' = TRUE /\ UNCHANGED invalid
       \/ /\ ~Terminal(rec) /\ Runnable(d) /\ ~Canceled(d) /\ rec.awaiting # NoStep
          /\ ~join /\ MarkInvalid
       \/ /\ ~Terminal(rec) /\ Runnable(d) /\ ~Canceled(d) /\ ~Parked(rec)
          /\ Waiting(rec)
          /\ Exit(TRUE) /\ join' = (join /\ rec.awaiting = NoStep) /\ UNCHANGED invalid
    /\ UNCHANGED <<durable, preempt, engine, cpc, counters, seen>>

\* A pending cancellation resolves the forward operation that would run.
DecideCancel ==
    /\ pc = "decide" /\ ~Terminal(rec)
    /\ LET d == Decision1(rec) IN
       Runnable(d) /\ Canceled(d) /\ step' = d.step
    /\ Goto("cancel")
    /\ UNCHANGED <<durable, preempt, engine, invalid, join, loaded, rec, res,
                   cpc, counters, seen>>

\* The gates let the next operation through: not parked, or the park resolved
\* or expired, or a target of it could not be read.
DecideRun ==
    /\ pc = "decide" /\ ~Terminal(rec)
    /\ LET d == Decision1(rec) IN
       Runnable(d) /\ ~Canceled(d) /\ step' = d.step
    /\ ~Waiting(rec)
    /\ IF Parked(rec) THEN StoreFault ELSE UNCHANGED <<durable, faults>>
    /\ rec' = Settled(rec)
    /\ join' = (join /\ rec.awaiting = NoStep)
    /\ Goto("reserve")
    /\ UNCHANGED <<preempt, engine, invalid, loaded, res, cpc, restarts,
                   retries, seen>>

\* Nothing left to run in the phase: the reducer folds the Run, and a
\* reducer fault makes it invalid.
DecideComplete ==
    /\ pc = "decide" /\ ~Terminal(rec)
    /\ Decision1(rec).kind \in {"forwardComplete", "unwindComplete"}
    /\ \/ Goto("commit") /\ UNCHANGED <<invalid, join, loaded, rec, step, res>>
       \/ MarkInvalid
    /\ UNCHANGED <<durable, preempt, engine, cpc, counters, seen>>
-----------------------------------------------------------------------------
(* The operation: reserve, invoke, resolve.                                 *)

\* The record with the operation of Step s in r's phase replaced.
SetOp(r, s, op) ==
    IF r.phase = "forward" THEN [r EXCEPT !.forward[s] = op]
                           ELSE [r EXCEPT !.unwind[s] = op]

OpOf(r, s) == IF r.phase = "forward" THEN r.forward[s] ELSE r.unwind[s]

\* Seeded faults: only the first attempt is counted; the count goes down.
ReservedOnce(r, s) ==
    [SetOp(r, s, [status |-> "unresolved", attempts |-> 1])
       EXCEPT !.nextAt = FALSE, !.started = TRUE]

ReservedDown(r, s) ==
    [SetOp(r, s, [status |-> "unresolved", attempts |-> OpOf(r, s).attempts - 1])
       EXCEPT !.nextAt = FALSE, !.started = TRUE]

Reserved(r, s) ==
    [SetOp(r, s, [status |-> "unresolved", attempts |-> OpOf(r, s).attempts + 1])
       EXCEPT !.nextAt = FALSE, !.started = TRUE]

\* runForward and runUnwind reserve the attempt before the handler runs.
Reserve ==
    /\ pc = "reserve"
    /\ \/ /\ rec' = Reserved(rec, step)
          /\ Apply(rec', rec.phase, step)
          /\ Goto("register")
          /\ UNCHANGED <<loaded, step, res>>
       \/ StoreFault /\ Exit(TRUE)
    /\ UNCHANGED <<preempt, engine, invalid, join, restarts, retries, cpc, seen>>

\* Seeded fault: a pending preemption cuts an unwind attempt too.
RegisterCutsAny ==
    /\ pc = "register"
    /\ attempt' = rec.phase
    /\ pending' = NoCause /\ cut' = pending
    /\ seen' = [seen EXCEPT ![rec.phase][step] = OpOf(rec, step).attempts]
    /\ Goto("handler")
    /\ UNCHANGED <<durable, dirty, engine, invalid, join, loaded, rec, step,
                   res, cpc, counters>>

\* attemptContext registers the attempt and takes a preemption left for it;
\* only a forward attempt is cut by it.
Register ==
    /\ pc = "register"
    /\ attempt' = rec.phase
    /\ pending' = NoCause
    /\ cut' = IF rec.phase = "forward" THEN pending ELSE NoCause
    /\ seen' = [seen EXCEPT ![rec.phase][step] = OpOf(rec, step).attempts]
    /\ Goto("handler")
    /\ UNCHANGED <<durable, dirty, engine, invalid, join, loaded, rec, step,
                   res, cpc, counters>>

\* The handler returns, and the attempt context's cause is read: a preemption
\* wins over a shutdown, and a panic skips both.
HandlerReturn ==
    /\ pc = "handler"
    /\ \E out \in Returned :
         /\ IF out \in {"error", "await", "panic"} /\ cut = NoCause /\ status = "up"
              THEN retries < MaxRetries /\ retries' = retries + 1
              ELSE UNCHANGED retries
         /\ res' = [out |-> out,
                    preempted |-> IF out = "panic" THEN NoCause ELSE cut,
                    interrupted |-> out # "panic" /\ cut = NoCause
                                    /\ status = "stopping"]
    /\ Goto("deregister")
    /\ UNCHANGED <<durable, preempt, engine, invalid, join, loaded, rec, step,
                   cpc, faults, restarts, seen>>

\* The deferred done(): the attempt is no longer registered.
Deregister ==
    /\ pc = "deregister"
    /\ attempt' = "none" /\ cut' = NoCause
    /\ Goto("resolve")
    /\ UNCHANGED <<durable, dirty, pending, engine, invalid, join, loaded, rec,
                   step, res, cpc, counters, seen>>

\* The operation resolved: its record, its memory and last error cleared.
Resolved(r, s, st) ==
    [SetOp(r, s, [OpOf(r, s) EXCEPT !.status = st])
       EXCEPT !.awaited = NoStep, !.lastError = NoStep]

\* A violation is checked first, then a preemption of a failed forward
\* attempt, which resolves as canceled.
ResolveInvalid ==
    /\ pc = "resolve" /\ res.out = "violation"
    /\ MarkInvalid
    /\ UNCHANGED <<durable, preempt, engine, cpc, counters, seen>>

ResolvePreempted ==
    /\ pc = "resolve" /\ res.out \notin {"violation", "ok"}
    /\ rec.phase = "forward" /\ res.preempted # NoCause
    /\ Goto("cancel")
    /\ UNCHANGED <<durable, preempt, engine, invalid, join, loaded, rec, step,
                   res, cpc, counters, seen>>

NotPreempted == rec.phase = "unwind" \/ res.preempted = NoCause

\* Success, and a permanent failure: forward it moves the Run to unwind, in
\* unwind it stays on the operation.
ResolveOp ==
    /\ pc = "resolve"
    /\ res.out = "ok" \/ (res.out = "fail" /\ NotPreempted)
    /\ LET failed == res.out = "fail"
           r == Resolved(rec, step, IF failed THEN "failed" ELSE "succeeded")
       IN \/ /\ rec' = IF failed /\ rec.phase = "forward"
                         THEN [r EXCEPT !.phase = "unwind",
                                 !.failure = [kind |-> "failed", step |-> step,
                                              cause |-> NoCause]]
                         ELSE r
             /\ Apply(rec', rec.phase, step)
             /\ Goto("take")
             /\ step' = NoStep /\ res' = NoResult
             /\ UNCHANGED loaded
          \/ StoreFault /\ Exit(TRUE)
    /\ UNCHANGED <<preempt, engine, invalid, join, restarts, retries, cpc, seen>>

\* Shutdown interrupted the attempt: the reservation is the whole record.
ResolveInterrupted ==
    /\ pc = "resolve" /\ res.out = "error" /\ NotPreempted /\ res.interrupted
    /\ Exit(FALSE)
    /\ UNCHANGED <<durable, preempt, engine, invalid, join, cpc, counters, seen>>

\* An ordinary error or a panic: retry after the backoff.
ResolveRetry ==
    /\ pc = "resolve" /\ NotPreempted
    /\ res.out = "panic" \/ (res.out = "error" /\ ~res.interrupted)
    /\ \/ ApplyDelayed([rec EXCEPT !.nextAt = TRUE, !.lastError = step],
                       rec.phase, step)
       \/ StoreFault
    /\ Exit(TRUE)
    /\ UNCHANGED <<preempt, engine, invalid, join, restarts, retries, cpc, seen>>

\* parkAwait: the park is persisted, with its deadline, before the await graph
\* is searched for a cycle.  The targets may be done already.
Park ==
    /\ pc = "resolve" /\ res.out = "await" /\ NotPreempted
    /\ \/ /\ rec' = [rec EXCEPT !.awaiting = step, !.awaited = NoStep]
          /\ ~Terminal(db)
          /\ db' = Merge(rec', rec.phase, step)
          /\ targets' \in BOOLEAN /\ expired' = FALSE
          /\ UNCHANGED <<due, faults>>
          /\ Goto("cycle")
          /\ UNCHANGED <<loaded, step, res>>
       \/ StoreFault /\ Exit(TRUE)
    /\ UNCHANGED <<preempt, engine, invalid, join, restarts, retries, cpc, seen>>

\* awaitCycle over the other Runs' heads: no cycle, a cycle, or a read error.
CycleCheck ==
    /\ pc = "cycle"
    /\ \/ /\ Goto("take") /\ step' = NoStep /\ res' = NoResult
          /\ UNCHANGED <<durable, faults, invalid, join, loaded, rec>>
       \/ MarkInvalid /\ UNCHANGED <<durable, faults>>
       \/ StoreFault /\ Exit(TRUE) /\ UNCHANGED <<invalid, join>>
    /\ UNCHANGED <<preempt, engine, restarts, retries, cpc, seen>>

\* Seeded fault: the cause of a preemption is recorded, never the record's.
CancelCausePreempted == res.preempted

\* The record's cause, or else that of the preemption that cut the attempt.
CancelCause == IF rec.cancel # NoCause THEN rec.cancel ELSE res.preempted

\* cancelOperation: the operation fails as canceled and the Run moves to
\* unwind.  The park is dropped whether or not the write succeeds.
CancelOperation ==
    /\ pc = "cancel"
    /\ join' = (join /\ rec.awaiting = NoStep)
    /\ \/ /\ rec' = [Resolved(rec, step, "failed") EXCEPT
                       !.phase = "unwind", !.nextAt = FALSE, !.awaiting = NoStep,
                       !.failure = [kind |-> "canceled", step |-> step,
                                    cause |-> CancelCause]]
          /\ Apply(rec', "forward", step)
          /\ Goto("take")
          /\ step' = NoStep /\ res' = NoResult
          /\ UNCHANGED loaded
       \/ StoreFault /\ Exit(TRUE)
    /\ UNCHANGED <<preempt, engine, invalid, restarts, retries, cpc, seen>>
-----------------------------------------------------------------------------
(* Terminality.                                                             *)

\* reduceAndComplete and reduceFailureAndComplete: a failed commit ends the
\* pass and asks for no redispatch.
Commit ==
    /\ pc = "commit"
    /\ \/ /\ rec' = [rec EXCEPT !.phase = "done",
                       !.outcome = IF rec.phase = "forward" THEN "success"
                                                            ELSE "failure"]
          /\ Apply(rec', "done", NoStep)
          /\ Goto("finish")
          /\ UNCHANGED <<loaded, step, res>>
       \/ StoreFault /\ Exit(FALSE)
    /\ UNCHANGED <<preempt, engine, invalid, join, restarts, retries, cpc, seen>>

\* completeRun drops a preemption no attempt took and releases the waiters.
\* After a success the pass goes round once more and finds the Run terminal.
Finish ==
    /\ pc = "finish"
    /\ pending' = NoCause
    /\ IF rec.outcome = "success"
         THEN Goto("take") /\ UNCHANGED <<loaded, rec, step, res>>
         ELSE Exit(FALSE)
    /\ UNCHANGED <<durable, dirty, attempt, cut, engine, invalid, join, cpc,
                   counters, seen>>
-----------------------------------------------------------------------------
(* requestCancel: one caller per cause.                                     *)

CancelRequest(c) ==
    /\ cpc[c] = "idle" /\ status # "down"
    /\ IF Terminal(db) \/ db.cancel # NoCause
         THEN cpc' = [cpc EXCEPT ![c] = "done"] /\ UNCHANGED db
         ELSE cpc' = [cpc EXCEPT ![c] = "mark"] /\ db' = [db EXCEPT !.cancel = c]
    /\ UNCHANGED <<due, targets, expired, preempt, engine, invalid, join,
                   worker, counters, seen>>

\* Seeded fault: the accepted request does not mark the Run dirty.
CancelNoMark(c) ==
    /\ cpc[c] = "mark"
    /\ cpc' = [cpc EXCEPT ![c] = "preempt"]
    /\ UNCHANGED <<durable, preempt, engine, invalid, join, worker, counters,
                   seen>>

CancelMark(c) ==
    /\ cpc[c] = "mark"
    /\ dirty' = TRUE
    /\ cpc' = [cpc EXCEPT ![c] = "preempt"]
    /\ UNCHANGED <<durable, pending, attempt, cut, engine, invalid, join,
                   worker, counters, seen>>

\* Seeded fault: nothing is left pending for an attempt about to register.
CancelPreemptOnlyRegistered(c) ==
    /\ cpc[c] = "preempt"
    /\ cut' = IF attempt = "forward" /\ cut = NoCause THEN c ELSE cut
    /\ cpc' = [cpc EXCEPT ![c] = "poke"]
    /\ UNCHANGED <<durable, dirty, pending, attempt, engine, invalid, join,
                   worker, counters, seen>>

\* preemptAttempt: a registered forward attempt is cut, a registered unwind
\* one is left alone, and with none registered the cause is left pending.
CancelPreempt(c) ==
    /\ cpc[c] = "preempt"
    /\ cut' = IF attempt = "forward" /\ cut = NoCause THEN c ELSE cut
    /\ pending' = IF attempt = "none" THEN c ELSE pending
    /\ cpc' = [cpc EXCEPT ![c] = "poke"]
    /\ UNCHANGED <<durable, dirty, attempt, engine, invalid, join, worker,
                   counters, seen>>

\* Wake and Dispatch, as one step here; TokenClass takes them apart.
CancelPoke(c) ==
    /\ cpc[c] = "poke"
    /\ Poke
    /\ cpc' = [cpc EXCEPT ![c] = "done"]
    /\ UNCHANGED <<durable, preempt, engine, invalid, join, counters, seen>>
-----------------------------------------------------------------------------
(* The environment: time, the await targets, shutdown, crash, redeployment. *)

TimePasses ==
    /\ ~due
    /\ due' = TRUE
    /\ UNCHANGED <<db, targets, expired, preempt, engine, invalid, join, worker,
                   cpc, counters, seen>>

\* awaitTargetDone pokes a Run registered on the target.
TargetsDone ==
    /\ db.awaiting # NoStep /\ ~targets
    /\ targets' = TRUE
    /\ IF join THEN Poke ELSE UNCHANGED worker
    /\ UNCHANGED <<db, due, expired, preempt, engine, invalid, join, cpc,
                   counters, seen>>

\* The park's timer, armed by the gate, pokes at the deadline.
DeadlinePasses ==
    /\ db.awaiting # NoStep /\ ~expired
    /\ expired' = TRUE
    /\ IF join THEN Poke ELSE UNCHANGED worker
    /\ UNCHANGED <<db, due, targets, preempt, engine, invalid, join, cpc,
                   counters, seen>>

\* Engine.Stop: drain when configured to, then cancel the base context.
Drain ==
    /\ status = "up" /\ ~draining /\ restarts < MaxRestarts
    /\ draining' = TRUE
    /\ UNCHANGED <<durable, preempt, status, topo, invalid, join, worker, cpc,
                   counters, seen>>

StopEngine ==
    /\ status = "up" /\ restarts < MaxRestarts
    /\ status' = "stopping"
    /\ UNCHANGED <<durable, preempt, draining, topo, invalid, join, worker, cpc,
                   counters, seen>>

\* The process ends, at the end of Stop or by a crash: everything in memory
\* is lost, a cancel request in progress included.
ProcessEnds ==
    /\ status # "down" /\ restarts < MaxRestarts
    /\ status' = "down" /\ restarts' = restarts + 1
    /\ draining' = FALSE /\ invalid' = FALSE /\ join' = FALSE
    /\ dirty' = FALSE /\ pending' = NoCause /\ attempt' = "none" /\ cut' = NoCause
    /\ pc' = "idle" /\ repoke' = FALSE /\ loaded' = FALSE
    /\ rec' = NewRecord(FALSE) /\ step' = NoStep /\ res' = NoResult
    /\ cpc' = [c \in Causes |-> IF cpc[c] = "idle" THEN "idle" ELSE "done"]
    /\ UNCHANGED <<durable, topo, faults, retries, seen>>

\* Seeded fault: Start dispatches only the Runs that had started.
RestartStartedOnly ==
    /\ status = "down"
    /\ status' = "up"
    /\ topo' \in Topologies
    /\ pc' = IF Terminal(db) \/ ~db.started THEN "idle" ELSE "queued"
    /\ UNCHANGED <<durable, preempt, draining, invalid, join, repoke, loaded,
                   rec, step, res, cpc, counters, seen>>

\* Engine.Start of a deployment: a nonterminal Run is dispatched.
Restart ==
    /\ status = "down"
    /\ status' = "up"
    /\ topo' \in Topologies
    /\ pc' = IF Terminal(db) THEN "idle" ELSE "queued"
    /\ UNCHANGED <<durable, preempt, draining, invalid, join, repoke, loaded,
                   rec, step, res, cpc, counters, seen>>

\* The Run has no worker: it is terminal, invalid or parked, or the Engine
\* stopped.
Quiescent ==
    /\ pc = "idle"
    /\ UNCHANGED vars
-----------------------------------------------------------------------------
Pass == \/ Begin \/ BeginStopped \/ Take \/ Read \/ DecideStop \/ DecideCancel
        \/ DecideRun \/ DecideComplete

Operate == \/ Reserve \/ Register \/ HandlerReturn \/ Deregister
           \/ ResolveInvalid \/ ResolvePreempted \/ ResolveOp
           \/ ResolveInterrupted \/ ResolveRetry \/ Park \/ CycleCheck
           \/ CancelOperation

Cancel(c) == CancelRequest(c) \/ CancelMark(c) \/ CancelPreempt(c) \/ CancelPoke(c)

Environment == \/ TimePasses \/ TargetsDone \/ DeadlinePasses \/ Drain
               \/ StopEngine \/ ProcessEnds \/ Restart \/ Quiescent

Next == \/ Pass \/ Operate \/ Commit \/ Finish
        \/ \E c \in Causes : Cancel(c)
        \/ Environment

Spec == Init /\ [][Next]_vars

\* Goroutines that can take a step do, handlers return, time passes, and a
\* stopped Engine is followed by another.
Fairness == /\ WF_vars(Pass \/ Operate \/ Commit \/ Finish)
            /\ \A c \in Causes :
                 WF_vars(CancelMark(c) \/ CancelPreempt(c) \/ CancelPoke(c))
            /\ WF_vars(TimePasses)
            /\ WF_vars(Restart)

LiveSpec == Spec /\ Fairness
-----------------------------------------------------------------------------
(* Properties.                                                              *)

\* The worker is past its store read and carries a record.
Carrying == loaded /\ pc # "read"

\* The cancel request accepted by the store has marked the Run dirty.
Marked == \A c \in Causes : cpc[c] # "mark"

\* processRun's carried record: between operations the worker's copy is the
\* store's, but for a cancel request; and a request the copy lacks is still
\* announced by the dirty mark, or its caller is about to set it.
CarriedRecord ==
    /\ pc = "decide" /\ ~Terminal(rec) => [rec EXCEPT !.cancel = db.cancel] = db
    /\ Carrying /\ ~Terminal(db) /\ rec.cancel # db.cancel /\ Marked => dirty

\* runForward and runUnwind: when a handler is about to be invoked its attempt
\* is already durable, and its number was never given to a handler before,
\* across retries, store faults, crashes and redeployments.
ReservedBeforeInvoked ==
    pc = "register" =>
      /\ OpOf(db, step) = OpOf(rec, step)
      /\ OpOf(db, step).status = "unresolved"
      /\ OpOf(db, step).attempts > seen[rec.phase][step]

\* preemptAttempt and attemptContext: once a cancel call has passed its
\* preemption, no forward handler runs with a live context, in whatever order
\* the request, the reservation and the registration happened.
CancelCutsForward ==
    pc = "handler" /\ rec.phase = "forward" /\ db.cancel # NoCause =>
      cut = db.cancel \/ cpc[db.cancel] \in {"mark", "preempt"}

\* preemptAttempt: an unwind attempt's context is never cut, although a
\* preemption left pending for a forward attempt may meet an unwind one.
UnwindNeverCut == attempt = "unwind" => cut = NoCause

Settled1(op) == op.status \in {"succeeded", "failed"}

\* What is durable is never taken back: attempts only grow, a resolved
\* operation, the Failure, the cancel request and the outcome are written
\* once, and the phase only advances.
DurableMonotone ==
    [][ /\ db.failure # NoFailure => db'.failure = db.failure
        /\ db.cancel # NoCause => db'.cancel = db.cancel
        /\ Terminal(db) => db' = db
        /\ db.phase = "unwind" => db'.phase # "forward"
        /\ ~Terminal(db') => \A s \in Steps :
             /\ db'.forward[s].attempts >= db.forward[s].attempts
             /\ db'.unwind[s].attempts >= db.unwind[s].attempts
             /\ Settled1(db.forward[s]) => db'.forward[s] = db.forward[s]
             /\ Settled1(db.unwind[s]) => db'.unwind[s] = db.unwind[s] ]_db

\* reduceAndComplete commits success only for a Run without a Failure, and a
\* failed Run carries the Failure that ended its forward phase; a canceled
\* one carries the cause of the request the store accepted.
OutcomeExplained ==
    /\ Terminal(db) => (db.outcome = "success" <=> db.failure = NoFailure)
    /\ ~Terminal(db) => (db.phase = "unwind" <=> db.failure # NoFailure)
    /\ db.failure.kind = "canceled" =>
          db.cancel # NoCause /\ db.failure.cause = db.cancel

\* NextUnwind drives the unwind to the end: when the Run commits failure, every
\* Step that succeeded and still declares an unwind has had it resolved, or is
\* beyond a Step that had.
CompensationComplete ==
    pc = "commit" /\ db.phase = "unwind" =>
      \A i \in DOMAIN topo :
        topo[i].unwind /\ db.forward[topo[i].id].status = "succeeded" =>
          \E k \in 1..i : Settled1(db.unwind[topo[k].id])

\* An unwind handler runs only for a Step that succeeded forward, and after
\* every later Step of the deployment that still needs its unwind.
UnwindInReverse ==
    pc = "handler" /\ rec.phase = "unwind" =>
      /\ db.forward[step].status = "succeeded"
      /\ \A i, j \in DOMAIN topo :
           /\ topo[i].id = step /\ j > i
           /\ topo[j].unwind /\ db.forward[topo[j].id].status = "succeeded"
           => \E k \in (i + 1)..j : Settled1(db.unwind[topo[k].id])

\* The unwind of a failed Run, whatever the deployments and faults on its way:
\* nothing that succeeded is left uncompensated, and in reverse order.
UnwindSound == CompensationComplete /\ UnwindInReverse

\* The dispatcher contract as the engine uses it: while the Engine runs, a
\* Run that is neither terminal nor invalid has a worker, or is parked on
\* targets whose completion pokes it.
NeverStranded ==
    status = "up" /\ ~draining /\ ~Terminal(db) /\ ~invalid =>
      \/ pc # "idle"
      \/ join /\ ~targets /\ ~expired

\* Every Run advances: with handlers that return and a bounded number of
\* retries it reaches a terminal outcome, unless it parks, becomes invalid or
\* the Engine stops.
Progress ==
    (status = "up" /\ ~draining)
      ~> (Terminal(db) \/ invalid \/ join \/ draining \/ status # "up")

\* Run.Cancel: an accepted request ends the forward phase, even of a parked
\* or delayed Run, and even when its caller crashed before poking.
CancelTakesEffect ==
    \A c \in Causes :
      (db.cancel = c /\ db.phase = "forward" /\ status = "up" /\ ~draining)
        ~> (db.phase # "forward" \/ invalid \/ draining \/ status # "up")
=============================================================================
