------------------------------ MODULE Awaiting ------------------------------
(***************************************************************************)
(* Runs that wait for Runs: a handler parks its operation on other Runs     *)
(* (parkAwait, awaitGate), a terminal commit reaches those parked on it     *)
(* (completeRun, awaitTargetDone, JoinSet), a cancellation drops a park and  *)
(* may cascade, and callers block in Run.Wait (watchset).  Every Run is met   *)
(* with at most one operation left, and ends when it is resolved.            *)
(***************************************************************************)
EXTENDS JoinSet

CONSTANTS Parks,        \* the parks a Run's handlers may ask for
          Stage,        \* what each Run has left: a forward operation, an unwind,
                        \* or its terminal commit ("ended")
          Cancelable,   \* Runs somebody may cancel
          Callers, On,  \* the callers of Run.Wait, and the Run each waits for
          Inside,       \* callers that call from a handler's context
          MaxVisited,   \* of the cycle search (1024)
          Flaky,        \* Runs whose handlers may return an ordinary error
          Reapable,     \* Runs whose retention is over when they end
          MaxTries,     \* bounds: errors and parks of each Run's handlers,
          MaxTroubles   \* and store calls that fail or process ends

NoPark == [targets |-> {}, any |-> FALSE, deadline |-> FALSE, cascade |-> FALSE]
ParkType == [targets : SUBSET Runs, any : BOOLEAN, deadline : BOOLEAN, cascade : BOOLEAN]

ASSUME ParksAssumption ==
    Parks \in [Runs -> SUBSET {p \in ParkType : p.targets # {}}]
ASSUME CallersAssumption ==
    On \in [Callers -> Runs] /\ Inside \subseteq Callers
    /\ Stage \in [Runs -> {"forward", "unwind", "ended"}]
    /\ {Cancelable, Reapable, Flaky} \subseteq SUBSET Runs
ASSUME BoundsAssumption == 
    MaxTries \in [Runs -> Nat] /\ {MaxVisited, MaxTroubles} \subseteq Nat

VARIABLES
    db,       \* the store: life, phase, cancel request, park and its memory
    passed,   \* parks whose deadline has come
    up, joins, timers, invalid,      \* the Engine and its maps
    wpc, repoke, left, seen, woke,   \* workers: where they are, what they hold
    cpc, watch,                      \* callers of Wait and their channels
    tries, troubles,                 \* bounds
    must, cut, refused, unread, stranded  \* history

store == <<db, passed>>
engine == <<up, joins, timers, invalid>>
worker == <<wpc, repoke, left, seen, woke>>
callers == <<cpc, watch>>
history == <<must, cut, refused, unread, stranded>>
vars == <<store, engine, worker, callers, tries, troubles, history>>

\* The memory of a park that ended; Wake.Targets are the park's.
NoWake == [park |-> NoPark, done |-> {}, expired |-> FALSE]
WakeType == [park : ParkType, done : SUBSET Runs, expired : BOOLEAN]

RecordType == [life : {"live", "terminal", "gone"}, phase : {"forward", "unwind", "ended"},
               cancel : BOOLEAN, park : ParkType, memory : WakeType]

\* There is one type invariant; the worker's place is where the code is
\* between two store calls or two locks.
TypeOK ==
    /\ db \in [Runs -> RecordType] /\ passed \subseteq Runs
    /\ up \in BOOLEAN /\ joins \in SetType
    /\ timers \in [Runs -> {"off", "armed", "fired"}]
    /\ invalid \in [Runs -> SUBSET Runs]
    /\ wpc \in [Runs -> {"none", "queued", "gatewalk", "targets", "reserve", "handler",
                         "parkwalk", "reveal", "cascade", "notify", "complete", "kick"}]
    /\ repoke \subseteq Runs
    /\ left \in [Runs -> SUBSET Runs] /\ seen \in [Runs -> SUBSET Runs]
    /\ woke \in [Runs -> WakeType]
    /\ cpc \in [Callers -> {"idle", "read", "wait", "returned"}]
    /\ watch \in [Callers -> {"none", "open", "closed"}]
    /\ tries \in [Runs -> Nat] /\ (\A r \in Runs : tries[r] <= MaxTries[r])
    /\ troubles \in 0..MaxTroubles
    /\ {must, cut, refused, unread, stranded} \subseteq SUBSET Runs

Live(t) == db[t].life = "live"
Parked(r) == Live(r) /\ db[r].park # NoPark

\* awaitNeed: the mode as a threshold.
AwaitNeed(p) == IF p.any THEN 1 ELSE Cardinality(p.targets)

Init ==
    /\ db = [r \in Runs |-> [life |-> "live", phase |-> Stage[r], cancel |-> FALSE,
                             park |-> NoPark, memory |-> NoWake]]
    /\ passed = {} /\ up = TRUE /\ joins = NewSet
    /\ timers = [r \in Runs |-> "off"] /\ invalid = [r \in Runs |-> {}]
    /\ wpc = [r \in Runs |-> "queued"] /\ repoke = {}
    /\ left = [r \in Runs |-> {}] /\ seen = [r \in Runs |-> {}]
    /\ woke = [r \in Runs |-> NoWake]
    /\ cpc = [c \in Callers |-> "idle"] /\ watch = [c \in Callers |-> "none"]
    /\ tries = [r \in Runs |-> 0] /\ troubles = 0
    /\ must = {} /\ cut = {} /\ refused = {} /\ unread = {} /\ stranded = {}

-----------------------------------------------------------------------------
(* Helpers: the dispatcher, the worker's place, the two registries. *)

\* Dispatch(t, 0) for every t of S, by a worker or a caller: a Run with a
\* worker is passed again when the pass ends.
Poked(S, w) == [t \in Runs |-> IF t \in S /\ w[t] = "none" THEN "queued" ELSE w[t]]
Repoked(S) == repoke \cup {t \in S : wpc[t] # "none"}

\* r's worker goes on at pc with the set S in hand.
Goto(r, pc, S) ==
    /\ wpc' = [wpc EXCEPT ![r] = pc]
    /\ left' = [left EXCEPT ![r] = S] /\ seen' = [seen EXCEPT ![r] = {}]
    /\ UNCHANGED repoke

\* The pass ends; the Run is dispatched again when it asked for it (again) or
\* when somebody poked it meanwhile.
Leave(r, again) ==
    /\ wpc' = [wpc EXCEPT ![r] = IF again \/ r \in repoke THEN "queued" ELSE "none"]
    /\ repoke' = repoke \ {r}
    /\ left' = [left EXCEPT ![r] = {}] /\ seen' = [seen EXCEPT ![r] = {}]
    /\ woke' = [woke EXCEPT ![r] = NoWake]

Trouble == troubles < MaxTroubles /\ troubles' = troubles + 1

\* Seeded fault: only the timer is stopped.
UnparkTimer(r) ==
    /\ joins' = joins
    /\ timers' = [timers EXCEPT ![r] = "off"]

\* unpark: the registration is dropped and its timer stopped.
Unpark(r) ==
    /\ joins' = Remove(joins, r)
    /\ timers' = [timers EXCEPT ![r] = "off"]

\* watchset.Notify: the channels watching r are closed.
Notified(r) ==
    [c \in Callers |-> IF On[c] = r /\ watch[c] = "open" THEN "closed" ELSE watch[c]]

-----------------------------------------------------------------------------
(* The worker: processRun. *)

\* A pass that finds an operation to run and no cancellation of it.
Deciding(r) ==
    /\ wpc[r] = "queued" /\ Live(r) /\ db[r].phase # "ended"
    /\ db[r].phase = "forward" => ~db[r].cancel

\* Seeded fault: a Run that is not found is looked for again.
PassOverRetries(r) ==
    /\ wpc[r] = "queued" /\ ~Live(r)
    /\ IF db[r].life = "terminal" THEN Goto(r, "notify", {}) /\ UNCHANGED woke
                                  ELSE Leave(r, TRUE)
    /\ UNCHANGED <<store, engine, callers, tries, troubles, history>>

\* A terminal Run is announced again; a reaped one is not found.
PassOver(r) ==
    /\ wpc[r] = "queued" /\ ~Live(r)
    /\ IF db[r].life = "terminal" THEN Goto(r, "notify", {}) /\ UNCHANGED woke
                                  ELSE Leave(r, FALSE)
    /\ UNCHANGED <<store, engine, callers, tries, troubles, history>>

\* Seeded fault: the gate registers and reads no target.
GateSkipsReads(r) ==
    /\ Deciding(r) /\ Parked(r)
    /\ joins' = Register(joins, r, db[r].park.targets, AwaitNeed(db[r].park))
    /\ Goto(r, "targets", {})
    /\ UNCHANGED <<store, up, timers, invalid, woke, callers, tries, troubles, history>>

\* awaitGate registers before anything is read; only a fresh registration
\* searches for a cycle and reads the targets.
Gate(r) ==
    /\ Deciding(r) /\ Parked(r)
    /\ joins' = Register(joins, r, db[r].park.targets, AwaitNeed(db[r].park))
    /\ IF Registered(joins, r) THEN Goto(r, "targets", {})
                               ELSE Goto(r, "gatewalk", db[r].park.targets)
    /\ UNCHANGED <<store, up, timers, invalid, woke, callers, tries, troubles, history>>

\* The search ended without a cycle: the gate goes on to read the targets,
\* parkAwait to the gate.
WalkEnds(r) ==
    IF wpc[r] = "gatewalk" THEN Goto(r, "targets", db[r].park.targets)
                           ELSE Goto(r, "queued", {})

\* Seeded fault: the search does not follow the parks of the targets.
WalkShallow(r) ==
    /\ wpc[r] \in {"gatewalk", "parkwalk"} /\ r \notin left[r]
    /\ \E t \in left[r] :
         LET todo == left[r] \ {t} IN
         IF todo = {} THEN WalkEnds(r)
         ELSE left' = [left EXCEPT ![r] = todo] /\ UNCHANGED <<wpc, repoke, seen>>
    /\ UNCHANGED <<store, engine, woke, callers, tries, troubles, history>>

\* awaitCycle reads one head after another; others park and finish meanwhile.
\* The targets of a parked Run are searched in turn, the first MaxVisited of them.
WalkStep(r) ==
    /\ wpc[r] \in {"gatewalk", "parkwalk"} /\ r \notin left[r]
    /\ \E t \in left[r] :
         LET visited == seen[r] \cup {t}
             further == IF Parked(t) THEN db[t].park.targets ELSE {}
             todo == (left[r] \cup further) \ visited
         IN  IF todo = {} \/ Cardinality(visited) >= MaxVisited THEN WalkEnds(r)
             ELSE /\ seen' = [seen EXCEPT ![r] = visited]
                  /\ left' = [left EXCEPT ![r] = todo]
                  /\ UNCHANGED <<wpc, repoke>>
    /\ UNCHANGED <<store, engine, woke, callers, tries, troubles, history>>

\* A head cannot be read: parkAwait comes again later, the gate goes on.
WalkFails(r) ==
    /\ wpc[r] \in {"gatewalk", "parkwalk"} /\ r \notin left[r]
    /\ Trouble
    /\ IF wpc[r] = "gatewalk" THEN Goto(r, "targets", db[r].park.targets) /\ UNCHANGED woke
                              ELSE Leave(r, TRUE)
    /\ UNCHANGED <<store, engine, callers, tries, history>>

\* The walk met the Run itself: markInvalid, once per reason, records why.
\* The gate drops the park first.
WalkFinds(r) ==
    /\ wpc[r] \in {"gatewalk", "parkwalk"} /\ r \in left[r]
    /\ IF wpc[r] = "gatewalk" THEN Unpark(r) ELSE UNCHANGED <<joins, timers>>
    /\ IF invalid[r] = db[r].park.targets THEN Leave(r, FALSE) /\ UNCHANGED invalid
       ELSE /\ invalid' = [invalid EXCEPT ![r] = db[r].park.targets]
            /\ Goto(r, "reveal", {}) /\ UNCHANGED woke
    /\ UNCHANGED <<store, up, callers, tries, troubles, history>>

\* The rest of markInvalid: the park is dropped and the callers are told.
Reveal(r) ==
    /\ wpc[r] = "reveal"
    /\ Unpark(r)
    /\ watch' = Notified(r)
    /\ Leave(r, FALSE)
    /\ UNCHANGED <<store, up, invalid, cpc, tries, troubles, history>>

\* targetDone: a terminal Run and one that is gone need no waiting for.
ReadTarget(r) ==
    /\ wpc[r] = "targets"
    /\ \E t \in left[r] :
         /\ joins' = IF Live(t) THEN joins ELSE Mark(joins, r, t)
         /\ left' = [left EXCEPT ![r] = @ \ {t}]
    /\ UNCHANGED <<store, up, timers, invalid, wpc, repoke, seen, woke, callers, tries,
                   troubles, history>>

\* settleAwait: the park becomes the operation's memory, for the reservation
\* to persist.
Settle(r, done, expired) ==
    woke' = [woke EXCEPT ![r] = [park |-> db[r].park, done |-> done, expired |-> expired]]

\* A target cannot be read: the Run proceeds with what it knows.
TargetUnread(r) ==
    /\ wpc[r] = "targets" /\ left[r] # {}
    /\ Trouble
    /\ Settle(r, Done(joins, r), FALSE)
    /\ Unpark(r)
    /\ Goto(r, "reserve", {})
    /\ unread' = unread \cup {r}
    /\ UNCHANGED <<store, up, invalid, callers, tries, must, cut, refused, stranded>>

\* Seeded fault: the deadline is asked before the targets.
WakeDeadlineFirst(r) ==
    /\ wpc[r] = "targets" /\ left[r] = {}
    /\ LET done == Done(joins, r) IN
         /\ Cardinality(done) >= AwaitNeed(db[r].park) \/ r \in passed
         /\ Settle(r, done, r \in passed)
    /\ Unpark(r)
    /\ Goto(r, "reserve", {})
    /\ UNCHANGED <<store, up, invalid, callers, tries, troubles, history>>

\* Enough targets are done, or else the deadline has passed: wake.
Wake(r) ==
    /\ wpc[r] = "targets" /\ left[r] = {}
    /\ LET done == Done(joins, r)
           enough == Cardinality(done) >= AwaitNeed(db[r].park)
       IN /\ enough \/ r \in passed
          /\ Settle(r, done, ~enough)
    /\ Unpark(r)
    /\ Goto(r, "reserve", {})
    /\ UNCHANGED <<store, up, invalid, callers, tries, troubles, history>>

\* Neither: the timer is armed, once per park, and the Run stays parked.
StayParked(r) ==
    /\ wpc[r] = "targets" /\ left[r] = {}
    /\ Cardinality(Done(joins, r)) < AwaitNeed(db[r].park) /\ r \notin passed
    /\ timers' = [timers EXCEPT ![r] =
                    IF db[r].park.deadline /\ @ = "off" THEN "armed" ELSE @]
    /\ Leave(r, FALSE)
    /\ UNCHANGED <<store, up, joins, invalid, callers, tries, troubles, history>>

\* The armed timer pokes the Run, if the park is still the one it was armed for.
TimerFires(r) ==
    /\ timers[r] = "armed" /\ r \in passed
    /\ timers' = [timers EXCEPT ![r] = "fired"]
    /\ wpc' = Poked({r}, wpc) /\ repoke' = Repoked({r})
    /\ UNCHANGED <<store, up, joins, invalid, left, seen, woke, callers, tries, troubles, history>>

\* Seeded fault: the reservation leaves the park on the cursor.
ReserveKeepsPark(r) ==
    /\ wpc[r] = "reserve" \/ (Deciding(r) /\ db[r].park = NoPark)
    /\ db' = [db EXCEPT ![r].memory = IF woke[r] # NoWake THEN woke[r] ELSE @]
    /\ Goto(r, "handler", {})
    /\ woke' = [woke EXCEPT ![r] = NoWake]
    /\ UNCHANGED <<passed, engine, callers, tries, troubles, history>>

\* runForward and runUnwind: the reservation persists the settled park.
Reserve(r) ==
    /\ wpc[r] = "reserve" \/ (Deciding(r) /\ db[r].park = NoPark)
    /\ \/ /\ db' = [db EXCEPT ![r].park = NoPark,
                              ![r].memory = IF woke[r] # NoWake THEN woke[r] ELSE @]
          /\ Goto(r, "handler", {})
          /\ woke' = [woke EXCEPT ![r] = NoWake]
          /\ passed' = passed \ {r} /\ UNCHANGED troubles
       \/ Trouble /\ Leave(r, TRUE) /\ UNCHANGED store
    /\ UNCHANGED <<engine, callers, tries, history>>

\* The operation is resolved, and with it its memory is gone.
Resolved(rec) == [rec EXCEPT !.phase = "ended", !.park = NoPark, !.memory = NoWake]

\* The handler succeeds or fails for good.
HandlerResolves(r) ==
    /\ wpc[r] = "handler"
    /\ \/ /\ db' = [db EXCEPT ![r] = Resolved(@)]
          /\ Goto(r, "queued", {}) /\ UNCHANGED <<troubles, woke>>
       \/ Trouble /\ Leave(r, TRUE) /\ UNCHANGED db
    /\ UNCHANGED <<passed, engine, callers, tries, history>>

\* An ordinary error: the operation is tried again and keeps its memory.
HandlerErrs(r) ==
    /\ r \in Flaky /\ wpc[r] = "handler" /\ tries[r] < MaxTries[r]
    /\ tries' = [tries EXCEPT ![r] = @ + 1]
    /\ Leave(r, TRUE)
    /\ UNCHANGED <<store, engine, callers, troubles, history>>

\* parkAwait: the park supersedes the memory, and is persisted before the
\* search for a cycle.
Park(r) ==
    /\ wpc[r] = "handler" /\ tries[r] < MaxTries[r]
    /\ tries' = [tries EXCEPT ![r] = @ + 1]
    /\ \E p \in Parks[r] :
         \/ /\ db' = [db EXCEPT ![r].park = p, ![r].memory = NoWake]
            /\ passed' = passed \ {r}
            /\ Goto(r, "parkwalk", p.targets) /\ UNCHANGED <<troubles, woke>>
         \/ Trouble /\ Leave(r, TRUE) /\ UNCHANGED store
    /\ UNCHANGED <<engine, callers, history>>

\* cancelOperation, for a pending operation or for an attempt that a cancel
\* request cut: the park is dropped without a wake, and after the commit a
\* park that asks for it cancels its targets.
CancelOperation(r) ==
    /\ wpc[r] \in {"queued", "handler"} /\ Live(r)
    /\ db[r].phase = "forward" /\ db[r].cancel
    /\ Unpark(r)
    /\ LET p == db[r].park
           reach == IF p.cascade THEN p.targets ELSE {}
       IN \/ /\ db' = [db EXCEPT ![r] = Resolved(@)]
             /\ Goto(r, IF reach = {} THEN "queued" ELSE "cascade", reach)
             /\ must' = must \cup reach
             /\ passed' = passed \ {r} /\ UNCHANGED <<troubles, woke>>
          \/ Trouble /\ Leave(r, TRUE) /\ UNCHANGED <<store, must>>
    /\ UNCHANGED <<up, invalid, callers, tries, cut, refused, unread, stranded>>

\* requestCancel: the store accepts the first request for a live Run.
Accepts(t) == Live(t) /\ ~db[t].cancel

\* Seeded fault: the cascade stops at the first target that is not accepted.
CascadeStops(r) ==
    /\ wpc[r] = "cascade"
    /\ \E t \in left[r] :
         IF Accepts(t)
           THEN /\ db' = [db EXCEPT ![t].cancel = TRUE]
                /\ wpc' = Poked({t}, wpc) /\ repoke' = Repoked({t})
                /\ left' = [left EXCEPT ![r] = @ \ {t}]
           ELSE /\ left' = [left EXCEPT ![r] = {}]
                /\ UNCHANGED <<db, wpc, repoke>>
    /\ UNCHANGED <<passed, engine, seen, woke, callers, tries, troubles, history>>

CascadeNext(r) ==
    /\ wpc[r] = "cascade"
    /\ \E t \in left[r] :
         /\ IF Accepts(t)
              THEN /\ db' = [db EXCEPT ![t].cancel = TRUE]
                   /\ wpc' = Poked({t}, wpc) /\ repoke' = Repoked({t})
              ELSE UNCHANGED <<db, wpc, repoke>>
         /\ left' = [left EXCEPT ![r] = @ \ {t}]
    /\ UNCHANGED <<passed, engine, seen, woke, callers, tries, troubles, history>>

\* A request the store refuses is logged and not made again.
CascadeFails(r) ==
    /\ wpc[r] = "cascade"
    /\ Trouble
    /\ \E t \in left[r] :
         /\ left' = [left EXCEPT ![r] = @ \ {t}]
         /\ refused' = refused \cup {t}
    /\ UNCHANGED <<store, engine, wpc, repoke, seen, woke, callers, tries, must, cut,
                   unread, stranded>>

CascadeEnds(r) ==
    /\ wpc[r] = "cascade" /\ left[r] = {}
    /\ Goto(r, "queued", {})
    /\ UNCHANGED <<store, engine, woke, callers, tries, troubles, history>>

\* Seeded fault: the callers of Wait are not told.
CommitQuietly(r) ==
    /\ wpc[r] = "queued" /\ Live(r) /\ db[r].phase = "ended"
    /\ db' = [db EXCEPT ![r].life = "terminal"]
    /\ Goto(r, "complete", {})
    /\ UNCHANGED <<passed, engine, woke, callers, tries, troubles, history>>

\* The terminal commit, then completeRun: the callers of Wait, the join, and
\* the Runs that crossed their threshold.  When the commit fails the pass ends
\* and does not ask for another: the Run is left as it was until it is poked.
Commit(r) ==
    /\ wpc[r] = "queued" /\ Live(r) /\ db[r].phase = "ended"
    /\ \/ /\ db' = [db EXCEPT ![r].life = "terminal"]
          /\ Goto(r, "notify", {}) /\ UNCHANGED <<troubles, woke, stranded>>
       \/ /\ Trouble /\ Leave(r, FALSE) /\ UNCHANGED db
          /\ stranded' = stranded \cup {r}
    /\ UNCHANGED <<passed, engine, callers, tries, must, cut, refused, unread>>

Notify(r) ==
    /\ wpc[r] = "notify"
    /\ watch' = Notified(r)
    /\ Goto(r, "complete", {})
    /\ UNCHANGED <<store, engine, woke, cpc, tries, troubles, history>>

AwaitTargetDone(r) ==
    /\ wpc[r] = "complete"
    /\ joins' = Complete(joins, r)
    /\ IF CompleteKicks(joins, r) = {} THEN Leave(r, FALSE)
       ELSE Goto(r, "kick", CompleteKicks(joins, r)) /\ UNCHANGED woke
    /\ UNCHANGED <<store, up, timers, invalid, callers, tries, troubles, history>>

DeliverKick(r) ==
    /\ wpc[r] = "kick"
    /\ \E t \in left[r] :
         /\ wpc' = Poked({t}, wpc) /\ repoke' = Repoked({t})
         /\ left' = [left EXCEPT ![r] = @ \ {t}]
    /\ UNCHANGED <<store, engine, seen, woke, callers, tries, troubles, history>>

KicksDelivered(r) ==
    /\ wpc[r] = "kick" /\ left[r] = {}
    /\ Leave(r, FALSE)
    /\ UNCHANGED <<store, engine, callers, tries, troubles, history>>

-----------------------------------------------------------------------------
(* The callers of Run.Wait.  A call registers its channel before it reads. *)

CallWait(c) ==
    /\ up /\ cpc[c] = "idle"
    /\ cpc' = [cpc EXCEPT ![c] = "read"] /\ watch' = [watch EXCEPT ![c] = "open"]
    /\ UNCHANGED <<store, engine, worker, tries, troubles, history>>

Return(c) ==
    /\ cpc' = [cpc EXCEPT ![c] = "returned"] /\ watch' = [watch EXCEPT ![c] = "none"]

\* One read decides: a Run that is terminal or gone ends the call, and so do an
\* invalid one and a call from a handler's context.
WaitReads(c) ==
    /\ cpc[c] = "read"
    /\ IF Live(On[c]) /\ invalid[On[c]] = {} /\ c \notin Inside
         THEN cpc' = [cpc EXCEPT ![c] = "wait"] /\ UNCHANGED watch
         ELSE Return(c)
    /\ UNCHANGED <<store, engine, worker, tries, troubles, history>>

\* The channel is closed: the loop registers and reads again.
WaitWoken(c) ==
    /\ cpc[c] = "wait" /\ watch[c] = "closed"
    /\ cpc' = [cpc EXCEPT ![c] = "read"] /\ watch' = [watch EXCEPT ![c] = "open"]
    /\ UNCHANGED <<store, engine, worker, tries, troubles, history>>

\* The caller's context ends.
WaitGivesUp(c) ==
    /\ cpc[c] = "wait" /\ Return(c)
    /\ UNCHANGED <<store, engine, worker, tries, troubles, history>>

-----------------------------------------------------------------------------
(* Everybody else: users, retention, time, and the end of the process. *)

Cancel(r) ==
    /\ up /\ r \in Cancelable /\ Accepts(r)
    /\ db' = [db EXCEPT ![r].cancel = TRUE]
    /\ wpc' = Poked({r}, wpc) /\ repoke' = Repoked({r})
    /\ UNCHANGED <<passed, engine, left, seen, woke, callers, tries, troubles, history>>

\* sweepRetention deletes a terminal Run past its retention.
Reap(r) ==
    /\ up /\ r \in Reapable /\ db[r].life = "terminal"
    /\ db' = [db EXCEPT ![r].life = "gone"]
    /\ UNCHANGED <<passed, engine, worker, callers, tries, troubles, history>>

\* The deadline is an absolute time; it comes whether the Engine is up or not.
DeadlinePasses(r) ==
    /\ Parked(r) /\ db[r].park.deadline /\ r \notin passed
    /\ passed' = passed \cup {r}
    /\ UNCHANGED <<db, engine, worker, callers, tries, troubles, history>>

\* The process ends, or Stop ends the base context: the maps and the workers
\* are gone, and a call that waits returns.
Down ==
    /\ up /\ Trouble
    /\ up' = FALSE
    /\ joins' = NewSet /\ timers' = [r \in Runs |-> "off"]
    /\ invalid' = [r \in Runs |-> {}]
    /\ wpc' = [r \in Runs |-> "none"] /\ repoke' = {}
    /\ left' = [r \in Runs |-> {}] /\ seen' = [r \in Runs |-> {}]
    /\ woke' = [r \in Runs |-> NoWake]
    /\ cpc' = [c \in Callers |-> IF cpc[c] = "idle" THEN "idle" ELSE "returned"]
    /\ watch' = [c \in Callers |-> "none"]
    /\ cut' = cut \cup UNION {left[r] : r \in {x \in Runs : wpc[x] = "cascade"}}
    /\ UNCHANGED <<store, tries, must, refused, unread, stranded>>

\* Start dispatches every nonterminal Run.
Restart ==
    /\ ~up
    /\ up' = TRUE
    /\ wpc' = Poked({r \in Runs : Live(r)}, wpc)
    /\ UNCHANGED <<store, joins, timers, invalid, repoke, left, seen, woke, callers,
                   tries, troubles, history>>

\* Nothing is left to do but what nobody is obliged to.
Rest ==
    /\ up /\ \A r \in Runs : wpc[r] = "none" /\ (timers[r] = "armed" => r \notin passed)
    /\ UNCHANGED vars

Pass(r) == PassOver(r) \/ Gate(r) \/ CancelOperation(r)
Walk(r) == WalkStep(r) \/ WalkFails(r) \/ WalkFinds(r) \/ Reveal(r)
AwaitGate(r) == ReadTarget(r) \/ TargetUnread(r) \/ Wake(r) \/ StayParked(r)
Attempt(r) == Reserve(r) \/ HandlerResolves(r) \/ HandlerErrs(r) \/ Park(r)
Cascade(r) == CascadeNext(r) \/ CascadeFails(r) \/ CascadeEnds(r)
CompleteRun(r) ==
    Commit(r) \/ Notify(r) \/ AwaitTargetDone(r) \/ DeliverKick(r) \/ KicksDelivered(r)

Work(r) == Pass(r) \/ Walk(r) \/ AwaitGate(r) \/ Attempt(r) \/ Cascade(r)
           \/ CompleteRun(r)
Wait(c) == WaitReads(c) \/ WaitWoken(c)

Next ==
    \/ \E r \in Runs : Work(r) \/ TimerFires(r) \/ DeadlinePasses(r) \/ Cancel(r) \/ Reap(r)
    \/ \E c \in Callers : CallWait(c) \/ Wait(c) \/ WaitGivesUp(c)
    \/ Down \/ Restart \/ Rest

Spec == Init /\ [][Next]_vars

\* Workers and calls under way are goroutines, timers fire and time passes: as
\* long as any of them can go on, one does.  (What each has to do is bounded, so
\* this is as much as fairness to each of them, and assumes less.)
Progress ==
    \/ \E r \in Runs : Work(r) \/ TimerFires(r) \/ DeadlinePasses(r)
    \/ \E c \in Callers : Wait(c)

FairSpec == Spec /\ WF_vars(Progress)

-----------------------------------------------------------------------------
(* Properties. *)

\* Run.Status: what it reports of a live Run.
State(r) ==
    IF invalid[r] # {} THEN "invalid"
    ELSE IF db[r].park # NoPark /\ ~db[r].cancel THEN "awaiting"
    ELSE IF wpc[r] # "none" THEN "running" ELSE "runnable"

\* A Run whose Status is awaiting executes no handler, and while the Engine is
\* up a Run that is reported runnable and that nobody is going to run is one of
\* two: its operations are resolved and the commit of its end failed, which
\* processRun does not try again before a cancel or a restart; or it was canceled
\* and its unwind is parked (Status hides a canceled Run's park, which a
\* cancellation ends in the forward phase only).
StatusHonest ==
    \A r \in Runs : up /\ Live(r) =>
        /\ State(r) = "awaiting" => wpc[r] # "handler"
        /\ State(r) = "runnable" =>
             \/ r \in stranded /\ db[r].phase = "ended"
             \/ db[r].cancel /\ db[r].phase = "unwind" /\ db[r].park # NoPark

AtRest(r) == up /\ Parked(r) /\ wpc[r] = "none" /\ invalid[r] = {}

\* A registration is for the park the store holds: a live Run's, on exactly its
\* targets.  Register leaves an old registration as it is, so one that outlived
\* its park would stand in for the next; and a Run at rest without one, or with
\* a deadline and no timer, would never be woken.
RegistrationIsThePark ==
    \A r \in Runs :
        /\ Registered(joins, r) => Parked(r) /\ joins[r].keys = db[r].park.targets
        /\ timers[r] # "off" => Registered(joins, r)
        /\ AtRest(r) => /\ Registered(joins, r)
                        /\ db[r].park.deadline => timers[r] = "armed"

\* The Engine's join set and timers agree with the stored parks.
JoinSound == TypeOK /\ RegistrationIsThePark

\* No completion is missed: a parked Run with enough targets finished is about
\* to be reached by one of them.
NoCompletionMissed ==
    \A r \in Runs :
        /\ AtRest(r)
        /\ Cardinality({t \in db[r].park.targets : ~Live(t)}) >= AwaitNeed(db[r].park)
        => \E t \in db[r].park.targets :
              wpc[t] \in {"notify", "complete"} \/ (wpc[t] = "kick" /\ r \in left[t])

\* A caller asleep in Wait for a Run that is terminal, gone or invalid is about
\* to be notified.
NoWaitMissed ==
    \A c \in Callers :
        cpc[c] = "wait" /\ watch[c] # "closed" =>
            \/ Live(On[c]) /\ invalid[On[c]] = {}
            \/ wpc[On[c]] \in {"notify", "reveal"}

\* Whatever ends while somebody gets ready to wait for it, a parked Run or a
\* caller of Wait, somebody is about to wake the one who waits.
NothingMissed == NoCompletionMissed /\ NoWaitMissed

\* No Runs wait on each other in a circle at rest, however their parks were
\* interleaved: the search of the one that wrote last saw the others.  (One
\* failing read of the store does not open a way around it; the search that
\* failed is made again by the gate.)
NoStandingCycle ==
    ~ \E S \in SUBSET Runs :
        S # {} /\ \A r \in S : AtRest(r) /\ db[r].park.targets \cap S # {}

\* A handler is told the truth about the park that ended: the targets in Done
\* are finished, it ended for its mode or, with too few, at its deadline (or
\* because a target could not be read).
WakeIsTrue ==
    \A r \in Runs : \A m \in {woke[r], db[r].memory} \ {NoWake} :
        LET enough == Cardinality(m.done) >= AwaitNeed(m.park) IN
        /\ \A t \in m.done : ~Live(t)
        /\ ~enough => m.expired \/ r \in unread
        /\ m.expired => ~enough /\ m.park.deadline

\* A cancellation reaches the targets of a park that cascades, each of them,
\* unless the process ended or the store failed while it did; and nobody else.
CascadeExact ==
    /\ \A t \in must : \/ ~Live(t) \/ db[t].cancel \/ t \in cut \cup refused
                       \/ \E r \in Runs : wpc[r] = "cascade" /\ t \in left[r]
    /\ \A t \in Runs : db[t].cancel => t \in Cancelable \cup must

\* The same when the process ends: the documents say that the cascade survives a
\* restart with the park.
CascadeSurvives ==
    up => \A t \in must : \/ ~Live(t) \/ db[t].cancel \/ t \in refused
                          \/ \E r \in Runs : wpc[r] = "cascade" /\ t \in left[r]

\* In the end, unless the Engine is down, every worker has gone, no park is left
\* that could end - enough targets are finished, or it has a deadline - and no
\* caller waits for a Run that has ended or is invalid.  (A Run whose terminal
\* commit failed has not ended, and those who wait for it go on waiting.)
EveryWaitEnds ==
    <>[] \/ ~up
         \/ /\ \A r \in Runs : wpc[r] = "none"
            /\ \A r \in Runs : Parked(r) /\ invalid[r] = {} =>
                 /\ ~db[r].park.deadline
                 /\ Cardinality({t \in db[r].park.targets : ~Live(t)}) < AwaitNeed(db[r].park)
            /\ \A c \in Callers :
                 cpc[c] = "wait" => Live(On[c]) /\ invalid[On[c]] = {}
=============================================================================
