# TLA+ verification of durable

durable runs *pipelines*: a Run executes its Steps in order, each Step's
handler in attempts that are retried until they succeed or fail permanently;
after a failure or a cancellation the Steps that succeeded are unwound in
reverse. Every fact is a row of a store, so that a Run survives crashes and
redeployments. This directory holds the TLA+ models of that machinery, the TLC
configurations that check them on small instances, and TLAPS proofs.

## 1. Inventory

| Component | State | Operations | Hard part | What makes it correct |
|---|---|---|---|---|
| Ledger (`internal/ledger`) | none | `NextForward`, `NextUnwind` | facts written by one deployment, read by another | unwind complete, in reverse, never re-run |
| Run worker (`engine.processRun`) | the carried record, the Run's durable record | read, decide, reserve, invoke, resolve, park, reduce | the record is read once and carried; store calls fail; the process ends anywhere | no attempt number reused, nothing durable taken back, outcome explained by the Failure |
| Cancellation (`requestCancel`, `preemptAttempt`, `attemptContext`, `dirtyset`) | `attemptCancel`, `pendingPreempt`, dirty marks | request, mark, preempt, poke | four steps against the worker's steps | a forward attempt is always cut, an unwind never, a request always takes effect |
| Dispatcher (`internal/dispatcher`) | active set, re-poke set, wake signals, semaphore | `Dispatch`, `Wake` | a poke while a worker runs, a wake before the worker waits | one worker per Run, no poke lost |
| Run classes (`internal/runpool`) | line and tokens per class | `Admit`, `Acquire`, `Hold`, `Release`, `Clear` | each call may owe another Run a kick | capacity and order respected, no token idle while a Run waits |
| Concurrency classes (`internal/tokenpool`) | tokens and FIFO waiters | `Acquire`, `Release`, `Clear` | as above, per attempt | as above |
| Scheduling (`Pipeline.Schedule`) | class line, store slots | admit, create, release, dispatch | concurrent callers for one resource | one active Run per slot, cap respected |
| Await (`awaitGate`, `parkAwait`, `internal/joinset`) | join set, park in the record | park, gate, complete, cascade | a target ends while the waiter parks | a park always ends; cycles are found |
| Waiting (`Run.Wait`, `internal/watchset`) | watchers | `Watch`, `Notify` | the Run ends between the read and the wait | no missed notification |
| Stores (`store/mem`, `store/bbolt`) | records, slots, terminal rows, expiry | `CreateRun`, `ApplyTransition`, `RequestCancel`, `ReapTerminal`, reads | terminal Runs staged and drained; batched transactions re-run | both implement `driver.Store` |
| Blob cache (`store/bbolt/blobcache.go`) | LRU with byte account | set, fill, lookup, drop | fill racing drop | account equals content, a read is its snapshot |
| Storage encoding (`store/internal/storagepb`) | none | to and from protobuf, `CompactTerminal` | what protobuf does not tell apart | a Run reads back as it was written |
| Authoring API (`fail.go`, `await.go`, `state.go`, `schedule.go`) | none | `Fail`, `AwaitRun`/`All`/`Any`, options, `LookupState` | chains of wrapped errors | a return resolves alike whatever wraps it |
| Code generator (`cmd/protoc-gen-durable`), definitions (`pipelinedef`, `Engine.Bind`) | pipelines, owners of Steps, exclusion sets | `Generate`, `New`, `Bind`, `Start` | refusals must leave nothing; maps frozen for lock-free readers | what is generated binds; one owner per Step; exclusion is mutual |
| Store registry and limits (`store.Open`, `boundText`, `backoff`) | none | parse, bound, delay | boundary values | what a caller set holds |
| Observability (`durableotel`, `observer`) | none | spans, metrics, events | a span is closed before the engine resolves | the span says what the engine does |
| Start, Stop | started, draining, base context | `Start`, `Stop` | dispatch while seeding; attempts during a drain | every nonterminal Run has a worker |

Interactions: callers (`Schedule`, `Cancel`, `Wait`) and workers share the
store and the Engine's maps; workers of different Runs meet in the pools, the
join set and the dispatcher. The hazards these give are in `PROJECT.json`,
each at its line, with the properties that watch for it.

## 2. Plan

Modules are written in the order of what a user of the system loses if they
are wrong; each is written so that it can be proved about (constants with named
assumptions, one action per operation, no recursive operators).

| Step | Module | Composes | Abstract promise | State |
|---|---|---|---|---|
| 1 | `Ledger` | - | unwind complete and in reverse | done |
| 2 | `RunLifecycle` | `Ledger` | one Run survives faults, cancels, redeployments | done |
| 3 | `RunLifecycleProofs` | `RunLifecycle` | type correctness, the cancel protocol | done |
| 4 | `RunPool`, `RunClass` | `RunPool` | capacity, order, no lost kick | done |
| 5 | `RunClassProofs` | `RunClass` | the books agree, the class bound, members live, no token idle | done |
| 6 | `JoinSet`, `Awaiting` (await, cascade, cycle search, `Run.Wait`, `watchset`) | `JoinSet` | every wait that can end ends | done |
| 7 | `StoreRecords`, `Store`, `BboltStore` | `BboltStore` refines `Store` | bbolt implements the contract the in-memory store executes | done |
| 8 | `TokenPool` (concurrency classes) | - | no token idle while a Run waits | done |
| 9 | `TokenClass` (the dispatcher's goroutines, the class gate) | `TokenPool` | no Run forgotten, no line stranded | done |
| 10 | `BlobCache`, `BlobReads` | `BlobCache` | a read returns its snapshot, whatever the caches do | done |
| 11 | `Encoding`, `Resolution`, `Definition`, `Limits`, composed by `Calls` | the four | functions of their arguments, checked against what a caller may rely on | done |
| 12 | `CallsProofs` | `Calls` | the registry; spans, wrapping and resolutions; the storage encoding; parking again on what is pending; what is generated binds; limits, policies, options and URIs | done |
| 13 | `RecordProofs` | `RunLifecycle` | the carried record, nothing taken back, the unwind's order, the outcome | done |
| 14 | `StoreProofs` | `BboltStore`, `Store` | the rows, the heads, the refinement of the contract | done |
| 15 | `TokenProofs`, `AwaitingProofs` | `TokenClass`, `Awaiting` | no token idle, no Run forgotten; no completion missed, no standing circle | done |
| 16 | `BlobProofs` | `BlobReads` | a read is its snapshot, a cached blob is the file's, the accounts are what is cached | done |

## 3. Modules and the code

**`Ledger`** is `internal/ledger`: a pure decision from the topology and the
status of every operation. A Step is `[id, unwind, retired]`; `NextForward` and
`NextUnwind` return the kind of decision and the Step it concerns, with the
violation checks (two unresolved operations) first, as in the code.

**`RunLifecycle`** is `engine.processRun` and all it calls, for one Run.

- *Store.* `db` is the `RunRecord`; `Apply` is `engine.apply` followed by the
  store's `ApplyTransition` (`Merge`: cursor always, operations upserted, a
  displaced unresolved unwind flushed; `Compact` at terminality). A failing call
  is `StoreFault`. Times are reduced to whether they have come: `due`, `expired`.
- *Worker.* `pc` follows the code from store call to store call and from lock to
  lock: `queued`, `take` (the dirty mark), `read`, `decide`, then `cancel`,
  `reserve` - `register` - `handler` - `deregister` - `resolve` (and `cycle` for
  a park), or `commit` - `finish`. `rec` is the record the worker carries from
  one iteration to the next without reading it again; `Exit` is the dispatcher's
  end of a worker with its re-poke.
- *Callers.* `CancelRequest`, `CancelMark`, `CancelPreempt`, `CancelPoke` are the
  four steps of `requestCancel`, each of which interleaves with the worker's.
- *Environment.* Time, the completion of await targets, the await deadline,
  `Stop` with and without drain, a crash, and `Restart` with any topology of
  `Topologies`.

Handlers are nondeterministic over everything the engine distinguishes: success,
permanent failure, error, park, panic, and a violation of the handler contract.
Payloads, messages, backoff durations and observers are left out.

**`RunPool`** is `internal/runpool` for one class: a pool is a record and every
method, which runs under `Pool.mu`, a function on pools together with the kick it
returns. The sorted slice is a set with the order `Before` (eligibility time,
then RunID); an index in the slice is the number of members ahead.

**`RunClass`** composes several Runs with that pool: the `Schedule` call of each
Run (stamp, admit, slot check, create, take back or count, dispatch), its worker
(gate, kick, reservation, attempt, release, exit), `Cancel`, and `Start` from the
moment it opens the Engine to callers to its last dispatch. A `Crash` leaves the
store and starts another deployment with any capacity of `Capacities`, in which
some Runs may be invalid. A Run is `absent`, `live` or `terminal`, with
`StartedAt` set or not; what happens between its start and its terminal commit is
`RunLifecycle`'s subject and is one action here (`Attempt`), which ends the Run
or ends the pass. The kick a worker owes is kept in `owed` until `DeliverKick`
dispatches it; the one `Schedule`'s `Release` returns is dropped, as in the code.
Simplifications: the two commits that resolve a canceled Run that never started
are one; reading the record and acting on it at the gate are one step, since
only the Run's own worker starts or completes it; a Run made invalid by a
deployment still has its pipeline registered (an unregistered pipeline has no
class and is not seeded at all).

**`TokenPool`** is `internal/tokenpool`: like `RunPool` a record and functions on
it, with the kicks each call returns. Bypass (a Step without a class) and an
unlimited class are the same case. `Acquire` also has the cases of a waiter
parked on another class and of a bypass while parked; the Engine reaches neither,
because a throttled Run's next operation changes only by a cancel or by
invalidity, and both clear the park.

**`TokenClass`** composes several Runs with that pool and with the dispatcher,
taken apart to its goroutines: `Dispatch` up to the unlock, then the armed delay
(`Arm`, `TimerFires`, `Woken`), the semaphore (`Enter`), the pass, `ClearActive`
and the `Redispatch` the goroutine makes after it has given up its key. A key is
active exactly while `wpc` is not `none`, so one worker per Run is part of the
representation, as it is of the code's map; what needs checking is what happens
to the dispatches that are turned away. The goroutines that still owe a
redispatch are counted in `late`. A timer may fire at any time after it is armed:
how long a delay is does not matter, because the gate asks the clock again. An
attempt, its commit and the token's return are one step, since nobody but the
worker reads the progress. `requestCancel` is three steps here: the accepted
request with its mark and preemption, the `Wake`, the `Dispatch`. Shutdown, parks,
handler violations and a failed terminal commit are `RunLifecycle`'s.

**`StoreRecords`** is `store/driver`: the record, the cursor, the helpers both
stores share (`CompactTerminal`, `OverlayCursor`, `NextOrder`) and the transitions
an Engine sends for a record it read: a reservation, a retry or park, a
resolution, a cancellation, terminality, each with the rows `Engine.apply` flushes
for an operation that another one displaces. Blobs are size classes, because
the size decides whether bbolt keeps one inline or in a row beside; the
scheduling fields of the cursor are one Boolean, set or zero.

**`Store`** is `store/mem`, which keeps the records whole and is the reference of
the contract: every operation is one step under its mutex. `ReapTerminal` may
delete any of the expired Runs, since its loop ranges over a map.

**`BboltStore`** is `store/bbolt`. `db` has one field per kind of row of the six
buckets. A write transaction is an operator from `db` to `db` and one step: bbolt
has one writer and commits atomically, so a batch of calls that commits is its
calls one after another (and the group-commit setting only decides how many), and
a batch that is rolled back and run again is `BatchAborted`. What happens around
a commit has steps of its own: the staged counter (`CountStaged`, `DrainCount`),
the loop of `Drain` (`SweepTick`, `DrainTx`), `Open`, `Close` and `Crash`. The
refinement mapping reads the buckets with `GetRun`, as a caller does. A commit
that fails on I/O changes nothing and is left out, as is `Stats`; the blob
caches are `BlobReads`'s.

**`JoinSet`** is `internal/joinset`: a function from waiters to registrations and
the methods as functions on it; the index by key is derived.

**`Awaiting`** is several Runs that wait for each other, each with at most one
operation left. A handler parks (`Park`: persisted, then the cycle search, which
reads one head per `WalkStep` while others park and finish); a pass of a parked
Run is `awaitGate` from store call to store call (`Gate`, `WalkStep`,
`ReadTarget`, `Wake` or `StayParked`, the settled park persisted by `Reserve`); a
terminal commit is followed by `completeRun` step by step (`Commit`, `Notify`,
`AwaitTargetDone`, `DeliverKick`); a cancellation drops the park with its commit
and makes the requests of a cascade one by one (`CancelOperation`, `CascadeNext`,
`CascadeFails`). `Run.Wait` is its registration, its read and its sleep
(`CallWait`, `WaitReads`, `WaitWoken`, `WaitGivesUp`), against `watchset.Notify`.
Retention deletes terminal Runs (`Reap`), timers fire, a store call fails, the
terminal one included, the process ends and a restart dispatches what is
nonterminal. `must`, `cut`, `refused`, `unread` and `stranded` are history: which
targets a cascade owes a request, which of them a crash, a refusal or a failed read
accounts for, and whose terminal commit has failed.

**`BlobCache`** is `store/bbolt/blobcache.go` as functions on a cache: the order
of use, an entry and its account per Run, the total. **`BlobReads`** puts the two
caches of a store beside its file. Writes of several Runs share a transaction
(`draft` has its rows, `open` its Runs), which commits or is rolled back as a whole
(`TxCommits`, `TxFails`); a write owes the caches the calls it makes after the
commit (`TellCache`). A reap drops its output inside its transaction, which may yet
be rolled back (`ReapDrops`, `ReapEnds`). A read takes a snapshot and asks for one
blob at a time, and fills what it missed when it is through (`BeginRead` to
`Return`). Two reads are made inside a transaction and see what its earlier calls
have not yet committed: that of a `CreateRun` which finds its slot occupied
(`Occupied`), and that of a terminal transition, of its own Run (`CommitTerminal`).
Whether a blob is beside its row, and so cached at all, depends on its length.
`peeked` and `ahead` are history: the blobs that a read cached before their commit,
and those whose transaction was then rolled back. bbolt's second execution of a
batch's closures is a rollback followed by new writes; that of a creation, which
writes the same Run and input again, is left out here (`BboltStore` has it).

**`Encoding`** is `storagepb/convert.go` with `CompactTerminal` and
`UnwindFailures` of `store/driver`: every conversion there and back. Pointers are
sets of at most one value; a byte slice is nil, empty or content, because a proto3
bytes field without presence drops the difference between the first two.

**`Resolution`** is `fail.go` and `await.go`, the classification of a handler's
return in `runForward` and `runUnwind`, and the same return as `durableotel`'s
middleware reads it. An error is the sequence of links that `errors.As` visits.

**`Definition`** is the way from declarations to a started engine: what `Generate`
accepts, the handler interface and the `Config` it emits, what `pipelinedef.New`
makes of it, what `Bind` and `register` refuse, what `Start` freezes and resolves.
Names are sequences of words, so that a step called `UnwindA` and the unwind of a
step `A` can claim one method.

**`Limits`** is the arithmetic of the engine's inputs: `boundText` over the widths
of characters, `backoff` with its jitter as a set of delays, the options of
`Schedule`, `parseBytes` with an int whose greatest value is `MaxInt`, and the
openers. A delay is a float64 that becomes a `Duration`: one above `MaxDuration`, or
zero times an infinite growth (above `MaxFloat`), converts to what the build makes of
it, which is a choice. Up to there the float is taken as exact, and the jitter of an
infinite delay as infinite. The query of a URI is its pairs in order; `url.ParseQuery`
drops the ones that are not well formed (`Kept`).

**`Calls`** composes the four: a behaviour is one call with its arguments and its
answer; a deployment takes several steps, for definitions are bound one by one
with `Start` between any two of them.

## 4. Runs

| Run | Instance | What it shows |
|---|---|---|
| `lifecycle_redeploy` | five topologies, 1 restart, 1 store fault (2.2 million states) | no attempt runs before its reservation is durable; unwinding is complete and in reverse for the Steps of the deployment (`UnwindSound`); the outcome and the Failure explain each other |
| `lifecycle_live` | 2 Steps, 1 cancel, 1 retry, 1 restart (0.2 million) | the carried record is the stored one but for a cancel that is announced; a forward attempt is cut and an unwind never; nothing durable is taken back; no Run is left without a worker; under fairness the Run ends, parks, is invalid or meets a shutdown, and a cancel takes effect |
| `class_restart` | 3 Runs, two on one resource, one delayed, one that may break, capacity 1 or 2, queue of 1, store faults, 1 crash (2.2 million) | the pool's books, the class bound across a capacity change, no member leaked by conflicts, refusals, faults or the restart |
| `class_live` | 3 Runs, 1 token, 1 cancel, 1 Run that may break, 1 crash | no lost kick; every created Run reaches terminality unless it is invalid or an invalid Run keeps the token it holds by right |
| `token_class` | 4 Runs, 2 tokens, 3 workers; one Run is recovered, cancelable and retries or meets a fault once (1.0 million) | tokens are accounted for and no waiter is stale (`PoolSound`), no line is stranded, no Run is left without a dispatch |
| `bbolt_refines` | 2 Runs that exclude each other on a resource, 3 Steps of which one unwind may be displaced and restarted, 1 cancel, 1 crash or rolled-back batch, 2 instants, drain and reap batches of 1 (0.4 million) | the bbolt store implements the contract; heads agree with full reads; slots are the nonterminal Runs, no row is left behind, one row per operation (`RowsSound`) |
| `waiting` | 3 Runs: one that waits for both others, with a cascade, or for the first, with a deadline; one that unwinds and waits for the first; one about to end; a cancel, a caller of `Wait`, one retry, a retention sweep, one failing store call or process end (0.6 million) | the join set and the timers are those of the stored parks (`JoinSound`); no completion and no caller of `Wait` is missed (`NothingMissed`); no circle stands; a handler is told the truth about its park; a cascade reaches exactly its targets; a Run that `Status` would call runnable and nobody will run is one whose terminal commit failed or whose unwind is parked under a cancel; every wait that can end ends |
| `blob_reads` | 2 Runs of one Step whose writes share transactions, blobs of 1, 2 and 6 bytes, caches of 5 and 3, 1 reader, outside or inside a transaction, 1 rollback or restart (0.7 million) | a read is its snapshot; the account is the content, within the limit, and nothing cached contradicts the file (`CachesSound`); both but for a blob cached from a transaction that was rolled back |
| `functions` | every shape of each argument at its boundaries; deployments of up to four definitions in every order (56 thousand) | a Run reads back as it was written (`RecordSurvives`); resolutions do not depend on wrapping, and spans agree with them; a re-park covers the rest; generated definitions bind and can be implemented (`GeneratedSound`); one owner per Step; mutual exclusion; limits, policies, options and URIs hold (`SettingsHold`) |
| `lost_kick`, `lost_cascade`, `empty_state` | as small as the counterexample | section 7 |

A property with several named parts (`UnwindSound`, `RowsSound`, `PoolSound`,
`JoinSound`, `NothingMissed`, `CachesSound`, `RecordSurvives`, `GeneratedSound`,
`SettingsHold`) is their conjunction; each part has its own comment in the module,
and nearly all have a fault of their own. The type invariant of every state
machine is such a part, except that `RunClass`'s is left to its proof and
`Calls`, whose arguments are enumerated, has none.

Why the bounds are enough: two compensating Steps and one that only acts are the
least in which an unwind has a before and an after; one cancel cause suffices
because the store accepts the first only and the others return at once; one
restart puts a crash at every point of a Run's life, and a second would start
from states the first already reaches. Three Runs give the class a holder, a
head of the line and somebody behind it, and with two capacities a restart can
lower the capacity below the holders. In the store, every row belongs to one Run
and Runs meet only in the slots and in the staged and expiry indices, where two
already exclude, queue behind and overtake each other; batches of one make every
drain and every reap leave something behind. In `token_class` it takes four Runs
to show that a grant must wake the next in line: two release before the head that
was kicked runs, and somebody is left behind it. Three of the four are alike and
nobody cancels them; they are declared symmetric, which is sound because the
run checks invariants only and treats them alike. In `waiting` three Runs are the
least in which a Run waits for several, two close a circle, and a cascade has a
target that ends by itself; the bound of the cycle search (1024) is above them.
In `blob_reads` the limits let one Run's blobs fit, two Runs' evict each other
and the largest blob never fit; every further Run repeats the second's part, and
readers do not write to each other but through the cache, where a second one does
what the writer's calls already do; the reader may be the `CreateRun` that reads an
uncommitted Run, and the same or a later read meets what it left. In `functions` the lengths of sequences are
the least in which order, repetition and a middle exist (three options, three
targets, four characters); an int of 16 bits with units of 4, 8 and 12 bits stands
for 64 with 10, 20 and 30, so that a product overflows as it does there. A `Duration` of at most 20 units and a
float of at most 26 let the attempts enumerated pass both.

Deadlock is checked wherever the system is to go on: the states in which nothing
is left to do have an explicit stuttering step (`Quiescent`, `Rest`), so a state in
which a worker or a caller is stuck is reported. It is not checked in `functions`,
where a behaviour ends with the answer, and in `blob_reads`, where it ends when all
Runs are reaped. Every property has a fault (an operator marked "Seeded fault" or
"Mutant" before the definition it replaces) that breaks it.

**Fairness.** Weak fairness of a worker's steps, of a call already under way and
of `Start`: they are goroutines, Go schedules every runnable one, and none of
them waits for a lock that is held across a wait. Weak fairness of `Tick`,
`TimePasses` and `DeadlinePasses`: timers fire. Handlers are assumed to return and
to be retried a bounded number of times, which is the caller's part. Nothing is
assumed of callers (nobody must schedule, cancel or stop), of crashes, or of
await targets. In the store a committed call returns, the ticker fires and
`Drain` goes on once it has begun; nobody must write, open or close. In `Awaiting`
the workers' steps, the calls under way, armed timers and deadlines are fair
together (`Progress`): one of them is taken as long as one can be. Nobody must
cancel, reap, wait or give up, and a process that is down need not start again.

## 5. Proofs

All theorems hold for every value of the constants that satisfies the named
assumptions: any number of Steps, topologies, causes, Runs, capacities, faults,
restarts, definitions and error chains. The assumptions type the constants; beyond
that `DistinctSteps` says that a topology names a Step once (`Bind` refuses a
definition that repeats one; `pipelinedef.New` checks nothing), and the sets of Runs and of Steps are finite, as they are in
any store. Each invariant was first checked by TLC as an invariant of an instance.

- `TypeCorrect` (`RunLifecycleProofs`): `Spec => []TypeOK`. The types alone are
  not inductive: a reservation writes `forward[step]` or `unwind[step]`, so the
  proof carries `PhaseInv` (the worker's Step is one of the topology's exactly
  where the code uses it). The ledger lemmas show that a decision to run names a
  Step; they need a least and a greatest candidate, which come from the
  well-foundedness of `<`.
- `CancelCutsForwardAlways`, `UnwindNeverCutAlways` (`RunLifecycleProofs`). The
  inductive invariant has three parts. `AttemptInv`: an attempt is registered
  exactly while its handler runs, in the record's phase. `CauseInv`: every trace
  of a cancel in memory is of the request the store accepted. `PreemptInv`: a
  request the worker's record lacks is announced by the dirty mark, or its caller
  has yet to mark; and once the caller has passed its preemption without finding
  an attempt, the preemption waits in `pendingPreempt` for the registration. The
  last part is what closes the gap between the read and the registration.
- `CarriedRecordAlways`, `ReservedBeforeInvokedAlways`, `OutcomeExplainedAlways`,
  `UnwindSoundAlways`, `DurableMonotoneAlways` (`RecordProofs`). On top of the
  above, the inductive invariant says that the record carried past a read is the
  stored one in every field but the cancel request, and the park while a settled one
  waits for its reservation (`CopyInv`); that the operation the worker is on was not
  resolved before (`OpInv`); that no handler was given an attempt number beyond the
  durable count (`SeenInv`); and that what the ledger decided on is still so when it
  is acted on (`OrderInv`). The first is what makes the others carry over from the
  copy to the store. The action property `DurableMonotone` follows step by step.
- `NeverStrandedWithoutFaults` (`RecordProofs`): until a store call fails no Run is
  left without a worker. With a failed terminal commit it is false (section 7).
- `PoolConsistentAlways` (`RunClassProofs`): `TypeOK` and `PoolConsistent`
  together are inductive (a `Release` needs `inUse` to count the holder before it
  subtracts); one lemma per pool operation.
- `StartedHoldAlways`, `StartsWithinCapacityAlways` (`RunClassProofs`): under
  `~EarlyCallers`. `Quiet` and `Seeding` say that nobody acts before the pool is
  seeded and that seeding holds for the started Runs only; `Created` and
  `PastGate` tie a worker's position to the store; `Fits` says that while some
  holder has yet to start, `inUse` is within the capacity, because only `Hold`
  exceeds it. A reservation then commits with the started Runs among the holders
  and the holders within the capacity. The instance "early schedule" of section 7
  shows that the assumption cannot be dropped. `ClassInv` was model-checked on
  small instances first.
- `MembersLiveAlways` (`RunClassProofs`): a member of the class is live, or about to
  leave it. It needs `~EarlyCallers` and that no Run is canceled or the queue has no
  bound; the proof attempt without the second showed the interleaving "late
  count" of section 7, which the proof therefore excludes. The strengthening
  (`MemberInv`) says that nobody reaches a Run whose call has not admitted it - it is
  no member, has no worker and is owed no kick (`Unseen`) - that such a Run is still
  live when it is counted, and that what `Start` has listed is live while it seeds.
- `NoIdleTokenAlways` (`RunClassProofs`): while the class has a free token and
  somebody in line, whoever is first is on its way to ask for it. The hypotheses are
  those of `MembersLiveAlways` and that no admission is taken back, since the kick
  that `Release` returns to `Schedule` is dropped (the instance "lost kick" of
  section 7); `NothingTakenBack` derives the last one where no write fails and no two
  Runs share a slot. The invariant (`IdleInv`) says that a kick is delivered before its
  worker goes on (`Owing`); that a Run reported invalid is out of the line for good,
  so nobody kicks it in vain (`OutOfLine`); that `Start` dispatches every Run it put in
  line (`QueuedListed`); and that the first Run of the line, when there is room for it,
  has a worker that will make another pass, is owed a kick, or is about to be
  dispatched by its call or by `Start` (`HeadOnItsWay`). A pool operation that brings
  a new Run to the head, or frees a token for it, returns it as its kick.
- `PoolSoundAlways`, `NoTokenIdleAlways`, `NoRunForgottenAlways` (`TokenProofs`), for
  any Runs, classes and capacities, and any number of workers. `Books` says that the
  pool's counts are those of the holders and that a line lists the parked Runs of
  its class once each; `AtWork` ties a worker's place to the token it holds and to
  the Run's operation. With these and the absence of stale waiters the three
  properties keep each other: a line is not stranded because its head needs the
  class and is told, and lemmas say of each pool operation who is at the head
  afterwards and who is woken.
- `StoreContractHolds`, `RowsSoundAlways`, `HeadAgreesAlways` (`StoreProofs`), for any
  Runs, Steps, slots, exclusions, batch sizes and limits. `StoreContractHolds` is the
  refinement `Spec => Contract!Spec` under the mapping that reads every Run with
  `GetRun`: each commit is one step of the in-memory store, and staging, draining,
  rolled-back batches, opening, closing and crashes leave every reader's answer as
  it was. It needs the soundness of the rows (`Sound`: no row of the stage
  without its Run's, the staged bucket the terminal Runs whose stage lingers, the
  expiry index and the outputs those of the terminal rows, the slots those of the
  nonterminal Runs, one row per operation under its order, and the operation of a
  cursor unresolved) and nothing of the counters, which only decide when a sweep
  runs.
- `JoinSoundAlways`, `StatusHonestAlways`, `NothingMissedAlways`, `WakeIsTrueAlways`,
  `CascadeExactAlways` (`AwaitingProofs`), for any finite set of Runs and any parks,
  callers, failures and process ends. The invariant is one of each Run: where its
  worker is and what the store then says (`Place`), that a registration is for the
  stored park with the threshold of its mode and marks only what has finished
  (`Entry`), that a live Run without a worker has all it needs to be woken (`Idle`),
  that a finished target is marked, about to be announced, or about to be read by
  the waiter (`Cover`), that a Run at rest past its threshold is in the hands of
  somebody who will kick it (`Kick`), and that a remembered park is true (`Memory`).
  `Cover` is the heart: registering before reading is what makes a step of either
  side preserve it. `Idle` has the exception that `StatusHonest` names: a Run whose
  terminal commit failed has its operations resolved and waits for a poke. A step of
  one Run keeps the others' parts when it announces an end and forgets no kick
  (`Hand`), so each action needs its own Run's part only.
- `NoStandingCycleAlways` (`AwaitingProofs`): if there are at most `MaxVisited` Runs,
  then until a second store call fails or process ends, no circle of parks comes to
  rest. A circle is a smallest set of parked valid Runs each of which waits for one
  of them. While nothing has failed, the search of some member after its park is
  under way and has all of that member's targets, and those of the members it has
  visited, visited or listed (`ParkFinds`); a search that ended without finding its
  own Run would have visited a smaller circle. After one failure the same holds of
  the gate's search, or some member has not come to the gate (`GateFinds`). After
  two it is false: section 7.
- `BlobsAgreeAlways`, `ReadIsSnapshotAlways`, `CacheIsFileAlways` (`BlobProofs`), for
  any Runs, Steps, readers, blobs and limits. The inductive invariant (`Agree`) says of
  every slot that is not `ahead` that all who have a blob of it have the same one, be
  it the file, the open transaction, a cache, the snapshot of a read or a call that a
  write still owes to a cache (`OneValue`), that it is the transaction's while the Run
  is there (`OfDraft`), and the file's unless the transaction wrote it and a read in it
  cached it, which is then remembered in `peeked` (`OfFile`); that a slot is empty when
  it is written, in the file and in the transaction (`LivesIn`), which differ in the
  Runs of the open transaction only (`Drafted`); and that a read has its snapshot's
  blob or has yet to ask for it (`Reading`). A write goes to a slot of which nobody has
  a blob; every other step copies. A rollback moves what was peeked to `ahead`, where
  nothing is claimed until the store is opened again. The lemmas on the caches say there only that an entry is kept,
  emptied or given the blob that was passed, so eviction may choose as it likes.
- `CachesSoundAlways` (`BlobProofs`): the accounts. `Account` is what a cache is
  between two calls: each Run is in its order once, a Run's bytes are the sum over
  its entry, the size is the sum over the Runs and within the limit; one lemma per
  method shows that it is kept. The sums are the library's `SumFunction`, a fold that
  takes the elements of a finite set in some order. Its facts are proved here
  by induction on the size of the set, as a fact about a set of numbers
  (`AllNumbers`): the fold's function exists, the order of the elements does not
  matter, and a changed element changes the sum by the difference. That evict never
  fails to get under the limit then says that a cache without entries has size 0
  (`EvictSound`). `SizeAssumption` says that Runs and Steps are finite.
- `StepOwnedOnceAlways`, `ExclusionMutualAlways`, `FrozenOnceStartedAlways`
  (`CallsProofs`), for any sets of definitions, generated or written by hand.
  The inductive invariant `DeployInv` says that the registry is a record of its four
  fields, that the owners are those of the bound definitions (`Owned`), and that a
  started engine's exclusion sets are the resolved ones of its pipelines
  (`Excluded`). A Bind that passes `register`'s checks adds disjoint Steps and a new
  pipeline; a refused one changes nothing; `Start` resolves once. Mutual exclusion
  then follows from what `resolveMutexes` computes, which is symmetric because the
  sharing of a mutex is.
- `SpanAgreesAlways` (`CallsProofs`), for every return of every handler: any
  error chain, any links. The invariant is that an answered attempt holds what the
  three classifications give for its return (`AttemptInv`); the lemmas compare
  `runForward` and `runUnwind` with `Span` case by case, along the order in which
  each asks for a panic, a park, a failure and an error.
- `WrappingIsTransparentAlways` (`CallsProofs`), for the same returns: a wrapped
  chain is the chain with one ordinary link before it (`OneLayer`), so the first link
  that matches, a minimum over positions, moves by one, and what is unwrapped from it
  is the same. `ReturnsAssumption` says that a return is a record whose error is a
  sequence; nothing is assumed of the links.
- `RecordSurvivesAlways` (`CallsProofs`): any cursor, operation and decided Run reads
  back as it was written. Enumerations, times and pointers read back one by one
  (`TimeReadsBack` and the lemmas after it), the messages field by field from them; an
  empty byte slice may come back as nil, as the property allows. The list of unwind
  failures is the same because the terminal row keeps, of every operation that the
  list is made from, the failure and the order; how the list is sorted does not matter.
  `StoredAssumption` says that a record has the values its Go type can hold, and that
  an unwind has no State, which `OperationRecord` reserves to forward operations.
- `ReparkCoversRestAlways` (`CallsProofs`): parking again on `Wake.Pending` waits for
  exactly the Runs that are not done, each once, in the order first named, for lists of
  any length. `dedupeRunIDs`, `Wake.Pending` and the options of a park are folds over a
  list; the value of a fold exists on every set of positions (`FoldsExist`) and is
  reached through the prefixes of the list (`DedupeSteps`, `ThoseSteps`), so what each
  computes follows by induction on the prefix, the induction being a fact about sets
  of numbers (`AllNumbers`). An option never touches the targets (`OptionDoes`,
  `ParkAsksAs`). `ParksAssumption` says that what a handler parks on, and the options
  it gives, are lists.
- `GeneratedSoundAlways` (`CallsProofs`): of any declarations, those the generator
  accepts give definitions that bind and can be implemented. The inductive invariant
  `GeneratedInv` says that a deployment of generated code is handed the definitions of
  one accepted generation and has bound no other, each under its own id. Bind's checks
  of a definition alone are then what `Generate` checked of its message (`AcceptedBinds`);
  that no other pipeline owns one of its Steps follows from the ids being unique over
  all files (`StepsApart`) and the owners being those of the bound pipelines
  (`Owned`). A method list without repetition is what unclaimed names give
  (`ClaimsDiffer`), by induction over the steps that `emitHandlers` walks
  (`HandlersAre`). `SchemasAssumption` says that the messages nested in a pipeline are
  a list and that each declares an unwind or does not.

- `SettingsHoldAlways` (`CallsProofs`): what callers set holds for every text, limit,
  policy, list of options and URI. The invariant (`SettingsInv`, with `ParkInv`) says
  that an answer is what the operator of its call gives for the caller's arguments;
  the work is in what those operators give. `boundText` is by the bytes of a prefix
  growing with each character (`BytesAppend`) and the cut being the greatest prefix
  that fits (`GreatestIs`, `BoundsText`). `backoff` never shrinks because a power of a
  number that is at least one never does (`PowerGrows`, `CapGrows`), and a delay that
  a `Duration` holds is converted to itself (`DelayIs`, `BacksOff`); nothing is claimed
  of a later attempt whose delay it does not hold. The options are a
  fold whose value after each prefix is told by the last start option, or the last
  positive timeout, and by the last giver of each key (`LeftBy`, `ScheduledIs`,
  `SchedulesAs`; `ParkAsksAs`). A store's limits are products that fit, which the wrap
  of an int leaves alone (`FitsUnwrapped`, `OpensAsAsked`), or the default where the
  parsed query has no such option (`OpensByDefault`). `SettingsAssumption` types texts
  and policies, whose maximum is a `Duration`; `SchedulesAssumption` that annotators and options are lists, the
  zero time being the earliest and only `WithAnnotations` giving annotations;
  `URIsAssumption` that a count's unit is one that has a multiplier.

Only model-checked: the liveness properties, which are out of the prover's reach.

## 6. Not modelled

- The text the generator emits beside the `Config` and the handler interface:
  typed wrappers around the engine's calls, and collisions of emitted package-level
  names (pipelines `Foo` and `FooRun`).
- Metrics, log records and the fan-out of events to observers: they change no
  state. Of `durableotel` only the labels of a span are modelled.
- The protobuf wire format and the decoding errors of a corrupt file.
- The drain timeout of `Stop`, which only delays the end of the base context, and a
  `Start` that fails while listing.
- The cycle search's limit of 1024 Runs as a limit that is met; a clock that is set
  back.
- Test helpers, benchmarks and examples.

`RunLifecycle` takes its Run without classes and its await targets as done or not
done; the classes are `RunClass`'s and `TokenClass`'s, the await graph
`Awaiting`'s.

## 7. Where the code and its documents disagree

These have a run that expects the violation and an entry under `findings`.

- `lost_kick`: `Schedule` discards the kick `Release` returns when it takes back
  an admission. Two concurrent calls for one resource suffice: the Run that was
  created was refused because the other call's placeholder was ahead of it, and
  nobody wakes it when the placeholder leaves.
- `lost_cascade`: `cancelOperation` commits the canceled operation, and with it
  drops the park, before it requests the cancel of the targets. If the process ends
  in between, nothing cancels them; `spec/invariants.md:235` says that the cascade
  survives a restart with the park.
- `empty_state`: a committed state of no bytes is found by the worker that wrote it
  (`engine.go:1682` asks whether the slice is nil) and not by whoever reads it back,
  for the encoding returns nil. `state.go:24` and `driver.go:40` promise it to both.

Five more are shown by an instance of a module of this project that is not a run:

- *Early schedule* (`engine.go:395` against 417 and 521): `Start` opens the Engine
  before it lists and seeds. A Run scheduled in between can be in the listing, end,
  be released, and then be admitted again from the listing; a terminal Run is never
  released, so it stays at the head of the line. `MCRunClass` with `Spec`,
  `OwnResource`, `NoDelay`, capacities {1}, a queue of 2, `EarlyCallers` TRUE and no
  faults or crashes violates `MembersLive`.
- *Late count* (`pipeline.go:118` against `engine.go:521`): a Run that was refused a
  place in a full queue, and created because its slot freed in between, is put in
  line after `CreateRun`. If it is canceled to its end before that, its release has
  nothing to take out, and the place in line is never given up. `MCRunClass` with
  `Spec`, `Three` Runs, `SharedResource`, `NoDelay`, capacities {1}, a queue of 1,
  `Cancelable` {3}, `EarlyCallers` FALSE and no faults or crashes violates
  `MembersLive`.
- *Missed wake* (`engine.go:944`, `spec/01-model.md:407`): `requestCancel` wakes and
  then dispatches. When the `Wake` falls between a pass that returned a delay and
  the goroutine's delayed redispatch, it finds nothing armed; the `Dispatch` then
  finds the waiting worker and only records a re-poke, and the Run waits its whole
  delay out before the cancel takes effect. `MCTokenClass` with one delayed,
  cancelable Run violates `CancelAtOnce`.
- *Idle stage* (`store/bbolt/store.go:267`, 189, 329): `Open` starts the staged
  counter at zero and subtracts what it drains, so after a crash the counter is
  negative; the sweep wants it positive, and the Run that ends next stays staged
  while the store is idle. `MCBboltStore` with `FairSpec`, `NoSteps`, `Delayed` {2},
  large inputs and outputs, `MaxTime` 0, `PerWrite` 2, `PerSweep` 1, `ReapLimit` 1,
  `BatchFails` FALSE and `MaxFaults` 1 violates `StageReleased`; without the crash
  it holds.
- *Batch re-run* (`store/bbolt/store.go:468`, `driver.go:358`): `CreateRun` does not
  reset `created` when its closure is run again after a rollback; if the slot was
  taken in between it returns both an existing Run and `created`. The same instance
  with `BatchFails` TRUE violates `CreateReply`.

Smaller divergences seen while modelling.

*Engine.* A failed terminal transition asks for no redispatch, unlike every other
failed transition, so the Run has no worker until a cancel or the next `Start`
(`spec/04-engine.md:433`; `NeverStranded` is checked without store faults for this
reason, and `StatusHonest`, which is checked with one, names such a Run). A park's memory is kept per Run and so may be observed by
another Step's operation after a redeployment (`spec/invariants.md:193`). A request
whose caller reaches `preemptAttempt` after `completeRun` leaves its `pendingPreempt`
entry (`engine.go:282`). A cancel request resolves the operation of a Run that a
handler violation made invalid in the same deployment (`spec/invariants.md:171`). An
admission refused while the slot was occupied is counted beyond `MaxQueued` when the
slot frees before `CreateRun` (`spec/invariants.md:231`). An unwind whose Step lost
its unwind is skipped but stays unresolved, and a second unresolved unwind makes the
Run invalid (`internal/ledger/ledger.go:179`). A permanent failure returned before
the preemption reaches the attempt is recorded although a cancel is pending
(`spec/invariants.md:169`); and a panic in a forward attempt a cancel cut is retried
before the cancel resolves it, where `spec/01-model.md:421` has it canceled. `Start`
that fails in `ListNonterminal` leaves the engine started.

*Waiting.* A target that cannot be read lets a parked Run go on before its mode is
met (`engine.go:1151` against `spec/invariants.md:195`). `Status` reports `runnable`
for a canceled Run whose unwind is parked. It reads the head first and the Engine's
maps after it, so that what it reports may combine two states; `StatusHonest` is about
one. The timer of a park is armed once; a
circle found by neither of two searches that both failed stands; `e.invalid` is never
cleared. The generated `Wait` reads the output after the result (`gen.go:717`), and a
Run reaped in between turns a result into an error.

*Store.* A Run reaped before its drain is not subtracted from the staged counter,
which then errs on the side of sweeping. The coherence of the blob cache rests on
states that are written once and on the rows, which decide what is asked for: an
evicted Run whose worker writes again gets a partial entry, which no fill completes
(`blobcache.go:30` says it re-enters), and a fill after a drop leaves an entry nobody
asks for until it is evicted. `blobcache.go:37` calls the cache coherent by
construction, but a `CreateRun` that finds its slot occupied reads the Run there inside
the write transaction (`store.go:452`), and in a batch it may see, and cache, a state
that another call of the batch has written and not committed. If the batch is then
rolled back, the cache has a blob the file never had; should the handler's next attempt
return another state, a read between its commit and `setState` gets the blob of the one
that was lost. `CacheIsFile` and `ReadIsSnapshot` except such a slot, coarsely: until the
store is opened again, although `setState` or an eviction repairs the entry before. A
terminal transition's read fills an entry inside its transaction too, but only with what
its own Run has committed. `parseBytes` wraps on overflow without an error
(`open.go:81`), and `u.Query()` drops a pair that is not well formed, one with a
semicolon or a broken escape, so that the store opens with the default, although
`open.go:20` says that a typo cannot be silently ignored; the `mem` opener looks at the
raw query and refuses it.

*API.* `Fail(AwaitRun(...))` parks, and the options of an inner `Fail` are lost under
an outer one. The generator checks neither a NUL in an id nor an empty mutex name,
which `Bind` refuses, while `bind.go:50` calls such an error a bug of the generator.
`durableotel` speaks of the kind and reason the engine "will commit"
(`middleware.go:93`), which does not hold for an attempt that a cancel cut, and the
engine bounds the text. A text limit of one or two bytes yields the mark of three; a
policy without a maximum grows past what a `Duration` holds, after which the delay may
be negative, the retry immediate (`engine.go:1820`); and with a first delay of zero and
a growth past a float64 the delay is no number, which no maximum caps.

## 8. Running

    tlc -workers 2 -config LifecycleRedeploy.cfg MCRunLifecycle   # and LifecycleLive
    tlc -workers 2 -config ClassRestart.cfg MCRunClass            # and ClassLive
    tlc -workers 2 -config TokenClass.cfg MCTokenClass
    tlc -workers 2 -config BboltRefines.cfg MCBboltStore
    tlc -workers 2 -config Waiting.cfg MCAwaiting
    tlc -workers 2 -config BlobReads.cfg MCBlobReads
    tlc -workers 2 -config Calls.cfg MCCalls
    # expected to report a violation:
    tlc -workers 2 -config LostKick.cfg MCRunClass
    tlc -workers 2 -config LostCascade.cfg MCAwaiting
    tlc -workers 2 -config EmptyState.cfg MCCalls
    for m in RunLifecycleProofs RecordProofs RunClassProofs \
        TokenProofs StoreProofs AwaitingProofs BlobProofs CallsProofs
    do tlapm $m.tla; done
