----------------------------- MODULE BboltStore -----------------------------
(***************************************************************************)
(* store/bbolt: driver.Store on a bbolt file.  db is the committed content   *)
(* of the six buckets, one field per kind of row; a write transaction is an  *)
(* operator from db to db applied in one step, which is what bbolt's single   *)
(* writer and atomic commit guarantee.  What the process does before and     *)
(* after a commit (the staged counter, the flags of a batch that is run      *)
(* again, the drain loop) takes steps of its own.                            *)
(***************************************************************************)
EXTENDS StoreRecords

CONSTANTS PerWrite,     \* stageDrainPerWrite
          PerSweep,     \* stageDrainPerSweep
          ReapLimit,    \* the limit of ReapTerminal calls
          BatchFails,   \* whether a batch may be rolled back
          MaxFaults     \* crashes and batches rolled back

ASSUME BatchAssumption == PerWrite \in Nat \ {0} /\ PerSweep \in Nat \ {0}
ASSUME LimitAssumption == /\ ReapLimit \in Nat \ {0} /\ MaxFaults \in Nat
                          /\ BatchFails \in BOOLEAN

VARIABLES db,         \* the buckets
          status,     \* "closed", "opening", "open" or "closing"
          counter,    \* Store.staged, the in-memory hint
          owed,       \* terminality commits whose counter update is still to come
          drainer,    \* Drain's loop: where it is and what its last tx took
          flagged,    \* CreateRun calls whose closure set created and was rolled back
          replies,    \* what each CreateRun returned
          now,
          faults

volatile == <<status, counter, owed, drainer, flagged>>
vars == <<db, volatile, replies, now, faults>>

\* The operation rows carry an inline state; a large one is a row beside.
OpKeys == Runs \X Nat \X Steps \X Phases
StateKeys == Runs \X Nat \X Steps

TypeOK ==
    /\ db.meta \subseteq Runs /\ db.failure \subseteq Runs /\ db.staged \subseteq Runs
    /\ db.expiry \subseteq Times \X Runs
    /\ IsMap(db.cancel, Runs, Causes) /\ IsMap(db.input, Runs, Blob)
    /\ IsMap(db.ops, OpKeys, Op) /\ IsMap(db.states, StateKeys, {"large"})
    /\ IsMap(db.cursor, Runs, Cursor) /\ IsMap(db.terminal, Runs, Record)
    /\ IsMap(db.output, Runs, {"large"}) /\ IsMap(db.slots, Slots, Runs)
    /\ status \in {"closed", "opening", "open", "closing"}
    /\ counter \in Int
    /\ owed \subseteq Runs /\ flagged \subseteq Runs
    /\ drainer \in [pc : {"none", "tx", "sub"}, n : 0..PerSweep]
    /\ IsMap(replies, Runs, [existing : Runs \cup {NoRun}, created : BOOLEAN])
    /\ now \in Times /\ faults \in 0..MaxFaults

Empty == [x \in {} |-> NoRun]
Idle == [pc |-> "none", n |-> 0]

Init ==
    /\ db = [meta |-> {}, cancel |-> Empty, failure |-> {}, input |-> Empty,
             ops |-> Empty, states |-> Empty, cursor |-> Empty, terminal |-> Empty,
             output |-> Empty, expiry |-> {}, staged |-> {}, slots |-> Empty]
    /\ status = "closed" /\ counter = 0 /\ owed = {} /\ drainer = Idle
    /\ flagged = {} /\ replies = Empty
    /\ now = 0 /\ faults = 0
-----------------------------------------------------------------------------
(* Reads.                                                                   *)

IsTerminal(d, r) == r \in DOMAIN d.terminal
IsKnown(d, r) == IsTerminal(d, r) \/ r \in d.meta

Get(rows, k, none) == IF k \in DOMAIN rows THEN rows[k] ELSE none

\* The keys of the rows a walk meets for an operation, and the last of them.
OpRows(d, r, o) == {k \in DOMAIN d.ops : k[1] = r /\ k[3] = o[1] /\ k[4] = o[2]}
LastRow(keys) == CHOOSE k \in keys : \A j \in keys : j[2] <= k[2]

\* The operation as read: its row, with the state kept beside it.
ReadOp(d, r, o) ==
    LET keys == OpRows(d, r, o)
        k == LastRow(keys)
        beside == <<k[1], k[2], k[3]>>
    IN  IF keys = {} THEN NoOp
        ELSE IF o[2] = "forward" /\ beside \in DOMAIN d.states
          THEN [d.ops[k] EXCEPT !.state = d.states[beside]]
        ELSE d.ops[k]

\* getNonterminal: the rows under the Run's prefix, then the cursor.
GetNonterminal(d, r) ==
    LET cur == d.cursor[r]
    IN  [input |-> Get(d.input, r, "none"), phase |-> cur.phase, sched |-> cur.sched,
         updatedAt |-> cur.updatedAt,
         ops |-> OverlayCursor([o \in Ops |-> ReadOp(d, r, o)], cur),
         failure |-> r \in d.failure, cancel |-> Get(d.cancel, r, NoCause),
         outcome |-> "none", output |-> "none"]

\* Seeded fault: the stage is read as long as it is there.
GetRunStageFirst(d, r) ==
    IF r \in d.meta THEN GetNonterminal(d, r)
    ELSE [d.terminal[r] EXCEPT !.output = IF @ = "none" THEN Get(d.output, r, "none") ELSE @]

\* The terminal row is authoritative while the stage lingers.
GetRun(d, r) ==
    IF IsTerminal(d, r)
      THEN [d.terminal[r] EXCEPT !.output = IF @ = "none" THEN Get(d.output, r, "none") ELSE @]
      ELSE GetNonterminal(d, r)

\* Seeded fault: the walk of the head rows stops at the cancel row.
GetHeadOneRow(d, r) ==
    LET cur == d.cursor[r]
    IN  IF IsTerminal(d, r) THEN [d.terminal[r] EXCEPT !.output = "none"]
        ELSE [input |-> "none", phase |-> cur.phase, sched |-> cur.sched,
              updatedAt |-> cur.updatedAt,
              ops |-> OverlayCursor([o \in Ops |-> NoOp], cur),
              failure |-> r \in d.failure /\ r \notin DOMAIN d.cancel,
              cancel |-> Get(d.cancel, r, NoCause),
              outcome |-> "none", output |-> "none"]

\* getHead: the meta, cancel and failure rows and the cursor.
GetHead(d, r) ==
    LET cur == d.cursor[r]
    IN  IF IsTerminal(d, r) THEN [d.terminal[r] EXCEPT !.output = "none"]
        ELSE [input |-> "none", phase |-> cur.phase, sched |-> cur.sched,
              updatedAt |-> cur.updatedAt,
              ops |-> OverlayCursor([o \in Ops |-> NoOp], cur),
              failure |-> r \in d.failure, cancel |-> Get(d.cancel, r, NoCause),
              outcome |-> "none", output |-> "none"]

\* ListNonterminal walks the slots.
ListNonterminal(d) == {d.slots[s] : s \in DOMAIN d.slots}
-----------------------------------------------------------------------------
(* Transactions, as functions of the buckets.                               *)

\* The first n keys of a bucket of Runs.
First(n, keys) == {r \in keys : Cardinality({q \in keys : q < r}) < n}

\* deleteNonterminalStage.
DeleteStage(d, R) ==
    [d EXCEPT !.meta = @ \ R, !.cancel = Delete(@, R), !.failure = @ \ R,
              !.input = Delete(@, R), !.cursor = Delete(@, R),
              !.ops = Delete(@, {k \in DOMAIN @ : k[1] \in R}),
              !.states = Delete(@, {k \in DOMAIN @ : k[1] \in R})]

\* drainStaged.
DrainStaged(d, R) == [DeleteStage(d, R) EXCEPT !.staged = @ \ R]

\* What writeDrain takes: a batch, once the counter says one is queued.
WriteDrain(d, count) == IF count < PerWrite THEN {} ELSE First(PerWrite, d.staged)

Beside(w) == w.phase = "forward" /\ w.op.state = "large"

OpKey(r, w) == <<r, w.op.order, w.step, w.phase>>
StateKey(k) == <<k[1], k[2], k[3]>>

\* Seeded fault: a row under another order stays.
PutOpsUpsert(d, r, writes) ==
    LET new == {OpKey(r, w) : w \in writes}
        newStates == {StateKey(OpKey(r, w)) : w \in {v \in writes : Beside(v)}}
        write(k) == CHOOSE w \in writes : OpKey(r, w) = k
        row(w) == IF Beside(w) THEN [w.op EXCEPT !.state = "none"] ELSE w.op
    IN  [d EXCEPT
           !.ops = [k \in DOMAIN @ \cup new |-> IF k \in new THEN row(write(k)) ELSE @[k]],
           !.states = [k \in DOMAIN @ \cup newStates |->
                         IF k \in newStates THEN "large" ELSE @[k]]]

\* putOp for each write: the operation's row, wherever it was, is replaced,
\* and so is the state beside it.
PutOps(d, r, writes) ==
    LET old == UNION {OpRows(d, r, <<w.step, w.phase>>) : w \in writes}
        new == {OpKey(r, w) : w \in writes}
        oldStates == {StateKey(k) : k \in {q \in old : q[4] = "forward"}}
        newStates == {StateKey(OpKey(r, w)) : w \in {v \in writes : Beside(v)}}
        write(k) == CHOOSE w \in writes : OpKey(r, w) = k
        row(w) == IF Beside(w) THEN [w.op EXCEPT !.state = "none"] ELSE w.op
        ops == Delete(d.ops, old \ new)
        states == Delete(d.states, oldStates)
    IN  [d EXCEPT
           !.ops = [k \in DOMAIN ops \cup new |-> IF k \in new THEN row(write(k)) ELSE ops[k]],
           !.states = [k \in DOMAIN states \cup newStates |->
                         IF k \in newStates THEN "large" ELSE states[k]]]

\* putRun for a new Run, and its slot.
PutRun(d, r, input) ==
    [d EXCEPT !.meta = @ \cup {r},
              !.input = IF input = "none" THEN @ ELSE Put(@, r, input),
              !.cursor = Put(@, r, [phase |-> "forward", step |-> NoStep, attempts |-> 0,
                                    sched |-> r \in Delayed, updatedAt |-> now]),
              !.slots = Put(@, SlotOf[r], r)]

\* Seeded fault: the slot is left to the drain.
PutTerminalKeepSlot(d, r, rec) ==
    [d EXCEPT !.terminal = Put(@, r, [rec EXCEPT !.output = IF @ = "large" THEN "none" ELSE @]),
              !.output = IF rec.output = "large" THEN Put(@, r, "large") ELSE @,
              !.expiry = @ \cup {<<rec.updatedAt, r>>},
              !.staged = @ \cup {r}]

\* putTerminal, the staging and the release of the slot.
PutTerminal(d, r, rec) ==
    [d EXCEPT !.terminal = Put(@, r, [rec EXCEPT !.output = IF @ = "large" THEN "none" ELSE @]),
              !.output = IF rec.output = "large" THEN Put(@, r, "large") ELSE @,
              !.expiry = @ \cup {<<rec.updatedAt, r>>},
              !.staged = @ \cup {r},
              !.slots = Delete(@, {s \in {SlotOf[r]} \cap DOMAIN @ : @[s] = r})]

\* Seeded fault: no operation survives, the failed unwinds included.
TerminalRecordNoUnwinds(d, r, t) ==
    LET rec == GetNonterminal(d, r)
    IN  CompactTerminal([rec EXCEPT
                           !.ops = [o \in Ops |-> NoOp],
                           !.failure = @ \/ t.failure, !.phase = t.cursor.phase,
                           !.updatedAt = t.cursor.updatedAt,
                           !.outcome = t.outcome, !.output = t.output])

\* The record of the terminality commit: the rows, the transition's writes,
\* its cursor's operation, then the retention rule.
TerminalRecord(d, r, t) ==
    LET rec == GetNonterminal(d, r)
        written == [o \in Ops |->
                      IF \E w \in t.ops : <<w.step, w.phase>> = o
                        THEN (CHOOSE w \in t.ops : <<w.step, w.phase>> = o).op
                        ELSE rec.ops[o]]
        step == t.cursor.step
        phase == IF t.cursor.phase = "unwind" /\ written[<<step, "forward">>].status = "succeeded"
                   THEN "unwind" ELSE "forward"
    IN  CompactTerminal([rec EXCEPT
                           !.ops = IF step = NoStep THEN written
                                   ELSE [written EXCEPT ![<<step, phase>>].status = "unresolved"],
                           !.failure = @ \/ t.failure, !.phase = t.cursor.phase,
                           !.updatedAt = t.cursor.updatedAt,
                           !.outcome = t.outcome, !.output = t.output])

\* The body of ApplyTransition's transaction.
Transit(d, r, t) ==
    IF t.outcome # "none" THEN PutTerminal(d, r, TerminalRecord(d, r, t))
    ELSE PutOps([d EXCEPT !.failure = IF t.failure THEN @ \cup {r} ELSE @,
                          !.cursor = Put(@, r, t.cursor)], r, t.ops)
-----------------------------------------------------------------------------
(* The operations of the Store interface.                                   *)

\* The slots CreateRun looks at: its own first, then the excluded pipelines'.
Blocking(d, r) ==
    LET others == {<<p, SlotOf[r][2]>> : p \in Excluding[r]} \cap DOMAIN d.slots
    IN  IF SlotOf[r] \in DOMAIN d.slots THEN {SlotOf[r]} ELSE others

\* A call returns what its closure left in its variables: created may have
\* been set by an execution of the closure that was rolled back.
CreateRun(r) ==
    LET victims == WriteDrain(db, counter)
        d == DrainStaged(db, victims)
        blocked == Blocking(d, r)
    IN  /\ status = "open" /\ r \notin DOMAIN replies
        /\ counter' = counter - Cardinality(victims)
        /\ \/ /\ blocked # {}
              /\ db' = d
              /\ \E s \in blocked :
                   replies' = Put(replies, r, [existing |-> d.slots[s], created |-> r \in flagged])
           \/ /\ blocked = {}
              /\ \E input \in Inputs : db' = PutRun(d, r, input)
              /\ replies' = Put(replies, r, [existing |-> NoRun, created |-> TRUE])
        /\ flagged' = flagged \ {r}
        /\ UNCHANGED <<status, owed, drainer, now, faults>>

\* A terminal and a missing Run are refused.
ApplyTransition(r) ==
    LET victims == WriteDrain(db, counter)
        d == DrainStaged(db, victims)
    IN  /\ status = "open"
        /\ r \in d.meta /\ ~IsTerminal(d, r)
        /\ counter' = counter - Cardinality(victims)
        /\ \E t \in Transitions(GetRun(d, r), StepsOf[r], d.cursor[r].step, now) :
             /\ db' = Transit(d, r, t)
             /\ owed' = IF t.outcome # "none" THEN owed \cup {r} ELSE owed
        /\ UNCHANGED <<status, drainer, flagged, replies, now, faults>>

\* After a terminality commit the counter goes up.
CountStaged(r) ==
    /\ r \in owed
    /\ owed' = owed \ {r} /\ counter' = counter + 1
    /\ UNCHANGED <<db, status, drainer, flagged, replies, now, faults>>

RequestCancel(r) ==
    /\ status = "open"
    /\ r \in db.meta /\ ~IsTerminal(db, r) /\ r \notin DOMAIN db.cancel
    /\ \E c \in Causes : db' = [db EXCEPT !.cancel = Put(@, r, c)]
    /\ UNCHANGED <<volatile, replies, now, faults>>

\* The expired keys of the expiry index, oldest first, up to the limit.
Victims(before) ==
    LET precedes(j, k) == j[1] < k[1] \/ (j[1] = k[1] /\ j[2] < k[2])
    IN  {k \in db.expiry : /\ k[1] < before
                           /\ Cardinality({j \in db.expiry : precedes(j, k)}) < ReapLimit}

\* Seeded fault: reap assumes the stage was drained.
ReapTerminalDrained ==
    /\ status = "open"
    /\ \E before \in 0..now :
         LET keys == Victims(before)
             R == {k[2] : k \in keys}
         IN  /\ keys # {}
             /\ db' = [db EXCEPT
                         !.terminal = Delete(@, R), !.output = Delete(@, R),
                         !.expiry = @ \ keys, !.staged = @ \ R]
    /\ UNCHANGED <<volatile, replies, now, faults>>

\* The staged counter is not told of a Run reaped before its drain.
ReapTerminal ==
    /\ status = "open"
    /\ \E before \in 0..now :
         LET keys == Victims(before)
             R == {k[2] : k \in keys}
         IN  /\ keys # {}
             /\ db' = [DeleteStage(db, R) EXCEPT
                         !.terminal = Delete(@, R), !.output = Delete(@, R),
                         !.expiry = @ \ keys, !.staged = @ \ R]
    /\ UNCHANGED <<volatile, replies, now, faults>>
-----------------------------------------------------------------------------
(* Batches, the drain loop, Open, Close and crashes.                        *)

\* A batch whose transaction is rolled back because one of its closures failed:
\* the closures ahead of it ran, drained and perhaps set created, and will run
\* again.  The failing call's own drain ran too.  A rollback that changes
\* nothing in memory is not a step.
BatchAborted ==
    LET first == WriteDrain(db, counter)
        left == counter - Cardinality(first)
        second == WriteDrain(DrainStaged(db, first), left)
    IN  /\ status = "open" /\ BatchFails /\ faults < MaxFaults
        /\ faults' = faults + 1
        /\ counter' = left - Cardinality(second)
        /\ \/ first # {} /\ UNCHANGED flagged
           \/ \E r \in Runs \ DOMAIN replies :
                /\ Blocking(DrainStaged(db, first), r) = {}
                /\ flagged' = flagged \cup {r}
        /\ UNCHANGED <<db, status, owed, drainer, replies, now>>

\* The ticker fires; nothing is done unless the counter is positive.
SweepTick ==
    /\ status = "open" /\ drainer.pc = "none" /\ counter > 0
    /\ drainer' = [pc |-> "tx", n |-> 0]
    /\ UNCHANGED <<db, status, counter, owed, flagged, replies, now, faults>>

\* Seeded fault: Drain takes the whole backlog in one transaction.
DrainTxAll ==
    /\ drainer.pc = "tx"
    /\ db' = DrainStaged(db, db.staged)
    /\ drainer' = [pc |-> "sub", n |-> Cardinality(db.staged)]
    /\ UNCHANGED <<status, counter, owed, flagged, replies, now, faults>>

\* One transaction of Drain.
DrainTx ==
    LET victims == First(PerSweep, db.staged)
    IN  /\ drainer.pc = "tx"
        /\ db' = DrainStaged(db, victims)
        /\ drainer' = [pc |-> "sub", n |-> Cardinality(victims)]
        /\ UNCHANGED <<status, counter, owed, flagged, replies, now, faults>>

\* The counter goes down after the commit; a short batch ends the loop, and
\* with it Open or Close when they ran it.
DrainCount ==
    /\ drainer.pc = "sub"
    /\ counter' = counter - drainer.n
    /\ IF drainer.n < PerSweep
         THEN /\ drainer' = Idle
              /\ status' = CASE status = "opening" -> "open"
                             [] status = "closing" -> "closed"
                             [] OTHER -> status
         ELSE drainer' = [pc |-> "tx", n |-> 0] /\ UNCHANGED status
    /\ UNCHANGED <<db, owed, flagged, replies, now, faults>>

\* Open drains what the previous process left staged before it returns.
Open ==
    /\ status = "closed"
    /\ status' = "opening" /\ counter' = 0 /\ owed' = {} /\ flagged' = {}
    /\ drainer' = [pc |-> "tx", n |-> 0]
    /\ UNCHANGED <<db, replies, now, faults>>

\* Close waits for the sweep to return and drains.
Close ==
    /\ status = "open" /\ drainer.pc = "none"
    /\ status' = "closing" /\ drainer' = [pc |-> "tx", n |-> 0]
    /\ UNCHANGED <<db, counter, owed, flagged, replies, now, faults>>

\* The process dies: the buckets are what is left.
Crash ==
    /\ status # "closed" /\ faults < MaxFaults
    /\ faults' = faults + 1
    /\ status' = "closed" /\ counter' = 0 /\ owed' = {} /\ drainer' = Idle
    /\ flagged' = {}
    /\ UNCHANGED <<db, replies, now>>

Tick ==
    /\ now < MaxTime /\ now' = now + 1
    /\ UNCHANGED <<db, volatile, replies, faults>>

Next ==
    \/ \E r \in Runs : \/ CreateRun(r) \/ ApplyTransition(r) \/ CountStaged(r)
                       \/ RequestCancel(r)
    \/ ReapTerminal \/ BatchAborted
    \/ SweepTick \/ DrainTx \/ DrainCount
    \/ Open \/ Close \/ Crash \/ Tick

Spec == Init /\ [][Next]_vars

\* A call that committed returns; the ticker keeps firing and Drain, whoever
\* called it, keeps going.
FairSpec ==
    /\ Spec
    /\ \A r \in Runs : WF_vars(CountStaged(r))
    /\ WF_vars(SweepTick) /\ WF_vars(DrainTx) /\ WF_vars(DrainCount)
-----------------------------------------------------------------------------
(* Properties.                                                              *)

Contract == INSTANCE Store WITH
    runs <- [r \in {q \in Runs : IsKnown(db, q)} |-> GetRun(db, r)],
    slots <- db.slots,
    inflight <- [r \in {q \in DOMAIN db.cursor : /\ ~IsTerminal(db, q)
                                                 /\ db.cursor[q].step # NoStep}
                   |-> db.cursor[r].step],
    used <- DOMAIN replies

\* The buckets, read through getRun, behave as the in-memory store, the
\* reference of the contract: whatever is staged, drained, reaped or lost in a
\* crash, every commit is one operation of that store and everything else is
\* invisible to a reader.
StoreContract == Contract!Spec

\* GetRunHead decodes no operation row and still agrees with the reference's
\* projection of the full record, for nonterminal and terminal Runs.
HeadAgrees == \A r \in Runs : IsKnown(db, r) => GetHead(db, r) = Contract!HeadOf(r)

\* Recovery walks the slots: they name exactly the Runs without an outcome.
SlotsAreNonterminal == ListNonterminal(db) = Contract!Nonterminal

RowsOf(d) ==
    d.meta \cup d.failure \cup DOMAIN d.cancel \cup DOMAIN d.input \cup DOMAIN d.cursor
    \cup {k[1] : k \in DOMAIN d.ops} \cup {k[1] : k \in DOMAIN d.states}

\* Nothing is left behind: a row of the nonterminal stage belongs to a Run in
\* flight or to one the staged bucket will lead the drain to, and the staged
\* keys, the expiry index and the outputs follow the terminal rows, also when
\* a Run is reaped before its drain.
NothingLeftBehind ==
    /\ RowsOf(db) \subseteq ListNonterminal(db) \cup db.staged
    /\ db.staged \cup DOMAIN db.output \subseteq DOMAIN db.terminal
    /\ {k[2] : k \in db.expiry} = DOMAIN db.terminal
    /\ \A k \in db.expiry : db.terminal[k[2]].updatedAt = k[1]

\* An operation displaced by a redeployment is flushed at order zero and moves
\* to its own order when it resolves; it never has two rows, resolved rows of a
\* Run never share an order, and a state beside a row has its row.
OneRowPerOperation ==
    /\ \A j, k \in DOMAIN db.ops :
          j # k /\ j[1] = k[1] => /\ <<j[3], j[4]>> # <<k[3], k[4]>>
                                  /\ j[2] = k[2] => j[2] = 0
    /\ \A k \in DOMAIN db.states : <<k[1], k[2], k[3], "forward">> \in DOMAIN db.ops

\* The rows of the six buckets between two transactions: well formed, none
\* orphaned, the slots those of the Runs in flight, one row per operation.
RowsSound ==
    TypeOK /\ NothingLeftBehind /\ SlotsAreNonterminal /\ OneRowPerOperation

\* The contract of CreateRun's results: created, or the Run in the way.
CreateReply ==
    \A r \in DOMAIN replies : replies[r].created <=> replies[r].existing = NoRun

\* The stage of a terminal Run is deleted while the store is idle.
StageReleased ==
    \A r \in Runs : (r \in db.staged /\ status = "open")
                      ~> (r \notin db.staged \/ status = "closed")
=============================================================================
