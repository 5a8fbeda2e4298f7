---------------------------- MODULE StoreRecords ----------------------------
(***************************************************************************)
(* store/driver: the records of the store contract and the transitions an   *)
(* Engine sends.  A Run's identity is its slot (pipeline, resource); blobs   *)
(* are known by their size class, which is what decides where bbolt keeps    *)
(* them; the cursor's scheduling fields (NextAttemptAt, LastError, Awaiting, *)
(* Awaited...) are one Boolean: set or zero.                                 *)
(***************************************************************************)
EXTENDS Integers, FiniteSets, Sequences

CONSTANTS Runs,         \* RunIDs, numbered in key order
          NoRun,
          Steps, NoStep,
          SlotOf,       \* the <<pipeline, resource>> of each Run
          Excluding,    \* CreateRun's excluding argument: a set of pipelines
          Causes, NoCause,
          Delayed,      \* the Runs scheduled with a delay
          StepsOf,      \* the Steps of each Run's pipeline, in order
          Inputs, Outputs,  \* the size classes of those blobs
          StateOf,      \* the size class of each Step's state
          MaxAttempts,  \* bound on the attempts of each operation
          MaxTime

ASSUME RunsAssumption == Runs \subseteq Nat /\ IsFiniteSet(Runs) /\ NoRun \notin Runs
ASSUME NamesAssumption == IsFiniteSet(Steps) /\ NoStep \notin Steps /\ NoCause \notin Causes
ASSUME StepsAssumption == StepsOf \in [Runs -> Seq(Steps)]
ASSUME BlobsAssumption == /\ Inputs \cup Outputs \subseteq {"none", "small", "large"}
                          /\ StateOf \in [Steps -> {"none", "small", "large"}]
ASSUME BoundsAssumption == MaxAttempts \in [Steps \X {"forward", "unwind"} -> Nat] /\ MaxTime \in Nat

Slots == {SlotOf[r] : r \in Runs}
Times == 0..MaxTime
Phases == {"forward", "unwind"}
Blob == {"none", "small", "large"}
Outcomes == {"none", "success", "failure"}
OpStatus == {"none", "unresolved", "succeeded", "failed"}

\* driver.OperationRecord; its Failure is the status.
Op == [status : OpStatus, attempts : Nat, order : Nat, state : Blob]
NoOp == [status |-> "none", attempts |-> 0, order |-> 0, state |-> "none"]
Ops == Steps \X Phases

\* driver.RunRecord.
Record == [input : Blob, phase : Phases, sched : BOOLEAN, updatedAt : Times,
           ops : [Ops -> Op], failure : BOOLEAN, cancel : Causes \cup {NoCause},
           outcome : Outcomes, output : Blob]

\* driver.Cursor.
Cursor == [phase : Phases, step : Steps \cup {NoStep}, attempts : Nat,
           sched : BOOLEAN, updatedAt : Times]

Terminal(rec) == rec.outcome # "none"

\* What Schedule hands to CreateRun; a delayed Run has its NextAttemptAt set.
NewRecord(r, input, now) ==
    [input |-> input, phase |-> "forward", sched |-> r \in Delayed, updatedAt |-> now,
     ops |-> [o \in Ops |-> NoOp], failure |-> FALSE, cancel |-> NoCause,
     outcome |-> "none", output |-> "none"]

\* A terminal Run keeps its failed unwinds, nothing else of its operations.
CompactTerminal(rec) ==
    [rec EXCEPT !.input = "none", !.sched = FALSE,
                !.ops = [o \in Ops |->
                           IF o[2] = "unwind" /\ @[o].status = "failed"
                             THEN @[o] ELSE NoOp]]

\* One past the highest order recorded.
NextOrder(rec) ==
    LET orders == {rec.ops[o].order : o \in Ops}
    IN  1 + CHOOSE n \in orders : \A m \in orders : m <= n

\* The cursor's operation reads as unresolved whatever its row says.
OverlayCursor(ops, cur) ==
    IF cur.step = NoStep THEN ops
    ELSE [ops EXCEPT ![<<cur.step, cur.phase>>] =
            [@ EXCEPT !.status = "unresolved", !.attempts = cur.attempts]]

\* Go maps and bbolt buckets: put one key, delete a set of keys.
IsMap(f, K, V) == /\ f = [k \in DOMAIN f |-> f[k]] /\ DOMAIN f \subseteq K
                  /\ \A k \in DOMAIN f : f[k] \in V
Put(f, k, v) == [x \in DOMAIN f \cup {k} |-> IF x = k THEN v ELSE f[x]]
Delete(f, K) == [x \in DOMAIN f \ K |-> f[x]]
-----------------------------------------------------------------------------
(* The transitions an Engine sends for a Run it read as rec, whose pipeline  *)
(* has the given Steps and whose operation in flight is on Step s, if any.   *)

OpWrite(step, phase, op) == [step |-> step, phase |-> phase, op |-> op]

\* Engine.apply: an unresolved operation that neither the cursor nor an
\* explicit write covers is flushed as a row.
Flush(rec, step, written) ==
    {OpWrite(o[1], o[2], rec.ops[o]) :
       o \in {p \in Ops : /\ rec.ops[p].status = "unresolved"
                          /\ p[1] # step
                          /\ \A w \in written : <<w.step, w.phase>> # p}}

Transition(rec, cursor, written, failure, outcome, output) ==
    [cursor |-> cursor, ops |-> written \cup Flush(rec, cursor.step, written),
     failure |-> failure, outcome |-> outcome, output |-> output]

ActiveCursor(rec, step, attempts, sched, now) ==
    [phase |-> rec.phase, step |-> step, attempts |-> attempts, sched |-> sched,
     updatedAt |-> now]

IdleCursor(phase, now) ==
    [phase |-> phase, step |-> NoStep, attempts |-> 0, sched |-> FALSE,
     updatedAt |-> now]

\* Forward, the first Step that has not succeeded; a Step whose forward
\* operation succeeded unwinds, in any order, for a redeployment may change it.
Candidates(rec, steps) ==
    {steps[i] : i \in {j \in DOMAIN steps :
       /\ rec.ops[<<steps[j], rec.phase>>].status \in {"none", "unresolved"}
       /\ IF rec.phase = "unwind"
            THEN rec.ops[<<steps[j], "forward">>].status = "succeeded"
            ELSE \A k \in 1..(j - 1) : rec.ops[<<steps[k], "forward">>].status = "succeeded"}}

Reservations(rec, steps, now) ==
    {Transition(rec,
        ActiveCursor(rec, s, rec.ops[<<s, rec.phase>>].attempts + 1, FALSE, now),
        {}, FALSE, "none", "none") :
       s \in {c \in Candidates(rec, steps) : rec.ops[<<c, rec.phase>>].attempts < MaxAttempts[<<c, rec.phase>>]}}

\* A retry or a park: the cursor's scheduling fields are set.
Retries(rec, s, now) ==
    {Transition(rec, ActiveCursor(rec, s, rec.ops[<<s, rec.phase>>].attempts, TRUE, now),
                {}, FALSE, "none", "none")}

Resolved(rec, s, status, state) ==
    OpWrite(s, rec.phase, [rec.ops[<<s, rec.phase>>] EXCEPT
                             !.status = status, !.state = state, !.order = NextOrder(rec)])

\* A forward failure, the cancellation of an operation included, ends the
\* forward phase.
Failed(rec, s, now) ==
    Transition(rec, IdleCursor("unwind", now), {Resolved(rec, s, "failed", "none")},
               rec.phase = "forward", "none", "none")

Succeeded(rec, s, now) ==
    Transition(rec, IdleCursor(rec.phase, now),
               {Resolved(rec, s, "succeeded",
                         IF rec.phase = "forward" THEN StateOf[s] ELSE "none")},
               FALSE, "none", "none")

\* cancelOperation resolves the next forward operation, started or not.
Cancellations(rec, steps, now) ==
    {Failed(rec, s, now) :
       s \in {c \in Candidates(rec, steps) : rec.phase = "forward" /\ rec.cancel # NoCause}}

\* Terminality, with the output the reduction produced.
Completions(rec, now) ==
    {Transition(rec, IdleCursor(rec.phase, now), {}, FALSE,
                IF rec.failure THEN "failure" ELSE "success", b) : b \in Outputs}

Transitions(rec, steps, s, now) ==
    Reservations(rec, steps, now) \cup Cancellations(rec, steps, now)
    \cup (IF s = NoStep THEN Completions(rec, now)
          ELSE Retries(rec, s, now) \cup {Succeeded(rec, s, now), Failed(rec, s, now)})
=============================================================================
