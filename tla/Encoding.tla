------------------------------ MODULE Encoding ------------------------------
(***************************************************************************)
(* The storage encoding, store/internal/storagepb/convert.go, with the     *)
(* rules of store/driver/driver.go on what a terminal Run keeps.  A Run is *)
(* stored as protobuf messages and read back through them; the memory      *)
(* store keeps the Go record itself, so whatever a trip through the        *)
(* encoding changes is a difference between the two stores, and between    *)
(* the record a worker carries and the one it finds after a restart.       *)
(*                                                                         *)
(* A Go pointer and a protobuf message field are sets of at most one       *)
(* value: {} is nil.  A byte slice is NilBytes, EmptyBytes (not nil, of    *)
(* length zero, what proto.Marshal answers for a message at its defaults)  *)
(* or its content.  Times are instants, ZeroTime the zero time.Time.  The  *)
(* identifiers of a Run travel together and are one field, identity.       *)
(***************************************************************************)
EXTENDS Naturals, Sequences, FiniteSets, SequencesExt

NilBytes == "nil"
EmptyBytes == "empty"
ZeroTime == 0
None == "none"      \* the zero value of an enumeration: Phase(0), OpNone, ...

\* What a pointer points to.
The(p) == CHOOSE v \in p : TRUE

(***************************************************************************)
(* Protobuf leaves an empty bytes field out of the message, and the getter *)
(* of a field left out answers nil.                                        *)
(***************************************************************************)
GetBytes(b) == IF b = EmptyBytes THEN NilBytes ELSE b

ts(t) == IF t = ZeroTime THEN {} ELSE {t}

fromTS(p) == IF p = {} THEN ZeroTime ELSE The(p)

\* A switch over constants, with its default.
Switch(table, v, default) ==
    IF v \in DOMAIN table THEN table[v] ELSE default

phaseToProto(p) ==
    Switch([forward |-> "PHASE_FORWARD", unwind |-> "PHASE_UNWIND",
            done |-> "PHASE_DONE"], p, "PHASE_UNSPECIFIED")

phaseFromProto(p) ==
    Switch([PHASE_FORWARD |-> "forward", PHASE_UNWIND |-> "unwind",
            PHASE_DONE |-> "done"], p, None)

outcomeToProto(o) ==
    Switch([success |-> "OUTCOME_SUCCESS", failure |-> "OUTCOME_FAILURE"],
           o, "OUTCOME_UNSPECIFIED")

outcomeFromProto(o) ==
    Switch([OUTCOME_SUCCESS |-> "success", OUTCOME_FAILURE |-> "failure"],
           o, None)

opStatusToProto(s) ==
    Switch([unresolved |-> "OP_STATUS_UNRESOLVED",
            succeeded |-> "OP_STATUS_SUCCEEDED", failed |-> "OP_STATUS_FAILED"],
           s, "OP_STATUS_UNSPECIFIED")

opStatusFromProto(s) ==
    Switch([OP_STATUS_UNRESOLVED |-> "unresolved",
            OP_STATUS_SUCCEEDED |-> "succeeded", OP_STATUS_FAILED |-> "failed"],
           s, None)

kindToProto(k) ==
    Switch([user |-> "FAILURE_KIND_USER", canceled |-> "FAILURE_KIND_CANCELED"],
           k, "FAILURE_KIND_SYSTEM")

kindFromProto(k) ==
    Switch([FAILURE_KIND_USER |-> "user", FAILURE_KIND_CANCELED |-> "canceled"],
           k, "system")

awaitModeToProto(m) ==
    Switch([all |-> "AWAIT_MODE_ALL", any |-> "AWAIT_MODE_ANY"],
           m, "AWAIT_MODE_UNSPECIFIED")

awaitModeFromProto(m) == Switch([AWAIT_MODE_ANY |-> "any"], m, "all")

(***************************************************************************)
(* The Go records, with the values of their enumerations.                  *)
(***************************************************************************)
Pointer(p) == \A v, w \in p : v = w

IsAwait(a) ==
    /\ a = [mode |-> a.mode, targets |-> a.targets, deadline |-> a.deadline,
            cancelCascade |-> a.cancelCascade]
    /\ a.mode \in {"all", "any"}

IsWake(w) == w = [targets |-> w.targets, done |-> w.done, expired |-> w.expired]

IsFailure(f) ==
    /\ f = [stepID |-> f.stepID, phase |-> f.phase, attempt |-> f.attempt,
            message |-> f.message, at |-> f.at, kind |-> f.kind, reason |-> f.reason]
    /\ f.phase \in {None, "forward", "unwind", "done"}
    /\ f.kind \in {"system", "user", "canceled"}

IsOperation(op) ==
    /\ op = [status |-> op.status, attempts |-> op.attempts, state |-> op.state,
             order |-> op.order, failure |-> op.failure]
    /\ op.status \in {None, "unresolved", "succeeded", "failed"}
    /\ Pointer(op.failure) /\ \A f \in op.failure : IsFailure(f)

IsCancel(c) == c = [cause |-> c.cause, at |-> c.at]

IsCursor(c) ==
    /\ c = [phase |-> c.phase, stepID |-> c.stepID, attempts |-> c.attempts,
            nextAttemptAt |-> c.nextAttemptAt, lastError |-> c.lastError,
            lastReason |-> c.lastReason, lastErrorAt |-> c.lastErrorAt,
            updatedAt |-> c.updatedAt, awaiting |-> c.awaiting,
            awaited |-> c.awaited, startedAt |-> c.startedAt]
    /\ c.phase \in {None, "forward", "unwind", "done"}
    /\ Pointer(c.awaiting) /\ \A a \in c.awaiting : IsAwait(a)
    /\ Pointer(c.awaited) /\ \A w \in c.awaited : IsWake(w)

\* A record whose outcome is decided.
IsDecided(rec) ==
    /\ rec = [identity |-> rec.identity, createdAt |-> rec.createdAt,
              annotations |-> rec.annotations, input |-> rec.input,
              phase |-> rec.phase, steps |-> rec.steps, failure |-> rec.failure,
              output |-> rec.output, outcome |-> rec.outcome,
              nextAttemptAt |-> rec.nextAttemptAt, awaiting |-> rec.awaiting,
              awaited |-> rec.awaited, lastError |-> rec.lastError,
              lastReason |-> rec.lastReason, lastErrorAt |-> rec.lastErrorAt,
              cancel |-> rec.cancel, updatedAt |-> rec.updatedAt,
              startedAt |-> rec.startedAt]
    /\ rec.phase \in {None, "forward", "unwind", "done"}
    /\ \E o \in {"success", "failure"} : rec.outcome = {o}
    /\ \A s \in DOMAIN rec.steps :
          /\ IsOperation(rec.steps[s].unwind)
          /\ rec.steps[s].unwind.state = NilBytes   \* only a forward operation has one
    /\ Pointer(rec.failure) /\ \A f \in rec.failure : IsFailure(f)
    /\ Pointer(rec.cancel) /\ \A c \in rec.cancel : IsCancel(c)

(***************************************************************************)
(* Messages.  A list of RunIDs has no nil of its own: nothing tells a nil  *)
(* list from an empty one, and runIDsToProto makes them the same.          *)
(***************************************************************************)
awaitToProto(p) ==
    {[mode |-> awaitModeToProto(a.mode), runIds |-> a.targets,
      deadline |-> ts(a.deadline), cancelCascade |-> a.cancelCascade] : a \in p}

\* Mutant: the cascade is left out of what is read back.
AwaitFromProtoPlain(p) ==
    {[mode |-> awaitModeFromProto(pb.mode), targets |-> pb.runIds,
      deadline |-> fromTS(pb.deadline), cancelCascade |-> FALSE] : pb \in p}

awaitFromProto(p) ==
    {[mode |-> awaitModeFromProto(pb.mode), targets |-> pb.runIds,
      deadline |-> fromTS(pb.deadline), cancelCascade |-> pb.cancelCascade]
        : pb \in p}

wakeToProto(p) ==
    {[targets |-> w.targets, done |-> w.done, expired |-> w.expired] : w \in p}

wakeFromProto(p) ==
    {[targets |-> pb.targets, done |-> pb.done, expired |-> pb.expired]
        : pb \in p}

failureRecordToProto(f) ==
    [stepId |-> f.stepID, phase |-> phaseToProto(f.phase),
     attempt |-> f.attempt, message |-> f.message, at |-> ts(f.at),
     kind |-> kindToProto(f.kind), reason |-> f.reason]

failureRecordFromProto(pb) ==
    [stepID |-> pb.stepId, phase |-> phaseFromProto(pb.phase),
     attempt |-> pb.attempt, message |-> pb.message, at |-> fromTS(pb.at),
     kind |-> kindFromProto(pb.kind), reason |-> pb.reason]

operationRecordToProto(op) ==
    [status |-> opStatusToProto(op.status), attempts |-> op.attempts,
     state |-> op.state, order |-> op.order,
     failure |-> {failureRecordToProto(f) : f \in op.failure}]

operationRecordFromProto(pb) ==
    [status |-> opStatusFromProto(pb.status), attempts |-> pb.attempts,
     state |-> GetBytes(pb.state), order |-> pb.order,
     failure |-> {failureRecordFromProto(f) : f \in pb.failure}]

MarshalCancel(c) == [cause |-> c.cause, at |-> ts(c.at)]

UnmarshalCancel(pb) == [cause |-> pb.cause, at |-> fromTS(pb.at)]

MarshalRunMeta(rec) ==
    [identity |-> rec.identity, createdAt |-> ts(rec.createdAt),
     annotations |-> rec.annotations]

UnmarshalRunMeta(pb) ==
    [identity |-> pb.identity, createdAt |-> fromTS(pb.createdAt),
     annotations |-> pb.annotations]

MarshalCursor(c) ==
    [phase |-> phaseToProto(c.phase), stepId |-> c.stepID,
     attempts |-> c.attempts, nextAttemptAt |-> ts(c.nextAttemptAt),
     lastError |-> c.lastError, lastReason |-> c.lastReason,
     lastErrorAt |-> ts(c.lastErrorAt),
     updatedAt |-> ts(c.updatedAt), awaiting |-> awaitToProto(c.awaiting),
     awaited |-> wakeToProto(c.awaited), startedAt |-> ts(c.startedAt)]

UnmarshalCursor(pb) ==
    [phase |-> phaseFromProto(pb.phase), stepID |-> pb.stepId,
     attempts |-> pb.attempts, nextAttemptAt |-> fromTS(pb.nextAttemptAt),
     lastError |-> pb.lastError, lastReason |-> pb.lastReason,
     lastErrorAt |-> fromTS(pb.lastErrorAt),
     updatedAt |-> fromTS(pb.updatedAt), awaiting |-> awaitFromProto(pb.awaiting),
     awaited |-> wakeFromProto(pb.awaited), startedAt |-> fromTS(pb.startedAt)]

----------------------------------------------------------------------------
(***************************************************************************)
(* The terminal stage.  rec.steps maps the Steps a record has an entry for *)
(* to the pair of their operations.                                        *)
(***************************************************************************)
NoOp == [status |-> None, attempts |-> 0, state |-> NilBytes,
         failure |-> {}, order |-> 0]

FailedUnwinds(steps) == {s \in DOMAIN steps : steps[s].unwind.status = "failed"}

\* Mutant: the kept unwinds lose their failures.
CompactStatusOnly(rec) ==
    [rec EXCEPT !.input = NilBytes, !.nextAttemptAt = ZeroTime,
                !.lastErrorAt = ZeroTime, !.lastError = "", !.lastReason = "",
                !.awaiting = {}, !.awaited = {},
                !.steps = [s \in FailedUnwinds(rec.steps) |->
                             [forward |-> NoOp,
                              unwind |-> [rec.steps[s].unwind EXCEPT !.failure = {}]]]]

CompactTerminal(rec) ==
    [rec EXCEPT !.input = NilBytes, !.nextAttemptAt = ZeroTime,
                !.lastErrorAt = ZeroTime, !.lastError = "", !.lastReason = "",
                !.awaiting = {}, !.awaited = {},
                !.steps = [s \in FailedUnwinds(rec.steps) |->
                             [forward |-> NoOp, unwind |-> rec.steps[s].unwind]]]

\* The failures, by Step, as a list in the order their operations resolved.
InOrder(failure, order) ==
    LET steps == SetToSortSeq(DOMAIN failure, LAMBDA s, t : order[s] < order[t])
    IN  [i \in DOMAIN steps |-> failure[steps[i]]]

UnwindFailures(rec) ==
    LET found == {s \in FailedUnwinds(rec.steps) : rec.steps[s].unwind.failure # {}}
    IN  InOrder([s \in found |-> The(rec.steps[s].unwind.failure)],
                [s \in found |-> rec.steps[s].unwind.order])

\* Refused (the error) when the record has no outcome.
CanMarshalTerminal(rec) == rec.outcome # {}

MarshalTerminal(rec, outputBeside) ==
    [outcome |-> outcomeToProto(The(rec.outcome)), outputBeside |-> outputBeside,
     identity |-> rec.identity, createdAt |-> ts(rec.createdAt),
     annotations |-> rec.annotations, phase |-> phaseToProto(rec.phase),
     committedAt |-> ts(rec.updatedAt), startedAt |-> ts(rec.startedAt),
     output |-> IF outputBeside THEN NilBytes ELSE rec.output,
     failedUnwinds |-> [s \in FailedUnwinds(rec.steps) |->
                          operationRecordToProto(rec.steps[s].unwind)],
     failure |-> {failureRecordToProto(f) : f \in rec.failure},
     cancel |-> {MarshalCancel(c) : c \in rec.cancel}]

\* Decodes into the zero RunRecord, as getRun hands it one.
UnmarshalTerminal(pb) ==
    [identity |-> pb.identity, createdAt |-> fromTS(pb.createdAt),
     annotations |-> pb.annotations, phase |-> phaseFromProto(pb.phase),
     updatedAt |-> fromTS(pb.committedAt), startedAt |-> fromTS(pb.startedAt),
     outcome |-> {outcomeFromProto(pb.outcome)}, output |-> GetBytes(pb.output),
     steps |-> [s \in DOMAIN pb.failedUnwinds |->
                  [forward |-> NoOp,
                   unwind |-> operationRecordFromProto(pb.failedUnwinds[s])]],
     failure |-> {failureRecordFromProto(f) : f \in pb.failure},
     cancel |-> {UnmarshalCancel(c) : c \in pb.cancel},
     input |-> NilBytes, nextAttemptAt |-> ZeroTime, lastError |-> "",
     lastReason |-> "", lastErrorAt |-> ZeroTime, awaiting |-> {}, awaited |-> {}]

(***************************************************************************)
(* putTerminal and getRun: an output longer than the row limit is put      *)
(* beside the row, as it is, and read from there.                          *)
(***************************************************************************)
ReadTerminal(rec, outputBeside) ==
    LET read == UnmarshalTerminal(MarshalTerminal(rec, outputBeside))
    IN  IF outputBeside THEN [read EXCEPT !.output = rec.output] ELSE read

(***************************************************************************)
(* putOp and getNonterminal do the same with a long state.                 *)
(***************************************************************************)
ReadOperation(op, stateBeside) ==
    LET row == IF stateBeside THEN [op EXCEPT !.state = NilBytes] ELSE op
        read == operationRecordFromProto(operationRecordToProto(row))
    IN  IF stateBeside THEN [read EXCEPT !.state = op.state] ELSE read

\* committedStates: the Steps a handler's State lookup finds a state for.
HasCommittedState(op) == op.status = "succeeded" /\ op.state # NilBytes
=============================================================================
