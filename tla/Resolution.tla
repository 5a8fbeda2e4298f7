----------------------------- MODULE Resolution -----------------------------
(***************************************************************************)
(* How what a handler returns becomes what the engine does: fail.go and    *)
(* await.go of the authoring API, the classification in runForward and     *)
(* runUnwind, and the same return as durableotel's middleware labels it.   *)
(*                                                                         *)
(* A Go error is the sequence of the links errors.As visits, outermost     *)
(* first; the nil error is the empty sequence.  A link is an ordinary      *)
(* error, which may implement FailureKinder and FailureReasoner (sets of   *)
(* at most one answer), the permanentError of Fail, or the awaitResolution *)
(* of AwaitRun, AwaitAll and AwaitAny.  Messages are left out, and so is   *)
(* the bounding of their text (module Limits).                             *)
(***************************************************************************)
EXTENDS Naturals, Sequences, FiniteSets, FiniteSetsExt, SequencesExt

NoRunID == ""   \* the empty RunID

\* A link with nothing set; the constructors below start from it.
NoLink == [tag |-> "error", kinder |-> {}, reasoner |-> {},
           kindSet |-> FALSE, reason |-> "", park |-> {}, timeout |-> 0]

\* An ordinary error, alone.
Ordinary(kinder, reasoner) ==
    <<[NoLink EXCEPT !.kinder = kinder, !.reasoner = reasoner]>>

\* fmt.Errorf("...: %w", err), as middleware adds it.
Wrapped(err) == IF err = <<>> THEN err ELSE Ordinary({}, {}) \o err

ApplyFailOption(link, o) ==
    IF o = "WithUserKind" THEN [link EXCEPT !.kindSet = TRUE]
                          ELSE [link EXCEPT !.reason = o]

\* opts are "WithUserKind" or the reason given to WithReason.
Fail(err, opts) ==
    LET cause == IF err = <<>> THEN Ordinary({}, {}) ELSE err
    IN  <<FoldLeft(ApplyFailOption, [NoLink EXCEPT !.tag = "fail"], opts)>> \o cause

\* Mutant: only neighbours are collapsed.
DedupeNeighbours(ids) ==
    FoldLeft(LAMBDA out, id : IF out # <<>> /\ Last(out) = id THEN out ELSE Append(out, id),
             <<>>, ids)

dedupeRunIDs(ids) ==
    FoldLeft(LAMBDA out, id : IF Contains(out, id) THEN out ELSE Append(out, id),
             <<>>, ids)

\* An option is WithCancelCascade (cascade set) or WithAwaitTimeout(timeout).
ApplyAwaitOption(link, o) ==
    [link EXCEPT
        !.park = {[p EXCEPT !.cancelCascade = @ \/ o.cascade] : p \in link.park},
        !.timeout = IF o.timeout > 0 THEN o.timeout ELSE @]

newAwait(mode, ids, opts) ==
    <<FoldLeft(ApplyAwaitOption,
               [NoLink EXCEPT !.tag = "park",
                  !.park = {[mode |-> mode, targets |-> dedupeRunIDs(ids),
                             cancelCascade |-> FALSE]}],
               opts)>>

\* The Runs of a list that are in a set, in the order of the list.
Those(ids, set) ==
    FoldLeft(LAMBDA out, id : IF id \in set THEN Append(out, id) ELSE out, <<>>, ids)

\* Wake.Pending.
Pending(targets, done) == Those(targets, ToSet(targets) \ ToSet(done))

(***************************************************************************)
(* errors.As: the first link, from the outermost in, of those that match;  *)
(* 0 when none does.                                                       *)
(***************************************************************************)
As(matching) == IF matching = {} THEN 0 ELSE Min(matching)

asPermanent(err) == As({i \in DOMAIN err : err[i].tag = "fail"})

\* Mutant: a type assertion, which sees the outermost link alone.
AsAwaitOutermost(err) == IF err # <<>> /\ err[1].tag = "park" THEN 1 ELSE 0

asAwait(err) == As({i \in DOMAIN err : err[i].tag = "park"})

\* The error a link wraps.
Unwrap(err, i) == SubSeq(err, i + 1, Len(err))

reasonOf(err) ==
    LET i == As({j \in DOMAIN err : err[j].reasoner # {}})
    IN  IF i = 0 THEN "" ELSE CHOOSE r \in err[i].reasoner : TRUE

failureKind(err, i) ==
    LET inner == Unwrap(err, i)
        k == As({j \in DOMAIN inner : inner[j].kinder # {}})
    IN  CASE err[i].kindSet -> "user"
          [] ~ err[i].kindSet /\ k > 0 -> CHOOSE v \in err[i + k].kinder : TRUE
          [] OTHER -> "system"

failureReason(err, i) ==
    IF err[i].reason # "" THEN err[i].reason ELSE reasonOf(Unwrap(err, i))

\* {} when err does not declare permanent failure.
FailureInfo(err) ==
    {[kind |-> failureKind(err, i), reason |-> failureReason(err, i)]
        : i \in {asPermanent(err)} \ {0}}

\* {} when err is not a park.
AwaitRequest(err) == UNION {err[i].park : i \in {asAwait(err)} \ {0}}

AwaitTimeout(err) == LET i == asAwait(err) IN IF i = 0 THEN 0 ELSE err[i].timeout

----------------------------------------------------------------------------
(***************************************************************************)
(* One attempt.  ret is what the handler did: it panics, or returns err    *)
(* with or without a state; lookup is a State or Input it looked up.       *)
(* cause is why its context died before it returned: "none", "stopping"    *)
(* (the Engine's shutdown) or "preempted" (a cancel).                      *)
(***************************************************************************)
Resolved(result) == [as |-> result, kind |-> "", reason |-> ""]

(***************************************************************************)
(* What was looked up is absent, or decodes, or does not, which is         *)
(* reported.  An Input that does not decode is handed out all the same.    *)
(***************************************************************************)
LookupState(bytes) ==
    [ok |-> bytes = "decodes", violation |-> bytes = "undecodable"]

InputMessage(bytes) ==
    [ok |-> bytes # "absent", violation |-> bytes = "undecodable"]

takeViolation(lookup) ==
    LET found == IF lookup.of = "state" THEN LookupState(lookup.bytes)
                                        ELSE InputMessage(lookup.bytes)
    IN  found.violation

invokeForward(ret, cause) ==
    IF ret.panics
      THEN [panicked |-> TRUE, interrupted |-> FALSE, preempted |-> FALSE,
            err |-> Ordinary({}, {})]
      ELSE [panicked |-> FALSE, interrupted |-> cause = "stopping",
            preempted |-> cause = "preempted", err |-> ret.err]

\* parkAwait's checks of the park itself.
ParkResolution(park) ==
    Resolved(IF park.targets = <<>> \/ Contains(park.targets, NoRunID)
          THEN "invalid" ELSE "awaiting")

\* The switch that ends runForward and runUnwind.
Classify(err, panicked, interrupted) ==
    CASE err = <<>> -> Resolved("succeeded")
      [] FailureInfo(err) # {} ->
           LET info == CHOOSE f \in FailureInfo(err) : TRUE
           IN  [as |-> "failed", kind |-> info.kind, reason |-> info.reason]
      [] err # <<>> /\ FailureInfo(err) = {} /\ interrupted /\ ~ panicked ->
           Resolved("interrupted")
      [] OTHER -> [as |-> "retrying", kind |-> "", reason |-> reasonOf(err)]

runForward(ret, cause, hasState) ==
    LET a == invokeForward(ret, cause)
        park == AwaitRequest(a.err)
    IN  IF takeViolation(ret.lookup) THEN Resolved("invalid")
        ELSE IF a.err # <<>> /\ a.preempted THEN Resolved("canceled")
        ELSE IF park # {} THEN ParkResolution(CHOOSE p \in park : TRUE)
        ELSE IF a.err = <<>> /\ hasState /\ ~ ret.state THEN Resolved("invalid")
        ELSE Classify(a.err, a.panicked, a.interrupted)

\* An unwind is never preempted, and commits no state.
runUnwind(ret, cause) ==
    LET a == invokeForward(ret, IF cause = "preempted" THEN "none" ELSE cause)
        park == AwaitRequest(a.err)
    IN  IF takeViolation(ret.lookup) THEN Resolved("invalid")
        ELSE IF park # {} THEN ParkResolution(CHOOSE p \in park : TRUE)
        ELSE Classify(a.err, a.panicked, a.interrupted)

(***************************************************************************)
(* durableotel's middleware, outside the handler and inside the engine:    *)
(* what it writes on the attempt's span.                                   *)
(***************************************************************************)
SpanFailureFirst(ret) ==   \* mutant: a Fail is labelled before a park is looked for
    LET info == FailureInfo(ret.err)
        park == IF info = {} THEN AwaitRequest(ret.err) ELSE {}
    IN  [error |-> ret.panics \/ (ret.err # <<>> /\ park = {}),
         panicked |-> ret.panics, park |-> park, failure |-> info]

Span(ret) ==
    LET park == AwaitRequest(ret.err)
        info == FailureInfo(ret.err)
    IN  IF ret.panics
          THEN [error |-> TRUE, panicked |-> TRUE, park |-> {}, failure |-> {}]
        ELSE [error |-> ret.err # <<>> /\ park = {}, panicked |-> FALSE,
              park |-> park, failure |-> IF park = {} THEN info ELSE {}]
=============================================================================
