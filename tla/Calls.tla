------------------------------- MODULE Calls --------------------------------
(***************************************************************************)
(* The parts of the program that are functions of their arguments: the     *)
(* storage encoding, the resolution of a handler's return, the definition  *)
(* of a deployment and the limits on the engine's inputs.  A behaviour is  *)
(* one call, its answer, and the properties relate the two; a deployment   *)
(* takes several steps, for the application binds its definitions one by   *)
(* one, in any order, and starts the engine between any two of them.       *)
(***************************************************************************)
EXTENDS Encoding, Resolution, Definition, Limits

CONSTANTS
    Cursors,        \* the cursors the engine writes
    Operations,     \* the resolved operation records it writes
    Records,        \* the records of Runs about to become terminal
    Returns,        \* what a handler may do in one attempt
    Targets,        \* the sequences of RunIDs a handler may park on
    ParkOptions,    \* the options it may give the park
    Schemas,        \* declarations handed to the code generator
    HandWritten,    \* sets of definitions assembled without it
    Texts,          \* messages, reasons and causes
    Policies,       \* retry policies
    MaxAttempt,     \* bound: the attempts a delay is computed for
    Schedules,      \* the (annotators, options) of a call of Schedule
    URIs            \* store URIs

\* A return is a record of what the handler did; its error is any sequence.
ASSUME ReturnsAssumption ==
    \A r \in Returns :
        /\ r = [panics |-> r.panics, state |-> r.state, lookup |-> r.lookup, err |-> r.err]
        /\ r.panics \in BOOLEAN
        /\ r.err \in Seq({r.err[i] : i \in DOMAIN r.err})

\* A handler parks on a list of Runs, with a list of options.
ASSUME ParksAssumption ==
    /\ \A ids \in Targets : ids \in Seq({ids[i] : i \in DOMAIN ids})
    /\ \A opts \in ParkOptions : opts \in Seq({opts[i] : i \in DOMAIN opts})

\* Text is a list of characters and bad bytes; a policy is in whole units.
ASSUME SettingsAssumption ==
    /\ \A text \in Texts : text \in Seq(0..4)
    /\ MaxAttempt \in Nat
    /\ \A p \in Policies : /\ p.initial \in Nat /\ p.multiplier \in Int
                          /\ p.max \in Int /\ p.max <= MaxDuration

\* Schedule takes lists, of annotation maps and of options; no time is before
\* the zero one, and only WithAnnotations gives annotations.
ASSUME SchedulesAssumption ==
    \A s \in Schedules :
        LET opts == s.opts
        IN  /\ s.annotators \in Seq({s.annotators[i] : i \in DOMAIN s.annotators})
            /\ opts \in Seq({opts[i] : i \in DOMAIN opts})
            /\ \A i \in DOMAIN opts :
                  /\ opts[i].opt \in {"StartAt", "StartAfter", "WithAnnotations"}
                  /\ opts[i].time \in Int
                  /\ opts[i].opt = "StartAt" => opts[i].time \in Nat
                  /\ opts[i].opt # "WithAnnotations" => opts[i].annotations = <<>>

\* Every unit that a count may have is one of those with a multiplier.
ASSUME URIsAssumption ==
    \A uri \in URIs : \A i \in DOMAIN uri.pairs : uri.pairs[i].value.unit \in DOMAIN Unit

\* The messages nested in one another are lists; an unwind is declared or not.
ASSUME SchemasAssumption ==
    \A files \in Schemas : \A i \in DOMAIN files :
        LET nested == files[i].nested
        IN  /\ nested \in Seq({nested[j] : j \in DOMAIN nested})
            /\ \A j \in DOMAIN nested : nested[j].unwind \in BOOLEAN

\* What is stored is what the Go types can hold.
ASSUME StoredAssumption ==
    /\ \A c \in Cursors : IsCursor(c)
    /\ \A op \in Operations : IsOperation(op)
    /\ \A rec \in Records : IsDecided(rec)

Causes == {"none", "stopping", "preempted"}
Types == {"In", "Out"}
Drivers == {"bbolt", "mem"}
Now == 5
RunClasses == {"jobs"}   \* classes: the concurrency classes of a deployment

VARIABLES
    call,   \* the call: its kind and its arguments
    reply   \* [done, value]: whether it was answered, and how

vars == <<call, reply>>

Unanswered == [done |-> FALSE, value |-> <<>>]

Answer(v) == reply' = [done |-> TRUE, value |-> v] /\ UNCHANGED call

Called(kind) == call.kind = kind /\ ~ reply.done

AllCalls ==
    [kind : {"cursor"}, cursor : Cursors]
    \cup [kind : {"operation"}, op : Operations, beside : BOOLEAN]
    \cup [kind : {"record"}, rec : Records, beside : BOOLEAN]
    \cup [kind : {"attempt"}, ret : Returns, cause : Causes, hasState : BOOLEAN]
    \cup [kind : {"park"}, ids : Targets, done : SUBSET UNION {ToSet(t) : t \in Targets},
          opts : ParkOptions]
    \cup [kind : {"generate"}, files : Schemas]
    \cup [kind : {"deploy"}, configs : HandWritten, generated : {FALSE},
          handlers : {<<>>}, classes : {{"api"}, {"jobs"}}]
    \cup [kind : {"text"}, text : Texts, limit : 0..(2 * MarkWidth)]
    \cup [kind : {"retry"}, policy : Policies, attempt : 1..MaxAttempt]
    \cup [kind : {"schedule"}, options : Schedules]
    \cup [kind : {"open"}, uri : URIs]

\* Only what the store would put beside its row goes there: never an empty
\* slice, and always one whose length is past the limit.
Sensible(c) ==
    /\ c.kind = "operation" /\ c.beside => c.op.state \notin {NilBytes, EmptyBytes}
    /\ c.kind = "record" /\ c.beside => c.rec.output \notin {NilBytes, EmptyBytes}

Init ==
    /\ call \in {c \in AllCalls : Sensible(c)}
    /\ reply = IF call.kind = "deploy" THEN [done |-> FALSE, value |-> Unbound]
                                       ELSE Unanswered

StoreCursor ==
    /\ Called("cursor")
    /\ Answer(UnmarshalCursor(MarshalCursor(call.cursor)))

StoreOperation ==
    /\ Called("operation")
    /\ Answer(ReadOperation(call.op, call.beside))

\* The rows of a nonterminal record, and the one row of its terminal stage.
StoreRecord ==
    /\ Called("record")
    /\ LET rec == call.rec
           compact == CompactTerminal(rec)
       IN  /\ CanMarshalTerminal(compact)
           /\ Answer([meta |-> UnmarshalRunMeta(MarshalRunMeta(rec)),
                      cancel |-> {UnmarshalCancel(MarshalCancel(c)) : c \in rec.cancel},
                      failure |-> {failureRecordFromProto(failureRecordToProto(f))
                                     : f \in rec.failure},
                      terminal |-> ReadTerminal(compact, call.beside)])

ResolveAttempt ==
    /\ Called("attempt")
    /\ Answer([forward |-> runForward(call.ret, call.cause, call.hasState),
               unwind |-> runUnwind(call.ret, call.cause),
               span |-> Span(call.ret)])

\* A park on ids, woken with those of done finished, parked again on the rest.
ParkAgain ==
    /\ Called("park")
    /\ LET park(ids) == newAwait("any", ids, call.opts)
           asked == The(AwaitRequest(park(call.ids)))
           done == Those(asked.targets, call.done)
           again == The(AwaitRequest(park(Pending(asked.targets, done))))
       IN  Answer([again |-> again.targets, cascade |-> asked.cancelCascade,
                   timeout |-> AwaitTimeout(park(call.ids))])

RunGenerator ==
    /\ Called("generate")
    /\ IF GenerateAccepts(call.files, Types)
         THEN /\ call' = [kind |-> "deploy", configs |-> Generate(call.files),
                          generated |-> TRUE, handlers |-> GenerateHandlers(call.files),
                          classes |-> {"api"}]
              /\ reply' = [done |-> FALSE, value |-> Unbound]
         ELSE Answer("refused")

BindDefinition ==
    /\ call.kind = "deploy"
    /\ \E cfg \in call.configs : reply' = [reply EXCEPT !.value = Bind(@, cfg)]
    /\ UNCHANGED call

StartEngine ==
    /\ call.kind = "deploy"
    /\ reply' = [reply EXCEPT !.value = Start(@, RunClasses, call.classes)]
    /\ UNCHANGED call

BoundText ==
    /\ Called("text")
    /\ Answer(boundText(call.text, call.limit))

Backoff ==
    /\ Called("retry")
    /\ \E d \in backoff(call.policy, call.attempt) : Answer(d)

Schedule ==
    /\ Called("schedule")
    /\ Answer(ScheduleRecord(call.options.annotators, call.options.opts, Now))

OpenStore ==
    /\ Called("open")
    /\ Answer(Open(call.uri, Drivers))

Next ==
    \/ StoreCursor \/ StoreOperation \/ StoreRecord
    \/ ResolveAttempt \/ ParkAgain
    \/ RunGenerator \/ BindDefinition \/ StartEngine
    \/ BoundText \/ Backoff \/ Schedule \/ OpenStore

Spec == Init /\ [][Next]_vars

----------------------------------------------------------------------------
(***************************************************************************)
(* What the bbolt store reads is what was written: every cursor, operation *)
(* row, identity, cancel request and run failure comes back as it went in, *)
(* and the terminal row as the record CompactTerminal leaves, which is     *)
(* what the memory store keeps.  The one difference is that a slice of no  *)
(* bytes comes back nil (convert.go).                                      *)
(***************************************************************************)
ReadsBack ==
    reply.done =>
        /\ call.kind = "cursor" => reply.value = call.cursor
        /\ call.kind = "operation" =>
              reply.value = [call.op EXCEPT !.state = GetBytes(@)]
        /\ call.kind = "record" =>
              /\ \A f \in DOMAIN reply.value.meta : reply.value.meta[f] = call.rec[f]
              /\ reply.value.cancel = call.rec.cancel
              /\ reply.value.failure = call.rec.failure
              /\ reply.value.terminal =
                    [CompactTerminal(call.rec) EXCEPT !.output = GetBytes(@)]

(***************************************************************************)
(* A terminal Run still tells every compensation that did not happen, in   *)
(* the order the unwinds resolved: UnwindFailures over the one terminal    *)
(* row answers what it answered over the full record (driver.go, "so       *)
(* UnwindFailures still answers").                                         *)
(***************************************************************************)
UnwindHistoryKept ==
    reply.done /\ call.kind = "record" =>
        UnwindFailures(reply.value.terminal) = UnwindFailures(call.rec)

(***************************************************************************)
(* A Run read back from the file is the Run that was written, before and   *)
(* after its rows are compacted.                                           *)
(***************************************************************************)
RecordSurvives == ReadsBack /\ UnwindHistoryKept

(***************************************************************************)
(* A Step with a committed State has one whoever reads the Run: LookupState *)
(* answers ok over the record read back exactly when it did over the record *)
(* that was written (state.go; OperationRecord.State in driver.go).        *)
(***************************************************************************)
StateSurvives ==
    reply.done /\ call.kind = "operation" =>
        (HasCommittedState(reply.value) <=> HasCommittedState(call.op))

(***************************************************************************)
(* The span durableotel closes over an attempt agrees with what the engine *)
(* then does, for any return of any handler in either phase: it shows a    *)
(* park exactly when the operation parks, a failure kind and reason        *)
(* exactly when one is committed, and those; no error exactly when the     *)
(* operation succeeded or parked; and a panic is retried.  Aside are an    *)
(* attempt a cancel cut, which resolves as canceled whatever its span      *)
(* shows, and one that makes the Run invalid.                              *)
(***************************************************************************)
SpanAgrees ==
    reply.done /\ call.kind = "attempt" =>
        LET span == reply.value.span
            resolutions == {reply.value.unwind}
                           \cup (IF call.cause = "preempted" THEN {}
                                 ELSE {reply.value.forward})
        IN  \A r \in resolutions :
               \/ r.as = "invalid"
               \/ /\ (r.as = "awaiting") <=> (span.park # {})
                  /\ span.failure = IF r.as = "failed"
                                      THEN {[kind |-> r.kind, reason |-> r.reason]}
                                      ELSE {}
                  /\ span.error <=> r.as \notin {"succeeded", "awaiting"}
                  /\ span.panicked => r.as = "retrying"

(***************************************************************************)
(* Wrapping changes nothing: an error that middleware or a helper adds a   *)
(* layer to (%w) resolves the operation exactly as the bare one does, in   *)
(* both phases, with the same kind and reason (fail.go and await.go find   *)
(* their resolutions anywhere in the chain).                               *)
(***************************************************************************)
WrappingIsTransparent ==
    reply.done /\ call.kind = "attempt" =>
        LET ret == [call.ret EXCEPT !.err = Wrapped(@)]
        IN  /\ runForward(ret, call.cause, call.hasState) = reply.value.forward
            /\ runUnwind(ret, call.cause) = reply.value.unwind

(***************************************************************************)
(* A handler that parks on some Runs, and on waking parks again on         *)
(* Wake.Pending, waits for each Run that is not done, once, in the order   *)
(* it first named them (newAwait, dedupeRunIDs and Wake.Pending).          *)
(***************************************************************************)
ReparkCoversRest ==
    reply.done /\ call.kind = "park" =>
        LET again == reply.value.again
            first(t) == Min({i \in DOMAIN call.ids : call.ids[i] = t})
        IN  /\ ToSet(again) = ToSet(call.ids) \ call.done
            /\ \A i, j \in DOMAIN again : i < j => first(again[i]) < first(again[j])

(***************************************************************************)
(* What the generator accepts, the engine binds: until Start, whichever    *)
(* definitions of one generation are bound already, each of the others is  *)
(* accepted by Bind (bind.go: an error "for generated code ... indicates a *)
(* code-generation bug").  The generator does not look inside a name, so   *)
(* this asks for ids without NUL and mutexes that are not empty.           *)
(***************************************************************************)
GeneratedBinds ==
    call.kind = "deploy" /\ call.generated /\ ~ reply.value.started =>
        \A cfg \in call.configs :
            LET names == {cfg.id} \cup cfg.mutexes \cup StepIDs(cfg)
            IN  names \cap {"", Malformed} = {} /\ cfg.id \notin DOMAIN reply.value.pipelines
                   => Binds(cfg) /\ Registers(reply.value, cfg)

(***************************************************************************)
(* A generated pipeline can be implemented, and its adapters call what is  *)
(* implemented: its handler interface declares no method twice, and the    *)
(* functions of its Config call exactly the methods of that interface      *)
(* (Generate's claims; emitHandlers against emitDefinition).               *)
(***************************************************************************)
HandlersImplementable ==
    call.kind = "deploy" /\ call.generated =>
        \A cfg \in call.configs :
            LET methods == call.handlers[cfg.id]
            IN  /\ Distinct(methods)
                /\ ToSet(methods) =
                      cfg.reduce \cup cfg.reduceFailure
                      \cup UNION {cfg.steps[i].run \cup cfg.steps[i].unwindFunc
                                    : i \in DOMAIN cfg.steps}

(***************************************************************************)
(* What the code generator emits is what the engine and the application    *)
(* need of it.                                                             *)
(***************************************************************************)
GeneratedSound == GeneratedBinds /\ HandlersImplementable

(***************************************************************************)
(* One durable Step belongs to exactly one active pipeline: whatever Binds *)
(* were refused on the way, the owners of Steps are exactly the bound      *)
(* pipelines that declare them (register; the check against a second       *)
(* owner comes before the first write).                                    *)
(***************************************************************************)
StepOwnedOnce ==
    call.kind = "deploy" =>
        LET eng == reply.value
        IN  /\ DOMAIN eng.stepOwner = UNION {StepIDs(eng.pipelines[p])
                                               : p \in DOMAIN eng.pipelines}
            /\ \A p \in DOMAIN eng.pipelines : \A s \in StepIDs(eng.pipelines[p]) :
                  eng.stepOwner[s] = p

(***************************************************************************)
(* Exclusion is mutual: admission checks the slots of a pipeline's own     *)
(* exclusion set only, so two pipelines that share a mutex must each find  *)
(* the other in theirs, and two that share none must not (resolveMutexes). *)
(***************************************************************************)
ExclusionMutual ==
    call.kind = "deploy" /\ reply.value.started =>
        LET eng == reply.value
        IN  \A p, q \in DOMAIN eng.excludes :
               q \in eng.excludes[p] <=>
                  \/ p = q
                  \/ eng.pipelines[p].mutexes \cap eng.pipelines[q].mutexes # {}

(***************************************************************************)
(* A started engine's registry is final: no Bind and no second Start       *)
(* changes it, so lock-free readers of the frozen maps see one value       *)
(* (frozen.go, register and Start).                                        *)
(***************************************************************************)
FrozenOnceStarted ==
    [][call.kind = "deploy" /\ reply.value.started => UNCHANGED reply]_vars

(***************************************************************************)
(* Recorded text is valid, within the limit, and as long as it can be: cut *)
(* at a character, marked, and one more character would not have fitted    *)
(* (boundText).  A limit the mark alone exceeds is the exception.          *)
(***************************************************************************)
TextBounded ==
    reply.done /\ call.kind = "text" =>
        LET s == sanitizeText(call.text)
            limit == IF call.limit = 0 THEN DefaultTextLimit ELSE call.limit
            kept == Len(reply.value) - 1
        IN  /\ \A i \in DOMAIN reply.value : reply.value[i] # BadByte
            /\ Bytes(s) <= limit => reply.value = s
            /\ Bytes(s) > limit /\ limit >= MarkWidth =>
                  /\ Bytes(reply.value) <= limit
                  /\ reply.value = Append(SubSeq(s, 1, kept), MarkWidth)
                  /\ Bytes(SubSeq(s, 1, kept + 1)) + MarkWidth > limit

(***************************************************************************)
(* Backing off never turns into speeding up: no later attempt may wait     *)
(* less than half of what an earlier one did, whatever the jitter, as long *)
(* as the later delay is one that a Duration holds: with a maximum always, *)
(* without one until the growth overflows, when the delay may even be      *)
(* negative; from nothing while the growth is a number.  A policy with a   *)
(* maximum never waits longer (backoff).                                   *)
(***************************************************************************)
Holds(policy, attempts) ==
    IF policy.initial = 0 THEN Growth(policy, attempts) <= MaxFloat
    ELSE policy.max > 0 \/ Uncapped(policy, attempts) <= MaxDuration

BackoffNeverShrinks ==
    reply.done /\ call.kind = "retry" =>
        /\ call.policy.max > 0 => reply.value <= call.policy.max
        /\ \A later \in call.attempt..MaxAttempt : Holds(call.policy, later) =>
              \A d \in backoff(call.policy, later) : 2 * d + 1 >= reply.value

(***************************************************************************)
(* Of several start options the last one alone decides, one that asks for  *)
(* no delay included; of several values for an annotation the last one is  *)
(* kept, and any the call gives beats the engine's annotators (schedule.go *)
(* and Pipeline.Schedule).  Of several timeouts of a park the last that is *)
(* positive decides, and a cascade asked for is never taken back           *)
(* (await.go).                                                             *)
(***************************************************************************)
LastParkOptionWins ==
    LET opts == call.opts
        positive == {i \in DOMAIN opts : opts[i].timeout > 0}
    IN  /\ reply.value.timeout = IF positive = {} THEN 0 ELSE opts[Max(positive)].timeout
        /\ (reply.value.cascade <=> \E i \in DOMAIN opts : opts[i].cascade)

LastOptionWins ==
    /\ reply.done /\ call.kind = "park" => LastParkOptionWins
    /\ reply.done /\ call.kind = "schedule" =>
        LET opts == call.options.opts
            starts == {i \in DOMAIN opts : opts[i].opt # "WithAnnotations"}
            last == opts[Max(starts)]
            maps == call.options.annotators
                    \o [i \in DOMAIN opts |-> opts[i].annotations]
            givers(k) == {i \in DOMAIN maps : k \in DOMAIN maps[i]}
        IN  /\ reply.value.nextAttemptAt =
                  IF starts = {} \/ last.time <= 0 THEN 0
                  ELSE IF last.opt = "StartAt" THEN last.time
                  ELSE Now + last.time
            /\ DOMAIN reply.value.annotations = UNION {DOMAIN maps[i] : i \in DOMAIN maps}
            /\ \A k \in DOMAIN reply.value.annotations :
                  reply.value.annotations[k] = maps[Max(givers(k))][k]

(***************************************************************************)
(* A store opens as the options that url.ParseQuery keeps ask, or not at   *)
(* all: each of them is known and given once, one in a count that fits an  *)
(* int is the limit the store runs with, and one that is not among them    *)
(* has its default, also when the URI has it in a pair that is not well    *)
(* formed and is dropped in silence; no driver is guessed (store.Open, the *)
(* openers of the drivers, parseBytes).                                    *)
(***************************************************************************)
OpenedAsAsked ==
    reply.done /\ call.kind = "open" /\ reply.value.opened =>
        LET uri == call.uri
            limit == [blob_cache |-> reply.value.blobCache,
                      output_cache |-> reply.value.outputCache]
        IN  /\ reply.value.driver = uri.scheme
            /\ \A i \in Kept(uri) :
                  LET key == uri.pairs[i].key
                      v == uri.pairs[i].value
                      asked == v.number * Unit[v.unit]
                  IN  /\ key \in DOMAIN limit
                      /\ \A j \in Kept(uri) : uri.pairs[j].key = key => j = i
                      /\ asked <= MaxInt => limit[key] = asked
            /\ uri.scheme = "bbolt" => \A key \in DOMAIN limit :
                  (\A i \in Kept(uri) : uri.pairs[i].key # key) => limit[key] = DefaultCache

(***************************************************************************)
(* What callers set holds, at the boundary values too: the limit of texts, *)
(* the retry policy, the options of a call and those of a store's URI.     *)
(***************************************************************************)
SettingsHold ==
    TextBounded /\ BackoffNeverShrinks /\ LastOptionWins /\ OpenedAsAsked
=============================================================================
