---------------------------- MODULE CallsProofs ----------------------------
(***************************************************************************)
(* Theorems about Calls.  The registry of an engine, for any definitions,  *)
(* generated or assembled by hand, bound in any order, with Start between  *)
(* any two of them: one owner per Step, mutual exclusion, and no change    *)
(* once the engine is started.  The span of an attempt and its resolution  *)
(* agree for any error a handler may return, however it is nested.  A      *)
(* layer of wrapping changes no resolution, for error chains of any length *)
(* and any links.  What the storage encoding gives back of a Run is what   *)
(* it was given.  Parking again on what is pending covers the rest, for    *)
(* lists of any length.  What the generator accepts binds, and can be      *)
(* implemented, for any declarations.  And what callers set holds: limits  *)
(* of texts, retry policies, options and store URIs.                       *)
(***************************************************************************)
EXTENDS Calls, WellFoundedInduction, TLAPS

\* The registry is a record of these fields, and so is the reply that holds it.
IsEngine(eng) ==
    /\ eng = [pipelines |-> eng.pipelines, stepOwner |-> eng.stepOwner,
              started |-> eng.started, excludes |-> eng.excludes]
    /\ eng.started \in BOOLEAN

Owned(eng) ==
    /\ DOMAIN eng.stepOwner = UNION {StepIDs(eng.pipelines[p])
                                       : p \in DOMAIN eng.pipelines}
    /\ \A p \in DOMAIN eng.pipelines : \A s \in StepIDs(eng.pipelines[p]) :
          eng.stepOwner[s] = p

\* What Start resolved is what the bound definitions say.
Excluded(eng) == eng.started => eng.excludes = resolveMutexes(eng.pipelines)

(***************************************************************************)
(* The inductive invariant: a deployment's reply holds a registry whose    *)
(* owners are those of the bound definitions and whose exclusion sets, once *)
(* started, are the resolved ones.                                         *)
(***************************************************************************)
DeployInv ==
    call.kind = "deploy" =>
        /\ reply = [done |-> reply.done, value |-> reply.value]
        /\ IsEngine(reply.value) /\ Owned(reply.value) /\ Excluded(reply.value)

----------------------------------------------------------------------------
(***************************************************************************)
(* resolveMutexes answers the relation of sharing a mutex, itself added,   *)
(* whatever the definitions declare.                                       *)
(***************************************************************************)
LEMMA ResolvedShare ==
    ASSUME NEW pipelines
    PROVE  /\ DOMAIN resolveMutexes(pipelines) = DOMAIN pipelines
           /\ \A p, q \in DOMAIN pipelines :
                 q \in resolveMutexes(pipelines)[p] <=>
                    p = q \/ pipelines[p].mutexes \cap pipelines[q].mutexes # {}
  BY DEF resolveMutexes, Holders

\* An engine nothing was bound to has no Step and is not started.
LEMMA UnboundIsRegistry == IsEngine(Unbound) /\ Owned(Unbound) /\ Excluded(Unbound)
<1>1. DOMAIN Unbound.pipelines = {} /\ DOMAIN Unbound.stepOwner = {}
  BY DEF Unbound
<1>2. UNION {StepIDs(Unbound.pipelines[p]) : p \in DOMAIN Unbound.pipelines} = {}
  BY <1>1
<1> QED
  BY <1>1, <1>2 DEF IsEngine, Owned, Excluded, Unbound

(***************************************************************************)
(* Bind keeps the books: a definition it accepts owns all of its Steps and *)
(* takes none from another, one it refuses changes nothing.                *)
(***************************************************************************)
LEMMA BindKeepsRegistry ==
    ASSUME NEW eng, NEW cfg, IsEngine(eng), Owned(eng), Excluded(eng)
    PROVE  /\ IsEngine(Bind(eng, cfg)) /\ Owned(Bind(eng, cfg))
           /\ Excluded(Bind(eng, cfg))
           /\ eng.started => Bind(eng, cfg) = eng
<1>1. CASE ~ (Binds(cfg) /\ Registers(eng, cfg))
  BY <1>1 DEF Bind
<1>2. CASE Binds(cfg) /\ Registers(eng, cfg)
  <2> DEFINE ps == Put(eng.pipelines, {cfg.id}, cfg)
             os == Put(eng.stepOwner, StepIDs(cfg), cfg.id)
             new == Bind(eng, cfg)
  <2>1. /\ ~ eng.started
        /\ cfg.id \notin DOMAIN eng.pipelines
        /\ StepIDs(cfg) \cap DOMAIN eng.stepOwner = {}
    BY <1>2 DEF Registers
  <2>2. new = [pipelines |-> ps, stepOwner |-> os, started |-> eng.started,
               excludes |-> eng.excludes]
    BY <1>2 DEF Bind, IsEngine
  <2>3. /\ DOMAIN ps = {cfg.id} \cup DOMAIN eng.pipelines
        /\ ps[cfg.id] = cfg
        /\ \A p \in DOMAIN eng.pipelines : ps[p] = eng.pipelines[p]
    BY <2>1 DEF Put
  <2>4. /\ DOMAIN os = StepIDs(cfg) \cup DOMAIN eng.stepOwner
        /\ \A s \in StepIDs(cfg) : os[s] = cfg.id
        /\ \A s \in DOMAIN eng.stepOwner : os[s] = eng.stepOwner[s]
    BY <2>1 DEF Put
  <2> HIDE DEF ps, os, new
  <2>5. IsEngine(new) /\ Excluded(new)
    BY <2>1, <2>2 DEF IsEngine, Excluded
  <2>6. DOMAIN os = UNION {StepIDs(ps[p]) : p \in DOMAIN ps}
    BY <2>3, <2>4 DEF Owned
  <2>7. \A p \in DOMAIN ps : \A s \in StepIDs(ps[p]) : os[s] = p
    <3> SUFFICES ASSUME NEW p \in DOMAIN ps, NEW s \in StepIDs(ps[p])
                 PROVE  os[s] = p
      OBVIOUS
    <3>1. CASE p = cfg.id
      BY <3>1, <2>3, <2>4
    <3>2. CASE p # cfg.id
      <4>1. p \in DOMAIN eng.pipelines /\ s \in StepIDs(eng.pipelines[p])
        BY <3>2, <2>3
      <4>2. s \in DOMAIN eng.stepOwner /\ eng.stepOwner[s] = p
        BY <4>1 DEF Owned
      <4> QED
        BY <4>2, <2>4
    <3> QED
      BY <3>1, <3>2
  <2> QED
    BY <2>1, <2>2, <2>5, <2>6, <2>7 DEF Owned, new
<1> QED
  BY <1>1, <1>2

\* Start resolves the mutexes of what is bound; a second one changes nothing.
LEMMA StartKeepsRegistry ==
    ASSUME NEW eng, NEW classes, IsEngine(eng), Owned(eng), Excluded(eng)
    PROVE  /\ IsEngine(Start(eng, RunClasses, classes))
           /\ Owned(Start(eng, RunClasses, classes))
           /\ Excluded(Start(eng, RunClasses, classes))
           /\ eng.started => Start(eng, RunClasses, classes) = eng
<1>1. CASE ~ CanStart(eng, RunClasses, classes)
  BY <1>1 DEF Start
<1>2. CASE CanStart(eng, RunClasses, classes)
  <2> DEFINE new == Start(eng, RunClasses, classes)
             res == resolveMutexes(eng.pipelines)
  <2>1. new = [pipelines |-> eng.pipelines, stepOwner |-> eng.stepOwner,
               started |-> TRUE, excludes |-> res]
    <3> HIDE DEF res
    <3>1. new = [eng EXCEPT !.started = TRUE, !.excludes = res]
      BY <1>2 DEF Start, res
    <3> HIDE DEF new
    <3> QED
      BY <3>1 DEF IsEngine
  <2>2. ~ eng.started
    BY <1>2 DEF CanStart
  <2> HIDE DEF new, res
  <2>3. IsEngine(new) /\ Owned(new)
    BY <2>1 DEF IsEngine, Owned
  <2>4. Excluded(new)
    BY <2>1 DEF Excluded, res
  <2> QED
    BY <2>2, <2>3, <2>4 DEF new
<1> QED
  BY <1>1, <1>2

----------------------------------------------------------------------------
\* Before the first call is answered, a deployment has bound nothing.
LEMMA InitDeploy == Init => DeployInv
  BY UnboundIsRegistry DEF Init, DeployInv

\* The answer of any other call leaves a deployment alone.
LEMMA OtherCalls ==
    ASSUME DeployInv, NEW kind, Called(kind), kind # "deploy", NEW v, Answer(v)
    PROVE  DeployInv'
  BY DEF DeployInv, Called, Answer

LEMMA NextDeploy == DeployInv /\ [Next]_vars => DeployInv'
<1> SUFFICES ASSUME DeployInv, [Next]_vars PROVE DeployInv'
  OBVIOUS
<1> DEFINE Fine(eng) == IsEngine(eng) /\ Owned(eng) /\ Excluded(eng)
<1>1. CASE StoreCursor
  BY <1>1, OtherCalls DEF StoreCursor
<1>2. CASE StoreOperation
  BY <1>2, OtherCalls DEF StoreOperation
<1>3. CASE StoreRecord
  BY <1>3, OtherCalls DEF StoreRecord
<1>4. CASE ResolveAttempt
  BY <1>4, OtherCalls DEF ResolveAttempt
<1>5. CASE ParkAgain
  BY <1>5, OtherCalls DEF ParkAgain
<1>6. CASE RunGenerator
  <2>1. CASE GenerateAccepts(call.files, Types)
    <3>1. reply' = [done |-> FALSE, value |-> Unbound]
      BY <1>6, <2>1 DEF RunGenerator
    <3> QED
      BY <3>1, UnboundIsRegistry DEF DeployInv, IsEngine, Owned, Excluded
  <2>2. CASE ~ GenerateAccepts(call.files, Types)
    BY <1>6, <2>2, OtherCalls DEF RunGenerator
  <2> QED
    BY <2>1, <2>2
<1>7. CASE BindDefinition
  <2>1. PICK cfg \in call.configs : reply' = [reply EXCEPT !.value = Bind(@, cfg)]
    BY <1>7 DEF BindDefinition
  <2>2. Fine(reply.value) /\ reply = [done |-> reply.done, value |-> reply.value]
    BY <1>7 DEF BindDefinition, DeployInv
  <2>3. reply' = [done |-> reply.done, value |-> Bind(reply.value, cfg)]
    BY <2>1, <2>2
  <2>4. Fine(Bind(reply.value, cfg))
    BY <2>2, BindKeepsRegistry
  <2> QED
    BY <2>3, <2>4 DEF DeployInv, IsEngine, Owned, Excluded
<1>8. CASE StartEngine
  <2> DEFINE new == Start(reply.value, RunClasses, call.classes)
  <2>1. Fine(reply.value) /\ reply = [done |-> reply.done, value |-> reply.value]
    BY <1>8 DEF StartEngine, DeployInv
  <2>2. reply' = [done |-> reply.done, value |-> new]
    BY <1>8, <2>1 DEF StartEngine
  <2>3. Fine(new)
    BY <2>1, StartKeepsRegistry
  <2> QED
    BY <2>2, <2>3 DEF DeployInv, IsEngine, Owned, Excluded
<1>9. CASE BoundText
  BY <1>9, OtherCalls DEF BoundText
<1>10. CASE Backoff
  BY <1>10, OtherCalls DEF Backoff
<1>11. CASE Schedule
  BY <1>11, OtherCalls DEF Schedule
<1>12. CASE OpenStore
  BY <1>12, OtherCalls DEF OpenStore
<1>13. CASE UNCHANGED vars
  BY <1>13 DEF DeployInv, vars, IsEngine, Owned, Excluded
<1> QED
  BY <1>1, <1>2, <1>3, <1>4, <1>5, <1>6, <1>7, <1>8, <1>9, <1>10, <1>11, <1>12,
     <1>13 DEF Next

LEMMA DeployAlways == Spec => []DeployInv
  BY InitDeploy, NextDeploy, PTL DEF Spec

(***************************************************************************)
(* For any definitions bound in any order, with any of them refused on the *)
(* way, the owners of Steps are exactly the bound pipelines that declare   *)
(* them (Engine.register).                                                 *)
(***************************************************************************)
THEOREM StepOwnedOnceAlways == Spec => []StepOwnedOnce
<1>1. DeployInv => StepOwnedOnce
  BY DEF DeployInv, StepOwnedOnce, Owned
<1> QED
  BY <1>1, DeployAlways, PTL

(***************************************************************************)
(* Whatever mutexes the definitions declare, two pipelines of a started    *)
(* engine are in each other's exclusion set exactly when they share one    *)
(* (Engine.resolveMutexes).                                                *)
(***************************************************************************)
THEOREM ExclusionMutualAlways == Spec => []ExclusionMutual
<1>1. DeployInv => ExclusionMutual
  <2> SUFFICES ASSUME DeployInv, call.kind = "deploy", reply.value.started
               PROVE  ExclusionMutual
    BY DEF ExclusionMutual
  <2>1. reply.value.excludes = resolveMutexes(reply.value.pipelines)
    BY DEF DeployInv, Excluded
  <2> QED
    BY <2>1, ResolvedShare DEF ExclusionMutual
<1> QED
  BY <1>1, DeployAlways, PTL

(***************************************************************************)
(* A started engine's registry never changes, whatever is bound to it and  *)
(* however often it is started again (the frozen maps).                    *)
(***************************************************************************)
THEOREM FrozenOnceStartedAlways == Spec => FrozenOnceStarted
<1>1. DeployInv /\ [Next]_vars
         => [call.kind = "deploy" /\ reply.value.started => UNCHANGED reply]_vars
  <2> SUFFICES ASSUME DeployInv, Next, call.kind = "deploy", reply.value.started
               PROVE  UNCHANGED reply
    BY DEF vars
  <2>1. /\ reply = [done |-> reply.done, value |-> reply.value]
        /\ IsEngine(reply.value) /\ Owned(reply.value) /\ Excluded(reply.value)
    BY DEF DeployInv
  <2>2. CASE BindDefinition
    <3>1. PICK cfg \in call.configs : reply' = [reply EXCEPT !.value = Bind(@, cfg)]
      BY <2>2 DEF BindDefinition
    <3>2. Bind(reply.value, cfg) = reply.value
      BY <2>1, BindKeepsRegistry
    <3> QED
      BY <2>1, <3>1, <3>2
  <2>3. CASE StartEngine
    <3>1. Start(reply.value, RunClasses, call.classes) = reply.value
      BY <2>1, StartKeepsRegistry
    <3> QED
      BY <2>1, <2>3, <3>1 DEF StartEngine
  <2> QED
    BY <2>2, <2>3 DEF Next, Called, StoreCursor, StoreOperation, StoreRecord,
       ResolveAttempt, ParkAgain, RunGenerator, BoundText, Backoff, Schedule, OpenStore
<1> QED
  BY <1>1, DeployAlways, PTL DEF Spec, FrozenOnceStarted
-----------------------------------------------------------------------------
(* Spans and resolutions.                                                  *)

\* The nil error asks for nothing.
LEMMA NilAsksNothing == AwaitRequest(<<>>) = {} /\ FailureInfo(<<>>) = {}
<1>1. asAwait(<<>>) = 0 /\ asPermanent(<<>>) = 0
  BY DEF asAwait, asPermanent, As
<1> QED
  BY <1>1 DEF AwaitRequest, FailureInfo

\* The error of a panic is an ordinary one.
LEMMA PanicAsksNothing ==
    LET err == Ordinary({}, {})
    IN  err # <<>> /\ AwaitRequest(err) = {} /\ FailureInfo(err) = {}
<1> DEFINE link == [NoLink EXCEPT !.kinder = {}, !.reasoner = {}]
           err == <<link>>
<1>1. Ordinary({}, {}) = err
  BY DEF Ordinary
<1>2. link.tag = "error"
  BY DEF NoLink
<1> HIDE DEF link
<1>3. DOMAIN err = {1} /\ err[1] = link /\ err # <<>>
  OBVIOUS
<1> HIDE DEF err
<1>4. asAwait(err) = 0 /\ asPermanent(err) = 0
  BY <1>2, <1>3 DEF asAwait, asPermanent, As
<1>5. AwaitRequest(err) = {} /\ FailureInfo(err) = {}
  BY <1>4 DEF AwaitRequest, FailureInfo
<1> QED
  BY <1>1, <1>3, <1>5

\* An error declares one permanent failure at most.
LEMMA OneFailure ==
    ASSUME NEW err, NEW f \in FailureInfo(err)
    PROVE  FailureInfo(err) = {[kind |-> f.kind, reason |-> f.reason]}
<1> DEFINE i == asPermanent(err)
           info == [kind |-> failureKind(err, i), reason |-> failureReason(err, i)]
<1>1. f = info /\ FailureInfo(err) = {info}
  <2> HIDE DEF i
  <2> QED
    BY DEF FailureInfo, i
<1> QED
  BY <1>1

----------------------------------------------------------------------------
\* The agreement SpanAgrees asks of one resolution r of the return ret.
Agrees(span, r) ==
    \/ r.as = "invalid"
    \/ /\ (r.as = "awaiting") <=> (span.park # {})
       /\ span.failure = IF r.as = "failed"
                           THEN {[kind |-> r.kind, reason |-> r.reason]}
                           ELSE {}
       /\ span.error <=> r.as \notin {"succeeded", "awaiting"}
       /\ span.panicked => r.as = "retrying"

\* A Run made invalid is aside.
LEMMA InvalidAgrees == \A span : Agrees(span, Resolved("invalid"))
  BY DEF Agrees, Resolved

(***************************************************************************)
(* The switch at the end of an attempt that does not park agrees with the  *)
(* span of a return of the same error.                                     *)
(***************************************************************************)
LEMMA ClassifyAgrees ==
    ASSUME NEW err, NEW interrupted \in BOOLEAN, NEW span,
           span.error = (err # <<>>), span.panicked = FALSE, span.park = {},
           span.failure = FailureInfo(err)
    PROVE  Agrees(span, Classify(err, FALSE, interrupted))
<1> DEFINE r == Classify(err, FALSE, interrupted)
<1> SUFFICES Agrees(span, r)
  OBVIOUS
<1>1. CASE err = <<>>
  <2>1. r = Resolved("succeeded")
    BY <1>1, NilAsksNothing DEF Classify
  <2>2. FailureInfo(err) = {}
    BY <1>1, NilAsksNothing
  <2>3. span.error = FALSE
    BY <1>1
  <2> HIDE DEF r
  <2> QED
    BY <2>1, <2>2, <2>3 DEF Agrees, Resolved
<1>2. CASE err # <<>> /\ FailureInfo(err) # {}
  <2> DEFINE f == CHOOSE g \in FailureInfo(err) : TRUE
  <2>1. f \in FailureInfo(err)
    BY <1>2
  <2>2. r = [as |-> "failed", kind |-> f.kind, reason |-> f.reason]
    BY <1>2 DEF Classify
  <2> HIDE DEF f, r
  <2>3. FailureInfo(err) = {[kind |-> f.kind, reason |-> f.reason]}
    BY <2>1, OneFailure
  <2>4. span.error = TRUE
    BY <1>2
  <2> QED
    BY <2>2, <2>3, <2>4 DEF Agrees
<1>3. CASE err # <<>> /\ FailureInfo(err) = {}
  <2>1. r.as \in {"interrupted", "retrying"}
    BY <1>3 DEF Classify, Resolved
  <2>2. span.error = TRUE
    BY <1>3
  <2> HIDE DEF r
  <2> QED
    BY <1>3, <2>1, <2>2 DEF Agrees
<1> QED
  BY <1>1, <1>2, <1>3

\* The same switch after a panic, which is retried.
LEMMA PanicAgrees ==
    ASSUME NEW ret, ret.panics = TRUE
    PROVE  Agrees(Span(ret), Classify(Ordinary({}, {}), TRUE, FALSE))
<1> DEFINE r == Classify(Ordinary({}, {}), TRUE, FALSE)
           span == Span(ret)
<1> SUFFICES Agrees(span, r)
  OBVIOUS
<1>1. r.as = "retrying"
  BY PanicAsksNothing DEF Classify, Resolved
<1>2. span = [error |-> TRUE, panicked |-> TRUE, park |-> {}, failure |-> {}]
  BY DEF Span
<1> HIDE DEF r, span
<1> QED
  BY <1>1, <1>2 DEF Agrees

\* A park agrees with the span of the return that asks for it.
LEMMA ParkAgrees ==
    ASSUME NEW ret, ret.panics = FALSE, AwaitRequest(ret.err) # {}, NEW park
    PROVE  Agrees(Span(ret), ParkResolution(park))
<1> DEFINE r == ParkResolution(park)
           span == Span(ret)
<1> SUFFICES Agrees(span, r)
  OBVIOUS
<1>1. r.as \in {"invalid", "awaiting"}
  BY DEF ParkResolution, Resolved
<1>2. /\ span.panicked = FALSE
      /\ span.park = AwaitRequest(ret.err)
      /\ span.failure = {}
  BY DEF Span
<1>3. span.error = FALSE
  BY Zenon DEF Span
<1> HIDE DEF r, span
<1> QED
  BY <1>1, <1>2, <1>3 DEF Agrees

\* What is left agrees by the switch.
LEMMA ReturnAgrees ==
    ASSUME NEW ret, ret.panics = FALSE, AwaitRequest(ret.err) = {},
           NEW interrupted \in BOOLEAN
    PROVE  Agrees(Span(ret), Classify(ret.err, FALSE, interrupted))
<1> DEFINE span == Span(ret)
<1>1. span = [error |-> ret.err # <<>> /\ AwaitRequest(ret.err) = {},
              panicked |-> FALSE, park |-> AwaitRequest(ret.err),
              failure |-> FailureInfo(ret.err)]
  BY DEF Span
<1> HIDE DEF span
<1>2. span.panicked = FALSE /\ span.park = {} /\ span.failure = FailureInfo(ret.err)
  BY <1>1
<1>3. span.error = (ret.err # <<>>)
  BY <1>1
<1>4. Agrees(span, Classify(ret.err, FALSE, interrupted))
  BY <1>2, <1>3, ClassifyAgrees
<1> QED
  BY <1>4 DEF span

(***************************************************************************)
(* The forward operation, unless a cancel cut it, and the unwind.          *)
(***************************************************************************)
LEMMA ForwardAgrees ==
    ASSUME NEW ret, ret.panics \in BOOLEAN, NEW cause, cause # "preempted",
           NEW hasState \in BOOLEAN
    PROVE  Agrees(Span(ret), runForward(ret, cause, hasState))
<1>1. CASE ret.panics = TRUE
  <2>1. \/ runForward(ret, cause, hasState) = Resolved("invalid")
        \/ runForward(ret, cause, hasState) = Classify(Ordinary({}, {}), TRUE, FALSE)
    BY <1>1, PanicAsksNothing DEF runForward, invokeForward
  <2> QED
    BY <1>1, <2>1, PanicAgrees, InvalidAgrees
<1>2. CASE ret.panics = FALSE
  <2> DEFINE stopping == cause = "stopping"
  <2>1. \/ runForward(ret, cause, hasState) = Resolved("invalid")
        \/ /\ AwaitRequest(ret.err) # {}
           /\ \E park : runForward(ret, cause, hasState) = ParkResolution(park)
        \/ /\ AwaitRequest(ret.err) = {}
           /\ runForward(ret, cause, hasState) = Classify(ret.err, FALSE, stopping)
    BY <1>2 DEF runForward, invokeForward
  <2>2. stopping \in BOOLEAN
    OBVIOUS
  <2> HIDE DEF stopping
  <2> QED
    BY <1>2, <2>1, <2>2, ParkAgrees, ReturnAgrees, InvalidAgrees
<1> QED
  BY <1>1, <1>2

LEMMA UnwindAgrees ==
    ASSUME NEW ret, ret.panics \in BOOLEAN, NEW cause
    PROVE  Agrees(Span(ret), runUnwind(ret, cause))
<1> DEFINE seen == IF cause = "preempted" THEN "none" ELSE cause
           stopping == seen = "stopping"
<1>1. CASE ret.panics = TRUE
  <2>1. \/ runUnwind(ret, cause) = Resolved("invalid")
        \/ runUnwind(ret, cause) = Classify(Ordinary({}, {}), TRUE, FALSE)
    BY <1>1, PanicAsksNothing DEF runUnwind, invokeForward
  <2> QED
    BY <1>1, <2>1, PanicAgrees, InvalidAgrees
<1>2. CASE ret.panics = FALSE
  <2>1. \/ runUnwind(ret, cause) = Resolved("invalid")
        \/ /\ AwaitRequest(ret.err) # {}
           /\ \E park : runUnwind(ret, cause) = ParkResolution(park)
        \/ /\ AwaitRequest(ret.err) = {}
           /\ runUnwind(ret, cause) = Classify(ret.err, FALSE, stopping)
    BY <1>2 DEF runUnwind, invokeForward
  <2>2. stopping \in BOOLEAN
    OBVIOUS
  <2> HIDE DEF stopping
  <2> QED
    BY <1>2, <2>1, <2>2, ParkAgrees, ReturnAgrees, InvalidAgrees
<1> QED
  BY <1>1, <1>2

----------------------------------------------------------------------------
(***************************************************************************)
(* The inductive invariant: an attempt is one a handler can make, and its  *)
(* answer is what the engine and the span made of it.                      *)
(***************************************************************************)
AttemptInv ==
    call.kind = "attempt" =>
        /\ call.ret.panics \in BOOLEAN /\ call.hasState \in BOOLEAN
        /\ reply.done =>
              reply.value = [forward |-> runForward(call.ret, call.cause, call.hasState),
                             unwind |-> runUnwind(call.ret, call.cause),
                             span |-> Span(call.ret)]

LEMMA InitAttempt == Init => AttemptInv
<1> SUFFICES ASSUME Init, call.kind = "attempt" PROVE AttemptInv
  BY DEF AttemptInv
<1>1. call \in [kind : {"attempt"}, ret : Returns, cause : Causes, hasState : BOOLEAN]
  BY DEF Init, AllCalls
<1>2. ~ reply.done
  BY DEF Init, Unanswered
<1> QED
  BY <1>1, <1>2, ReturnsAssumption DEF AttemptInv

\* The answer of any other call says nothing of an attempt.
LEMMA OtherThanAttempt ==
    ASSUME NEW kind, Called(kind), kind # "attempt", NEW v, Answer(v)
    PROVE  AttemptInv'
  BY DEF AttemptInv, Called, Answer

LEMMA NextAttempt == AttemptInv /\ [Next]_vars => AttemptInv'
<1> SUFFICES ASSUME AttemptInv, [Next]_vars PROVE AttemptInv'
  OBVIOUS
<1>1. CASE StoreCursor
  BY <1>1, OtherThanAttempt DEF StoreCursor
<1>2. CASE StoreOperation
  BY <1>2, OtherThanAttempt DEF StoreOperation
<1>3. CASE StoreRecord
  BY <1>3, OtherThanAttempt DEF StoreRecord
<1>4. CASE ResolveAttempt
  BY <1>4 DEF ResolveAttempt, AttemptInv, Called, Answer
<1>5. CASE ParkAgain
  BY <1>5, OtherThanAttempt DEF ParkAgain
<1>6. CASE RunGenerator
  <2>1. CASE GenerateAccepts(call.files, Types)
    BY <1>6, <2>1 DEF RunGenerator, AttemptInv
  <2>2. CASE ~ GenerateAccepts(call.files, Types)
    BY <1>6, <2>2, OtherThanAttempt DEF RunGenerator
  <2> QED
    BY <2>1, <2>2
<1>7. CASE BindDefinition
  BY <1>7 DEF BindDefinition, AttemptInv
<1>8. CASE StartEngine
  BY <1>8 DEF StartEngine, AttemptInv
<1>9. CASE BoundText
  BY <1>9, OtherThanAttempt DEF BoundText
<1>10. CASE Backoff
  BY <1>10, OtherThanAttempt DEF Backoff
<1>11. CASE Schedule
  BY <1>11, OtherThanAttempt DEF Schedule
<1>12. CASE OpenStore
  BY <1>12, OtherThanAttempt DEF OpenStore
<1>13. CASE UNCHANGED vars
  BY <1>13 DEF AttemptInv, vars
<1> QED
  BY <1>1, <1>2, <1>3, <1>4, <1>5, <1>6, <1>7, <1>8, <1>9, <1>10, <1>11, <1>12,
     <1>13 DEF Next

(***************************************************************************)
(* For any return of any handler, whatever error chain it builds, the span *)
(* of an attempt shows what the engine then does with it (durableotel's    *)
(* Middleware against runForward and runUnwind).                           *)
(***************************************************************************)
THEOREM SpanAgreesAlways == Spec => []SpanAgrees
<1>1. AttemptInv => SpanAgrees
  <2> SUFFICES ASSUME AttemptInv, reply.done, call.kind = "attempt"
               PROVE  SpanAgrees
    BY DEF SpanAgrees
  <2>1. /\ call.ret.panics \in BOOLEAN /\ call.hasState \in BOOLEAN
        /\ reply.value.span = Span(call.ret)
        /\ reply.value.forward = runForward(call.ret, call.cause, call.hasState)
        /\ reply.value.unwind = runUnwind(call.ret, call.cause)
    BY DEF AttemptInv
  <2>2. Agrees(reply.value.span, reply.value.unwind)
    BY <2>1, UnwindAgrees
  <2>3. call.cause # "preempted" => Agrees(reply.value.span, reply.value.forward)
    BY <2>1, ForwardAgrees
  <2> QED
    BY <2>2, <2>3 DEF SpanAgrees, Agrees
<1> QED
  BY <1>1, InitAttempt, NextAttempt, PTL DEF Spec
-----------------------------------------------------------------------------
(* Wrapping.                                                               *)

\* The first of a set of positions is one of them.
LEMMA MinIsFirst ==
    ASSUME NEW S, S \subseteq Nat, S # {}
    PROVE  Min(S) \in S /\ \A j \in S : Min(S) <= j
<1>1. PICK x \in S : \A y \in S : ~(<<y, x>> \in OpToRel(<, Nat))
  BY NatLessThanWellFounded, WFMin, Zenon
<1>2. \A y \in S : ~(y < x)
  BY <1>1 DEF OpToRel
<1>3. \A y \in S : x =< y
  BY <1>2
<1> QED
  BY <1>3, Zenon DEF Min

\* When every position moves by one, so does the first.
LEMMA AsShifts ==
    ASSUME NEW n \in Nat, NEW S, S \subseteq 1..n
    PROVE  /\ As(S) \in 0..n
           /\ As(S) = 0 <=> S = {}
           /\ As({i + 1 : i \in S}) = IF As(S) = 0 THEN 0 ELSE As(S) + 1
<1> DEFINE T == {i + 1 : i \in S}
<1>1. CASE S = {}
  <2>1. T = {}
    BY <1>1
  <2> QED
    BY <1>1, <2>1 DEF As
<1>2. CASE S # {}
  <2>1. Min(S) \in S /\ \A j \in S : Min(S) <= j
    <3>1. S \subseteq Nat
      OBVIOUS
    <3> QED
      BY <1>2, <3>1, MinIsFirst
  <2>2. T \subseteq Nat /\ T # {}
    <3>1. \A i \in S : i + 1 \in Nat
      OBVIOUS
    <3> QED
      BY <1>2, <3>1
  <2>3. Min(T) \in T /\ \A j \in T : Min(T) <= j
    BY <2>2, MinIsFirst
  <2>4. PICK i \in S : Min(T) = i + 1
    BY <2>3
  <2>5. Min(S) + 1 \in T
    BY <2>1
  <2> HIDE DEF T
  <2>6. /\ i <= Min(S) /\ Min(S) <= i
        /\ i \in 1..n /\ Min(S) \in 1..n
    <3>1. i \in 1..n /\ Min(S) \in 1..n
      BY <2>1
    <3>2. i + 1 <= Min(S) + 1
      BY <2>3, <2>4, <2>5
    <3> QED
      BY <2>1, <3>1, <3>2
  <2>7. Min(T) = Min(S) + 1
    BY <2>4, <2>6
  <2>8. As(S) = Min(S) /\ As(T) = Min(T)
    BY <1>2, <2>2 DEF As
  <2> QED
    BY <1>2, <2>6, <2>7, <2>8 DEF T
<1> QED
  BY <1>1, <1>2

----------------------------------------------------------------------------
(***************************************************************************)
(* A chain w is the chain err with one ordinary link before it.            *)
(***************************************************************************)
OneLayer(w, err, n) ==
    /\ n \in Nat \ {0} /\ DOMAIN err = 1..n /\ DOMAIN w = 1..(n + 1)
    /\ Len(err) = n /\ Len(w) = n + 1
    /\ \A i \in 1..n : w[i + 1] = err[i]
    /\ w[1].tag = "error" /\ w[1].kinder = {} /\ w[1].reasoner = {}
    /\ w # <<>> /\ err # <<>>

LEMMA WrappedIsOneLayer ==
    ASSUME NEW L, NEW err \in Seq(L), err # <<>>
    PROVE  OneLayer(Wrapped(err), err, Len(err))
<1> DEFINE link == [NoLink EXCEPT !.kinder = {}, !.reasoner = {}]
           w == <<link>> \o err
<1>1. Wrapped(err) = w
  BY DEF Wrapped, Ordinary
<1>2. link.tag = "error" /\ link.kinder = {} /\ link.reasoner = {}
  BY DEF NoLink
<1> HIDE DEF link
<1>3. <<link>> \in Seq({link} \cup L) /\ err \in Seq({link} \cup L)
  OBVIOUS
<1>4. Len(err) \in Nat \ {0} /\ DOMAIN err = 1..Len(err)
  OBVIOUS
<1>5. /\ DOMAIN w = 1..(Len(err) + 1) /\ Len(w) = Len(err) + 1
      /\ w[1] = link
      /\ \A i \in 1..Len(err) : w[i + 1] = err[i]
      /\ w # <<>>
  BY <1>3, <1>4
<1> HIDE DEF w
<1> QED
  BY <1>1, <1>2, <1>4, <1>5 DEF OneLayer

\* Below the first layer the two chains are one.
LEMMA UnwrapShifts ==
    ASSUME NEW w, NEW err, NEW n, OneLayer(w, err, n), NEW i \in 1..n
    PROVE  Unwrap(w, i + 1) = Unwrap(err, i)
<1>1. Unwrap(err, i) = [k \in 1..(n - i) |-> err[k + i]]
  BY DEF Unwrap, OneLayer
<1>2. Unwrap(w, i + 1) = [k \in 1..(n - i) |-> w[k + i + 1]]
  BY DEF Unwrap, OneLayer
<1>3. \A k \in 1..(n - i) : w[k + i + 1] = err[k + i]
  BY DEF OneLayer
<1> QED
  BY <1>1, <1>2, <1>3

----------------------------------------------------------------------------
\* What errors.As finds lies one link deeper.
LEMMA AwaitShifts ==
    ASSUME NEW w, NEW err, NEW n, OneLayer(w, err, n)
    PROVE  /\ asAwait(err) \in 0..n
           /\ asAwait(w) = IF asAwait(err) = 0 THEN 0 ELSE asAwait(err) + 1
<1> DEFINE S == {i \in DOMAIN err : err[i].tag = "park"}
           T == {i \in DOMAIN w : w[i].tag = "park"}
<1>1. S \subseteq 1..n /\ n \in Nat
  BY DEF OneLayer
<1>2. T = {i + 1 : i \in S}
  <2>1. \A i \in S : i + 1 \in T
    BY DEF OneLayer
  <2>2. \A j \in T : j - 1 \in S /\ (j - 1) + 1 = j
    BY DEF OneLayer
  <2> QED
    BY <2>1, <2>2
<1> HIDE DEF S, T
<1> QED
  BY <1>1, <1>2, AsShifts DEF asAwait, S, T

LEMMA PermanentShifts ==
    ASSUME NEW w, NEW err, NEW n, OneLayer(w, err, n)
    PROVE  /\ asPermanent(err) \in 0..n
           /\ asPermanent(w) = IF asPermanent(err) = 0 THEN 0 ELSE asPermanent(err) + 1
<1> DEFINE S == {i \in DOMAIN err : err[i].tag = "fail"}
           T == {i \in DOMAIN w : w[i].tag = "fail"}
<1>1. S \subseteq 1..n /\ n \in Nat
  BY DEF OneLayer
<1>2. T = {i + 1 : i \in S}
  <2>1. \A i \in S : i + 1 \in T
    BY DEF OneLayer
  <2>2. \A j \in T : j - 1 \in S /\ (j - 1) + 1 = j
    BY DEF OneLayer
  <2> QED
    BY <2>1, <2>2
<1> HIDE DEF S, T
<1> QED
  BY <1>1, <1>2, AsShifts DEF asPermanent, S, T

LEMMA ReasonShifts ==
    ASSUME NEW w, NEW err, NEW n, OneLayer(w, err, n)
    PROVE  reasonOf(w) = reasonOf(err)
<1> DEFINE S == {j \in DOMAIN err : err[j].reasoner # {}}
           T == {j \in DOMAIN w : w[j].reasoner # {}}
           i == As(S)
<1>1. S \subseteq 1..n /\ n \in Nat
  BY DEF OneLayer
<1>2. T = {k + 1 : k \in S}
  <2>1. \A k \in S : k + 1 \in T
    BY DEF OneLayer
  <2>2. \A j \in T : j - 1 \in S /\ (j - 1) + 1 = j
    BY DEF OneLayer
  <2> QED
    BY <2>1, <2>2
<1>3. reasonOf(err) = IF i = 0 THEN "" ELSE CHOOSE r \in err[i].reasoner : TRUE
  BY DEF reasonOf
<1>4. reasonOf(w) = IF As(T) = 0 THEN "" ELSE CHOOSE r \in w[As(T)].reasoner : TRUE
  BY DEF reasonOf
<1> HIDE DEF S, T
<1>5. i \in 0..n /\ As(T) = IF i = 0 THEN 0 ELSE i + 1
  BY <1>1, <1>2, AsShifts
<1> HIDE DEF i
<1>6. CASE i = 0
  BY <1>3, <1>4, <1>5, <1>6
<1>7. CASE i # 0
  <2>1. i \in 1..n /\ As(T) = i + 1 /\ As(T) # 0
    BY <1>1, <1>5, <1>7
  <2>2. w[As(T)] = err[i]
    BY <2>1 DEF OneLayer
  <2> QED
    BY <1>3, <1>4, <1>7, <2>1, <2>2
<1> QED
  BY <1>6, <1>7

----------------------------------------------------------------------------
\* A park is found, and is the same park.
LEMMA ParkSurvives ==
    ASSUME NEW w, NEW err, NEW n, OneLayer(w, err, n)
    PROVE  AwaitRequest(w) = AwaitRequest(err)
<1> DEFINE i == asAwait(err)
<1>1. i \in 0..n /\ asAwait(w) = IF i = 0 THEN 0 ELSE i + 1
  BY AwaitShifts
<1>2. n \in Nat
  BY DEF OneLayer
<1> HIDE DEF i
<1>3. CASE i = 0
  BY <1>1, <1>3 DEF AwaitRequest, i
<1>4. CASE i # 0
  <2>1. i \in 1..n /\ asAwait(w) = i + 1 /\ asAwait(w) # 0
    BY <1>1, <1>2, <1>4
  <2>2. w[asAwait(w)] = err[i]
    BY <2>1 DEF OneLayer
  <2>3. {asAwait(w)} \ {0} = {asAwait(w)} /\ {i} \ {0} = {i}
    BY <1>4, <2>1
  <2>4. AwaitRequest(w) = UNION {w[j].park : j \in {asAwait(w)}}
    BY <2>3 DEF AwaitRequest
  <2>5. AwaitRequest(err) = UNION {err[j].park : j \in {i}}
    BY <2>3 DEF AwaitRequest, i
  <2> QED
    BY <2>2, <2>4, <2>5
<1> QED
  BY <1>3, <1>4

\* A declared failure is found, with its kind and reason.
LEMMA FailureSurvives ==
    ASSUME NEW w, NEW err, NEW n, OneLayer(w, err, n)
    PROVE  FailureInfo(w) = FailureInfo(err)
<1> DEFINE i == asPermanent(err)
<1>1. i \in 0..n /\ asPermanent(w) = IF i = 0 THEN 0 ELSE i + 1
  BY PermanentShifts
<1>2. n \in Nat
  BY DEF OneLayer
<1> HIDE DEF i
<1>3. CASE i = 0
  BY <1>1, <1>3 DEF FailureInfo, i
<1>4. CASE i # 0
  <2>1. i \in 1..n /\ asPermanent(w) = i + 1 /\ asPermanent(w) # 0
    BY <1>1, <1>2, <1>4
  <2>2. w[i + 1] = err[i]
    BY <2>1 DEF OneLayer
  <2>3. Unwrap(w, i + 1) = Unwrap(err, i)
    BY <2>1, UnwrapShifts
  <2>4. failureReason(w, i + 1) = failureReason(err, i)
    BY <2>2, <2>3 DEF failureReason
  <2>5. failureKind(w, i + 1) = failureKind(err, i)
    <3> DEFINE inner == Unwrap(err, i)
               K == {j \in DOMAIN inner : inner[j].kinder # {}}
               k == As(K)
    <3>1. failureKind(err, i) =
             CASE err[i].kindSet -> "user"
               [] ~ err[i].kindSet /\ k > 0 -> CHOOSE v \in err[i + k].kinder : TRUE
               [] OTHER -> "system"
      BY DEF failureKind
    <3>2. failureKind(w, i + 1) =
             CASE w[i + 1].kindSet -> "user"
               [] ~ w[i + 1].kindSet /\ k > 0 -> CHOOSE v \in w[(i + 1) + k].kinder : TRUE
               [] OTHER -> "system"
      BY <2>3 DEF failureKind
    <3>3. inner = [j \in 1..(n - i) |-> err[j + i]]
      BY <2>1 DEF Unwrap, OneLayer
    <3>4. K \subseteq 1..(n - i) /\ n - i \in Nat
      BY <1>2, <2>1, <3>3
    <3> HIDE DEF K
    <3>5. k \in 0..(n - i)
      BY <3>4, AsShifts
    <3> HIDE DEF k
    <3>6. k > 0 => w[(i + 1) + k] = err[i + k]
      <4>1. k > 0 => i + k \in 1..n /\ (i + 1) + k = (i + k) + 1
        BY <1>2, <2>1, <3>5
      <4> QED
        BY <4>1 DEF OneLayer
    <3> QED
      BY <2>2, <3>1, <3>2, <3>6
  <2>6. FailureInfo(w) = {[kind |-> failureKind(w, j), reason |-> failureReason(w, j)]
                            : j \in {i + 1}}
    <3>1. {asPermanent(w)} \ {0} = {i + 1}
      BY <2>1
    <3> QED
      BY <3>1 DEF FailureInfo
  <2>7. FailureInfo(err) = {[kind |-> failureKind(err, j), reason |-> failureReason(err, j)]
                              : j \in {i}}
    <3>1. {i} \ {0} = {i}
      BY <1>4
    <3> QED
      BY <3>1 DEF FailureInfo, i
  <2> QED
    BY <2>4, <2>5, <2>6, <2>7
<1> QED
  BY <1>3, <1>4

\* So the switch that ends an attempt takes the same case.
LEMMA ClassifySurvives ==
    ASSUME NEW w, NEW err, NEW n, OneLayer(w, err, n), NEW panicked, NEW interrupted
    PROVE  Classify(w, panicked, interrupted) = Classify(err, panicked, interrupted)
<1>1. w # <<>> /\ err # <<>>
  BY DEF OneLayer
<1>2. FailureInfo(w) = FailureInfo(err) /\ reasonOf(w) = reasonOf(err)
  BY FailureSurvives, ReasonShifts
<1> QED
  BY <1>1, <1>2 DEF Classify

----------------------------------------------------------------------------
(***************************************************************************)
(* Two returns alike but for their errors, which resolve alike, resolve    *)
(* alike in both operations.                                               *)
(***************************************************************************)
Alike(e, f) ==
    /\ (e = <<>>) <=> (f = <<>>)
    /\ AwaitRequest(e) = AwaitRequest(f)
    /\ \A p, s : Classify(e, p, s) = Classify(f, p, s)

LEMMA ForwardAlike ==
    ASSUME NEW x, NEW y, x.lookup = y.lookup, x.state = y.state, x.panics = y.panics,
           Alike(x.err, y.err), NEW cause, NEW hasState
    PROVE  runForward(x, cause, hasState) = runForward(y, cause, hasState)
<1> DEFINE a == invokeForward(x, cause)
           b == invokeForward(y, cause)
<1>1. /\ a.preempted = b.preempted /\ a.panicked = b.panicked
      /\ a.interrupted = b.interrupted /\ Alike(a.err, b.err)
  <2>1. CASE x.panics
    BY <2>1 DEF invokeForward, Alike
  <2>2. CASE ~ x.panics
    BY <2>2 DEF invokeForward
  <2> QED
    BY <2>1, <2>2
<1>2. Classify(a.err, a.panicked, a.interrupted) = Classify(b.err, b.panicked, b.interrupted)
  BY <1>1 DEF Alike
<1>3. AwaitRequest(a.err) = AwaitRequest(b.err) /\ ((a.err = <<>>) <=> (b.err = <<>>))
  BY <1>1 DEF Alike
<1> HIDE DEF a, b
<1>4. runForward(x, cause, hasState) =
         IF takeViolation(x.lookup) THEN Resolved("invalid")
         ELSE IF a.err # <<>> /\ a.preempted THEN Resolved("canceled")
         ELSE IF AwaitRequest(a.err) # {}
                THEN ParkResolution(CHOOSE p \in AwaitRequest(a.err) : TRUE)
         ELSE IF a.err = <<>> /\ hasState /\ ~ x.state THEN Resolved("invalid")
         ELSE Classify(a.err, a.panicked, a.interrupted)
  BY DEF runForward, a
<1>5. runForward(y, cause, hasState) =
         IF takeViolation(y.lookup) THEN Resolved("invalid")
         ELSE IF b.err # <<>> /\ b.preempted THEN Resolved("canceled")
         ELSE IF AwaitRequest(b.err) # {}
                THEN ParkResolution(CHOOSE p \in AwaitRequest(b.err) : TRUE)
         ELSE IF b.err = <<>> /\ hasState /\ ~ y.state THEN Resolved("invalid")
         ELSE Classify(b.err, b.panicked, b.interrupted)
  BY DEF runForward, b
<1> QED
  BY <1>1, <1>2, <1>3, <1>4, <1>5

LEMMA UnwindAlike ==
    ASSUME NEW x, NEW y, x.lookup = y.lookup, x.panics = y.panics,
           Alike(x.err, y.err), NEW cause
    PROVE  runUnwind(x, cause) = runUnwind(y, cause)
<1> DEFINE seen == IF cause = "preempted" THEN "none" ELSE cause
           a == invokeForward(x, seen)
           b == invokeForward(y, seen)
<1>1. a.panicked = b.panicked /\ a.interrupted = b.interrupted /\ Alike(a.err, b.err)
  <2>1. CASE x.panics
    BY <2>1 DEF invokeForward, Alike
  <2>2. CASE ~ x.panics
    BY <2>2 DEF invokeForward
  <2> QED
    BY <2>1, <2>2
<1>2. Classify(a.err, a.panicked, a.interrupted) = Classify(b.err, b.panicked, b.interrupted)
  BY <1>1 DEF Alike
<1>3. AwaitRequest(a.err) = AwaitRequest(b.err)
  BY <1>1 DEF Alike
<1> HIDE DEF a, b
<1>4. runUnwind(x, cause) =
         IF takeViolation(x.lookup) THEN Resolved("invalid")
         ELSE IF AwaitRequest(a.err) # {}
                THEN ParkResolution(CHOOSE p \in AwaitRequest(a.err) : TRUE)
         ELSE Classify(a.err, a.panicked, a.interrupted)
  BY DEF runUnwind, a
<1>5. runUnwind(y, cause) =
         IF takeViolation(y.lookup) THEN Resolved("invalid")
         ELSE IF AwaitRequest(b.err) # {}
                THEN ParkResolution(CHOOSE p \in AwaitRequest(b.err) : TRUE)
         ELSE Classify(b.err, b.panicked, b.interrupted)
  BY DEF runUnwind, b
<1> QED
  BY <1>2, <1>3, <1>4, <1>5

\* An error and its wrapped form are alike.
LEMMA WrappedAlike ==
    ASSUME NEW L, NEW err \in Seq(L)
    PROVE  Alike(Wrapped(err), err)
<1>1. CASE err = <<>>
  BY <1>1 DEF Wrapped, Alike
<1>2. CASE err # <<>>
  <2> DEFINE w == Wrapped(err)
             n == Len(err)
  <2>1. OneLayer(w, err, n)
    BY <1>2, WrappedIsOneLayer
  <2> HIDE DEF w, n
  <2>2. w # <<>> /\ AwaitRequest(w) = AwaitRequest(err)
    BY <2>1, ParkSurvives DEF OneLayer
  <2>3. \A p, s : Classify(w, p, s) = Classify(err, p, s)
    BY <2>1, ClassifySurvives
  <2>4. Alike(w, err)
    BY <1>2, <2>2, <2>3 DEF Alike
  <2> QED
    BY <2>4 DEF w
<1> QED
  BY <1>1, <1>2

----------------------------------------------------------------------------
\* An attempt's return is one of Returns.
RetInv == call.kind = "attempt" => call.ret \in Returns

LEMMA InitRet == Init => RetInv
<1> SUFFICES ASSUME Init, call.kind = "attempt" PROVE call.ret \in Returns
  BY DEF RetInv
<1>1. call \in [kind : {"attempt"}, ret : Returns, cause : Causes, hasState : BOOLEAN]
  BY DEF Init, AllCalls
<1> QED
  BY <1>1

\* Only the generator changes the call, and to a deployment.
LEMMA NextRet == RetInv /\ [Next]_vars => RetInv'
<1>1. [Next]_vars => call' = call \/ call'.kind = "deploy"
  BY DEF Next, vars, StoreCursor, StoreOperation, StoreRecord, ResolveAttempt, ParkAgain,
         RunGenerator, BindDefinition, StartEngine, BoundText, Backoff, Schedule,
         OpenStore, Answer
<1> QED
  BY <1>1 DEF RetInv

(***************************************************************************)
(* An error that middleware adds a layer to resolves the operation exactly *)
(* as the bare one, in both phases, whatever the error is made of (fail.go *)
(* and await.go against runForward and runUnwind).                         *)
(***************************************************************************)
THEOREM WrappingIsTransparentAlways == Spec => []WrappingIsTransparent
<1>1. AttemptInv /\ RetInv => WrappingIsTransparent
  <2> SUFFICES ASSUME AttemptInv, RetInv, reply.done, call.kind = "attempt"
               PROVE  WrappingIsTransparent
    BY DEF WrappingIsTransparent
  <2> DEFINE ret == call.ret
             wrapped == [ret EXCEPT !.err = Wrapped(@)]
  <2>1. /\ reply.value.forward = runForward(ret, call.cause, call.hasState)
        /\ reply.value.unwind = runUnwind(ret, call.cause)
    BY DEF AttemptInv
  <2>2. ret \in Returns
    BY DEF RetInv
  <2> HIDE DEF ret
  <2>3. /\ ret = [panics |-> ret.panics, state |-> ret.state, lookup |-> ret.lookup,
                  err |-> ret.err]
        /\ ret.err \in Seq({ret.err[i] : i \in DOMAIN ret.err})
    BY <2>2, ReturnsAssumption
  <2>4. /\ wrapped.lookup = ret.lookup /\ wrapped.state = ret.state
        /\ wrapped.panics = ret.panics /\ wrapped.err = Wrapped(ret.err)
    BY <2>3
  <2> HIDE DEF wrapped
  <2>5. Alike(wrapped.err, ret.err)
    BY <2>3, <2>4, WrappedAlike
  <2>6. runForward(wrapped, call.cause, call.hasState) = reply.value.forward
    BY <2>1, <2>4, <2>5, ForwardAlike
  <2>7. runUnwind(wrapped, call.cause) = reply.value.unwind
    BY <2>1, <2>4, <2>5, UnwindAlike
  <2> QED
    BY <2>6, <2>7, Zenon DEF WrappingIsTransparent, wrapped, ret
<1> QED
  BY <1>1, InitAttempt, NextAttempt, InitRet, NextRet, PTL DEF Spec
-----------------------------------------------------------------------------
(***************************************************************************)
(* The storage encoding.  Each conversion there and back is the identity   *)
(* on the values its Go type has.                                          *)
(***************************************************************************)
LEMMA TimeReadsBack == \A t : fromTS(ts(t)) = t
<1> TAKE t
<1>1. CASE t = ZeroTime
  BY <1>1 DEF ts, fromTS
<1>2. CASE t # ZeroTime
  BY <1>2 DEF ts, fromTS, The
<1> QED
  BY <1>1, <1>2

LEMMA EnumsReadBack ==
    /\ \A p \in {None, "forward", "unwind", "done"} : phaseFromProto(phaseToProto(p)) = p
    /\ \A o \in {"success", "failure"} : outcomeFromProto(outcomeToProto(o)) = o
    /\ \A s \in {None, "unresolved", "succeeded", "failed"} :
          opStatusFromProto(opStatusToProto(s)) = s
    /\ \A k \in {"system", "user", "canceled"} : kindFromProto(kindToProto(k)) = k
    /\ \A m \in {"all", "any"} : awaitModeFromProto(awaitModeToProto(m)) = m
<1>1. \A p \in {None, "forward", "unwind", "done"} : phaseFromProto(phaseToProto(p)) = p
  BY DEF phaseFromProto, phaseToProto, Switch, None
<1>2. \A o \in {"success", "failure"} : outcomeFromProto(outcomeToProto(o)) = o
  BY DEF outcomeFromProto, outcomeToProto, Switch
<1>3. \A s \in {None, "unresolved", "succeeded", "failed"} :
          opStatusFromProto(opStatusToProto(s)) = s
  BY DEF opStatusFromProto, opStatusToProto, Switch, None
<1>4. \A k \in {"system", "user", "canceled"} : kindFromProto(kindToProto(k)) = k
  BY DEF kindFromProto, kindToProto, Switch
<1>5. \A m \in {"all", "any"} : awaitModeFromProto(awaitModeToProto(m)) = m
  BY DEF awaitModeFromProto, awaitModeToProto, Switch
<1> QED
  BY <1>1, <1>2, <1>3, <1>4, <1>5

LEMMA AwaitReadsBack ==
    ASSUME NEW p, \A a \in p : IsAwait(a)
    PROVE  awaitFromProto(awaitToProto(p)) = p
<1> DEFINE there(a) == [mode |-> awaitModeToProto(a.mode), runIds |-> a.targets,
                        deadline |-> ts(a.deadline), cancelCascade |-> a.cancelCascade]
           back(pb) == [mode |-> awaitModeFromProto(pb.mode), targets |-> pb.runIds,
                        deadline |-> fromTS(pb.deadline),
                        cancelCascade |-> pb.cancelCascade]
<1>1. \A a \in p : back(there(a)) = a
  BY TimeReadsBack, EnumsReadBack DEF IsAwait
<1>2. awaitFromProto(awaitToProto(p)) = {back(b) : b \in {there(a) : a \in p}}
  BY DEF awaitFromProto, awaitToProto
<1> HIDE DEF there, back
<1> QED
  BY <1>1, <1>2

LEMMA WakeReadsBack ==
    ASSUME NEW p, \A w \in p : IsWake(w)
    PROVE  wakeFromProto(wakeToProto(p)) = p
<1> DEFINE there(w) == [targets |-> w.targets, done |-> w.done, expired |-> w.expired]
<1>1. \A w \in p : there(there(w)) = w
  BY DEF IsWake
<1>2. wakeFromProto(wakeToProto(p)) = {there(b) : b \in {there(w) : w \in p}}
  BY DEF wakeFromProto, wakeToProto
<1> HIDE DEF there
<1> QED
  BY <1>1, <1>2

LEMMA FailureReadsBack ==
    \A f : IsFailure(f) => failureRecordFromProto(failureRecordToProto(f)) = f
  BY TimeReadsBack, EnumsReadBack
     DEF IsFailure, failureRecordFromProto, failureRecordToProto

LEMMA FailuresReadBack ==
    ASSUME NEW p, \A f \in p : IsFailure(f)
    PROVE  /\ {failureRecordFromProto(pb) : pb \in {failureRecordToProto(f) : f \in p}} = p
           /\ {failureRecordFromProto(failureRecordToProto(f)) : f \in p} = p
  BY FailureReadsBack

LEMMA CancelsReadBack ==
    ASSUME NEW p, \A c \in p : IsCancel(c)
    PROVE  /\ {UnmarshalCancel(pb) : pb \in {MarshalCancel(c) : c \in p}} = p
           /\ {UnmarshalCancel(MarshalCancel(c)) : c \in p} = p
<1>1. \A c \in p : UnmarshalCancel(MarshalCancel(c)) = c
  BY TimeReadsBack DEF IsCancel, UnmarshalCancel, MarshalCancel
<1> QED
  BY <1>1

\* A slice of no bytes comes back nil: the one difference.
LEMMA OperationReadsBack ==
    ASSUME NEW op, IsOperation(op)
    PROVE  operationRecordFromProto(operationRecordToProto(op))
              = [op EXCEPT !.state = GetBytes(@)]
<1> DEFINE read == operationRecordFromProto(operationRecordToProto(op))
<1>1. read.failure = op.failure
  BY FailuresReadBack DEF operationRecordFromProto, operationRecordToProto, IsOperation
<1>2. read = [status |-> op.status, attempts |-> op.attempts, state |-> GetBytes(op.state),
              order |-> op.order, failure |-> read.failure]
  BY EnumsReadBack DEF operationRecordFromProto, operationRecordToProto, IsOperation
<1> HIDE DEF read
<1>3. read = [op EXCEPT !.state = GetBytes(@)]
  BY <1>1, <1>2 DEF IsOperation
<1> QED
  BY <1>3 DEF read

\* A state beside its row is neither nil nor empty.
LEMMA StoredOperation ==
    ASSUME NEW op, IsOperation(op), NEW beside \in BOOLEAN,
           beside => op.state \notin {NilBytes, EmptyBytes}
    PROVE  ReadOperation(op, beside) = [op EXCEPT !.state = GetBytes(@)]
<1>1. CASE ~ beside
  BY <1>1, OperationReadsBack DEF ReadOperation
<1>2. CASE beside
  <2> DEFINE row == [op EXCEPT !.state = NilBytes]
  <2>1. IsOperation(row)
    BY DEF IsOperation
  <2> HIDE DEF row
  <2>2. operationRecordFromProto(operationRecordToProto(row))
            = [row EXCEPT !.state = GetBytes(@)]
    BY <2>1, OperationReadsBack
  <2>3. GetBytes(op.state) = op.state
    BY <1>2 DEF GetBytes
  <2>4. ReadOperation(op, beside) = [[row EXCEPT !.state = GetBytes(@)] EXCEPT !.state = op.state]
    BY <1>2, <2>2 DEF ReadOperation, row
  <2> QED
    BY <2>3, <2>4 DEF row, IsOperation
<1> QED
  BY <1>1, <1>2

LEMMA StoredCursor ==
    ASSUME NEW c, IsCursor(c)
    PROVE  UnmarshalCursor(MarshalCursor(c)) = c
<1>1. awaitFromProto(awaitToProto(c.awaiting)) = c.awaiting
  BY AwaitReadsBack DEF IsCursor
<1>2. wakeFromProto(wakeToProto(c.awaited)) = c.awaited
  BY WakeReadsBack DEF IsCursor
<1>3. phaseFromProto(phaseToProto(c.phase)) = c.phase
  BY EnumsReadBack DEF IsCursor
<1> QED
  BY <1>1, <1>2, <1>3, TimeReadsBack DEF IsCursor, UnmarshalCursor, MarshalCursor

\* What CompactTerminal leaves of the Steps comes back as it was.
LEMMA UnwindsReadBack ==
    ASSUME NEW rec, IsDecided(rec)
    PROVE  [s \in FailedUnwinds(rec.steps) |->
              [forward |-> NoOp,
               unwind |-> operationRecordFromProto(
                            operationRecordToProto(rec.steps[s].unwind))]]
             = [s \in FailedUnwinds(rec.steps) |->
                  [forward |-> NoOp, unwind |-> rec.steps[s].unwind]]
<1>1. ASSUME NEW s \in FailedUnwinds(rec.steps)
      PROVE  operationRecordFromProto(operationRecordToProto(rec.steps[s].unwind))
                = rec.steps[s].unwind
  <2> DEFINE op == rec.steps[s].unwind
  <2>1. IsOperation(op) /\ op.state = NilBytes
    BY DEF IsDecided, FailedUnwinds
  <2> HIDE DEF op
  <2>2. [op EXCEPT !.state = GetBytes(@)] = op
    BY <2>1 DEF IsOperation, GetBytes, NilBytes, EmptyBytes
  <2> QED
    BY <2>1, <2>2, OperationReadsBack DEF op
<1> QED
  BY <1>1

LEMMA StoredTerminal ==
    ASSUME NEW rec, IsDecided(rec), NEW beside \in BOOLEAN,
           beside => rec.output \notin {NilBytes, EmptyBytes}
    PROVE  ReadTerminal(CompactTerminal(rec), beside)
              = [CompactTerminal(rec) EXCEPT !.output = GetBytes(@)]
<1> DEFINE noText == ""
           kept == FailedUnwinds(rec.steps)
           compact == CompactTerminal(rec)
           steps == [s \in kept |-> [forward |-> NoOp, unwind |-> rec.steps[s].unwind]]
           left == [identity |-> rec.identity, createdAt |-> rec.createdAt,
                    annotations |-> rec.annotations, input |-> NilBytes,
                    phase |-> rec.phase, steps |-> steps, failure |-> rec.failure,
                    output |-> rec.output, outcome |-> rec.outcome,
                    nextAttemptAt |-> ZeroTime, awaiting |-> {}, awaited |-> {},
                    lastError |-> noText, lastReason |-> noText, lastErrorAt |-> ZeroTime,
                    cancel |-> rec.cancel, updatedAt |-> rec.updatedAt,
                    startedAt |-> rec.startedAt]
           row == MarshalTerminal(left, beside)
           read == UnmarshalTerminal(row)
<1>1. compact = left
  <2>1. compact = [rec EXCEPT !.input = NilBytes, !.nextAttemptAt = ZeroTime,
                !.lastErrorAt = ZeroTime, !.lastError = noText, !.lastReason = noText,
                !.awaiting = {}, !.awaited = {}, !.steps = steps]
    BY DEF CompactTerminal
  <2>2. rec = [identity |-> rec.identity, createdAt |-> rec.createdAt,
              annotations |-> rec.annotations, input |-> rec.input,
              phase |-> rec.phase, steps |-> rec.steps, failure |-> rec.failure,
              output |-> rec.output, outcome |-> rec.outcome,
              nextAttemptAt |-> rec.nextAttemptAt, awaiting |-> rec.awaiting,
              awaited |-> rec.awaited, lastError |-> rec.lastError,
              lastReason |-> rec.lastReason, lastErrorAt |-> rec.lastErrorAt,
              cancel |-> rec.cancel, updatedAt |-> rec.updatedAt,
              startedAt |-> rec.startedAt]
    BY DEF IsDecided
  <2> HIDE DEF compact, steps, kept
  <2> QED
    BY <2>1, <2>2
<1>2. FailedUnwinds(steps) = kept
  BY DEF FailedUnwinds
<1>3. /\ [s \in DOMAIN row.failedUnwinds |->
             [forward |-> NoOp, unwind |-> operationRecordFromProto(row.failedUnwinds[s])]]
          = steps
      /\ {failureRecordFromProto(pb) : pb \in row.failure} = rec.failure
      /\ {UnmarshalCancel(pb) : pb \in row.cancel} = rec.cancel
      /\ {outcomeFromProto(row.outcome)} = rec.outcome
      /\ phaseFromProto(row.phase) = rec.phase
  <2>1. \A s \in kept : steps[s].unwind = rec.steps[s].unwind
    OBVIOUS
  <2>2. row.failedUnwinds = [s \in kept |-> operationRecordToProto(rec.steps[s].unwind)]
    BY <1>2, <2>1 DEF MarshalTerminal
  <2>3. [s \in DOMAIN row.failedUnwinds |->
             [forward |-> NoOp, unwind |-> operationRecordFromProto(row.failedUnwinds[s])]]
         = [s \in kept |->
              [forward |-> NoOp,
               unwind |-> operationRecordFromProto(
                            operationRecordToProto(rec.steps[s].unwind))]]
    <3> HIDE DEF row, kept
    <3> QED
      BY <2>2
  <2>4. {failureRecordFromProto(pb) : pb \in row.failure} = rec.failure
    <3>1. row.failure = {failureRecordToProto(f) : f \in rec.failure}
      BY DEF MarshalTerminal
    <3> QED
      BY <3>1, FailuresReadBack DEF IsDecided
  <2>5. {UnmarshalCancel(pb) : pb \in row.cancel} = rec.cancel
    <3>1. row.cancel = {MarshalCancel(c) : c \in rec.cancel}
      BY DEF MarshalTerminal
    <3> QED
      BY <3>1, CancelsReadBack DEF IsDecided
  <2>6. {outcomeFromProto(row.outcome)} = rec.outcome
    <3>1. row.outcome = outcomeToProto(The(rec.outcome))
      BY DEF MarshalTerminal
    <3>2. PICK o \in {"success", "failure"} : rec.outcome = {o}
      BY DEF IsDecided
    <3>3. The(rec.outcome) = o
      BY <3>2 DEF The
    <3> QED
      BY <3>1, <3>2, <3>3, EnumsReadBack
  <2>7. phaseFromProto(row.phase) = rec.phase
    <3>1. row.phase = phaseToProto(rec.phase)
      BY DEF MarshalTerminal
    <3> QED
      BY <3>1, EnumsReadBack DEF IsDecided
  <2> QED
    BY <2>3, <2>4, <2>5, <2>6, <2>7, UnwindsReadBack
<1>4. /\ row.identity = rec.identity /\ row.annotations = rec.annotations
      /\ fromTS(row.createdAt) = rec.createdAt
      /\ fromTS(row.committedAt) = rec.updatedAt
      /\ fromTS(row.startedAt) = rec.startedAt
      /\ row.output = IF beside THEN NilBytes ELSE rec.output
  BY TimeReadsBack DEF MarshalTerminal
<1> HIDE DEF row, kept, steps
<1>5. read = [left EXCEPT !.output = GetBytes(IF beside THEN NilBytes ELSE rec.output)]
  <2> DEFINE output == GetBytes(IF beside THEN NilBytes ELSE rec.output)
  <2>1. read = [identity |-> rec.identity, createdAt |-> rec.createdAt,
                annotations |-> rec.annotations, input |-> NilBytes,
                phase |-> rec.phase, steps |-> steps, failure |-> rec.failure,
                output |-> output, outcome |-> rec.outcome,
                nextAttemptAt |-> ZeroTime, awaiting |-> {}, awaited |-> {},
                lastError |-> noText, lastReason |-> noText, lastErrorAt |-> ZeroTime,
                cancel |-> rec.cancel, updatedAt |-> rec.updatedAt,
                startedAt |-> rec.startedAt]
    BY <1>3, <1>4 DEF UnmarshalTerminal
  <2>2. left = [identity |-> rec.identity, createdAt |-> rec.createdAt,
                annotations |-> rec.annotations, input |-> NilBytes,
                phase |-> rec.phase, steps |-> steps, failure |-> rec.failure,
                output |-> rec.output, outcome |-> rec.outcome,
                nextAttemptAt |-> ZeroTime, awaiting |-> {}, awaited |-> {},
                lastError |-> noText, lastReason |-> noText, lastErrorAt |-> ZeroTime,
                cancel |-> rec.cancel, updatedAt |-> rec.updatedAt,
                startedAt |-> rec.startedAt]
    OBVIOUS
  <2> HIDE DEF output, read, left, noText
  <2>3. read = [left EXCEPT !.output = output]
    BY <2>1, <2>2
  <2> QED
    BY <2>3 DEF output, read
<1>6. beside => GetBytes(rec.output) = rec.output
  BY DEF GetBytes
<1>7. ReadTerminal(left, beside) = [left EXCEPT !.output = GetBytes(rec.output)]
  <2>1. ReadTerminal(left, beside)
          = IF beside THEN [read EXCEPT !.output = rec.output] ELSE read
    BY DEF ReadTerminal, row
  <2> HIDE DEF read
  <2> QED
    BY <1>5, <1>6, <2>1
<1>8. /\ ReadTerminal(compact, beside) = [left EXCEPT !.output = GetBytes(rec.output)]
      /\ [compact EXCEPT !.output = GetBytes(@)]
            = [left EXCEPT !.output = GetBytes(rec.output)]
  <2> HIDE DEF compact
  <2> QED
    BY <1>1, <1>7
<1> QED
  BY <1>8

\* Compaction keeps what UnwindFailures reads.
LEMMA FailuresKept ==
    ASSUME NEW rec, IsDecided(rec), NEW v
    PROVE  UnwindFailures([CompactTerminal(rec) EXCEPT !.output = v]) = UnwindFailures(rec)
<1> DEFINE left == [CompactTerminal(rec) EXCEPT !.output = v]
           found(r) == {s \in FailedUnwinds(r.steps) : r.steps[s].unwind.failure # {}}
<1>1. left.steps = [s \in FailedUnwinds(rec.steps) |->
                      [forward |-> NoOp, unwind |-> rec.steps[s].unwind]]
  BY DEF CompactTerminal, IsDecided
<1> HIDE DEF left
<1>2. \A s \in FailedUnwinds(rec.steps) : left.steps[s].unwind = rec.steps[s].unwind
  BY <1>1
<1>3. FailedUnwinds(left.steps) = FailedUnwinds(rec.steps)
  BY <1>1, <1>2 DEF FailedUnwinds
<1>4. found(left) = found(rec)
  BY <1>2, <1>3
<1>5. /\ [s \in found(left) |-> The(left.steps[s].unwind.failure)]
           = [s \in found(rec) |-> The(rec.steps[s].unwind.failure)]
      /\ [s \in found(left) |-> left.steps[s].unwind.order]
           = [s \in found(rec) |-> rec.steps[s].unwind.order]
  BY <1>2, <1>4
<1>6. UnwindFailures(left) = UnwindFailures(rec)
  BY <1>5, Zenon DEF UnwindFailures
<1> QED
  BY <1>6 DEF left

(***************************************************************************)
(* The inductive invariant: what is stored is a value its Go type has, and *)
(* an answer is that value, written and read.                              *)
(***************************************************************************)
StoredInv ==
    /\ call.kind = "cursor" =>
          /\ call.cursor \in Cursors
          /\ reply.done => reply.value = UnmarshalCursor(MarshalCursor(call.cursor))
    /\ call.kind = "operation" =>
          /\ call.op \in Operations /\ call.beside \in BOOLEAN
          /\ call.beside => call.op.state \notin {NilBytes, EmptyBytes}
          /\ reply.done => reply.value = ReadOperation(call.op, call.beside)
    /\ call.kind = "record" =>
          /\ call.rec \in Records /\ call.beside \in BOOLEAN
          /\ call.beside => call.rec.output \notin {NilBytes, EmptyBytes}
          /\ reply.done =>
                reply.value =
                   [meta |-> UnmarshalRunMeta(MarshalRunMeta(call.rec)),
                    cancel |-> {UnmarshalCancel(MarshalCancel(c)) : c \in call.rec.cancel},
                    failure |-> {failureRecordFromProto(failureRecordToProto(f))
                                   : f \in call.rec.failure},
                    terminal |-> ReadTerminal(CompactTerminal(call.rec), call.beside)]

LEMMA InitStored == Init => StoredInv
<1> SUFFICES ASSUME Init PROVE StoredInv
  OBVIOUS
<1>1. call \in AllCalls /\ Sensible(call)
  BY DEF Init
<1>2. call.kind # "deploy" => ~ reply.done
  BY DEF Init, Unanswered
<1>3. CASE call.kind = "cursor"
  <2>1. call \in [kind : {"cursor"}, cursor : Cursors]
    BY <1>1, <1>3 DEF AllCalls
  <2> QED
    BY <1>2, <1>3, <2>1 DEF StoredInv
<1>4. CASE call.kind = "operation"
  <2>1. call \in [kind : {"operation"}, op : Operations, beside : BOOLEAN]
    BY <1>1, <1>4 DEF AllCalls
  <2> QED
    BY <1>1, <1>2, <1>4, <2>1 DEF StoredInv, Sensible
<1>5. CASE call.kind = "record"
  <2>1. call \in [kind : {"record"}, rec : Records, beside : BOOLEAN]
    BY <1>1, <1>5 DEF AllCalls
  <2> QED
    BY <1>1, <1>2, <1>5, <2>1 DEF StoredInv, Sensible
<1> QED
  BY <1>3, <1>4, <1>5 DEF StoredInv

\* Any other call stores nothing.
LEMMA OtherThanStored ==
    ASSUME NEW kind, Called(kind), kind \notin {"cursor", "operation", "record"},
           NEW v, Answer(v)
    PROVE  StoredInv'
  BY DEF StoredInv, Called, Answer

LEMMA NextStored == StoredInv /\ [Next]_vars => StoredInv'
<1> SUFFICES ASSUME StoredInv, [Next]_vars PROVE StoredInv'
  OBVIOUS
<1>1. CASE StoreCursor
  BY <1>1 DEF StoreCursor, StoredInv, Called, Answer
<1>2. CASE StoreOperation
  BY <1>2 DEF StoreOperation, StoredInv, Called, Answer
<1>3. CASE StoreRecord
  BY <1>3 DEF StoreRecord, StoredInv, Called, Answer
<1>4. CASE ResolveAttempt
  BY <1>4, OtherThanStored DEF ResolveAttempt
<1>5. CASE ParkAgain
  BY <1>5, OtherThanStored DEF ParkAgain
<1>6. CASE RunGenerator
  <2>1. CASE GenerateAccepts(call.files, Types)
    BY <1>6, <2>1 DEF RunGenerator, StoredInv
  <2>2. CASE ~ GenerateAccepts(call.files, Types)
    BY <1>6, <2>2, OtherThanStored DEF RunGenerator
  <2> QED
    BY <2>1, <2>2
<1>7. CASE BindDefinition
  BY <1>7 DEF BindDefinition, StoredInv
<1>8. CASE StartEngine
  BY <1>8 DEF StartEngine, StoredInv
<1>9. CASE BoundText
  BY <1>9, OtherThanStored DEF BoundText
<1>10. CASE Backoff
  BY <1>10, OtherThanStored DEF Backoff
<1>11. CASE Schedule
  BY <1>11, OtherThanStored DEF Schedule
<1>12. CASE OpenStore
  BY <1>12, OtherThanStored DEF OpenStore
<1>13. CASE UNCHANGED vars
  BY <1>13 DEF StoredInv, vars
<1> QED
  BY <1>1, <1>2, <1>3, <1>4, <1>5, <1>6, <1>7, <1>8, <1>9, <1>10, <1>11, <1>12,
     <1>13 DEF Next

(***************************************************************************)
(* Whatever Run is stored, whichever of its slices are beside their rows:  *)
(* what is read back is what was written, and a terminal Run still tells   *)
(* the compensations that failed, in order (convert.go, CompactTerminal).  *)
(***************************************************************************)
THEOREM RecordSurvivesAlways == Spec => []RecordSurvives
<1>1. StoredInv => ReadsBack
  <2> SUFFICES ASSUME StoredInv, reply.done PROVE ReadsBack
    BY DEF ReadsBack
  <2>1. call.kind = "cursor" => reply.value = call.cursor
    BY StoredAssumption, StoredCursor DEF StoredInv
  <2>2. call.kind = "operation" => reply.value = [call.op EXCEPT !.state = GetBytes(@)]
    BY StoredAssumption, StoredOperation DEF StoredInv
  <2>3. ASSUME call.kind = "record"
        PROVE  /\ \A f \in DOMAIN reply.value.meta : reply.value.meta[f] = call.rec[f]
               /\ reply.value.cancel = call.rec.cancel
               /\ reply.value.failure = call.rec.failure
               /\ reply.value.terminal = [CompactTerminal(call.rec) EXCEPT !.output = GetBytes(@)]
    <3>1. IsDecided(call.rec)
      BY <2>3, StoredAssumption DEF StoredInv
    <3>2. /\ reply.value.meta = UnmarshalRunMeta(MarshalRunMeta(call.rec))
          /\ reply.value.cancel = {UnmarshalCancel(MarshalCancel(c)) : c \in call.rec.cancel}
          /\ reply.value.failure = {failureRecordFromProto(failureRecordToProto(f))
                                      : f \in call.rec.failure}
          /\ reply.value.terminal = ReadTerminal(CompactTerminal(call.rec), call.beside)
      BY <2>3 DEF StoredInv
    <3>3. UnmarshalRunMeta(MarshalRunMeta(call.rec))
            = [identity |-> call.rec.identity, createdAt |-> call.rec.createdAt,
               annotations |-> call.rec.annotations]
      BY TimeReadsBack DEF UnmarshalRunMeta, MarshalRunMeta
    <3>4. \A f \in DOMAIN reply.value.meta : reply.value.meta[f] = call.rec[f]
      BY <3>2, <3>3
    <3>5. /\ reply.value.cancel = call.rec.cancel
          /\ reply.value.failure = call.rec.failure
      BY <3>1, <3>2, CancelsReadBack, FailuresReadBack DEF IsDecided
    <3>6. reply.value.terminal = [CompactTerminal(call.rec) EXCEPT !.output = GetBytes(@)]
      BY <2>3, <3>1, <3>2, StoredTerminal DEF StoredInv
    <3> QED
      BY <3>4, <3>5, <3>6
  <2> QED
    BY <2>1, <2>2, <2>3 DEF ReadsBack
<1>2. StoredInv => UnwindHistoryKept
  <2> SUFFICES ASSUME StoredInv, reply.done, call.kind = "record"
               PROVE  UnwindFailures(reply.value.terminal) = UnwindFailures(call.rec)
    BY DEF UnwindHistoryKept
  <2>1. IsDecided(call.rec)
    BY StoredAssumption DEF StoredInv
  <2>2. reply.value.terminal = [CompactTerminal(call.rec) EXCEPT !.output = GetBytes(@)]
    BY <2>1, StoredTerminal DEF StoredInv
  <2> QED
    BY <2>1, <2>2, FailuresKept
<1> QED
  BY <1>1, <1>2, InitStored, NextStored, PTL DEF Spec, RecordSurvives

-----------------------------------------------------------------------------
(* Lists that are read from the first element to the last.  A fold takes    *)
(* the set of the positions apart from its greatest; on the way it comes    *)
(* through the prefixes of the list.                                        *)

\* Induction, as a fact about sets of numbers.
LEMMA AllNumbers ==
    ASSUME NEW G \in SUBSET Nat, 0 \in G, \A n \in G : n + 1 \in G
    PROVE  G = Nat
<1> SUFFICES ASSUME Nat \ G # {} PROVE FALSE
  OBVIOUS
<1>1. PICK x \in Nat \ G : \A y \in Nat \ G : ~(<<y, x>> \in OpToRel(<, Nat))
  BY NatLessThanWellFounded, WFMin, Zenon
<1>2. \A y \in Nat \ G : ~(y < x)
  BY <1>1 DEF OpToRel
<1>3. x - 1 \in Nat /\ x - 1 < x /\ (x - 1) + 1 = x
  OBVIOUS
<1>4. x - 1 \in G
  BY <1>2, <1>3
<1> QED
  BY <1>3, <1>4

LEMMA MaxIsLast ==
    ASSUME NEW n \in Nat, NEW s \in SUBSET (1..n), n \in s
    PROVE  Max(s) = n
<1>1. \A y \in s : n >= y
  OBVIOUS
<1>2. \A x \in s : x >= n => x = n
  OBVIOUS
<1> QED
  BY <1>1, <1>2 DEF Max

\* From every set of positions a fold has a value.
Folds(A, X, step, base, seq, n, h) ==
    /\ h \in [SUBSET (1..n) -> A]
    /\ \A s \in SUBSET (1..n) :
          h[s] = IF s = {} THEN base ELSE step[h[s \ {Max(s)}]][seq[Max(s)]]

LEMMA FoldsExist ==
    ASSUME NEW A, NEW X, NEW step \in [A -> [X -> A]], NEW base \in A, NEW seq,
           NEW N \in Nat, \A i \in 1..N : seq[i] \in X
    PROVE  \E h : Folds(A, X, step, base, seq, N, h)
<1> DEFINE Has(n) == \E h : Folds(A, X, step, base, seq, n, h)
           G == {n \in Nat : n <= N => Has(n)}
<1>1. 0 \in G
  <2> DEFINE h == [s \in SUBSET (1..0) |-> base]
  <2>1. \A s \in SUBSET (1..0) : s = {}
    OBVIOUS
  <2>2. Folds(A, X, step, base, seq, 0, h)
    BY <2>1 DEF Folds
  <2> QED
    BY <2>2
<1>2. ASSUME NEW n \in G PROVE n + 1 \in G
  <2>0. n \in Nat
    OBVIOUS
  <2> SUFFICES ASSUME n + 1 <= N PROVE Has(n + 1)
    BY <2>0
  <2>1. PICK h : Folds(A, X, step, base, seq, n, h)
    BY <2>0
  <2> DEFINE D == SUBSET (1..n)
             E == SUBSET (1..(n + 1))
             g == [s \in E |-> IF s \in D THEN h[s] ELSE step[h[s \ {n + 1}]][seq[n + 1]]]
  <2>2. D \subseteq E
    BY <2>0
  <2>3. \A s \in E : s \notin D => n + 1 \in s /\ s \ {n + 1} \in D /\ Max(s) = n + 1
    <3> SUFFICES ASSUME NEW s \in E, s \notin D
                 PROVE  n + 1 \in s /\ s \ {n + 1} \in D /\ Max(s) = n + 1
      OBVIOUS
    <3>1. \A x \in 1..(n + 1) : x # n + 1 => x \in 1..n
      BY <2>0
    <3>2. n + 1 \in s /\ s \ {n + 1} \in D
      BY <3>1
    <3>3. n + 1 \in Nat
      BY <2>0
    <3> QED
      BY <3>2, <3>3, MaxIsLast
  <2>4. seq[n + 1] \in X
    BY <2>0
  <2>5. h \in [D -> A] /\ \A s \in D :
            h[s] = IF s = {} THEN base ELSE step[h[s \ {Max(s)}]][seq[Max(s)]]
    BY <2>1 DEF Folds
  <2>6. \A s \in D : s \ {Max(s)} \in D
    OBVIOUS
  <2> HIDE DEF D, E
  <2>7. g \in [E -> A]
    BY <2>3, <2>4, <2>5
  <2>8. ASSUME NEW s \in E
        PROVE  g[s] = IF s = {} THEN base ELSE step[g[s \ {Max(s)}]][seq[Max(s)]]
    <3>1. CASE s \in D
      <4>1. g[s] = h[s] /\ g[s \ {Max(s)}] = h[s \ {Max(s)}]
        BY <2>2, <2>6, <3>1
      <4> QED
        BY <2>5, <3>1, <4>1
    <3>2. CASE s \notin D
      <4>1. s # {} /\ s \ {n + 1} \in D /\ Max(s) = n + 1
        BY <2>3, <3>2
      <4>2. g[s] = step[h[s \ {n + 1}]][seq[n + 1]] /\ g[s \ {n + 1}] = h[s \ {n + 1}]
        BY <2>2, <3>2, <4>1
      <4> HIDE DEF g
      <4> QED
        BY <4>1, <4>2
    <3> QED
      BY <3>1, <3>2
  <2> HIDE DEF g
  <2>9. Folds(A, X, step, base, seq, n + 1, g)
    BY <2>7, <2>8 DEF Folds, E
  <2> QED
    BY <2>9
<1>3. G = Nat
  <2> HIDE DEF G
  <2>1. G \in SUBSET Nat
    BY DEF G
  <2> QED
    BY <1>1, <1>2, <2>1, AllNumbers
<1>4. N \in G
  BY <1>3
<1> QED
  BY <1>4

\* A set of positions has a greatest one.
LEMMA GreatestIs ==
    ASSUME NEW N \in Nat, NEW s \in SUBSET (0..N), s # {}
    PROVE  Max(s) \in s /\ \A y \in s : y <= Max(s)
<1> DEFINE S == {N - x : x \in s}
<1>1. S \subseteq Nat /\ S # {}
  <2>1. \A x \in s : x \in Int /\ 0 <= x /\ x <= N
    OBVIOUS
  <2>2. \A x \in s : N - x \in Nat
    BY <2>1
  <2> QED
    BY <2>2
<1>2. Min(S) \in S /\ \A j \in S : Min(S) <= j
  <2> HIDE DEF S
  <2> QED
    BY <1>1, MinIsFirst
<1>3. PICK x \in s : Min(S) = N - x
  BY <1>2
<1>4. \A y \in s : x >= y
  <2> SUFFICES ASSUME NEW y \in s PROVE x >= y
    OBVIOUS
  <2>1. N - x <= N - y
    BY <1>2, <1>3
  <2>2. x \in Int /\ y \in Int
    OBVIOUS
  <2> QED
    BY <2>1, <2>2
<1>5. Max(s) \in s /\ \A y \in s : Max(s) >= y
  <2> DEFINE Greatest(z) == z \in s /\ \A y \in s : z >= y
  <2>1. Greatest(x)
    BY <1>4
  <2>2. Max(s) = CHOOSE z : Greatest(z)
    BY DEF Max
  <2> HIDE DEF Greatest
  <2>3. Greatest(Max(s))
    BY <2>1, <2>2, Zenon
  <2> QED
    BY <2>3 DEF Greatest
<1>6. PICK z : z = Max(s)
  OBVIOUS
<1>7. z \in s /\ \A y \in s : z >= y
  BY <1>5, <1>6
<1>8. z \in Int /\ \A y \in s : y \in Int
  BY <1>7
<1> QED
  BY <1>6, <1>7, <1>8

LEMMA LastIn ==
    ASSUME NEW N \in Nat, NEW s \in SUBSET (1..N), s # {}
    PROVE  Max(s) \in 1..N
<1>1. s \in SUBSET (0..N)
  OBVIOUS
<1>2. Max(s) \in s
  BY <1>1, GreatestIs
<1> QED
  BY <1>2

LEMMA PrefixPositions ==
    ASSUME NEW N \in Nat, NEW k \in 1..N
    PROVE  /\ 1..k \in SUBSET (1..N) /\ 1..k # {} /\ Max(1..k) = k
           /\ (1..k) \ {k} = 1..(k - 1)
<1>1. k \in Nat /\ k \in 1..k
  OBVIOUS
<1>2. Max(1..k) = k
  BY <1>1, MaxIsLast
<1>3. (1..k) \ {k} = 1..(k - 1)
  BY <1>1
<1>4. 1..k \in SUBSET (1..N)
  BY <1>1
<1> QED
  BY <1>1, <1>2, <1>3, <1>4

\* dedupeRunIDs, one RunID after another.
LEMMA DedupeSteps ==
    ASSUME NEW X, NEW ids \in Seq(X)
    PROVE  \E e : /\ e[0] = <<>> /\ dedupeRunIDs(ids) = e[Len(ids)]
                  /\ \A k \in 1..Len(ids) :
                       e[k] = IF Contains(e[k - 1], ids[k]) THEN e[k - 1]
                              ELSE Append(e[k - 1], ids[k])
<1> DEFINE N == Len(ids)
           Out(out, id) == IF Contains(out, id) THEN out ELSE Append(out, id)
           IsFold(h) == h = [s \in SUBSET DOMAIN ids |->
                               IF s = {} THEN <<>>
                               ELSE IF Contains(h[s \ {Max(s)}], ids[Max(s)])
                                      THEN h[s \ {Max(s)}]
                                      ELSE Append(h[s \ {Max(s)}], ids[Max(s)])]
           h == CHOOSE g : IsFold(g)
           e == [k \in 0..N |-> h[1..k]]
<1>1. N \in Nat /\ DOMAIN ids = 1..N /\ \A i \in 1..N : ids[i] \in X
  OBVIOUS
<1>2. dedupeRunIDs(ids) = h[DOMAIN ids]
  BY DEF dedupeRunIDs, FoldLeft, MapThenFoldSet
<1>3. \E g : IsFold(g)
  <2> DEFINE A == Seq(X)
             step == [out \in A |-> [id \in X |-> Out(out, id)]]
  <2>1. \A out \in A : \A id \in X : Out(out, id) \in A
    OBVIOUS
  <2>2. <<>> \in A /\ step \in [A -> [X -> A]]
    BY <2>1
  <2>3. \A out \in A : \A id \in X : step[out][id] = Out(out, id)
    OBVIOUS
  <2> HIDE DEF A, step, Out
  <2>4. PICK g : Folds(A, X, step, <<>>, ids, N, g)
    BY <1>1, <2>2, FoldsExist
  <2>5. \A s \in SUBSET (1..N) : s # {} => s \ {Max(s)} \in SUBSET (1..N) /\ Max(s) \in 1..N
    <3> SUFFICES ASSUME NEW s \in SUBSET (1..N), s # {} PROVE Max(s) \in 1..N
      OBVIOUS
    <3> QED
      BY <1>1, LastIn
  <2>6. \A s \in SUBSET (1..N) :
          g[s] = IF s = {} THEN <<>> ELSE Out(g[s \ {Max(s)}], ids[Max(s)])
    BY <1>1, <2>3, <2>4, <2>5 DEF Folds
  <2>7. g = [s \in SUBSET (1..N) |-> IF s = {} THEN <<>> ELSE Out(g[s \ {Max(s)}], ids[Max(s)])]
    BY <2>4, <2>6 DEF Folds
  <2>8. IsFold(g)
    BY <1>1, <2>7 DEF Out
  <2> QED
    BY <2>8
<1>4. IsFold(h)
  BY <1>3
<1>5. \A s \in SUBSET (1..N) : h[s] = IF s = {} THEN <<>> ELSE Out(h[s \ {Max(s)}], ids[Max(s)])
  <2> HIDE DEF h
  <2> QED
    BY <1>1, <1>4
<1> HIDE DEF h, Out, IsFold
<1>6. e[0] = <<>>
  <2>1. 1..0 = {} /\ 0 \in 0..N
    BY <1>1
  <2> QED
    BY <1>5, <2>1
<1>7. dedupeRunIDs(ids) = e[N]
  BY <1>1, <1>2
<1>8. ASSUME NEW k \in 1..N PROVE e[k] = Out(e[k - 1], ids[k])
  <2>1. k \in 0..N /\ k - 1 \in 0..N
    BY <1>1
  <2>2. e[k] = h[1..k] /\ e[k - 1] = h[1..(k - 1)]
    BY <2>1
  <2> HIDE DEF e, N
  <2>3. /\ 1..k \in SUBSET (1..N) /\ 1..k # {} /\ Max(1..k) = k
        /\ (1..k) \ {k} = 1..(k - 1)
    BY <1>1, PrefixPositions
  <2>4. h[1..k] = Out(h[1..(k - 1)], ids[k])
    BY <1>5, <2>3
  <2> QED
    BY <2>2, <2>4
<1> HIDE DEF e
<1> QED
  BY <1>6, <1>7, <1>8 DEF Out

\* A selection, one RunID after another.
LEMMA ThoseSteps ==
    ASSUME NEW X, NEW ids \in Seq(X), NEW set
    PROVE  \E e : /\ e[0] = <<>> /\ Those(ids, set) = e[Len(ids)]
                  /\ \A k \in 1..Len(ids) :
                       e[k] = IF ids[k] \in set THEN Append(e[k - 1], ids[k]) ELSE e[k - 1]
<1> DEFINE N == Len(ids)
           Out(out, id) == IF id \in set THEN Append(out, id) ELSE out
           IsFold(h) == h = [s \in SUBSET DOMAIN ids |->
                               IF s = {} THEN <<>>
                               ELSE IF ids[Max(s)] \in set
                                      THEN Append(h[s \ {Max(s)}], ids[Max(s)])
                                      ELSE h[s \ {Max(s)}]]
           h == CHOOSE g : IsFold(g)
           e == [k \in 0..N |-> h[1..k]]
<1>1. N \in Nat /\ DOMAIN ids = 1..N /\ \A i \in 1..N : ids[i] \in X
  OBVIOUS
<1>2. Those(ids, set) = h[DOMAIN ids]
  BY DEF Those, FoldLeft, MapThenFoldSet
<1>3. \E g : IsFold(g)
  <2> DEFINE A == Seq(X)
             step == [out \in A |-> [id \in X |-> Out(out, id)]]
  <2>1. \A out \in A : \A id \in X : Out(out, id) \in A
    OBVIOUS
  <2>2. <<>> \in A /\ step \in [A -> [X -> A]]
    BY <2>1
  <2>3. \A out \in A : \A id \in X : step[out][id] = Out(out, id)
    OBVIOUS
  <2> HIDE DEF A, step, Out
  <2>4. PICK g : Folds(A, X, step, <<>>, ids, N, g)
    BY <1>1, <2>2, FoldsExist
  <2>5. \A s \in SUBSET (1..N) : s # {} => s \ {Max(s)} \in SUBSET (1..N) /\ Max(s) \in 1..N
    BY <1>1, LastIn
  <2>6. \A s \in SUBSET (1..N) :
          g[s] = IF s = {} THEN <<>> ELSE Out(g[s \ {Max(s)}], ids[Max(s)])
    BY <1>1, <2>3, <2>4, <2>5 DEF Folds
  <2>7. g = [s \in SUBSET (1..N) |-> IF s = {} THEN <<>> ELSE Out(g[s \ {Max(s)}], ids[Max(s)])]
    BY <2>4, <2>6 DEF Folds
  <2>8. IsFold(g)
    BY <1>1, <2>7 DEF Out
  <2> QED
    BY <2>8
<1>4. IsFold(h)
  BY <1>3
<1>5. \A s \in SUBSET (1..N) : h[s] = IF s = {} THEN <<>> ELSE Out(h[s \ {Max(s)}], ids[Max(s)])
  <2> HIDE DEF h
  <2> QED
    BY <1>1, <1>4
<1> HIDE DEF h, Out, IsFold
<1>6. e[0] = <<>>
  <2>1. 1..0 = {} /\ 0 \in 0..N
    BY <1>1
  <2> QED
    BY <1>5, <2>1
<1>7. Those(ids, set) = e[N]
  BY <1>1, <1>2
<1>8. ASSUME NEW k \in 1..N PROVE e[k] = Out(e[k - 1], ids[k])
  <2>1. k \in 0..N /\ k - 1 \in 0..N
    BY <1>1
  <2>2. e[k] = h[1..k] /\ e[k - 1] = h[1..(k - 1)]
    BY <2>1
  <2> HIDE DEF e, N
  <2>3. /\ 1..k \in SUBSET (1..N) /\ 1..k # {} /\ Max(1..k) = k
        /\ (1..k) \ {k} = 1..(k - 1)
    BY <1>1, PrefixPositions
  <2>4. h[1..k] = Out(h[1..(k - 1)], ids[k])
    BY <1>5, <2>3
  <2> QED
    BY <2>2, <2>4
<1> HIDE DEF e
<1> QED
  BY <1>6, <1>7, <1>8 DEF Out

\* The first position of an element, and lists in the order of another.
FirstAt(ids, t) == Min({i \in DOMAIN ids : ids[i] = t})

LEMMA FirstIsThere ==
    ASSUME NEW X, NEW ids \in Seq(X), NEW i \in 1..Len(ids)
    PROVE  /\ FirstAt(ids, ids[i]) \in 1..Len(ids) /\ FirstAt(ids, ids[i]) <= i
           /\ ids[FirstAt(ids, ids[i])] = ids[i]
<1> DEFINE S == {j \in DOMAIN ids : ids[j] = ids[i]}
<1>1. S \subseteq Nat /\ S # {} /\ i \in S
  OBVIOUS
<1>2. Min(S) \in S /\ \A j \in S : Min(S) <= j
  <2> HIDE DEF S
  <2> QED
    BY <1>1, MinIsFirst
<1> QED
  BY <1>1, <1>2 DEF FirstAt

Elements(s) == {s[i] : i \in 1..Len(s)}

\* f grows along s.
Grows(f, s) == \A i, j \in 1..Len(s) : i < j => f[s[i]] < f[s[j]]

LEMMA OneMore ==
    ASSUME NEW X, NEW s \in Seq(X), NEW t \in X, NEW f
    PROVE  /\ Append(s, t) \in Seq(X) /\ Elements(Append(s, t)) = Elements(s) \cup {t}
           /\ Grows(f, s) /\ (\A x \in Elements(s) : f[x] < f[t]) => Grows(f, Append(s, t))
<1> DEFINE a == Append(s, t)
<1>1. /\ a \in Seq(X) /\ Len(s) \in Nat /\ Len(a) = Len(s) + 1
      /\ a[Len(s) + 1] = t /\ \A i \in 1..Len(s) : a[i] = s[i]
  OBVIOUS
<1> HIDE DEF a
<1>2. 1..Len(a) = (1..Len(s)) \cup {Len(s) + 1}
  BY <1>1
<1>3. Elements(a) = Elements(s) \cup {t}
  BY <1>1, <1>2 DEF Elements
<1>4. ASSUME Grows(f, s), \A x \in Elements(s) : f[x] < f[t] PROVE Grows(f, a)
  <2> SUFFICES ASSUME NEW i \in 1..Len(a), NEW j \in 1..Len(a), i < j PROVE f[a[i]] < f[a[j]]
    BY DEF Grows
  <2>1. i \in 1..Len(s)
    BY <1>1
  <2>2. CASE j \in 1..Len(s)
    BY <1>1, <1>4, <2>1, <2>2 DEF Grows
  <2>3. CASE j = Len(s) + 1
    <3>1. a[i] \in Elements(s) /\ a[j] = t
      BY <1>1, <2>1, <2>3 DEF Elements
    <3> QED
      BY <1>4, <3>1
  <2> QED
    BY <1>2, <2>2, <2>3
<1> QED
  BY <1>1, <1>3, <1>4 DEF a

\* What is selected, and in which order.
LEMMA ThoseAre ==
    ASSUME NEW X, NEW ids \in Seq(X), NEW set, NEW f, Grows(f, ids)
    PROVE  /\ Those(ids, set) \in Seq(X)
           /\ Elements(Those(ids, set)) = Elements(ids) \cap set
           /\ Grows(f, Those(ids, set))
<1> DEFINE N == Len(ids)
<1>1. N \in Nat /\ \A i \in 1..N : ids[i] \in X
  OBVIOUS
<1>2. PICK e : /\ e[0] = <<>> /\ Those(ids, set) = e[N]
               /\ \A k \in 1..N :
                    e[k] = IF ids[k] \in set THEN Append(e[k - 1], ids[k]) ELSE e[k - 1]
  BY ThoseSteps
<1> DEFINE Upto(k) == /\ e[k] \in Seq(X)
                      /\ Elements(e[k]) = {ids[i] : i \in 1..k} \cap set
                      /\ Grows(f, e[k])
           G == {k \in Nat : k <= N => Upto(k)}
<1>3. 0 \in G
  <2>1. <<>> \in Seq(X) /\ Len(<<>>) = 0 /\ 1..0 = {}
    OBVIOUS
  <2> QED
    BY <1>2, <2>1 DEF Elements, Grows
<1>4. ASSUME NEW k \in G PROVE k + 1 \in G
  <2>0. k \in Nat
    OBVIOUS
  <2> SUFFICES ASSUME k + 1 <= N PROVE Upto(k + 1)
    BY <2>0
  <2> DEFINE t == ids[k + 1]
             out == e[k]
  <2>1. k + 1 \in 1..N /\ (k + 1) - 1 = k /\ k <= N /\ 1..(k + 1) = (1..k) \cup {k + 1}
    BY <1>1, <2>0
  <2>2. Upto(k)
    BY <2>1
  <2>3. e[k + 1] = IF t \in set THEN Append(out, t) ELSE out
    BY <1>2, <2>1
  <2>4. {ids[i] : i \in 1..(k + 1)} = {ids[i] : i \in 1..k} \cup {t}
    BY <2>1
  <2>5. t \in X
    BY <1>1, <2>1
  <2>6. \A x \in Elements(out) : f[x] < f[t]
    <3> SUFFICES ASSUME NEW x \in Elements(out) PROVE f[x] < f[t]
      OBVIOUS
    <3>1. PICK i \in 1..k : x = ids[i]
      BY <2>2
    <3>2. i \in 1..N /\ i < k + 1
      BY <1>1, <2>0, <2>1
    <3> QED
      BY <2>1, <3>1, <3>2 DEF Grows
  <2> HIDE DEF t, out
  <2>7. out \in Seq(X) /\ Elements(out) = {ids[i] : i \in 1..k} \cap set /\ Grows(f, out)
    BY <2>2 DEF out
  <2>8. CASE t \in set
    <3>1. /\ Append(out, t) \in Seq(X) /\ Elements(Append(out, t)) = Elements(out) \cup {t}
          /\ Grows(f, Append(out, t))
      BY <2>5, <2>6, <2>7, OneMore
    <3> QED
      BY <2>3, <2>4, <2>7, <2>8, <3>1
  <2>9. CASE t \notin set
    BY <2>3, <2>4, <2>7, <2>9
  <2> QED
    BY <2>8, <2>9
<1>5. G = Nat
  <2> HIDE DEF G
  <2>1. G \in SUBSET Nat
    BY DEF G
  <2> QED
    BY <1>3, <1>4, <2>1, AllNumbers
<1>6. Upto(N)
  <2> HIDE DEF Upto, N
  <2>1. N \in G
    BY <1>1, <1>5
  <2>2. N <= N
    BY <1>1
  <2> QED
    BY <2>1, <2>2
<1> QED
  BY <1>2, <1>6 DEF Elements

\* What is left of a list without its repetitions, and in which order.
LEMMA DedupeIs ==
    ASSUME NEW X, NEW ids \in Seq(X)
    PROVE  LET f == [t \in X |-> FirstAt(ids, t)]
           IN  /\ dedupeRunIDs(ids) \in Seq(X)
               /\ Elements(dedupeRunIDs(ids)) = Elements(ids)
               /\ Grows(f, dedupeRunIDs(ids))
<1> DEFINE N == Len(ids)
           f == [t \in X |-> FirstAt(ids, t)]
<1>1. N \in Nat /\ \A i \in 1..N : ids[i] \in X
  OBVIOUS
<1>2. PICK e : /\ e[0] = <<>> /\ dedupeRunIDs(ids) = e[N]
               /\ \A k \in 1..N :
                    e[k] = IF Contains(e[k - 1], ids[k]) THEN e[k - 1]
                           ELSE Append(e[k - 1], ids[k])
  BY DedupeSteps
<1>0. \A i \in 1..N : f[ids[i]] \in 1..N /\ f[ids[i]] <= i /\ ids[f[ids[i]]] = ids[i]
  BY <1>1, FirstIsThere
<1> HIDE DEF f
<1> DEFINE Upto(k) == /\ e[k] \in Seq(X)
                      /\ Elements(e[k]) = {ids[i] : i \in 1..k}
                      /\ Grows(f, e[k])
           G == {k \in Nat : k <= N => Upto(k)}
<1>3. 0 \in G
  <2>1. <<>> \in Seq(X) /\ Len(<<>>) = 0 /\ 1..0 = {}
    OBVIOUS
  <2> QED
    BY <1>2, <2>1 DEF Elements, Grows
<1>4. ASSUME NEW k \in G PROVE k + 1 \in G
  <2>0. k \in Nat
    OBVIOUS
  <2> SUFFICES ASSUME k + 1 <= N PROVE Upto(k + 1)
    BY <2>0
  <2> DEFINE t == ids[k + 1]
             out == e[k]
  <2>1. k + 1 \in 1..N /\ (k + 1) - 1 = k /\ k <= N /\ 1..(k + 1) = (1..k) \cup {k + 1}
    BY <1>1, <2>0
  <2>2. Upto(k)
    BY <2>1
  <2>3. e[k + 1] = IF Contains(out, t) THEN out ELSE Append(out, t)
    BY <1>2, <2>1
  <2>4. {ids[i] : i \in 1..(k + 1)} = {ids[i] : i \in 1..k} \cup {t}
    BY <2>1
  <2>5. t \in X
    BY <1>1, <2>1
  <2>6. Contains(out, t) <=> t \in Elements(out)
    BY DEF Contains, Elements
  <2>7. t \notin Elements(out) => \A x \in Elements(out) : f[x] < f[t]
    <3> SUFFICES ASSUME t \notin Elements(out), NEW x \in Elements(out) PROVE f[x] < f[t]
      OBVIOUS
    <3>1. PICK i \in 1..k : x = ids[i]
      BY <2>2
    <3>2. i \in 1..N /\ i <= k
      BY <1>1, <2>0, <2>1
    <3>3. f[x] \in 1..N /\ f[x] <= k
      <4>1. f[ids[i]] \in 1..N /\ f[ids[i]] <= i
        BY <1>0, <3>2
      <4> QED
        BY <1>1, <2>0, <3>1, <3>2, <4>1
    <3>4. f[t] \in 1..N /\ ids[f[t]] = t
      BY <1>0, <2>1
    <3>5. f[t] \notin 1..k
      BY <2>2, <3>4
    <3> HIDE DEF t
    <3> QED
      BY <1>1, <2>0, <3>3, <3>4, <3>5
  <2> HIDE DEF t, out
  <2>8. out \in Seq(X) /\ Elements(out) = {ids[i] : i \in 1..k} /\ Grows(f, out)
    BY <2>2 DEF out
  <2>9. CASE t \in Elements(out)
    BY <2>3, <2>4, <2>6, <2>8, <2>9
  <2>10. CASE t \notin Elements(out)
    <3>1. /\ Append(out, t) \in Seq(X) /\ Elements(Append(out, t)) = Elements(out) \cup {t}
          /\ Grows(f, Append(out, t))
      BY <2>5, <2>7, <2>8, <2>10, OneMore
    <3> QED
      BY <2>3, <2>4, <2>6, <2>8, <2>10, <3>1
  <2> QED
    BY <2>9, <2>10
<1>5. G = Nat
  <2> HIDE DEF G
  <2>1. G \in SUBSET Nat
    BY DEF G
  <2> QED
    BY <1>3, <1>4, <2>1, AllNumbers
<1>6. Upto(N)
  <2> HIDE DEF Upto, N
  <2>1. N \in G
    BY <1>1, <1>5
  <2>2. N <= N
    BY <1>1
  <2> QED
    BY <2>1, <2>2
<1>7. Elements(e[N]) = Elements(ids)
  BY <1>6 DEF Elements
<1> HIDE DEF Upto
<1>8. e[N] \in Seq(X) /\ Grows(f, e[N])
  BY <1>6 DEF Upto
<1> QED
  BY <1>2, <1>7, <1>8 DEF f

\* A link but for some of its fields is a link.
LinkOf(tag, none, set, reason, park, timeout) ==
    [tag |-> tag, kinder |-> none, reasoner |-> none, kindSet |-> set,
     reason |-> reason, park |-> park, timeout |-> timeout]

LEMMA LinkBut ==
    ASSUME NEW link, NEW tag, NEW none, NEW set, NEW reason, NEW park, NEW timeout,
           link = LinkOf(tag, none, set, reason, park, timeout)
    PROVE  /\ \A q : [link EXCEPT !.park = q] = LinkOf(tag, none, set, reason, q, timeout)
           /\ \A t : [link EXCEPT !.tag = t] = LinkOf(t, none, set, reason, park, timeout)
           /\ \A e : [link EXCEPT !.timeout = e] = LinkOf(tag, none, set, reason, park, e)
           /\ link.tag = tag /\ link.park = park /\ link.timeout = timeout
           /\ link.reason = reason
  BY DEF LinkOf

ParkOf(targets, c) == [mode |-> "any", targets |-> targets, cancelCascade |-> c]

LEMMA ParkBut ==
    ASSUME NEW park, NEW targets, NEW c, park = ParkOf(targets, c)
    PROVE  /\ park.cancelCascade = c /\ park.targets = targets
           /\ \A b : [park EXCEPT !.cancelCascade = b] = ParkOf(targets, b)
  BY DEF ParkOf

\* Whether a cancel reaches what the park waits for.
Cascades == BOOLEAN

\* The link of a park on targets.
Asked(targets, c, d) ==
    LinkOf("park", NoLink.kinder, NoLink.kindSet, NoLink.reason, {ParkOf(targets, c)}, d)

\* An option asks for the cascade or changes the timeout, and nothing else.
OptionLeads(targets, c, d, o) ==
    \E b \in Cascades : \E e \in {d, o.timeout} :
        /\ ApplyAwaitOption(Asked(targets, c, d), o) = Asked(targets, b, e)
        /\ (b <=> c \/ o.cascade)
        /\ e = IF o.timeout > 0 THEN o.timeout ELSE d

LEMMA OptionDoes ==
    ASSUME NEW targets, NEW c, NEW d, NEW o
    PROVE  OptionLeads(targets, c, d, o)
<1>a. PICK none, set, reason :
        \A q, e : Asked(targets, q, e) = LinkOf("park", none, set, reason, {ParkOf(targets, q)}, e)
  BY DEF Asked
<1>b. PICK link : link = Asked(targets, c, d)
  OBVIOUS
<1>c. link = LinkOf("park", none, set, reason, {ParkOf(targets, c)}, d)
  BY <1>a, <1>b, Zenon
<1> DEFINE Cascading(p) == [p EXCEPT !.cancelCascade = @ \/ o.cascade]
<1>0. PICK e \in {d, o.timeout} : e = IF o.timeout > 0 THEN o.timeout ELSE d
  OBVIOUS
<1>1. PICK park : park = ParkOf(targets, c)
  OBVIOUS
<1>2. PICK b \in Cascades : Cascading(park) = ParkOf(targets, b) /\ (b <=> c \/ o.cascade)
  <2>1. park.cancelCascade = c /\ \A v : [park EXCEPT !.cancelCascade = v] = ParkOf(targets, v)
    BY <1>1, ParkBut
  <2>2. Cascading(park) = [park EXCEPT !.cancelCascade = park.cancelCascade \/ o.cascade]
    BY Zenon
  <2>3. (c \/ o.cascade) \in Cascades
    BY Zenon DEF Cascades
  <2>4. Cascading(park) = ParkOf(targets, c \/ o.cascade)
    BY <2>1, <2>2, Zenon
  <2> HIDE DEF Cascading
  <2> QED
    BY <2>3, <2>4, Zenon
<1>3. link.park = {park} /\ link.timeout = d
  BY <1>1, <1>c, LinkBut
<1>4. ApplyAwaitOption(link, o) =
        [[link EXCEPT !.park = {Cascading(p) : p \in link.park}]
            EXCEPT !.timeout = IF o.timeout > 0 THEN o.timeout ELSE link.timeout]
  BY DEF ApplyAwaitOption, Cascading
<1> HIDE DEF Cascading
<1>5. {Cascading(p) : p \in {park}} = {ParkOf(targets, b)}
  BY <1>2, Zenon
<1>6. PICK q : q = {ParkOf(targets, b)}
  OBVIOUS
<1>7. PICK m : m = [link EXCEPT !.park = q]
  OBVIOUS
<1>8. m = LinkOf("park", none, set, reason, q, d)
  BY <1>7, <1>c, LinkBut
<1>9. [m EXCEPT !.timeout = e] = LinkOf("park", none, set, reason, q, e)
  BY <1>8, LinkBut
<1>10. ApplyAwaitOption(link, o) = [m EXCEPT !.timeout = e]
  BY <1>0, <1>3, <1>4, <1>5, <1>6, <1>7, Zenon
<1>11. ApplyAwaitOption(Asked(targets, c, d), o) = Asked(targets, b, e)
  BY <1>6, <1>9, <1>10, <1>a, <1>b, Zenon
<1> QED
  BY <1>0, <1>2, <1>11, Zenon DEF OptionLeads

\* Of k options: whether one asks for the cascade, the last timeout that is one.
CascadeOf(opts, k) == \E i \in 1..k : opts[i].cascade

TimeoutOf(opts, k) ==
    LET positive == {i \in 1..k : opts[i].timeout > 0}
    IN  IF positive = {} THEN 0 ELSE opts[Max(positive)].timeout

LEMMA OneMoreOption ==
    ASSUME NEW opts, NEW k \in Nat
    PROVE  /\ (CascadeOf(opts, k + 1) <=> CascadeOf(opts, k) \/ opts[k + 1].cascade)
           /\ TimeoutOf(opts, k + 1) = IF opts[k + 1].timeout > 0 THEN opts[k + 1].timeout
                                       ELSE TimeoutOf(opts, k)
<1> DEFINE P(j) == {i \in 1..j : opts[i].timeout > 0}
<1>1. 1..(k + 1) = (1..k) \cup {k + 1} /\ k + 1 \in Nat
  OBVIOUS
<1>2. CascadeOf(opts, k + 1) <=> CascadeOf(opts, k) \/ opts[k + 1].cascade
  BY <1>1, Zenon DEF CascadeOf
<1>3. CASE opts[k + 1].timeout > 0
  <2>1. k + 1 \in P(k + 1) /\ P(k + 1) \in SUBSET (1..(k + 1))
    BY <1>1, <1>3
  <2>2. Max(P(k + 1)) = k + 1
    BY <1>1, <2>1, MaxIsLast
  <2> QED
    BY <1>2, <1>3, <2>1, <2>2 DEF TimeoutOf
<1>4. CASE ~ (opts[k + 1].timeout > 0)
  <2>1. P(k + 1) = P(k)
    BY <1>1, <1>4
  <2> QED
    BY <1>2, <1>4, <2>1 DEF TimeoutOf
<1> QED
  BY <1>3, <1>4

\* Whatever its options, a park asks for the Runs it was given, each once; it
\* cascades if an option says so, and has the last timeout that is one.
LEMMA ParkAsksAs ==
    ASSUME NEW Y, NEW opts \in Seq(Y), NEW ids
    PROVE  LET err == newAwait("any", ids, opts)
               asked == The(AwaitRequest(err))
           IN  /\ asked.targets = dedupeRunIDs(ids)
               /\ (asked.cancelCascade <=> CascadeOf(opts, Len(opts)))
               /\ AwaitTimeout(err) = TimeoutOf(opts, Len(opts))
<1> DEFINE N == Len(opts)
           targets == dedupeRunIDs(ids)
           base == [NoLink EXCEPT !.tag = "park", !.park = {ParkOf(targets, FALSE)}]
           D == {0} \cup {opts[i].timeout : i \in 1..N}
           IsFold(h) == h = [s \in SUBSET DOMAIN opts |->
                               IF s = {} THEN base
                               ELSE ApplyAwaitOption(h[s \ {Max(s)}], opts[Max(s)])]
           h == CHOOSE g : IsFold(g)
           Y2 == {opts[i] : i \in 1..N}
<1>1. N \in Nat /\ DOMAIN opts = 1..N /\ \A i \in 1..N : opts[i] \in Y2
  OBVIOUS
<1>2. newAwait("any", ids, opts) = <<h[DOMAIN opts]>>
  BY DEF newAwait, FoldLeft, MapThenFoldSet, ParkOf
<1> DEFINE A == {Asked(targets, c, d) : c \in Cascades, d \in D}
           step == [link \in A |-> [o \in Y2 |-> ApplyAwaitOption(link, o)]]
<1>3. base = Asked(targets, FALSE, 0)
  <2>0. PICK tag, none, set, reason : NoLink = LinkOf(tag, none, set, reason, {}, 0)
    BY Zenon DEF NoLink, LinkOf
  <2>1. PICK p : p = {ParkOf(targets, FALSE)}
    OBVIOUS
  <2>2. PICK m : m = [NoLink EXCEPT !.tag = "park"]
    OBVIOUS
  <2>3. m = LinkOf("park", none, set, reason, {}, 0)
    BY <2>0, <2>2, LinkBut
  <2>4. [m EXCEPT !.park = p] = LinkOf("park", none, set, reason, p, 0)
    BY <2>3, LinkBut
  <2>5. NoLink.kinder = none /\ NoLink.kindSet = set /\ NoLink.reason = reason
    BY <2>0 DEF LinkOf
  <2> QED
    BY <2>1, <2>2, <2>4, <2>5, Zenon DEF Asked
<1>4. base \in A
  <2>1. FALSE \in Cascades /\ 0 \in D
    BY DEF Cascades
  <2>2. PICK no \in Cascades : no = FALSE
    BY DEF Cascades
  <2>3. base = Asked(targets, no, 0)
    BY <1>3, <2>2, Zenon
  <2> HIDE DEF D, base
  <2> QED
    BY <2>1, <2>2, <2>3
<1>5. \A link \in A : \A o \in Y2 : ApplyAwaitOption(link, o) \in A
  <2> HIDE DEF D, targets
  <2> SUFFICES ASSUME NEW c \in Cascades, NEW d \in D, NEW o \in Y2
               PROVE  ApplyAwaitOption(Asked(targets, c, d), o) \in A
    OBVIOUS
  <2>1. OptionLeads(targets, c, d, o)
    BY OptionDoes
  <2>2. PICK b \in Cascades, e \in {d, o.timeout} :
           ApplyAwaitOption(Asked(targets, c, d), o) = Asked(targets, b, e)
    BY <2>1, Zenon DEF OptionLeads
  <2>3. e \in D
    BY DEF D
  <2> QED
    BY <2>2, <2>3
<1>6. step \in [A -> [Y2 -> A]] /\ \A link \in A : \A o \in Y2 : step[link][o] = ApplyAwaitOption(link, o)
  <2> HIDE DEF A, Y2
  <2> QED
    BY <1>5
<1>7. PICK g : Folds(A, Y2, step, base, opts, N, g)
  <2> HIDE DEF A, Y2, base, step, N
  <2> QED
    BY <1>1, <1>4, <1>6, FoldsExist
<1> HIDE DEF A, Y2, base, step
<1>8. \A s \in SUBSET (1..N) : s # {} => s \ {Max(s)} \in SUBSET (1..N) /\ Max(s) \in 1..N
  BY <1>1, LastIn
<1>9. IsFold(g)
  <2>1. \A s \in SUBSET (1..N) :
          g[s] = IF s = {} THEN base ELSE ApplyAwaitOption(g[s \ {Max(s)}], opts[Max(s)])
    BY <1>1, <1>6, <1>7, <1>8 DEF Folds
  <2> QED
    BY <1>1, <1>7, <2>1 DEF Folds
<1>10. IsFold(h)
  BY <1>9
<1> HIDE DEF h
<1>11. \A s \in SUBSET (1..N) :
          h[s] = IF s = {} THEN base ELSE ApplyAwaitOption(h[s \ {Max(s)}], opts[Max(s)])
  BY <1>1, <1>10
<1> HIDE DEF IsFold
<1> DEFINE Is(k) == \E c \in Cascades : \E d \in {TimeoutOf(opts, k)} :
                      /\ h[1..k] = Asked(targets, c, d)
                      /\ (c <=> CascadeOf(opts, k))
           G == {k \in Nat : k <= N => Is(k)}
<1>12. 0 \in G
  <2>1. 1..0 = {} /\ 1..0 \in SUBSET (1..N)
    BY <1>1
  <2>2. h[1..0] = base
    BY <1>11, <2>1
  <2>3. ~ CascadeOf(opts, 0) /\ TimeoutOf(opts, 0) = 0
    BY <2>1 DEF CascadeOf, TimeoutOf
  <2>4. PICK no \in Cascades : no = FALSE
    BY DEF Cascades
  <2>5. h[1..0] = Asked(targets, no, 0)
    BY <1>3, <2>2, <2>4, Zenon
  <2>6. no <=> CascadeOf(opts, 0)
    BY <2>3, <2>4, Zenon
  <2>7. Is(0)
    BY <2>3, <2>5, <2>6, Zenon
  <2> HIDE DEF Is
  <2> QED
    BY <2>7
<1>13. ASSUME NEW k \in G PROVE k + 1 \in G
  <2> SUFFICES ASSUME k + 1 <= N PROVE Is(k + 1)
    OBVIOUS
  <2>1. k \in Nat /\ k + 1 \in 1..N /\ (k + 1) - 1 = k /\ Is(k)
    BY <1>1
  <2> DEFINE m == k + 1
  <2>2. m \in 1..N /\ m - 1 = k
    BY <2>1
  <2> HIDE DEF m
  <2>3. /\ 1..m \in SUBSET (1..N) /\ 1..m # {} /\ Max(1..m) = m
        /\ (1..m) \ {m} = 1..(m - 1)
    BY <1>1, <2>2, PrefixPositions
  <2>4. h[1..m] = ApplyAwaitOption(h[1..k], opts[m])
    BY <1>11, <2>2, <2>3
  <2>5. PICK c \in Cascades, d \in {TimeoutOf(opts, k)} :
           /\ h[1..k] = Asked(targets, c, d)
           /\ (c <=> CascadeOf(opts, k))
           /\ d = TimeoutOf(opts, k)
    BY <2>1, Zenon
  <2>6. PICK o : o = opts[m]
    OBVIOUS
  <2> HIDE DEF targets
  <2>7. PICK b \in Cascades, e \in {d, o.timeout} :
           /\ ApplyAwaitOption(Asked(targets, c, d), o) = Asked(targets, b, e)
           /\ (b <=> c \/ o.cascade)
           /\ e = IF o.timeout > 0 THEN o.timeout ELSE d
    <3>1. OptionLeads(targets, c, d, o)
      BY OptionDoes
    <3> QED
      BY <3>1, Zenon DEF OptionLeads
  <2>8. /\ (CascadeOf(opts, m) <=> CascadeOf(opts, k) \/ o.cascade)
        /\ TimeoutOf(opts, m) = IF o.timeout > 0 THEN o.timeout ELSE TimeoutOf(opts, k)
    BY <2>1, <2>6, OneMoreOption, Zenon DEF m
  <2>9. e = TimeoutOf(opts, m)
    BY <2>5, <2>7, <2>8
  <2>10. b <=> CascadeOf(opts, m)
    BY <2>5, <2>7, <2>8, Zenon
  <2>11. h[1..m] = Asked(targets, b, e)
    BY <2>4, <2>5, <2>6, <2>7, Zenon
  <2> QED
    BY <2>9, <2>10, <2>11, Zenon DEF m
<1>14. Is(N)
  <2>1. G = Nat
    <3>1. G \in SUBSET Nat
      OBVIOUS
    <3> HIDE DEF G
    <3> QED
      BY <1>12, <1>13, <3>1, AllNumbers
  <2> HIDE DEF Is
  <2>2. N \in G
    BY <1>1, <2>1
  <2>3. N <= N
    BY <1>1
  <2> QED
    BY <2>2, <2>3
<1>15. PICK c \in Cascades : /\ h[1..N] = Asked(targets, c, TimeoutOf(opts, N))
                             /\ (c <=> CascadeOf(opts, N))
  BY <1>14, Zenon
<1> DEFINE d == TimeoutOf(opts, N)
<1> DEFINE link == h[1..N]
           err == newAwait("any", ids, opts)
<1>16. err = <<link>>
  BY <1>1, <1>2
<1> HIDE DEF err, link, targets, d
<1>17. link.tag = "park" /\ link.park = {ParkOf(targets, c)} /\ link.timeout = d
  <2>1. PICK none, set, reason :
           Asked(targets, c, d) = LinkOf("park", none, set, reason, {ParkOf(targets, c)}, d)
    BY DEF Asked
  <2>2. PICK park : park = {ParkOf(targets, c)}
    OBVIOUS
  <2>0. link = Asked(targets, c, d)
    BY <1>15 DEF link, d
  <2>3. link = LinkOf("park", none, set, reason, park, d)
    BY <2>0, <2>1, <2>2, Zenon
  <2>4. link.tag = "park" /\ link.park = park /\ link.timeout = d
    BY <2>3, LinkBut
  <2> QED
    BY <2>2, <2>4
<1>18. asAwait(err) = 1
  <2>1. {i \in DOMAIN err : err[i].tag = "park"} = {1}
    BY <1>16, <1>17
  <2>2. Min({1}) = 1
    BY MinIsFirst
  <2> QED
    BY <2>1, <2>2 DEF asAwait, As
<1>19. AwaitRequest(err) = {ParkOf(targets, c)}
  <2>1. {asAwait(err)} \ {0} = {1}
    BY <1>18
  <2>2. err[1].park = {ParkOf(targets, c)}
    BY <1>16, <1>17
  <2> QED
    BY <2>1, <2>2 DEF AwaitRequest
<1>20. The(AwaitRequest(err)) = ParkOf(targets, c)
  BY <1>19 DEF The
<1>21. AwaitTimeout(err) = d
  BY <1>16, <1>17, <1>18 DEF AwaitTimeout
<1>22. PICK park : park = ParkOf(targets, c)
  OBVIOUS
<1>23. park.targets = targets /\ park.cancelCascade = c
  BY <1>22, ParkBut
<1>24. /\ The(AwaitRequest(err)).targets = targets
       /\ (The(AwaitRequest(err)).cancelCascade <=> CascadeOf(opts, N))
       /\ AwaitTimeout(err) = TimeoutOf(opts, N)
  <2>1. The(AwaitRequest(err)) = park
    BY <1>20, <1>22
  <2>2. The(AwaitRequest(err)).cancelCascade = c
    BY <1>23, <2>1
  <2>3. c <=> CascadeOf(opts, N)
    BY <1>15, Zenon
  <2>4. The(AwaitRequest(err)).cancelCascade <=> CascadeOf(opts, N)
    BY <2>2, <2>3, Zenon
  <2> QED
    BY <1>21, <1>23, <2>1, <2>4, Zenon DEF d
<1> QED
  BY <1>24 DEF err, targets

LEMMA ToSetIsElements == ASSUME NEW X, NEW s \in Seq(X) PROVE ToSet(s) = Elements(s)
<1>1. DOMAIN s = 1..Len(s)
  OBVIOUS
<1> QED
  BY <1>1 DEF ToSet, Elements

\* What a handler parks on that parks on ids and again on Wake.Pending.
Repark(ids, done) ==
    LET asked == dedupeRunIDs(ids)
    IN  dedupeRunIDs(Pending(asked, Those(asked, done)))

LEMMA ReparkIs ==
    ASSUME NEW X, NEW ids \in Seq(X), NEW done
    PROVE  LET f == [t \in X |-> FirstAt(ids, t)]
           IN  /\ Repark(ids, done) \in Seq(X)
               /\ Elements(Repark(ids, done)) = Elements(ids) \ done
               /\ Grows(f, Repark(ids, done))
<1> DEFINE f == [t \in X |-> FirstAt(ids, t)]
           u == dedupeRunIDs(ids)
           v == Those(u, done)
           w == Pending(u, v)
           x == dedupeRunIDs(w)
           g == [t \in X |-> FirstAt(w, t)]
<1>1. u \in Seq(X) /\ Elements(u) = Elements(ids) /\ Grows(f, u)
  BY DedupeIs
<1> HIDE DEF f, u
<1>2. v \in Seq(X) /\ Elements(v) = Elements(u) \cap done
  BY <1>1, ThoseAre
<1> HIDE DEF v
<1>3. /\ w \in Seq(X) /\ Elements(w) = Elements(u) \cap (ToSet(u) \ ToSet(v))
      /\ Grows(f, w)
  BY <1>1, ThoseAre DEF Pending
<1>4. Elements(w) = Elements(ids) \ done
  BY <1>1, <1>2, <1>3, ToSetIsElements
<1> HIDE DEF w
<1>5. x \in Seq(X) /\ Elements(x) = Elements(w) /\ Grows(g, x)
  BY <1>3, DedupeIs
<1> HIDE DEF x
<1>6. \A t \in Elements(w) : g[t] \in 1..Len(w) /\ w[g[t]] = t
  <2> SUFFICES ASSUME NEW i \in 1..Len(w) PROVE g[w[i]] \in 1..Len(w) /\ w[g[w[i]]] = w[i]
    BY DEF Elements
  <2>1. w[i] \in X
    BY <1>3
  <2> QED
    BY <1>3, <2>1, FirstIsThere
<1> HIDE DEF g
<1>7. Grows(f, x)
  <2> SUFFICES ASSUME NEW i \in 1..Len(x), NEW j \in 1..Len(x), i < j PROVE f[x[i]] < f[x[j]]
    BY DEF Grows
  <2>1. x[i] \in Elements(w) /\ x[j] \in Elements(w)
    BY <1>5 DEF Elements
  <2>2. g[x[i]] < g[x[j]]
    BY <1>5 DEF Grows
  <2>3. f[w[g[x[i]]]] < f[w[g[x[j]]]]
    BY <1>3, <1>6, <2>1, <2>2 DEF Grows
  <2> QED
    BY <1>6, <2>1, <2>3
<1>8. Repark(ids, done) = x
  BY DEF Repark, x, w, v, u
<1> QED
  BY <1>4, <1>5, <1>7, <1>8 DEF f

(***************************************************************************)
(* The inductive invariant: a park is on a list of Runs, with a list of    *)
(* options, and its answer names what the second park asks for, and what   *)
(* the options made of the first.                                          *)
(***************************************************************************)
ParkInv ==
    call.kind = "park" =>
        /\ call.ids \in Targets /\ call.opts \in ParkOptions
        /\ reply.done =>
              /\ reply.value.again = Repark(call.ids, call.done)
              /\ (reply.value.cascade <=> CascadeOf(call.opts, Len(call.opts)))
              /\ reply.value.timeout = TimeoutOf(call.opts, Len(call.opts))

LEMMA InitPark == Init => ParkInv
<1> SUFFICES ASSUME Init, call.kind = "park" PROVE ParkInv
  BY DEF ParkInv
<1>1. call \in AllCalls /\ ~ reply.done
  BY DEF Init, Unanswered
<1>2. call \in [kind : {"park"}, ids : Targets,
                done : SUBSET UNION {ToSet(t) : t \in Targets}, opts : ParkOptions]
  BY <1>1 DEF AllCalls
<1> QED
  BY <1>1, <1>2 DEF ParkInv

\* Any other call parks nothing.
LEMMA OtherThanPark ==
    ASSUME NEW kind, Called(kind), kind # "park", NEW v, Answer(v)
    PROVE  ParkInv'
  BY DEF ParkInv, Called, Answer

LEMMA NextPark == ParkInv /\ [Next]_vars => ParkInv'
<1> SUFFICES ASSUME ParkInv, [Next]_vars PROVE ParkInv'
  OBVIOUS
<1>1. CASE StoreCursor
  BY <1>1, OtherThanPark DEF StoreCursor
<1>2. CASE StoreOperation
  BY <1>2, OtherThanPark DEF StoreOperation
<1>3. CASE StoreRecord
  BY <1>3, OtherThanPark DEF StoreRecord
<1>4. CASE ResolveAttempt
  BY <1>4, OtherThanPark DEF ResolveAttempt
<1>5. CASE ParkAgain
  <2> DEFINE Targeted(ids) == The(AwaitRequest(newAwait("any", ids, call.opts))).targets
             asked == Targeted(call.ids)
             again == Targeted(Pending(asked, Those(asked, call.done)))
  <2>1. call.ids \in Targets /\ call.opts \in ParkOptions
    BY <1>5 DEF ParkAgain, Called, ParkInv
  <2>0. call.opts \in Seq({call.opts[i] : i \in DOMAIN call.opts})
    BY <2>1, ParksAssumption
  <2> DEFINE err == newAwait("any", call.ids, call.opts)
  <2>2. \A ids : Targeted(ids) = dedupeRunIDs(ids)
    BY <2>0, ParkAsksAs
  <2>3. again = Repark(call.ids, call.done)
    BY <2>2 DEF Repark
  <2>4. /\ (The(AwaitRequest(err)).cancelCascade <=> CascadeOf(call.opts, Len(call.opts)))
        /\ AwaitTimeout(err) = TimeoutOf(call.opts, Len(call.opts))
    BY <2>0, ParkAsksAs
  <2>5. /\ reply'.value = [again |-> again, cascade |-> The(AwaitRequest(err)).cancelCascade,
                           timeout |-> AwaitTimeout(err)]
        /\ UNCHANGED call
    BY <1>5 DEF ParkAgain, Answer
  <2> HIDE DEF again, err
  <2> QED
    BY <2>1, <2>3, <2>4, <2>5 DEF ParkInv
<1>6. CASE RunGenerator
  <2>1. CASE GenerateAccepts(call.files, Types)
    BY <1>6, <2>1 DEF RunGenerator, ParkInv
  <2>2. CASE ~ GenerateAccepts(call.files, Types)
    BY <1>6, <2>2, OtherThanPark DEF RunGenerator
  <2> QED
    BY <2>1, <2>2
<1>7. CASE BindDefinition
  BY <1>7 DEF BindDefinition, ParkInv
<1>8. CASE StartEngine
  BY <1>8 DEF StartEngine, ParkInv
<1>9. CASE BoundText
  BY <1>9, OtherThanPark DEF BoundText
<1>10. CASE Backoff
  BY <1>10, OtherThanPark DEF Backoff
<1>11. CASE Schedule
  BY <1>11, OtherThanPark DEF Schedule
<1>12. CASE OpenStore
  BY <1>12, OtherThanPark DEF OpenStore
<1>13. CASE UNCHANGED vars
  BY <1>13 DEF ParkInv, vars
<1> QED
  BY <1>1, <1>2, <1>3, <1>4, <1>5, <1>6, <1>7, <1>8, <1>9, <1>10, <1>11, <1>12,
     <1>13 DEF Next

(***************************************************************************)
(* Whatever list of Runs a handler names, with whatever repetitions and    *)
(* options, and whichever of them are done when it wakes: parking again on *)
(* Wake.Pending waits for exactly the rest, each once, in the order first  *)
(* named (newAwait, dedupeRunIDs and Wake.Pending).                        *)
(***************************************************************************)
THEOREM ReparkCoversRestAlways == Spec => []ReparkCoversRest
<1>1. ParkInv => ReparkCoversRest
  <2> SUFFICES ASSUME ParkInv, reply.done, call.kind = "park" PROVE ReparkCoversRest
    BY DEF ReparkCoversRest
  <2> DEFINE ids == call.ids
             X == {ids[i] : i \in DOMAIN ids}
             f == [t \in X |-> FirstAt(ids, t)]
             again == reply.value.again
  <2>1. ids \in Seq(X) /\ again = Repark(ids, call.done)
    BY ParksAssumption DEF ParkInv
  <2>2. again \in Seq(X) /\ Elements(again) = Elements(ids) \ call.done /\ Grows(f, again)
    <3> HIDE DEF X, ids, again
    <3> QED
      BY <2>1, ReparkIs
  <2>3. ToSet(again) = ToSet(ids) \ call.done
    BY <2>1, <2>2, ToSetIsElements
  <2>4. \A i, j \in DOMAIN again : i < j => FirstAt(ids, again[i]) < FirstAt(ids, again[j])
    <3> SUFFICES ASSUME NEW i \in DOMAIN again, NEW j \in DOMAIN again, i < j
                 PROVE  FirstAt(ids, again[i]) < FirstAt(ids, again[j])
      OBVIOUS
    <3>1. DOMAIN again = 1..Len(again) /\ again[i] \in X /\ again[j] \in X
      BY <2>2
    <3> HIDE DEF again, X, ids
    <3> QED
      BY <2>2, <3>1 DEF Grows
  <2> QED
    BY <2>3, <2>4 DEF ReparkCoversRest, FirstAt
<1> QED
  BY <1>1, InitPark, NextPark, PTL DEF Spec

-----------------------------------------------------------------------------
(* What the code generator emits.                                          *)

\* The definition NewXxx builds from an emitted Config.
Emitted(m) == NewDefinition(EmitDefinition(m, <<>>))

LEMMA EmittedIs ==
    ASSUME NEW m
    PROVE  LET cfg == Emitted(m)
           IN  /\ cfg.id = m.id /\ cfg.mutexes = m.mutexes /\ cfg.middleware = <<>>
               /\ cfg.reduce = ReducersOf(m) /\ cfg.reduceFailure = FailureReducersOf(m)
               /\ DOMAIN cfg.steps = DOMAIN m.nested
               /\ \A j \in DOMAIN m.nested :
                     /\ cfg.steps[j].id = m.nested[j].id
                     /\ cfg.steps[j].run = {m.nested[j].name}
                     /\ cfg.steps[j].unwind = m.nested[j].unwind
                     /\ cfg.steps[j].unwindFunc = UnwindOf(m.nested[j])
<1> DEFINE D == DOMAIN m.nested
           emitted == [j \in D |-> EmitStep(m.nested[j])]
           Classed(s, class) == IF s.class = "" THEN [s EXCEPT !.class = class] ELSE s
<1>1. PICK def : def = EmitDefinition(m, <<>>)
  OBVIOUS
<1>2. /\ def.id = m.id /\ def.mutexes = m.mutexes /\ def.middleware = <<>>
      /\ def.reduce = ReducersOf(m) /\ def.reduceFailure = FailureReducersOf(m)
  BY <1>1 DEF EmitDefinition
<1>2a. def.steps = emitted
  BY <1>1 DEF EmitDefinition
<1>2b. def = [id |-> def.id, mutexes |-> def.mutexes, class |-> def.class,
              runClass |-> def.runClass, middleware |-> def.middleware,
              newInput |-> def.newInput, reduce |-> def.reduce,
              reduceFailure |-> def.reduceFailure, steps |-> def.steps]
  BY <1>1 DEF EmitDefinition
<1> DEFINE classed == [j \in DOMAIN def.steps |-> Classed(def.steps[j], def.class)]
<1>3. NewDefinition(def) = [def EXCEPT !.steps = classed]
  BY DEF NewDefinition
<1>4. \A s, class :
        s = [id |-> s.id, unwind |-> s.unwind, retired |-> s.retired, class |-> s.class,
             hasState |-> s.hasState, run |-> s.run, unwindFunc |-> s.unwindFunc] =>
          /\ Classed(s, class).id = s.id /\ Classed(s, class).run = s.run
          /\ Classed(s, class).unwind = s.unwind
          /\ Classed(s, class).unwindFunc = s.unwindFunc
  OBVIOUS
<1>5. ASSUME NEW s
      PROVE  /\ EmitStep(s).id = s.id /\ EmitStep(s).run = {s.name}
             /\ EmitStep(s).unwind = s.unwind /\ EmitStep(s).unwindFunc = UnwindOf(s)
             /\ LET e == EmitStep(s)
                IN  e = [id |-> e.id, unwind |-> e.unwind, retired |-> e.retired,
                         class |-> e.class, hasState |-> e.hasState, run |-> e.run,
                         unwindFunc |-> e.unwindFunc]
  BY DEF EmitStep
<1> HIDE DEF Classed
<1>6. /\ DOMAIN classed = D
      /\ \A j \in D : classed[j] = Classed(EmitStep(m.nested[j]), def.class)
  BY <1>2a
<1> HIDE DEF classed
<1>7. PICK cfg : cfg = [def EXCEPT !.steps = classed]
  OBVIOUS
<1>8. /\ cfg.id = def.id /\ cfg.mutexes = def.mutexes /\ cfg.middleware = def.middleware
      /\ cfg.reduce = def.reduce /\ cfg.reduceFailure = def.reduceFailure
      /\ cfg.steps = classed
  <2>1. PICK s : s = classed
    OBVIOUS
  <2>2. cfg = [def EXCEPT !.steps = s]
    BY <1>7, <2>1, Zenon
  <2>3. /\ cfg.id = def.id /\ cfg.mutexes = def.mutexes /\ cfg.middleware = def.middleware
        /\ cfg.reduce = def.reduce /\ cfg.reduceFailure = def.reduceFailure
        /\ cfg.steps = s
    BY <1>2b, <2>2
  <2> QED
    BY <2>1, <2>3
<1>9. Emitted(m) = cfg
  BY <1>1, <1>3, <1>7, Zenon DEF Emitted
<1>10. ASSUME NEW j \in DOMAIN m.nested
       PROVE  /\ cfg.steps[j].id = m.nested[j].id /\ cfg.steps[j].run = {m.nested[j].name}
              /\ cfg.steps[j].unwind = m.nested[j].unwind
              /\ cfg.steps[j].unwindFunc = UnwindOf(m.nested[j])
  <2>1. PICK s : s = EmitStep(m.nested[j])
    OBVIOUS
  <2>2. cfg.steps[j] = Classed(s, def.class)
    BY <1>6, <1>8, <2>1
  <2>3. /\ s.id = m.nested[j].id /\ s.run = {m.nested[j].name}
        /\ s.unwind = m.nested[j].unwind /\ s.unwindFunc = UnwindOf(m.nested[j])
        /\ s = [id |-> s.id, unwind |-> s.unwind, retired |-> s.retired, class |-> s.class,
                hasState |-> s.hasState, run |-> s.run, unwindFunc |-> s.unwindFunc]
    BY <1>5, <2>1
  <2>4. /\ Classed(s, def.class).id = s.id /\ Classed(s, def.class).run = s.run
        /\ Classed(s, def.class).unwind = s.unwind
        /\ Classed(s, def.class).unwindFunc = s.unwindFunc
    BY <1>4, <2>3
  <2> QED
    BY <2>2, <2>3, <2>4
<1>11. /\ cfg.id = m.id /\ cfg.mutexes = m.mutexes /\ cfg.middleware = <<>>
       /\ cfg.reduce = ReducersOf(m) /\ cfg.reduceFailure = FailureReducersOf(m)
  BY <1>2, <1>8
<1>12. DOMAIN cfg.steps = DOMAIN m.nested
  BY <1>6, <1>8
<1> QED
  BY <1>9, <1>10, <1>11, <1>12, Zenon

LEMMA EmittedFields ==
    ASSUME NEW m, NEW cfg, cfg = Emitted(m)
    PROVE  /\ cfg.id = m.id /\ cfg.mutexes = m.mutexes /\ cfg.middleware = <<>>
           /\ cfg.reduce = ReducersOf(m) /\ cfg.reduceFailure = FailureReducersOf(m)
           /\ DOMAIN cfg.steps = DOMAIN m.nested
           /\ \A j \in DOMAIN m.nested :
                 /\ cfg.steps[j].id = m.nested[j].id
                 /\ cfg.steps[j].run = {m.nested[j].name}
                 /\ cfg.steps[j].unwind = m.nested[j].unwind
                 /\ cfg.steps[j].unwindFunc = UnwindOf(m.nested[j])
  BY EmittedIs

\* The methods of the steps, one step after another.
LEMMA MethodSteps ==
    ASSUME NEW X, NEW nested \in Seq(X)
    PROVE  \E e : /\ e[0] = <<>> /\ FoldLeft(EmitMethods, <<>>, nested) = e[Len(nested)]
                  /\ \A k \in 1..Len(nested) : e[k] = EmitMethods(e[k - 1], nested[k])
<1> DEFINE N == Len(nested)
           IsFold(h) == h = [s \in SUBSET DOMAIN nested |->
                               IF s = {} THEN <<>>
                               ELSE EmitMethods(h[s \ {Max(s)}], nested[Max(s)])]
           h == CHOOSE g : IsFold(g)
           e == [k \in 0..N |-> h[1..k]]
<1>1. N \in Nat /\ DOMAIN nested = 1..N /\ \A i \in 1..N : nested[i] \in X
  OBVIOUS
<1>2. FoldLeft(EmitMethods, <<>>, nested) = h[DOMAIN nested]
  BY DEF FoldLeft, MapThenFoldSet
<1>3. \E g : IsFold(g)
  <2> DEFINE U(s) == <<"Unwind">> \o s.name
             M == {s.name : s \in X} \cup {U(s) : s \in X}
             A == Seq(M)
             step == [out \in A |-> [s \in X |-> EmitMethods(out, s)]]
  <2>1. ASSUME NEW out \in A, NEW s \in X PROVE EmitMethods(out, s) \in A
    <3> DEFINE name == s.name
               unwind == U(s)
    <3>1. name \in M /\ unwind \in M
      OBVIOUS
    <3>2. EmitMethods(out, s) = IF s.unwind THEN Append(Append(out, name), unwind)
                                ELSE Append(out, name)
      BY DEF EmitMethods
    <3> HIDE DEF name, unwind, M
    <3> QED
      BY <3>1, <3>2
  <2>2. <<>> \in A /\ step \in [A -> [X -> A]]
    <3>1. <<>> \in A
      OBVIOUS
    <3> HIDE DEF A
    <3> QED
      BY <2>1, <3>1
  <2>3. \A out \in A : \A s \in X : step[out][s] = EmitMethods(out, s)
    OBVIOUS
  <2> HIDE DEF A, step
  <2>4. PICK g : Folds(A, X, step, <<>>, nested, N, g)
    BY <1>1, <2>2, FoldsExist
  <2>5. \A s \in SUBSET (1..N) : s # {} => s \ {Max(s)} \in SUBSET (1..N) /\ Max(s) \in 1..N
    BY <1>1, LastIn
  <2>6. \A s \in SUBSET (1..N) :
          g[s] = IF s = {} THEN <<>> ELSE EmitMethods(g[s \ {Max(s)}], nested[Max(s)])
    BY <1>1, <2>3, <2>4, <2>5 DEF Folds
  <2>7. g = [s \in SUBSET (1..N) |->
               IF s = {} THEN <<>> ELSE EmitMethods(g[s \ {Max(s)}], nested[Max(s)])]
    BY <2>4, <2>6 DEF Folds
  <2>8. IsFold(g)
    BY <1>1, <2>7
  <2> QED
    BY <2>8
<1>4. IsFold(h)
  BY <1>3
<1>5. \A s \in SUBSET (1..N) :
        h[s] = IF s = {} THEN <<>> ELSE EmitMethods(h[s \ {Max(s)}], nested[Max(s)])
  <2> HIDE DEF h
  <2> QED
    BY <1>1, <1>4
<1> HIDE DEF h, IsFold
<1>6. e[0] = <<>>
  <2>1. 1..0 = {} /\ 0 \in 0..N
    BY <1>1
  <2> QED
    BY <1>5, <2>1
<1>7. FoldLeft(EmitMethods, <<>>, nested) = e[N]
  BY <1>1, <1>2
<1>8. ASSUME NEW k \in 1..N PROVE e[k] = EmitMethods(e[k - 1], nested[k])
  <2>1. k \in 0..N /\ k - 1 \in 0..N
    BY <1>1
  <2>2. e[k] = h[1..k] /\ e[k - 1] = h[1..(k - 1)]
    BY <2>1
  <2> HIDE DEF e, N
  <2>3. /\ 1..k \in SUBSET (1..N) /\ 1..k # {} /\ Max(1..k) = k
        /\ (1..k) \ {k} = 1..(k - 1)
    BY <1>1, PrefixPositions
  <2>4. h[1..k] = EmitMethods(h[1..(k - 1)], nested[k])
    BY <1>5, <2>3
  <2> QED
    BY <2>2, <2>4
<1> HIDE DEF e
<1> QED
  BY <1>6, <1>7, <1>8, Zenon

\* A method that is not declared yet is declared once.
LEMMA OneMoreDistinct ==
    ASSUME NEW M, NEW s \in Seq(M), Distinct(s), NEW t \in M, t \notin Elements(s)
    PROVE  /\ Append(s, t) \in Seq(M) /\ Distinct(Append(s, t))
           /\ Elements(Append(s, t)) = Elements(s) \cup {t}
<1> DEFINE a == Append(s, t)
<1>1. /\ a \in Seq(M) /\ Len(s) \in Nat /\ Len(a) = Len(s) + 1
      /\ DOMAIN s = 1..Len(s) /\ DOMAIN a = 1..Len(a)
      /\ a[Len(s) + 1] = t /\ \A i \in 1..Len(s) : a[i] = s[i]
  OBVIOUS
<1>2. Elements(a) = Elements(s) \cup {t}
  BY OneMore
<1> HIDE DEF a
<1>3. Distinct(a)
  <2>1. \A i \in 1..Len(s) : s[i] # t
    BY DEF Elements
  <2>2. \A i, j \in 1..Len(s) : s[i] = s[j] => i = j
    BY <1>1 DEF Distinct, IsInjective
  <2>3. 1..Len(a) = (1..Len(s)) \cup {Len(s) + 1}
    BY <1>1
  <2>4. \A i, j \in 1..Len(a) : a[i] = a[j] => i = j
    BY <1>1, <2>1, <2>2, <2>3
  <2> QED
    BY <1>1, <2>4 DEF Distinct, IsInjective
<1> QED
  BY <1>1, <1>2, <1>3 DEF a

Undoing(s) == <<"Unwind">> \o s.name

\* The methods that the steps of a pipeline and its reducers claim.
Claimed(m) ==
    LET D == DOMAIN m.nested
        nested == m.nested
    IN  /\ \A i, j \in D : nested[i].name = nested[j].name => i = j
        /\ \A i, j \in D : nested[j].unwind => nested[i].name # Undoing(nested[j])
        /\ \A i, j \in D : nested[i].unwind /\ nested[j].unwind
                              /\ Undoing(nested[i]) = Undoing(nested[j]) => i = j
        /\ m.output # "" =>
              \A j \in D : /\ nested[j].name # <<"ReduceOutput">>
                           /\ nested[j].unwind => Undoing(nested[j]) # <<"ReduceOutput">>
        /\ m.failureOutput # "" =>
              \A j \in D : /\ nested[j].name # <<"ReduceFailure">>
                           /\ nested[j].unwind => Undoing(nested[j]) # <<"ReduceFailure">>

LEMMA ClaimsDiffer ==
    ASSUME NEW m, IsPipeline(m), WellPlaced(m), ~ ClaimsCollide(m)
    PROVE  Claimed(m)
<1> DEFINE D == DOMAIN m.nested
           nested == m.nested
           Run(j) == <<"step", j, nested[j].name>>
           Undo(j) == <<"unwind", j, Undoing(nested[j])>>
           output == <<"output", 0, <<"ReduceOutput">>>>
           failure == <<"failure", 0, <<"ReduceFailure">>>>
<1>1. StepsIn(m) = D
  BY DEF WellPlaced, StepsIn, IsStep
<1>2. \A j \in D : Run(j) \in Claims(m)
  BY <1>1 DEF Claims, RunClaims
<1>3. \A j \in D : nested[j].unwind => Undo(j) \in Claims(m)
  BY <1>1 DEF Claims, UnwindClaims, Undoing
<1>4. m.output # "" => output \in Claims(m)
  BY DEF Claims, ReducerClaims
<1>5. m.failureOutput # "" => failure \in Claims(m)
  BY DEF Claims, ReducerClaims
<1>6. \A c, d \in Claims(m) : c[3] = d[3] => c = d
  BY DEF ClaimsCollide
<1>7. \A j : Run(j)[3] = nested[j].name /\ Undo(j)[3] = Undoing(nested[j])
  OBVIOUS
<1>8. output[3] = <<"ReduceOutput">> /\ failure[3] = <<"ReduceFailure">>
  OBVIOUS
<1>9. \A i, j : /\ Run(i) # Undo(j) /\ Run(i) # output /\ Run(i) # failure
                /\ Undo(j) # output /\ Undo(j) # failure
                /\ (Run(i) = Run(j) => i = j) /\ (Undo(i) = Undo(j) => i = j)
  OBVIOUS
<1> HIDE DEF Run, Undo, output, failure
<1>10. /\ \A i, j \in D : nested[i].name = nested[j].name => i = j
       /\ \A i, j \in D : nested[j].unwind => nested[i].name # Undoing(nested[j])
       /\ \A i, j \in D : nested[i].unwind /\ nested[j].unwind
                             /\ Undoing(nested[i]) = Undoing(nested[j]) => i = j
  BY <1>2, <1>3, <1>6, <1>7, <1>9
<1>11. m.output # "" =>
          \A j \in D : /\ nested[j].name # <<"ReduceOutput">>
                       /\ nested[j].unwind => Undoing(nested[j]) # <<"ReduceOutput">>
  BY <1>2, <1>3, <1>4, <1>6, <1>7, <1>8, <1>9
<1>12. m.failureOutput # "" =>
          \A j \in D : /\ nested[j].name # <<"ReduceFailure">>
                       /\ nested[j].unwind => Undoing(nested[j]) # <<"ReduceFailure">>
  BY <1>2, <1>3, <1>5, <1>6, <1>7, <1>8, <1>9
<1> QED
  BY <1>10, <1>11, <1>12 DEF Claimed

\* The methods of one step, and those of a pipeline's steps up to the k-th.
StepMethods(s) == {s.name} \cup UnwindOf(s)

MethodsUpTo(m, k) == UNION {StepMethods(m.nested[j]) : j \in 1..k}

LEMMA StepMethodsAre ==
    ASSUME NEW s
    PROVE  /\ \A x : x \in StepMethods(s) <=> x = s.name \/ (s.unwind /\ x = Undoing(s))
           /\ StepMethods(s) = {s.name} \cup (IF s.unwind THEN {Undoing(s)} ELSE {})
  BY DEF StepMethods, UnwindOf, Undoing

LEMMA MethodsUpToAre ==
    ASSUME NEW m, NEW k \in Nat
    PROVE  /\ MethodsUpTo(m, k + 1) = MethodsUpTo(m, k) \cup StepMethods(m.nested[k + 1])
           /\ \A x : x \in MethodsUpTo(m, k) <=> \E j \in 1..k : x \in StepMethods(m.nested[j])
<1>1. 1..(k + 1) = (1..k) \cup {k + 1}
  OBVIOUS
<1> QED
  BY <1>1 DEF MethodsUpTo

\* The handler interface declares what the steps and reducers claim, once.
LEMMA HandlersAre ==
    ASSUME NEW m, NEW X, m.nested \in Seq(X), Claimed(m),
           \A j \in DOMAIN m.nested : m.nested[j].unwind \in BOOLEAN
    PROVE  /\ Distinct(EmitHandlers(m))
           /\ ToSet(EmitHandlers(m)) =
                 ReducersOf(m) \cup FailureReducersOf(m)
                 \cup UNION {StepMethods(m.nested[j]) : j \in DOMAIN m.nested}
<1> DEFINE nested == m.nested
           N == Len(nested)
           RO == <<"ReduceOutput">>
           RF == <<"ReduceFailure">>
           M == {nested[j].name : j \in 1..N} \cup {Undoing(nested[j]) : j \in 1..N}
                \cup {RO, RF}
<1>1. N \in Nat /\ DOMAIN nested = 1..N /\ nested \in Seq(X)
  OBVIOUS
<1>2. PICK e : /\ e[0] = <<>> /\ FoldLeft(EmitMethods, <<>>, nested) = e[N]
               /\ \A k \in 1..N : e[k] = EmitMethods(e[k - 1], nested[k])
  BY MethodSteps
<1>4. RO # RF
  OBVIOUS
<1>5. /\ \A i, j \in 1..N : nested[i].name = nested[j].name => i = j
      /\ \A i, j \in 1..N : nested[j].unwind => nested[i].name # Undoing(nested[j])
      /\ \A i, j \in 1..N : nested[i].unwind /\ nested[j].unwind
                              /\ Undoing(nested[i]) = Undoing(nested[j]) => i = j
      /\ m.output # "" =>
            \A j \in 1..N : /\ nested[j].name # RO
                            /\ nested[j].unwind => Undoing(nested[j]) # RO
      /\ m.failureOutput # "" =>
            \A j \in 1..N : /\ nested[j].name # RF
                            /\ nested[j].unwind => Undoing(nested[j]) # RF
  BY <1>1 DEF Claimed
<1>6. RO \in M /\ RF \in M /\ \A j \in 1..N : nested[j].name \in M /\ Undoing(nested[j]) \in M
  OBVIOUS
<1> HIDE DEF RO, RF, M
<1> DEFINE Upto(k) == /\ e[k] \in Seq(M) /\ Distinct(e[k])
                      /\ Elements(e[k]) = MethodsUpTo(m, k)
           G == {k \in Nat : k <= N => Upto(k)}
<1>7. 0 \in G
  <2>1. <<>> \in Seq(M) /\ Len(<<>>) = 0 /\ DOMAIN <<>> = {} /\ 1..0 = {}
    OBVIOUS
  <2>2. Distinct(<<>>) /\ Elements(<<>>) = {} /\ MethodsUpTo(m, 0) = {}
    BY <2>1 DEF Distinct, IsInjective, Elements, MethodsUpTo
  <2> QED
    BY <1>2, <2>1, <2>2
<1>8. ASSUME NEW k \in G PROVE k + 1 \in G
  <2>0. k \in Nat
    OBVIOUS
  <2> SUFFICES ASSUME k + 1 <= N PROVE Upto(k + 1)
    BY <2>0
  <2> DEFINE s == nested[k + 1]
             out == e[k]
             withRun == Append(out, s.name)
  <2>1. /\ k + 1 \in 1..N /\ (k + 1) - 1 = k /\ k <= N /\ k + 1 \notin 1..k
        /\ 1..(k + 1) = (1..k) \cup {k + 1} /\ 1..k \subseteq 1..N
    BY <1>1, <2>0
  <2>2. out \in Seq(M) /\ Distinct(out) /\ Elements(out) = MethodsUpTo(m, k)
    BY <2>1
  <2>3. e[k + 1] = EmitMethods(out, s)
    BY <1>2, <2>1
  <2>4. MethodsUpTo(m, k + 1) =
          MethodsUpTo(m, k) \cup {s.name} \cup (IF s.unwind THEN {Undoing(s)} ELSE {})
    BY <2>0, MethodsUpToAre, StepMethodsAre
  <2>5. ASSUME NEW x \in MethodsUpTo(m, k)
        PROVE  x # s.name /\ (s.unwind => x # Undoing(s))
    <3>1. PICK j \in 1..k : x \in StepMethods(nested[j])
      BY <2>0, MethodsUpToAre
    <3>2. x = nested[j].name \/ (nested[j].unwind /\ x = Undoing(nested[j]))
      BY <3>1, StepMethodsAre
    <3>3. j \in 1..N /\ j # k + 1
      BY <2>1
    <3> QED
      BY <1>5, <2>1, <3>2, <3>3
  <2>6. s.unwind => Undoing(s) # s.name
    BY <1>5, <2>1
  <2>7. s.name \in M /\ Undoing(s) \in M
    BY <1>6, <2>1
  <2> HIDE DEF s, out
  <2>8. /\ withRun \in Seq(M) /\ Distinct(withRun)
        /\ Elements(withRun) = MethodsUpTo(m, k) \cup {s.name}
    BY <2>2, <2>5, <2>7, OneMoreDistinct
  <2> HIDE DEF withRun
  <2>9. EmitMethods(out, s) = IF s.unwind THEN Append(withRun, Undoing(s)) ELSE withRun
    BY DEF EmitMethods, Undoing, withRun
  <2>10. CASE s.unwind
    <3>1. /\ Append(withRun, Undoing(s)) \in Seq(M) /\ Distinct(Append(withRun, Undoing(s)))
          /\ Elements(Append(withRun, Undoing(s))) = Elements(withRun) \cup {Undoing(s)}
      BY <2>5, <2>6, <2>7, <2>8, <2>10, OneMoreDistinct
    <3> QED
      BY <2>3, <2>4, <2>8, <2>9, <2>10, <3>1
  <2>11. CASE ~ s.unwind
    BY <2>3, <2>4, <2>8, <2>9, <2>11
  <2> QED
    BY <2>10, <2>11
<1>9. Upto(N)
  <2>1. G = Nat
    <3> HIDE DEF Upto
    <3>1. G \in SUBSET Nat
      OBVIOUS
    <3> HIDE DEF G
    <3> QED
      BY <1>7, <1>8, <3>1, AllNumbers
  <2> HIDE DEF Upto, N
  <2>2. N \in G /\ N <= N
    BY <1>1, <2>1
  <2> QED
    BY <2>2
<1> DEFINE ofSteps == e[N]
           withOutput == IF m.output # "" THEN Append(ofSteps, RO) ELSE ofSteps
           all == IF m.failureOutput # "" THEN Append(withOutput, RF) ELSE withOutput
<1>10. EmitHandlers(m) = all
  BY <1>2 DEF EmitHandlers, RO, RF
<1>11. /\ ofSteps \in Seq(M) /\ Distinct(ofSteps)
       /\ Elements(ofSteps) = MethodsUpTo(m, N)
  BY <1>9
<1> HIDE DEF Upto, ofSteps
<1>12. /\ m.output # "" => RO \notin MethodsUpTo(m, N)
       /\ m.failureOutput # "" => RF \notin MethodsUpTo(m, N)
  <2> SUFFICES ASSUME NEW x \in MethodsUpTo(m, N)
               PROVE  /\ m.output # "" => RO # x
                      /\ m.failureOutput # "" => RF # x
    OBVIOUS
  <2>1. PICK j \in 1..N : x \in StepMethods(nested[j])
    BY <1>1, MethodsUpToAre
  <2>2. x = nested[j].name \/ (nested[j].unwind /\ x = Undoing(nested[j]))
    BY <2>1, StepMethodsAre
  <2> QED
    BY <1>5, <2>2
<1>13. /\ withOutput \in Seq(M) /\ Distinct(withOutput)
       /\ Elements(withOutput) = MethodsUpTo(m, N) \cup ReducersOf(m)
  <2>1. ReducersOf(m) = IF m.output # "" THEN {RO} ELSE {}
    BY DEF ReducersOf, RO
  <2>2. CASE m.output # ""
    <3>1. /\ Append(ofSteps, RO) \in Seq(M) /\ Distinct(Append(ofSteps, RO))
          /\ Elements(Append(ofSteps, RO)) = Elements(ofSteps) \cup {RO}
      BY <1>6, <1>11, <1>12, <2>2, OneMoreDistinct
    <3> QED
      BY <1>11, <2>1, <2>2, <3>1
  <2>3. CASE m.output = ""
    BY <1>11, <2>1, <2>3
  <2> QED
    BY <2>2, <2>3
<1> HIDE DEF withOutput
<1>14. /\ all \in Seq(M) /\ Distinct(all)
       /\ Elements(all) = Elements(withOutput) \cup FailureReducersOf(m)
  <2>1. FailureReducersOf(m) = IF m.failureOutput # "" THEN {RF} ELSE {}
    BY DEF FailureReducersOf, RF
  <2>2. CASE m.failureOutput # ""
    <3>1. RF \notin Elements(withOutput)
      BY <1>4, <1>12, <1>13, <2>2 DEF ReducersOf, RO
    <3>2. /\ Append(withOutput, RF) \in Seq(M) /\ Distinct(Append(withOutput, RF))
          /\ Elements(Append(withOutput, RF)) = Elements(withOutput) \cup {RF}
      BY <1>6, <1>13, <3>1, OneMoreDistinct
    <3> QED
      BY <1>13, <2>1, <2>2, <3>2
  <2>3. CASE m.failureOutput = ""
    BY <1>13, <2>1, <2>3
  <2> QED
    BY <2>2, <2>3
<1> HIDE DEF all
<1>15. ToSet(all) = Elements(all)
  BY <1>14, ToSetIsElements
<1>16. MethodsUpTo(m, N) = UNION {StepMethods(m.nested[j]) : j \in DOMAIN m.nested}
  BY <1>1 DEF MethodsUpTo
<1> QED
  BY <1>10, <1>13, <1>14, <1>15, <1>16

\* What Generate checked of a pipeline it accepted.
LEMMA AcceptedIs ==
    ASSUME NEW files \in Schemas, GenerateAccepts(files, Types), NEW i \in PipelinesIn(files)
    PROVE  LET m == files[i]
               nested == m.nested
           IN  /\ IsPipeline(m) /\ WellPlaced(m) /\ ~ ClaimsCollide(m) /\ m.id # ""
               /\ StepsIn(m) = DOMAIN nested /\ DOMAIN nested # {}
               /\ nested \in Seq({nested[j] : j \in DOMAIN nested})
               /\ \A j \in DOMAIN nested : nested[j].unwind \in BOOLEAN
<1>1. i \in DOMAIN files /\ IsPipeline(files[i])
  BY DEF PipelinesIn
<1>2. WellPlaced(files[i]) /\ ValidPipeline(files[i], Types)
  BY <1>1 DEF GenerateAccepts
<1>3. StepsIn(files[i]) = DOMAIN files[i].nested
  BY <1>1, <1>2 DEF WellPlaced, StepsIn, IsStep
<1> QED
  BY <1>1, <1>2, <1>3, SchemasAssumption DEF ValidPipeline

\* No two steps of the files Generate accepted have one id.
LEMMA StepsApart ==
    ASSUME NEW files \in Schemas, GenerateAccepts(files, Types),
           NEW i \in PipelinesIn(files), NEW j \in PipelinesIn(files),
           NEW k \in DOMAIN files[i].nested, NEW l \in DOMAIN files[j].nested
    PROVE  files[i].nested[k].id = files[j].nested[l].id => i = j /\ k = l
<1> DEFINE p == <<i, k>>
           q == <<j, l>>
<1>1. p \in AllSteps(files) /\ q \in AllSteps(files)
  <2>1. k \in StepsIn(files[i]) /\ l \in StepsIn(files[j])
    BY AcceptedIs
  <2> QED
    BY <2>1 DEF AllSteps
<1>2. StepAt(files, p) = files[i].nested[k] /\ StepAt(files, q) = files[j].nested[l]
  BY DEF StepAt
<1>3. p = q => i = j /\ k = l
  OBVIOUS
<1> HIDE DEF p, q
<1> QED
  BY <1>1, <1>2, <1>3 DEF GenerateAccepts

\* The generator emits no middleware.
LEMMA NoMiddleware == DOMAIN <<>> = {}
  OBVIOUS

\* Every name of a definition is one the engine allows.
WellNamed(cfg) ==
    ({cfg.id} \cup cfg.mutexes \cup StepIDs(cfg)) \cap {"", Malformed} = {}

\* The definition of an accepted pipeline is one that bindDefinition takes.
LEMMA AcceptedBinds ==
    ASSUME NEW files \in Schemas, GenerateAccepts(files, Types), NEW i \in PipelinesIn(files),
           NEW cfg, cfg = Emitted(files[i]),
           WellNamed(cfg)
    PROVE  Binds(cfg)
<1> DEFINE nested == files[i].nested
           D == DOMAIN nested
<1>1. /\ cfg.id = files[i].id /\ cfg.middleware = <<>> /\ DOMAIN cfg.steps = D
      /\ \A j \in D : /\ cfg.steps[j].id = nested[j].id
                      /\ cfg.steps[j].run = {nested[j].name}
                      /\ cfg.steps[j].unwind = nested[j].unwind
                      /\ cfg.steps[j].unwindFunc = UnwindOf(nested[j])
  BY EmittedFields
<1>2. D # {} /\ \A j \in D : nested[j].unwind \in BOOLEAN
  BY AcceptedIs
<1>3. cfg.id # "" /\ ~ invalidID(cfg.id)
  BY DEF WellNamed, invalidID
<1>4. \A x \in cfg.mutexes : x # "" /\ ~ invalidID(x)
  BY DEF WellNamed, invalidID
<1>5. \A j \in DOMAIN cfg.middleware : cfg.middleware[j] # "nil"
  BY <1>1, NoMiddleware
<1>6. cfg.steps # <<>>
  BY <1>1, <1>2, NoMiddleware
<1>7. ASSUME NEW j \in D
      PROVE  /\ cfg.steps[j].id # "" /\ ~ invalidID(cfg.steps[j].id)
             /\ cfg.steps[j].run # {}
             /\ cfg.steps[j].unwind = (cfg.steps[j].unwindFunc # {})
  <2>1. cfg.steps[j].id \in StepIDs(cfg)
    BY <1>1 DEF StepIDs
  <2>2. cfg.steps[j].id # "" /\ ~ invalidID(cfg.steps[j].id)
    BY <2>1 DEF WellNamed, invalidID
  <2>3. nested[j].unwind = (UnwindOf(nested[j]) # {})
    BY <1>2 DEF UnwindOf
  <2> QED
    BY <1>1, <2>2, <2>3
<1>8. Distinct([j \in DOMAIN cfg.steps |-> cfg.steps[j].id])
  <2>1. ASSUME NEW j \in D, NEW k \in D, nested[j].id = nested[k].id PROVE j = k
    BY <2>1, StepsApart
  <2> DEFINE ids == [j \in DOMAIN cfg.steps |-> cfg.steps[j].id]
  <2>2. DOMAIN ids = D /\ \A j \in D : ids[j] = nested[j].id
    BY <1>1
  <2> HIDE DEF ids, D, nested
  <2>3. IsInjective(ids)
    BY <2>1, <2>2 DEF IsInjective
  <2> QED
    BY <2>3 DEF Distinct, ids
<1> QED
  BY <1>1, <1>3, <1>4, <1>5, <1>6, <1>7, <1>8 DEF Binds

\* The definitions and handlers of a deployment are those of one generation.
OfGeneration(configs, handlers) ==
    \E files \in Schemas : /\ GenerateAccepts(files, Types)
                           /\ configs = Generate(files)
                           /\ handlers = GenerateHandlers(files)

\* Every bound pipeline is one of configs, under its own id.
BoundFrom(eng, configs) ==
    \A p \in DOMAIN eng.pipelines :
        eng.pipelines[p] \in configs /\ eng.pipelines[p].id = p

(***************************************************************************)
(* The inductive invariant: a deployment of generated code is handed the   *)
(* definitions of one accepted generation, and has bound no other.         *)
(***************************************************************************)
GeneratedInv ==
    /\ call.kind = "generate" => call.files \in Schemas
    /\ call.kind = "deploy" /\ call.generated =>
          /\ OfGeneration(call.configs, call.handlers)
          /\ BoundFrom(reply.value, call.configs)

\* Bind adds the definition it accepts, Start none.
LEMMA BindKeepsBound ==
    ASSUME NEW eng, IsEngine(eng), NEW configs, NEW cfg \in configs, BoundFrom(eng, configs)
    PROVE  BoundFrom(Bind(eng, cfg), configs)
<1>1. CASE ~ (Binds(cfg) /\ Registers(eng, cfg))
  BY <1>1 DEF Bind
<1>2. CASE Binds(cfg) /\ Registers(eng, cfg)
  <2> DEFINE ps == Put(eng.pipelines, {cfg.id}, cfg)
             os == Put(eng.stepOwner, StepIDs(cfg), cfg.id)
  <2>1. Bind(eng, cfg) = [pipelines |-> ps, stepOwner |-> os, started |-> eng.started,
                          excludes |-> eng.excludes]
    BY <1>2 DEF Bind, IsEngine
  <2>2. /\ DOMAIN ps = {cfg.id} \cup DOMAIN eng.pipelines
        /\ ps[cfg.id] = cfg
        /\ \A p \in DOMAIN eng.pipelines : p # cfg.id => ps[p] = eng.pipelines[p]
    BY DEF Put
  <2> HIDE DEF ps, os
  <2> QED
    BY <2>1, <2>2 DEF BoundFrom
<1> QED
  BY <1>1, <1>2

LEMMA StartKeepsBound ==
    ASSUME NEW eng, IsEngine(eng), NEW configs, NEW classes, BoundFrom(eng, configs)
    PROVE  BoundFrom(Start(eng, RunClasses, classes), configs)
<1> DEFINE res == resolveMutexes(eng.pipelines)
<1>1. CASE ~ CanStart(eng, RunClasses, classes)
  BY <1>1 DEF Start
<1>2. CASE CanStart(eng, RunClasses, classes)
  <2>1. Start(eng, RunClasses, classes) = [eng EXCEPT !.started = TRUE, !.excludes = res]
    BY <1>2 DEF Start
  <2> HIDE DEF res
  <2> QED
    BY <2>1 DEF BoundFrom, IsEngine
<1> QED
  BY <1>1, <1>2

LEMMA InitGenerated == Init => GeneratedInv
<1> SUFFICES ASSUME Init PROVE GeneratedInv
  OBVIOUS
<1>1. call \in AllCalls
  BY DEF Init
<1>2. call.kind = "generate" => call.files \in Schemas
  <2> SUFFICES ASSUME call.kind = "generate" PROVE call.files \in Schemas
    OBVIOUS
  <2>1. call \in [kind : {"generate"}, files : Schemas]
    BY <1>1 DEF AllCalls
  <2> QED
    BY <2>1
<1>3. call.kind = "deploy" => ~ call.generated
  <2> SUFFICES ASSUME call.kind = "deploy" PROVE ~ call.generated
    OBVIOUS
  <2>1. call \in [kind : {"deploy"}, configs : HandWritten, generated : {FALSE},
                  handlers : {<<>>}, classes : {{"api"}, {"jobs"}}]
    BY <1>1 DEF AllCalls
  <2> QED
    BY <2>1
<1> QED
  BY <1>2, <1>3 DEF GeneratedInv

\* The answer of any other call generates nothing.
LEMMA OtherThanGenerated ==
    ASSUME GeneratedInv, NEW kind, Called(kind), kind # "deploy", NEW v, Answer(v)
    PROVE  GeneratedInv'
  BY DEF GeneratedInv, Called, Answer

LEMMA NextGenerated == DeployInv /\ GeneratedInv /\ [Next]_vars => GeneratedInv'
<1> SUFFICES ASSUME DeployInv, GeneratedInv, [Next]_vars PROVE GeneratedInv'
  OBVIOUS
<1>1. CASE StoreCursor
  BY <1>1, OtherThanGenerated DEF StoreCursor
<1>2. CASE StoreOperation
  BY <1>2, OtherThanGenerated DEF StoreOperation
<1>3. CASE StoreRecord
  BY <1>3, OtherThanGenerated DEF StoreRecord
<1>4. CASE ResolveAttempt
  BY <1>4, OtherThanGenerated DEF ResolveAttempt
<1>5. CASE ParkAgain
  BY <1>5, OtherThanGenerated DEF ParkAgain
<1>6. CASE RunGenerator
  <2>1. CASE GenerateAccepts(call.files, Types)
    <3> DEFINE configs == Generate(call.files)
               handlers == GenerateHandlers(call.files)
    <3>1. call.files \in Schemas
      BY <1>6 DEF RunGenerator, Called, GeneratedInv
    <3>2. /\ call' = [kind |-> "deploy", configs |-> configs, generated |-> TRUE,
                      handlers |-> handlers, classes |-> {"api"}]
          /\ reply' = [done |-> FALSE, value |-> Unbound]
      BY <1>6, <2>1 DEF RunGenerator
    <3>3. OfGeneration(configs, handlers)
      BY <2>1, <3>1 DEF OfGeneration
    <3>4. BoundFrom(Unbound, configs)
      BY DEF BoundFrom, Unbound
    <3> HIDE DEF configs, handlers
    <3> QED
      BY <3>2, <3>3, <3>4 DEF GeneratedInv
  <2>2. CASE ~ GenerateAccepts(call.files, Types)
    BY <1>6, <2>2, OtherThanGenerated DEF RunGenerator
  <2> QED
    BY <2>1, <2>2
<1>7. CASE BindDefinition
  <2>1. PICK cfg \in call.configs : reply' = [reply EXCEPT !.value = Bind(@, cfg)]
    BY <1>7 DEF BindDefinition
  <2>2. IsEngine(reply.value) /\ reply = [done |-> reply.done, value |-> reply.value]
    BY <1>7 DEF BindDefinition, DeployInv
  <2>3. reply'.value = Bind(reply.value, cfg) /\ UNCHANGED call
    BY <1>7, <2>1, <2>2 DEF BindDefinition
  <2>4. BoundFrom(reply.value, call.configs) => BoundFrom(reply'.value, call.configs)
    BY <2>2, <2>3, BindKeepsBound
  <2> QED
    BY <2>3, <2>4 DEF GeneratedInv
<1>8. CASE StartEngine
  <2>1. IsEngine(reply.value) /\ reply = [done |-> reply.done, value |-> reply.value]
    BY <1>8 DEF StartEngine, DeployInv
  <2>2. reply'.value = Start(reply.value, RunClasses, call.classes) /\ UNCHANGED call
    BY <1>8, <2>1 DEF StartEngine
  <2>3. BoundFrom(reply.value, call.configs) => BoundFrom(reply'.value, call.configs)
    BY <2>1, <2>2, StartKeepsBound
  <2> QED
    BY <2>2, <2>3 DEF GeneratedInv
<1>9. CASE BoundText
  BY <1>9, OtherThanGenerated DEF BoundText
<1>10. CASE Backoff
  BY <1>10, OtherThanGenerated DEF Backoff
<1>11. CASE Schedule
  BY <1>11, OtherThanGenerated DEF Schedule
<1>12. CASE OpenStore
  BY <1>12, OtherThanGenerated DEF OpenStore
<1>13. CASE UNCHANGED vars
  BY <1>13 DEF GeneratedInv, vars
<1> QED
  BY <1>1, <1>2, <1>3, <1>4, <1>5, <1>6, <1>7, <1>8, <1>9, <1>10, <1>11, <1>12,
     <1>13 DEF Next

LEMMA OneOfGeneration ==
    ASSUME NEW files, NEW cfg \in Generate(files)
    PROVE  \E i \in PipelinesIn(files) : cfg = Emitted(files[i])
  BY DEF Generate, Emitted

\* The ids of the steps of an emitted definition are those of its messages.
LEMMA EmittedSteps ==
    ASSUME NEW m, NEW cfg, cfg = Emitted(m)
    PROVE  StepIDs(cfg) = {m.nested[j].id : j \in DOMAIN m.nested}
<1>1. DOMAIN cfg.steps = DOMAIN m.nested /\ \A j \in DOMAIN m.nested : cfg.steps[j].id = m.nested[j].id
  BY EmittedFields
<1> QED
  BY <1>1 DEF StepIDs

\* No other definition of its generation owns a step of an emitted one.
LEMMA AcceptedRegisters ==
    ASSUME NEW files \in Schemas, GenerateAccepts(files, Types), NEW i \in PipelinesIn(files),
           NEW cfg, cfg = Emitted(files[i]),
           NEW eng, Owned(eng), BoundFrom(eng, Generate(files)), ~ eng.started,
           cfg.id \notin DOMAIN eng.pipelines
    PROVE  Registers(eng, cfg)
<1>1. ASSUME NEW s \in StepIDs(cfg), s \in DOMAIN eng.stepOwner PROVE FALSE
  <2>1. PICK p \in DOMAIN eng.pipelines : s \in StepIDs(eng.pipelines[p])
    BY <1>1 DEF Owned
  <2>2. eng.pipelines[p] \in Generate(files) /\ eng.pipelines[p].id = p
    BY DEF BoundFrom
  <2>3. PICK j \in PipelinesIn(files) : eng.pipelines[p] = Emitted(files[j])
    BY <2>2, OneOfGeneration
  <2>4. PICK k \in DOMAIN files[i].nested : files[i].nested[k].id = s
    BY <1>1, EmittedSteps
  <2>5. PICK l \in DOMAIN files[j].nested : files[j].nested[l].id = s
    BY <2>1, <2>3, EmittedSteps
  <2>6. i = j
    BY <2>4, <2>5, StepsApart
  <2> QED
    BY <2>2, <2>3, <2>6
<1> QED
  BY <1>1 DEF Registers

\* The handler interface kept under a pipeline's id is the pipeline's own.
LEMMA HandlersOfPipeline ==
    ASSUME NEW files \in Schemas, GenerateAccepts(files, Types), NEW i \in PipelinesIn(files)
    PROVE  GenerateHandlers(files)[files[i].id] = EmitHandlers(files[i])
<1> DEFINE id == files[i].id
           c == CHOOSE j \in PipelinesIn(files) : files[j].id = id
<1>1. c \in PipelinesIn(files) /\ files[c].id = id
  OBVIOUS
<1>2. c = i
  BY <1>1 DEF GenerateAccepts
<1>3. GenerateHandlers(files)[id] = EmitHandlers(files[c])
  <2>1. id \in {files[j].id : j \in PipelinesIn(files)}
    OBVIOUS
  <2> QED
    BY <2>1 DEF GenerateHandlers
<1> QED
  BY <1>2, <1>3

\* Its methods are distinct, and those its definition's functions call.
LEMMA AcceptedImplementable ==
    ASSUME NEW files \in Schemas, GenerateAccepts(files, Types), NEW i \in PipelinesIn(files),
           NEW cfg, cfg = Emitted(files[i])
    PROVE  LET methods == GenerateHandlers(files)[cfg.id]
           IN  /\ Distinct(methods)
               /\ ToSet(methods) =
                     cfg.reduce \cup cfg.reduceFailure
                     \cup UNION {cfg.steps[j].run \cup cfg.steps[j].unwindFunc
                                   : j \in DOMAIN cfg.steps}
<1> DEFINE m == files[i]
           nested == m.nested
<1>1. /\ cfg.id = m.id
      /\ cfg.reduce = ReducersOf(m) /\ cfg.reduceFailure = FailureReducersOf(m)
      /\ DOMAIN cfg.steps = DOMAIN nested
      /\ \A j \in DOMAIN nested : /\ cfg.steps[j].run = {nested[j].name}
                                  /\ cfg.steps[j].unwindFunc = UnwindOf(nested[j])
  BY EmittedFields
<1>2. /\ nested \in Seq({nested[j] : j \in DOMAIN nested})
      /\ \A j \in DOMAIN nested : nested[j].unwind \in BOOLEAN
  BY AcceptedIs
<1>3. Claimed(m)
  BY AcceptedIs, ClaimsDiffer
<1>4. /\ Distinct(EmitHandlers(m))
      /\ ToSet(EmitHandlers(m)) =
            ReducersOf(m) \cup FailureReducersOf(m)
            \cup UNION {StepMethods(nested[j]) : j \in DOMAIN nested}
  BY <1>2, <1>3, HandlersAre
<1>5. GenerateHandlers(files)[cfg.id] = EmitHandlers(m)
  BY <1>1, HandlersOfPipeline
<1>6. \A j \in DOMAIN nested :
         cfg.steps[j].run \cup cfg.steps[j].unwindFunc = StepMethods(nested[j])
  BY <1>1 DEF StepMethods
<1> HIDE DEF m, nested
<1>7. {cfg.steps[j].run \cup cfg.steps[j].unwindFunc : j \in DOMAIN cfg.steps} =
         {StepMethods(nested[j]) : j \in DOMAIN nested}
  BY <1>1, <1>6
<1> QED
  BY <1>1, <1>4, <1>5, <1>7

(***************************************************************************)
(* Whatever declarations the generator accepts, and whichever of its       *)
(* definitions are bound already: until Start each of the others, if the   *)
(* engine allows its names, is one Bind accepts; and the methods a         *)
(* pipeline's functions call are those of its handler interface, which     *)
(* declares none twice (Generate, emitDefinition, emitHandlers, register). *)
(***************************************************************************)
THEOREM GeneratedSoundAlways == Spec => []GeneratedSound
<1>1. DeployInv /\ GeneratedInv => GeneratedSound
  <2> SUFFICES ASSUME DeployInv, GeneratedInv, call.kind = "deploy", call.generated,
                      NEW cfg \in call.configs
               PROVE  /\ LET methods == call.handlers[cfg.id]
                         IN  /\ Distinct(methods)
                             /\ ToSet(methods) =
                                   cfg.reduce \cup cfg.reduceFailure
                                   \cup UNION {cfg.steps[i].run \cup cfg.steps[i].unwindFunc
                                                 : i \in DOMAIN cfg.steps}
                      /\ ~ reply.value.started /\ WellNamed(cfg)
                         /\ cfg.id \notin DOMAIN reply.value.pipelines
                            => Binds(cfg) /\ Registers(reply.value, cfg)
    BY DEF GeneratedSound, GeneratedBinds, HandlersImplementable, WellNamed
  <2>1. PICK files \in Schemas : /\ GenerateAccepts(files, Types)
                                 /\ call.configs = Generate(files)
                                 /\ call.handlers = GenerateHandlers(files)
    BY DEF GeneratedInv, OfGeneration
  <2>2. BoundFrom(reply.value, Generate(files)) /\ Owned(reply.value)
    BY <2>1 DEF GeneratedInv, DeployInv
  <2>3. PICK i \in PipelinesIn(files) : cfg = Emitted(files[i])
    BY <2>1, OneOfGeneration
  <2>4. WellNamed(cfg) => Binds(cfg)
    BY <2>1, <2>3, AcceptedBinds
  <2>5. ~ reply.value.started /\ cfg.id \notin DOMAIN reply.value.pipelines
           => Registers(reply.value, cfg)
    BY <2>1, <2>2, <2>3, AcceptedRegisters
  <2> QED
    BY <2>1, <2>3, <2>4, <2>5, AcceptedImplementable
<1>2. Init => DeployInv /\ GeneratedInv
  BY InitDeploy, InitGenerated
<1>3. DeployInv /\ GeneratedInv /\ [Next]_vars => (DeployInv /\ GeneratedInv)'
  BY NextDeploy, NextGenerated
<1> QED
  BY <1>1, <1>2, <1>3, PTL DEF Spec

-----------------------------------------------------------------------------
(* What callers set: the options of a store.                                *)

\* Modulus and remainder of a number that is not wrapped.
LEMMA FitsUnwrapped == ASSUME NEW n \in 0..MaxInt PROVE Wrap(n) = n
<1> DEFINE m == 2 * (MaxInt + 1)
<1>1. MaxInt \in Nat
  BY LimitsAssumption
<1>2. m \in Nat /\ m > 0 /\ n < m /\ n \in Nat
  BY <1>1
<1> HIDE DEF m
<1>3. n % m = n
  BY <1>2
<1> QED
  BY <1>1, <1>3 DEF Wrap, m

LEMMA NothingOpened == ~ Refused.opened
<1>1. Refused.opened = FALSE
  BY DEF Refused
<1> QED
  BY <1>1, Zenon

\* A store that is opened has its driver, and the limits its options give.
LEMMA OpenIs ==
    ASSUME NEW uri, NEW v, v = Open(uri, Drivers), v # Refused
    PROVE  /\ v.driver = uri.scheme
           /\ \A i \in Kept(uri) :
                 /\ uri.pairs[i].key \in {"blob_cache", "output_cache"}
                 /\ Places(uri, uri.pairs[i].key) = {i}
                 /\ IsByteCount(uri.pairs[i].value)
           /\ Kept(uri) # {} \/ uri.scheme = "bbolt" =>
                 /\ v.blobCache = Given(uri, "blob_cache")
                 /\ v.outputCache = Given(uri, "output_cache")
<1>1. uri.scheme \in {"bbolt", "mem"}
  BY DEF Open, Drivers
<1>2. CASE uri.scheme = "bbolt"
  <2> DEFINE Fine == /\ uri.host = "" /\ uri.path # ""
                     /\ \A i \in Kept(uri) :
                           /\ Places(uri, uri.pairs[i].key) = {i}
                           /\ IsByteCount(uri.pairs[i].value)
                           /\ uri.pairs[i].key \in {"blob_cache", "output_cache"}
             b == Given(uri, "blob_cache")
             o == Given(uri, "output_cache")
             opened == [opened |-> TRUE, driver |-> "bbolt", blobCache |-> b, outputCache |-> o]
  <2>1. v = IF Fine THEN opened ELSE Refused
    BY <1>2 DEF Open, Drivers, OpenBbolt
  <2>2. Fine /\ v = opened
    BY <2>1
  <2> HIDE DEF b, o
  <2>3. v.driver = "bbolt" /\ v.blobCache = b /\ v.outputCache = o
    <3> HIDE DEF Fine
    <3>1. v = opened
      BY <2>2
    <3> QED
      BY <3>1
  <2> QED
    BY <1>2, <2>2, <2>3 DEF b, o
<1>3. CASE uri.scheme = "mem"
  <2>1. v = OpenMem(uri)
    BY <1>3 DEF Open, Drivers
  <2>2. uri.pairs = <<>> /\ v = [Refused EXCEPT !.opened = TRUE, !.driver = "mem"]
    BY <2>1 DEF OpenMem
  <2>3. Kept(uri) = {}
    BY <2>2 DEF Kept
  <2>4. v.driver = "mem"
    BY <2>2 DEF Refused
  <2> QED
    BY <1>3, <2>3, <2>4
<1> QED
  BY <1>1, <1>2, <1>3

\* An option that is kept and fits an int is the limit the store runs with.
LEMMA OpensAsAsked ==
    ASSUME NEW uri \in URIs, NEW v, v = Open(uri, Drivers), v # Refused,
           NEW i \in Kept(uri)
    PROVE  LET limit == [blob_cache |-> v.blobCache, output_cache |-> v.outputCache]
               key == uri.pairs[i].key
               w == uri.pairs[i].value
               asked == w.number * Unit[w.unit]
           IN  /\ key \in DOMAIN limit
               /\ \A j \in Kept(uri) : uri.pairs[j].key = key => j = i
               /\ asked <= MaxInt => limit[key] = asked
<1> DEFINE limit == [blob_cache |-> v.blobCache, output_cache |-> v.outputCache]
           key == uri.pairs[i].key
           w == uri.pairs[i].value
           asked == w.number * Unit[w.unit]
<1>1. key \in {"blob_cache", "output_cache"} /\ Places(uri, key) = {i} /\ IsByteCount(w)
  BY OpenIs
<1>2. w.number \in Nat /\ Unit[w.unit] \in Nat
  <2>1. i \in DOMAIN uri.pairs
    BY DEF Kept
  <2>2. w.unit \in DOMAIN Unit
    BY <2>1, URIsAssumption
  <2> QED
    BY <1>1, <2>2, LimitsAssumption DEF IsByteCount
<1>3. asked \in Nat /\ MaxInt \in Nat
  BY <1>2, LimitsAssumption
<1>4. limit[key] = Given(uri, key) /\ key \in DOMAIN limit
  <2>1. v.blobCache = Given(uri, "blob_cache") /\ v.outputCache = Given(uri, "output_cache")
    BY OpenIs
  <2> HIDE DEF key
  <2> QED
    BY <1>1, <2>1
<1>5. Given(uri, key) = Wrap(asked)
  <2>1. (CHOOSE j \in Places(uri, key) : TRUE) = i
    BY <1>1
  <2> QED
    BY <1>1, <2>1 DEF Given, parseBytes
<1>6. asked <= MaxInt => Wrap(asked) = asked
  <2> HIDE DEF asked
  <2> QED
    BY <1>3, FitsUnwrapped
<1>7. \A j \in Kept(uri) : uri.pairs[j].key = key => j = i
  BY <1>1 DEF Places
<1> QED
  BY <1>4, <1>5, <1>6, <1>7

\* An option that the query does not keep has its default.
LEMMA OpensByDefault ==
    ASSUME NEW uri, NEW v, v = Open(uri, Drivers), v # Refused, uri.scheme = "bbolt",
           NEW key \in {"blob_cache", "output_cache"},
           \A i \in Kept(uri) : uri.pairs[i].key # key
    PROVE  [blob_cache |-> v.blobCache, output_cache |-> v.outputCache][key] = DefaultCache
<1>1. Places(uri, key) = {}
  BY DEF Places
<1>2. Given(uri, key) = DefaultCache
  BY <1>1 DEF Given
<1>3. v.blobCache = Given(uri, "blob_cache") /\ v.outputCache = Given(uri, "output_cache")
  BY OpenIs
<1> QED
  BY <1>2, <1>3

-----------------------------------------------------------------------------
(* Recorded text.                                                           *)

\* What is stored of a text has no byte that is not UTF-8.
LEMMA SanitizedIs ==
    ASSUME NEW text \in Seq(0..4)
    PROVE  sanitizeText(text) \in Seq(1..4)
<1> DEFINE N == Len(text)
           ids == [i \in DOMAIN text |-> i]
           Out(out, i) == IF text[i] # BadByte THEN Append(out, text[i])
                          ELSE IF i > 1 /\ text[i - 1] = BadByte THEN out
                          ELSE Append(out, MarkWidth)
           IsFold(h) == h = [s \in SUBSET DOMAIN ids |->
                               IF s = {} THEN <<>> ELSE Out(h[s \ {Max(s)}], ids[Max(s)])]
           h == CHOOSE g : IsFold(g)
           A == Seq(1..4)
<1>1. /\ N \in Nat /\ DOMAIN text = 1..N /\ DOMAIN ids = 1..N
      /\ \A i \in 1..N : ids[i] = i /\ text[i] \in 0..4
  OBVIOUS
<1>2. sanitizeText(text) = h[DOMAIN ids]
  BY DEF sanitizeText, FoldLeftDomain, FoldLeft, MapThenFoldSet
<1>3. \A out \in A : \A i \in 1..N : Out(out, i) \in A
  BY <1>1 DEF BadByte, MarkWidth
<1>4. \E g : IsFold(g)
  <2> DEFINE step == [out \in A |-> [i \in 1..N |-> Out(out, i)]]
  <2>1. <<>> \in A /\ step \in [A -> [1..N -> A]]
    BY <1>3
  <2>2. \A out \in A : \A i \in 1..N : step[out][i] = Out(out, i)
    OBVIOUS
  <2> HIDE DEF A, step, Out
  <2>3. PICK g : Folds(A, 1..N, step, <<>>, ids, N, g)
    BY <1>1, <2>1, FoldsExist
  <2>4. \A s \in SUBSET (1..N) : s # {} => s \ {Max(s)} \in SUBSET (1..N) /\ Max(s) \in 1..N
    BY <1>1, LastIn
  <2>5. \A s \in SUBSET (1..N) :
          g[s] = IF s = {} THEN <<>> ELSE Out(g[s \ {Max(s)}], ids[Max(s)])
    BY <1>1, <2>2, <2>3, <2>4 DEF Folds
  <2>6. g = [s \in SUBSET (1..N) |-> IF s = {} THEN <<>> ELSE Out(g[s \ {Max(s)}], ids[Max(s)])]
    BY <2>3, <2>5 DEF Folds
  <2>7. IsFold(g)
    BY <1>1, <2>6 DEF Out
  <2> QED
    BY <2>7
<1>5. IsFold(h)
  BY <1>4
<1>6. \A s \in SUBSET (1..N) : h[s] = IF s = {} THEN <<>> ELSE Out(h[s \ {Max(s)}], ids[Max(s)])
  <2> HIDE DEF h, ids
  <2> QED
    BY <1>1, <1>5
<1> HIDE DEF h, Out, IsFold, ids
<1> DEFINE G == {k \in Nat : k <= N => h[1..k] \in A}
<1>7. 0 \in G
  <2>1. 1..0 = {} /\ 1..0 \in SUBSET (1..N) /\ <<>> \in A
    BY <1>1
  <2> QED
    BY <1>6, <2>1
<1>8. ASSUME NEW k \in G PROVE k + 1 \in G
  <2> SUFFICES ASSUME k + 1 <= N PROVE h[1..(k + 1)] \in A
    OBVIOUS
  <2> DEFINE m == k + 1
  <2>1. m \in 1..N /\ m - 1 = k /\ k \in Nat /\ h[1..k] \in A
    BY <1>1
  <2> HIDE DEF m
  <2>2. /\ 1..m \in SUBSET (1..N) /\ 1..m # {} /\ Max(1..m) = m
        /\ (1..m) \ {m} = 1..(m - 1)
    BY <1>1, <2>1, PrefixPositions
  <2>3. h[1..m] = Out(h[1..k], m)
    BY <1>1, <1>6, <2>1, <2>2
  <2> QED
    BY <1>3, <2>1, <2>3 DEF m
<1>9. h[1..N] \in A
  <2>1. G = Nat
    <3>1. G \in SUBSET Nat
      OBVIOUS
    <3> HIDE DEF G
    <3> QED
      BY <1>7, <1>8, <3>1, AllNumbers
  <2>2. N \in G /\ N <= N
    BY <1>1, <2>1
  <2> QED
    BY <2>2
<1> QED
  BY <1>1, <1>2, <1>9

\* The bytes of a text, one character after another.
LEMMA BytesSteps ==
    ASSUME NEW s \in Seq(Nat)
    PROVE  \E e : /\ e[0] = 0 /\ Bytes(s) = e[Len(s)]
                  /\ \A k \in 1..Len(s) : e[k] = e[k - 1] + s[k]
<1> DEFINE N == Len(s)
           IsFold(h) == h = [p \in SUBSET DOMAIN s |->
                               IF p = {} THEN 0 ELSE h[p \ {Max(p)}] + s[Max(p)]]
           h == CHOOSE g : IsFold(g)
           e == [k \in 0..N |-> h[1..k]]
<1>1. N \in Nat /\ DOMAIN s = 1..N /\ \A i \in 1..N : s[i] \in Nat
  OBVIOUS
<1>2. Bytes(s) = h[DOMAIN s]
  BY DEF Bytes, FoldLeft, MapThenFoldSet
<1>3. \E g : IsFold(g)
  <2> DEFINE step == [n \in Nat |-> [w \in Nat |-> n + w]]
  <2>1. step \in [Nat -> [Nat -> Nat]] /\ \A n, w \in Nat : step[n][w] = n + w
    OBVIOUS
  <2> HIDE DEF step
  <2>2. PICK g : Folds(Nat, Nat, step, 0, s, N, g)
    BY <1>1, <2>1, FoldsExist
  <2>3. \A p \in SUBSET (1..N) : p # {} => p \ {Max(p)} \in SUBSET (1..N) /\ Max(p) \in 1..N
    BY <1>1, LastIn
  <2>4. \A p \in SUBSET (1..N) : g[p] = IF p = {} THEN 0 ELSE g[p \ {Max(p)}] + s[Max(p)]
    BY <1>1, <2>1, <2>2, <2>3 DEF Folds
  <2>5. g = [p \in SUBSET (1..N) |-> IF p = {} THEN 0 ELSE g[p \ {Max(p)}] + s[Max(p)]]
    BY <2>2, <2>4 DEF Folds
  <2> QED
    BY <1>1, <2>5
<1>4. IsFold(h)
  BY <1>3
<1>5. \A p \in SUBSET (1..N) : h[p] = IF p = {} THEN 0 ELSE h[p \ {Max(p)}] + s[Max(p)]
  <2> HIDE DEF h
  <2> QED
    BY <1>1, <1>4
<1> HIDE DEF h, IsFold
<1>6. e[0] = 0
  <2>1. 1..0 = {} /\ 0 \in 0..N
    BY <1>1
  <2> QED
    BY <1>5, <2>1
<1>7. Bytes(s) = e[N]
  BY <1>1, <1>2
<1>8. ASSUME NEW k \in 1..N PROVE e[k] = e[k - 1] + s[k]
  <2>1. k \in 0..N /\ k - 1 \in 0..N
    BY <1>1
  <2>2. e[k] = h[1..k] /\ e[k - 1] = h[1..(k - 1)]
    BY <2>1
  <2> HIDE DEF e, N
  <2>3. /\ 1..k \in SUBSET (1..N) /\ 1..k # {} /\ Max(1..k) = k
        /\ (1..k) \ {k} = 1..(k - 1)
    BY <1>1, PrefixPositions
  <2>4. h[1..k] = h[1..(k - 1)] + s[k]
    BY <1>5, <2>3
  <2> QED
    BY <2>2, <2>4
<1> HIDE DEF e
<1> QED
  BY <1>6, <1>7, <1>8

\* A character more is its bytes more.
LEMMA BytesAppend ==
    ASSUME NEW s \in Seq(Nat), NEW w \in Nat
    PROVE  Bytes(s) \in Nat /\ Bytes(Append(s, w)) = Bytes(s) + w
<1> DEFINE N == Len(s)
           t == Append(s, w)
<1>1. /\ N \in Nat /\ t \in Seq(Nat) /\ Len(t) = N + 1 /\ t[N + 1] = w
      /\ \A k \in 1..N : t[k] = s[k] /\ s[k] \in Nat
  OBVIOUS
<1>2. PICK e : /\ e[0] = 0 /\ Bytes(s) = e[N]
               /\ \A k \in 1..N : e[k] = e[k - 1] + s[k]
  BY BytesSteps
<1>3. PICK f : /\ f[0] = 0 /\ Bytes(t) = f[Len(t)]
               /\ \A k \in 1..Len(t) : f[k] = f[k - 1] + t[k]
  BY <1>1, BytesSteps
<1> DEFINE G == {k \in Nat : k <= N => e[k] \in Nat /\ e[k] = f[k]}
<1> HIDE DEF t, N
<1>4. 0 \in G
  BY <1>2, <1>3
<1>5. ASSUME NEW k \in G PROVE k + 1 \in G
  <2> SUFFICES ASSUME k + 1 <= N PROVE e[k + 1] \in Nat /\ e[k + 1] = f[k + 1]
    OBVIOUS
  <2>1. /\ k + 1 \in 1..N /\ k + 1 \in 1..Len(t) /\ (k + 1) - 1 = k
        /\ e[k] \in Nat /\ e[k] = f[k]
    BY <1>1
  <2> QED
    BY <1>1, <1>2, <1>3, <2>1
<1>6. e[N] \in Nat /\ e[N] = f[N]
  <2>1. G = Nat
    <3>1. G \in SUBSET Nat
      OBVIOUS
    <3> HIDE DEF G
    <3> QED
      BY <1>4, <1>5, <3>1, AllNumbers
  <2>2. N \in G
    <3> HIDE DEF G
    <3> QED
      BY <1>1, <2>1
  <2>3. N <= N
    BY <1>1
  <2> QED
    BY <2>2, <2>3
<1>7. Bytes(t) = f[N] + w
  <2>1. N + 1 \in 1..Len(t) /\ (N + 1) - 1 = N
    BY <1>1
  <2> QED
    BY <1>1, <1>3, <2>1
<1> QED
  BY <1>2, <1>6, <1>7 DEF t

LEMMA BoundsText ==
    ASSUME NEW text \in Seq(0..4), NEW textLimit \in Nat,
           NEW v, v = boundText(text, textLimit)
    PROVE  LET s == sanitizeText(text)
               limit == IF textLimit = 0 THEN DefaultTextLimit ELSE textLimit
               kept == Len(v) - 1
           IN  /\ \A i \in DOMAIN v : v[i] # BadByte
               /\ Bytes(s) <= limit => v = s
               /\ Bytes(s) > limit /\ limit >= MarkWidth =>
                     /\ Bytes(v) <= limit
                     /\ v = Append(SubSeq(s, 1, kept), MarkWidth)
                     /\ Bytes(SubSeq(s, 1, kept + 1)) + MarkWidth > limit
<1> DEFINE s == sanitizeText(text)
           limit == IF textLimit <= 0 THEN DefaultTextLimit ELSE textLimit
           cut == Max({0, limit - MarkWidth})
           N == Len(s)
           P(k) == SubSeq(s, 1, k)
           K == {k \in 0..N : Bytes(P(k)) <= cut}
           keep == Max(K)
<1>1. s \in Seq(1..4)
  BY SanitizedIs
<1>2. limit \in Nat
  BY LimitsAssumption
<1>3. v = IF Bytes(s) <= limit THEN s ELSE Append(P(keep), MarkWidth)
  BY DEF boundText
<1> HIDE DEF s, limit
<1>4. N \in Nat /\ s \in Seq(Nat)
  <2>1. 1..4 \subseteq Nat
    OBVIOUS
  <2> QED
    BY <1>1, <2>1
<1>5. \A k \in 0..N : P(k) \in Seq(1..4) /\ P(k) \in Seq(Nat) /\ Len(P(k)) = k
  BY <1>1, <1>4
<1>6. P(N) = s /\ P(0) = <<>>
  BY <1>1, <1>4
<1> HIDE DEF P
<1>7. Bytes(<<>>) = 0
  <2>1. <<>> \in Seq(Nat) /\ Len(<<>>) = 0
    OBVIOUS
  <2> QED
    BY <2>1, BytesSteps
<1>8. cut \in Nat /\ (limit >= MarkWidth => cut = limit - MarkWidth)
  <2>1. {0, limit - MarkWidth} = {limit - MarkWidth, 0}
    OBVIOUS
  <2>2. CASE limit < MarkWidth
    <3>1. cut = 0
      BY <1>2, <2>2 DEF Max, MarkWidth
    <3> QED
      BY <2>2, <3>1, <1>2 DEF MarkWidth
  <2>3. CASE limit >= MarkWidth
    <3>1. cut = limit - MarkWidth
      BY <1>2, <2>3 DEF Max, MarkWidth
    <3> QED
      BY <2>3, <3>1, <1>2 DEF MarkWidth
  <2> QED
    BY <2>2, <2>3, <1>2 DEF MarkWidth
<1> HIDE DEF cut
<1>9. 0 \in K /\ K \in SUBSET (0..N)
  BY <1>4, <1>6, <1>7, <1>8
<1>10. keep \in K /\ \A k \in K : k <= keep
  BY <1>4, <1>9, GreatestIs
<1> HIDE DEF keep
<1>11. keep \in 0..N /\ Bytes(P(keep)) <= cut
  BY <1>10
<1>12. \A i \in DOMAIN v : v[i] # BadByte
  <2>1. v \in Seq(1..4)
    BY <1>1, <1>3, <1>5, <1>11 DEF MarkWidth
  <2> QED
    BY <2>1 DEF BadByte
<1>13. ASSUME Bytes(s) > limit, limit >= MarkWidth
       PROVE  /\ Bytes(v) <= limit
              /\ Len(v) - 1 = keep
              /\ v = Append(P(keep), MarkWidth)
              /\ Bytes(P(keep + 1)) + MarkWidth > limit
  <2>1. Bytes(s) \in Nat /\ Bytes(P(keep)) \in Nat
    BY <1>4, <1>5, <1>11, BytesAppend
  <2>2. v = Append(P(keep), MarkWidth) /\ Len(v) - 1 = keep
    <3>1. ~ (Bytes(s) <= limit)
      BY <1>2, <1>13, <2>1
    <3>2. P(keep) \in Seq(Nat) /\ Len(P(keep)) = keep /\ keep \in Nat /\ MarkWidth \in Nat
      BY <1>5, <1>11 DEF MarkWidth
    <3> QED
      BY <1>3, <3>1, <3>2
  <2>3. Bytes(v) = Bytes(P(keep)) + MarkWidth
    BY <1>5, <1>11, <2>2, BytesAppend DEF MarkWidth
  <2>4. Bytes(v) <= limit
    BY <1>2, <1>8, <1>11, <1>13, <2>1, <2>3 DEF MarkWidth
  <2>5. keep # N
    BY <1>2, <1>6, <1>8, <1>11, <1>13, <2>1 DEF MarkWidth
  <2>6. keep + 1 \in 0..N /\ keep + 1 \notin K
    BY <1>4, <1>10, <1>11, <2>5
  <2>7. Bytes(P(keep + 1)) \in Nat
    BY <1>5, <2>6, BytesAppend
  <2>8. ~ (Bytes(P(keep + 1)) <= cut)
    BY <2>6
  <2> QED
    BY <1>2, <1>8, <1>13, <2>2, <2>4, <2>7, <2>8 DEF MarkWidth
<1> QED
  <2>1. limit = IF textLimit = 0 THEN DefaultTextLimit ELSE textLimit
    BY DEF limit
  <2> HIDE DEF P
  <2>2. \A k : P(k) = SubSeq(s, 1, k)
    BY DEF P
  <2> QED
    BY <1>3, <1>12, <1>13, <2>1, <2>2 DEF s

-----------------------------------------------------------------------------
(* The delay before a retry.                                                *)

\* The powers of m up to the n-th.
Powers(m, n, h) ==
    /\ h \in [0..n -> Nat] /\ h[0] = 1
    /\ \A k \in 1..n : h[k] = h[k - 1] * m

LEMMA PowersExist == ASSUME NEW m \in Nat, NEW n \in Nat PROVE \E h : Powers(m, n, h)
<1> DEFINE G == {k \in Nat : \E h : Powers(m, k, h)}
<1>1. 0 \in G
  <2> DEFINE h == [k \in 0..0 |-> 1]
  <2>1. Powers(m, 0, h)
    BY DEF Powers
  <2> QED
    BY <2>1
<1>2. ASSUME NEW k \in G PROVE k + 1 \in G
  <2>1. PICK h : Powers(m, k, h)
    OBVIOUS
  <2> DEFINE g == [j \in 0..(k + 1) |-> IF j <= k THEN h[j] ELSE h[k] * m]
  <2>2. k \in Nat /\ h \in [0..k -> Nat] /\ h[0] = 1 /\ \A j \in 1..k : h[j] = h[j - 1] * m
    BY <2>1 DEF Powers
  <2>3. h[k] \in Nat /\ h[k] * m \in Nat
    BY <2>2
  <2>4. g \in [0..(k + 1) -> Nat]
    <3>1. \A j \in 0..(k + 1) : j <= k => h[j] \in Nat
      BY <2>2
    <3> QED
      BY <2>3, <3>1
  <2>5. g[0] = 1
    BY <2>2
  <2>6. ASSUME NEW j \in 1..(k + 1) PROVE g[j] = g[j - 1] * m
    <3>1. j - 1 \in 0..(k + 1) /\ j - 1 <= k /\ j \in 0..(k + 1)
      BY <2>2
    <3>2. g[j - 1] = h[j - 1]
      BY <3>1
    <3>3. CASE j <= k
      <4>1. g[j] = h[j] /\ j \in 1..k
        BY <2>2, <3>1, <3>3
      <4> QED
        BY <2>2, <3>2, <4>1
    <3>4. CASE ~ (j <= k)
      <4>1. g[j] = h[k] * m /\ j - 1 = k
        BY <2>2, <3>1, <3>4
      <4> QED
        BY <3>2, <4>1
    <3> QED
      BY <3>3, <3>4
  <2> HIDE DEF g
  <2>7. Powers(m, k + 1, g)
    BY <2>4, <2>5, <2>6 DEF Powers
  <2> QED
    BY <2>2, <2>7
<1>3. G = Nat
  <2>1. G \in SUBSET Nat
    OBVIOUS
  <2> HIDE DEF G
  <2> QED
    BY <1>1, <1>2, <2>1, AllNumbers
<1> QED
  BY <1>3

LEMMA PowersAgree ==
    ASSUME NEW m, NEW n \in Nat, NEW g, NEW h, Powers(m, n, g), Powers(m, n + 1, h)
    PROVE  g[n] = h[n]
<1> DEFINE G == {k \in Nat : k <= n => g[k] = h[k]}
<1>1. 0 \in G
  BY DEF Powers
<1>2. ASSUME NEW k \in G PROVE k + 1 \in G
  <2> SUFFICES ASSUME k + 1 <= n PROVE g[k + 1] = h[k + 1]
    OBVIOUS
  <2>1. k + 1 \in 1..n /\ k + 1 \in 1..(n + 1) /\ (k + 1) - 1 = k /\ g[k] = h[k]
    OBVIOUS
  <2>2. g[k + 1] = g[k] * m /\ h[k + 1] = h[k] * m
    BY <2>1 DEF Powers
  <2> QED
    BY <2>1, <2>2
<1>3. G = Nat
  <2>1. G \in SUBSET Nat
    OBVIOUS
  <2> HIDE DEF G
  <2> QED
    BY <1>1, <1>2, <2>1, AllNumbers
<1>4. n \in G /\ n <= n
  BY <1>3
<1> QED
  BY <1>4

\* Power is the power.
LEMMA PowerIs ==
    ASSUME NEW m \in Nat
    PROVE  /\ Power(m, 0) = 1
           /\ \A n \in Nat : Power(m, n) \in Nat /\ Power(m, n + 1) = Power(m, n) * m
<1> DEFINE IsPower(p) == p = [k \in Nat |-> IF k = 0 THEN 1 ELSE p[k - 1] * m]
           p == CHOOSE q : IsPower(q)
           hs == [n \in Nat |-> CHOOSE h : Powers(m, n, h)]
           q == [n \in Nat |-> hs[n][n]]
<1>1. \A n \in Nat : Powers(m, n, hs[n])
  BY PowersExist
<1> HIDE DEF hs
<1>2. \A n \in Nat : q[n] \in Nat
  BY <1>1 DEF Powers
<1>3. q[0] = 1
  BY <1>1 DEF Powers
<1>4. \A n \in Nat : q[n + 1] = q[n] * m
  <2> SUFFICES ASSUME NEW n \in Nat PROVE q[n + 1] = q[n] * m
    OBVIOUS
  <2>1. n + 1 \in Nat /\ n + 1 \in 1..(n + 1) /\ (n + 1) - 1 = n
    OBVIOUS
  <2>2. hs[n + 1][n + 1] = hs[n + 1][n] * m
    BY <1>1, <2>1 DEF Powers
  <2>3. hs[n][n] = hs[n + 1][n]
    BY <1>1, <2>1, PowersAgree
  <2> QED
    BY <2>1, <2>2, <2>3
<1>5. IsPower(q)
  <2>1. \A k \in Nat : q[k] = IF k = 0 THEN 1 ELSE q[k - 1] * m
    <3> SUFFICES ASSUME NEW k \in Nat, k # 0 PROVE q[k] = q[k - 1] * m
      BY <1>3
    <3> DEFINE j == k - 1
    <3>1. j \in Nat /\ k = j + 1
      OBVIOUS
    <3> HIDE DEF j, q
    <3>2. q[j + 1] = q[j] * m
      BY <1>4, <3>1
    <3> QED
      BY <3>1, <3>2 DEF j
  <2> QED
    BY <2>1
<1> HIDE DEF q
<1>6. IsPower(p)
  BY <1>5
<1> HIDE DEF p
<1>7. p[0] = 1 /\ \A n \in Nat : p[n + 1] = p[n] * m
  <2>1. \A k \in Nat : p[k] = IF k = 0 THEN 1 ELSE p[k - 1] * m
    BY <1>6
  <2> HIDE DEF IsPower
  <2>2. ASSUME NEW n \in Nat PROVE p[n + 1] = p[n] * m
    <3>1. n + 1 \in Nat /\ n + 1 # 0 /\ (n + 1) - 1 = n
      OBVIOUS
    <3> QED
      BY <2>1, <3>1
  <2> QED
    BY <2>1, <2>2
<1> HIDE DEF IsPower
<1> DEFINE G == {n \in Nat : p[n] \in Nat}
<1>8. G = Nat
  <2>1. 0 \in G
    BY <1>7
  <2>2. ASSUME NEW n \in G PROVE n + 1 \in G
    BY <1>7
  <2>3. G \in SUBSET Nat
    OBVIOUS
  <2> HIDE DEF G
  <2> QED
    BY <2>1, <2>2, <2>3, AllNumbers
<1>9. \A n : Power(m, n) = p[n]
  BY DEF Power, p, IsPower
<1>10. \A n \in Nat : p[n] \in Nat
  BY <1>8
<1> QED
  BY <1>7, <1>9, <1>10

\* Of a number that is not zero, a later power is no smaller.
LEMMA PowerGrows ==
    ASSUME NEW m \in Nat \ {0}, NEW a \in Nat, NEW d \in Nat
    PROVE  Power(m, a) <= Power(m, a + d)
<1> DEFINE G == {k \in Nat : Power(m, a) <= Power(m, a + k)}
<1>1. \A n \in Nat : Power(m, n) \in Nat /\ Power(m, n + 1) = Power(m, n) * m
  BY PowerIs
<1>2. \A x \in Nat : x <= x * m
  OBVIOUS
<1>3. 0 \in G
  BY <1>1
<1>4. ASSUME NEW k \in G PROVE k + 1 \in G
  <2>1. /\ k \in Nat /\ a + k \in Nat /\ a + (k + 1) = (a + k) + 1
        /\ Power(m, a) <= Power(m, a + k)
    OBVIOUS
  <2> DEFINE x == Power(m, a + k)
             y == Power(m, a)
  <2>2. x \in Nat /\ y \in Nat /\ Power(m, a + (k + 1)) = x * m /\ x * m \in Nat
    BY <1>1, <2>1
  <2>3. x <= x * m
    BY <1>2, <2>2
  <2> HIDE DEF x
  <2>4. y <= x * m
    BY <2>1, <2>2, <2>3 DEF x
  <2> QED
    BY <2>1, <2>2, <2>4
<1>5. G = Nat
  <2>1. G \in SUBSET Nat
    OBVIOUS
  <2> HIDE DEF G
  <2> QED
    BY <1>3, <1>4, <2>1, AllNumbers
<1> QED
  BY <1>5

Capped(policy, n) ==
    LET grown == Uncapped(policy, n)
    IN  IF policy.max > 0 /\ grown > policy.max THEN policy.max ELSE grown

\* The delay before the jitter, and the growth it comes from, never shrink.
LEMMA CapGrows ==
    ASSUME NEW policy \in Policies, NEW a \in 1..MaxAttempt, NEW b \in a..MaxAttempt
    PROVE  /\ Growth(policy, a) \in Nat /\ Growth(policy, b) \in Nat
           /\ Uncapped(policy, a) \in Nat /\ Uncapped(policy, b) \in Nat
           /\ Capped(policy, a) \in Nat /\ Capped(policy, b) \in Nat
           /\ Growth(policy, a) <= Growth(policy, b)
           /\ Uncapped(policy, a) <= Uncapped(policy, b)
           /\ Capped(policy, a) <= Capped(policy, b)
<1> DEFINE m == Max({policy.multiplier, 1})
           p == Growth(policy, a)
           q == Growth(policy, b)
           g == Uncapped(policy, a)
           h == Uncapped(policy, b)
<1>1. /\ policy.initial \in Nat /\ policy.max \in Int /\ policy.multiplier \in Int
      /\ MaxAttempt \in Nat
  BY SettingsAssumption
<1>2. m \in Nat \ {0}
  <2>1. m = IF policy.multiplier >= 1 THEN policy.multiplier ELSE 1
    BY <1>1 DEF Max
  <2> QED
    BY <1>1, <2>1
<1>3. p = Power(m, a - 1) /\ q = Power(m, b - 1)
  BY DEF Growth
<1> HIDE DEF m, p, q
<1>4. a - 1 \in Nat /\ b - a \in Nat /\ (a - 1) + (b - a) = b - 1 /\ b - 1 \in Nat
  BY <1>1
<1>5. p \in Nat /\ q \in Nat
  BY <1>2, <1>3, <1>4, PowerIs
<1>6. p <= q
  <2>1. Power(m, a - 1) <= Power(m, (a - 1) + (b - a))
    BY <1>2, <1>4, PowerGrows
  <2> QED
    BY <1>3, <1>4, <2>1
<1>7. g = policy.initial * p /\ h = policy.initial * q
  BY DEF Uncapped, p, q
<1> HIDE DEF g, h
<1>8. \A i, u, v \in Nat : u <= v => i * u <= i * v /\ i * u \in Nat
  OBVIOUS
<1>9. g \in Nat /\ h \in Nat /\ g <= h
  BY <1>1, <1>5, <1>6, <1>7, <1>8
<1>10. /\ Capped(policy, a) = IF policy.max > 0 /\ g > policy.max THEN policy.max ELSE g
       /\ Capped(policy, b) = IF policy.max > 0 /\ h > policy.max THEN policy.max ELSE h
  BY DEF Capped, g, h
<1>11. /\ Capped(policy, a) \in Nat /\ Capped(policy, b) \in Nat
       /\ Capped(policy, a) <= Capped(policy, b)
  BY <1>1, <1>9, <1>10
<1> QED
  BY <1>5, <1>6, <1>9, <1>11 DEF p, q, g, h

\* What backoff answers: the jitter itself when a Duration holds the delay.
LEMMA DelayIs ==
    ASSUME NEW policy \in Policies, NEW n \in 1..MaxAttempt, NEW x \in backoff(policy, n)
    PROVE  /\ policy.max > 0 => Capped(policy, n) <= policy.max /\ x <= policy.max
           /\ Holds(policy, n) => x \in (Capped(policy, n) \div 2)..Capped(policy, n)
<1> DEFINE c == Capped(policy, n)
           u == Uncapped(policy, n)
<1>1. /\ policy.initial \in Nat /\ policy.max \in Int /\ policy.max <= MaxDuration
      /\ MaxDuration \in Nat /\ MaxFloat \in Nat /\ MaxAttempt \in Nat
  BY SettingsAssumption, LimitsAssumption
<1>2. c \in Nat /\ u \in Nat /\ Growth(policy, n) \in Nat
  <2>1. n \in n..MaxAttempt
    BY <1>1
  <2> QED
    BY <2>1, CapGrows
<1>3. c = IF policy.max > 0 /\ u > policy.max THEN policy.max ELSE u
  BY DEF Capped
<1>4. u = policy.initial * Growth(policy, n)
  BY DEF Uncapped
<1>5. IF NoNumber(policy, n) THEN x \in {Least, 0}
      ELSE \E j \in (c \div 2)..c : x \in Duration(j)
  BY DEF backoff, Capped
<1> HIDE DEF c, u
<1>6. policy.max > 0 => c <= policy.max
  BY <1>1, <1>2, <1>3
<1>7. CASE NoNumber(policy, n)
  <2>1. ~ Holds(policy, n)
    BY <1>1, <1>2, <1>7 DEF NoNumber, Holds
  <2>2. x <= 0
    BY <1>1, <1>5, <1>7 DEF Least
  <2>3. x \in Int
    BY <1>1, <1>5, <1>7 DEF Least
  <2> QED
    BY <1>1, <1>6, <2>1, <2>2, <2>3 DEF c
<1>8. CASE ~ NoNumber(policy, n)
  <2>1. PICK j \in (c \div 2)..c : x \in Duration(j)
    BY <1>5, <1>8
  <2>2. j \in Int /\ j <= c
    BY <1>2, <2>1
  <2>3. c <= MaxDuration => x = j
    BY <1>1, <1>2, <2>1, <2>2 DEF Duration
  <2>4. policy.max > 0 => c <= MaxDuration
    BY <1>1, <1>2, <1>6
  <2>5. Holds(policy, n) => c <= MaxDuration
    <3>1. CASE policy.initial = 0
      <4>1. u = 0
        BY <1>2, <1>4, <3>1
      <4> QED
        BY <1>1, <1>3, <4>1
    <3>2. CASE policy.initial # 0
      <4>1. Holds(policy, n) => policy.max > 0 \/ u <= MaxDuration
        BY <3>2 DEF Holds, u
      <4> QED
        BY <1>1, <1>2, <1>3, <2>4, <4>1
    <3> QED
      BY <3>1, <3>2
  <2> QED
    BY <1>1, <1>2, <1>6, <2>1, <2>2, <2>3, <2>4, <2>5 DEF c
<1> QED
  BY <1>7, <1>8

\* No later attempt whose delay a Duration holds waits less than half of an
\* earlier one.
LEMMA BacksOff ==
    ASSUME NEW policy \in Policies, NEW a \in 1..MaxAttempt, NEW b \in a..MaxAttempt,
           NEW x \in backoff(policy, a), NEW y \in backoff(policy, b), Holds(policy, b)
    PROVE  2 * y + 1 >= x
<1> DEFINE c == Capped(policy, a)
           d == Capped(policy, b)
<1>1. MaxAttempt \in Nat /\ MaxFloat \in Nat /\ MaxDuration \in Nat
  BY SettingsAssumption, LimitsAssumption
<1>2. b \in 1..MaxAttempt
  BY <1>1
<1>3. Holds(policy, a)
  BY <1>1, CapGrows DEF Holds
<1>4. c \in Nat /\ d \in Nat /\ c <= d
  BY CapGrows
<1>5. x \in (c \div 2)..c /\ y \in (d \div 2)..d
  BY <1>2, <1>3, DelayIs
<1> HIDE DEF c, d
<1> QED
  BY <1>4, <1>5

-----------------------------------------------------------------------------
(* The options of Schedule.                                                 *)

OptionsOf(at, after, annotations) ==
    [startAt |-> at, startAfter |-> after, annotations |-> annotations]

LEMMA OptionsBut ==
    ASSUME NEW so, NEW at, NEW after, NEW a, so = OptionsOf(at, after, a)
    PROVE  /\ so.startAt = at /\ so.startAfter = after /\ so.annotations = a
           /\ \A x : [so EXCEPT !.startAt = x] = OptionsOf(x, after, a)
           /\ \A y : [so EXCEPT !.startAfter = y] = OptionsOf(at, y, a)
           /\ \A b : [so EXCEPT !.annotations = b] = OptionsOf(at, after, b)
  BY DEF OptionsOf

IsStart(o) == o.opt # "WithAnnotations"

IsOption(o) ==
    /\ o.opt \in {"StartAt", "StartAfter", "WithAnnotations"}
    /\ o.time \in Int
    /\ o.opt = "StartAt" => o.time \in Nat
    /\ IsStart(o) => o.annotations = <<>>

\* A start option sets both times, the others give annotations.
LEMMA ScheduleOptionDoes ==
    ASSUME NEW at, NEW after, NEW a, NEW o, IsOption(o)
    PROVE  ApplyScheduleOption(OptionsOf(at, after, a), o) =
             IF IsStart(o)
               THEN OptionsOf(IF o.opt = "StartAt" THEN o.time ELSE 0,
                              IF o.opt = "StartAt" THEN 0 ELSE o.time, a)
               ELSE OptionsOf(at, after, Merge(a, o.annotations))
<1>1. PICK so : so = OptionsOf(at, after, a)
  OBVIOUS
<1>2. PICK t : t = o.time
  OBVIOUS
<1>3. PICK b : b = Merge(a, o.annotations)
  OBVIOUS
<1>4. /\ [so EXCEPT !.startAt = t, !.startAfter = 0] = OptionsOf(t, 0, a)
      /\ [so EXCEPT !.startAt = 0, !.startAfter = t] = OptionsOf(0, t, a)
      /\ [so EXCEPT !.annotations = b] = OptionsOf(at, after, b)
      /\ so.annotations = a
  <2>1. [so EXCEPT !.startAt = t, !.startAfter = 0] = OptionsOf(t, 0, a)
    <3>1. PICK q : q = [so EXCEPT !.startAt = t]
      OBVIOUS
    <3>2. q = OptionsOf(t, after, a)
      BY <1>1, <3>1, OptionsBut
    <3>3. [q EXCEPT !.startAfter = 0] = OptionsOf(t, 0, a)
      BY <3>2, OptionsBut
    <3>4. [so EXCEPT !.startAt = t, !.startAfter = 0] = [q EXCEPT !.startAfter = 0]
      BY <3>1
    <3> QED
      BY <3>3, <3>4
  <2>2. [so EXCEPT !.startAt = 0, !.startAfter = t] = OptionsOf(0, t, a)
    <3>1. PICK q : q = [so EXCEPT !.startAt = 0]
      OBVIOUS
    <3>2. q = OptionsOf(0, after, a)
      BY <1>1, <3>1, OptionsBut
    <3>3. [q EXCEPT !.startAfter = t] = OptionsOf(0, t, a)
      BY <3>2, OptionsBut
    <3>4. [so EXCEPT !.startAt = 0, !.startAfter = t] = [q EXCEPT !.startAfter = t]
      BY <3>1
    <3> QED
      BY <3>3, <3>4
  <2>3. [so EXCEPT !.annotations = b] = OptionsOf(at, after, b)
    BY <1>1, OptionsBut
  <2>4. so.annotations = a
    BY <1>1, OptionsBut
  <2> QED
    BY <2>1, <2>2, <2>3, <2>4, Zenon
<1>5. Merge(so.annotations, o.annotations) = b
  BY <1>3, <1>4
<1>6. ApplyScheduleOption(so, o) =
        CASE o.opt = "StartAt" -> OptionsOf(t, 0, a)
          [] o.opt = "StartAfter" -> OptionsOf(0, t, a)
          [] o.opt = "WithAnnotations" -> OptionsOf(at, after, b)
  <2>1. ApplyScheduleOption(so, o) =
          CASE o.opt = "StartAt" -> [so EXCEPT !.startAt = o.time, !.startAfter = 0]
            [] o.opt = "StartAfter" -> [so EXCEPT !.startAt = 0, !.startAfter = o.time]
            [] o.opt = "WithAnnotations" ->
                 [so EXCEPT !.annotations = Merge(so.annotations, o.annotations)]
    BY DEF ApplyScheduleOption
  <2> QED
    BY <1>2, <1>4, <1>5, <2>1, Zenon
<1> DEFINE u == OptionsOf(t, 0, a)
           v == OptionsOf(0, t, a)
           w == OptionsOf(at, after, b)
<1> HIDE DEF u, v, w
<1>7. ApplyScheduleOption(so, o) = CASE o.opt = "StartAt" -> u
                                     [] o.opt = "StartAfter" -> v
                                     [] o.opt = "WithAnnotations" -> w
  BY <1>6 DEF u, v, w
<1>8. o.opt \in {"StartAt", "StartAfter", "WithAnnotations"}
  BY DEF IsOption
<1>9. ApplyScheduleOption(so, o) = IF IsStart(o) THEN IF o.opt = "StartAt" THEN u ELSE v ELSE w
  BY <1>7, <1>8 DEF IsStart
<1> QED
  BY <1>1, <1>2, <1>3, <1>9 DEF u, v, w

\* The options, one after another.
LEMMA ScheduleSteps ==
    ASSUME NEW X, \A o \in X : IsOption(o), NEW opts \in Seq(X)
    PROVE  \E e : /\ e[0] = OptionsOf(0, 0, <<>>)
                  /\ FoldLeft(ApplyScheduleOption, NoOptions, opts) = e[Len(opts)]
                  /\ \A k \in 1..Len(opts) : e[k] = ApplyScheduleOption(e[k - 1], opts[k])
<1> DEFINE N == Len(opts)
           IsFold(h) == h = [s \in SUBSET DOMAIN opts |->
                               IF s = {} THEN NoOptions
                               ELSE ApplyScheduleOption(h[s \ {Max(s)}], opts[Max(s)])]
           h == CHOOSE g : IsFold(g)
           e == [k \in 0..N |-> h[1..k]]
<1>1. N \in Nat /\ DOMAIN opts = 1..N /\ \A i \in 1..N : opts[i] \in X
  OBVIOUS
<1>2. FoldLeft(ApplyScheduleOption, NoOptions, opts) = h[DOMAIN opts]
  BY DEF FoldLeft, MapThenFoldSet
<1>3. \E g : IsFold(g)
  <2> DEFINE K == UNION {DOMAIN o.annotations : o \in X}
             V == {p[1].annotations[p[2]] : p \in X \X K}
             T == {0} \cup {o.time : o \in X}
             Maps == UNION {[D -> V] : D \in SUBSET K}
             A == {OptionsOf(p[1], p[2], p[3]) : p \in T \X T \X Maps}
             step == [so \in A |-> [o \in X |-> ApplyScheduleOption(so, o)]]
  <2>1. NoOptions \in A
    <3>1. <<>> \in Maps
      <4> HIDE DEF V, K
      <4> DEFINE none == [k \in {} |-> 0]
      <4>1. none \in [{} -> V] /\ {} \in SUBSET K
        OBVIOUS
      <4>2. <<>> = none
        OBVIOUS
      <4> QED
        BY <4>1, <4>2
    <3>2. NoOptions = OptionsOf(0, 0, <<>>)
      BY DEF NoOptions, OptionsOf
    <3>3. 0 \in T
      OBVIOUS
    <3>4. PICK no : no = <<>>
      OBVIOUS
    <3> HIDE DEF Maps, T
    <3>5. <<0, 0, no>> \in T \X T \X Maps
      BY <3>1, <3>3, <3>4
    <3>6. OptionsOf(0, 0, no) \in A
      BY <3>5
    <3> QED
      BY <3>2, <3>4, <3>6
  <2>2. \A a \in Maps : \A o \in X : Merge(a, o.annotations) \in Maps
    <3> SUFFICES ASSUME NEW a \in Maps, NEW o \in X PROVE Merge(a, o.annotations) \in Maps
      OBVIOUS
    <3> DEFINE b == o.annotations
    <3>1. PICK D \in SUBSET K : a \in [D -> V]
      OBVIOUS
    <3>2. DOMAIN b \in SUBSET K
      OBVIOUS
    <3>3. \A k \in DOMAIN b : b[k] \in V
      <4> SUFFICES ASSUME NEW k \in DOMAIN b PROVE b[k] \in V
        OBVIOUS
      <4>1. <<o, k>> \in X \X K
        BY <3>2
      <4> HIDE DEF K
      <4> QED
        BY <4>1
    <3> HIDE DEF K, V, b
    <3>4. D \cup DOMAIN b \in SUBSET K
      BY <3>1, <3>2
    <3>5. Merge(a, b) \in [D \cup DOMAIN b -> V]
      BY <3>1, <3>3 DEF Merge
    <3>6. Merge(a, b) \in Maps
      BY <3>4, <3>5
    <3> QED
      BY <3>6 DEF b
  <2>3. ASSUME NEW so \in A, NEW o \in X PROVE ApplyScheduleOption(so, o) \in A
    <3>1. PICK at \in T, after \in T, a \in Maps : so = OptionsOf(at, after, a)
      OBVIOUS
    <3>2. 0 \in T /\ o.time \in T
      OBVIOUS
    <3>3. Merge(a, o.annotations) \in Maps
      BY <2>2
    <3> HIDE DEF T, Maps
    <3>4. \A x \in T, y \in T, z \in Maps : OptionsOf(x, y, z) \in A
      <4> SUFFICES ASSUME NEW x \in T, NEW y \in T, NEW z \in Maps PROVE OptionsOf(x, y, z) \in A
        OBVIOUS
      <4>1. <<x, y, z>> \in T \X T \X Maps
        OBVIOUS
      <4> QED
        BY <4>1
    <3> HIDE DEF A
    <3>5. CASE IsStart(o)
      <4>1. PICK x \in T, y \in T : ApplyScheduleOption(so, o) = OptionsOf(x, y, a)
        <5>1. (IF o.opt = "StartAt" THEN o.time ELSE 0) \in T
          BY <3>2
        <5>2. (IF o.opt = "StartAt" THEN 0 ELSE o.time) \in T
          BY <3>2
        <5> QED
          BY <3>1, <3>5, <5>1, <5>2, ScheduleOptionDoes
      <4> QED
        BY <3>4, <4>1
    <3>6. CASE ~ IsStart(o)
      <4>1. ApplyScheduleOption(so, o) = OptionsOf(at, after, Merge(a, o.annotations))
        BY <3>1, <3>6, ScheduleOptionDoes
      <4> QED
        BY <3>3, <3>4, <4>1
    <3> QED
      BY <3>5, <3>6
  <2> HIDE DEF A
  <2>4. /\ step \in [A -> [X -> A]]
        /\ \A so \in A : \A o \in X : step[so][o] = ApplyScheduleOption(so, o)
    BY <2>3
  <2> HIDE DEF step
  <2>5. PICK g : Folds(A, X, step, NoOptions, opts, N, g)
    BY <1>1, <2>1, <2>4, FoldsExist
  <2>6. \A s \in SUBSET (1..N) : s # {} => s \ {Max(s)} \in SUBSET (1..N) /\ Max(s) \in 1..N
    BY <1>1, LastIn
  <2>7. \A s \in SUBSET (1..N) :
          g[s] = IF s = {} THEN NoOptions
                 ELSE ApplyScheduleOption(g[s \ {Max(s)}], opts[Max(s)])
    BY <1>1, <2>4, <2>5, <2>6 DEF Folds
  <2>8. g = [s \in SUBSET (1..N) |->
               IF s = {} THEN NoOptions
               ELSE ApplyScheduleOption(g[s \ {Max(s)}], opts[Max(s)])]
    BY <2>5, <2>7 DEF Folds
  <2>9. IsFold(g)
    BY <1>1, <2>8
  <2> QED
    BY <2>9
<1>4. IsFold(h)
  BY <1>3
<1>5. \A s \in SUBSET (1..N) :
        h[s] = IF s = {} THEN NoOptions ELSE ApplyScheduleOption(h[s \ {Max(s)}], opts[Max(s)])
  <2> HIDE DEF h
  <2> QED
    BY <1>1, <1>4
<1> HIDE DEF h, IsFold
<1>6. e[0] = OptionsOf(0, 0, <<>>)
  <2>1. 1..0 = {} /\ 0 \in 0..N
    BY <1>1
  <2>2. e[0] = NoOptions
    BY <1>5, <2>1
  <2> QED
    BY <2>2 DEF NoOptions, OptionsOf
<1>7. FoldLeft(ApplyScheduleOption, NoOptions, opts) = e[N]
  BY <1>1, <1>2
<1>8. ASSUME NEW k \in 1..N PROVE e[k] = ApplyScheduleOption(e[k - 1], opts[k])
  <2>1. k \in 0..N /\ k - 1 \in 0..N
    BY <1>1
  <2>2. e[k] = h[1..k] /\ e[k - 1] = h[1..(k - 1)]
    BY <2>1
  <2> HIDE DEF e, N
  <2>3. /\ 1..k \in SUBSET (1..N) /\ 1..k # {} /\ Max(1..k) = k
        /\ (1..k) \ {k} = 1..(k - 1)
    BY <1>1, PrefixPositions
  <2>4. h[1..k] = ApplyScheduleOption(h[1..(k - 1)], opts[k])
    BY <1>5, <2>3
  <2> QED
    BY <2>2, <2>4
<1> HIDE DEF e
<1> QED
  BY <1>6, <1>7, <1>8, Zenon

\* Of k options: the time that the last start option sets, and who gives a key.
Starts(opts, k) == {i \in 1..k : IsStart(opts[i])}

TimeAs(opt, opts, k) ==
    LET last == opts[Max(Starts(opts, k))]
    IN  IF Starts(opts, k) # {} /\ last.opt = opt THEN last.time ELSE 0

Givers(opts, k, key) == {i \in 1..k : key \in DOMAIN opts[i].annotations}

KeysOf(opts, k) == UNION {DOMAIN opts[i].annotations : i \in 1..k}

LEMMA OneMoreStart ==
    ASSUME NEW opts, NEW k \in Nat, NEW opt
    PROVE  TimeAs(opt, opts, k + 1) =
             IF ~ IsStart(opts[k + 1]) THEN TimeAs(opt, opts, k)
             ELSE IF opts[k + 1].opt = opt THEN opts[k + 1].time ELSE 0
<1>1. 1..(k + 1) = (1..k) \cup {k + 1} /\ k + 1 \in Nat
  OBVIOUS
<1>2. CASE IsStart(opts[k + 1])
  <2>1. k + 1 \in Starts(opts, k + 1) /\ Starts(opts, k + 1) \in SUBSET (1..(k + 1))
    BY <1>1, <1>2 DEF Starts
  <2>2. Max(Starts(opts, k + 1)) = k + 1
    BY <1>1, <2>1, MaxIsLast
  <2> QED
    BY <1>2, <2>1, <2>2 DEF TimeAs
<1>3. CASE ~ IsStart(opts[k + 1])
  <2>1. Starts(opts, k + 1) = Starts(opts, k)
    BY <1>1, <1>3 DEF Starts
  <2> QED
    BY <1>3, <2>1 DEF TimeAs
<1> QED
  BY <1>2, <1>3

LEMMA OneMoreGiver ==
    ASSUME NEW opts, NEW k \in Nat
    PROVE  LET new == DOMAIN opts[k + 1].annotations
           IN  /\ KeysOf(opts, k + 1) = KeysOf(opts, k) \cup new
               /\ \A key \in new : Max(Givers(opts, k + 1, key)) = k + 1
               /\ \A key : key \notin new => Givers(opts, k + 1, key) = Givers(opts, k, key)
<1> DEFINE new == DOMAIN opts[k + 1].annotations
<1>1. 1..(k + 1) = (1..k) \cup {k + 1} /\ k + 1 \in Nat
  OBVIOUS
<1>2. KeysOf(opts, k + 1) = KeysOf(opts, k) \cup new
  BY <1>1 DEF KeysOf
<1>3. ASSUME NEW key \in new PROVE Max(Givers(opts, k + 1, key)) = k + 1
  <2>1. /\ k + 1 \in Givers(opts, k + 1, key)
        /\ Givers(opts, k + 1, key) \in SUBSET (1..(k + 1))
    BY <1>1 DEF Givers
  <2> QED
    BY <1>1, <2>1, MaxIsLast
<1>4. ASSUME NEW key, key \notin new PROVE Givers(opts, k + 1, key) = Givers(opts, k, key)
  BY <1>1, <1>4 DEF Givers
<1> QED
  BY <1>2, <1>3, <1>4

\* What k options leave.
LeftBy(so, opts, k) ==
    \E a : /\ so = OptionsOf(TimeAs("StartAt", opts, k), TimeAs("StartAfter", opts, k), a)
           /\ DOMAIN a = KeysOf(opts, k)
           /\ \A key \in DOMAIN a : a[key] = opts[Max(Givers(opts, k, key))].annotations[key]

LEMMA OneMoreLeft ==
    ASSUME NEW opts, NEW k \in Nat, IsOption(opts[k + 1]), NEW so, LeftBy(so, opts, k)
    PROVE  LeftBy(ApplyScheduleOption(so, opts[k + 1]), opts, k + 1)
<1> DEFINE m == k + 1
           at(j) == TimeAs("StartAt", opts, j)
           after(j) == TimeAs("StartAfter", opts, j)
           Valued(a, j) == /\ DOMAIN a = KeysOf(opts, j)
                          /\ \A key \in DOMAIN a :
                                a[key] = opts[Max(Givers(opts, j, key))].annotations[key]
<1>1. PICK o : o = opts[m]
  OBVIOUS
<1>2. PICK a : so = OptionsOf(at(k), after(k), a) /\ Valued(a, k)
  BY DEF LeftBy
<1>3. \A opt : TimeAs(opt, opts, m) = IF ~ IsStart(o) THEN TimeAs(opt, opts, k)
                                      ELSE IF o.opt = opt THEN o.time ELSE 0
  BY <1>1, OneMoreStart
<1>4. /\ KeysOf(opts, m) = KeysOf(opts, k) \cup DOMAIN o.annotations
      /\ \A key \in DOMAIN o.annotations : Max(Givers(opts, m, key)) = m
      /\ \A key : key \notin DOMAIN o.annotations =>
            Givers(opts, m, key) = Givers(opts, k, key)
  BY <1>1, OneMoreGiver
<1>5. IsOption(o)
  BY <1>1
<1> HIDE DEF m
<1>6. CASE IsStart(o)
  <2>1. o.opt \in {"StartAt", "StartAfter"} /\ DOMAIN o.annotations = {}
    BY <1>5, <1>6, NoMiddleware DEF IsOption, IsStart
  <2>2. at(m) = (IF o.opt = "StartAt" THEN o.time ELSE 0)
    BY <1>3, <1>6
  <2>3. after(m) = (IF o.opt = "StartAt" THEN 0 ELSE o.time)
    BY <1>3, <1>6, <2>1
  <2> HIDE DEF at, after
  <2>4. ApplyScheduleOption(so, o) = OptionsOf(at(m), after(m), a)
    BY <1>2, <1>5, <1>6, <2>2, <2>3, ScheduleOptionDoes
  <2>5. Valued(a, m)
    BY <1>2, <1>4, <2>1
  <2> QED
    BY <1>1, <2>4, <2>5 DEF LeftBy, at, after, m
<1>7. CASE ~ IsStart(o)
  <2>1. at(m) = at(k) /\ after(m) = after(k)
    BY <1>3, <1>7
  <2> HIDE DEF at, after
  <2>2. PICK b : b = Merge(a, o.annotations)
    OBVIOUS
  <2>3. ApplyScheduleOption(so, o) = OptionsOf(at(m), after(m), b)
    BY <1>2, <1>5, <1>7, <2>1, <2>2, ScheduleOptionDoes
  <2>4. Valued(b, m)
    <3>1. /\ DOMAIN b = DOMAIN a \cup DOMAIN o.annotations
          /\ \A key \in DOMAIN b :
                b[key] = IF key \in DOMAIN o.annotations THEN o.annotations[key] ELSE a[key]
      <4>1. PICK c : c = o.annotations
        OBVIOUS
      <4>2. b = [key \in DOMAIN a \cup DOMAIN c |-> IF key \in DOMAIN c THEN c[key] ELSE a[key]]
        BY <2>2, <4>1 DEF Merge
      <4> QED
        BY <4>1, <4>2
    <3>2. ASSUME NEW key \in DOMAIN b
          PROVE  b[key] = opts[Max(Givers(opts, m, key))].annotations[key]
      <4>1. CASE key \in DOMAIN o.annotations
        BY <1>1, <1>4, <3>1, <4>1 DEF m
      <4>2. CASE key \notin DOMAIN o.annotations
        BY <1>2, <1>4, <3>1, <4>2
      <4> QED
        BY <4>1, <4>2
    <3> QED
      BY <1>2, <1>4, <3>1, <3>2
  <2> QED
    BY <1>1, <2>3, <2>4 DEF LeftBy, at, after, m
<1> QED
  BY <1>6, <1>7

\* Any list of options leaves the last start, and the last value of each key.
LEMMA ScheduledIs ==
    ASSUME NEW X, \A o \in X : IsOption(o), NEW opts \in Seq(X)
    PROVE  LeftBy(FoldLeft(ApplyScheduleOption, NoOptions, opts), opts, Len(opts))
<1> DEFINE N == Len(opts)
<1>1. PICK e : /\ e[0] = OptionsOf(0, 0, <<>>)
               /\ FoldLeft(ApplyScheduleOption, NoOptions, opts) = e[N]
               /\ \A k \in 1..N : e[k] = ApplyScheduleOption(e[k - 1], opts[k])
  BY ScheduleSteps
<1>2. N \in Nat /\ \A k \in 1..N : IsOption(opts[k])
  OBVIOUS
<1> HIDE DEF N
<1> DEFINE G == {k \in Nat : k <= N => LeftBy(e[k], opts, k)}
<1>3. 0 \in G
  <2>1. 1..0 = {}
    OBVIOUS
  <2>2. \A opt : TimeAs(opt, opts, 0) = 0
    BY <2>1 DEF TimeAs, Starts
  <2>3. DOMAIN <<>> = {} /\ KeysOf(opts, 0) = {}
    BY <2>1, NoMiddleware DEF KeysOf
  <2>4. LeftBy(e[0], opts, 0)
    BY <1>1, <2>2, <2>3 DEF LeftBy
  <2> QED
    BY <2>4
<1>4. ASSUME NEW k \in G PROVE k + 1 \in G
  <2> SUFFICES ASSUME k + 1 <= N PROVE LeftBy(e[k + 1], opts, k + 1)
    OBVIOUS
  <2>1. k \in Nat /\ k + 1 \in 1..N /\ (k + 1) - 1 = k /\ LeftBy(e[k], opts, k)
    BY <1>2
  <2>2. e[k + 1] = ApplyScheduleOption(e[k], opts[k + 1])
    BY <1>1, <2>1
  <2>3. LeftBy(ApplyScheduleOption(e[k], opts[k + 1]), opts, k + 1)
    BY <1>2, <2>1, OneMoreLeft
  <2> QED
    BY <2>2, <2>3
<1>5. G = Nat
  <2>1. G \in SUBSET Nat
    OBVIOUS
  <2> HIDE DEF G
  <2> QED
    BY <1>3, <1>4, <2>1, AllNumbers
<1>6. N \in G /\ N <= N
  BY <1>2, <1>5
<1> QED
  BY <1>1, <1>6 DEF N

\* Lists from their elements, and one list after another.
LEMMA ListOf ==
    ASSUME NEW X, NEW n \in Nat, NEW f \in [1..n -> X]
    PROVE  f \in Seq(X) /\ Len(f) = n
  OBVIOUS

LEMMA ElementsIn ==
    ASSUME NEW X, NEW s \in Seq(X), NEW n, n = Len(s)
    PROVE  n \in Nat /\ DOMAIN s = 1..n /\ \A i \in 1..n : s[i] \in X
  OBVIOUS

LEMMA Widened ==
    ASSUME NEW X, NEW W, X \subseteq W, NEW s \in Seq(X)
    PROVE  s \in Seq(W)
  OBVIOUS

LEMMA Joined ==
    ASSUME NEW X, NEW s \in Seq(X), NEW t \in Seq(X), NEW m, m = Len(s), NEW n, n = Len(t),
           NEW both, both = s \o t
    PROVE  /\ both \in Seq(X) /\ Len(both) = m + n /\ DOMAIN both = 1..(m + n)
           /\ \A i \in 1..m : both[i] = s[i]
           /\ \A i \in 1..n : both[m + i] = t[i]
           /\ \A i \in 1..(m + n) : i > m => i - m \in 1..n /\ both[i] = t[i - m]
  OBVIOUS

\* The call's options follow one for each annotator.
LEMMA FollowedBy ==
    ASSUME NEW s, NEW X, s.annotators \in Seq(X), NEW Y, s.opts \in Seq(Y),
           \A i \in DOMAIN s.opts : IsOption(s.opts[i])
    PROVE  LET m == Len(s.annotators)
               n == Len(s.opts)
               seeds == [i \in DOMAIN s.annotators |-> Annotate(s.annotators[i])]
               maps == s.annotators \o [i \in DOMAIN s.opts |-> s.opts[i].annotations]
               all == seeds \o s.opts
           IN  /\ m \in Nat /\ n \in Nat
               /\ DOMAIN s.opts = 1..n /\ DOMAIN maps = 1..(m + n)
               /\ Len(all) = m + n /\ all \in Seq({all[i] : i \in 1..(m + n)})
               /\ \A i \in 1..m : ~ IsStart(all[i])
               /\ \A i \in 1..n : all[m + i] = s.opts[i]
               /\ \A i \in 1..(m + n) : IsOption(all[i]) /\ all[i].annotations = maps[i]
<1> DEFINE m == Len(s.annotators)
           n == Len(s.opts)
           seeds == [i \in DOMAIN s.annotators |-> Annotate(s.annotators[i])]
           given == [i \in DOMAIN s.opts |-> s.opts[i].annotations]
           maps == s.annotators \o given
           all == seeds \o s.opts
           Z == {Annotate(a) : a \in X} \cup Y
           W == X \cup {o.annotations : o \in Y}
<1>1. PICK as \in Seq(X) : as = s.annotators
  OBVIOUS
<1>2. PICK os \in Seq(Y) : os = s.opts
  OBVIOUS
<1>3. /\ m \in Nat /\ n \in Nat /\ DOMAIN as = 1..m /\ DOMAIN os = 1..n
      /\ Len(as) = m /\ Len(os) = n
  BY <1>1, <1>2
<1> HIDE DEF m, n
<1>4. /\ seeds \in Seq(Z) /\ Len(seeds) = m
      /\ \A i \in 1..m : seeds[i] = Annotate(as[i])
  <2>1. \A i \in 1..m : as[i] \in X
    BY <1>3, ElementsIn
  <2>2. seeds \in [1..m -> Z]
    <3>1. \A i \in 1..m : Annotate(as[i]) \in Z
      BY <2>1
    <3> QED
      BY <1>1, <1>3, <3>1
  <2>3. \A i \in 1..m : seeds[i] = Annotate(as[i])
    BY <1>1, <1>3
  <2> HIDE DEF seeds, Z
  <2> QED
    BY <1>3, <2>2, <2>3, ListOf
<1>5. /\ given \in Seq(W) /\ Len(given) = n
      /\ \A i \in 1..n : given[i] = os[i].annotations
  <2>1. \A i \in 1..n : os[i] \in Y
    BY <1>3, ElementsIn
  <2>2. given \in [1..n -> W]
    BY <1>2, <1>3, <2>1
  <2>3. \A i \in 1..n : given[i] = os[i].annotations
    BY <1>2, <1>3
  <2> HIDE DEF given, W
  <2> QED
    BY <1>3, <2>2, <2>3, ListOf
<1>6. os \in Seq(Z) /\ as \in Seq(W)
  <2>1. X \subseteq W /\ Y \subseteq Z
    OBVIOUS
  <2> HIDE DEF W, Z
  <2> QED
    BY <2>1, Widened
<1> HIDE DEF seeds, given, Z, W
<1>7. /\ all \in Seq(Z) /\ Len(all) = m + n
      /\ \A i \in 1..m : all[i] = seeds[i]
      /\ \A i \in 1..n : all[m + i] = os[i]
      /\ \A i \in 1..(m + n) : i > m => i - m \in 1..n /\ all[i] = os[i - m]
  <2>1. PICK t \in Seq(Z) : t = seeds
    BY <1>4
  <2>2. t \in Seq(Z) /\ os \in Seq(Z) /\ m = Len(t) /\ n = Len(os) /\ all = t \o os
    BY <1>2, <1>3, <1>4, <1>6, <2>1
  <2> HIDE DEF all
  <2>3. /\ all \in Seq(Z) /\ Len(all) = m + n /\ DOMAIN all = 1..(m + n)
        /\ \A i \in 1..m : all[i] = t[i]
        /\ \A i \in 1..n : all[m + i] = os[i]
        /\ \A i \in 1..(m + n) : i > m => i - m \in 1..n /\ all[i] = os[i - m]
    BY <2>2, Joined, SMTT(60)
  <2> QED
    BY <2>1, <2>3
<1>8. /\ DOMAIN maps = 1..(m + n)
      /\ \A i \in 1..(m + n) : maps[i] = IF i <= m THEN as[i] ELSE given[i - m]
  <2>1. PICK t \in Seq(W) : t = given
    BY <1>5
  <2>0. PICK u \in Seq(W) : u = as
    BY <1>6
  <2>2. t \in Seq(W) /\ u \in Seq(W) /\ m = Len(u) /\ n = Len(t) /\ maps = u \o t
    BY <1>1, <1>3, <1>5, <2>0, <2>1
  <2> HIDE DEF maps
  <2>3. /\ maps \in Seq(W) /\ Len(maps) = m + n /\ DOMAIN maps = 1..(m + n)
        /\ \A i \in 1..m : maps[i] = u[i]
        /\ \A i \in 1..n : maps[m + i] = t[i]
        /\ \A i \in 1..(m + n) : i > m => i - m \in 1..n /\ maps[i] = t[i - m]
    BY <2>2, Joined, SMTT(60)
  <2>4. \A i \in 1..(m + n) : i <= m => i \in 1..m
    BY <1>3
  <2>5. \A i \in 1..(m + n) : ~ (i <= m) => i > m
    BY <1>3
  <2> QED
    BY <2>0, <2>1, <2>3, <2>4, <2>5
<1> HIDE DEF all, maps
<1>9. \A a : /\ IsOption(Annotate(a)) /\ ~ IsStart(Annotate(a))
             /\ Annotate(a).annotations = a
  BY DEF Annotate, IsOption, IsStart
<1>10. \A i \in 1..m : ~ IsStart(all[i])
  BY <1>4, <1>7, <1>9
<1>11. ASSUME NEW i \in 1..(m + n)
       PROVE  IsOption(all[i]) /\ all[i].annotations = maps[i]
  <2>1. CASE i <= m
    <3>1. i \in 1..m
      BY <1>3, <2>1
    <3>2. all[i] = Annotate(as[i]) /\ maps[i] = as[i]
      BY <1>4, <1>7, <1>8, <2>1, <3>1
    <3> QED
      BY <1>9, <3>2
  <2>2. CASE ~ (i <= m)
    <3>1. i > m
      BY <1>3, <2>2
    <3>2. i - m \in 1..n /\ all[i] = os[i - m] /\ maps[i] = given[i - m]
      BY <1>7, <1>8, <2>2, <3>1
    <3>3. IsOption(os[i - m]) /\ given[i - m] = os[i - m].annotations
      BY <1>2, <1>3, <1>5, <3>2
    <3> QED
      BY <3>2, <3>3
  <2> QED
    BY <2>1, <2>2
<1>12. all \in Seq({all[i] : i \in 1..(m + n)})
  <2> DEFINE k == m + n
             A == {all[i] : i \in 1..k}
  <2>1. k \in Nat /\ DOMAIN all = 1..k /\ all = [i \in DOMAIN all |-> all[i]]
    BY <1>3, <1>7
  <2>2. \A i \in 1..k : all[i] \in A
    OBVIOUS
  <2> HIDE DEF k, A
  <2>3. all \in [1..k -> A]
    BY <2>1, <2>2
  <2>4. all \in Seq(A)
    BY <2>1, <2>3, ListOf
  <2> QED
    BY <2>4 DEF k, A
<1>13. \A i \in 1..n : all[m + i] = s.opts[i]
  BY <1>2, <1>7
<1>14. DOMAIN s.opts = 1..n
  BY <1>2, <1>3
<1> QED
  BY <1>3, <1>7, <1>8, <1>10, <1>11, <1>12, <1>13, <1>14 DEF all, maps, seeds, given, m, n

\* Of the options of a call of Schedule the last start and annotations count.
LastStartWins(s, v) ==
    LET opts == s.opts
        starts == {i \in DOMAIN opts : opts[i].opt # "WithAnnotations"}
        last == opts[Max(starts)]
        maps == s.annotators \o [i \in DOMAIN opts |-> opts[i].annotations]
        givers(k) == {i \in DOMAIN maps : k \in DOMAIN maps[i]}
    IN  /\ v.nextAttemptAt =
              IF starts = {} \/ last.time <= 0 THEN 0
              ELSE IF last.opt = "StartAt" THEN last.time
              ELSE Now + last.time
        /\ DOMAIN v.annotations = UNION {DOMAIN maps[i] : i \in DOMAIN maps}
        /\ \A k \in DOMAIN v.annotations : v.annotations[k] = maps[Max(givers(k))][k]

LEMMA SchedulesAs ==
    ASSUME NEW s \in Schedules, NEW v, v = ScheduleRecord(s.annotators, s.opts, Now)
    PROVE  LastStartWins(s, v)
<1> DEFINE opts == s.opts
           starts == {i \in DOMAIN opts : opts[i].opt # "WithAnnotations"}
           last == opts[Max(starts)]
           maps == s.annotators \o [i \in DOMAIN opts |-> opts[i].annotations]
           givers(k) == {i \in DOMAIN maps : k \in DOMAIN maps[i]}
           m == Len(s.annotators)
           n == Len(opts)
           seeds == [i \in DOMAIN s.annotators |-> Annotate(s.annotators[i])]
           all == seeds \o opts
           so == FoldLeft(ApplyScheduleOption, NoOptions, all)
           Z == {all[i] : i \in 1..(m + n)}
<1>1. /\ s.annotators \in Seq({s.annotators[i] : i \in DOMAIN s.annotators})
      /\ opts \in Seq({opts[i] : i \in DOMAIN opts})
      /\ \A i \in DOMAIN opts : IsOption(opts[i])
  BY SchedulesAssumption DEF IsOption, IsStart
<1>2. v = [annotations |-> so.annotations,
           nextAttemptAt |-> IF so.startAt # 0 THEN so.startAt
                             ELSE IF so.startAfter > 0 THEN Now + so.startAfter
                             ELSE 0]
  BY DEF ScheduleRecord
<1> HIDE DEF opts
<1>3. /\ m \in Nat /\ n \in Nat /\ DOMAIN opts = 1..n /\ DOMAIN maps = 1..(m + n)
      /\ Len(all) = m + n /\ all \in Seq(Z)
      /\ \A i \in 1..m : ~ IsStart(all[i])
      /\ \A i \in 1..n : all[m + i] = opts[i]
      /\ \A i \in 1..(m + n) : IsOption(all[i]) /\ all[i].annotations = maps[i]
  BY <1>1, FollowedBy DEF opts
<1> HIDE DEF all, maps, m, n
<1>4. LeftBy(so, all, m + n)
  <2>1. \A o \in Z : IsOption(o)
    BY <1>3
  <2> HIDE DEF Z
  <2> QED
    BY <1>3, <2>1, ScheduledIs
<1> HIDE DEF so
<1>5. PICK a :
        /\ so = OptionsOf(TimeAs("StartAt", all, m + n), TimeAs("StartAfter", all, m + n), a)
        /\ DOMAIN a = KeysOf(all, m + n)
        /\ \A k \in DOMAIN a : a[k] = all[Max(Givers(all, m + n, k))].annotations[k]
  BY <1>4 DEF LeftBy
<1>6. /\ so.startAt = TimeAs("StartAt", all, m + n)
      /\ so.startAfter = TimeAs("StartAfter", all, m + n)
      /\ so.annotations = a
  BY <1>5, OptionsBut
<1>7. v.annotations = a
  BY <1>2, <1>6
<1>8. DOMAIN v.annotations = UNION {DOMAIN maps[i] : i \in DOMAIN maps}
  BY <1>3, <1>5, <1>7 DEF KeysOf
<1>9. ASSUME NEW k \in DOMAIN v.annotations
      PROVE  v.annotations[k] = maps[Max(givers(k))][k]
  <2>1. Givers(all, m + n, k) = givers(k)
    BY <1>3 DEF Givers
  <2>2. givers(k) # {} /\ givers(k) \in SUBSET (1..(m + n))
    BY <1>3, <1>8
  <2>3. Max(givers(k)) \in 1..(m + n)
    <3>1. m + n \in Nat
      BY <1>3
    <3> HIDE DEF givers
    <3> QED
      BY <2>2, <3>1, LastIn
  <2> HIDE DEF givers
  <2> QED
    BY <1>3, <1>5, <1>7, <2>1, <2>3
<1>10. Starts(all, m + n) = {m + i : i \in starts}
  <2>1. \A i \in 1..(m + n) : i <= m => i \in 1..m
    BY <1>3
  <2>2. \A i \in 1..(m + n) : ~ (i <= m) => i - m \in 1..n /\ m + (i - m) = i
    BY <1>3
  <2>3. \A i \in 1..n : m + i \in 1..(m + n)
    BY <1>3
  <2>4. starts = {i \in 1..n : IsStart(opts[i])}
    BY <1>3 DEF IsStart
  <2> HIDE DEF starts
  <2>5. \A i \in Starts(all, m + n) : i \in {m + j : j \in starts}
    BY <1>3, <2>1, <2>2, <2>4 DEF Starts
  <2>6. \A j \in starts : m + j \in Starts(all, m + n)
    BY <1>3, <2>3, <2>4 DEF Starts
  <2> QED
    BY <2>5, <2>6
<1>11. CASE starts = {}
  <2>1. Starts(all, m + n) = {}
    BY <1>10, <1>11
  <2>2. so.startAt = 0 /\ so.startAfter = 0
    BY <1>6, <2>1 DEF TimeAs
  <2>3. v.nextAttemptAt = 0
    BY <1>2, <2>2
  <2> QED
    BY <1>8, <1>9, <1>11, <2>3 DEF maps, opts, LastStartWins
<1>12. CASE starts # {}
  <2> DEFINE j == Max(starts)
  <2>1. j \in 1..n /\ j \in starts /\ \A i \in starts : i <= j
    <3>1. starts \in SUBSET (0..n)
      BY <1>3
    <3> HIDE DEF starts
    <3>2. j \in starts /\ \A i \in starts : i <= j
      BY <1>3, <1>12, <3>1, GreatestIs
    <3> QED
      BY <3>2, <1>3 DEF starts
  <2>2. starts \in SUBSET (1..n)
    BY <1>3
  <2> HIDE DEF j, starts
  <2>3. Max(Starts(all, m + n)) = m + j
    <3> DEFINE S == Starts(all, m + n)
    <3>1. m + j \in S /\ \A y \in S : y \in Int /\ y <= m + j
      BY <1>3, <1>10, <2>1, <2>2
    <3>2. m + j \in Int
      BY <1>3, <2>1
    <3> HIDE DEF S
    <3>3. \A y \in S : m + j >= y
      BY <3>1, <3>2
    <3>4. \A x \in S : x >= m + j => x = m + j
      BY <3>1, <3>2
    <3>5. Max(S) = m + j
      BY <3>1, <3>3, <3>4 DEF Max
    <3> QED
      BY <3>5 DEF S
  <2>4. Starts(all, m + n) # {}
    BY <1>10, <1>12
  <2>5. PICK o : o = opts[j]
    OBVIOUS
  <2>6. all[m + j] = o /\ IsOption(o) /\ IsStart(o)
    <3>1. IsStart(o)
      BY <2>1, <2>5 DEF starts, IsStart
    <3> QED
      BY <1>1, <1>3, <2>1, <2>5, <3>1
  <2>7. /\ so.startAt = (IF o.opt = "StartAt" THEN o.time ELSE 0)
        /\ so.startAfter = (IF o.opt = "StartAfter" THEN o.time ELSE 0)
    BY <1>6, <2>3, <2>4, <2>6 DEF TimeAs
  <2>8. v.nextAttemptAt = IF o.time <= 0 THEN 0
                          ELSE IF o.opt = "StartAt" THEN o.time
                          ELSE Now + o.time
    <3>1. CASE o.opt = "StartAt"
      <4>1. o.time \in Nat /\ so.startAt = o.time /\ so.startAfter = 0
        BY <2>6, <2>7, <3>1 DEF IsOption
      <4> QED
        BY <1>2, <3>1, <4>1
    <3>2. CASE o.opt = "StartAfter"
      <4>1. o.time \in Int /\ so.startAt = 0 /\ so.startAfter = o.time
        BY <2>6, <2>7, <3>2 DEF IsOption
      <4> QED
        BY <1>2, <3>2, <4>1
    <3> QED
      BY <2>6, <3>1, <3>2 DEF IsOption, IsStart
  <2>9. last = o
    BY <2>5 DEF j
  <2> QED
    BY <1>8, <1>9, <1>12, <2>8, <2>9 DEF maps, opts, starts, LastStartWins
<1> QED
  BY <1>11, <1>12

-----------------------------------------------------------------------------

(***************************************************************************)
(* The inductive invariant: the arguments are a caller's, and the answer   *)
(* is what the code makes of them.                                         *)
(***************************************************************************)
TextAsBounded ==
    call.kind = "text" =>
        /\ call.text \in Texts /\ call.limit \in 0..(2 * MarkWidth)
        /\ reply.done => reply.value = boundText(call.text, call.limit)

DelayAsDrawn ==
    call.kind = "retry" =>
        /\ call.policy \in Policies /\ call.attempt \in 1..MaxAttempt
        /\ reply.done => reply.value \in backoff(call.policy, call.attempt)

RecordAsScheduled ==
    call.kind = "schedule" =>
        /\ call.options \in Schedules
        /\ reply.done =>
              reply.value = ScheduleRecord(call.options.annotators, call.options.opts, Now)

StoreAsOpened ==
    call.kind = "open" =>
        /\ call.uri \in URIs
        /\ reply.done => reply.value = Open(call.uri, Drivers)

SettingsInv == TextAsBounded /\ DelayAsDrawn /\ RecordAsScheduled /\ StoreAsOpened

LEMMA InitSettings == Init => SettingsInv
<1> SUFFICES ASSUME Init PROVE SettingsInv
  OBVIOUS
<1>1. call \in AllCalls /\ ~ reply.done
  BY DEF Init, Unanswered
<1>2. call.kind = "text" =>
        call \in [kind : {"text"}, text : Texts, limit : 0..(2 * MarkWidth)]
  BY <1>1 DEF AllCalls
<1>3. call.kind = "retry" =>
        call \in [kind : {"retry"}, policy : Policies, attempt : 1..MaxAttempt]
  BY <1>1 DEF AllCalls
<1>4. call.kind = "schedule" => call \in [kind : {"schedule"}, options : Schedules]
  BY <1>1 DEF AllCalls
<1>5. call.kind = "open" => call \in [kind : {"open"}, uri : URIs]
  BY <1>1 DEF AllCalls
<1>6. TextAsBounded
  BY <1>1, <1>2 DEF TextAsBounded
<1>7. DelayAsDrawn
  BY <1>1, <1>3 DEF DelayAsDrawn
<1>8. RecordAsScheduled
  BY <1>1, <1>4 DEF RecordAsScheduled
<1>9. StoreAsOpened
  BY <1>1, <1>5 DEF StoreAsOpened
<1> QED
  BY <1>6, <1>7, <1>8, <1>9 DEF SettingsInv

\* Any other call answers nothing that is set.
LEMMA OtherThanSettings ==
    ASSUME NEW kind, Called(kind), kind \notin {"text", "retry", "schedule", "open"},
           NEW v, Answer(v)
    PROVE  SettingsInv'
  BY DEF SettingsInv, TextAsBounded, DelayAsDrawn, RecordAsScheduled, StoreAsOpened,
         Called, Answer

LEMMA NextSettings == SettingsInv /\ [Next]_vars => SettingsInv'
<1> SUFFICES ASSUME SettingsInv, [Next]_vars PROVE SettingsInv'
  OBVIOUS
<1> USE DEF SettingsInv
<1>1. CASE StoreCursor
  BY <1>1, OtherThanSettings DEF StoreCursor
<1>2. CASE StoreOperation
  BY <1>2, OtherThanSettings DEF StoreOperation
<1>3. CASE StoreRecord
  BY <1>3, OtherThanSettings DEF StoreRecord
<1>4. CASE ResolveAttempt
  BY <1>4, OtherThanSettings DEF ResolveAttempt
<1>5. CASE ParkAgain
  BY <1>5, OtherThanSettings DEF ParkAgain
<1>6. CASE RunGenerator
  <2>1. CASE GenerateAccepts(call.files, Types)
    <3>1. call'.kind = "deploy"
      BY <1>6, <2>1 DEF RunGenerator
    <3> QED
      BY <3>1 DEF TextAsBounded, DelayAsDrawn, RecordAsScheduled, StoreAsOpened
  <2>2. CASE ~ GenerateAccepts(call.files, Types)
    BY <1>6, <2>2, OtherThanSettings DEF RunGenerator
  <2> QED
    BY <2>1, <2>2
<1>7. CASE BindDefinition
  <2>1. call'.kind = "deploy"
    BY <1>7 DEF BindDefinition
  <2> QED
    BY <2>1 DEF TextAsBounded, DelayAsDrawn, RecordAsScheduled, StoreAsOpened
<1>8. CASE StartEngine
  <2>1. call'.kind = "deploy"
    BY <1>8 DEF StartEngine
  <2> QED
    BY <2>1 DEF TextAsBounded, DelayAsDrawn, RecordAsScheduled, StoreAsOpened
<1>9. CASE BoundText
  <2>1. call' = call /\ call.kind = "text"
    BY <1>9 DEF BoundText, Called, Answer
  <2>2. reply'.value = boundText(call.text, call.limit)
    BY <1>9 DEF BoundText, Answer
  <2>3. TextAsBounded'
    BY <2>1, <2>2 DEF TextAsBounded
  <2> QED
    BY <2>1, <2>3 DEF DelayAsDrawn, RecordAsScheduled, StoreAsOpened
<1>10. CASE Backoff
  <2>1. call' = call /\ call.kind = "retry"
    BY <1>10 DEF Backoff, Called, Answer
  <2>2. reply'.value \in backoff(call.policy, call.attempt)
    <3> HIDE DEF SettingsInv
    <3> QED
      BY <1>10 DEF Backoff, Answer
  <2>3. DelayAsDrawn'
    BY <2>1, <2>2 DEF DelayAsDrawn
  <2> QED
    BY <2>1, <2>3 DEF TextAsBounded, RecordAsScheduled, StoreAsOpened
<1>11. CASE Schedule
  <2>1. call' = call /\ call.kind = "schedule"
    BY <1>11 DEF Schedule, Called, Answer
  <2>2. reply'.value = ScheduleRecord(call.options.annotators, call.options.opts, Now)
    BY <1>11 DEF Schedule, Answer
  <2>3. RecordAsScheduled'
    BY <2>1, <2>2 DEF RecordAsScheduled
  <2> QED
    BY <2>1, <2>3 DEF TextAsBounded, DelayAsDrawn, StoreAsOpened
<1>12. CASE OpenStore
  <2>1. call' = call /\ call.kind = "open"
    BY <1>12 DEF OpenStore, Called, Answer
  <2>2. reply'.value = Open(call.uri, Drivers)
    BY <1>12 DEF OpenStore, Answer
  <2>3. StoreAsOpened'
    BY <2>1, <2>2 DEF StoreAsOpened
  <2> QED
    BY <2>1, <2>3 DEF TextAsBounded, DelayAsDrawn, RecordAsScheduled
<1>13. CASE UNCHANGED vars
  BY <1>13 DEF TextAsBounded, DelayAsDrawn, RecordAsScheduled, StoreAsOpened, vars
<1> QED
  BY <1>1, <1>2, <1>3, <1>4, <1>5, <1>6, <1>7, <1>8, <1>9, <1>10, <1>11, <1>12,
     <1>13 DEF Next

LEMMA TextHolds == SettingsInv => TextBounded
<1> SUFFICES ASSUME SettingsInv, reply.done, call.kind = "text" PROVE TextBounded
  BY DEF TextBounded
<1>1. /\ call.text \in Texts /\ call.limit \in 0..(2 * MarkWidth)
      /\ reply.value = boundText(call.text, call.limit)
  BY DEF SettingsInv, TextAsBounded
<1>2. call.text \in Seq(0..4) /\ call.limit \in Nat
  BY <1>1, SettingsAssumption DEF MarkWidth
<1> QED
  BY <1>1, <1>2, BoundsText DEF TextBounded

LEMMA BackoffHolds == SettingsInv => BackoffNeverShrinks
<1> SUFFICES ASSUME SettingsInv, reply.done, call.kind = "retry"
             PROVE  BackoffNeverShrinks
  BY DEF BackoffNeverShrinks
<1>1. /\ call.policy \in Policies /\ call.attempt \in 1..MaxAttempt
      /\ reply.value \in backoff(call.policy, call.attempt)
  BY DEF SettingsInv, DelayAsDrawn
<1>2. ASSUME NEW later \in call.attempt..MaxAttempt, Holds(call.policy, later),
             NEW d \in backoff(call.policy, later)
      PROVE  2 * d + 1 >= reply.value
  BY <1>1, <1>2, BacksOff
<1>3. call.policy.max > 0 => reply.value <= call.policy.max
  BY <1>1, DelayIs
<1> QED
  BY <1>2, <1>3 DEF BackoffNeverShrinks

LEMMA OptionsHold == SettingsInv /\ ParkInv => LastOptionWins
<1> SUFFICES ASSUME SettingsInv, ParkInv, reply.done PROVE LastOptionWins
  BY DEF LastOptionWins
<1>1. ASSUME call.kind = "park" PROVE LastParkOptionWins
  <2>1. /\ call.opts \in ParkOptions
        /\ reply.value.timeout = TimeoutOf(call.opts, Len(call.opts))
        /\ (reply.value.cascade <=> CascadeOf(call.opts, Len(call.opts)))
    BY <1>1 DEF ParkInv
  <2>2. DOMAIN call.opts = 1..Len(call.opts)
    BY <2>1, ParksAssumption
  <2> QED
    BY <2>1, <2>2 DEF LastParkOptionWins, TimeoutOf, CascadeOf
<1>2. CASE call.kind = "schedule"
  <2>1. /\ call.options \in Schedules
        /\ reply.value = ScheduleRecord(call.options.annotators, call.options.opts, Now)
    BY <1>2 DEF SettingsInv, RecordAsScheduled
  <2>2. LastStartWins(call.options, reply.value)
    BY <2>1, SchedulesAs
  <2>3. ~ (call.kind = "park")
    BY <1>2
  <2> QED
    BY <1>2, <2>2, <2>3, Zenon DEF LastOptionWins, LastStartWins
<1> QED
  BY <1>1, <1>2 DEF LastOptionWins

LEMMA OpenHolds == SettingsInv => OpenedAsAsked
<1> SUFFICES ASSUME SettingsInv, reply.done, call.kind = "open", reply.value.opened
             PROVE  OpenedAsAsked
  BY DEF OpenedAsAsked
<1>1. call.uri \in URIs /\ reply.value = Open(call.uri, Drivers) /\ reply.value # Refused
  BY NothingOpened DEF SettingsInv, StoreAsOpened
<1>2. reply.value.driver = call.uri.scheme
  BY <1>1, OpenIs
<1>3. \A i \in Kept(call.uri) :
         LET limit == [blob_cache |-> reply.value.blobCache,
                       output_cache |-> reply.value.outputCache]
             key == call.uri.pairs[i].key
             v == call.uri.pairs[i].value
             asked == v.number * Unit[v.unit]
         IN  /\ key \in DOMAIN limit
             /\ \A j \in Kept(call.uri) : call.uri.pairs[j].key = key => j = i
             /\ asked <= MaxInt => limit[key] = asked
  BY <1>1, OpensAsAsked
<1>4. call.uri.scheme = "bbolt" =>
         LET limit == [blob_cache |-> reply.value.blobCache,
                       output_cache |-> reply.value.outputCache]
         IN  \A key \in DOMAIN limit :
                (\A i \in Kept(call.uri) : call.uri.pairs[i].key # key)
                   => limit[key] = DefaultCache
  BY <1>1, OpensByDefault
<1> QED
  BY <1>2, <1>3, <1>4 DEF OpenedAsAsked

(***************************************************************************)
(* Whatever callers set, at every boundary: a recorded text is valid,      *)
(* within the limit and as long as it can be; a later attempt whose delay  *)
(* a Duration holds never waits less than half of an earlier one, and none *)
(* waits longer than the maximum; of several options the last decides; and *)
(* a store opens as the options its URI's parsed query keeps ask, where    *)
(* the count fits an int, or not at all (boundText, backoff, schedule.go,  *)
(* await.go, store.Open and the openers of the drivers).                   *)
(***************************************************************************)
THEOREM SettingsHoldAlways == Spec => []SettingsHold
<1>1. SettingsInv /\ ParkInv => SettingsHold
  BY TextHolds, BackoffHolds, OptionsHold, OpenHolds DEF SettingsHold
<1> QED
  BY <1>1, InitSettings, NextSettings, InitPark, NextPark, PTL DEF Spec
=============================================================================
