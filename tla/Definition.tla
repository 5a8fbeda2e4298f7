----------------------------- MODULE Definition -----------------------------
(***************************************************************************)
(* From declarations to a running deployment: what protoc-gen-durable      *)
(* accepts and emits (cmd/protoc-gen-durable/internal/gen/gen.go), what    *)
(* pipelinedef.New makes of it, what Engine.Bind and register refuse, and  *)
(* what Start freezes and resolves.  Emitted Go text is left out, except   *)
(* the Config literal of emitDefinition, which is what Bind is handed.     *)
(*                                                                         *)
(* A protobuf message is a record: options, the durable options it carries *)
(* (a subset of {"pipeline", "step"}); id, the id of those options; name,  *)
(* a sequence of words, so that Unwind<Step> is <<"Unwind">> \o name; the  *)
(* message's nested messages; and the options' own fields.                 *)
(***************************************************************************)
EXTENDS Naturals, Sequences, FiniteSets, Functions, SequencesExt

(***************************************************************************)
(* Identifiers.  "" is the empty one; Malformed stands for one with a NUL  *)
(* byte or invalid UTF-8.                                                  *)
(***************************************************************************)
Malformed == "malformed"

invalidID(s) == s = Malformed

----------------------------------------------------------------------------
(***************************************************************************)
(* Generate.  files is the sequence of the top-level messages of the files *)
(* being generated; Types the message types the plugin was given.          *)
(***************************************************************************)
IsPipeline(m) == "pipeline" \in m.options

IsStep(m) == "step" \in m.options

PipelinesIn(files) == {i \in DOMAIN files : IsPipeline(files[i])}

\* The nested messages Generate takes as the steps of a pipeline.
StepsIn(m) == {j \in DOMAIN m.nested : IsStep(m.nested[j])}

\* The steps of all files, each by its pipeline's place and its own.
AllSteps(files) == UNION {{i} \X StepsIn(files[i]) : i \in PipelinesIn(files)}

StepAt(files, p) == files[p[1]].nested[p[2]]

Distinct(ids) == IsInjective(ids)

WellPlaced(m) ==
    /\ ~ IsStep(m)
    /\ ~ IsPipeline(m) => \A i \in DOMAIN m.nested :
                             m.nested[i].options = {} /\ m.nested[i].nested = {}
    /\ IsPipeline(m) => \A i \in DOMAIN m.nested :
                             m.nested[i].options = {"step"} /\ m.nested[i].nested = {}

(***************************************************************************)
(* The handler methods a pipeline's reducers and steps claim, with who     *)
(* claims each.                                                            *)
(***************************************************************************)
ReducerClaims(m) ==
    {<<"output", 0, <<"ReduceOutput">>>> : t \in {m.output} \ {""}}
    \cup {<<"failure", 0, <<"ReduceFailure">>>> : t \in {m.failureOutput} \ {""}}

RunClaims(m) == {<<"step", j, m.nested[j].name>> : j \in StepsIn(m)}

UnwindClaims(m) ==
    {<<"unwind", j, <<"Unwind">> \o m.nested[j].name>>
        : j \in {k \in StepsIn(m) : m.nested[k].unwind}}

\* Mutant: an unwind claims no method.
ClaimsOfRuns(m) == ReducerClaims(m) \cup RunClaims(m)

Claims(m) == ReducerClaims(m) \cup RunClaims(m) \cup UnwindClaims(m)

ClaimsCollide(m) == \E c, d \in Claims(m) : c # d /\ c[3] = d[3]

ValidPipeline(m, types) ==
    /\ m.id # ""
    /\ ~ m.fields
    /\ StepsIn(m) # {}
    /\ {m.input, m.output, m.failureOutput} \ {""} \subseteq types
    /\ ~ ClaimsCollide(m)

\* Mutant: a step id is looked for in its own pipeline only.
GenerateAcceptsEach(files, types) ==
    LET pipelines == PipelinesIn(files)
    IN  /\ \A i \in DOMAIN files : WellPlaced(files[i])
        /\ \A p \in AllSteps(files) : StepAt(files, p).id # ""
        /\ \A p, q \in AllSteps(files) :
              p[1] = q[1] /\ StepAt(files, p).id = StepAt(files, q).id => p = q
        /\ \A i, j \in pipelines : files[i].id = files[j].id => i = j
        /\ \A i \in pipelines : ValidPipeline(files[i], types)

GenerateAccepts(files, types) ==
    LET pipelines == PipelinesIn(files)
    IN  /\ \A i \in DOMAIN files : WellPlaced(files[i])
        /\ \A p \in AllSteps(files) : StepAt(files, p).id # ""
        /\ \A p, q \in AllSteps(files) :
              StepAt(files, p).id = StepAt(files, q).id => p = q
        /\ \A i, j \in pipelines : files[i].id = files[j].id => i = j
        /\ \A i \in pipelines : ValidPipeline(files[i], types)

(***************************************************************************)
(* What is emitted.  An adapter is a func, nil ({}) or the set of the one  *)
(* handler method it calls: a step's Run adapter is always there, its      *)
(* UnwindFunc when the step declares unwind.  Every message nested in a    *)
(* pipeline that is emitted is a step (WellPlaced).                        *)
(***************************************************************************)
UnwindOf(s) == IF s.unwind THEN {<<"Unwind">> \o s.name} ELSE {}

ReducersOf(m) == IF m.output # "" THEN {<<"ReduceOutput">>} ELSE {}

FailureReducersOf(m) == IF m.failureOutput # "" THEN {<<"ReduceFailure">>} ELSE {}

EmitStep(s) ==
    [id |-> s.id, unwind |-> s.unwind, retired |-> s.retired, class |-> s.class,
     hasState |-> s.fields, run |-> {s.name}, unwindFunc |-> UnwindOf(s)]

\* emitDefinition: the Config NewXxx builds.
EmitDefinition(m, middleware) ==
    [id |-> m.id, mutexes |-> m.mutexes, class |-> m.class,
     runClass |-> m.runClass, middleware |-> middleware,
     newInput |-> m.input # "", reduce |-> ReducersOf(m),
     reduceFailure |-> FailureReducersOf(m),
     steps |-> [j \in DOMAIN m.nested |-> EmitStep(m.nested[j])]]

\* emitHandlers: the methods of the pipeline's handler interface, in order.
EmitMethods(methods, s) ==
    LET withRun == Append(methods, s.name)
    IN  IF s.unwind THEN Append(withRun, <<"Unwind">> \o s.name) ELSE withRun

EmitHandlers(m) ==
    LET ofSteps == FoldLeft(EmitMethods, <<>>, m.nested)
        withOutput == IF m.output # "" THEN Append(ofSteps, <<"ReduceOutput">>) ELSE ofSteps
    IN  IF m.failureOutput # "" THEN Append(withOutput, <<"ReduceFailure">>) ELSE withOutput

\* pipelinedef.New: a step without a class takes the pipeline's.
NewDefinition(cfg) ==
    [cfg EXCEPT !.steps = [i \in DOMAIN @ |->
        IF @[i].class = "" THEN [@[i] EXCEPT !.class = cfg.class] ELSE @[i]]]

Generate(files) ==
    {NewDefinition(EmitDefinition(files[i], <<>>)) : i \in PipelinesIn(files)}

GenerateHandlers(files) ==
    [id \in {files[i].id : i \in PipelinesIn(files)} |->
        EmitHandlers(files[CHOOSE i \in PipelinesIn(files) : files[i].id = id])]

----------------------------------------------------------------------------
(***************************************************************************)
(* The engine's registry: the bound pipelines and the owner of each step,  *)
(* two frozen.Maps Start freezes, and the exclusion sets Start resolves.   *)
(***************************************************************************)
Unbound == [pipelines |-> <<>>, stepOwner |-> <<>>, started |-> FALSE,
            excludes |-> <<>>]

StepIDs(cfg) == {cfg.steps[i].id : i \in DOMAIN cfg.steps}

\* bindDefinition: the checks of the definition alone.
Binds(cfg) ==
    /\ cfg.id # "" /\ ~ invalidID(cfg.id)
    /\ \A m \in cfg.mutexes : m # "" /\ ~ invalidID(m)
    /\ \A i \in DOMAIN cfg.middleware : cfg.middleware[i] # "nil"
    /\ cfg.steps # <<>>
    /\ \A i \in DOMAIN cfg.steps :
          LET s == cfg.steps[i]
          IN  /\ s.id # "" /\ ~ invalidID(s.id)
              /\ s.run # {}
              /\ s.unwind = (s.unwindFunc # {})
    /\ Distinct([i \in DOMAIN cfg.steps |-> cfg.steps[i].id])

\* Mutant: the owners of the steps are not consulted.
RegistersAnySteps(eng, cfg) == ~ eng.started /\ cfg.id \notin DOMAIN eng.pipelines

\* register's checks, under the engine's lock.
Registers(eng, cfg) ==
    /\ ~ eng.started
    /\ cfg.id \notin DOMAIN eng.pipelines
    /\ StepIDs(cfg) \cap DOMAIN eng.stepOwner = {}

\* frozen.Map's Put, for each of the keys; Registers asks whether it is frozen.
Put(map, keys, v) ==
    [k \in keys \cup DOMAIN map |-> IF k \in keys THEN v ELSE map[k]]

\* Engine.Bind: a refused Bind leaves the registry alone.
Bind(eng, cfg) ==
    IF Binds(cfg) /\ Registers(eng, cfg)
      THEN [eng EXCEPT !.pipelines = Put(@, {cfg.id}, cfg),
                       !.stepOwner = Put(@, StepIDs(cfg), cfg.id)]
      ELSE eng

(***************************************************************************)
(* resolveMutexes: the holders of every mutex first, then each pipeline    *)
(* with the holders of its own.                                            *)
(***************************************************************************)
Holders(pipelines, m) == {p \in DOMAIN pipelines : m \in pipelines[p].mutexes}

\* Mutant: all of a pipeline's mutexes must be shared, not one.
ResolveAllShared(pipelines) ==
    [p \in DOMAIN pipelines |->
        {p} \cup {q \in DOMAIN pipelines :
                     /\ pipelines[p].mutexes # {}
                     /\ pipelines[p].mutexes \subseteq pipelines[q].mutexes}]

resolveMutexes(pipelines) ==
    [p \in DOMAIN pipelines |->
        {p} \cup UNION {Holders(pipelines, m) : m \in pipelines[p].mutexes}]

\* Start, up to the recovery of Runs (module RunClass): runClasses and classes
\* are the class names the engine was given capacities for.
CanStart(eng, runClasses, classes) ==
    ~ eng.started /\ runClasses \cap classes = {}

Start(eng, runClasses, classes) ==
    IF CanStart(eng, runClasses, classes)
      THEN [eng EXCEPT !.started = TRUE, !.excludes = resolveMutexes(eng.pipelines)]
      ELSE eng
=============================================================================
