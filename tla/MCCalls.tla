------------------------------ MODULE MCCalls -------------------------------
(***************************************************************************)
(* The arguments Calls is checked over: every shape the engine builds of   *)
(* each, at its boundaries.                                                *)
(***************************************************************************)
EXTENDS Calls

Parks == {[mode |-> m, targets |-> t, deadline |-> d, cancelCascade |-> c]
            : m \in {"all", "any"}, t \in {<<"x">>, <<"y", "x">>}, d \in {0, 9},
              c \in BOOLEAN}

Wakes == {[targets |-> <<"y", "x">>, done |-> d, expired |-> e]
            : d \in {<<>>, <<"x">>}, e \in BOOLEAN}

Optional(S) == {{}} \cup {{v} : v \in S}

\* A parked operation remembers no earlier park and waits for no retry; the
\* error of the last attempt and its time come together.
SomeCursors ==
    {c \in [phase : {"forward", "unwind"}, stepID : {"", "a"}, attempts : {0, 2},
            nextAttemptAt : {0, 7}, lastError : {"", "boom"},
            lastReason : {"", "why"}, lastErrorAt : {0, 6},
            updatedAt : {5}, startedAt : {0, 1}, awaiting : Optional(Parks),
            awaited : Optional(Wakes)] :
       /\ (c.stepID = "") <=> (c.attempts = 0)
       /\ c.stepID = "" => c.awaiting = {} /\ c.awaited = {} /\ c.lastError = ""
       /\ c.stepID # "" => c.startedAt # 0
       /\ (c.lastError = "") <=> (c.lastErrorAt = 0)
       /\ c.lastError = "" => c.lastReason = ""
       /\ c.awaiting # {} => c.awaited = {} /\ c.nextAttemptAt = 0}

Failure(step, phase, kind) ==
    [stepID |-> step, phase |-> phase, attempt |-> 2, message |-> "boom",
     at |-> 6, kind |-> kind, reason |-> "why"]

Op(status, state, order, failure) ==
    [status |-> status, attempts |-> 2, state |-> state, order |-> order,
     failure |-> failure]

SomeOperations ==
    {Op("succeeded", b, o, {}) : b \in {NilBytes, EmptyBytes, "data"}, o \in 1..2}
    \cup {Op("failed", NilBytes, 3, {Failure("a", ph, k)})
            : ph \in {"forward", "unwind"}, k \in {"system", "user"}}
    \cup {Op("unresolved", NilBytes, 0, {})}

\* Steps a and b succeeded, c failed or the Run was canceled before it; the
\* unwinds went b first.
UnwindOp(step, status, order) ==
    IF status = None THEN NoOp
    ELSE Op(status, NilBytes, order,
            IF status = "failed" THEN {Failure(step, "unwind", "system")} ELSE {})

RecordOf(outcome, failure, cancel, output, annotations, ua, ub) ==
    [identity |-> "run", createdAt |-> 1, annotations |-> annotations,
     input |-> "data", phase |-> "done",
     steps |-> [s \in {"a", "b"} |->
                  [forward |-> Op("succeeded", "data", IF s = "a" THEN 1 ELSE 2, {}),
                   unwind |-> IF s = "a" THEN UnwindOp(s, ua, 5)
                                         ELSE UnwindOp(s, ub, 4)]],
     failure |-> failure, output |-> output, outcome |-> {outcome},
     nextAttemptAt |-> 0, awaiting |-> {}, awaited |-> {}, lastError |-> "",
     lastReason |-> "", lastErrorAt |-> 0, cancel |-> cancel, updatedAt |-> 9, startedAt |-> 2]

SomeRecords ==
    LET outputs == {NilBytes, EmptyBytes, "data"}
        notes == {<<>>, [tenant |-> "t"]}
        unwinds == {None, "succeeded", "failed"}
        asked == Optional({[cause |-> "stop", at |-> 3]})
    IN  {RecordOf("success", {}, c, o, n, None, None)
           : c \in asked, o \in outputs, n \in notes}
        \cup {RecordOf("failure", {Failure("c", "forward", k)}, c, o, n, ua, ub)
           : k \in {"system", "user", "canceled"}, c \in asked, o \in outputs,
             n \in notes, ua \in unwinds, ub \in unwinds}

Bare ==
    {<<>>}
    \cup {Ordinary(k, r) : k \in Optional({"user"}), r \in Optional({"", "r1"})}
    \cup {newAwait("all", t, <<[cascade |-> TRUE, timeout |-> 4]>>)
            : t \in {<<"x">>, <<>>, <<"x", NoRunID>>}}

Failed == {Fail(e, o) : e \in Bare, o \in {<<>>, <<"WithUserKind">>, <<"r2">>,
                                            <<"WithUserKind", "r2">>}}

SomeReturns ==
    {r \in [panics : BOOLEAN, state : BOOLEAN,
            lookup : [of : {"state", "input"},
                      bytes : {"absent", "decodes", "undecodable"}],
            err : Bare \cup Failed \cup {Wrapped(e) : e \in Bare \cup Failed}
                  \cup {Fail(Wrapped(e), <<>>) : e \in Failed}] :
       r.panics => r.err = <<>> /\ ~ r.state}

SomeParkOptions ==
    LET options == {[cascade |-> TRUE, timeout |-> 0]}
                   \cup {[cascade |-> FALSE, timeout |-> d] : d \in {-1, 0, 4, 6}}
    IN  UNION {[1..n -> options] : n \in 0..2}

SomeTargets == UNION {[1..n -> {"x", "y", "z"}] : n \in 1..3}

----------------------------------------------------------------------------
StepMsg(id, name, unwind, fields, class, options, nested) ==
    [options |-> options, id |-> id, name |-> name, fields |-> fields,
     unwind |-> unwind, retired |-> FALSE, class |-> class, nested |-> nested]

A == StepMsg("a", <<"A">>, TRUE, TRUE, "", {"step"}, {})
B == StepMsg("b", <<"B">>, FALSE, FALSE, "api", {"step"}, {})
UnwindA == StepMsg("b", <<"Unwind", "A">>, FALSE, FALSE, "", {"step"}, {})
Reducer == StepMsg("b", <<"ReduceOutput">>, FALSE, FALSE, "", {"step"}, {})
NoID == StepMsg("", <<"B">>, FALSE, FALSE, "", {"step"}, {})
NulID == StepMsg(Malformed, <<"B">>, FALSE, FALSE, "", {"step"}, {})
Plain == StepMsg("", <<"B">>, FALSE, FALSE, "", {}, {})
Both == StepMsg("b", <<"B">>, FALSE, FALSE, "", {"step", "pipeline"}, {})
Deep == StepMsg("b", <<"B">>, FALSE, FALSE, "", {"step"}, {"step"})

Message(options, id, steps, output, mutexes, fields) ==
    [options |-> options, id |-> id, name |-> <<"P">>, fields |-> fields,
     nested |-> steps, mutexes |-> mutexes, class |-> "db", runClass |-> "jobs",
     input |-> "In", output |-> output, failureOutput |-> ""]

OneMessage ==
    {Message(o, id, s, out, m, f)
        : o \in SUBSET {"pipeline", "step"}, id \in {"p", "", Malformed},
          s \in {<<>>, <<A>>, <<A, A>>, <<A, UnwindA>>, <<A, Reducer>>, <<NoID>>,
                 <<NulID>>, <<A, Plain>>, <<A, Both>>, <<A, Deep>>, <<A, B>>},
          out \in {"", "Out", "Missing"}, m \in {{}, {"m"}, {"", "m"}},
          f \in BOOLEAN}

Pipelines ==
    {Message({"pipeline"}, id, s, "", m, FALSE)
        : id \in {"p", "q"}, s \in {<<A>>, <<B>>, <<A, B>>},
          m \in {{}, {"m"}, {"n"}, {"m", "n"}}}

SomeSchemas == {<<m>> : m \in OneMessage} \cup {<<m, n>> : m, n \in Pipelines}

Config(id, steps, mutexes, middleware) ==
    NewDefinition(EmitDefinition(Message({"pipeline"}, id, steps, "", mutexes, FALSE),
                                 middleware))

Configs ==
    {Config("p", <<A>>, {"m"}, <<>>), Config("p", <<B>>, {"n"}, <<"mw">>),
     Config("q", <<A, B>>, {"m", "n"}, <<>>), Config("q", <<B>>, {"m"}, <<>>),
     Config("r", <<StepMsg("c", <<"C">>, FALSE, FALSE, "", {"step"}, {})>>, {"n"}, <<>>),
     Config("r", <<A>>, {}, <<"mw", "nil">>),
     [Config("q", <<A>>, {}, <<>>) EXCEPT !.steps[1].unwindFunc = {}]}

SomeHandWritten == {S \in SUBSET Configs : Cardinality(S) \in 1..4}

----------------------------------------------------------------------------
SomeTexts == UNION {[1..n -> {BadByte, 1, 2, 4}] : n \in 0..4}

SomePolicies == [initial : 0..3, max : {0, 2, 5}, multiplier : 0..3]

SomeSchedules ==
    LET options == {[opt |-> "StartAt", time |-> t, annotations |-> <<>>] : t \in {0, 8}}
                   \cup {[opt |-> "StartAfter", time |-> t, annotations |-> <<>>]
                           : t \in {-1, 0, 2}}
                   \cup {Annotate([tenant |-> "call"]), Annotate([user |-> "call"])}
    IN  [annotators : {<<>>, <<[tenant |-> "engine"], [tenant |-> "second"]>>},
         opts : UNION {[1..n -> options] : n \in 0..3}]

\* int of 16 bits with units of 4, 8 and 12: 64 with 10, 20 and 30, scaled.
Units == [none |-> 1, K |-> 2^4, M |-> 2^8, G |-> 2^12]

SomeURIs ==
    LET values == [digits : BOOLEAN, number : {-1, 0, 7, 8, 2^15 - 1, 2^15}, unit : DOMAIN Units]
        seven == [digits |-> TRUE, number |-> 7, unit |-> "none"]
        pair(key, v) == [key |-> key, value |-> v, wellFormed |-> TRUE]
        broken(key) == [key |-> key, value |-> seven, wellFormed |-> FALSE]
        blob == pair("blob_cache", seven)
        queries == {<<>>} \cup {<<pair(key, v)>> : key \in {"blob_cache", "output_cache"}, v \in values}
                   \cup {<<blob, p>> : p \in {blob, pair("blob_cach", seven), broken("blob_cach"),
                                             broken("blob_cache"), broken("output_cache"),
                                             pair("output_cache", seven)}}
                   \cup {<<broken("blob_cache")>>, <<broken("blob_cach")>>}
    IN  [scheme : {"", "bbolt", "mem", "redis"}, host : {"", "db"}, path : {"", "f"},
         pairs : queries]
=============================================================================
