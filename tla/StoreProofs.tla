---------------------------- MODULE StoreProofs ----------------------------
(***************************************************************************)
(* The bbolt store implements the store contract, for any Runs, Steps,      *)
(* slots, exclusions, batch sizes and limits: every commit is one operation *)
(* of the in-memory store, and staging, draining, rolled-back batches and   *)
(* crashes are invisible to a reader.  The rows of the buckets stay sound,  *)
(* and the head a caller reads without decoding operations is the head of   *)
(* the full record.                                                         *)
(***************************************************************************)
EXTENDS BboltStore, FiniteSetTheorems, WellFoundedInduction, TLAPS

-----------------------------------------------------------------------------
(* Maps and finite sets of numbers.                                         *)

LEMMA Deleted ==
    ASSUME NEW f, NEW K
    PROVE  /\ DOMAIN Delete(f, K) = DOMAIN f \ K
           /\ \A x \in DOMAIN f \ K : Delete(f, K)[x] = f[x]
BY DEF Delete

LEMMA DeletedMap ==
    ASSUME NEW f, NEW K, NEW D, NEW V, IsMap(f, D, V)
    PROVE  IsMap(Delete(f, K), D, V)
BY DEF Delete, IsMap

LEMMA PutIn ==
    ASSUME NEW f, NEW k, NEW v
    PROVE  /\ DOMAIN Put(f, k, v) = DOMAIN f \cup {k} /\ Put(f, k, v)[k] = v
           /\ \A x \in DOMAIN f \ {k} : Put(f, k, v)[x] = f[x]
BY DEF Put

LEMMA PutMap ==
    ASSUME NEW D, NEW V, NEW f, IsMap(f, D, V), NEW k \in D, NEW v \in V
    PROVE  IsMap(Put(f, k, v), D, V)
BY DEF Put, IsMap

LEMMA GreatestNumber ==
    ASSUME NEW S, S \subseteq Nat, IsFiniteSet(S), S # {}
    PROVE  \E m \in S : \A n \in S : n <= m
<1> DEFINE below(x) == {y \in S : y < x}
           T == {n \in Nat : \E x \in S : n = Cardinality(S) - Cardinality(below(x))}
<1>1. \A x : /\ IsFiniteSet(below(x)) /\ Cardinality(below(x)) \in Nat
             /\ Cardinality(below(x)) <= Cardinality(S)
  <2> TAKE x
  <2>1. below(x) \in SUBSET S
    OBVIOUS
  <2> HIDE DEF below
  <2> QED BY <2>1, FS_Subset, FS_CardinalityType
<1>2. Cardinality(S) \in Nat
  BY FS_CardinalityType
<1>3. T # {}
  <2>1. PICK x \in S : TRUE
    OBVIOUS
  <2> HIDE DEF below
  <2>2. Cardinality(S) - Cardinality(below(x)) \in Nat
    BY <1>1, <1>2
  <2> QED BY <2>1, <2>2
<1>4. PICK t \in T : \A u \in T : ~(<<u, t>> \in OpToRel(<, Nat))
  <2>1. T \subseteq Nat
    OBVIOUS
  <2> HIDE DEF T
  <2> QED BY <1>3, <2>1, NatLessThanWellFounded, WFMin, Zenon
<1>5. \A u \in T : t <= u
  <2>1. \A u \in T : ~(u < t) /\ u \in Nat /\ t \in Nat
    BY <1>4 DEF OpToRel
  <2> QED BY <2>1
<1>6. PICK m \in S : t = Cardinality(S) - Cardinality(below(m))
  OBVIOUS
<1>7. ASSUME NEW n \in S PROVE n <= m
  <2> SUFFICES ASSUME m < n PROVE FALSE
    OBVIOUS
  <2>0. m \in Nat /\ n \in Nat
    OBVIOUS
  <2>1. below(m) \cup {m} \in SUBSET below(n) /\ m \notin below(m)
    <3>1. \A y \in below(m) : y \in S /\ y \in Nat /\ y < m
      OBVIOUS
    <3>2. \A y \in below(m) : y < n
      <4> SUFFICES ASSUME NEW y \in below(m) PROVE y < n
        OBVIOUS
      <4>1. y \in Nat /\ y < m
        BY <3>1
      <4> HIDE DEF below
      <4> QED BY <2>0, <4>1
    <3>3. below(m) \subseteq below(n) /\ m \in below(n) /\ m \notin below(m)
      <4>1. m \in below(n)
        OBVIOUS
      <4>2. m \notin below(m)
        BY <2>0
      <4>3. below(m) \subseteq below(n)
        BY <3>1, <3>2, Zenon
      <4> QED BY <4>1, <4>2, <4>3
    <3> HIDE DEF below
    <3> QED BY <3>3
  <2> HIDE DEF below
  <2>2. /\ IsFiniteSet(below(m) \cup {m})
        /\ Cardinality(below(m) \cup {m}) = Cardinality(below(m)) + 1
    BY <1>1, <2>1, FS_AddElement
  <2>3. Cardinality(below(m) \cup {m}) <= Cardinality(below(n))
    BY <1>1, <2>1, FS_Subset
  <2>4. Cardinality(S) - Cardinality(below(n)) \in T
    BY <1>1, <1>2
  <2>5. t <= Cardinality(S) - Cardinality(below(n))
    BY <1>5, <2>4
  <2> QED BY <1>1, <1>2, <1>6, <2>2, <2>3, <2>5
<1> QED BY <1>7

(* A batch is no larger than it may be. *)
LEMMA FirstBound ==
    ASSUME NEW n \in Nat, NEW S, S \subseteq Runs
    PROVE  /\ First(n, S) \subseteq S /\ IsFiniteSet(First(n, S))
           /\ Cardinality(First(n, S)) \in 0..n
<1> DEFINE F == First(n, S)
<1>1. F \subseteq S /\ IsFiniteSet(F) /\ F \subseteq Nat
  <2>1. F \subseteq S
    BY DEF First
  <2> HIDE DEF F
  <2>2. F \in SUBSET Runs
    BY <2>1
  <2> QED BY <2>1, <2>2, RunsAssumption, FS_Subset
<1>2. Cardinality(F) \in Nat
  BY <1>1, FS_CardinalityType
<1>3. Cardinality(F) <= n
  <2>1. CASE F = {}
    BY <2>1, FS_EmptySet
  <2>2. CASE F # {}
    <3> HIDE DEF F
    <3>1. PICK m \in F : \A x \in F : x <= m
      BY <1>1, <2>2, GreatestNumber
    <3> DEFINE L == {q \in S : q < m}
    <3>2. Cardinality(L) < n
      BY DEF F, First
    <3>3. IsFiniteSet(L) /\ Cardinality(L) \in Nat
      <4>1. L \in SUBSET Runs
        OBVIOUS
      <4> QED BY <4>1, RunsAssumption, FS_Subset, FS_CardinalityType
    <3>4. F \ {m} \in SUBSET L
      BY <1>1, <3>1
    <3> HIDE DEF L
    <3>5. Cardinality(F \ {m}) <= Cardinality(L)
      BY <3>3, <3>4, FS_Subset
    <3>6. Cardinality(F \ {m}) = Cardinality(F) - 1
      BY <1>1, <3>1, FS_RemoveElement
    <3> QED BY <1>2, <3>2, <3>3, <3>5, <3>6
  <2> QED BY <2>1, <2>2
<1> QED BY <1>1, <1>2, <1>3
-----------------------------------------------------------------------------
(* What an Engine sends: the facts about a transition that the store's      *)
(* commits rely on.                                                         *)

IsWrite(w) == /\ w = [step |-> w.step, phase |-> w.phase, op |-> w.op]
              /\ w.step \in Steps /\ w.phase \in Phases /\ w.op \in Op

Resolves(w) == w.op.status \in {"succeeded", "failed"}

(* An operation is written once.  The writes are the operations that were   *)
(* unresolved, as they were, and at most one resolution, in an order past   *)
(* all others; whatever stays unresolved and unwritten is the cursor's.     *)
Sent(rec, s, t) ==
    /\ t.cursor \in Cursor /\ t.failure \in BOOLEAN
    /\ t.outcome \in Outcomes /\ t.output \in Blob
    /\ \A w \in t.ops : IsWrite(w)
    /\ \A v, w \in t.ops : v.step = w.step /\ v.phase = w.phase => v = w
    /\ \A w \in t.ops :
         IF Resolves(w) THEN \A o \in Ops : rec.ops[o].order < w.op.order
         ELSE w.op = rec.ops[<<w.step, w.phase>>] /\ w.op.status = "unresolved"
    /\ \A v, w \in t.ops : Resolves(v) /\ Resolves(w) => v = w
    /\ \A o \in Ops : rec.ops[o].status = "unresolved" /\ o[1] # t.cursor.step
                        => \E w \in t.ops : w.step = o[1] /\ w.phase = o[2]
    /\ t.cursor.step # NoStep =>
         /\ t.cursor.phase = rec.phase /\ \A w \in t.ops : w.step # t.cursor.step
         /\ rec.ops[<<t.cursor.step, rec.phase>>].status \in {"none", "unresolved"}
    /\ t.outcome # "none" => t.cursor.step = NoStep /\ s = NoStep

LEMMA RecordFields ==
    ASSUME NEW rec \in Record
    PROVE  /\ rec.phase \in Phases /\ rec.ops \in [Ops -> Op] /\ rec.failure \in BOOLEAN
           /\ \A o \in Ops : /\ rec.ops[o] \in Op /\ rec.ops[o].order \in Nat
                             /\ rec.ops[o].attempts \in Nat
<1>1. rec.phase \in Phases /\ rec.ops \in [Ops -> Op] /\ rec.failure \in BOOLEAN
  BY DEF Record
<1>2. ASSUME NEW o \in Ops PROVE rec.ops[o] \in Op
  BY <1>1
<1> QED BY <1>1, <1>2 DEF Op

LEMMA OpPairs ==
    /\ \A s \in Steps, p \in Phases : <<s, p>> \in Ops
    /\ \A o \in Ops : o = <<o[1], o[2]>> /\ o[1] \in Steps /\ o[2] \in Phases
BY DEF Ops

LEMMA NextOrderAbove ==
    ASSUME NEW rec \in Record, NEW p \in Ops
    PROVE  NextOrder(rec) \in Nat /\ \A o \in Ops : rec.ops[o].order < NextOrder(rec)
<1> DEFINE orders == {rec.ops[o].order : o \in Ops}
           f == [o \in Ops |-> rec.ops[o].order]
           top == CHOOSE n \in orders : \A m \in orders : m <= n
<1>1. IsFiniteSet(Ops)
  <2>1. IsFiniteSet(Phases)
    <3>1. Phases = {"forward"} \cup {"unwind"}
      BY DEF Phases
    <3> QED BY <3>1, FS_Singleton, FS_Union
  <2> QED BY <2>1, NamesAssumption, FS_Product DEF Ops
<1>2. f \in Surjection(Ops, orders)
  BY DEF Surjection
<1>3. IsFiniteSet(orders)
  BY <1>1, <1>2, FS_Surjection
<1>4. orders \subseteq Nat /\ orders # {}
  BY RecordFields
<1> HIDE DEF orders
<1>5. \E m \in orders : \A n \in orders : n <= m
  BY <1>3, <1>4, GreatestNumber
<1>6. top \in orders /\ \A m \in orders : m <= top
  BY <1>5
<1>7. NextOrder(rec) = 1 + top
  BY DEF NextOrder, orders
<1> HIDE DEF top
<1>8. top \in Nat
  BY <1>4, <1>6
<1>9. ASSUME NEW o \in Ops PROVE rec.ops[o].order <= top /\ rec.ops[o].order \in Nat
  BY <1>6, RecordFields DEF orders
<1> QED BY <1>7, <1>8, <1>9

(* The transition Engine.apply builds around what its caller wrote. *)
LEMMA TransitionSent ==
    ASSUME NEW rec \in Record, NEW s, NEW cursor \in Cursor, NEW written,
           NEW failure \in BOOLEAN, NEW outcome \in Outcomes, NEW output \in Blob,
           \A w \in written : IsWrite(w) /\ Resolves(w)
                              /\ \A o \in Ops : rec.ops[o].order < w.op.order,
           \A v, w \in written : v = w,
           cursor.step # NoStep =>
             /\ cursor.phase = rec.phase /\ written = {}
             /\ rec.ops[<<cursor.step, rec.phase>>].status \in {"none", "unresolved"},
           outcome # "none" => cursor.step = NoStep /\ s = NoStep
    PROVE  Sent(rec, s, Transition(rec, cursor, written, failure, outcome, output))
<1> DEFINE fl == Flush(rec, cursor.step, written)
           t == Transition(rec, cursor, written, failure, outcome, output)
<1>1. /\ t.cursor = cursor /\ t.ops = written \cup fl /\ t.failure = failure
      /\ t.outcome = outcome /\ t.output = output
  BY DEF Transition
<1>2. ASSUME NEW w \in fl
      PROVE  /\ IsWrite(w) /\ w.op = rec.ops[<<w.step, w.phase>>] /\ w.op.status = "unresolved"
             /\ w.step # cursor.step
             /\ \A v \in written : ~(v.step = w.step /\ v.phase = w.phase)
  <2>1. PICK o \in Ops : /\ w = OpWrite(o[1], o[2], rec.ops[o])
                         /\ rec.ops[o].status = "unresolved" /\ o[1] # cursor.step
                         /\ \A v \in written : <<v.step, v.phase>> # o
    BY <1>2 DEF Flush
  <2>2. w.step = o[1] /\ w.phase = o[2] /\ w.op = rec.ops[o]
        /\ w = [step |-> w.step, phase |-> w.phase, op |-> w.op]
    BY <2>1 DEF OpWrite
  <2>3. o = <<w.step, w.phase>> /\ w.step \in Steps /\ w.phase \in Phases /\ w.op \in Op
    BY <2>2, OpPairs, RecordFields
  <2> QED BY <2>1, <2>2, <2>3 DEF IsWrite
<1>3. ASSUME NEW o \in Ops, rec.ops[o].status = "unresolved", o[1] # cursor.step
      PROVE  \E w \in written \cup fl : w.step = o[1] /\ w.phase = o[2]
  <2>1. CASE \E w \in written : <<w.step, w.phase>> = o
    BY <2>1
  <2>2. CASE \A w \in written : <<w.step, w.phase>> # o
    <3> DEFINE w == OpWrite(o[1], o[2], rec.ops[o])
    <3>1. w \in fl
      BY <1>3, <2>2 DEF Flush
    <3>2. w.step = o[1] /\ w.phase = o[2]
      BY DEF OpWrite
    <3> QED BY <3>1, <3>2
  <2> QED BY <2>1, <2>2
<1> HIDE DEF fl
<1>4. ASSUME NEW v \in fl, NEW w \in fl, v.step = w.step, v.phase = w.phase PROVE v = w
  <2>1. /\ v.op = rec.ops[<<v.step, v.phase>>] /\ w.op = rec.ops[<<w.step, w.phase>>]
        /\ IsWrite(v) /\ IsWrite(w)
    BY <1>2
  <2>2. v.op = w.op
    BY <1>4, <2>1
  <2>3. /\ v = [step |-> v.step, phase |-> v.phase, op |-> v.op]
        /\ w = [step |-> w.step, phase |-> w.phase, op |-> w.op]
    BY <2>1 DEF IsWrite
  <2> QED BY <1>4, <2>2, <2>3, Zenon
<1>5. \A w \in fl : ~Resolves(w)
  BY <1>2 DEF Resolves
<1>6. \A v, w \in t.ops : v.step = w.step /\ v.phase = w.phase => v = w
  BY <1>1, <1>2, <1>4
<1>7. \A w \in t.ops : IF Resolves(w) THEN \A o \in Ops : rec.ops[o].order < w.op.order
                       ELSE w.op = rec.ops[<<w.step, w.phase>>] /\ w.op.status = "unresolved"
  BY <1>1, <1>2, <1>5
<1>8. \A v, w \in t.ops : Resolves(v) /\ Resolves(w) => v = w
  BY <1>1, <1>5
<1>9. cursor.step # NoStep => \A w \in t.ops : w.step # cursor.step
  BY <1>1, <1>2
<1> HIDE DEF t
<1>10. \A w \in t.ops : IsWrite(w)
  BY <1>1, <1>2
<1>11. \A o \in Ops : rec.ops[o].status = "unresolved" /\ o[1] # t.cursor.step
                        => \E w \in t.ops : w.step = o[1] /\ w.phase = o[2]
  BY <1>1, <1>3
<1>12. Sent(rec, s, t)
  BY <1>1, <1>6, <1>7, <1>8, <1>9, <1>10, <1>11 DEF Sent
<1> QED BY <1>12 DEF t

LEMMA CandidateSteps ==
    ASSUME NEW rec \in Record, NEW r \in Runs, NEW c \in Candidates(rec, StepsOf[r])
    PROVE  c \in Steps /\ rec.ops[<<c, rec.phase>>].status \in {"none", "unresolved"}
<1>1. StepsOf[r] \in Seq(Steps)
  BY StepsAssumption
<1>2. PICK i \in DOMAIN StepsOf[r] :
        c = StepsOf[r][i] /\ rec.ops[<<c, rec.phase>>].status \in {"none", "unresolved"}
  BY DEF Candidates
<1> QED BY <1>1, <1>2

(* A resolution of the operation of Step s. *)
LEMMA ResolvedWrite ==
    ASSUME NEW rec \in Record, NEW s \in Steps, NEW st \in {"succeeded", "failed"},
           NEW state \in Blob
    PROVE  LET w == Resolved(rec, s, st, state)
           IN  IsWrite(w) /\ Resolves(w) /\ \A o \in Ops : rec.ops[o].order < w.op.order
<1> DEFINE w == Resolved(rec, s, st, state)
           n == NextOrder(rec)
           x == rec.ops[<<s, rec.phase>>]
           op == [x EXCEPT !.status = st, !.state = state, !.order = n]
<1>1. rec.phase \in Phases /\ <<s, rec.phase>> \in Ops /\ x \in Op
  BY RecordFields, OpPairs
<1>2. n \in Nat /\ \A o \in Ops : rec.ops[o].order < n
  BY <1>1, NextOrderAbove
<1>3. w = [step |-> s, phase |-> rec.phase, op |-> op]
  BY DEF Resolved, OpWrite
<1> HIDE DEF n, x
<1>4. op \in Op /\ op.status = st /\ op.order = n
  BY <1>1, <1>2 DEF Op, OpStatus
<1> HIDE DEF op, w
<1>5. w.step = s /\ w.phase = rec.phase /\ w.op = op
  BY <1>3
<1>6. w = [step |-> w.step, phase |-> w.phase, op |-> w.op]
  BY <1>3, <1>5
<1>7. IsWrite(w) /\ Resolves(w) /\ \A o \in Ops : rec.ops[o].order < w.op.order
  BY <1>1, <1>2, <1>4, <1>5, <1>6 DEF IsWrite, Resolves
<1> QED BY <1>7 DEF w

LEMMA IdleCursorType ==
    ASSUME NEW p \in Phases, NEW n \in Times
    PROVE  IdleCursor(p, n) \in Cursor /\ IdleCursor(p, n).step = NoStep
BY DEF IdleCursor, Cursor

LEMMA ActiveCursorType ==
    ASSUME NEW rec \in Record, NEW c \in Steps, NEW a \in Nat, NEW b \in BOOLEAN, NEW n \in Times
    PROVE  LET cur == ActiveCursor(rec, c, a, b, n)
           IN  cur \in Cursor /\ cur.step = c /\ cur.phase = rec.phase
BY RecordFields DEF ActiveCursor, Cursor

LEMMA FailedSent ==
    ASSUME NEW rec \in Record, NEW s, NEW c \in Steps, NEW n \in Times
    PROVE  Sent(rec, s, Failed(rec, c, n))
<1> DEFINE w == Resolved(rec, c, "failed", "none")
           f == rec.phase = "forward"
           cur == IdleCursor("unwind", n)
<1>1. IsWrite(w) /\ Resolves(w) /\ \A o \in Ops : rec.ops[o].order < w.op.order
  BY ResolvedWrite DEF Blob
<1>2. cur \in Cursor /\ cur.step = NoStep
  BY IdleCursorType DEF Phases
<1>3. f \in BOOLEAN /\ "none" \in Outcomes /\ "none" \in Blob
  BY DEF Outcomes, Blob
<1>4. Failed(rec, c, n) = Transition(rec, cur, {w}, f, "none", "none")
  BY DEF Failed
<1> HIDE DEF w, f, cur
<1>5. Sent(rec, s, Transition(rec, cur, {w}, f, "none", "none"))
  BY <1>1, <1>2, <1>3, TransitionSent
<1> QED BY <1>4, <1>5

LEMMA SucceededSent ==
    ASSUME NEW rec \in Record, NEW s, NEW c \in Steps, NEW n \in Times
    PROVE  Sent(rec, s, Succeeded(rec, c, n))
<1> DEFINE b == IF rec.phase = "forward" THEN StateOf[c] ELSE "none"
           w == Resolved(rec, c, "succeeded", b)
           cur == IdleCursor(rec.phase, n)
<1>1. b \in Blob
  BY BlobsAssumption DEF Blob
<1>2. Succeeded(rec, c, n) = Transition(rec, cur, {w}, FALSE, "none", "none")
  BY DEF Succeeded
<1> HIDE DEF b
<1>3. IsWrite(w) /\ Resolves(w) /\ \A o \in Ops : rec.ops[o].order < w.op.order
  BY <1>1, ResolvedWrite
<1>4. cur \in Cursor /\ cur.step = NoStep
  BY IdleCursorType, RecordFields
<1>5. "none" \in Outcomes /\ "none" \in Blob
  BY DEF Outcomes, Blob
<1> HIDE DEF w, cur
<1>6. Sent(rec, s, Transition(rec, cur, {w}, FALSE, "none", "none"))
  BY <1>3, <1>4, <1>5, TransitionSent
<1> QED BY <1>2, <1>6

(* Every transition an Engine sends for a Run whose operation in flight is  *)
(* read as unresolved.                                                      *)
LEMMA TransitionsSent ==
    ASSUME NEW rec \in Record, NEW r \in Runs, NEW s \in Steps \cup {NoStep}, NEW n \in Times,
           s # NoStep => rec.ops[<<s, rec.phase>>].status = "unresolved",
           NEW t \in Transitions(rec, StepsOf[r], s, n)
    PROVE  Sent(rec, s, t)
<1>0. rec.phase \in Phases /\ "none" \in Outcomes /\ "none" \in Blob
  BY RecordFields DEF Outcomes, Blob
<1>1. ASSUME NEW c \in Steps, NEW b \in BOOLEAN, NEW a \in Nat,
             rec.ops[<<c, rec.phase>>].status \in {"none", "unresolved"}
      PROVE  Sent(rec, s, Transition(rec, ActiveCursor(rec, c, a, b, n), {}, FALSE, "none", "none"))
  <2> DEFINE cur == ActiveCursor(rec, c, a, b, n)
  <2>1. cur \in Cursor /\ cur.step = c /\ cur.phase = rec.phase
    BY ActiveCursorType
  <2> HIDE DEF cur
  <2>2. Sent(rec, s, Transition(rec, cur, {}, FALSE, "none", "none"))
    BY <1>0, <1>1, <2>1, TransitionSent
  <2> QED BY <2>2 DEF cur
<1>2. CASE t \in Reservations(rec, StepsOf[r], n)
  <2>1. PICK c \in Candidates(rec, StepsOf[r]) :
          t = Transition(rec, ActiveCursor(rec, c, rec.ops[<<c, rec.phase>>].attempts + 1, FALSE, n),
                         {}, FALSE, "none", "none")
    BY <1>2 DEF Reservations
  <2>2. c \in Steps /\ rec.ops[<<c, rec.phase>>].status \in {"none", "unresolved"}
    BY CandidateSteps
  <2>3. rec.ops[<<c, rec.phase>>].attempts + 1 \in Nat
    BY <1>0, <2>2, OpPairs, RecordFields
  <2> QED BY <1>1, <2>1, <2>2, <2>3
<1>3. CASE t \in Cancellations(rec, StepsOf[r], n)
  <2>1. PICK c \in Candidates(rec, StepsOf[r]) : t = Failed(rec, c, n)
    BY <1>3 DEF Cancellations
  <2>2. c \in Steps
    BY CandidateSteps
  <2> QED BY <2>1, <2>2, FailedSent
<1>4. CASE s = NoStep /\ t \in Completions(rec, n)
  <2> DEFINE out == IF rec.failure THEN "failure" ELSE "success"
             cur == IdleCursor(rec.phase, n)
  <2>1. PICK b \in Outputs : t = Transition(rec, cur, {}, FALSE, out, b)
    BY <1>4 DEF Completions
  <2>2. b \in Blob /\ out \in Outcomes
    BY BlobsAssumption DEF Blob, Outcomes
  <2>3. cur \in Cursor /\ cur.step = NoStep
    BY <1>0, IdleCursorType
  <2> HIDE DEF out, cur
  <2>4. Sent(rec, s, Transition(rec, cur, {}, FALSE, out, b))
    BY <1>4, <2>2, <2>3, TransitionSent
  <2> QED BY <2>1, <2>4
<1>5. CASE s # NoStep /\ t \in Retries(rec, s, n)
  <2>1. t = Transition(rec, ActiveCursor(rec, s, rec.ops[<<s, rec.phase>>].attempts, TRUE, n),
                       {}, FALSE, "none", "none")
    BY <1>5 DEF Retries
  <2>2. s \in Steps
    BY <1>5
  <2>3. rec.ops[<<s, rec.phase>>].attempts \in Nat
    BY <1>0, <2>2, OpPairs, RecordFields
  <2> QED BY <1>1, <1>5, <2>1, <2>2, <2>3
<1>6. CASE s # NoStep /\ t \in {Succeeded(rec, s, n), Failed(rec, s, n)}
  BY <1>6, SucceededSent, FailedSent
<1> QED BY <1>2, <1>3, <1>4, <1>5, <1>6 DEF Transitions
-----------------------------------------------------------------------------
(* The rows of the buckets between two transactions.                        *)

Fields == {"meta", "cancel", "failure", "input", "ops", "states", "cursor", "terminal",
           "output", "expiry", "staged", "slots"}
Shape(d) == DOMAIN d = Fields /\ d = [f \in DOMAIN d |-> d[f]]

Typed(d) ==
    /\ d.meta \subseteq Runs /\ d.failure \subseteq Runs /\ d.staged \subseteq Runs
    /\ d.expiry \subseteq Times \X Runs
    /\ IsMap(d.cancel, Runs, Causes) /\ IsMap(d.input, Runs, Blob)
    /\ IsMap(d.ops, OpKeys, Op) /\ IsMap(d.states, StateKeys, {"large"})
    /\ IsMap(d.cursor, Runs, Cursor) /\ IsMap(d.terminal, Runs, Record)
    /\ IsMap(d.output, Runs, {"large"}) /\ IsMap(d.slots, Slots, Runs)

(* A Run in the stage has a cursor, and no row of the stage is without it. *)
StageRows(d) ==
    /\ DOMAIN d.cursor = d.meta
    /\ d.failure \subseteq d.meta /\ DOMAIN d.cancel \subseteq d.meta
    /\ DOMAIN d.input \subseteq d.meta
    /\ \A k \in DOMAIN d.ops : k[1] \in d.meta

(* The staged bucket names the terminal Runs whose stage lingers, and the   *)
(* expiry index and the outputs follow the terminal rows.                   *)
EndRows(d) ==
    /\ d.staged = d.meta \cap DOMAIN d.terminal
    /\ d.expiry = {<<d.terminal[r].updatedAt, r>> : r \in DOMAIN d.terminal}
    /\ DOMAIN d.output \subseteq DOMAIN d.terminal
    /\ \A r \in DOMAIN d.terminal :
         /\ d.terminal[r].outcome # "none" /\ d.terminal[r].input = "none"
         /\ r \in DOMAIN d.output => d.terminal[r].output = "none"

(* The slots are those of the Runs without an outcome. *)
SlotRows(d) ==
    /\ \A s \in DOMAIN d.slots : /\ d.slots[s] \in d.meta \ DOMAIN d.terminal
                                 /\ SlotOf[d.slots[s]] = s
    /\ \A r \in d.meta \ DOMAIN d.terminal :
         SlotOf[r] \in DOMAIN d.slots /\ d.slots[SlotOf[r]] = r

(* One row per operation, under its order, which is its own once resolved.  *)
OperationRows(d) ==
    /\ \A k \in DOMAIN d.ops : /\ d.ops[k].order = k[2] /\ d.ops[k].status # "none"
                               /\ d.ops[k].status = "unresolved" => k[2] = 0
    /\ \A j, k \in DOMAIN d.ops : j[1] = k[1] /\ j[3] = k[3] /\ j[4] = k[4] => j = k
    /\ \A j, k \in DOMAIN d.ops : j[1] = k[1] /\ j[2] = k[2] /\ j # k => j[2] = 0
    /\ \A k \in DOMAIN d.states : /\ <<k[1], k[2], k[3], "forward">> \in DOMAIN d.ops
                                  /\ d.ops[<<k[1], k[2], k[3], "forward">>].state = "none"

(* The operation a cursor names has not been resolved. *)
CursorRows(d) ==
    \A r \in d.meta :
      \A k \in OpRows(d, r, <<d.cursor[r].step, d.cursor[r].phase>>) :
        d.ops[k].status = "unresolved"

Sound(d) == /\ Shape(d) /\ Typed(d) /\ StageRows(d) /\ EndRows(d) /\ SlotRows(d)
            /\ OperationRows(d) /\ CursorRows(d)

LEMMA KeyParts ==
    /\ \A k \in OpKeys : /\ k = <<k[1], k[2], k[3], k[4]>> /\ k[1] \in Runs /\ k[2] \in Nat
                         /\ k[3] \in Steps /\ k[4] \in Phases
    /\ \A k \in StateKeys : /\ k = <<k[1], k[2], k[3]>> /\ k[1] \in Runs /\ k[2] \in Nat
                            /\ k[3] \in Steps
    /\ \A r \in Runs, n \in Nat, s \in Steps, p \in Phases : <<r, n, s, p>> \in OpKeys
    /\ \A r \in Runs, n \in Nat, s \in Steps : <<r, n, s>> \in StateKeys
BY DEF OpKeys, StateKeys

(* An operation without a row, and one with its row. *)
LEMMA ReadNoRow ==
    ASSUME NEW d, NEW r, NEW o, OpRows(d, r, o) = {}
    PROVE  ReadOp(d, r, o) = NoOp
BY DEF ReadOp

LEMMA ReadRow ==
    ASSUME NEW d, Typed(d), OperationRows(d), NEW r, NEW o, NEW k \in OpRows(d, r, o)
    PROVE  /\ OpRows(d, r, o) = {k}
           /\ ReadOp(d, r, o) = IF o[2] = "forward" /\ <<k[1], k[2], k[3]>> \in DOMAIN d.states
                                  THEN [d.ops[k] EXCEPT !.state = d.states[<<k[1], k[2], k[3]>>]]
                                  ELSE d.ops[k]
<1>1. k \in DOMAIN d.ops /\ k[1] = r /\ k[3] = o[1] /\ k[4] = o[2]
  BY DEF OpRows
<1>2. OpRows(d, r, o) = {k}
  BY <1>1 DEF OpRows, OperationRows
<1>3. k \in OpKeys
  BY <1>1 DEF Typed, IsMap
<1>4. k[2] \in Nat
  BY <1>3, KeyParts
<1>5. LastRow({k}) = k
  BY <1>4 DEF LastRow
<1> QED BY <1>2, <1>5, Zenon DEF ReadOp

(* A record read from rows is an operation record; it keeps what the row    *)
(* says of status and order.                                                *)
LEMMA ReadType ==
    ASSUME NEW d, Typed(d), OperationRows(d), NEW r, NEW o
    PROVE  /\ ReadOp(d, r, o) \in Op
           /\ \A k \in OpRows(d, r, o) : /\ ReadOp(d, r, o).status = d.ops[k].status
                                         /\ ReadOp(d, r, o).order = k[2]
           /\ OpRows(d, r, o) = {} => ReadOp(d, r, o) = NoOp
<1>1. CASE OpRows(d, r, o) = {}
  <2>1. NoOp \in Op
    BY DEF NoOp, Op, OpStatus, Blob
  <2> QED BY <1>1, <2>1, ReadNoRow
<1>2. ASSUME NEW k \in OpRows(d, r, o)
      PROVE  /\ ReadOp(d, r, o) \in Op
             /\ ReadOp(d, r, o).status = d.ops[k].status /\ ReadOp(d, r, o).order = k[2]
  <2>1. k \in DOMAIN d.ops
    BY DEF OpRows
  <2>2. d.ops[k] \in Op /\ d.ops[k].order = k[2]
    BY <2>1 DEF Typed, IsMap, OperationRows
  <2>3. ASSUME <<k[1], k[2], k[3]>> \in DOMAIN d.states
        PROVE  d.states[<<k[1], k[2], k[3]>>] = "large"
    BY <2>3 DEF Typed, IsMap
  <2>4. \/ ReadOp(d, r, o) = d.ops[k] \/ ReadOp(d, r, o) = [d.ops[k] EXCEPT !.state = "large"]
    BY <2>3, ReadRow
  <2>5. [d.ops[k] EXCEPT !.state = "large"] \in Op
    BY <2>2 DEF Op, Blob
  <2>6. /\ [d.ops[k] EXCEPT !.state = "large"].status = d.ops[k].status
        /\ [d.ops[k] EXCEPT !.state = "large"].order = d.ops[k].order
    BY <2>2 DEF Op
  <2> QED BY <2>2, <2>4, <2>5, <2>6
<1> QED BY <1>1, <1>2

(* Reads see the rows of their Run only. *)
SameRows(d, e, q) ==
    /\ \A k : k[1] = q => /\ k \in DOMAIN e.ops <=> k \in DOMAIN d.ops
                          /\ k \in DOMAIN d.ops => e.ops[k] = d.ops[k]
    /\ \A k : k[1] = q => /\ k \in DOMAIN e.states <=> k \in DOMAIN d.states
                          /\ k \in DOMAIN d.states => e.states[k] = d.states[k]

LEMMA SameRead ==
    ASSUME NEW d, Typed(d), OperationRows(d), NEW e, NEW q, SameRows(d, e, q), NEW o
    PROVE  ReadOp(e, q, o) = ReadOp(d, q, o)
<1>1. OpRows(e, q, o) = OpRows(d, q, o)
  BY DEF OpRows, SameRows
<1>2. CASE OpRows(d, q, o) = {}
  BY <1>1, <1>2, ReadNoRow
<1>3. CASE OpRows(d, q, o) # {}
  <2>0. LastRow(OpRows(d, q, o)) \in OpRows(d, q, o)
    <3>1. PICK k \in OpRows(d, q, o) : TRUE
      BY <1>3
    <3>2. OpRows(d, q, o) = {k}
      BY ReadRow
    <3>3. k[2] \in Nat
      BY KeyParts DEF OpRows, Typed, IsMap
    <3>4. LastRow({k}) = k
      BY <3>3 DEF LastRow
    <3> QED BY <3>2, <3>4
  <2> DEFINE k == LastRow(OpRows(d, q, o))
             b == <<k[1], k[2], k[3]>>
  <2>1. k[1] = q /\ k \in DOMAIN d.ops
    BY <2>0 DEF OpRows
  <2>2. b[1] = q
    BY <2>1
  <2> HIDE DEF k, b
  <2>3. /\ e.ops[k] = d.ops[k]
        /\ b \in DOMAIN e.states <=> b \in DOMAIN d.states
        /\ b \in DOMAIN d.states => e.states[b] = d.states[b]
    BY <2>1, <2>2 DEF SameRows
  <2>4. /\ ReadOp(d, q, o) = IF o[2] = "forward" /\ b \in DOMAIN d.states
                               THEN [d.ops[k] EXCEPT !.state = d.states[b]] ELSE d.ops[k]
        /\ ReadOp(e, q, o) = IF o[2] = "forward" /\ b \in DOMAIN e.states
                               THEN [e.ops[k] EXCEPT !.state = e.states[b]] ELSE e.ops[k]
    BY <1>1, <1>3, Zenon DEF ReadOp, k, b
  <2> QED BY <2>3, <2>4
<1> QED BY <1>2, <1>3

(* The cursor's operation reads as unresolved, the others as they are. *)
LEMMA Overlaid ==
    ASSUME NEW ops \in [Ops -> Op], NEW cur \in Cursor
    PROVE  /\ OverlayCursor(ops, cur) \in [Ops -> Op]
           /\ \A o \in Ops : o # <<cur.step, cur.phase>> => OverlayCursor(ops, cur)[o] = ops[o]
           /\ cur.step # NoStep =>
                /\ <<cur.step, cur.phase>> \in Ops
                /\ OverlayCursor(ops, cur)[<<cur.step, cur.phase>>] =
                     [ops[<<cur.step, cur.phase>>] EXCEPT !.status = "unresolved",
                                                          !.attempts = cur.attempts]
<1>0. cur.step \in Steps \cup {NoStep} /\ cur.phase \in Phases /\ cur.attempts \in Nat
  BY DEF Cursor
<1>1. CASE cur.step = NoStep
  BY <1>1 DEF OverlayCursor
<1>2. CASE cur.step # NoStep
  <2> DEFINE c == <<cur.step, cur.phase>>
             x == [ops[c] EXCEPT !.status = "unresolved", !.attempts = cur.attempts]
  <2>1. c \in Ops
    BY <1>0, <1>2, OpPairs
  <2>2. x \in Op
    <3>1. ops[c] \in Op
      BY <2>1
    <3> QED BY <1>0, <3>1 DEF Op, OpStatus
  <2>3. OverlayCursor(ops, cur) = [ops EXCEPT ![c] = x]
    BY <1>2 DEF OverlayCursor
  <2> HIDE DEF c, x
  <2>4. /\ [ops EXCEPT ![c] = x] \in [Ops -> Op] /\ [ops EXCEPT ![c] = x][c] = x
        /\ \A o \in Ops : o # c => [ops EXCEPT ![c] = x][o] = ops[o]
    BY <2>1, <2>2
  <2> QED BY <2>1, <2>3, <2>4 DEF c, x
<1> QED BY <1>1, <1>2

(* A record's operations are the rows, but for the one its cursor names. *)
ReadsAs(ops, cur, d, r) ==
    /\ \A o \in Ops : o # <<cur.step, cur.phase>> => ops[o] = ReadOp(d, r, o)
    /\ cur.step # NoStep =>
         /\ <<cur.step, cur.phase>> \in Ops
         /\ ops[<<cur.step, cur.phase>>] = [ReadOp(d, r, <<cur.step, cur.phase>>) EXCEPT
                                             !.status = "unresolved", !.attempts = cur.attempts]

(* What GetRun returns of a Run without an outcome. *)
LEMMA Unfinished ==
    ASSUME NEW d, Sound(d), NEW r \in d.meta
    PROVE  /\ GetNonterminal(d, r) \in Record /\ d.cursor[r] \in Cursor
           /\ GetNonterminal(d, r).phase = d.cursor[r].phase
           /\ GetNonterminal(d, r).outcome = "none"
           /\ ReadsAs(GetNonterminal(d, r).ops, d.cursor[r], d, r)
<1> DEFINE cur == d.cursor[r]
           read == [o \in Ops |-> ReadOp(d, r, o)]
           ops == OverlayCursor(read, cur)
           inp == Get(d.input, r, "none")
           fail == r \in d.failure
           can == Get(d.cancel, r, NoCause)
           rec == GetNonterminal(d, r)
<1>1. Typed(d) /\ OperationRows(d) /\ StageRows(d)
  BY DEF Sound
<1>2. cur \in Cursor
  BY <1>1 DEF Typed, StageRows, IsMap
<1>3. read \in [Ops -> Op] /\ \A o \in Ops : read[o] = ReadOp(d, r, o)
  BY <1>1, ReadType
<1>4. /\ ops \in [Ops -> Op]
      /\ \A o \in Ops : o # <<cur.step, cur.phase>> => ops[o] = read[o]
      /\ cur.step # NoStep => /\ <<cur.step, cur.phase>> \in Ops
                              /\ ops[<<cur.step, cur.phase>>] =
                                   [read[<<cur.step, cur.phase>>] EXCEPT
                                      !.status = "unresolved", !.attempts = cur.attempts]
  <2> HIDE DEF read, cur
  <2> QED BY <1>2, <1>3, Overlaid
<1>5. inp \in Blob /\ can \in Causes \cup {NoCause} /\ fail \in BOOLEAN
  BY <1>1 DEF Get, Typed, IsMap, Blob
<1>6. rec = [input |-> inp, phase |-> cur.phase, sched |-> cur.sched,
             updatedAt |-> cur.updatedAt, ops |-> ops, failure |-> fail, cancel |-> can,
             outcome |-> "none", output |-> "none"]
  BY DEF GetNonterminal
<1> HIDE DEF ops, inp, fail, can, rec, cur, read
<1>7. /\ rec.phase = cur.phase /\ rec.outcome = "none" /\ rec.ops = ops
  BY <1>6
<1>8. rec \in Record
  <2>1. cur.phase \in Phases /\ cur.sched \in BOOLEAN /\ cur.updatedAt \in Times
    BY <1>2 DEF Cursor
  <2>2. "none" \in Outcomes /\ "none" \in Blob
    BY DEF Outcomes, Blob
  <2> QED BY <1>4, <1>5, <1>6, <2>1, <2>2 DEF Record
<1>9. cur.step # NoStep => <<cur.step, cur.phase>> \in Ops /\ rec.ops[<<cur.step, cur.phase>>] =
        [ReadOp(d, r, <<cur.step, cur.phase>>) EXCEPT !.status = "unresolved", !.attempts = cur.attempts]
  BY <1>3, <1>4, <1>7
<1>10. \A o \in Ops : o # <<cur.step, cur.phase>> => rec.ops[o] = ReadOp(d, r, o)
  BY <1>3, <1>4, <1>7
<1>11. ReadsAs(rec.ops, cur, d, r)
  BY <1>9, <1>10 DEF ReadsAs
<1> QED BY <1>2, <1>7, <1>8, <1>11 DEF rec, cur

LEMMA SameUnfinished ==
    ASSUME NEW d, Typed(d), OperationRows(d), NEW e, NEW q, SameRows(d, e, q),
           e.cursor[q] = d.cursor[q], Get(e.input, q, "none") = Get(d.input, q, "none"),
           q \in e.failure <=> q \in d.failure,
           Get(e.cancel, q, NoCause) = Get(d.cancel, q, NoCause)
    PROVE  GetNonterminal(e, q) = GetNonterminal(d, q)
<1>1. \A o \in Ops : ReadOp(e, q, o) = ReadOp(d, q, o)
  BY SameRead
<1>2. [o \in Ops |-> ReadOp(e, q, o)] = [o \in Ops |-> ReadOp(d, q, o)]
  BY <1>1
<1>3. (q \in e.failure) = (q \in d.failure)
  OBVIOUS
<1> QED BY <1>2, <1>3, Zenon DEF GetNonterminal

(* What the contract sees of the buckets. *)
Seen(d) == [r \in {q \in Runs : IsKnown(d, q)} |-> GetRun(d, r)]
Flying(d) == [r \in {q \in DOMAIN d.cursor : ~IsTerminal(d, q) /\ d.cursor[q].step # NoStep}
                |-> d.cursor[r].step]

(* The record of a Run does not depend on the other rows. *)
LEMMA SameRun ==
    ASSUME NEW d, Typed(d), OperationRows(d), NEW e, NEW q,
           e.terminal = d.terminal, e.output = d.output,
           q \notin DOMAIN d.terminal =>
             /\ SameRows(d, e, q) /\ e.cursor[q] = d.cursor[q]
             /\ Get(e.input, q, "none") = Get(d.input, q, "none")
             /\ q \in e.failure <=> q \in d.failure
             /\ Get(e.cancel, q, NoCause) = Get(d.cancel, q, NoCause)
    PROVE  GetRun(e, q) = GetRun(d, q)
<1>1. CASE q \in DOMAIN d.terminal
  BY <1>1, Zenon DEF GetRun, IsTerminal
<1>2. CASE q \notin DOMAIN d.terminal
  <2>1. GetNonterminal(e, q) = GetNonterminal(d, q)
    BY <1>2, SameUnfinished
  <2> QED BY <1>2, <2>1, Zenon DEF GetRun, IsTerminal
<1> QED BY <1>1, <1>2
-----------------------------------------------------------------------------
(* Deleting the stage of terminal Runs: drainStaged, and reap.              *)

(* e is d without the stage of R. *)
Unstaged(d, e, R) ==
    /\ Shape(e)
    /\ e.meta = d.meta \ R /\ e.cancel = Delete(d.cancel, R)
    /\ e.failure = d.failure \ R /\ e.input = Delete(d.input, R)
    /\ e.cursor = Delete(d.cursor, R)
    /\ e.ops = Delete(d.ops, {k \in DOMAIN d.ops : k[1] \in R})
    /\ e.states = Delete(d.states, {k \in DOMAIN d.states : k[1] \in R})
    /\ e.slots = d.slots

LEMMA DeleteStageFields ==
    ASSUME NEW d, Shape(d), NEW R
    PROVE  /\ Unstaged(d, DeleteStage(d, R), R) /\ DeleteStage(d, R).staged = d.staged
           /\ DeleteStage(d, R).terminal = d.terminal /\ DeleteStage(d, R).output = d.output
           /\ DeleteStage(d, R).expiry = d.expiry
<1> DEFINE e == DeleteStage(d, R)
<1>1. /\ Shape(e)
      /\ e.meta = d.meta \ R /\ e.cancel = Delete(d.cancel, R)
      /\ e.failure = d.failure \ R /\ e.input = Delete(d.input, R)
      /\ e.cursor = Delete(d.cursor, R)
      /\ e.ops = Delete(d.ops, {k \in DOMAIN d.ops : k[1] \in R})
      /\ e.states = Delete(d.states, {k \in DOMAIN d.states : k[1] \in R})
      /\ e.terminal = d.terminal /\ e.output = d.output /\ e.expiry = d.expiry
      /\ e.staged = d.staged /\ e.slots = d.slots
  BY DEF Shape, DeleteStage, Fields
<1> HIDE DEF e
<1>2. Unstaged(d, e, R)
  BY <1>1 DEF Unstaged
<1> QED BY <1>1, <1>2 DEF e

LEMMA DrainFields ==
    ASSUME NEW d, Shape(d), NEW R
    PROVE  /\ Unstaged(d, DrainStaged(d, R), R) /\ DrainStaged(d, R).staged = d.staged \ R
           /\ DrainStaged(d, R).terminal = d.terminal /\ DrainStaged(d, R).output = d.output
           /\ DrainStaged(d, R).expiry = d.expiry
<1> DEFINE c == DeleteStage(d, R)
           e == DrainStaged(d, R)
<1>1. /\ Unstaged(d, c, R) /\ c.staged = d.staged /\ Shape(c)
      /\ c.terminal = d.terminal /\ c.output = d.output /\ c.expiry = d.expiry
  <2>1. Unstaged(d, c, R)
    BY DeleteStageFields
  <2>2. Shape(c)
    BY <2>1 DEF Unstaged
  <2> QED BY <2>1, <2>2, DeleteStageFields
<1>2. e = [c EXCEPT !.staged = @ \ R]
  BY DEF DrainStaged
<1> HIDE DEF c, e
<1>3. /\ Shape(e) /\ e.staged = c.staged \ R /\ e.meta = c.meta /\ e.cancel = c.cancel
      /\ e.failure = c.failure /\ e.input = c.input /\ e.cursor = c.cursor /\ e.ops = c.ops
      /\ e.states = c.states /\ e.terminal = c.terminal /\ e.output = c.output
      /\ e.expiry = c.expiry /\ e.slots = c.slots
  BY <1>1, <1>2 DEF Shape, Fields
<1>4. Unstaged(d, e, R)
  BY <1>1, <1>3 DEF Unstaged
<1> QED BY <1>1, <1>3, <1>4 DEF e

(* The rows of Runs outside R are as they were. *)
LEMMA UnstagedRows ==
    ASSUME NEW d, Sound(d), NEW R, NEW e, Unstaged(d, e, R), NEW q, q \notin R
    PROVE  /\ SameRows(d, e, q)
           /\ q \in DOMAIN d.cursor => q \in DOMAIN e.cursor /\ e.cursor[q] = d.cursor[q]
           /\ Get(e.input, q, "none") = Get(d.input, q, "none")
           /\ q \in e.failure <=> q \in d.failure
           /\ Get(e.cancel, q, NoCause) = Get(d.cancel, q, NoCause)
<1>1. SameRows(d, e, q)
  BY DEF SameRows, Unstaged, Delete
<1>2. q \in DOMAIN d.cursor => q \in DOMAIN e.cursor /\ e.cursor[q] = d.cursor[q]
  BY DEF Unstaged, Delete
<1>3. Get(e.input, q, "none") = Get(d.input, q, "none")
  BY DEF Unstaged, Delete, Get
<1>4. Get(e.cancel, q, NoCause) = Get(d.cancel, q, NoCause)
  BY DEF Unstaged, Delete, Get
<1>5. q \in e.failure <=> q \in d.failure
  BY DEF Unstaged
<1> QED BY <1>1, <1>2, <1>3, <1>4, <1>5

LEMMA UnstagedSound ==
    ASSUME NEW d, Sound(d), NEW R, NEW e, Unstaged(d, e, R), EndRows(e),
           e.meta \ DOMAIN e.terminal = d.meta \ DOMAIN d.terminal,
           IsMap(e.terminal, Runs, Record), IsMap(e.output, Runs, {"large"}),
           e.staged \subseteq Runs, e.expiry \subseteq Times \X Runs
    PROVE  Sound(e)
<1>0. Typed(d) /\ StageRows(d) /\ OperationRows(d) /\ CursorRows(d) /\ SlotRows(d)
  BY DEF Sound
<1>1. Shape(e)
  BY DEF Unstaged
<1>2. Typed(e)
  <2>1. /\ IsMap(e.cancel, Runs, Causes) /\ IsMap(e.input, Runs, Blob)
        /\ IsMap(e.ops, OpKeys, Op) /\ IsMap(e.states, StateKeys, {"large"})
        /\ IsMap(e.cursor, Runs, Cursor)
    BY <1>0, DeletedMap DEF Typed, Unstaged
  <2>2. /\ e.meta \subseteq Runs /\ e.failure \subseteq Runs /\ e.slots = d.slots
    BY <1>0 DEF Typed, Unstaged
  <2> QED BY <1>0, <2>1, <2>2 DEF Typed
<1>3. /\ DOMAIN e.cursor = DOMAIN d.cursor \ R /\ DOMAIN e.input = DOMAIN d.input \ R
      /\ DOMAIN e.cancel = DOMAIN d.cancel \ R
      /\ DOMAIN e.ops = {k \in DOMAIN d.ops : k[1] \notin R}
      /\ DOMAIN e.states = {k \in DOMAIN d.states : k[1] \notin R}
      /\ \A k \in DOMAIN e.ops : e.ops[k] = d.ops[k]
      /\ \A k \in DOMAIN e.cursor : e.cursor[k] = d.cursor[k]
  BY DEF Unstaged, Delete
<1>4. e.meta = d.meta \ R /\ e.failure = d.failure \ R /\ e.slots = d.slots
  BY DEF Unstaged
<1>5. StageRows(e)
  BY <1>0, <1>3, <1>4 DEF StageRows
<1>6. SlotRows(e)
  BY <1>0, <1>4 DEF SlotRows
<1>7. OperationRows(e)
  <2>1. \A k \in DOMAIN e.ops : /\ e.ops[k].order = k[2] /\ e.ops[k].status # "none"
                                /\ e.ops[k].status = "unresolved" => k[2] = 0
    BY <1>0, <1>3 DEF OperationRows
  <2>2. /\ \A j, k \in DOMAIN e.ops : j[1] = k[1] /\ j[3] = k[3] /\ j[4] = k[4] => j = k
        /\ \A j, k \in DOMAIN e.ops : j[1] = k[1] /\ j[2] = k[2] /\ j # k => j[2] = 0
    BY <1>0, <1>3 DEF OperationRows
  <2>3. ASSUME NEW k \in DOMAIN e.states
        PROVE  /\ <<k[1], k[2], k[3], "forward">> \in DOMAIN e.ops
               /\ e.ops[<<k[1], k[2], k[3], "forward">>].state = "none"
    <3> DEFINE j == <<k[1], k[2], k[3], "forward">>
    <3>1. k \in DOMAIN d.states /\ k[1] \notin R
      BY <1>3
    <3>2. j \in DOMAIN d.ops /\ d.ops[j].state = "none" /\ j[1] = k[1]
      BY <1>0, <3>1 DEF OperationRows
    <3> HIDE DEF j
    <3>3. j \in DOMAIN e.ops /\ e.ops[j].state = "none"
      BY <1>3, <3>1, <3>2
    <3> QED BY <3>3 DEF j
  <2> QED BY <2>1, <2>2, <2>3 DEF OperationRows
<1>8. CursorRows(e)
  <2> SUFFICES ASSUME NEW r \in e.meta,
                      NEW k \in OpRows(e, r, <<e.cursor[r].step, e.cursor[r].phase>>)
               PROVE  e.ops[k].status = "unresolved"
    BY DEF CursorRows
  <2>1. r \in d.meta /\ e.cursor[r] = d.cursor[r]
    BY <1>0, <1>3, <1>4 DEF StageRows
  <2>2. k \in DOMAIN e.ops /\ k \in OpRows(d, r, <<d.cursor[r].step, d.cursor[r].phase>>)
    BY <1>3, <2>1 DEF OpRows
  <2> QED BY <1>0, <1>3, <2>1, <2>2 DEF CursorRows
<1> QED BY <1>1, <1>2, <1>5, <1>6, <1>7, <1>8 DEF Sound

(* A drain is invisible. *)
LEMMA DrainSound ==
    ASSUME NEW d, Sound(d), NEW R, R \subseteq d.staged
    PROVE  /\ Sound(DrainStaged(d, R))
           /\ Seen(DrainStaged(d, R)) = Seen(d) /\ Flying(DrainStaged(d, R)) = Flying(d)
           /\ DrainStaged(d, R).slots = d.slots /\ DrainStaged(d, R).meta \subseteq d.meta
           /\ DrainStaged(d, R).terminal = d.terminal
<1> DEFINE e == DrainStaged(d, R)
<1>0. Typed(d) /\ StageRows(d) /\ OperationRows(d) /\ EndRows(d) /\ Shape(d)
  BY DEF Sound
<1>1. /\ Unstaged(d, e, R) /\ e.staged = d.staged \ R
      /\ e.terminal = d.terminal /\ e.output = d.output /\ e.expiry = d.expiry
  BY <1>0, DrainFields
<1> HIDE DEF e
<1>2. e.meta = d.meta \ R /\ R \subseteq DOMAIN d.terminal
  BY <1>0, <1>1 DEF Unstaged, EndRows
<1>3. EndRows(e)
  BY <1>0, <1>1, <1>2 DEF EndRows
<1>4. Sound(e)
  <2>1. e.meta \ DOMAIN e.terminal = d.meta \ DOMAIN d.terminal
    BY <1>1, <1>2
  <2>2. /\ IsMap(e.terminal, Runs, Record) /\ IsMap(e.output, Runs, {"large"})
        /\ e.staged \subseteq Runs /\ e.expiry \subseteq Times \X Runs
    BY <1>0, <1>1 DEF Typed
  <2> QED BY <1>1, <1>3, <2>1, <2>2, UnstagedSound
<1>5. \A q \in Runs : IsKnown(e, q) <=> IsKnown(d, q)
  BY <1>1, <1>2 DEF IsKnown, IsTerminal
<1>6. ASSUME NEW q \in Runs, IsKnown(d, q) PROVE GetRun(e, q) = GetRun(d, q)
  <2>1. ASSUME q \notin DOMAIN d.terminal
        PROVE  /\ SameRows(d, e, q) /\ e.cursor[q] = d.cursor[q]
               /\ Get(e.input, q, "none") = Get(d.input, q, "none")
               /\ q \in e.failure <=> q \in d.failure
               /\ Get(e.cancel, q, NoCause) = Get(d.cancel, q, NoCause)
    <3>1. q \notin R /\ q \in DOMAIN d.cursor
      BY <1>0, <1>2, <1>6, <2>1 DEF IsKnown, IsTerminal, StageRows
    <3> QED BY <1>1, <3>1, UnstagedRows
  <2> QED BY <1>0, <1>1, <2>1, SameRun
<1>7. Seen(e) = Seen(d)
  BY <1>5, <1>6 DEF Seen
<1>8. Flying(e) = Flying(d)
  <2>1. DOMAIN e.cursor = DOMAIN d.cursor \ R /\ \A q \in DOMAIN d.cursor \ R : e.cursor[q] = d.cursor[q]
    BY <1>1 DEF Unstaged, Delete
  <2>2. {q \in DOMAIN e.cursor : ~IsTerminal(e, q) /\ e.cursor[q].step # NoStep}
          = {q \in DOMAIN d.cursor : ~IsTerminal(d, q) /\ d.cursor[q].step # NoStep}
    BY <1>1, <1>2, <2>1 DEF IsTerminal
  <2> QED BY <2>1, <2>2 DEF Flying
<1>9. e.slots = d.slots
  BY <1>1 DEF Unstaged
<1> QED BY <1>1, <1>2, <1>4, <1>7, <1>8, <1>9 DEF e
-----------------------------------------------------------------------------
(* CreateRun's transaction.                                                 *)

NewCursor(r) == [phase |-> "forward", step |-> NoStep, attempts |-> 0,
                 sched |-> r \in Delayed, updatedAt |-> now]

LEMMA PutRunFields ==
    ASSUME NEW d, Shape(d), NEW r, NEW input
    PROVE  LET e == PutRun(d, r, input)
           IN  /\ Shape(e) /\ e.meta = d.meta \cup {r} /\ e.cursor = Put(d.cursor, r, NewCursor(r))
               /\ e.input = (IF input = "none" THEN d.input ELSE Put(d.input, r, input))
               /\ e.slots = Put(d.slots, SlotOf[r], r)
               /\ e.cancel = d.cancel /\ e.failure = d.failure /\ e.ops = d.ops
               /\ e.states = d.states /\ e.terminal = d.terminal /\ e.output = d.output
               /\ e.expiry = d.expiry /\ e.staged = d.staged
<1> DEFINE inp == IF input = "none" THEN d.input ELSE Put(d.input, r, input)
           e == PutRun(d, r, input)
<1>1. e = [d EXCEPT !.meta = @ \cup {r}, !.input = inp, !.cursor = Put(@, r, NewCursor(r)),
                    !.slots = Put(@, SlotOf[r], r)]
  BY Zenon DEF PutRun, NewCursor
<1> HIDE DEF inp, e
<1>2. /\ Shape(e) /\ e.meta = d.meta \cup {r} /\ e.cursor = Put(d.cursor, r, NewCursor(r))
      /\ e.input = inp /\ e.slots = Put(d.slots, SlotOf[r], r)
      /\ e.cancel = d.cancel /\ e.failure = d.failure /\ e.ops = d.ops
      /\ e.states = d.states /\ e.terminal = d.terminal /\ e.output = d.output
      /\ e.expiry = d.expiry /\ e.staged = d.staged
  BY <1>1 DEF Shape, Fields
<1> QED BY <1>2 DEF inp, e

LEMMA NewCursorType ==
    ASSUME now \in Times, NEW r
    PROVE  NewCursor(r) \in Cursor /\ NewCursor(r).step = NoStep
<1> DEFINE b == r \in Delayed
<1>1. NewCursor(r) = [phase |-> "forward", step |-> NoStep, attempts |-> 0,
                      sched |-> b, updatedAt |-> now]
  BY DEF NewCursor
<1>2. b \in BOOLEAN
  OBVIOUS
<1> HIDE DEF b
<1> QED BY <1>1, <1>2 DEF Cursor, Phases

LEMMA PutRunSound ==
    ASSUME NEW d, Sound(d), NEW r \in Runs, r \notin d.meta, r \notin DOMAIN d.terminal,
           SlotOf[r] \notin DOMAIN d.slots, NEW input \in Inputs, now \in Times
    PROVE  LET e == PutRun(d, r, input)
           IN  /\ Sound(e) /\ Flying(e) = Flying(d)
               /\ Seen(e) = Put(Seen(d), r, NewRecord(r, input, now))
               /\ e.slots = Put(d.slots, SlotOf[r], r)
               /\ e.meta = d.meta \cup {r} /\ e.terminal = d.terminal
<1> DEFINE e == PutRun(d, r, input)
<1>0. /\ Typed(d) /\ StageRows(d) /\ OperationRows(d) /\ EndRows(d) /\ Shape(d)
      /\ SlotRows(d) /\ CursorRows(d)
  BY DEF Sound
<1>1. /\ Shape(e) /\ e.meta = d.meta \cup {r} /\ e.cursor = Put(d.cursor, r, NewCursor(r))
      /\ e.input = (IF input = "none" THEN d.input ELSE Put(d.input, r, input))
      /\ e.slots = Put(d.slots, SlotOf[r], r)
      /\ e.cancel = d.cancel /\ e.failure = d.failure /\ e.ops = d.ops
      /\ e.states = d.states /\ e.terminal = d.terminal /\ e.output = d.output
      /\ e.expiry = d.expiry /\ e.staged = d.staged
  BY <1>0, PutRunFields
<1> HIDE DEF e
<1>2. NewCursor(r) \in Cursor /\ NewCursor(r).step = NoStep
  BY NewCursorType
<1>3. input \in Blob
  BY BlobsAssumption DEF Blob
<1>4. /\ DOMAIN e.cursor = d.meta \cup {r} /\ e.cursor[r] = NewCursor(r)
      /\ \A q \in d.meta : e.cursor[q] = d.cursor[q]
      /\ DOMAIN e.slots = DOMAIN d.slots \cup {SlotOf[r]} /\ e.slots[SlotOf[r]] = r
      /\ \A s \in DOMAIN d.slots : e.slots[s] = d.slots[s]
  BY <1>0, <1>1 DEF Put, StageRows
<1>5. /\ Get(e.input, r, "none") = input /\ DOMAIN e.input \subseteq DOMAIN d.input \cup {r}
      /\ \A q \in Runs \ {r} : Get(e.input, q, "none") = Get(d.input, q, "none")
      /\ IsMap(e.input, Runs, Blob)
  <2>1. r \notin DOMAIN d.input
    BY <1>0 DEF StageRows
  <2>2. CASE input = "none"
    BY <1>0, <1>1, <2>1, <2>2 DEF Get, Typed
  <2>3. CASE input # "none"
    <3>1. e.input = Put(d.input, r, input)
      BY <1>1, <2>3
    <3>2. IsMap(e.input, Runs, Blob)
      BY <1>0, <1>3, <3>1, PutMap DEF Typed
    <3> QED BY <3>1, <3>2 DEF Get, Put
  <2> QED BY <2>2, <2>3
<1>6. Typed(e)
  <2>1. IsMap(e.cursor, Runs, Cursor)
    BY <1>0, <1>1, <1>2, PutMap DEF Typed
  <2>2. IsMap(e.slots, Slots, Runs)
    <3>1. SlotOf[r] \in Slots
      BY DEF Slots
    <3> QED BY <1>0, <1>1, <3>1, PutMap DEF Typed
  <2> QED BY <1>0, <1>1, <1>5, <2>1, <2>2 DEF Typed
<1>7. StageRows(e) /\ EndRows(e) /\ OperationRows(e)
  <2>1. StageRows(e)
    BY <1>0, <1>1, <1>4, <1>5 DEF StageRows
  <2>2. EndRows(e)
    BY <1>0, <1>1 DEF EndRows
  <2>3. OperationRows(e)
    BY <1>0, <1>1 DEF OperationRows
  <2> QED BY <2>1, <2>2, <2>3
<1>8. SlotRows(e)
  <2>1. ASSUME NEW s \in DOMAIN e.slots
        PROVE  e.slots[s] \in e.meta \ DOMAIN e.terminal /\ SlotOf[e.slots[s]] = s
    BY <1>0, <1>1, <1>4 DEF SlotRows
  <2>2. ASSUME NEW q \in e.meta \ DOMAIN e.terminal
        PROVE  SlotOf[q] \in DOMAIN e.slots /\ e.slots[SlotOf[q]] = q
    BY <1>0, <1>1, <1>4 DEF SlotRows
  <2> QED BY <2>1, <2>2 DEF SlotRows
<1>9. \A o : OpRows(e, r, o) = {}
  BY <1>0, <1>1 DEF OpRows, StageRows
<1>10. CursorRows(e)
  <2>1. \A q, o : OpRows(e, q, o) = OpRows(d, q, o)
    BY <1>1 DEF OpRows
  <2>2. ASSUME NEW q \in e.meta, NEW k \in OpRows(e, q, <<e.cursor[q].step, e.cursor[q].phase>>)
        PROVE  e.ops[k].status = "unresolved"
    <3>1. q # r
      BY <1>9, <2>2
    <3>2. q \in d.meta /\ e.cursor[q] = d.cursor[q]
      BY <1>1, <1>4, <3>1
    <3> QED BY <1>0, <1>1, <2>1, <2>2, <3>2 DEF CursorRows
  <2> QED BY <2>2 DEF CursorRows
<1>11. Sound(e)
  BY <1>1, <1>6, <1>7, <1>8, <1>10 DEF Sound
<1>12. Flying(e) = Flying(d)
  <2>1. {q \in DOMAIN e.cursor : ~IsTerminal(e, q) /\ e.cursor[q].step # NoStep}
          = {q \in DOMAIN d.cursor : ~IsTerminal(d, q) /\ d.cursor[q].step # NoStep}
    BY <1>0, <1>1, <1>2, <1>4 DEF IsTerminal, StageRows
  <2> QED BY <1>0, <1>4, <2>1 DEF Flying, StageRows
<1>13. GetRun(e, r) = NewRecord(r, input, now)
  <2>1. GetRun(e, r) = GetNonterminal(e, r)
    BY <1>1 DEF GetRun, IsTerminal
  <2>2. [o \in Ops |-> ReadOp(e, r, o)] = [o \in Ops |-> NoOp]
    BY <1>9, ReadNoRow
  <2>3. OverlayCursor([o \in Ops |-> ReadOp(e, r, o)], e.cursor[r]) = [o \in Ops |-> NoOp]
    BY <1>2, <1>4, <2>2 DEF OverlayCursor
  <2>4. (r \in e.failure) = FALSE /\ Get(e.cancel, r, NoCause) = NoCause
    BY <1>0, <1>1 DEF StageRows, Get
  <2>5. /\ e.cursor[r].phase = "forward" /\ e.cursor[r].sched = (r \in Delayed)
        /\ e.cursor[r].updatedAt = now
    BY <1>4 DEF NewCursor
  <2> QED BY <1>5, <2>1, <2>3, <2>4, <2>5 DEF GetNonterminal, NewRecord
<1>14. ASSUME NEW q \in Runs \ {r}, IsKnown(d, q) PROVE GetRun(e, q) = GetRun(d, q)
  <2>1. SameRows(d, e, q)
    BY <1>1 DEF SameRows
  <2>2. Get(e.cancel, q, NoCause) = Get(d.cancel, q, NoCause)
    BY <1>1
  <2>3. q \notin DOMAIN d.terminal => e.cursor[q] = d.cursor[q]
    BY <1>0, <1>4, <1>14 DEF IsKnown, IsTerminal
  <2> QED BY <1>0, <1>1, <1>5, <2>1, <2>2, <2>3, SameRun
<1>15. Seen(e) = Put(Seen(d), r, NewRecord(r, input, now))
  <2>1. {q \in Runs : IsKnown(e, q)} = {q \in Runs : IsKnown(d, q)} \cup {r}
    BY <1>1 DEF IsKnown, IsTerminal
  <2> QED BY <1>13, <1>14, <2>1 DEF Seen, Put
<1> QED BY <1>1, <1>11, <1>12, <1>15 DEF e
-----------------------------------------------------------------------------
(* A commit about one Run without an outcome.                               *)

(* Nothing that is read of another Run changes. *)
Apart(d, e, r) ==
    /\ e.terminal = d.terminal /\ e.output = d.output /\ e.meta = d.meta
    /\ \A q \in d.meta \ {r} : /\ SameRows(d, e, q) /\ e.cursor[q] = d.cursor[q]
                               /\ Get(e.input, q, "none") = Get(d.input, q, "none")
                               /\ q \in e.failure <=> q \in d.failure
                               /\ Get(e.cancel, q, NoCause) = Get(d.cancel, q, NoCause)

LEMMA ApartSeen ==
    ASSUME NEW d, Sound(d), NEW e, NEW r \in d.meta, r \notin DOMAIN d.terminal, Apart(d, e, r)
    PROVE  /\ Seen(e) = [Seen(d) EXCEPT ![r] = GetNonterminal(e, r)]
           /\ r \in DOMAIN Seen(d) /\ Seen(d)[r] = GetNonterminal(d, r)
<1>0. Typed(d) /\ OperationRows(d)
  BY DEF Sound
<1>1. r \in Runs /\ e.terminal = d.terminal /\ e.meta = d.meta
  BY <1>0 DEF Typed, Apart
<1>2. GetRun(e, r) = GetNonterminal(e, r) /\ GetRun(d, r) = GetNonterminal(d, r)
  BY <1>1 DEF GetRun, IsTerminal
<1>3. \A q : IsKnown(e, q) <=> IsKnown(d, q)
  BY <1>1 DEF IsKnown, IsTerminal
<1>4. ASSUME NEW q \in Runs \ {r}, IsKnown(d, q) PROVE GetRun(e, q) = GetRun(d, q)
  <2>1. q \notin DOMAIN d.terminal => q \in d.meta
    BY <1>4 DEF IsKnown, IsTerminal
  <2>2. /\ e.output = d.output
        /\ q \notin DOMAIN d.terminal =>
             /\ SameRows(d, e, q) /\ e.cursor[q] = d.cursor[q]
             /\ Get(e.input, q, "none") = Get(d.input, q, "none")
             /\ q \in e.failure <=> q \in d.failure
             /\ Get(e.cancel, q, NoCause) = Get(d.cancel, q, NoCause)
    BY <1>4, <2>1 DEF Apart
  <2> QED BY <1>0, <1>1, <2>2, SameRun
<1>5. IsKnown(d, r)
  BY DEF IsKnown
<1> QED BY <1>1, <1>2, <1>3, <1>4, <1>5 DEF Seen

(* RequestCancel's transaction. *)
LEMMA CancelSound ==
    ASSUME NEW d, Sound(d), NEW r \in d.meta, r \notin DOMAIN d.terminal,
           r \notin DOMAIN d.cancel, NEW c \in Causes
    PROVE  LET e == [d EXCEPT !.cancel = Put(@, r, c)]
           IN  /\ Sound(e) /\ Flying(e) = Flying(d) /\ e.slots = d.slots
               /\ e.meta = d.meta /\ e.terminal = d.terminal
               /\ r \in DOMAIN Seen(d) /\ Seen(d)[r].outcome = "none"
               /\ Seen(d)[r].cancel = NoCause /\ Seen(e) = [Seen(d) EXCEPT ![r].cancel = c]
<1> DEFINE e == [d EXCEPT !.cancel = Put(@, r, c)]
<1>0. /\ Typed(d) /\ StageRows(d) /\ OperationRows(d) /\ EndRows(d) /\ Shape(d)
      /\ SlotRows(d) /\ CursorRows(d)
  BY DEF Sound
<1>1. /\ Shape(e) /\ e.cancel = Put(d.cancel, r, c) /\ e.meta = d.meta
      /\ e.failure = d.failure /\ e.input = d.input /\ e.cursor = d.cursor /\ e.ops = d.ops
      /\ e.states = d.states /\ e.terminal = d.terminal /\ e.output = d.output
      /\ e.expiry = d.expiry /\ e.staged = d.staged /\ e.slots = d.slots
  BY <1>0 DEF Shape, Fields
<1> HIDE DEF e
<1>2. r \in Runs
  BY <1>0 DEF Typed
<1>3. IsMap(e.cancel, Runs, Causes)
  BY <1>0, <1>1, <1>2, PutMap DEF Typed
<1>4. Typed(e)
  BY <1>0, <1>1, <1>3 DEF Typed
<1>5. DOMAIN e.cancel = DOMAIN d.cancel \cup {r} /\ Get(e.cancel, r, NoCause) = c
      /\ \A q \in Runs \ {r} : Get(e.cancel, q, NoCause) = Get(d.cancel, q, NoCause)
  BY <1>1 DEF Put, Get
<1>6. StageRows(e) /\ EndRows(e) /\ SlotRows(e)
  <2>1. StageRows(e)
    BY <1>0, <1>1, <1>5 DEF StageRows
  <2>2. EndRows(e)
    BY <1>0, <1>1 DEF EndRows
  <2>3. SlotRows(e)
    BY <1>0, <1>1 DEF SlotRows
  <2> QED BY <2>1, <2>2, <2>3
<1>7. OperationRows(e) /\ CursorRows(e)
  BY <1>0, <1>1 DEF OperationRows, CursorRows, OpRows
<1>8. Sound(e)
  BY <1>1, <1>4, <1>6, <1>7 DEF Sound
<1>9. Flying(e) = Flying(d)
  BY <1>1 DEF Flying, IsTerminal
<1>10. \A q : SameRows(d, e, q)
  BY <1>1 DEF SameRows
<1>11. Apart(d, e, r)
  BY <1>0, <1>1, <1>5, <1>10 DEF Apart, Typed
<1>12. /\ Seen(e) = [Seen(d) EXCEPT ![r] = GetNonterminal(e, r)]
       /\ r \in DOMAIN Seen(d) /\ Seen(d)[r] = GetNonterminal(d, r)
  BY <1>11, ApartSeen
<1>13. GetNonterminal(e, r) = [GetNonterminal(d, r) EXCEPT !.cancel = c]
  <2>1. [o \in Ops |-> ReadOp(e, r, o)] = [o \in Ops |-> ReadOp(d, r, o)]
    BY <1>0, <1>10, SameRead
  <2> DEFINE ops == OverlayCursor([o \in Ops |-> ReadOp(d, r, o)], d.cursor[r])
             fail == r \in d.failure
             inp == Get(d.input, r, "none")
             cur == d.cursor[r]
             can == Get(d.cancel, r, NoCause)
  <2>2. /\ GetNonterminal(d, r) = [input |-> inp, phase |-> cur.phase, sched |-> cur.sched,
             updatedAt |-> cur.updatedAt, ops |-> ops, failure |-> fail, cancel |-> can,
             outcome |-> "none", output |-> "none"]
        /\ GetNonterminal(e, r) = [input |-> inp, phase |-> cur.phase, sched |-> cur.sched,
             updatedAt |-> cur.updatedAt, ops |-> ops, failure |-> fail, cancel |-> c,
             outcome |-> "none", output |-> "none"]
    BY <1>1, <1>5, <2>1, Zenon DEF GetNonterminal
  <2> HIDE DEF ops, fail, inp, cur, can
  <2> QED BY <2>2
<1>14. GetNonterminal(d, r).cancel = NoCause /\ GetNonterminal(d, r).outcome = "none"
  BY DEF GetNonterminal, Get
<1> QED BY <1>1, <1>8, <1>9, <1>12, <1>13, <1>14 DEF e
-----------------------------------------------------------------------------
(* putOp for each write of a transition.                                    *)

Row(w) == IF Beside(w) THEN [w.op EXCEPT !.state = "none"] ELSE w.op
Keys(r, W) == {OpKey(r, w) : w \in W}
Replaced(d, r, W) == UNION {OpRows(d, r, <<w.step, w.phase>>) : w \in W}
BesideKeys(r, W) == {StateKey(OpKey(r, w)) : w \in {v \in W : Beside(v)}}
ReplacedStates(d, r, W) == {StateKey(k) : k \in {q \in Replaced(d, r, W) : q[4] = "forward"}}
NewRows(f, old, new, r, W) ==
    [k \in DOMAIN Delete(f, old \ new) \cup new |->
       IF k \in new THEN Row(CHOOSE w \in W : OpKey(r, w) = k) ELSE Delete(f, old \ new)[k]]
NewStates(f, old, new) ==
    [k \in DOMAIN Delete(f, old) \cup new |-> IF k \in new THEN "large" ELSE Delete(f, old)[k]]

(* Each operation is written once, resolutions past every order of the Run. *)
Written(d, r, W) ==
    /\ \A w \in W : IsWrite(w) /\ w.op.status # "none"
    /\ \A v, w \in W : v.step = w.step /\ v.phase = w.phase => v = w
    /\ \A w \in W : w.op.status = "unresolved" => w.op.order = 0
    /\ \A w \in W : Resolves(w) => \A k \in DOMAIN d.ops : k[1] = r => k[2] < w.op.order
    /\ \A v, w \in W : Resolves(v) /\ Resolves(w) => v = w

LEMMA PutOpsFields ==
    ASSUME NEW d, Shape(d), NEW r, NEW W
    PROVE  LET e == PutOps(d, r, W)
           IN  /\ Shape(e) /\ e.meta = d.meta /\ e.cancel = d.cancel /\ e.failure = d.failure
               /\ e.input = d.input /\ e.cursor = d.cursor /\ e.terminal = d.terminal
               /\ e.output = d.output /\ e.expiry = d.expiry /\ e.staged = d.staged
               /\ e.slots = d.slots
               /\ e.ops = NewRows(d.ops, Replaced(d, r, W), Keys(r, W), r, W)
               /\ e.states = NewStates(d.states, ReplacedStates(d, r, W), BesideKeys(r, W))
<1> DEFINE x == NewRows(d.ops, Replaced(d, r, W), Keys(r, W), r, W)
           y == NewStates(d.states, ReplacedStates(d, r, W), BesideKeys(r, W))
           e == PutOps(d, r, W)
<1>1. e = [d EXCEPT !.ops = x, !.states = y]
  BY Zenon DEF PutOps, Row, Keys, Replaced, BesideKeys, ReplacedStates, NewRows, NewStates
<1> HIDE DEF x, y, e
<1>2. /\ Shape(e) /\ e.meta = d.meta /\ e.cancel = d.cancel /\ e.failure = d.failure
      /\ e.input = d.input /\ e.cursor = d.cursor /\ e.terminal = d.terminal
      /\ e.output = d.output /\ e.expiry = d.expiry /\ e.staged = d.staged
      /\ e.slots = d.slots /\ e.ops = x /\ e.states = y
  BY <1>1 DEF Shape, Fields
<1> QED BY <1>2 DEF x, y, e

(* Which rows there are then. *)
LEMMA PutOpsRows ==
    ASSUME NEW d, Shape(d), Typed(d), NEW r \in Runs, NEW W, Written(d, r, W)
    PROVE  LET e == PutOps(d, r, W)
           IN  /\ DOMAIN e.ops = (DOMAIN d.ops \ Replaced(d, r, W)) \cup Keys(r, W)
               /\ \A w \in W : e.ops[OpKey(r, w)] = Row(w)
               /\ \A k \in DOMAIN d.ops \ Replaced(d, r, W) : e.ops[k] = d.ops[k]
               /\ DOMAIN e.states = (DOMAIN d.states \ ReplacedStates(d, r, W)) \cup BesideKeys(r, W)
               /\ \A k \in DOMAIN e.states : e.states[k] = "large"
               /\ IsMap(e.ops, OpKeys, Op) /\ IsMap(e.states, StateKeys, {"large"})
<1> DEFINE e == PutOps(d, r, W)
           N == Keys(r, W)
           D == Replaced(d, r, W)
           B == BesideKeys(r, W)
           X == ReplacedStates(d, r, W)
<1>0. e.ops = NewRows(d.ops, D, N, r, W) /\ e.states = NewStates(d.states, X, B)
  BY PutOpsFields
<1> HIDE DEF e, N, D, X, B
<1>1. /\ e.ops = [k \in DOMAIN Delete(d.ops, D \ N) \cup N |->
                    IF k \in N THEN Row(CHOOSE w \in W : OpKey(r, w) = k)
                    ELSE Delete(d.ops, D \ N)[k]]
      /\ e.states = [k \in DOMAIN Delete(d.states, X) \cup B |->
                       IF k \in B THEN "large" ELSE Delete(d.states, X)[k]]
  BY <1>0 DEF NewRows, NewStates
<1>2. ASSUME NEW w \in W
      PROVE  /\ w.op \in Op /\ w.op.order \in Nat /\ w.step \in Steps /\ w.phase \in Phases
             /\ Row(w) \in Op
  <2>1. w.op \in Op /\ w.step \in Steps /\ w.phase \in Phases
    BY DEF Written, IsWrite
  <2>2. [w.op EXCEPT !.state = "none"] \in Op /\ w.op.order \in Nat
    BY <2>1 DEF Op, Blob
  <2> QED BY <2>1, <2>2 DEF Row
<1>3. ASSUME NEW v \in W, NEW w \in W, OpKey(r, v) = OpKey(r, w) PROVE v = w
  <2>1. v.step = w.step /\ v.phase = w.phase
    BY <1>3 DEF OpKey
  <2> QED BY <2>1 DEF Written
<1>4. \A w \in W : OpKey(r, w) \in N /\ OpKey(r, w) \in OpKeys
  BY <1>2, KeyParts DEF OpKey, Keys, N
<1>5. \A k \in N : \E w \in W : k = OpKey(r, w)
  BY DEF Keys, N
<1>6. ASSUME NEW w \in W PROVE e.ops[OpKey(r, w)] = Row(w)
  <2>1. (CHOOSE v \in W : OpKey(r, v) = OpKey(r, w)) = w
    BY <1>3, <1>6
  <2>2. OpKey(r, w) \in N
    BY <1>4
  <2>3. e.ops[OpKey(r, w)] = Row(CHOOSE v \in W : OpKey(r, v) = OpKey(r, w))
    BY <1>1, <2>2
  <2> QED BY <2>1, <2>3
<1>7. N \cap DOMAIN d.ops \subseteq D
  <2> SUFFICES ASSUME NEW k \in N, k \in DOMAIN d.ops PROVE k \in D
    OBVIOUS
  <2>1. PICK w \in W : k = OpKey(r, w)
    BY <1>5
  <2>2. k[1] = r /\ k[3] = w.step /\ k[4] = w.phase
    BY <2>1 DEF OpKey
  <2>3. k \in OpRows(d, r, <<w.step, w.phase>>)
    BY <2>2 DEF OpRows
  <2> QED BY <2>3 DEF Replaced, D
<1>8. /\ DOMAIN e.ops = (DOMAIN d.ops \ D) \cup N
      /\ DOMAIN e.states = (DOMAIN d.states \ X) \cup B
  <2>1. DOMAIN e.ops = (DOMAIN d.ops \ (D \ N)) \cup N
    BY <1>1, Deleted
  <2>2. DOMAIN e.states = (DOMAIN d.states \ X) \cup B
    BY <1>1, Deleted
  <2> QED BY <1>7, <2>1, <2>2
<1>9. ASSUME NEW k \in DOMAIN d.ops \ D PROVE e.ops[k] = d.ops[k]
  <2>1. k \notin N /\ k \in DOMAIN d.ops \ (D \ N)
    BY <1>7
  <2>2. k \in DOMAIN Delete(d.ops, D \ N) /\ Delete(d.ops, D \ N)[k] = d.ops[k]
    BY <2>1, Deleted
  <2> QED BY <1>1, <2>1, <2>2
<1>10. ASSUME NEW k \in DOMAIN e.states PROVE e.states[k] = "large"
  <2>1. CASE k \in B
    BY <1>1, <2>1
  <2>2. CASE k \notin B
    <3>1. k \in DOMAIN d.states \ X
      BY <1>8, <2>2
    <3>2. k \in DOMAIN Delete(d.states, X) /\ Delete(d.states, X)[k] = d.states[k]
      BY <3>1, Deleted
    <3>3. d.states[k] = "large"
      BY <3>1 DEF Typed, IsMap
    <3> QED BY <1>1, <2>2, <3>2, <3>3
  <2> QED BY <2>1, <2>2
<1>11. IsMap(e.ops, OpKeys, Op)
  <2>1. e.ops = [k \in DOMAIN e.ops |-> e.ops[k]]
    BY <1>1
  <2>2. DOMAIN d.ops \subseteq OpKeys /\ \A k \in DOMAIN d.ops : d.ops[k] \in Op
    BY DEF Typed, IsMap
  <2>3. DOMAIN e.ops \subseteq OpKeys
    BY <1>4, <1>5, <1>8, <2>2
  <2>4. ASSUME NEW k \in DOMAIN e.ops PROVE e.ops[k] \in Op
    <3>1. CASE k \in N
      BY <1>2, <1>5, <1>6, <3>1
    <3>2. CASE k \in DOMAIN d.ops \ D
      BY <1>9, <2>2, <3>2
    <3> QED BY <1>8, <3>1, <3>2
  <2> QED BY <2>1, <2>3, <2>4 DEF IsMap
<1>12. IsMap(e.states, StateKeys, {"large"})
  <2>1. e.states = [k \in DOMAIN e.states |-> e.states[k]]
    BY <1>1
  <2>2. DOMAIN d.states \subseteq StateKeys
    BY DEF Typed, IsMap
  <2>3. ASSUME NEW k \in B PROVE k \in StateKeys
    <3>1. PICK w \in W : k = StateKey(OpKey(r, w))
      BY DEF B, BesideKeys
    <3>2. k = <<r, w.op.order, w.step>>
      BY <3>1 DEF StateKey, OpKey
    <3> QED BY <1>2, <3>2, KeyParts
  <2>4. DOMAIN e.states \subseteq StateKeys
    BY <1>8, <2>2, <2>3
  <2> QED BY <1>10, <2>1, <2>4 DEF IsMap
<1> QED BY <1>6, <1>8, <1>9, <1>10, <1>11, <1>12 DEF e, N, D, B, X

LEMMA RowParts ==
    ASSUME NEW w, IsWrite(w)
    PROVE  /\ Row(w).status = w.op.status /\ Row(w).order = w.op.order
           /\ Beside(w) => /\ w.phase = "forward" /\ Row(w).state = "none"
                           /\ [Row(w) EXCEPT !.state = "large"] = w.op
           /\ ~Beside(w) => Row(w) = w.op
<1>1. w.op \in Op
  BY DEF IsWrite
<1>2. CASE Beside(w)
  <2>1. w.op.state = "large" /\ w.phase = "forward" /\ Row(w) = [w.op EXCEPT !.state = "none"]
    BY <1>2 DEF Beside, Row
  <2> QED BY <1>1, <1>2, <2>1 DEF Op
<1>3. CASE ~Beside(w)
  BY <1>3 DEF Row
<1> QED BY <1>2, <1>3

LEMMA ReplacedRows ==
    ASSUME NEW d, NEW r, NEW W, NEW k
    PROVE  /\ k \in Replaced(d, r, W) <=>
                /\ k \in DOMAIN d.ops /\ k[1] = r
                /\ \E w \in W : k[3] = w.step /\ k[4] = w.phase
           /\ k \in Keys(r, W) <=> \E w \in W : k = <<r, w.op.order, w.step, w.phase>>
           /\ k \in BesideKeys(r, W) <=>
                \E w \in W : Beside(w) /\ k = <<r, w.op.order, w.step>>
           /\ k \in ReplacedStates(d, r, W) <=>
                \E j \in Replaced(d, r, W) : j[4] = "forward" /\ k = <<j[1], j[2], j[3]>>
<1>1. k \in Replaced(d, r, W) <=>
        /\ k \in DOMAIN d.ops /\ k[1] = r
        /\ \E w \in W : k[3] = w.step /\ k[4] = w.phase
  BY DEF Replaced, OpRows
<1>2. k \in Keys(r, W) <=> \E w \in W : k = <<r, w.op.order, w.step, w.phase>>
  BY DEF Keys, OpKey
<1>3. k \in BesideKeys(r, W) <=> \E w \in W : Beside(w) /\ k = <<r, w.op.order, w.step>>
  BY DEF BesideKeys, OpKey, StateKey
<1>4. k \in ReplacedStates(d, r, W) <=>
        \E j \in Replaced(d, r, W) : j[4] = "forward" /\ k = <<j[1], j[2], j[3]>>
  BY DEF ReplacedStates, StateKey
<1> QED BY <1>1, <1>2, <1>3, <1>4

(* The rows stay one per operation, under its order. *)
LEMMA PutOpsSound ==
    ASSUME NEW d, Shape(d), Typed(d), OperationRows(d), NEW r \in Runs, NEW W, Written(d, r, W)
    PROVE  OperationRows(PutOps(d, r, W))
<1> DEFINE e == PutOps(d, r, W)
           D == Replaced(d, r, W)
           N == Keys(r, W)
<1>1. /\ DOMAIN e.ops = (DOMAIN d.ops \ D) \cup N
      /\ \A w \in W : e.ops[OpKey(r, w)] = Row(w)
      /\ \A k \in DOMAIN d.ops \ D : e.ops[k] = d.ops[k]
      /\ DOMAIN e.states = (DOMAIN d.states \ ReplacedStates(d, r, W)) \cup BesideKeys(r, W)
  BY PutOpsRows
<1> HIDE DEF e, D, N
<1>2. ASSUME NEW k \in N
      PROVE  \E w \in W : /\ k = OpKey(r, w) /\ e.ops[k] = Row(w)
                          /\ k[1] = r /\ k[2] = w.op.order /\ k[3] = w.step /\ k[4] = w.phase
  <2>1. PICK w \in W : k = OpKey(r, w)
    BY DEF N, Keys
  <2> QED BY <1>1, <2>1 DEF OpKey
<1>3. ASSUME NEW k \in DOMAIN d.ops \ D, k[1] = r, NEW w \in W PROVE ~(k[3] = w.step /\ k[4] = w.phase)
  BY <1>3, ReplacedRows DEF D
<1>4. ASSUME NEW k \in DOMAIN e.ops
      PROVE  /\ e.ops[k].order = k[2] /\ e.ops[k].status # "none"
             /\ e.ops[k].status = "unresolved" => k[2] = 0
  <2>1. CASE k \in DOMAIN d.ops \ D
    BY <1>1, <2>1 DEF OperationRows
  <2>2. CASE k \in N
    <3>1. PICK w \in W : e.ops[k] = Row(w) /\ k[2] = w.op.order
      BY <1>2, <2>2
    <3>2. IsWrite(w) /\ w.op.status # "none" /\ (w.op.status = "unresolved" => w.op.order = 0)
      BY DEF Written
    <3> QED BY <3>1, <3>2, RowParts
  <2> QED BY <1>1, <2>1, <2>2
<1>5. ASSUME NEW j \in DOMAIN e.ops, NEW k \in DOMAIN e.ops, j[1] = k[1], j[3] = k[3], j[4] = k[4]
      PROVE  j = k
  <2>1. CASE j \in DOMAIN d.ops \ D /\ k \in DOMAIN d.ops \ D
    BY <1>5, <2>1 DEF OperationRows
  <2>2. CASE j \in N /\ k \in N
    <3>1. PICK v \in W : j = OpKey(r, v) /\ j[3] = v.step /\ j[4] = v.phase
      BY <1>2, <2>2
    <3>2. PICK w \in W : k = OpKey(r, w) /\ k[3] = w.step /\ k[4] = w.phase
      BY <1>2, <2>2
    <3>3. v = w
      BY <1>5, <3>1, <3>2 DEF Written
    <3> QED BY <3>1, <3>2, <3>3
  <2>3. CASE j \in N /\ k \in DOMAIN d.ops \ D
    BY <1>2, <1>3, <1>5, <2>3
  <2>4. CASE k \in N /\ j \in DOMAIN d.ops \ D
    BY <1>2, <1>3, <1>5, <2>4
  <2> QED BY <1>1, <2>1, <2>2, <2>3, <2>4
<1>6. ASSUME NEW w \in W, NEW k \in DOMAIN d.ops \ D, k[1] = r, k[2] = w.op.order
      PROVE  w.op.order = 0
  <2>1. k \in OpKeys /\ k[2] \in Nat
    BY KeyParts DEF Typed, IsMap
  <2>2. ~Resolves(w)
    BY <1>6, <2>1 DEF Written
  <2>3. w.op.status = "unresolved"
    BY <2>2 DEF Written, IsWrite, Resolves, Op, OpStatus
  <2> QED BY <2>3 DEF Written
<1>7. ASSUME NEW j \in DOMAIN e.ops, NEW k \in DOMAIN e.ops, j[1] = k[1], j[2] = k[2], j # k
      PROVE  j[2] = 0
  <2>1. CASE j \in DOMAIN d.ops \ D /\ k \in DOMAIN d.ops \ D
    BY <1>7, <2>1 DEF OperationRows
  <2>2. CASE j \in N /\ k \in N
    <3>1. PICK v \in W : j = OpKey(r, v) /\ j[2] = v.op.order
      BY <1>2, <2>2
    <3>2. PICK w \in W : k = OpKey(r, w) /\ k[2] = w.op.order
      BY <1>2, <2>2
    <3>3. ~Resolves(v) \/ ~Resolves(w)
      BY <1>7, <3>1, <3>2 DEF Written
    <3>4. v.op.status = "unresolved" \/ w.op.status = "unresolved"
      BY <3>3 DEF Written, IsWrite, Resolves, Op, OpStatus
    <3>5. v.op.order = 0 \/ w.op.order = 0
      BY <3>4 DEF Written
    <3> QED BY <1>7, <3>1, <3>2, <3>5
  <2>3. CASE j \in N /\ k \in DOMAIN d.ops \ D
    BY <1>2, <1>6, <1>7, <2>3
  <2>4. CASE k \in N /\ j \in DOMAIN d.ops \ D
    BY <1>2, <1>6, <1>7, <2>4
  <2> QED BY <1>1, <2>1, <2>2, <2>3, <2>4
<1>8. ASSUME NEW k \in DOMAIN e.states
      PROVE  /\ <<k[1], k[2], k[3], "forward">> \in DOMAIN e.ops
             /\ e.ops[<<k[1], k[2], k[3], "forward">>].state = "none"
  <2> DEFINE j == <<k[1], k[2], k[3], "forward">>
  <2>1. CASE k \in BesideKeys(r, W)
    <3>1. PICK w \in W : Beside(w) /\ k = <<r, w.op.order, w.step>>
      BY <2>1 DEF BesideKeys, StateKey, OpKey
    <3>2. w.phase = "forward" /\ Row(w).state = "none"
      BY <3>1, RowParts DEF Written
    <3>3. j = OpKey(r, w)
      BY <3>1, <3>2 DEF OpKey
    <3>4. j \in N
      BY <3>3 DEF N, Keys
    <3> QED BY <1>1, <3>2, <3>3, <3>4
  <2>2. CASE k \in DOMAIN d.states \ ReplacedStates(d, r, W)
    <3>1. j \in DOMAIN d.ops /\ d.ops[j].state = "none"
      BY <2>2 DEF OperationRows
    <3>2. k = <<j[1], j[2], j[3]>> /\ j[4] = "forward"
      <4>1. k \in StateKeys
        BY <2>2 DEF Typed, IsMap
      <4>2. k = <<k[1], k[2], k[3]>>
        BY <4>1, KeyParts
      <4> QED BY <4>2
    <3> HIDE DEF j
    <3>3. j \notin D
      BY <2>2, <3>2, ReplacedRows DEF D
    <3>4. j \in DOMAIN e.ops /\ e.ops[j].state = "none"
      BY <1>1, <3>1, <3>3
    <3> QED BY <3>4 DEF j
  <2> QED BY <1>1, <2>1, <2>2
<1>9. OperationRows(e)
  BY <1>4, <1>5, <1>7, <1>8 DEF OperationRows
<1> QED BY <1>9 DEF e

(* The rows of another Run stay. *)
LEMMA PutOpsOthers ==
    ASSUME NEW d, Shape(d), Typed(d), NEW r \in Runs, NEW W, Written(d, r, W), NEW q, q # r
    PROVE  SameRows(d, PutOps(d, r, W), q)
<1> DEFINE e == PutOps(d, r, W)
           D == Replaced(d, r, W)
           N == Keys(r, W)
           X == ReplacedStates(d, r, W)
           B == BesideKeys(r, W)
<1>1. /\ DOMAIN e.ops = (DOMAIN d.ops \ D) \cup N
      /\ \A k \in DOMAIN d.ops \ D : e.ops[k] = d.ops[k]
      /\ DOMAIN e.states = (DOMAIN d.states \ X) \cup B
      /\ \A k \in DOMAIN e.states : e.states[k] = "large"
  BY PutOpsRows
<1>2. ASSUME NEW k, k[1] = q PROVE k \notin D /\ k \notin N /\ k \notin X /\ k \notin B
  <2>1. k \notin D /\ \A j \in D : j[1] = r
    BY <1>2, ReplacedRows
  <2>2. k \notin N /\ k \notin B
    BY <1>2 DEF Keys, BesideKeys, StateKey, OpKey
  <2>3. k \notin X
    <3> SUFFICES ASSUME k \in X PROVE FALSE
      OBVIOUS
    <3>1. PICK j \in D : k = <<j[1], j[2], j[3]>>
      BY ReplacedRows
    <3> HIDE DEF D
    <3> QED BY <1>2, <2>1, <3>1
  <2> QED BY <2>1, <2>2, <2>3
<1> HIDE DEF e, D, N, X, B
<1>3. \A k \in DOMAIN d.states : d.states[k] = "large"
  BY DEF Typed, IsMap
<1>4. SameRows(d, e, q)
  BY <1>1, <1>2, <1>3 DEF SameRows
<1> QED BY <1>4 DEF e

(* A written operation reads back as it was written. *)
LEMMA PutOpsRead ==
    ASSUME NEW d, Shape(d), Typed(d), OperationRows(d), NEW r \in Runs, NEW W, Written(d, r, W),
           NEW e, e = PutOps(d, r, W), Typed(e), NEW w \in W
    PROVE  /\ ReadOp(e, r, <<w.step, w.phase>>) = w.op
           /\ \A k \in OpRows(e, r, <<w.step, w.phase>>) : e.ops[k].status = w.op.status
<1> DEFINE o == <<w.step, w.phase>>
           k == OpKey(r, w)
           b == <<k[1], k[2], k[3]>>
<1>1. /\ DOMAIN e.ops = (DOMAIN d.ops \ Replaced(d, r, W)) \cup Keys(r, W)
      /\ e.ops[k] = Row(w)
      /\ DOMAIN e.states = (DOMAIN d.states \ ReplacedStates(d, r, W)) \cup BesideKeys(r, W)
      /\ \A j \in DOMAIN e.states : e.states[j] = "large"
  BY PutOpsRows
<1>2. OperationRows(e) /\ IsWrite(w)
  BY PutOpsSound DEF Written
<1>3. k = <<r, w.op.order, w.step, w.phase>> /\ k \in Keys(r, W) /\ b = <<r, w.op.order, w.step>>
  BY DEF OpKey, Keys
<1>4. k[1] = r /\ k[3] = o[1] /\ k[4] = o[2] /\ o[2] = w.phase
  BY <1>3
<1> HIDE DEF o, k, b
<1>5. k \in OpRows(e, r, o)
  BY <1>1, <1>3, <1>4 DEF OpRows
<1>6. /\ OpRows(e, r, o) = {k}
      /\ ReadOp(e, r, o) = IF o[2] = "forward" /\ b \in DOMAIN e.states
                             THEN [Row(w) EXCEPT !.state = e.states[b]] ELSE Row(w)
  BY <1>1, <1>2, <1>5, ReadRow DEF b
<1>7. CASE Beside(w)
  <2>1. b \in BesideKeys(r, W)
    BY <1>3, <1>7 DEF BesideKeys, StateKey, OpKey
  <2>2. b \in DOMAIN e.states /\ e.states[b] = "large" /\ o[2] = "forward"
    BY <1>1, <1>2, <1>4, <1>7, <2>1, RowParts
  <2>3. ReadOp(e, r, o) = w.op
    <3>1. ReadOp(e, r, o) = [Row(w) EXCEPT !.state = "large"]
      BY <1>6, <2>2
    <3> QED BY <1>2, <1>7, <3>1, RowParts
  <2> QED BY <1>1, <1>2, <1>6, <2>3, RowParts DEF o
<1>8. CASE ~Beside(w)
  <2>1. ASSUME w.phase = "forward", b \in DOMAIN e.states PROVE FALSE
    <3>1. CASE b \in BesideKeys(r, W)
      <4>1. PICK v \in W : Beside(v) /\ b = <<r, v.op.order, v.step>>
        BY <3>1 DEF BesideKeys, StateKey, OpKey
      <4>2. v.step = w.step /\ v.phase = w.phase
        BY <1>3, <2>1, <4>1 DEF Beside
      <4>3. v = w
        BY <4>2 DEF Written
      <4> QED BY <1>8, <4>1, <4>3
    <3>2. CASE b \in DOMAIN d.states /\ b \notin ReplacedStates(d, r, W)
      <4> DEFINE j == <<b[1], b[2], b[3], "forward">>
      <4>1. j \in DOMAIN d.ops
        BY <3>2 DEF OperationRows
      <4>2. j[1] = r /\ j[3] = w.step /\ j[4] = w.phase /\ b = <<j[1], j[2], j[3]>>
        BY <1>3, <2>1
      <4> HIDE DEF j
      <4>3. j \in Replaced(d, r, W)
        BY <4>1, <4>2, ReplacedRows
      <4>4. b \in ReplacedStates(d, r, W)
        BY <2>1, <4>2, <4>3 DEF ReplacedStates, StateKey
      <4> QED BY <3>2, <4>4
    <3> QED BY <1>1, <2>1, <3>1, <3>2
  <2>2. ReadOp(e, r, o) = Row(w)
    BY <1>4, <1>6, <2>1
  <2> QED BY <1>1, <1>2, <1>6, <1>8, <2>2, RowParts DEF o
<1> QED BY <1>7, <1>8

(* An operation that is not written reads as before. *)
LEMMA PutOpsKeep ==
    ASSUME NEW d, Shape(d), Typed(d), OperationRows(d), NEW r \in Runs, NEW W, Written(d, r, W),
           NEW e, e = PutOps(d, r, W), Typed(e), NEW o,
           \A w \in W : ~(w.step = o[1] /\ w.phase = o[2])
    PROVE  /\ ReadOp(e, r, o) = ReadOp(d, r, o) /\ OpRows(e, r, o) = OpRows(d, r, o)
           /\ \A k \in OpRows(d, r, o) : e.ops[k] = d.ops[k]
<1>1. /\ DOMAIN e.ops = (DOMAIN d.ops \ Replaced(d, r, W)) \cup Keys(r, W)
      /\ \A k \in DOMAIN d.ops \ Replaced(d, r, W) : e.ops[k] = d.ops[k]
      /\ DOMAIN e.states = (DOMAIN d.states \ ReplacedStates(d, r, W)) \cup BesideKeys(r, W)
      /\ \A j \in DOMAIN e.states : e.states[j] = "large"
  BY PutOpsRows
<1>2. OperationRows(e)
  BY PutOpsSound
<1>3. ASSUME NEW k \in OpRows(d, r, o)
      PROVE  k \in DOMAIN d.ops \ Replaced(d, r, W) /\ k[1] = r /\ k[3] = o[1] /\ k[4] = o[2]
  BY ReplacedRows DEF OpRows
<1>4. ASSUME NEW k \in Keys(r, W) PROVE ~(k[3] = o[1] /\ k[4] = o[2])
  <2>1. PICK w \in W : k = <<r, w.op.order, w.step, w.phase>>
    BY DEF Keys, OpKey
  <2> QED BY <2>1
<1>5. OpRows(e, r, o) = OpRows(d, r, o)
  BY <1>1, <1>3, <1>4 DEF OpRows
<1>6. CASE OpRows(d, r, o) = {}
  BY <1>5, <1>6, ReadNoRow
<1>7. ASSUME NEW k \in OpRows(d, r, o) PROVE ReadOp(e, r, o) = ReadOp(d, r, o)
  <2> DEFINE b == <<k[1], k[2], k[3]>>
  <2>1. e.ops[k] = d.ops[k] /\ k \in OpKeys
    BY <1>1, <1>3 DEF Typed, IsMap
  <2>2. ASSUME o[2] = "forward" PROVE b \in DOMAIN e.states <=> b \in DOMAIN d.states
    <3>1. b \notin BesideKeys(r, W)
      <4> SUFFICES ASSUME b \in BesideKeys(r, W) PROVE FALSE
        OBVIOUS
      <4>1. PICK w \in W : Beside(w) /\ b = <<r, w.op.order, w.step>>
        BY DEF BesideKeys, StateKey, OpKey
      <4>2. w.step = o[1] /\ w.phase = o[2]
        BY <1>3, <2>2, <4>1 DEF Beside
      <4> QED BY <4>2
    <3>2. b \notin ReplacedStates(d, r, W)
      <4> SUFFICES ASSUME b \in ReplacedStates(d, r, W) PROVE FALSE
        OBVIOUS
      <4>1. PICK j \in Replaced(d, r, W) : j[4] = "forward" /\ b = <<j[1], j[2], j[3]>>
        BY DEF ReplacedStates, StateKey
      <4>2. j[1] = k[1] /\ j[3] = k[3] /\ j[4] = k[4] /\ j \in DOMAIN d.ops
        BY <1>3, <2>2, <4>1, ReplacedRows
      <4>3. j = k
        BY <1>3, <4>2 DEF OperationRows
      <4> QED BY <1>3, <4>3
    <3> QED BY <1>1, <3>1, <3>2
  <2>3. b \in DOMAIN d.states => d.states[b] = "large"
    BY DEF Typed, IsMap
  <2>4. ReadOp(d, r, o) = IF o[2] = "forward" /\ b \in DOMAIN d.states
                            THEN [d.ops[k] EXCEPT !.state = d.states[b]] ELSE d.ops[k]
    BY ReadRow
  <2>5. ReadOp(e, r, o) = IF o[2] = "forward" /\ b \in DOMAIN e.states
                            THEN [e.ops[k] EXCEPT !.state = e.states[b]] ELSE e.ops[k]
    BY <1>2, <1>5, ReadRow
  <2> HIDE DEF b
  <2>6. b \in DOMAIN e.states => e.states[b] = "large"
    BY <1>1
  <2> QED BY <2>1, <2>2, <2>3, <2>4, <2>5, <2>6
<1> QED BY <1>1, <1>3, <1>5, <1>6, <1>7
-----------------------------------------------------------------------------
(* ApplyTransition's transaction, without an outcome.                       *)

(* The record carries the orders of the rows. *)
LEMMA RecordOrders ==
    ASSUME NEW d, Sound(d), NEW r \in d.meta, NEW o \in Ops
    PROVE  /\ \A k \in OpRows(d, r, o) : GetNonterminal(d, r).ops[o].order = k[2]
           /\ GetNonterminal(d, r).ops[o].status = "unresolved"
                => GetNonterminal(d, r).ops[o].order = 0
<1> DEFINE rec == GetNonterminal(d, r)
           cur == d.cursor[r]
           c == <<cur.step, cur.phase>>
           x == ReadOp(d, r, o)
<1>0. Typed(d) /\ OperationRows(d) /\ CursorRows(d)
  BY DEF Sound
<1>1. /\ \A p \in Ops : p # c => rec.ops[p] = ReadOp(d, r, p)
      /\ cur.step # NoStep => /\ c \in Ops
                              /\ rec.ops[c] = [ReadOp(d, r, c) EXCEPT !.status = "unresolved",
                                                                      !.attempts = cur.attempts]
  <2>1. ReadsAs(rec.ops, cur, d, r)
    BY Unfinished
  <2> HIDE DEF rec, cur
  <2> QED BY <2>1 DEF ReadsAs
<1>2. /\ x \in Op
      /\ \A k \in OpRows(d, r, o) : x.status = d.ops[k].status /\ x.order = k[2]
      /\ OpRows(d, r, o) = {} => x = NoOp
  BY <1>0, ReadType
<1>3. \A k \in OpRows(d, r, o) : d.ops[k].status = "unresolved" => k[2] = 0
  BY <1>0 DEF OperationRows, OpRows
<1>4. o = c => \A k \in OpRows(d, r, o) : d.ops[k].status = "unresolved"
  BY <1>0 DEF CursorRows
<1>5. o = c => cur.step # NoStep
  BY OpPairs, NamesAssumption
<1> HIDE DEF rec, cur, c
<1>6. rec.ops[o].order = x.order
  <2>1. CASE o # c
    BY <1>1, <2>1
  <2>2. CASE o = c
    <3>1. rec.ops[o] = [x EXCEPT !.status = "unresolved", !.attempts = cur.attempts]
      BY <1>1, <1>5, <2>2
    <3> HIDE DEF x
    <3> QED BY <1>2, <3>1 DEF Op
  <2> QED BY <2>1, <2>2
<1>7. o # c => rec.ops[o].status = x.status
  BY <1>1
<1> HIDE DEF x
<1>8. ASSUME rec.ops[o].status = "unresolved" PROVE x.order = 0
  <2>1. CASE OpRows(d, r, o) = {}
    BY <1>2, <2>1 DEF NoOp
  <2>2. CASE OpRows(d, r, o) # {}
    BY <1>2, <1>3, <1>4, <1>7, <1>8, <2>2
  <2> QED BY <2>1, <2>2
<1> QED BY <1>2, <1>6, <1>8 DEF rec

(* The operations with a transition's writes applied. *)
WrittenOps(rec, t) ==
    [o \in Ops |-> IF \E w \in t.ops : <<w.step, w.phase>> = o
                     THEN (CHOOSE w \in t.ops : <<w.step, w.phase>> = o).op
                     ELSE rec.ops[o]]

LEMMA WrittenOpsAt ==
    ASSUME NEW rec \in Record, NEW s, NEW t, Sent(rec, s, t), NEW o \in Ops
    PROVE  /\ WrittenOps(rec, t)[o] \in Op
           /\ \A w \in t.ops : w.step = o[1] /\ w.phase = o[2] => WrittenOps(rec, t)[o] = w.op
           /\ (\A w \in t.ops : ~(w.step = o[1] /\ w.phase = o[2]))
                => WrittenOps(rec, t)[o] = rec.ops[o]
<1>0. o = <<o[1], o[2]>>
  BY OpPairs
<1>1. WrittenOps(rec, t)[o] = IF \E w \in t.ops : <<w.step, w.phase>> = o
                                THEN (CHOOSE w \in t.ops : <<w.step, w.phase>> = o).op
                                ELSE rec.ops[o]
  BY DEF WrittenOps
<1>2. ASSUME NEW w \in t.ops, w.step = o[1], w.phase = o[2]
      PROVE  WrittenOps(rec, t)[o] = w.op /\ w.op \in Op
  <2>1. \A v \in t.ops : <<v.step, v.phase>> = o => v = w
    <3> SUFFICES ASSUME NEW v \in t.ops, <<v.step, v.phase>> = o PROVE v = w
      OBVIOUS
    <3>1. v.step = w.step /\ v.phase = w.phase
      BY <1>0, <1>2
    <3>2. \A y, z \in t.ops : y.step = z.step /\ y.phase = z.phase => y = z
      BY DEF Sent
    <3> QED BY <3>1, <3>2
  <2>2. <<w.step, w.phase>> = o
    BY <1>0, <1>2
  <2>3. (CHOOSE v \in t.ops : <<v.step, v.phase>> = o) = w
    BY <2>1, <2>2
  <2>4. \A v \in t.ops : IsWrite(v)
    BY DEF Sent
  <2>5. w.op \in Op
    BY <2>4 DEF IsWrite
  <2> QED BY <1>1, <2>2, <2>3, <2>5
<1>3. ASSUME \A w \in t.ops : ~(w.step = o[1] /\ w.phase = o[2])
      PROVE  WrittenOps(rec, t)[o] = rec.ops[o]
  <2>1. \A w \in t.ops : <<w.step, w.phase>> # o
    BY <1>0, <1>3
  <2> QED BY <1>1, <2>1
<1>4. rec.ops[o] \in Op
  BY RecordFields
<1> QED BY <1>2, <1>3, <1>4

(* What Sent says of the writes, of the store's rows. *)
LEMMA SentWritten ==
    ASSUME NEW d, Sound(d), NEW r \in d.meta, NEW t, NEW s, Sent(GetNonterminal(d, r), s, t)
    PROVE  Written(d, r, t.ops)
<1> DEFINE rec == GetNonterminal(d, r)
<1>0. Typed(d)
  BY DEF Sound
<1>1. rec \in Record
  BY Unfinished
<1>2. ASSUME NEW w \in t.ops
      PROVE  IsWrite(w) /\ <<w.step, w.phase>> \in Ops /\ w.op \in Op
  <2>1. IsWrite(w)
    BY DEF Sent
  <2> QED BY <2>1, OpPairs DEF IsWrite
<1>3. \A w \in t.ops : IF Resolves(w) THEN \A o \in Ops : rec.ops[o].order < w.op.order
                       ELSE w.op = rec.ops[<<w.step, w.phase>>] /\ w.op.status = "unresolved"
  BY DEF Sent
<1>4. ASSUME NEW w \in t.ops, w.op.status = "unresolved" PROVE w.op.order = 0
  <2>1. ~Resolves(w)
    BY <1>4 DEF Resolves
  <2> HIDE DEF rec
  <2>2. w.op = rec.ops[<<w.step, w.phase>>]
    BY <1>3, <2>1
  <2> QED BY <1>2, <1>4, <2>2, RecordOrders DEF rec
<1>5. ASSUME NEW w \in t.ops, Resolves(w), NEW k \in DOMAIN d.ops, k[1] = r
      PROVE  k[2] < w.op.order
  <2>1. k \in OpKeys
    BY <1>0 DEF Typed, IsMap
  <2> DEFINE o == <<k[3], k[4]>>
  <2>2. o \in Ops
    BY <2>1, KeyParts, OpPairs
  <2>3. k \in OpRows(d, r, o)
    BY <1>5 DEF OpRows
  <2> HIDE DEF o
  <2>4. rec.ops[o].order = k[2]
    BY <2>2, <2>3, RecordOrders
  <2> HIDE DEF rec
  <2> QED BY <1>3, <1>5, <2>2, <2>4
<1> HIDE DEF rec
<1>6. \A w \in t.ops : w.op.status # "none"
  BY <1>3 DEF Resolves
<1>7. /\ \A v, w \in t.ops : v.step = w.step /\ v.phase = w.phase => v = w
      /\ \A v, w \in t.ops : Resolves(v) /\ Resolves(w) => v = w
  BY DEF Sent
<1> QED BY <1>2, <1>4, <1>5, <1>6, <1>7 DEF Written

(* The rows before the operations are put: the failure row and the cursor. *)
Moved(d, r, t) == [d EXCEPT !.failure = IF t.failure THEN @ \cup {r} ELSE @,
                            !.cursor = Put(@, r, t.cursor)]

LEMMA MovedFields ==
    ASSUME NEW d, Sound(d), NEW r \in d.meta, NEW t, t.cursor \in Cursor, t.failure \in BOOLEAN
    PROVE  LET e == Moved(d, r, t)
           IN  /\ Shape(e) /\ Typed(e) /\ OperationRows(e)
               /\ e.meta = d.meta /\ e.cancel = d.cancel /\ e.input = d.input /\ e.ops = d.ops
               /\ e.states = d.states /\ e.terminal = d.terminal /\ e.output = d.output
               /\ e.expiry = d.expiry /\ e.staged = d.staged /\ e.slots = d.slots
               /\ DOMAIN e.cursor = d.meta /\ e.cursor[r] = t.cursor
               /\ \A q \in d.meta \ {r} : e.cursor[q] = d.cursor[q]
               /\ e.failure \subseteq d.meta /\ (r \in e.failure <=> r \in d.failure \/ t.failure)
               /\ \A q \in d.meta \ {r} : q \in e.failure <=> q \in d.failure
<1> DEFINE e == Moved(d, r, t)
           f == IF t.failure THEN d.failure \cup {r} ELSE d.failure
<1>0. Shape(d) /\ Typed(d) /\ OperationRows(d) /\ StageRows(d)
  BY DEF Sound
<1>1. e = [d EXCEPT !.failure = f, !.cursor = Put(@, r, t.cursor)]
  BY Zenon DEF Moved
<1>2. /\ f \subseteq d.meta /\ f \subseteq Runs /\ (r \in f <=> r \in d.failure \/ t.failure)
      /\ \A q \in d.meta \ {r} : q \in f <=> q \in d.failure
  BY <1>0 DEF StageRows, Typed
<1> HIDE DEF e, f
<1>3. /\ Shape(e) /\ e.meta = d.meta /\ e.cancel = d.cancel /\ e.input = d.input /\ e.ops = d.ops
      /\ e.states = d.states /\ e.terminal = d.terminal /\ e.output = d.output
      /\ e.expiry = d.expiry /\ e.staged = d.staged /\ e.slots = d.slots
      /\ e.failure = f /\ e.cursor = Put(d.cursor, r, t.cursor)
  BY <1>0, <1>1 DEF Shape, Fields
<1>4. /\ DOMAIN e.cursor = d.meta /\ e.cursor[r] = t.cursor
      /\ \A q \in d.meta \ {r} : e.cursor[q] = d.cursor[q]
  BY <1>0, <1>3 DEF StageRows, Put
<1>5. IsMap(e.cursor, Runs, Cursor)
  <2>1. r \in Runs /\ IsMap(d.cursor, Runs, Cursor)
    BY <1>0 DEF Typed
  <2> QED BY <1>3, <2>1, PutMap
<1>6. Typed(e)
  BY <1>0, <1>2, <1>3, <1>5 DEF Typed
<1>7. OperationRows(e)
  BY <1>0, <1>3 DEF OperationRows
<1> QED BY <1>2, <1>3, <1>4, <1>6, <1>7 DEF e

(* The buckets after the commit. *)
LEMMA TransitFields ==
    ASSUME NEW d, Sound(d), NEW r \in d.meta, NEW t, NEW s, Sent(GetNonterminal(d, r), s, t),
           NEW e, e = PutOps(Moved(d, r, t), r, t.ops)
    PROVE  /\ Shape(e) /\ Typed(e) /\ OperationRows(e) /\ StageRows(e)
           /\ e.meta = d.meta /\ e.cancel = d.cancel /\ e.input = d.input
           /\ e.terminal = d.terminal /\ e.output = d.output
           /\ e.expiry = d.expiry /\ e.staged = d.staged /\ e.slots = d.slots
           /\ DOMAIN e.cursor = d.meta /\ e.cursor[r] = t.cursor
           /\ \A q \in d.meta \ {r} : e.cursor[q] = d.cursor[q]
           /\ (r \in e.failure <=> r \in d.failure \/ t.failure)
           /\ \A q \in d.meta \ {r} : SameRows(d, e, q) /\ (q \in e.failure <=> q \in d.failure)
           /\ \A w \in t.ops : /\ ReadOp(e, r, <<w.step, w.phase>>) = w.op
                               /\ \A k \in OpRows(e, r, <<w.step, w.phase>>) :
                                    e.ops[k].status = w.op.status
           /\ \A o \in Ops : (\A w \in t.ops : ~(w.step = o[1] /\ w.phase = o[2])) =>
                /\ ReadOp(e, r, o) = ReadOp(d, r, o) /\ OpRows(e, r, o) = OpRows(d, r, o)
                /\ \A k \in OpRows(d, r, o) : e.ops[k] = d.ops[k]
<1> DEFINE c == Moved(d, r, t)
<1>0. Shape(d) /\ Typed(d) /\ OperationRows(d) /\ StageRows(d) /\ r \in Runs
  BY DEF Sound, Typed
<1>1. t.cursor \in Cursor /\ t.failure \in BOOLEAN
  BY DEF Sent
<1>2. /\ Shape(c) /\ Typed(c) /\ OperationRows(c)
      /\ c.meta = d.meta /\ c.cancel = d.cancel /\ c.input = d.input /\ c.ops = d.ops
      /\ c.states = d.states /\ c.terminal = d.terminal /\ c.output = d.output
      /\ c.expiry = d.expiry /\ c.staged = d.staged /\ c.slots = d.slots
      /\ DOMAIN c.cursor = d.meta /\ c.cursor[r] = t.cursor
      /\ \A q \in d.meta \ {r} : c.cursor[q] = d.cursor[q]
      /\ c.failure \subseteq d.meta /\ (r \in c.failure <=> r \in d.failure \/ t.failure)
      /\ \A q \in d.meta \ {r} : q \in c.failure <=> q \in d.failure
  BY <1>1, MovedFields
<1>3. e = PutOps(c, r, t.ops)
  OBVIOUS
<1> HIDE DEF c
<1>4. Written(c, r, t.ops)
  <2>1. Written(d, r, t.ops)
    BY SentWritten
  <2> QED BY <1>2, <2>1 DEF Written
<1>5. /\ Shape(e) /\ e.meta = c.meta /\ e.cancel = c.cancel /\ e.failure = c.failure
      /\ e.input = c.input /\ e.cursor = c.cursor /\ e.terminal = c.terminal
      /\ e.output = c.output /\ e.expiry = c.expiry /\ e.staged = c.staged
      /\ e.slots = c.slots
  BY <1>2, <1>3, PutOpsFields
<1>6. /\ IsMap(e.ops, OpKeys, Op) /\ IsMap(e.states, StateKeys, {"large"})
      /\ DOMAIN e.ops = (DOMAIN c.ops \ Replaced(c, r, t.ops)) \cup Keys(r, t.ops)
  BY <1>0, <1>2, <1>3, <1>4, PutOpsRows
<1>7. Typed(e)
  BY <1>2, <1>5, <1>6 DEF Typed
<1>8. OperationRows(e)
  BY <1>0, <1>2, <1>3, <1>4, PutOpsSound
<1>9. StageRows(e)
  <2>1. \A k \in DOMAIN e.ops : k[1] \in d.meta
    BY <1>0, <1>2, <1>6 DEF StageRows, Keys, OpKey
  <2> QED BY <1>0, <1>2, <1>5, <2>1 DEF StageRows
<1>10. ASSUME NEW q \in d.meta \ {r} PROVE SameRows(d, e, q)
  <2>1. SameRows(c, e, q)
    BY <1>0, <1>2, <1>3, <1>4, PutOpsOthers
  <2> QED BY <1>2, <2>1 DEF SameRows
<1>11. ASSUME NEW w \in t.ops
       PROVE  /\ ReadOp(e, r, <<w.step, w.phase>>) = w.op
              /\ \A k \in OpRows(e, r, <<w.step, w.phase>>) : e.ops[k].status = w.op.status
  BY <1>0, <1>2, <1>3, <1>4, <1>7, PutOpsRead
<1>12. ASSUME NEW o \in Ops, \A w \in t.ops : ~(w.step = o[1] /\ w.phase = o[2])
       PROVE  /\ ReadOp(e, r, o) = ReadOp(d, r, o) /\ OpRows(e, r, o) = OpRows(d, r, o)
              /\ \A k \in OpRows(d, r, o) : e.ops[k] = d.ops[k]
  <2>1. /\ ReadOp(e, r, o) = ReadOp(c, r, o) /\ OpRows(e, r, o) = OpRows(c, r, o)
        /\ \A k \in OpRows(c, r, o) : e.ops[k] = c.ops[k]
    BY <1>0, <1>2, <1>3, <1>4, <1>7, <1>12, PutOpsKeep
  <2>2. SameRows(d, c, r)
    BY <1>2 DEF SameRows
  <2>3. ReadOp(c, r, o) = ReadOp(d, r, o)
    BY <1>0, <2>2, SameRead
  <2>4. OpRows(c, r, o) = OpRows(d, r, o)
    BY <1>2 DEF OpRows
  <2> QED BY <1>2, <2>1, <2>3, <2>4
<1>13. DOMAIN e.cursor = d.meta /\ e.cursor[r] = t.cursor
       /\ \A q \in d.meta \ {r} : e.cursor[q] = d.cursor[q]
  BY <1>2, <1>5
<1>14. /\ (r \in e.failure <=> r \in d.failure \/ t.failure)
       /\ \A q \in d.meta \ {r} : q \in e.failure <=> q \in d.failure
  BY <1>2, <1>5
<1> QED BY <1>2, <1>5, <1>7, <1>8, <1>9, <1>10, <1>11, <1>12, <1>13, <1>14

(* The next cursor's operation has no resolved row. *)
LEMMA TransitCursor ==
    ASSUME NEW d, Sound(d), NEW r \in d.meta, NEW t, NEW s, Sent(GetNonterminal(d, r), s, t),
           NEW e, e = PutOps(Moved(d, r, t), r, t.ops)
    PROVE  CursorRows(e)
<1> DEFINE rec == GetNonterminal(d, r)
           cur == d.cursor[r]
<1>0. Typed(d) /\ OperationRows(d) /\ CursorRows(d)
  BY DEF Sound
<1>1. /\ Typed(e) /\ e.meta = d.meta /\ e.cursor[r] = t.cursor
      /\ \A q \in d.meta \ {r} : e.cursor[q] = d.cursor[q] /\ SameRows(d, e, q)
      /\ \A o \in Ops : (\A w \in t.ops : ~(w.step = o[1] /\ w.phase = o[2])) =>
           /\ OpRows(e, r, o) = OpRows(d, r, o)
           /\ \A k \in OpRows(d, r, o) : e.ops[k] = d.ops[k]
  BY TransitFields
<1>2. ASSUME NEW q \in d.meta \ {r}, NEW k \in OpRows(e, q, <<e.cursor[q].step, e.cursor[q].phase>>)
      PROVE  e.ops[k].status = "unresolved"
  <2>1. SameRows(d, e, q) /\ e.cursor[q] = d.cursor[q]
    BY <1>1
  <2>2. k \in OpRows(d, q, <<d.cursor[q].step, d.cursor[q].phase>>) /\ e.ops[k] = d.ops[k]
    BY <1>2, <2>1 DEF SameRows, OpRows
  <2> QED BY <1>0, <2>2 DEF CursorRows
<1>3. ASSUME NEW k \in OpRows(e, r, <<t.cursor.step, t.cursor.phase>>)
      PROVE  e.ops[k].status = "unresolved"
  <2> DEFINE o == <<t.cursor.step, t.cursor.phase>>
  <2>1. k \in OpKeys /\ k[3] = t.cursor.step
    BY <1>1, <1>3 DEF OpRows, Typed, IsMap
  <2>2. t.cursor.step # NoStep /\ t.cursor.step \in Steps
    BY <2>1, KeyParts, NamesAssumption
  <2>3. /\ t.cursor.phase = rec.phase /\ \A w \in t.ops : w.step # t.cursor.step
        /\ rec.ops[<<t.cursor.step, rec.phase>>].status \in {"none", "unresolved"}
        /\ t.cursor \in Cursor
    BY <2>2 DEF Sent
  <2>4. o \in Ops /\ rec.ops[o].status \in {"none", "unresolved"}
        /\ \A w \in t.ops : ~(w.step = o[1] /\ w.phase = o[2])
    BY <2>2, <2>3, OpPairs DEF Cursor
  <2>5. k \in OpRows(d, r, o) /\ e.ops[k] = d.ops[k]
    BY <1>1, <1>3, <2>4
  <2>6. ReadsAs(rec.ops, cur, d, r)
    BY Unfinished
  <2> HIDE DEF rec, o
  <2>7. CASE o = <<cur.step, cur.phase>>
    BY <1>0, <2>5, <2>7 DEF CursorRows
  <2>8. CASE o # <<cur.step, cur.phase>>
    <3>1. rec.ops[o] = ReadOp(d, r, o)
      BY <2>4, <2>6, <2>8 DEF ReadsAs
    <3>2. ReadOp(d, r, o).status = d.ops[k].status
      BY <1>0, <2>5, ReadType
    <3>3. d.ops[k].status # "none"
      BY <1>0, <2>5 DEF OperationRows, OpRows
    <3> QED BY <2>4, <2>5, <3>1, <3>2, <3>3
  <2> QED BY <2>7, <2>8
<1> QED BY <1>1, <1>2, <1>3 DEF CursorRows

(* The contract speaks of records and transitions in the same words. *)
LEMMA SameWords ==
    /\ Contract!Ops = Ops /\ Contract!NoOp = NoOp
    /\ \A ops, cur : Contract!OverlayCursor(ops, cur) = OverlayCursor(ops, cur)
    /\ \A rec : Contract!Terminal(rec) <=> Terminal(rec)
    /\ \A f, k, v : Contract!Put(f, k, v) = Put(f, k, v)
    /\ \A f, K : Contract!Delete(f, K) = Delete(f, K)
<1>1. Contract!Ops = Ops
  BY DEF Contract!Ops, Ops, Contract!Phases, Phases
<1>2. Contract!NoOp = NoOp
  BY DEF Contract!NoOp, NoOp
<1>3. \A ops, cur : Contract!OverlayCursor(ops, cur) = OverlayCursor(ops, cur)
  BY Zenon DEF Contract!OverlayCursor, OverlayCursor
<1>4. \A rec : Contract!Terminal(rec) <=> Terminal(rec)
  BY DEF Contract!Terminal, Terminal
<1>5. \A f, k, v : Contract!Put(f, k, v) = Put(f, k, v)
  BY Zenon DEF Contract!Put, Put
<1>6. \A f, K : Contract!Delete(f, K) = Delete(f, K)
  BY Zenon DEF Contract!Delete, Delete
<1> QED BY <1>1, <1>2, <1>3, <1>4, <1>5, <1>6

LEMMA SameCompact == \A rec : Contract!CompactTerminal(rec) = CompactTerminal(rec)
<1> SUFFICES ASSUME NEW rec PROVE Contract!CompactTerminal(rec) = CompactTerminal(rec)
  OBVIOUS
<1>1. Contract!Ops = Ops /\ Contract!NoOp = NoOp
  BY SameWords
<1> QED BY <1>1, Zenon DEF Contract!CompactTerminal, CompactTerminal

LEMMA SameNew == \A r, i, n : Contract!NewRecord(r, i, n) = NewRecord(r, i, n)
<1> SUFFICES ASSUME NEW r, NEW i, NEW n PROVE Contract!NewRecord(r, i, n) = NewRecord(r, i, n)
  OBVIOUS
<1>1. Contract!Ops = Ops /\ Contract!NoOp = NoOp
  BY SameWords
<1> QED BY <1>1, Zenon DEF Contract!NewRecord, NewRecord

LEMMA SameTransition ==
    /\ \A a, b, c, d, e, f : Contract!Transition(a, b, c, d, e, f) = Transition(a, b, c, d, e, f)
    /\ \A a, b, c, d, e : Contract!ActiveCursor(a, b, c, d, e) = ActiveCursor(a, b, c, d, e)
    /\ \A a, b : Contract!IdleCursor(a, b) = IdleCursor(a, b)
    /\ \A a, b, c, d : Contract!Resolved(a, b, c, d) = Resolved(a, b, c, d)
    /\ \A a, b : Contract!Candidates(a, b) = Candidates(a, b)
<1>1. \A a, b, c : Contract!OpWrite(a, b, c) = OpWrite(a, b, c)
  BY Zenon DEF Contract!OpWrite, OpWrite
<1>2. ASSUME NEW a, NEW b, NEW c PROVE Contract!Flush(a, b, c) = Flush(a, b, c)
  <2>1. Contract!Ops = Ops
    BY SameWords
  <2> QED BY <1>1, <2>1 DEF Contract!Flush, Flush
<1>3. ASSUME NEW a, NEW b, NEW c, NEW d, NEW e, NEW f
      PROVE  Contract!Transition(a, b, c, d, e, f) = Transition(a, b, c, d, e, f)
  BY <1>2 DEF Contract!Transition, Transition
<1>4. \A a, b, c, d, e : Contract!ActiveCursor(a, b, c, d, e) = ActiveCursor(a, b, c, d, e)
  BY Zenon DEF Contract!ActiveCursor, ActiveCursor
<1>5. \A a, b : Contract!IdleCursor(a, b) = IdleCursor(a, b)
  BY Zenon DEF Contract!IdleCursor, IdleCursor
<1>6. ASSUME NEW a, NEW b, NEW c, NEW d PROVE Contract!Resolved(a, b, c, d) = Resolved(a, b, c, d)
  <2>1. Contract!NextOrder(a) = NextOrder(a)
    <3>1. Contract!Ops = Ops
      BY SameWords
    <3> QED BY <3>1, Zenon DEF Contract!NextOrder, NextOrder
  <2> QED BY <1>1, <2>1, Zenon DEF Contract!Resolved, Resolved
<1>7. \A a, b : Contract!Candidates(a, b) = Candidates(a, b)
  BY Zenon DEF Contract!Candidates, Candidates
<1> QED BY <1>3, <1>4, <1>5, <1>6, <1>7

LEMMA SameTransitions ==
    ASSUME NEW rec, NEW steps, NEW s, NEW n
    PROVE  Contract!Transitions(rec, steps, s, n) = Transitions(rec, steps, s, n)
<1>1. Contract!Reservations(rec, steps, n) = Reservations(rec, steps, n)
  BY SameTransition DEF Contract!Reservations, Reservations
<1>2. Contract!Retries(rec, s, n) = Retries(rec, s, n)
  BY SameTransition DEF Contract!Retries, Retries
<1>3. ASSUME NEW c PROVE Contract!Failed(rec, c, n) = Failed(rec, c, n)
  BY SameTransition DEF Contract!Failed, Failed
<1>4. Contract!Succeeded(rec, s, n) = Succeeded(rec, s, n)
  BY SameTransition DEF Contract!Succeeded, Succeeded
<1>5. Contract!Cancellations(rec, steps, n) = Cancellations(rec, steps, n)
  BY <1>3, SameTransition DEF Contract!Cancellations, Cancellations
<1>6. Contract!Completions(rec, n) = Completions(rec, n)
  BY SameTransition DEF Contract!Completions, Completions
<1> QED BY <1>1, <1>2, <1>3, <1>4, <1>5, <1>6 DEF Contract!Transitions, Transitions

(* The contract's record after a transition. *)
Continued(rec, t) ==
    [rec EXCEPT !.ops = OverlayCursor(WrittenOps(rec, t), t.cursor),
                !.phase = t.cursor.phase, !.sched = t.cursor.sched,
                !.updatedAt = t.cursor.updatedAt, !.failure = @ \/ t.failure]

LEMMA AppliedNext ==
    ASSUME NEW rec, NEW t
    PROVE  Contract!Applied(rec, t) =
             IF t.outcome = "none" THEN Continued(rec, t)
             ELSE CompactTerminal([Continued(rec, t) EXCEPT !.outcome = t.outcome, !.output = t.output])
<1>1. /\ Contract!Ops = Ops
      /\ \A ops, cur : Contract!OverlayCursor(ops, cur) = OverlayCursor(ops, cur)
      /\ \A x : Contract!CompactTerminal(x) = CompactTerminal(x)
  BY SameWords, SameCompact
<1>2. Contract!Applied(rec, t) =
        IF t.outcome = "none"
          THEN [rec EXCEPT !.ops = Contract!OverlayCursor(WrittenOps(rec, t), t.cursor),
                           !.phase = t.cursor.phase, !.sched = t.cursor.sched,
                           !.updatedAt = t.cursor.updatedAt, !.failure = @ \/ t.failure]
          ELSE Contract!CompactTerminal(
                 [[rec EXCEPT !.ops = Contract!OverlayCursor(WrittenOps(rec, t), t.cursor),
                              !.phase = t.cursor.phase, !.sched = t.cursor.sched,
                              !.updatedAt = t.cursor.updatedAt, !.failure = @ \/ t.failure]
                    EXCEPT !.outcome = t.outcome, !.output = t.output])
  BY <1>1, Zenon DEF Contract!Applied, WrittenOps
<1> QED BY <1>1, <1>2, Zenon DEF Continued

(* The operations read after the commit. *)
LEMMA TransitOps ==
    ASSUME NEW d, Sound(d), NEW r \in d.meta, NEW t, NEW s, Sent(GetNonterminal(d, r), s, t),
           NEW e, e = PutOps(Moved(d, r, t), r, t.ops)
    PROVE  OverlayCursor([o \in Ops |-> ReadOp(e, r, o)], t.cursor)
             = OverlayCursor(WrittenOps(GetNonterminal(d, r), t), t.cursor)
<1> DEFINE rec == GetNonterminal(d, r)
           cur == d.cursor[r]
           x == [o \in Ops |-> ReadOp(e, r, o)]
           y == WrittenOps(rec, t)
           c == <<t.cursor.step, t.cursor.phase>>
           a == t.cursor.attempts
           p == OverlayCursor(x, t.cursor)
           q == OverlayCursor(y, t.cursor)
<1>1. /\ Typed(e) /\ OperationRows(e)
      /\ \A w \in t.ops : ReadOp(e, r, <<w.step, w.phase>>) = w.op
      /\ \A o \in Ops : (\A w \in t.ops : ~(w.step = o[1] /\ w.phase = o[2])) =>
           ReadOp(e, r, o) = ReadOp(d, r, o)
  BY TransitFields
<1>2. rec \in Record /\ rec.phase = cur.phase /\ ReadsAs(rec.ops, cur, d, r)
  BY Unfinished
<1>3. t.cursor \in Cursor
  BY DEF Sent
<1>4. x \in [Ops -> Op] /\ \A o \in Ops : x[o] = ReadOp(e, r, o)
  BY <1>1, ReadType
<1>5. y \in [Ops -> Op]
  <2>1. \A o \in Ops : y[o] \in Op
    BY <1>2, WrittenOpsAt
  <2>2. y = [o \in Ops |-> y[o]]
    BY DEF WrittenOps
  <2> HIDE DEF y
  <2> QED BY <2>1, <2>2
<1> HIDE DEF x, y
<1>6. /\ p \in [Ops -> Op] /\ \A o \in Ops : o # c => p[o] = x[o]
      /\ t.cursor.step # NoStep =>
           c \in Ops /\ p[c] = [x[c] EXCEPT !.status = "unresolved", !.attempts = a]
  <2>1. x \in [Ops -> Op]
    BY <1>4
  <2> QED BY <1>3, <2>1, Overlaid
<1>7. /\ q \in [Ops -> Op] /\ \A o \in Ops : o # c => q[o] = y[o]
      /\ t.cursor.step # NoStep =>
           c \in Ops /\ q[c] = [y[c] EXCEPT !.status = "unresolved", !.attempts = a]
  BY <1>3, <1>5, Overlaid
<1> HIDE DEF p, q, rec
<1>8. ASSUME NEW o \in Ops, o # <<cur.step, cur.phase>> PROVE x[o] = y[o]
  <2>1. CASE \E w \in t.ops : w.step = o[1] /\ w.phase = o[2]
    <3>1. PICK w \in t.ops : w.step = o[1] /\ w.phase = o[2]
      BY <2>1
    <3>2. y[o] = w.op
      BY <1>2, <3>1, WrittenOpsAt DEF y, rec
    <3>3. o = <<w.step, w.phase>>
      BY <3>1, OpPairs
    <3> QED BY <1>1, <1>4, <3>2, <3>3
  <2>2. CASE \A w \in t.ops : ~(w.step = o[1] /\ w.phase = o[2])
    <3>1. y[o] = rec.ops[o]
      BY <1>2, <2>2, WrittenOpsAt DEF y, rec
    <3>2. rec.ops[o] = ReadOp(d, r, o)
      BY <1>2, <1>8 DEF ReadsAs
    <3> QED BY <1>1, <1>4, <2>2, <3>1, <3>2
  <2> QED BY <2>1, <2>2
<1>9. ASSUME NEW o \in Ops, o = <<cur.step, cur.phase>> PROVE p[o] = q[o]
  <2>0. cur.step # NoStep /\ o[1] = cur.step /\ o[2] = cur.phase
    BY <1>9, OpPairs, NamesAssumption
  <2>1. CASE \E w \in t.ops : w.step = o[1] /\ w.phase = o[2]
    <3>1. PICK w \in t.ops : w.step = o[1] /\ w.phase = o[2]
      BY <2>1
    <3>2. y[o] = w.op
      BY <1>2, <3>1, WrittenOpsAt DEF y, rec
    <3>3. o = <<w.step, w.phase>>
      BY <3>1, OpPairs
    <3>4. x[o] = y[o]
      BY <1>1, <1>4, <3>2, <3>3
    <3>5. o = c => t.cursor.step # NoStep
      BY OpPairs, NamesAssumption
    <3> HIDE DEF c, a
    <3> QED BY <1>6, <1>7, <3>4, <3>5
  <2>2. CASE \A w \in t.ops : ~(w.step = o[1] /\ w.phase = o[2])
    <3> DEFINE z == ReadOp(d, r, o)
               b == cur.attempts
    <3>1. y[o] = rec.ops[o] /\ x[o] = z
      BY <1>1, <1>2, <1>4, <2>2, WrittenOpsAt DEF y, rec
    <3>2. rec.ops[o] = [z EXCEPT !.status = "unresolved", !.attempts = b]
      BY <1>2, <1>9, <2>0 DEF ReadsAs
    <3>3. z \in Op
      BY <1>4, <3>1
    <3> HIDE DEF z, b
    <3>4. rec.ops[o].status = "unresolved"
      BY <3>2, <3>3 DEF Op
    <3>5. o[1] = t.cursor.step
      BY <2>2, <3>4 DEF Sent, rec
    <3>6. t.cursor.step # NoStep /\ t.cursor.phase = rec.phase
      BY <2>0, <3>5 DEF Sent, rec
    <3>7. o = c
      BY <1>2, <1>9, <2>0, <3>5, <3>6
    <3> HIDE DEF c, a
    <3>8. p[o] = [z EXCEPT !.status = "unresolved", !.attempts = a]
      BY <1>6, <3>1, <3>6, <3>7
    <3>9. q[o] = [[z EXCEPT !.status = "unresolved", !.attempts = b]
                    EXCEPT !.status = "unresolved", !.attempts = a]
      BY <1>7, <3>1, <3>2, <3>6, <3>7
    <3> QED BY <3>3, <3>8, <3>9 DEF Op
  <2> QED BY <2>1, <2>2
<1>10. ASSUME NEW o \in Ops PROVE p[o] = q[o]
  <2>1. CASE o = <<cur.step, cur.phase>>
    BY <1>9, <2>1
  <2>2. CASE o # <<cur.step, cur.phase>>
    <3>1. x[o] = y[o]
      BY <1>8, <2>2
    <3>2. o = c => t.cursor.step # NoStep
      BY OpPairs, NamesAssumption
    <3> HIDE DEF c, a
    <3> QED BY <1>6, <1>7, <3>1, <3>2
  <2> QED BY <2>1, <2>2
<1>11. p = q
  BY <1>6, <1>7, <1>10
<1> QED BY <1>11 DEF p, q, x, y, rec

RecordOf(i, p, s, u, ops, f, c, oc, out) ==
    [input |-> i, phase |-> p, sched |-> s, updatedAt |-> u, ops |-> ops, failure |-> f,
     cancel |-> c, outcome |-> oc, output |-> out]
Updated(x, p, s, u, ops, f) ==
    [x EXCEPT !.ops = ops, !.phase = p, !.sched = s, !.updatedAt = u, !.failure = f]
RecordNames == {"input", "phase", "sched", "updatedAt", "ops", "failure", "cancel",
                "outcome", "output"}

LEMMA RecordOfFields ==
    ASSUME NEW i, NEW p, NEW s, NEW u, NEW ops, NEW f, NEW c, NEW oc, NEW out,
           NEW x, x = RecordOf(i, p, s, u, ops, f, c, oc, out)
    PROVE  /\ x = [n \in RecordNames |-> x[n]]
           /\ x.input = i /\ x.phase = p /\ x.sched = s /\ x.updatedAt = u /\ x.ops = ops
           /\ x.failure = f /\ x.cancel = c /\ x.outcome = oc /\ x.output = out
BY DEF RecordOf, RecordNames

LEMMA RecordUpdate ==
    ASSUME NEW i, NEW p, NEW s, NEW u, NEW ops, NEW f, NEW c, NEW oc, NEW out,
           NEW p2, NEW s2, NEW u2, NEW ops2, NEW f2,
           NEW x, x = RecordOf(i, p, s, u, ops, f, c, oc, out)
    PROVE  Updated(x, p2, s2, u2, ops2, f2) = RecordOf(i, p2, s2, u2, ops2, f2, c, oc, out)
<1> DEFINE y == [x EXCEPT !.ops = ops2, !.phase = p2, !.sched = s2, !.updatedAt = u2, !.failure = f2]
           z == RecordOf(i, p2, s2, u2, ops2, f2, c, oc, out)
<1>1. /\ x = [n \in RecordNames |-> x[n]]
      /\ x.input = i /\ x.cancel = c /\ x.outcome = oc /\ x.output = out
  BY RecordOfFields
<1>2. /\ z = [n \in RecordNames |-> z[n]]
      /\ z.input = i /\ z.phase = p2 /\ z.sched = s2 /\ z.updatedAt = u2 /\ z.ops = ops2
      /\ z.failure = f2 /\ z.cancel = c /\ z.outcome = oc /\ z.output = out
  BY RecordOfFields
<1> HIDE DEF z
<1>3. /\ y = [n \in RecordNames |-> y[n]]
      /\ y.ops = ops2 /\ y.phase = p2 /\ y.sched = s2 /\ y.updatedAt = u2 /\ y.failure = f2
  BY <1>1 DEF RecordNames
<1>4. y.input = i /\ y.cancel = c /\ y.outcome = oc /\ y.output = out
  BY <1>1 DEF RecordNames
<1> HIDE DEF y
<1>5. \A n \in RecordNames : y[n] = z[n]
  BY <1>2, <1>3, <1>4 DEF RecordNames
<1>6. y = z
  BY <1>2, <1>3, <1>5
<1> QED BY <1>6 DEF y, z, Updated

(* The operation in flight, as the contract keeps it. *)
NextFlight(fl, r, t) == IF t.cursor.step = NoStep THEN Delete(fl, {r})
                        ELSE Put(fl, r, t.cursor.step)

(* A transition without an outcome is the contract's. *)
LEMMA TransitSound ==
    ASSUME NEW d, Sound(d), NEW r \in d.meta, r \notin DOMAIN d.terminal, NEW t, NEW s,
           Sent(GetNonterminal(d, r), s, t), t.outcome = "none", NEW e, e = Transit(d, r, t)
    PROVE  /\ Sound(e) /\ e.slots = d.slots /\ e.meta = d.meta /\ e.terminal = d.terminal
           /\ Seen(e) = [Seen(d) EXCEPT ![r] = Contract!Applied(GetNonterminal(d, r), t)]
           /\ Flying(e) = NextFlight(Flying(d), r, t)
<1>0. /\ Typed(d) /\ StageRows(d) /\ EndRows(d) /\ SlotRows(d)
  BY DEF Sound
<1>1. e = PutOps(Moved(d, r, t), r, t.ops)
  BY Zenon DEF Transit, Moved
<1>2. /\ Shape(e) /\ Typed(e) /\ OperationRows(e) /\ StageRows(e)
      /\ e.meta = d.meta /\ e.cancel = d.cancel /\ e.input = d.input
      /\ e.terminal = d.terminal /\ e.output = d.output
      /\ e.expiry = d.expiry /\ e.staged = d.staged /\ e.slots = d.slots
      /\ DOMAIN e.cursor = d.meta /\ e.cursor[r] = t.cursor
      /\ \A q \in d.meta \ {r} : e.cursor[q] = d.cursor[q]
      /\ (r \in e.failure <=> r \in d.failure \/ t.failure)
      /\ \A q \in d.meta \ {r} : SameRows(d, e, q) /\ (q \in e.failure <=> q \in d.failure)
  BY <1>1, TransitFields
<1>3. CursorRows(e)
  BY <1>1, TransitCursor
<1>4. EndRows(e) /\ SlotRows(e)
  BY <1>0, <1>2 DEF EndRows, SlotRows
<1>5. Sound(e)
  BY <1>2, <1>3, <1>4 DEF Sound
<1>6. Apart(d, e, r)
  BY <1>2 DEF Apart
<1>7. Seen(e) = [Seen(d) EXCEPT ![r] = GetNonterminal(e, r)]
  BY <1>6, ApartSeen
<1>8. GetNonterminal(e, r) = Continued(GetNonterminal(d, r), t)
  <2> DEFINE cur == d.cursor[r]
             ops == OverlayCursor([o \in Ops |-> ReadOp(d, r, o)], cur)
             nops == OverlayCursor(WrittenOps(GetNonterminal(d, r), t), t.cursor)
             inp == Get(d.input, r, "none")
             can == Get(d.cancel, r, NoCause)
             fail == r \in d.failure
  <2>1. GetNonterminal(d, r) =
          [input |-> inp, phase |-> cur.phase, sched |-> cur.sched,
           updatedAt |-> cur.updatedAt, ops |-> ops, failure |-> fail, cancel |-> can,
           outcome |-> "none", output |-> "none"]
    BY Zenon DEF GetNonterminal
  <2>2. OverlayCursor([o \in Ops |-> ReadOp(e, r, o)], t.cursor) = nops
    BY <1>1, TransitOps
  <2>3. (r \in e.failure) = (fail \/ t.failure)
    BY <1>2
  <2>4. GetNonterminal(e, r) =
          [input |-> inp, phase |-> t.cursor.phase, sched |-> t.cursor.sched,
           updatedAt |-> t.cursor.updatedAt, ops |-> nops, failure |-> fail \/ t.failure,
           cancel |-> can, outcome |-> "none", output |-> "none"]
    BY <1>2, <2>2, <2>3, Zenon DEF GetNonterminal
  <2>5. GetNonterminal(d, r).failure = fail
    <3> HIDE DEF fail, ops, inp, can, cur
    <3> QED BY <2>1
  <2>6. Continued(GetNonterminal(d, r), t) =
          [GetNonterminal(d, r) EXCEPT
             !.ops = nops, !.phase = t.cursor.phase, !.sched = t.cursor.sched,
             !.updatedAt = t.cursor.updatedAt, !.failure = fail \/ t.failure]
    BY <2>5, Zenon DEF Continued
  <2> DEFINE nfail == fail \/ t.failure
  <2> HIDE DEF cur, ops, nops, inp, can, fail, nfail
  <2>7. /\ GetNonterminal(e, r) =
             RecordOf(inp, t.cursor.phase, t.cursor.sched, t.cursor.updatedAt, nops, nfail,
                      can, "none", "none")
        /\ GetNonterminal(d, r) =
             RecordOf(inp, cur.phase, cur.sched, cur.updatedAt, ops, fail, can, "none", "none")
        /\ Continued(GetNonterminal(d, r), t) =
             Updated(GetNonterminal(d, r), t.cursor.phase, t.cursor.sched, t.cursor.updatedAt,
                     nops, nfail)
    BY <2>1, <2>4, <2>6, Zenon DEF nfail, RecordOf, Updated
  <2> QED BY <2>7, RecordUpdate
<1>9. Contract!Applied(GetNonterminal(d, r), t) = Continued(GetNonterminal(d, r), t)
  BY AppliedNext
<1>10. Flying(e) = NextFlight(Flying(d), r, t)
  <2>1. DOMAIN d.cursor = d.meta /\ DOMAIN e.cursor = d.meta
    BY <1>0, <1>2 DEF StageRows
  <2>2. \A q : IsTerminal(e, q) <=> IsTerminal(d, q)
    BY <1>2 DEF IsTerminal
  <2>3. ~IsTerminal(d, r)
    BY DEF IsTerminal
  <2>4. CASE t.cursor.step = NoStep
    <3>1. {q \in DOMAIN e.cursor : ~IsTerminal(e, q) /\ e.cursor[q].step # NoStep}
            = {q \in DOMAIN d.cursor : ~IsTerminal(d, q) /\ d.cursor[q].step # NoStep} \ {r}
      BY <1>2, <2>1, <2>2, <2>4
    <3> QED BY <1>2, <2>1, <2>4, <3>1 DEF Flying, NextFlight, Delete
  <2>5. CASE t.cursor.step # NoStep
    <3>1. {q \in DOMAIN e.cursor : ~IsTerminal(e, q) /\ e.cursor[q].step # NoStep}
            = {q \in DOMAIN d.cursor : ~IsTerminal(d, q) /\ d.cursor[q].step # NoStep} \cup {r}
      BY <1>2, <2>1, <2>2, <2>3, <2>5
    <3> QED BY <1>2, <2>1, <2>5, <3>1 DEF Flying, NextFlight, Put
  <2> QED BY <2>4, <2>5
<1> QED BY <1>2, <1>5, <1>7, <1>8, <1>9, <1>10
-----------------------------------------------------------------------------
(* ApplyTransition's transaction with an outcome.                           *)

KeptOps(ops) == [o \in Ops |-> IF o[2] = "unwind" /\ ops[o].status = "failed"
                                 THEN ops[o] ELSE NoOp]
Unset == FALSE
Ended(x, oc, out) == [x EXCEPT !.outcome = oc, !.output = out]
EndedInPlace(x, p, u, ops, f, oc, out) ==
    [x EXCEPT !.ops = ops, !.failure = f, !.phase = p, !.updatedAt = u,
              !.outcome = oc, !.output = out]

LEMMA RecordEnded ==
    ASSUME NEW i, NEW p, NEW s, NEW u, NEW ops, NEW f, NEW c, NEW oc, NEW out,
           NEW oc2, NEW out2, NEW x, x = RecordOf(i, p, s, u, ops, f, c, oc, out)
    PROVE  Ended(x, oc2, out2) = RecordOf(i, p, s, u, ops, f, c, oc2, out2)
<1> DEFINE y == [x EXCEPT !.outcome = oc2, !.output = out2]
           z == RecordOf(i, p, s, u, ops, f, c, oc2, out2)
<1>1. /\ x = [n \in RecordNames |-> x[n]]
      /\ x.input = i /\ x.phase = p /\ x.sched = s /\ x.updatedAt = u /\ x.ops = ops
      /\ x.failure = f /\ x.cancel = c
  BY RecordOfFields
<1>2. /\ z = [n \in RecordNames |-> z[n]]
      /\ z.input = i /\ z.phase = p /\ z.sched = s /\ z.updatedAt = u /\ z.ops = ops
      /\ z.failure = f /\ z.cancel = c /\ z.outcome = oc2 /\ z.output = out2
  BY RecordOfFields
<1> HIDE DEF z
<1>3. y = [n \in RecordNames |-> y[n]] /\ y.outcome = oc2 /\ y.output = out2
  BY <1>1 DEF RecordNames
<1>4. /\ y.input = i /\ y.phase = p /\ y.sched = s /\ y.updatedAt = u /\ y.ops = ops
      /\ y.failure = f /\ y.cancel = c
  BY <1>1 DEF RecordNames
<1> HIDE DEF y
<1>5. \A n \in RecordNames : y[n] = z[n]
  BY <1>2, <1>3, <1>4 DEF RecordNames
<1>6. y = z
  BY <1>2, <1>3, <1>5
<1> QED BY <1>6 DEF y, z, Ended

LEMMA RecordEndedInPlace ==
    ASSUME NEW i, NEW p, NEW s, NEW u, NEW ops, NEW f, NEW c, NEW oc, NEW out,
           NEW p2, NEW u2, NEW ops2, NEW f2, NEW oc2, NEW out2,
           NEW x, x = RecordOf(i, p, s, u, ops, f, c, oc, out)
    PROVE  EndedInPlace(x, p2, u2, ops2, f2, oc2, out2)
             = RecordOf(i, p2, s, u2, ops2, f2, c, oc2, out2)
<1> DEFINE y == [x EXCEPT !.ops = ops2, !.failure = f2, !.phase = p2, !.updatedAt = u2,
                          !.outcome = oc2, !.output = out2]
           z == RecordOf(i, p2, s, u2, ops2, f2, c, oc2, out2)
<1>1. x = [n \in RecordNames |-> x[n]] /\ x.input = i /\ x.sched = s /\ x.cancel = c
  BY RecordOfFields
<1>2. /\ z = [n \in RecordNames |-> z[n]]
      /\ z.input = i /\ z.phase = p2 /\ z.sched = s /\ z.updatedAt = u2 /\ z.ops = ops2
      /\ z.failure = f2 /\ z.cancel = c /\ z.outcome = oc2 /\ z.output = out2
  BY RecordOfFields
<1> HIDE DEF z
<1>3. /\ y = [n \in RecordNames |-> y[n]] /\ y.outcome = oc2 /\ y.output = out2
      /\ y.phase = p2 /\ y.updatedAt = u2 /\ y.ops = ops2 /\ y.failure = f2
  BY <1>1 DEF RecordNames
<1>4. y.input = i /\ y.sched = s /\ y.cancel = c
  BY <1>1 DEF RecordNames
<1> HIDE DEF y
<1>5. \A n \in RecordNames : y[n] = z[n]
  BY <1>2, <1>3, <1>4 DEF RecordNames
<1>6. y = z
  BY <1>2, <1>3, <1>5
<1> QED BY <1>6 DEF y, z, EndedInPlace

LEMMA RecordCompacted ==
    ASSUME NEW i, NEW p, NEW s, NEW u, NEW ops, NEW f, NEW c, NEW oc, NEW out,
           NEW x, x = RecordOf(i, p, s, u, ops, f, c, oc, out)
    PROVE  CompactTerminal(x) = RecordOf("none", p, Unset, u, KeptOps(ops), f, c, oc, out)
<1> DEFINE k == KeptOps(ops)
           y == [x EXCEPT !.input = "none", !.sched = Unset, !.ops = k]
           z == RecordOf("none", p, Unset, u, k, f, c, oc, out)
<1>1. /\ x = [n \in RecordNames |-> x[n]] /\ x.ops = ops
      /\ x.phase = p /\ x.updatedAt = u /\ x.failure = f /\ x.cancel = c
      /\ x.outcome = oc /\ x.output = out
  BY RecordOfFields
<1>0. CompactTerminal(x) = y
  <2>1. x.ops = ops
    BY <1>1
  <2> QED BY <2>1, Zenon DEF CompactTerminal, KeptOps, Unset
<1> HIDE DEF k
<1>2. /\ z = [n \in RecordNames |-> z[n]]
      /\ z.input = "none" /\ z.phase = p /\ z.sched = Unset /\ z.updatedAt = u /\ z.ops = k
      /\ z.failure = f /\ z.cancel = c /\ z.outcome = oc /\ z.output = out
  BY RecordOfFields
<1> HIDE DEF z
<1>3. /\ y = [n \in RecordNames |-> y[n]] /\ y.input = "none" /\ y.sched = Unset /\ y.ops = k
  BY <1>1 DEF RecordNames
<1>4. /\ y.phase = p /\ y.updatedAt = u /\ y.failure = f /\ y.cancel = c
      /\ y.outcome = oc /\ y.output = out
  BY <1>1 DEF RecordNames
<1> HIDE DEF y
<1>5. \A n \in RecordNames : y[n] = z[n]
  BY <1>2, <1>3, <1>4 DEF RecordNames
<1>6. y = z
  BY <1>2, <1>3, <1>5
<1> QED BY <1>0, <1>6 DEF z, k

(* The row of the terminal bucket is the contract's record. *)
LEMMA TerminalApplied ==
    ASSUME NEW d, Sound(d), NEW r \in d.meta, NEW t, NEW s, Sent(GetNonterminal(d, r), s, t),
           t.outcome # "none"
    PROVE  LET x == TerminalRecord(d, r, t)
           IN  /\ x = Contract!Applied(GetNonterminal(d, r), t) /\ x \in Record
               /\ x.input = "none" /\ x.outcome # "none" /\ x.outcome = t.outcome
               /\ x.updatedAt = t.cursor.updatedAt
<1> DEFINE rec == GetNonterminal(d, r)
           cur == d.cursor[r]
           ops == OverlayCursor([o \in Ops |-> ReadOp(d, r, o)], cur)
           inp == Get(d.input, r, "none")
           can == Get(d.cancel, r, NoCause)
           fail == r \in d.failure
           nfail == fail \/ t.failure
           w == WrittenOps(rec, t)
           cp == t.cursor.phase
           cs == t.cursor.sched
           cu == t.cursor.updatedAt
           oc == t.outcome
           out == t.output
           y == RecordOf("none", cp, Unset, cu, KeptOps(w), nfail, can, oc, out)
<1>0. Typed(d)
  BY DEF Sound
<1>1. t.cursor \in Cursor /\ t.cursor.step = NoStep /\ oc \in Outcomes /\ out \in Blob
      /\ t.failure \in BOOLEAN
  BY DEF Sent
<1>2. rec = RecordOf(inp, cur.phase, cur.sched, cur.updatedAt, ops, fail, can, "none", "none")
  BY Zenon DEF GetNonterminal, RecordOf
<1>3. rec.failure = fail /\ (rec.failure \/ t.failure) = nfail
  <2>1. rec.failure = fail
    <3> HIDE DEF rec, inp, cur, ops, fail, can
    <3> QED BY <1>2, RecordOfFields
  <2> QED BY <2>1
<1>4. OverlayCursor(w, t.cursor) = w
  BY <1>1 DEF OverlayCursor
<1>5. Contract!Applied(rec, t) = CompactTerminal(Ended(Updated(rec, cp, cs, cu, w, nfail), oc, out))
  <2>1. Continued(rec, t) = Updated(rec, cp, cs, cu, w, nfail)
    BY <1>3, <1>4, Zenon DEF Continued, Updated
  <2> QED BY <2>1, AppliedNext, Zenon DEF Ended
<1>6. TerminalRecord(d, r, t) = CompactTerminal(EndedInPlace(rec, cp, cu, w, nfail, oc, out))
  BY <1>1, <1>3, Zenon DEF TerminalRecord, EndedInPlace, WrittenOps
<1>7. oc # "none"
  OBVIOUS
<1>8. inp \in Blob /\ can \in Causes \cup {NoCause} /\ nfail \in BOOLEAN
  BY <1>0 DEF Get, Typed, IsMap, Blob
<1>9. rec \in Record
  BY Unfinished
<1>10. KeptOps(w) \in [Ops -> Op]
  <2>1. \A o \in Ops : w[o] \in Op
    BY <1>9, WrittenOpsAt
  <2>2. NoOp \in Op
    BY DEF NoOp, Op, OpStatus, Blob
  <2> HIDE DEF w
  <2> QED BY <2>1, <2>2 DEF KeptOps
<1>11. cp \in Phases /\ cu \in Times
  BY <1>1 DEF Cursor
<1> HIDE DEF rec, inp, cur, ops, fail, nfail, can, w, cp, cs, cu, oc, out
<1>12. Contract!Applied(rec, t) = y
  <2>1. Updated(rec, cp, cs, cu, w, nfail)
          = RecordOf(inp, cp, cs, cu, w, nfail, can, "none", "none")
    BY <1>2, RecordUpdate
  <2>2. Ended(Updated(rec, cp, cs, cu, w, nfail), oc, out)
          = RecordOf(inp, cp, cs, cu, w, nfail, can, oc, out)
    BY <2>1, RecordEnded
  <2> DEFINE x == Ended(Updated(rec, cp, cs, cu, w, nfail), oc, out)
  <2> HIDE DEF x, y
  <2>3. CompactTerminal(x) = y
    BY <2>2, RecordCompacted DEF x, y
  <2> QED BY <1>5, <2>3 DEF x
<1>13. TerminalRecord(d, r, t) = y
  <2>1. EndedInPlace(rec, cp, cu, w, nfail, oc, out)
          = RecordOf(inp, cp, cur.sched, cu, w, nfail, can, oc, out)
    BY <1>2, RecordEndedInPlace
  <2> DEFINE x == EndedInPlace(rec, cp, cu, w, nfail, oc, out)
  <2> HIDE DEF x, y
  <2>2. CompactTerminal(x) = y
    BY <2>1, RecordCompacted DEF x, y
  <2> QED BY <1>6, <2>2 DEF x
<1>14. y \in Record
  <2> DEFINE k == KeptOps(w)
  <2>1. k \in [Ops -> Op]
    BY <1>10
  <2> HIDE DEF k
  <2>2. RecordOf("none", cp, Unset, cu, k, nfail, can, oc, out) \in Record
    BY <1>1, <1>8, <1>11, <2>1 DEF RecordOf, Record, Blob, Unset
  <2> QED BY <2>2 DEF k
<1>15. y.input = "none" /\ y.outcome = oc /\ y.updatedAt = cu
  BY RecordOfFields
<1> HIDE DEF y
<1> QED BY <1>7, <1>12, <1>13, <1>14, <1>15 DEF rec, oc, cu

OwnSlot(d, r) == {s \in {SlotOf[r]} \cap DOMAIN d.slots : d.slots[s] = r}
StoredRecord(x) == [x EXCEPT !.output = IF @ = "large" THEN "none" ELSE @]
ReadRecord(x, out) == [x EXCEPT !.output = IF @ = "none" THEN out ELSE @]

LEMMA PutTerminalFields ==
    ASSUME NEW d, Shape(d), NEW r, NEW x
    PROVE  LET e == PutTerminal(d, r, x)
           IN  /\ Shape(e) /\ e.meta = d.meta /\ e.cancel = d.cancel /\ e.failure = d.failure
               /\ e.input = d.input /\ e.cursor = d.cursor /\ e.ops = d.ops /\ e.states = d.states
               /\ e.terminal = Put(d.terminal, r, StoredRecord(x))
               /\ e.output = (IF x.output = "large" THEN Put(d.output, r, "large") ELSE d.output)
               /\ e.expiry = d.expiry \cup {<<x.updatedAt, r>>}
               /\ e.staged = d.staged \cup {r}
               /\ e.slots = Delete(d.slots, OwnSlot(d, r))
<1> DEFINE e == PutTerminal(d, r, x)
           sr == StoredRecord(x)
           out == IF x.output = "large" THEN Put(d.output, r, "large") ELSE d.output
           sl == Delete(d.slots, OwnSlot(d, r))
           u == x.updatedAt
<1>1. e = [d EXCEPT !.terminal = Put(@, r, sr), !.output = out, !.expiry = @ \cup {<<u, r>>},
                    !.staged = @ \cup {r}, !.slots = sl]
  BY Zenon DEF PutTerminal, StoredRecord, OwnSlot
<1> HIDE DEF e, sr, out, sl, u
<1>2. /\ Shape(e) /\ e.meta = d.meta /\ e.cancel = d.cancel /\ e.failure = d.failure
      /\ e.input = d.input /\ e.cursor = d.cursor /\ e.ops = d.ops /\ e.states = d.states
      /\ e.terminal = Put(d.terminal, r, sr) /\ e.output = out
      /\ e.expiry = d.expiry \cup {<<u, r>>} /\ e.staged = d.staged \cup {r}
      /\ e.slots = sl
  BY <1>1 DEF Shape, Fields
<1> QED BY <1>2 DEF e, sr, out, sl, u

LEMMA StoredReads ==
    ASSUME NEW x \in Record
    PROVE  /\ StoredRecord(x) \in Record /\ StoredRecord(x).updatedAt = x.updatedAt
           /\ StoredRecord(x).outcome = x.outcome /\ StoredRecord(x).input = x.input
           /\ x.output = "large" => StoredRecord(x).output = "none"
           /\ ReadRecord(StoredRecord(x), IF x.output = "large" THEN "large" ELSE "none") = x
<1> DEFINE y == StoredRecord(x)
<1>0. x.output \in Blob
  BY DEF Record
<1>1. CASE x.output = "large"
  <2>1. y = [x EXCEPT !.output = "none"]
    BY <1>1, Zenon DEF StoredRecord
  <2>2. y.output = "none"
    BY <2>1 DEF Record
  <2> HIDE DEF y
  <2>3. ReadRecord(y, "large") = [y EXCEPT !.output = "large"]
    BY <2>2, Zenon DEF ReadRecord
  <2>4. [y EXCEPT !.output = "large"] = x
    BY <1>1, <2>1 DEF Record
  <2>5. y \in Record /\ y.updatedAt = x.updatedAt /\ y.outcome = x.outcome /\ y.input = x.input
    BY <2>1 DEF Record, Blob
  <2> QED BY <1>1, <2>2, <2>3, <2>4, <2>5 DEF y
<1>2. CASE x.output # "large"
  <2>1. y = [x EXCEPT !.output = @]
    BY <1>2, Zenon DEF StoredRecord
  <2>2. y = x
    <3> HIDE DEF y
    <3> QED BY <2>1 DEF Record
  <2> HIDE DEF y
  <2>3. ReadRecord(x, "none") = [x EXCEPT !.output = @]
    BY <1>2, Zenon DEF ReadRecord
  <2>4. ReadRecord(x, "none") = x
    BY <2>3 DEF Record
  <2> QED BY <1>2, <2>2, <2>4 DEF y
<1> QED BY <1>1, <1>2

(* A transition with an outcome is the contract's. *)
Finishes(d, e, r, t) ==
    /\ Sound(e) /\ e.meta = d.meta /\ DOMAIN e.terminal = DOMAIN d.terminal \cup {r}
    /\ e.slots = Delete(d.slots, {SlotOf[r]}) /\ d.slots[SlotOf[r]] = r
    /\ Seen(e) = [Seen(d) EXCEPT ![r] = Contract!Applied(GetNonterminal(d, r), t)]
    /\ Flying(e) = NextFlight(Flying(d), r, t)

LEMMA TerminalSound ==
    ASSUME NEW d, Sound(d), NEW r \in d.meta, r \notin DOMAIN d.terminal, NEW t, NEW s,
           Sent(GetNonterminal(d, r), s, t), t.outcome # "none", NEW e, e = Transit(d, r, t)
    PROVE  Finishes(d, e, r, t)
<1> DEFINE x == TerminalRecord(d, r, t)
           y == StoredRecord(x)
           u == x.updatedAt
<1>0. /\ Typed(d) /\ StageRows(d) /\ OperationRows(d) /\ EndRows(d) /\ Shape(d)
      /\ SlotRows(d) /\ CursorRows(d) /\ r \in Runs
  BY DEF Sound, Typed
<1>1. /\ x = Contract!Applied(GetNonterminal(d, r), t) /\ x \in Record
      /\ x.input = "none" /\ x.outcome # "none" /\ u \in Times
  <2>1. /\ x = Contract!Applied(GetNonterminal(d, r), t) /\ x \in Record
        /\ x.input = "none" /\ x.outcome # "none"
    BY TerminalApplied
  <2> HIDE DEF x
  <2> QED BY <2>1 DEF Record
<1>2. e = PutTerminal(d, r, x)
  BY Zenon DEF Transit
<1> HIDE DEF x
<1>3. /\ Shape(e) /\ e.meta = d.meta /\ e.cancel = d.cancel /\ e.failure = d.failure
      /\ e.input = d.input /\ e.cursor = d.cursor /\ e.ops = d.ops /\ e.states = d.states
      /\ e.terminal = Put(d.terminal, r, y)
      /\ e.output = (IF x.output = "large" THEN Put(d.output, r, "large") ELSE d.output)
      /\ e.expiry = d.expiry \cup {<<u, r>>} /\ e.staged = d.staged \cup {r}
      /\ e.slots = Delete(d.slots, OwnSlot(d, r))
  BY <1>0, <1>2, PutTerminalFields
<1>4. /\ y \in Record /\ y.updatedAt = u /\ y.outcome # "none" /\ y.input = "none"
      /\ x.output = "large" => y.output = "none"
      /\ ReadRecord(y, IF x.output = "large" THEN "large" ELSE "none") = x
  BY <1>1, StoredReads
<1> HIDE DEF y, u
<1>5. /\ DOMAIN e.terminal = DOMAIN d.terminal \cup {r} /\ e.terminal[r] = y
      /\ \A q \in DOMAIN d.terminal : e.terminal[q] = d.terminal[q]
  BY <1>3 DEF Put
<1>6. r \notin DOMAIN d.output
  BY <1>0 DEF EndRows
<1>7. /\ IsMap(e.output, Runs, {"large"}) /\ DOMAIN e.output \subseteq DOMAIN d.output \cup {r}
      /\ r \in DOMAIN e.output => x.output = "large"
      /\ Get(e.output, r, "none") = IF x.output = "large" THEN "large" ELSE "none"
      /\ \A q \in Runs \ {r} : Get(e.output, q, "none") = Get(d.output, q, "none")
      /\ \A q \in Runs \ {r} : q \in DOMAIN e.output <=> q \in DOMAIN d.output
  <2>1. CASE x.output = "large"
    <3>1. e.output = Put(d.output, r, "large") /\ IsMap(d.output, Runs, {"large"})
      BY <1>0, <1>3, <2>1 DEF Typed
    <3>2. IsMap(e.output, Runs, {"large"})
      BY <1>0, <3>1, PutMap
    <3> QED BY <2>1, <3>1, <3>2 DEF Put, Get
  <2>2. CASE x.output # "large"
    BY <1>0, <1>3, <1>6, <2>2 DEF Typed, Get
  <2> QED BY <2>1, <2>2
<1>8. SlotOf[r] \in DOMAIN d.slots /\ d.slots[SlotOf[r]] = r
  BY <1>0 DEF SlotRows
<1>9. e.slots = Delete(d.slots, {SlotOf[r]})
  <2>1. OwnSlot(d, r) = {SlotOf[r]}
    BY <1>8 DEF OwnSlot
  <2> QED BY <1>3, <2>1
<1>10. DOMAIN e.slots = DOMAIN d.slots \ {SlotOf[r]} /\ \A q \in DOMAIN e.slots : e.slots[q] = d.slots[q]
  BY <1>9 DEF Delete
<1>11. Typed(e)
  <2>1. IsMap(e.terminal, Runs, Record)
    BY <1>0, <1>3, <1>4, PutMap DEF Typed
  <2>2. IsMap(e.slots, Slots, Runs)
    BY <1>0, <1>9, DeletedMap DEF Typed
  <2>3. e.expiry \subseteq Times \X Runs /\ e.staged \subseteq Runs
    BY <1>0, <1>1, <1>3 DEF Typed, u
  <2> QED BY <1>0, <1>3, <1>7, <2>1, <2>2, <2>3 DEF Typed
<1>12. EndRows(e)
  <2>1. e.staged = e.meta \cap DOMAIN e.terminal
    BY <1>0, <1>3, <1>5 DEF EndRows
  <2>2. e.expiry = {<<e.terminal[q].updatedAt, q>> : q \in DOMAIN e.terminal}
    <3>1. {<<e.terminal[q].updatedAt, q>> : q \in DOMAIN e.terminal}
            = {<<d.terminal[q].updatedAt, q>> : q \in DOMAIN d.terminal} \cup {<<u, r>>}
      BY <1>4, <1>5
    <3> QED BY <1>0, <1>3, <3>1 DEF EndRows
  <2>3. ASSUME NEW q \in DOMAIN e.terminal
        PROVE  /\ e.terminal[q].outcome # "none" /\ e.terminal[q].input = "none"
               /\ q \in DOMAIN e.output => e.terminal[q].output = "none"
    <3>1. CASE q = r
      BY <1>4, <1>5, <1>7, <3>1
    <3>2. CASE q # r
      <4>1. q \in DOMAIN d.terminal /\ q \in Runs
        BY <1>0, <1>5, <3>2 DEF Typed, IsMap
      <4> QED BY <1>0, <1>5, <1>7, <3>2, <4>1 DEF EndRows
    <3> QED BY <3>1, <3>2
  <2>4. DOMAIN e.output \subseteq DOMAIN e.terminal
    BY <1>0, <1>5, <1>7 DEF EndRows
  <2> QED BY <2>1, <2>2, <2>3, <2>4 DEF EndRows
<1>13. StageRows(e) /\ OperationRows(e)
  BY <1>0, <1>3 DEF StageRows, OperationRows
<1>14. CursorRows(e)
  BY <1>0, <1>3 DEF CursorRows, OpRows
<1>15. SlotRows(e)
  <2>1. ASSUME NEW q \in DOMAIN e.slots
        PROVE  e.slots[q] \in e.meta \ DOMAIN e.terminal /\ SlotOf[e.slots[q]] = q
    BY <1>0, <1>3, <1>5, <1>10 DEF SlotRows
  <2>2. ASSUME NEW q \in e.meta \ DOMAIN e.terminal
        PROVE  SlotOf[q] \in DOMAIN e.slots /\ e.slots[SlotOf[q]] = q
    BY <1>0, <1>3, <1>5, <1>8, <1>10 DEF SlotRows
  <2> QED BY <2>1, <2>2 DEF SlotRows
<1>16. Sound(e)
  BY <1>3, <1>11, <1>12, <1>13, <1>14, <1>15 DEF Sound
<1>17. GetRun(e, r) = x
  <2>1. GetRun(e, r) = ReadRecord(y, Get(e.output, r, "none"))
    BY <1>5, Zenon DEF GetRun, IsTerminal, ReadRecord
  <2> QED BY <1>4, <1>7, <2>1
<1>18. ASSUME NEW q \in Runs \ {r}, IsKnown(d, q) PROVE GetRun(e, q) = GetRun(d, q)
  <2>1. CASE q \in DOMAIN d.terminal
    <3>1. /\ GetRun(e, q) = ReadRecord(e.terminal[q], Get(e.output, q, "none"))
          /\ GetRun(d, q) = ReadRecord(d.terminal[q], Get(d.output, q, "none"))
      BY <1>5, <2>1, Zenon DEF GetRun, IsTerminal, ReadRecord
    <3> QED BY <1>5, <1>7, <2>1, <3>1
  <2>2. CASE q \notin DOMAIN d.terminal
    <3>1. SameRows(d, e, q)
      BY <1>3 DEF SameRows
    <3>2. GetNonterminal(e, q) = GetNonterminal(d, q)
      BY <1>0, <1>3, <3>1, SameUnfinished
    <3>3. q \notin DOMAIN e.terminal
      BY <1>5, <2>2
    <3> QED BY <2>2, <3>2, <3>3, Zenon DEF GetRun, IsTerminal
  <2> QED BY <2>1, <2>2
<1>19. Seen(e) = [Seen(d) EXCEPT ![r] = x]
  <2>1. \A q : IsKnown(e, q) <=> IsKnown(d, q)
    BY <1>3, <1>5 DEF IsKnown, IsTerminal
  <2>2. IsKnown(d, r)
    BY DEF IsKnown
  <2> QED BY <1>0, <1>17, <1>18, <2>1, <2>2 DEF Seen
<1>20. Flying(e) = NextFlight(Flying(d), r, t)
  <2>1. t.cursor.step = NoStep
    BY DEF Sent
  <2>2. {q \in DOMAIN e.cursor : ~IsTerminal(e, q) /\ e.cursor[q].step # NoStep}
          = {q \in DOMAIN d.cursor : ~IsTerminal(d, q) /\ d.cursor[q].step # NoStep} \ {r}
    BY <1>3, <1>5 DEF IsTerminal
  <2> QED BY <1>3, <2>1, <2>2 DEF Flying, NextFlight, Delete
<1> QED BY <1>1, <1>3, <1>5, <1>8, <1>9, <1>16, <1>19, <1>20 DEF Finishes
-----------------------------------------------------------------------------
(* ReapTerminal's transaction.                                              *)

RunsOf(keys) == {k[2] : k \in keys}
Reaped(d, R, keys) ==
    [DeleteStage(d, R) EXCEPT !.terminal = Delete(@, R), !.output = Delete(@, R),
                              !.expiry = @ \ keys, !.staged = @ \ R]

LEMMA ReapFields ==
    ASSUME NEW d, Shape(d), NEW R, NEW keys
    PROVE  LET e == Reaped(d, R, keys)
           IN  /\ Unstaged(d, e, R) /\ e.staged = d.staged \ R
               /\ e.terminal = Delete(d.terminal, R) /\ e.output = Delete(d.output, R)
               /\ e.expiry = d.expiry \ keys
<1> DEFINE c == DeleteStage(d, R)
           e == Reaped(d, R, keys)
<1>1. /\ Unstaged(d, c, R) /\ c.staged = d.staged /\ Shape(c)
      /\ c.terminal = d.terminal /\ c.output = d.output /\ c.expiry = d.expiry
  <2>1. Unstaged(d, c, R)
    BY DeleteStageFields
  <2>2. Shape(c)
    BY <2>1 DEF Unstaged
  <2> QED BY <2>1, <2>2, DeleteStageFields
<1>2. e = [c EXCEPT !.terminal = Delete(@, R), !.output = Delete(@, R),
                    !.expiry = @ \ keys, !.staged = @ \ R]
  BY Zenon DEF Reaped
<1> HIDE DEF c, e
<1>3. /\ Shape(e) /\ e.staged = c.staged \ R /\ e.meta = c.meta /\ e.cancel = c.cancel
      /\ e.failure = c.failure /\ e.input = c.input /\ e.cursor = c.cursor /\ e.ops = c.ops
      /\ e.states = c.states /\ e.terminal = Delete(c.terminal, R)
      /\ e.output = Delete(c.output, R) /\ e.expiry = c.expiry \ keys /\ e.slots = c.slots
  BY <1>1, <1>2 DEF Shape, Fields
<1>4. Unstaged(d, e, R)
  BY <1>1, <1>3 DEF Unstaged
<1> QED BY <1>1, <1>3, <1>4 DEF e

(* What is reaped is gone with its stage, drained or not. *)
LEMMA ReapSound ==
    ASSUME NEW d, Sound(d), NEW keys, keys \subseteq d.expiry, NEW R, R = RunsOf(keys),
           NEW e, e = Reaped(d, R, keys)
    PROVE  /\ Sound(e) /\ Seen(e) = Delete(Seen(d), R) /\ Flying(e) = Flying(d)
           /\ e.slots = d.slots /\ e.meta \subseteq d.meta
           /\ DOMAIN e.terminal \subseteq DOMAIN d.terminal
           /\ \A q \in R : /\ q \in DOMAIN Seen(d) /\ Seen(d)[q].outcome # "none"
                           /\ <<Seen(d)[q].updatedAt, q>> \in keys
<1>0. /\ Typed(d) /\ StageRows(d) /\ OperationRows(d) /\ EndRows(d) /\ Shape(d)
  BY DEF Sound
<1>1. /\ Unstaged(d, e, R) /\ e.staged = d.staged \ R
      /\ e.terminal = Delete(d.terminal, R) /\ e.output = Delete(d.output, R)
      /\ e.expiry = d.expiry \ keys
  BY <1>0, ReapFields
<1>2. d.expiry = {<<d.terminal[q].updatedAt, q>> : q \in DOMAIN d.terminal}
  BY <1>0 DEF EndRows
<1>3. ASSUME NEW q \in R
      PROVE  q \in DOMAIN d.terminal /\ <<d.terminal[q].updatedAt, q>> \in keys
  <2>1. PICK k \in keys : k[2] = q
    BY DEF RunsOf
  <2>2. PICK p \in DOMAIN d.terminal : k = <<d.terminal[p].updatedAt, p>>
    BY <1>2, <2>1
  <2> QED BY <2>1, <2>2
<1>4. /\ DOMAIN e.terminal = DOMAIN d.terminal \ R /\ DOMAIN e.output = DOMAIN d.output \ R
      /\ \A q \in DOMAIN e.terminal : e.terminal[q] = d.terminal[q]
      /\ \A q \in DOMAIN e.output : e.output[q] = d.output[q]
  BY <1>1 DEF Delete
<1>5. e.meta = d.meta \ R
  BY <1>1 DEF Unstaged
<1>6. EndRows(e)
  <2>1. e.staged = e.meta \cap DOMAIN e.terminal
    BY <1>0, <1>1, <1>4, <1>5 DEF EndRows
  <2>2. e.expiry = {<<e.terminal[q].updatedAt, q>> : q \in DOMAIN e.terminal}
    <3>1. ASSUME NEW q \in DOMAIN d.terminal PROVE <<d.terminal[q].updatedAt, q>> \in keys <=> q \in R
      <4>1. ASSUME <<d.terminal[q].updatedAt, q>> \in keys PROVE q \in R
        <5> DEFINE k == <<d.terminal[q].updatedAt, q>>
        <5>1. k[2] = q /\ k \in keys
          BY <4>1
        <5> HIDE DEF k
        <5> QED BY <5>1 DEF RunsOf
      <4> QED BY <1>3, <4>1
    <3>2. {<<e.terminal[q].updatedAt, q>> : q \in DOMAIN e.terminal}
            = {<<d.terminal[q].updatedAt, q>> : q \in DOMAIN d.terminal \ R}
      BY <1>4
    <3>3. {<<d.terminal[q].updatedAt, q>> : q \in DOMAIN d.terminal \ R} = d.expiry \ keys
      BY <1>2, <3>1
    <3> QED BY <1>1, <3>2, <3>3
  <2>3. DOMAIN e.output \subseteq DOMAIN e.terminal
    BY <1>0, <1>4 DEF EndRows
  <2>4. \A q \in DOMAIN e.terminal :
          /\ e.terminal[q].outcome # "none" /\ e.terminal[q].input = "none"
          /\ q \in DOMAIN e.output => e.terminal[q].output = "none"
    BY <1>0, <1>4 DEF EndRows
  <2> QED BY <2>1, <2>2, <2>3, <2>4 DEF EndRows
<1>7. Sound(e)
  <2>1. e.meta \ DOMAIN e.terminal = d.meta \ DOMAIN d.terminal
    BY <1>3, <1>4, <1>5
  <2>2. IsMap(e.terminal, Runs, Record) /\ IsMap(e.output, Runs, {"large"})
    BY <1>0, <1>1, DeletedMap DEF Typed
  <2>3. e.staged \subseteq Runs /\ e.expiry \subseteq Times \X Runs
    BY <1>0, <1>1 DEF Typed
  <2> QED BY <1>1, <1>6, <2>1, <2>2, <2>3, UnstagedSound
<1>8. ASSUME NEW q \in Runs \ R, IsKnown(d, q) PROVE GetRun(e, q) = GetRun(d, q)
  <2>1. CASE q \in DOMAIN d.terminal
    <3>1. q \in DOMAIN e.terminal /\ e.terminal[q] = d.terminal[q]
      BY <1>4, <2>1
    <3>2. Get(e.output, q, "none") = Get(d.output, q, "none")
      BY <1>4 DEF Get
    <3> QED BY <2>1, <3>1, <3>2, Zenon DEF GetRun, IsTerminal
  <2>2. CASE q \notin DOMAIN d.terminal
    <3>1. q \in DOMAIN d.cursor
      BY <1>0, <1>8, <2>2 DEF IsKnown, IsTerminal, StageRows
    <3>2. /\ SameRows(d, e, q) /\ e.cursor[q] = d.cursor[q]
          /\ Get(e.input, q, "none") = Get(d.input, q, "none")
          /\ q \in e.failure <=> q \in d.failure
          /\ Get(e.cancel, q, NoCause) = Get(d.cancel, q, NoCause)
      BY <1>1, <3>1, UnstagedRows
    <3>3. GetNonterminal(e, q) = GetNonterminal(d, q)
      BY <1>0, <3>2, SameUnfinished
    <3>4. q \notin DOMAIN e.terminal
      BY <1>4, <2>2
    <3> QED BY <2>2, <3>3, <3>4, Zenon DEF GetRun, IsTerminal
  <2> QED BY <2>1, <2>2
<1>9. Seen(e) = Delete(Seen(d), R)
  <2>1. {q \in Runs : IsKnown(e, q)} = {q \in Runs : IsKnown(d, q)} \ R
    BY <1>4, <1>5 DEF IsKnown, IsTerminal
  <2> QED BY <1>8, <2>1 DEF Seen, Delete
<1>10. Flying(e) = Flying(d)
  <2>1. DOMAIN e.cursor = DOMAIN d.cursor \ R /\ \A q \in DOMAIN d.cursor \ R : e.cursor[q] = d.cursor[q]
    BY <1>1 DEF Unstaged, Delete
  <2>2. {q \in DOMAIN e.cursor : ~IsTerminal(e, q) /\ e.cursor[q].step # NoStep}
          = {q \in DOMAIN d.cursor : ~IsTerminal(d, q) /\ d.cursor[q].step # NoStep}
    BY <1>3, <1>4, <2>1 DEF IsTerminal
  <2> QED BY <2>1, <2>2 DEF Flying
<1>11. e.slots = d.slots
  BY <1>1 DEF Unstaged
<1>12. ASSUME NEW q \in R
       PROVE  /\ q \in DOMAIN Seen(d) /\ Seen(d)[q].outcome # "none"
              /\ <<Seen(d)[q].updatedAt, q>> \in keys
  <2>1. q \in DOMAIN d.terminal /\ <<d.terminal[q].updatedAt, q>> \in keys
    BY <1>3
  <2>2. q \in Runs /\ d.terminal[q] \in Record /\ d.terminal[q].outcome # "none"
    BY <1>0, <2>1 DEF Typed, IsMap, EndRows
  <2>3. q \in DOMAIN Seen(d) /\ Seen(d)[q] = ReadRecord(d.terminal[q], Get(d.output, q, "none"))
    <3>1. GetRun(d, q) = ReadRecord(d.terminal[q], Get(d.output, q, "none"))
      BY <2>1, Zenon DEF GetRun, IsTerminal, ReadRecord
    <3> QED BY <2>1, <2>2, <3>1 DEF Seen, IsKnown, IsTerminal
  <2>4. ASSUME NEW x \in Record, NEW out
        PROVE  ReadRecord(x, out).outcome = x.outcome /\ ReadRecord(x, out).updatedAt = x.updatedAt
    BY DEF ReadRecord, Record
  <2> QED BY <2>1, <2>2, <2>3, <2>4
<1> QED BY <1>4, <1>5, <1>7, <1>9, <1>10, <1>11, <1>12
-----------------------------------------------------------------------------
(* The contract's steps, of what it sees of the buckets.                    *)

LEMMA ContractTick ==
    ASSUME Seen(db') = Seen(db), db'.slots = db.slots, Flying(db') = Flying(db),
           DOMAIN replies' = DOMAIN replies, now < MaxTime, now' = now + 1
    PROVE  Contract!Tick
BY DEF Contract!Tick, Seen, Flying

LEMMA ContractStutters ==
    ASSUME Seen(db') = Seen(db), db'.slots = db.slots, Flying(db') = Flying(db),
           DOMAIN replies' = DOMAIN replies, now' = now
    PROVE  UNCHANGED Contract!vars
BY DEF Contract!vars, Seen, Flying

LEMMA ContractRefuses ==
    ASSUME NEW r, r \notin DOMAIN replies, DOMAIN replies' = DOMAIN replies \cup {r},
           Contract!Blocking(r) \cap DOMAIN db.slots # {},
           Seen(db') = Seen(db), db'.slots = db.slots, Flying(db') = Flying(db), now' = now
    PROVE  Contract!CreateRun(r)
BY DEF Contract!CreateRun, Seen, Flying

LEMMA ContractCreates ==
    ASSUME NEW r, r \notin DOMAIN replies, DOMAIN replies' = DOMAIN replies \cup {r},
           Contract!Blocking(r) \cap DOMAIN db.slots = {}, NEW input \in Inputs,
           Seen(db') = Put(Seen(db), r, NewRecord(r, input, now)),
           db'.slots = Put(db.slots, SlotOf[r], r), Flying(db') = Flying(db), now' = now
    PROVE  Contract!CreateRun(r)
<1>1. /\ Contract!NewRecord(r, input, now) = NewRecord(r, input, now)
      /\ \A f, k, v : Contract!Put(f, k, v) = Put(f, k, v)
  BY SameNew, SameWords
<1>2. /\ Seen(db') = Contract!Put(Seen(db), r, Contract!NewRecord(r, input, now))
      /\ db'.slots = Contract!Put(db.slots, SlotOf[r], r)
  BY <1>1
<1> QED BY <1>2 DEF Contract!CreateRun, Seen, Flying

LEMMA ContractCancels ==
    ASSUME NEW r, r \in DOMAIN Seen(db), Seen(db)[r].outcome = "none",
           Seen(db)[r].cancel = NoCause, NEW c \in Causes,
           Seen(db') = [Seen(db) EXCEPT ![r].cancel = c],
           db'.slots = db.slots, Flying(db') = Flying(db),
           DOMAIN replies' = DOMAIN replies, now' = now
    PROVE  Contract!RequestCancel(r)
<1>1. ~Contract!Terminal(Seen(db)[r])
  BY DEF Contract!Terminal
<1> QED BY <1>1 DEF Contract!RequestCancel, Seen, Flying

LEMMA ContractReaps ==
    ASSUME NEW before \in 0..now, NEW R, Seen(db') = Delete(Seen(db), R),
           \A q \in R : /\ q \in DOMAIN Seen(db) /\ Seen(db)[q].outcome # "none"
                        /\ Seen(db)[q].updatedAt < before,
           db'.slots = db.slots, Flying(db') = Flying(db),
           DOMAIN replies' = DOMAIN replies, now' = now
    PROVE  Contract!ReapTerminal
<1> DEFINE D == {q \in DOMAIN Seen(db) : Contract!Terminal(Seen(db)[q]) /\ Seen(db)[q].updatedAt < before}
<1>1. R \in SUBSET D
  BY DEF Contract!Terminal
<1>2. Seen(db') = Contract!Delete(Seen(db), R)
  BY SameWords
<1> QED BY <1>1, <1>2 DEF Contract!ReapTerminal, Seen, Flying

LEMMA ContractApplies ==
    ASSUME NEW r, r \in DOMAIN Seen(db), Seen(db)[r].outcome = "none",
           NEW s, s = Contract!InFlight(r), NEW t \in Transitions(Seen(db)[r], StepsOf[r], s, now),
           Flying(db') = NextFlight(Flying(db), r, t),
           Seen(db') = [Seen(db) EXCEPT ![r] = Contract!Applied(Seen(db)[r], t)],
           db'.slots = IF t.outcome # "none"
                         THEN Delete(db.slots, {q \in {SlotOf[r]} : db.slots[q] = r}) ELSE db.slots,
           DOMAIN replies' = DOMAIN replies, now' = now
    PROVE  Contract!ApplyTransition(r)
<1>1. ~Contract!Terminal(Seen(db)[r])
  BY DEF Contract!Terminal
<1>2. t \in Contract!Transitions(Seen(db)[r], StepsOf[r], Contract!InFlight(r), now)
  BY SameTransitions
<1>3. /\ Flying(db') = IF t.cursor.step = NoStep THEN Contract!Delete(Flying(db), {r})
                       ELSE Contract!Put(Flying(db), r, t.cursor.step)
      /\ db'.slots = IF t.outcome # "none"
                       THEN Contract!Delete(db.slots, {q \in {SlotOf[r]} : db.slots[q] = r})
                       ELSE db.slots
  BY SameWords DEF NextFlight
<1> QED BY <1>1, <1>2, <1>3 DEF Contract!ApplyTransition, Seen, Flying
-----------------------------------------------------------------------------
(* The inductive invariant: the rows are sound, and a Run the store knows   *)
(* was created by a call that returned.                                     *)

VolatileOK ==
    /\ status \in {"closed", "opening", "open", "closing"}
    /\ counter \in Int /\ owed \subseteq Runs /\ flagged \subseteq Runs
    /\ drainer \in [pc : {"none", "tx", "sub"}, n : 0..PerSweep]
    /\ IsMap(replies, Runs, [existing : Runs \cup {NoRun}, created : BOOLEAN])
    /\ now \in Times /\ faults \in 0..MaxFaults

Inv == /\ VolatileOK /\ Sound(db)
       /\ db.meta \cup DOMAIN db.terminal \subseteq DOMAIN replies

LEMMA InvInit == Init => Inv /\ Contract!Init
<1> SUFFICES ASSUME Init PROVE Inv /\ Contract!Init
  OBVIOUS
<1> DEFINE E == [x \in {} |-> NoRun]
<1>1. Empty = E /\ DOMAIN E = {} /\ \A K, V : IsMap(E, K, V)
  BY DEF Empty, IsMap
<1> HIDE DEF E
<1>2. /\ Shape(db) /\ db.meta = {} /\ db.cancel = E /\ db.failure = {} /\ db.input = E
      /\ db.ops = E /\ db.states = E /\ db.cursor = E /\ db.terminal = E
      /\ db.output = E /\ db.expiry = {} /\ db.staged = {} /\ db.slots = E
  BY <1>1 DEF Init, Shape, Fields
<1>3. Typed(db)
  BY <1>1, <1>2 DEF Typed
<1>4. StageRows(db) /\ EndRows(db) /\ SlotRows(db)
  BY <1>1, <1>2 DEF StageRows, EndRows, SlotRows
<1>5. OperationRows(db) /\ CursorRows(db)
  BY <1>1, <1>2 DEF OperationRows, CursorRows
<1>6. Sound(db)
  BY <1>2, <1>3, <1>4, <1>5 DEF Sound
<1>7. VolatileOK
  <2>1. Idle \in [pc : {"none", "tx", "sub"}, n : 0..PerSweep]
    BY BatchAssumption DEF Idle
  <2>2. 0 \in Times /\ 0 \in 0..MaxFaults /\ 0 \in Int
    BY BoundsAssumption, LimitAssumption DEF Times
  <2> QED BY <1>1, <2>1, <2>2 DEF Init, VolatileOK
<1>8. Contract!Init
  <2>1. {q \in Runs : IsKnown(db, q)} = {}
    BY <1>1, <1>2 DEF IsKnown, IsTerminal
  <2>2. {q \in DOMAIN db.cursor : ~IsTerminal(db, q) /\ db.cursor[q].step # NoStep} = {}
    BY <1>1, <1>2
  <2>3. Seen(db) = [r \in {} |-> NoRun] /\ Flying(db) = [r \in {} |-> NoStep]
    BY <2>1, <2>2 DEF Seen, Flying
  <2>4. db.slots = [s \in {} |-> NoRun]
    BY <1>2 DEF E
  <2>5. DOMAIN replies = {} /\ now = 0
    BY <1>1 DEF Init
  <2> QED BY <2>3, <2>4, <2>5 DEF Contract!Init, Seen, Flying
<1> QED BY <1>1, <1>2, <1>6, <1>7, <1>8 DEF Inv

(* The drain a write carries is invisible. *)
LEMMA WriteDrains ==
    ASSUME NEW d, Sound(d), NEW c \in Int
    PROVE  /\ WriteDrain(d, c) \subseteq d.staged /\ Cardinality(WriteDrain(d, c)) \in Nat
           /\ Sound(DrainStaged(d, WriteDrain(d, c)))
<1>0. d.staged \subseteq Runs
  BY DEF Sound, Typed
<1>1. WriteDrain(d, c) \subseteq d.staged /\ Cardinality(WriteDrain(d, c)) \in Nat
  <2>1. CASE c < PerWrite
    BY <2>1, FS_EmptySet DEF WriteDrain
  <2>2. CASE ~(c < PerWrite)
    <3>1. WriteDrain(d, c) = First(PerWrite, d.staged)
      BY <2>2 DEF WriteDrain
    <3>2. PerWrite \in Nat
      BY BatchAssumption
    <3>3. /\ First(PerWrite, d.staged) \subseteq d.staged
          /\ Cardinality(First(PerWrite, d.staged)) \in 0..PerWrite
      BY <1>0, <3>2, FirstBound
    <3> QED BY <3>1, <3>2, <3>3
  <2> QED BY <2>1, <2>2
<1> QED BY <1>1, DrainSound

(* Its own slot first, then the excluded ones: blocked by the same Runs. *)
LEMMA SameBlocking ==
    ASSUME NEW d, NEW r
    PROVE  /\ Blocking(d, r) # {} <=> Contract!Blocking(r) \cap DOMAIN d.slots # {}
           /\ Blocking(d, r) \subseteq DOMAIN d.slots
           /\ Blocking(d, r) = {} => SlotOf[r] \notin DOMAIN d.slots
BY DEF Blocking, Contract!Blocking

LEMMA CreateStep ==
    ASSUME Inv, NEW r \in Runs, CreateRun(r)
    PROVE  Inv' /\ Contract!CreateRun(r)
<1>1. PICK victims : victims = WriteDrain(db, counter)
  OBVIOUS
<1>2. PICK d : d = DrainStaged(db, victims)
  OBVIOUS
<1>3. /\ Sound(db) /\ VolatileOK /\ counter \in Int /\ db.meta \cup DOMAIN db.terminal \subseteq DOMAIN replies
  BY DEF Inv, VolatileOK
<1>4. /\ r \notin DOMAIN replies /\ counter' = counter - Cardinality(victims)
      /\ \/ /\ Blocking(d, r) # {}
            /\ db' = d
            /\ \E s \in Blocking(d, r) :
                 replies' = Put(replies, r, [existing |-> d.slots[s], created |-> r \in flagged])
         \/ /\ Blocking(d, r) = {}
            /\ \E input \in Inputs : db' = PutRun(d, r, input)
            /\ replies' = Put(replies, r, [existing |-> NoRun, created |-> TRUE])
      /\ flagged' = flagged \ {r} /\ UNCHANGED <<status, owed, drainer, now, faults>>
  BY <1>1, <1>2 DEF CreateRun
<1>5. victims \subseteq db.staged /\ Cardinality(victims) \in Nat
  BY <1>1, <1>3, WriteDrains
<1>6. /\ Sound(d) /\ Seen(d) = Seen(db) /\ Flying(d) = Flying(db) /\ d.slots = db.slots
      /\ d.meta \subseteq db.meta /\ d.terminal = db.terminal
  BY <1>2, <1>3, <1>5, DrainSound
<1>7. now \in Times /\ now' = now /\ r \notin d.meta /\ r \notin DOMAIN d.terminal
  BY <1>3, <1>4, <1>6 DEF VolatileOK
<1>8. ASSUME NEW x \in [existing : Runs \cup {NoRun}, created : BOOLEAN], replies' = Put(replies, r, x)
      PROVE  VolatileOK' /\ DOMAIN replies' = DOMAIN replies \cup {r}
  <2>1. IsMap(replies', Runs, [existing : Runs \cup {NoRun}, created : BOOLEAN])
    <3>1. IsMap(replies, Runs, [existing : Runs \cup {NoRun}, created : BOOLEAN])
      BY <1>3 DEF VolatileOK
    <3> QED BY <1>8, <3>1, PutMap
  <2>2. counter' \in Int
    BY <1>3, <1>4, <1>5
  <2>3. DOMAIN replies' = DOMAIN replies \cup {r}
    BY <1>8 DEF Put
  <2> QED BY <1>3, <1>4, <2>1, <2>2, <2>3 DEF VolatileOK
<1>9. CASE /\ Blocking(d, r) # {} /\ db' = d
           /\ \E s \in Blocking(d, r) :
                replies' = Put(replies, r, [existing |-> d.slots[s], created |-> r \in flagged])
  <2>1. PICK s \in Blocking(d, r) :
          replies' = Put(replies, r, [existing |-> d.slots[s], created |-> r \in flagged])
    BY <1>9
  <2>2. d.slots[s] \in Runs
    <3>1. s \in DOMAIN d.slots
      BY SameBlocking
    <3> QED BY <1>6, <3>1 DEF Sound, Typed, IsMap
  <2> DEFINE b == r \in flagged
             x == [existing |-> d.slots[s], created |-> b]
  <2>3. b \in BOOLEAN /\ replies' = Put(replies, r, x)
    BY <2>1
  <2> HIDE DEF b
  <2>4. x \in [existing : Runs \cup {NoRun}, created : BOOLEAN]
    BY <2>2, <2>3
  <2> HIDE DEF x
  <2>5. VolatileOK' /\ DOMAIN replies' = DOMAIN replies \cup {r}
    BY <1>8, <2>3, <2>4
  <2>6. Contract!Blocking(r) \cap DOMAIN db.slots # {}
    BY <1>6, <1>9, SameBlocking
  <2>7. Contract!CreateRun(r)
    BY <1>4, <1>6, <1>7, <1>9, <2>5, <2>6, ContractRefuses
  <2>8. Sound(db') /\ db'.meta \cup DOMAIN db'.terminal \subseteq DOMAIN replies'
    BY <1>3, <1>6, <1>9, <2>5
  <2> QED BY <2>5, <2>7, <2>8 DEF Inv
<1>10. CASE /\ Blocking(d, r) = {} /\ \E input \in Inputs : db' = PutRun(d, r, input)
            /\ replies' = Put(replies, r, [existing |-> NoRun, created |-> TRUE])
  <2>1. PICK input \in Inputs : db' = PutRun(d, r, input)
    BY <1>10
  <2>2. SlotOf[r] \notin DOMAIN d.slots /\ Contract!Blocking(r) \cap DOMAIN db.slots = {}
    BY <1>6, <1>10, SameBlocking
  <2>3. /\ Sound(db') /\ Flying(db') = Flying(d)
        /\ Seen(db') = Put(Seen(d), r, NewRecord(r, input, now))
        /\ db'.slots = Put(d.slots, SlotOf[r], r)
        /\ db'.meta = d.meta \cup {r} /\ db'.terminal = d.terminal
    BY <1>6, <1>7, <2>1, <2>2, PutRunSound
  <2>4. [existing |-> NoRun, created |-> TRUE] \in [existing : Runs \cup {NoRun}, created : BOOLEAN]
    OBVIOUS
  <2>5. VolatileOK' /\ DOMAIN replies' = DOMAIN replies \cup {r}
    BY <1>8, <1>10, <2>4
  <2>6. Contract!CreateRun(r)
    BY <1>4, <1>6, <1>7, <2>2, <2>3, <2>5, ContractCreates
  <2>7. db'.meta \cup DOMAIN db'.terminal \subseteq DOMAIN replies'
    BY <1>3, <1>6, <2>3, <2>5
  <2> QED BY <2>3, <2>5, <2>6, <2>7 DEF Inv
<1> QED BY <1>4, <1>9, <1>10

LEMMA ApplyStep ==
    ASSUME Inv, NEW r \in Runs, ApplyTransition(r)
    PROVE  Inv' /\ Contract!ApplyTransition(r)
<1>1. PICK victims : victims = WriteDrain(db, counter)
  OBVIOUS
<1>2. PICK d : d = DrainStaged(db, victims)
  OBVIOUS
<1>3. /\ Sound(db) /\ VolatileOK /\ counter \in Int /\ now \in Times
      /\ db.meta \cup DOMAIN db.terminal \subseteq DOMAIN replies
  BY DEF Inv, VolatileOK
<1>4. /\ r \in d.meta /\ ~IsTerminal(d, r) /\ counter' = counter - Cardinality(victims)
      /\ \E t \in Transitions(GetRun(d, r), StepsOf[r], d.cursor[r].step, now) :
           /\ db' = Transit(d, r, t)
           /\ owed' = IF t.outcome # "none" THEN owed \cup {r} ELSE owed
      /\ UNCHANGED <<status, drainer, flagged, replies, now, faults>>
  BY <1>1, <1>2 DEF ApplyTransition
<1>5. PICK t \in Transitions(GetRun(d, r), StepsOf[r], d.cursor[r].step, now) :
        db' = Transit(d, r, t) /\ owed' = IF t.outcome # "none" THEN owed \cup {r} ELSE owed
  BY <1>4
<1>6. victims \subseteq db.staged /\ Cardinality(victims) \in Nat
  BY <1>1, <1>3, WriteDrains
<1>7. /\ Sound(d) /\ Seen(d) = Seen(db) /\ Flying(d) = Flying(db) /\ d.slots = db.slots
      /\ d.meta \subseteq db.meta /\ d.terminal = db.terminal
  BY <1>2, <1>3, <1>6, DrainSound
<1>8. r \notin DOMAIN d.terminal
  BY <1>4 DEF IsTerminal
<1>9. PICK rec : rec = GetNonterminal(d, r)
  OBVIOUS
<1>10. PICK s : s = d.cursor[r].step
  OBVIOUS
<1>11. GetRun(d, r) = rec /\ r \in DOMAIN Seen(db) /\ Seen(db)[r] = rec
  <2>1. GetRun(d, r) = rec
    BY <1>8, <1>9, Zenon DEF GetRun, IsTerminal
  <2> QED BY <1>4, <1>7, <2>1 DEF Seen, IsKnown
<1>12. rec \in Record /\ rec.outcome = "none" /\ d.cursor[r] \in Cursor
       /\ rec.phase = d.cursor[r].phase /\ ReadsAs(rec.ops, d.cursor[r], d, r)
  BY <1>4, <1>7, <1>9, Unfinished
<1>13. s \in Steps \cup {NoStep} /\ (s # NoStep => rec.ops[<<s, rec.phase>>].status = "unresolved")
  <2>1. s \in Steps \cup {NoStep}
    BY <1>10, <1>12 DEF Cursor
  <2>2. ASSUME s # NoStep PROVE rec.ops[<<s, rec.phase>>].status = "unresolved"
    <3> DEFINE o == <<s, rec.phase>>
               x == ReadOp(d, r, o)
               a == d.cursor[r].attempts
    <3>1. rec.ops[o] = [x EXCEPT !.status = "unresolved", !.attempts = a]
      BY <1>10, <1>12, <2>2 DEF ReadsAs
    <3>2. x \in Op
      BY <1>7, ReadType DEF Sound
    <3> HIDE DEF x, a, o
    <3>3. rec.ops[o].status = "unresolved"
      BY <3>1, <3>2 DEF Op
    <3> QED BY <3>3 DEF o
  <2> QED BY <2>1, <2>2
<1>14. t \in Transitions(rec, StepsOf[r], s, now)
  BY <1>5, <1>10, <1>11
<1>15. Sent(rec, s, t)
  BY <1>3, <1>12, <1>13, <1>14, TransitionsSent
<1>16. Contract!InFlight(r) = s
  <2>1. DOMAIN d.cursor = d.meta
    BY <1>7 DEF Sound, StageRows
  <2>2. Contract!InFlight(r) = IF r \in DOMAIN Flying(db) THEN Flying(db)[r] ELSE NoStep
    BY DEF Contract!InFlight, Flying
  <2>3. Flying(d) = Flying(db)
    BY <1>7
  <2>4. r \in DOMAIN Flying(d) <=> s # NoStep
    BY <1>4, <1>10, <2>1 DEF Flying
  <2>5. r \in DOMAIN Flying(d) => Flying(d)[r] = s
    BY <1>10 DEF Flying
  <2> QED BY <2>2, <2>3, <2>4, <2>5
<1>17. VolatileOK'
  <2>1. counter' \in Int
    BY <1>3, <1>4, <1>6
  <2>2. owed' \subseteq Runs
    BY <1>3, <1>5 DEF VolatileOK
  <2> QED BY <1>3, <1>4, <2>1, <2>2 DEF VolatileOK
<1>18. DOMAIN replies' = DOMAIN replies /\ now' = now
  BY <1>4
<1>19. /\ Sound(db') /\ db'.meta \cup DOMAIN db'.terminal \subseteq db.meta \cup DOMAIN db.terminal
       /\ Seen(db') = [Seen(db) EXCEPT ![r] = Contract!Applied(rec, t)]
       /\ Flying(db') = NextFlight(Flying(db), r, t)
       /\ db'.slots = IF t.outcome # "none"
                        THEN Delete(db.slots, {q \in {SlotOf[r]} : db.slots[q] = r}) ELSE db.slots
  <2>1. CASE t.outcome = "none"
    <3>1. /\ Sound(db') /\ db'.slots = d.slots /\ db'.meta = d.meta /\ db'.terminal = d.terminal
          /\ Seen(db') = [Seen(d) EXCEPT ![r] = Contract!Applied(rec, t)]
          /\ Flying(db') = NextFlight(Flying(d), r, t)
      BY <1>4, <1>5, <1>7, <1>8, <1>9, <1>15, <2>1, TransitSound
    <3> QED BY <1>7, <2>1, <3>1
  <2>2. CASE t.outcome # "none"
    <3>1. /\ Sound(db') /\ db'.meta = d.meta /\ DOMAIN db'.terminal = DOMAIN d.terminal \cup {r}
          /\ db'.slots = Delete(d.slots, {SlotOf[r]}) /\ d.slots[SlotOf[r]] = r
          /\ Seen(db') = [Seen(d) EXCEPT ![r] = Contract!Applied(rec, t)]
          /\ Flying(db') = NextFlight(Flying(d), r, t)
      <4>1. r \in d.meta /\ Sound(d) /\ db' = Transit(d, r, t) /\ Sent(GetNonterminal(d, r), s, t)
        BY <1>4, <1>5, <1>7, <1>9, <1>15
      <4>2. Finishes(d, db', r, t)
        BY <1>8, <2>2, <4>1, TerminalSound
      <4> QED BY <1>9, <4>2 DEF Finishes
    <3>2. {q \in {SlotOf[r]} : db.slots[q] = r} = {SlotOf[r]}
      BY <1>7, <3>1
    <3>3. db'.slots = Delete(db.slots, {q \in {SlotOf[r]} : db.slots[q] = r})
      BY <1>7, <3>1, <3>2
    <3> QED BY <1>4, <1>7, <2>2, <3>1, <3>3
  <2> QED BY <2>1, <2>2
<1>20. Contract!ApplyTransition(r)
  BY <1>11, <1>12, <1>14, <1>16, <1>18, <1>19, ContractApplies
<1>21. Inv'
  BY <1>3, <1>17, <1>18, <1>19 DEF Inv
<1> QED BY <1>20, <1>21

LEMMA CancelStep ==
    ASSUME Inv, NEW r \in Runs, RequestCancel(r)
    PROVE  Inv' /\ Contract!RequestCancel(r)
<1>1. /\ Sound(db) /\ VolatileOK /\ db.meta \cup DOMAIN db.terminal \subseteq DOMAIN replies
  BY DEF Inv
<1>2. /\ r \in db.meta /\ r \notin DOMAIN db.terminal /\ r \notin DOMAIN db.cancel
      /\ UNCHANGED <<volatile, replies, now, faults>>
  BY DEF RequestCancel, IsTerminal
<1>3. PICK c \in Causes : db' = [db EXCEPT !.cancel = Put(@, r, c)]
  BY DEF RequestCancel
<1>4. /\ Sound(db') /\ Flying(db') = Flying(db) /\ db'.slots = db.slots
      /\ db'.meta = db.meta /\ db'.terminal = db.terminal
      /\ r \in DOMAIN Seen(db) /\ Seen(db)[r].outcome = "none"
      /\ Seen(db)[r].cancel = NoCause /\ Seen(db') = [Seen(db) EXCEPT ![r].cancel = c]
  BY <1>1, <1>2, <1>3, CancelSound
<1>5. VolatileOK' /\ replies' = replies /\ now' = now
  BY <1>1, <1>2 DEF VolatileOK, volatile
<1>6. Contract!RequestCancel(r)
  BY <1>4, <1>5, ContractCancels
<1> QED BY <1>1, <1>4, <1>5, <1>6 DEF Inv

LEMMA ReapStep ==
    ASSUME Inv, ReapTerminal
    PROVE  Inv' /\ Contract!ReapTerminal
<1>1. /\ Sound(db) /\ VolatileOK /\ db.meta \cup DOMAIN db.terminal \subseteq DOMAIN replies
  BY DEF Inv
<1>2. PICK before \in 0..now :
        db' = [DeleteStage(db, {k[2] : k \in Victims(before)}) EXCEPT
                 !.terminal = Delete(@, {k[2] : k \in Victims(before)}),
                 !.output = Delete(@, {k[2] : k \in Victims(before)}),
                 !.expiry = @ \ Victims(before), !.staged = @ \ {k[2] : k \in Victims(before)}]
  BY Zenon DEF ReapTerminal
<1>3. UNCHANGED <<volatile, replies, now, faults>>
  BY DEF ReapTerminal
<1>4. PICK keys : keys = Victims(before)
  OBVIOUS
<1>5. PICK R : R = RunsOf(keys)
  OBVIOUS
<1>6. db' = Reaped(db, R, keys)
  BY <1>2, <1>4, <1>5, Zenon DEF Reaped, RunsOf
<1>7. keys \subseteq db.expiry /\ \A k \in keys : k[1] < before
  BY <1>4 DEF Victims
<1>8. /\ Sound(db') /\ Seen(db') = Delete(Seen(db), R) /\ Flying(db') = Flying(db)
      /\ db'.slots = db.slots /\ db'.meta \subseteq db.meta
      /\ DOMAIN db'.terminal \subseteq DOMAIN db.terminal
      /\ \A q \in R : /\ q \in DOMAIN Seen(db) /\ Seen(db)[q].outcome # "none"
                      /\ <<Seen(db)[q].updatedAt, q>> \in keys
  BY <1>1, <1>5, <1>6, <1>7, ReapSound
<1>9. VolatileOK' /\ replies' = replies /\ now' = now
  BY <1>1, <1>3 DEF VolatileOK, volatile
<1>10. \A q \in R : Seen(db)[q].updatedAt < before
  BY <1>7, <1>8
<1>11. Contract!ReapTerminal
  BY <1>8, <1>9, <1>10, ContractReaps
<1> QED BY <1>1, <1>8, <1>9, <1>11 DEF Inv

(* The steps that leave the buckets alone. *)
LEMMA QuietStep ==
    ASSUME Inv, VolatileOK', db' = db, replies' = replies, now' = now
    PROVE  Inv' /\ UNCHANGED Contract!vars
<1>1. Inv'
  BY DEF Inv
<1>2. UNCHANGED Contract!vars
  BY ContractStutters
<1> QED BY <1>1, <1>2

LEMMA DrainStep ==
    ASSUME Inv, DrainTx
    PROVE  Inv' /\ UNCHANGED Contract!vars
<1>1. PICK victims : victims = First(PerSweep, db.staged)
  OBVIOUS
<1>2. /\ Sound(db) /\ VolatileOK /\ db.meta \cup DOMAIN db.terminal \subseteq DOMAIN replies
      /\ db.staged \subseteq Runs /\ PerSweep \in Nat
  BY BatchAssumption DEF Inv, Sound, Typed
<1>3. victims \subseteq db.staged /\ Cardinality(victims) \in 0..PerSweep
  BY <1>1, <1>2, FirstBound
<1>4. /\ db' = DrainStaged(db, victims) /\ drainer' = [pc |-> "sub", n |-> Cardinality(victims)]
      /\ UNCHANGED <<status, counter, owed, flagged, replies, now, faults>>
  BY <1>1 DEF DrainTx
<1>5. /\ Sound(db') /\ Seen(db') = Seen(db) /\ Flying(db') = Flying(db)
      /\ db'.slots = db.slots /\ db'.meta \subseteq db.meta /\ db'.terminal = db.terminal
  BY <1>2, <1>3, <1>4, DrainSound
<1>6. VolatileOK'
  <2>1. drainer' \in [pc : {"none", "tx", "sub"}, n : 0..PerSweep]
    BY <1>3, <1>4
  <2> QED BY <1>2, <1>4, <2>1 DEF VolatileOK
<1>7. UNCHANGED Contract!vars
  BY <1>4, <1>5, ContractStutters
<1> QED BY <1>2, <1>4, <1>5, <1>6, <1>7 DEF Inv

(* The counter, the flags of an aborted batch, the drain loop, Open, Close  *)
(* and a crash.                                                             *)
LEMMA VolatileStep ==
    ASSUME Inv,
           \/ \E r \in Runs : CountStaged(r)
           \/ BatchAborted \/ SweepTick \/ DrainCount \/ Open \/ Close \/ Crash
    PROVE  Inv' /\ UNCHANGED Contract!vars
<1>1. VolatileOK /\ Sound(db) /\ counter \in Int
  BY DEF Inv, VolatileOK
<1>2. /\ Idle \in [pc : {"none", "tx", "sub"}, n : 0..PerSweep]
      /\ [pc |-> "tx", n |-> 0] \in [pc : {"none", "tx", "sub"}, n : 0..PerSweep]
  BY BatchAssumption DEF Idle
<1>3. db' = db /\ replies' = replies /\ now' = now
  BY DEF CountStaged, BatchAborted, SweepTick, DrainCount, Open, Close, Crash
<1>4. ASSUME NEW r \in Runs, CountStaged(r) PROVE VolatileOK'
  <2>1. counter' \in Int /\ owed' \subseteq Runs
    BY <1>1, <1>4 DEF CountStaged, VolatileOK
  <2> QED BY <1>1, <1>4, <2>1 DEF CountStaged, VolatileOK
<1>5. ASSUME BatchAborted PROVE VolatileOK'
  <2>1. PICK first : first = WriteDrain(db, counter)
    OBVIOUS
  <2>2. PICK left : left = counter - Cardinality(first)
    OBVIOUS
  <2>3. PICK second : second = WriteDrain(DrainStaged(db, first), left)
    OBVIOUS
  <2>4. /\ faults < MaxFaults /\ faults' = faults + 1 /\ counter' = left - Cardinality(second)
        /\ (flagged' = flagged \/ \E r \in Runs : flagged' = flagged \cup {r})
        /\ UNCHANGED <<db, status, owed, drainer, replies, now>>
    BY <1>5, <2>1, <2>2, <2>3 DEF BatchAborted
  <2>5. Cardinality(first) \in Nat /\ Sound(DrainStaged(db, first))
    BY <1>1, <2>1, WriteDrains
  <2>6. left \in Int
    BY <1>1, <2>2, <2>5
  <2>7. Cardinality(second) \in Nat
    BY <2>3, <2>5, <2>6, WriteDrains
  <2>8. counter' \in Int
    BY <2>4, <2>6, <2>7
  <2>9. faults' \in 0..MaxFaults
    BY <1>1, <2>4, LimitAssumption DEF VolatileOK
  <2>10. flagged' \subseteq Runs
    BY <1>1, <2>4 DEF VolatileOK
  <2> QED BY <1>1, <2>4, <2>8, <2>9, <2>10 DEF VolatileOK
<1>6. ASSUME SweepTick PROVE VolatileOK'
  BY <1>1, <1>2, <1>6 DEF SweepTick, VolatileOK
<1>7. ASSUME DrainCount PROVE VolatileOK'
  <2>1. drainer.n \in Int
    BY <1>1, BatchAssumption DEF VolatileOK
  <2>2. counter' \in Int
    BY <1>1, <1>7, <2>1 DEF DrainCount
  <2>3. drainer' \in [pc : {"none", "tx", "sub"}, n : 0..PerSweep]
    BY <1>2, <1>7 DEF DrainCount
  <2>4. status' \in {"closed", "opening", "open", "closing"}
    <3>1. status \in {"closed", "opening", "open", "closing"}
      BY <1>1 DEF VolatileOK
    <3> QED BY <1>7, <3>1 DEF DrainCount
  <2> QED BY <1>1, <1>7, <2>2, <2>3, <2>4 DEF DrainCount, VolatileOK
<1>8. ASSUME Open PROVE VolatileOK'
  BY <1>1, <1>2, <1>8 DEF Open, VolatileOK
<1>9. ASSUME Close PROVE VolatileOK'
  BY <1>1, <1>2, <1>9 DEF Close, VolatileOK
<1>10. ASSUME Crash PROVE VolatileOK'
  <2>1. faults' \in 0..MaxFaults
    BY <1>1, <1>10, LimitAssumption DEF Crash, VolatileOK
  <2> QED BY <1>1, <1>2, <1>10, <2>1 DEF Crash, VolatileOK
<1>11. VolatileOK'
  BY <1>4, <1>5, <1>6, <1>7, <1>8, <1>9, <1>10
<1> QED BY <1>3, <1>11, QuietStep

LEMMA TickStep ==
    ASSUME Inv, Tick
    PROVE  Inv' /\ Contract!Tick
<1>1. VolatileOK /\ Sound(db) /\ now \in Times
  BY DEF Inv, VolatileOK
<1>2. now < MaxTime /\ now' = now + 1 /\ UNCHANGED <<db, volatile, replies, faults>>
  BY DEF Tick
<1>3. now' \in Times
  BY <1>1, <1>2, BoundsAssumption DEF Times
<1>4. VolatileOK'
  BY <1>1, <1>2, <1>3 DEF VolatileOK, volatile
<1>5. Contract!Tick
  BY <1>2, ContractTick
<1> QED BY <1>2, <1>4, <1>5 DEF Inv

LEMMA InvStep ==
    ASSUME Inv, [Next]_vars
    PROVE  Inv' /\ [Contract!Next]_(Contract!vars)
<1>1. CASE UNCHANGED vars
  <2>1. db' = db /\ replies' = replies /\ now' = now /\ UNCHANGED <<volatile, faults>>
    BY <1>1 DEF vars
  <2>2. VolatileOK'
    BY <2>1 DEF Inv, VolatileOK, volatile
  <2> QED BY <2>1, <2>2, QuietStep
<1>2. ASSUME NEW r \in Runs, CreateRun(r) PROVE Inv' /\ Contract!Next
  BY <1>2, CreateStep DEF Contract!Next
<1>3. ASSUME NEW r \in Runs, ApplyTransition(r) PROVE Inv' /\ Contract!Next
  BY <1>3, ApplyStep DEF Contract!Next
<1>4. ASSUME NEW r \in Runs, RequestCancel(r) PROVE Inv' /\ Contract!Next
  BY <1>4, CancelStep DEF Contract!Next
<1>5. ASSUME ReapTerminal PROVE Inv' /\ Contract!Next
  BY <1>5, ReapStep DEF Contract!Next
<1>6. ASSUME Tick PROVE Inv' /\ Contract!Next
  BY <1>6, TickStep DEF Contract!Next
<1>7. ASSUME DrainTx PROVE Inv' /\ UNCHANGED Contract!vars
  BY <1>7, DrainStep
<1>8. ASSUME \/ \E r \in Runs : CountStaged(r)
             \/ BatchAborted \/ SweepTick \/ DrainCount \/ Open \/ Close \/ Crash
      PROVE  Inv' /\ UNCHANGED Contract!vars
  BY <1>8, VolatileStep
<1> QED BY <1>1, <1>2, <1>3, <1>4, <1>5, <1>6, <1>7, <1>8 DEF Next
-----------------------------------------------------------------------------
(* The store's promises.                                                    *)

(* No commit, drain, crash or rolled-back batch makes the rows unsound: the *)
(* inductive invariant behind the three promises below.                     *)
THEOREM InvAlways == Spec => []Inv
<1>1. Init => Inv
  BY InvInit
<1>2. Inv /\ [Next]_vars => Inv'
  BY InvStep
<1> QED BY <1>1, <1>2, PTL DEF Spec

(* The bbolt store implements the store contract: every commit is one       *)
(* operation of the in-memory store, and staging, drains, rolled-back       *)
(* batches, the counter, Open, Close and crashes change nothing a reader    *)
(* sees.                                                                    *)
THEOREM StoreContractHolds == Spec => StoreContract
<1>1. Init => Contract!Init
  BY InvInit
<1>2. Inv /\ [Next]_vars => [Contract!Next]_(Contract!vars)
  BY InvStep
<1> QED BY <1>1, <1>2, InvAlways, PTL DEF Spec, StoreContract, Contract!Spec

(* The record of a known Run: a terminal row with its output, or the stage. *)
LEMMA SeenRecords ==
    ASSUME NEW d, Sound(d), NEW r \in Runs, IsKnown(d, r)
    PROVE  /\ r \in DOMAIN Seen(d)
           /\ r \in DOMAIN d.terminal =>
                Seen(d)[r] = ReadRecord(d.terminal[r], Get(d.output, r, "none"))
           /\ r \notin DOMAIN d.terminal => r \in d.meta /\ Seen(d)[r] = GetNonterminal(d, r)
           /\ Seen(d)[r].outcome = "none" <=> r \notin DOMAIN d.terminal
<1>1. r \in DOMAIN Seen(d) /\ Seen(d)[r] = GetRun(d, r)
  BY DEF Seen
<1>2. CASE r \in DOMAIN d.terminal
  <2>1. GetRun(d, r) = ReadRecord(d.terminal[r], Get(d.output, r, "none"))
    BY <1>2, Zenon DEF GetRun, IsTerminal, ReadRecord
  <2>2. d.terminal[r] \in Record /\ d.terminal[r].outcome # "none"
    BY <1>2 DEF Sound, Typed, IsMap, EndRows
  <2>3. ASSUME NEW x \in Record, NEW out PROVE ReadRecord(x, out).outcome = x.outcome
    BY DEF ReadRecord, Record
  <2> QED BY <1>1, <1>2, <2>1, <2>2, <2>3
<1>3. CASE r \notin DOMAIN d.terminal
  <2>1. r \in d.meta
    BY <1>3 DEF IsKnown, IsTerminal
  <2>2. GetRun(d, r) = GetNonterminal(d, r)
    BY <1>3, Zenon DEF GetRun, IsTerminal
  <2>3. GetNonterminal(d, r).outcome = "none"
    BY <2>1, Unfinished
  <2> QED BY <1>1, <1>3, <2>1, <2>2, <2>3
<1> QED BY <1>2, <1>3

LEMMA InvRowsSound == Inv => RowsSound
<1> SUFFICES ASSUME Inv PROVE RowsSound
  OBVIOUS
<1>0. /\ VolatileOK /\ Sound(db) /\ Typed(db) /\ StageRows(db) /\ EndRows(db) /\ SlotRows(db)
      /\ OperationRows(db)
  BY DEF Inv, Sound
<1>1. TypeOK
  BY <1>0 DEF TypeOK, Typed, VolatileOK
<1>2. ListNonterminal(db) = db.meta \ DOMAIN db.terminal
  BY <1>0 DEF ListNonterminal, SlotRows
<1>3. NothingLeftBehind
  <2>1. RowsOf(db) \subseteq db.meta
    <3>1. ASSUME NEW k \in DOMAIN db.states PROVE k[1] \in db.meta
      <4>1. <<k[1], k[2], k[3], "forward">> \in DOMAIN db.ops
        BY <1>0 DEF OperationRows
      <4> DEFINE j == <<k[1], k[2], k[3], "forward">>
      <4>2. j \in DOMAIN db.ops /\ j[1] = k[1]
        BY <4>1
      <4> HIDE DEF j
      <4> QED BY <1>0, <4>2 DEF StageRows
    <3>2. {k[1] : k \in DOMAIN db.ops} \subseteq db.meta
      BY <1>0 DEF StageRows
    <3>3. {k[1] : k \in DOMAIN db.states} \subseteq db.meta
      BY <3>1
    <3> QED BY <1>0, <3>2, <3>3 DEF RowsOf, StageRows
  <2>2. RowsOf(db) \subseteq ListNonterminal(db) \cup db.staged
    BY <1>0, <1>2, <2>1 DEF EndRows
  <2>3. db.staged \cup DOMAIN db.output \subseteq DOMAIN db.terminal
    BY <1>0 DEF EndRows
  <2>4. {k[2] : k \in db.expiry} = DOMAIN db.terminal
    <3>1. db.expiry = {<<db.terminal[r].updatedAt, r>> : r \in DOMAIN db.terminal}
      BY <1>0 DEF EndRows
    <3>2. ASSUME NEW r \in DOMAIN db.terminal PROVE r \in {k[2] : k \in db.expiry}
      <4> DEFINE k == <<db.terminal[r].updatedAt, r>>
      <4>1. k \in db.expiry /\ k[2] = r
        BY <3>1
      <4> HIDE DEF k
      <4> QED BY <4>1
    <3>3. ASSUME NEW k \in db.expiry PROVE k[2] \in DOMAIN db.terminal
      BY <3>1
    <3> QED BY <3>2, <3>3
  <2>5. \A k \in db.expiry : db.terminal[k[2]].updatedAt = k[1]
    BY <1>0 DEF EndRows
  <2> QED BY <2>2, <2>3, <2>4, <2>5 DEF NothingLeftBehind
<1>4. SlotsAreNonterminal
  <2>1. Contract!Nonterminal = {r \in DOMAIN Seen(db) : ~Contract!Terminal(Seen(db)[r])}
    BY DEF Contract!Nonterminal, Seen
  <2>2. ASSUME NEW r \in DOMAIN Seen(db)
        PROVE  ~Contract!Terminal(Seen(db)[r]) <=> r \in db.meta \ DOMAIN db.terminal
    <3>1. r \in Runs /\ IsKnown(db, r)
      BY DEF Seen
    <3>2. /\ Seen(db)[r].outcome = "none" <=> r \notin DOMAIN db.terminal
          /\ r \notin DOMAIN db.terminal => r \in db.meta
      BY <1>0, <3>1, SeenRecords
    <3> QED BY <3>2 DEF Contract!Terminal
  <2>3. db.meta \ DOMAIN db.terminal \subseteq DOMAIN Seen(db)
    BY <1>0 DEF Seen, IsKnown, Typed
  <2>4. Contract!Nonterminal = db.meta \ DOMAIN db.terminal
    BY <2>1, <2>2, <2>3
  <2> QED BY <1>2, <2>4 DEF SlotsAreNonterminal
<1>5. OneRowPerOperation
  BY <1>0 DEF OneRowPerOperation, OperationRows
<1> QED BY <1>1, <1>3, <1>4, <1>5 DEF RowsSound

(* The head of a record, and the head of one whose operations are cut down  *)
(* to the one in flight.                                                    *)
Bare(x) == [x EXCEPT !.input = "none", !.output = "none"]
WithOps(x, ops) == [x EXCEPT !.ops = ops]

LEMMA RecordBare ==
    ASSUME NEW i, NEW p, NEW s, NEW u, NEW ops, NEW f, NEW c, NEW oc, NEW out,
           NEW x, x = RecordOf(i, p, s, u, ops, f, c, oc, out)
    PROVE  Bare(x) = RecordOf("none", p, s, u, ops, f, c, oc, "none")
<1> DEFINE y == [x EXCEPT !.input = "none", !.output = "none"]
           z == RecordOf("none", p, s, u, ops, f, c, oc, "none")
<1>1. /\ x = [n \in RecordNames |-> x[n]]
      /\ x.phase = p /\ x.sched = s /\ x.updatedAt = u /\ x.ops = ops
      /\ x.failure = f /\ x.cancel = c /\ x.outcome = oc
  BY RecordOfFields
<1>2. /\ z = [n \in RecordNames |-> z[n]]
      /\ z.input = "none" /\ z.phase = p /\ z.sched = s /\ z.updatedAt = u /\ z.ops = ops
      /\ z.failure = f /\ z.cancel = c /\ z.outcome = oc /\ z.output = "none"
  BY RecordOfFields
<1> HIDE DEF z
<1>3. y = [n \in RecordNames |-> y[n]] /\ y.input = "none" /\ y.output = "none"
  BY <1>1 DEF RecordNames
<1>4. /\ y.phase = p /\ y.sched = s /\ y.updatedAt = u /\ y.ops = ops
      /\ y.failure = f /\ y.cancel = c /\ y.outcome = oc
  BY <1>1 DEF RecordNames
<1> HIDE DEF y
<1>5. \A n \in RecordNames : y[n] = z[n]
  BY <1>2, <1>3, <1>4 DEF RecordNames
<1>6. y = z
  BY <1>2, <1>3, <1>5
<1> QED BY <1>6 DEF y, z, Bare

LEMMA RecordWithOps ==
    ASSUME NEW i, NEW p, NEW s, NEW u, NEW ops, NEW f, NEW c, NEW oc, NEW out, NEW ops2,
           NEW x, x = RecordOf(i, p, s, u, ops, f, c, oc, out)
    PROVE  WithOps(x, ops2) = RecordOf(i, p, s, u, ops2, f, c, oc, out)
<1> DEFINE y == [x EXCEPT !.ops = ops2]
           z == RecordOf(i, p, s, u, ops2, f, c, oc, out)
<1>1. /\ x = [n \in RecordNames |-> x[n]]
      /\ x.input = i /\ x.phase = p /\ x.sched = s /\ x.updatedAt = u
      /\ x.failure = f /\ x.cancel = c /\ x.outcome = oc /\ x.output = out
  BY RecordOfFields
<1>2. /\ z = [n \in RecordNames |-> z[n]]
      /\ z.input = i /\ z.phase = p /\ z.sched = s /\ z.updatedAt = u /\ z.ops = ops2
      /\ z.failure = f /\ z.cancel = c /\ z.outcome = oc /\ z.output = out
  BY RecordOfFields
<1> HIDE DEF z
<1>3. y = [n \in RecordNames |-> y[n]] /\ y.ops = ops2
  BY <1>1 DEF RecordNames
<1>4. /\ y.input = i /\ y.phase = p /\ y.sched = s /\ y.updatedAt = u
      /\ y.failure = f /\ y.cancel = c /\ y.outcome = oc /\ y.output = out
  BY <1>1 DEF RecordNames
<1> HIDE DEF y
<1>5. \A n \in RecordNames : y[n] = z[n]
  BY <1>2, <1>3, <1>4 DEF RecordNames
<1>6. y = z
  BY <1>2, <1>3, <1>5
<1> QED BY <1>6 DEF y, z, WithOps

LEMMA InvHeadAgrees == Inv => HeadAgrees
<1> SUFFICES ASSUME Inv, NEW r \in Runs, IsKnown(db, r) PROVE GetHead(db, r) = Contract!HeadOf(r)
  BY DEF HeadAgrees
<1>0. Sound(db) /\ Typed(db) /\ EndRows(db) /\ StageRows(db)
  BY DEF Inv, Sound
<1>1. PICK x : x = Seen(db)[r]
  OBVIOUS
<1> DEFINE bare == [x EXCEPT !.input = "none", !.output = "none"]
           headOps == [o \in Ops |->
                         IF o = <<Contract!InFlight(r), x.phase>>
                           THEN [NoOp EXCEPT !.status = "unresolved", !.attempts = x.ops[o].attempts]
                           ELSE NoOp]
<1>2. Contract!HeadOf(r) = IF Contract!Terminal(x) THEN bare ELSE [bare EXCEPT !.ops = headOps]
  <2>1. x = [q \in {p \in Runs : IsKnown(db, p)} |-> GetRun(db, q)][r]
    BY <1>1 DEF Seen
  <2>2. Contract!Ops = Ops /\ Contract!NoOp = NoOp
    BY SameWords
  <2> QED BY <2>1, <2>2, Zenon DEF Contract!HeadOf
<1>3. /\ r \in DOMAIN db.terminal =>
           x = ReadRecord(db.terminal[r], Get(db.output, r, "none"))
      /\ r \notin DOMAIN db.terminal => r \in db.meta /\ x = GetNonterminal(db, r)
      /\ x.outcome = "none" <=> r \notin DOMAIN db.terminal
  BY <1>0, <1>1, SeenRecords
<1>4. Contract!Terminal(x) <=> r \in DOMAIN db.terminal
  BY <1>3 DEF Contract!Terminal
<1>5. CASE r \in DOMAIN db.terminal
  <2>1. PICK y : y = db.terminal[r]
    OBVIOUS
  <2>2. y \in Record /\ y.input = "none"
    BY <1>0, <1>5, <2>1 DEF Typed, IsMap, EndRows
  <2>3. GetHead(db, r) = [y EXCEPT !.output = "none"]
    BY <1>5, <2>1, Zenon DEF GetHead, IsTerminal
  <2>4. PICK out : x = [y EXCEPT !.output = out]
    BY <1>3, <1>5, <2>1, Zenon DEF ReadRecord
  <2>5. bare = [y EXCEPT !.output = "none"]
    BY <2>2, <2>4 DEF Record
  <2> QED BY <1>2, <1>4, <1>5, <2>3, <2>5
<1>6. CASE r \notin DOMAIN db.terminal
  <2> DEFINE cur == db.cursor[r]
             ops == OverlayCursor([o \in Ops |-> ReadOp(db, r, o)], cur)
             none == OverlayCursor([o \in Ops |-> NoOp], cur)
             inp == Get(db.input, r, "none")
             can == Get(db.cancel, r, NoCause)
             fail == r \in db.failure
             cp == cur.phase
             cs == cur.sched
             cu == cur.updatedAt
  <2>1. x = [input |-> inp, phase |-> cp, sched |-> cs, updatedAt |-> cu, ops |-> ops,
             failure |-> fail, cancel |-> can, outcome |-> "none", output |-> "none"]
    BY <1>3, <1>6, Zenon DEF GetNonterminal
  <2>2. GetHead(db, r) =
          [input |-> "none", phase |-> cp, sched |-> cs, updatedAt |-> cu, ops |-> none,
           failure |-> fail, cancel |-> can, outcome |-> "none", output |-> "none"]
    BY <1>6, Zenon DEF GetHead, IsTerminal
  <2>3. r \in db.meta /\ cur \in Cursor /\ x.phase = cp /\ ReadsAs(x.ops, cur, db, r)
    BY <1>0, <1>3, <1>6, Unfinished
  <2>4. Contract!InFlight(r) = cur.step
    <3>1. DOMAIN db.cursor = db.meta
      BY <1>0 DEF StageRows
    <3>2. Contract!InFlight(r) = IF r \in DOMAIN Flying(db) THEN Flying(db)[r] ELSE NoStep
      BY DEF Contract!InFlight, Flying
    <3>3. r \in DOMAIN Flying(db) <=> cur.step # NoStep
      BY <1>6, <2>3, <3>1 DEF Flying, IsTerminal
    <3>4. r \in DOMAIN Flying(db) => Flying(db)[r] = cur.step
      BY DEF Flying
    <3> QED BY <3>2, <3>3, <3>4
  <2>5. none = headOps
    <3> DEFINE c == <<cur.step, cp>>
               a == cur.attempts
    <3>1. NoOp \in Op
      BY DEF NoOp, Op, OpStatus, Blob
    <3>2. [o \in Ops |-> NoOp] \in [Ops -> Op]
      BY <3>1
    <3>3. /\ none \in [Ops -> Op] /\ \A o \in Ops : o # c => none[o] = [p \in Ops |-> NoOp][o]
          /\ cur.step # NoStep =>
               c \in Ops /\ none[c] = [[p \in Ops |-> NoOp][c] EXCEPT !.status = "unresolved",
                                                                     !.attempts = a]
      <4> HIDE DEF cur
      <4> QED BY <2>3, <3>2, Overlaid
    <3>4. ASSUME NEW o \in Ops, o = c PROVE cur.step # NoStep /\ x.ops[o].attempts = a
      <4>1. cur.step # NoStep
        BY <3>4, OpPairs, NamesAssumption
      <4>2. PICK y : y = ReadOp(db, r, c)
        OBVIOUS
      <4>3. y \in Op
        BY <1>0, <4>2, ReadType DEF Sound
      <4>4. x.ops[c] = [y EXCEPT !.status = "unresolved", !.attempts = a]
        <5> HIDE DEF cur
        <5> QED BY <2>3, <4>1, <4>2 DEF ReadsAs
      <4>5. x.ops[c].attempts = a
        <5> HIDE DEF c, a
        <5> QED BY <4>3, <4>4 DEF Op
      <4> QED BY <3>4, <4>1, <4>5
    <3> HIDE DEF none, cur
    <3>5. ASSUME NEW o \in Ops PROVE none[o] = headOps[o]
      <4>1. headOps[o] = IF o = c THEN [NoOp EXCEPT !.status = "unresolved",
                                                   !.attempts = x.ops[o].attempts] ELSE NoOp
        BY <2>3, <2>4
      <4> QED BY <3>3, <3>4, <4>1
    <3>6. headOps = [o \in Ops |-> headOps[o]]
      OBVIOUS
    <3> HIDE DEF headOps
    <3> QED BY <3>3, <3>5, <3>6
  <2>6. Contract!HeadOf(r) = [bare EXCEPT !.ops = none]
    BY <1>2, <1>4, <1>6, <2>5
  <2>7. x = RecordOf(inp, cp, cs, cu, ops, fail, can, "none", "none")
    BY <2>1, Zenon DEF RecordOf
  <2>8. /\ Contract!HeadOf(r) = WithOps(Bare(x), none)
        /\ GetHead(db, r) = RecordOf("none", cp, cs, cu, none, fail, can, "none", "none")
    BY <2>2, <2>6, Zenon DEF Bare, WithOps, RecordOf
  <2> HIDE DEF cur, ops, none, inp, can, fail, cp, cs, cu, bare
  <2>9. Bare(x) = RecordOf("none", cp, cs, cu, ops, fail, can, "none", "none")
    BY <2>7, RecordBare
  <2>10. WithOps(Bare(x), none) = RecordOf("none", cp, cs, cu, none, fail, can, "none", "none")
    BY <2>9, RecordWithOps
  <2> QED BY <2>8, <2>10
<1> QED BY <1>5, <1>6

(* Whatever is staged, drained, reaped or lost in a crash, no row of the    *)
(* six buckets is orphaned, the slots recovery walks are those of the Runs  *)
(* without an outcome, and an operation has one row.                        *)
THEOREM RowsSoundAlways == Spec => []RowsSound
BY InvAlways, InvRowsSound, PTL

(* GetRunHead, which decodes no operation row, agrees with the head of the  *)
(* full record.                                                             *)
THEOREM HeadAgreesAlways == Spec => []HeadAgrees
BY InvAlways, InvHeadAgrees, PTL
=============================================================================
