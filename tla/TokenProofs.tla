---------------------------- MODULE TokenProofs ----------------------------
(***************************************************************************)
(* Theorems about TokenClass, for any Runs, classes, capacities, Steps and  *)
(* bounds: the pool's books follow the passes that hold tokens, no token is *)
(* idle while somebody waits for it with nobody on the way, and no Run is   *)
(* forgotten by the dispatcher.                                             *)
(***************************************************************************)
EXTENDS TokenClass, SequenceTheorems, FiniteSetTheorems, TLAPS

(* Nobody is twice in a line. *)
Distinct(s) == \A i, j \in 1..Len(s) : s[i] = s[j] => i = j

(* The members of a line without w are the others. *)
LEMMA WithoutLine ==
    ASSUME NEW S, NEW s \in Seq(S), NEW w, Distinct(s)
    PROVE  /\ Without(s, w) \in Seq(S)
           /\ Distinct(Without(s, w))
           /\ Members(Without(s, w)) = Members(s) \ {w}
<1>1. CASE w \notin Members(s)
  BY <1>1 DEF Without
<1>2. CASE w \in Members(s)
  <2> DEFINE i == CHOOSE j \in 1..Len(s) : s[j] = w
             a == SubSeq(s, 1, i - 1)
             b == SubSeq(s, i + 1, Len(s))
             t == a \o b
  <2>1. i \in 1..Len(s) /\ s[i] = w
    BY <1>2 DEF Members
  <2>2. Without(s, w) = t
    BY <1>2 DEF Without
  <2> HIDE DEF i
  <2>3. Len(s) \in Nat
    OBVIOUS
  <2>4. /\ a \in Seq(S) /\ Len(a) = i - 1
        /\ \A n \in 1..(i - 1) : a[n] = s[n]
    BY <2>1, <2>3
  <2>5. /\ b \in Seq(S) /\ Len(b) = Len(s) - i
        /\ \A n \in 1..(Len(s) - i) : b[n] = s[n + i]
    BY <2>1, <2>3
  <2> HIDE DEF a, b
  <2>6. t \in Seq(S) /\ Len(t) = Len(s) - 1
    <3>1. t \in Seq(S) /\ Len(t) = Len(a) + Len(b)
      BY <2>4, <2>5, ConcatProperties
    <3> QED BY <2>1, <2>3, <2>4, <2>5, <3>1
  <2>7. \A n \in 1..(Len(s) - 1) : t[n] = IF n < i THEN s[n] ELSE s[n + 1]
    <3> SUFFICES ASSUME NEW n \in 1..(Len(s) - 1)
                 PROVE  t[n] = IF n < i THEN s[n] ELSE s[n + 1]
      OBVIOUS
    <3>1. CASE n < i
      BY <2>1, <2>3, <2>4, <2>5, <3>1
    <3>2. CASE ~(n < i)
      <4>1. t[n] = b[n - (i - 1)]
        BY <2>1, <2>3, <2>4, <2>5, <3>2
      <4>2. n - (i - 1) \in 1..(Len(s) - i)
        BY <2>1, <2>3, <3>2
      <4>3. b[n - (i - 1)] = s[n - (i - 1) + i]
        BY <2>5, <4>2
      <4>4. n - (i - 1) + i = n + 1
        BY <2>1, <2>3
      <4> QED BY <3>2, <4>1, <4>3, <4>4
    <3> QED BY <3>1, <3>2
  <2> HIDE DEF t
  <2>8. Distinct(t)
    <3> SUFFICES ASSUME NEW n \in 1..(Len(s) - 1), NEW m \in 1..(Len(s) - 1), t[n] = t[m]
                 PROVE  n = m
      BY <2>6 DEF Distinct
    <3> DEFINE at(x) == IF x < i THEN x ELSE x + 1
    <3>1. at(n) \in 1..Len(s) /\ at(m) \in 1..Len(s)
      BY <2>3
    <3>2. t[n] = s[at(n)] /\ t[m] = s[at(m)]
      BY <2>7
    <3>3. at(n) = at(m)
      BY <3>1, <3>2 DEF Distinct
    <3> QED BY <2>1, <2>3, <3>3
  <2>9. Members(t) = Members(s) \ {w}
    <3>1. ASSUME NEW x \in Members(t) PROVE x \in Members(s) \ {w}
      <4>1. PICK n \in 1..(Len(s) - 1) : x = t[n]
        BY <2>6, <3>1 DEF Members
      <4> DEFINE k == IF n < i THEN n ELSE n + 1
      <4>2. k \in 1..Len(s) /\ k # i /\ x = s[k]
        BY <2>1, <2>3, <2>7, <4>1
      <4> QED BY <2>1, <4>2 DEF Members, Distinct
    <3>2. ASSUME NEW x \in Members(s) \ {w} PROVE x \in Members(t)
      <4>1. PICK k \in 1..Len(s) : x = s[k]
        BY <3>2 DEF Members
      <4>2. k # i
        BY <2>1, <3>2, <4>1
      <4> DEFINE n == IF k < i THEN k ELSE k - 1
      <4>3. n \in 1..(Len(s) - 1) /\ t[n] = x
        BY <2>1, <2>3, <2>7, <4>1, <4>2
      <4> QED BY <2>6, <4>3 DEF Members
    <3> QED BY <3>1, <3>2
  <2> QED BY <2>2, <2>6, <2>8, <2>9
<1> QED BY <1>1, <1>2

(* Appending a newcomer. *)
LEMMA AppendLine ==
    ASSUME NEW S, NEW s \in Seq(S), NEW w \in S, Distinct(s), w \notin Members(s)
    PROVE  /\ Append(s, w) \in Seq(S) /\ Distinct(Append(s, w))
           /\ Members(Append(s, w)) = Members(s) \cup {w}
<1> DEFINE t == Append(s, w)
<1>1. /\ t \in Seq(S) /\ Len(t) = Len(s) + 1 /\ Len(s) \in Nat
      /\ \A n \in 1..Len(s) : t[n] = s[n]
      /\ t[Len(s) + 1] = w
  OBVIOUS
<1> HIDE DEF t
<1>2. \A n \in 1..(Len(s) + 1) : n \in 1..Len(s) \/ n = Len(s) + 1
  BY <1>1
<1>3. Members(t) = Members(s) \cup {w}
  BY <1>1, <1>2 DEF Members
<1>4. Distinct(t)
  BY <1>1, <1>2 DEF Distinct, Members
<1> QED BY <1>1, <1>3, <1>4 DEF t

(* A line of distinct Runs is as long as it has members. *)
LEMMA LineLength ==
    ASSUME NEW s \in Seq(Runs), Distinct(s)
    PROVE  Len(s) = Cardinality(Members(s))
<1> DEFINE f == [i \in 1..Len(s) |-> s[i]]
<1>1. Len(s) \in Nat
  OBVIOUS
<1>2. f \in Bijection(1..Len(s), Members(s))
  BY DEF Bijection, Injection, Surjection, IsInjective, Members, Distinct
<1>3. IsFiniteSet(1..Len(s)) /\ Cardinality(1..Len(s)) = Len(s)
  BY <1>1, FS_Interval
<1> QED BY <1>2, <1>3, FS_Bijection DEF ExistsBijection

(* The first of a line, and the others. *)
LEMMA FirstOfLine ==
    ASSUME NEW S, NEW s \in Seq(S), s # <<>>
    PROVE  /\ Head(s) \in Members(s) /\ Head(s) \in S /\ Tail(s) \in Seq(S)
           /\ Members(s) = {Head(s)} \cup Members(Tail(s))
<1>1. /\ Len(s) \in Nat /\ Len(s) # 0 /\ Head(s) = s[1] /\ Tail(s) \in Seq(S)
      /\ Len(Tail(s)) = Len(s) - 1
      /\ \A n \in 1..(Len(s) - 1) : Tail(s)[n] = s[n + 1]
  OBVIOUS
<1>2. ASSUME NEW x \in Members(s) PROVE x = Head(s) \/ x \in Members(Tail(s))
  <2>1. PICK n \in 1..Len(s) : x = s[n]
    BY <1>2 DEF Members
  <2>2. CASE n = 1
    BY <1>1, <2>1, <2>2
  <2>3. CASE n # 1
    <3>1. n - 1 \in 1..(Len(s) - 1) /\ (n - 1) + 1 = n
      BY <1>1, <2>3
    <3>2. Tail(s)[n - 1] = x
      BY <1>1, <2>1, <3>1
    <3> QED BY <1>1, <3>1, <3>2 DEF Members
  <2> QED BY <2>2, <2>3
<1>3. ASSUME NEW x \in Members(Tail(s)) PROVE x \in Members(s)
  <2>1. PICK n \in 1..(Len(s) - 1) : x = s[n + 1]
    BY <1>1, <1>3 DEF Members
  <2>2. n + 1 \in 1..Len(s)
    BY <1>1
  <2> QED BY <2>1, <2>2 DEF Members
<1>4. Head(s) \in Members(s) /\ Head(s) \in S
  <2>1. 1 \in 1..Len(s)
    BY <1>1
  <2> QED BY <1>1, <2>1 DEF Members
<1> QED BY <1>1, <1>2, <1>3, <1>4

LEMMA Line0 == Members(<<>>) = {} /\ Distinct(<<>>)
BY DEF Members, Distinct

LEMMA Line1 == ASSUME NEW x PROVE Members(<<x>>) = {x}
BY DEF Members

LEMMA LineConcat ==
    ASSUME NEW S, NEW s \in Seq(S), NEW t \in Seq(S)
    PROVE  s \o t \in Seq(S) /\ Members(s \o t) = Members(s) \cup Members(t)
<1>1. /\ s \o t \in Seq(S) /\ Len(s \o t) = Len(s) + Len(t)
      /\ Len(s) \in Nat /\ Len(t) \in Nat
      /\ \A n \in 1..Len(s) : (s \o t)[n] = s[n]
      /\ \A n \in 1..Len(t) : (s \o t)[n + Len(s)] = t[n]
  OBVIOUS
<1>2. ASSUME NEW x \in Members(s \o t) PROVE x \in Members(s) \cup Members(t)
  <2>1. PICK n \in 1..(Len(s) + Len(t)) : x = (s \o t)[n]
    BY <1>1, <1>2 DEF Members
  <2>2. CASE n <= Len(s)
    BY <1>1, <2>1, <2>2 DEF Members
  <2>3. CASE ~(n <= Len(s))
    <3>1. n - Len(s) \in 1..Len(t) /\ (n - Len(s)) + Len(s) = n
      BY <1>1, <2>3
    <3> QED BY <1>1, <2>1, <3>1 DEF Members
  <2> QED BY <2>2, <2>3
<1>3. ASSUME NEW x \in Members(s) PROVE x \in Members(s \o t)
  <2>1. PICK n \in 1..Len(s) : x = s[n]
    BY <1>3 DEF Members
  <2>2. n \in 1..(Len(s) + Len(t))
    BY <1>1
  <2> QED BY <1>1, <2>1, <2>2 DEF Members
<1>4. ASSUME NEW x \in Members(t) PROVE x \in Members(s \o t)
  <2>1. PICK n \in 1..Len(t) : x = t[n]
    BY <1>4 DEF Members
  <2>2. n + Len(s) \in 1..(Len(s) + Len(t))
    BY <1>1
  <2> QED BY <1>1, <2>1, <2>2 DEF Members
<1> QED BY <1>1, <1>2, <1>3, <1>4
-----------------------------------------------------------------------------
(* The pool's operations.  h gives the class whose token each Run holds.    *)

HeldBy(h, k) == {r \in Runs : h[r] = k}

(* Tokens are counted once each, and a Run is in the line it is parked on   *)
(* and in no other, once.                                                   *)
Books(p, h) ==
    /\ p \in PoolType /\ h \in [Runs -> Limited \cup {NoClass}]
    /\ \A k \in Limited :
         /\ p.inUse[k] = Cardinality(HeldBy(h, k))
         /\ p.inUse[k] <= Capacity[k]
         /\ Distinct(p.waiters[k])
         /\ Members(p.waiters[k]) = {r \in Runs : p.parked[r] = k}

LEMMA NoClassUnlimited == NoClass \notin Limited
BY ClassesAssumption, CapacityAssumption DEF Limited

LEMMA FiniteHeld ==
    ASSUME NEW h, NEW k
    PROVE  IsFiniteSet(HeldBy(h, k)) /\ Cardinality(HeldBy(h, k)) \in Nat
BY RunsAssumption, FS_Subset, FS_CardinalityType DEF HeldBy

LEMMA NewBooks == Books(NewPool, [r \in Runs |-> NoClass])
<1> DEFINE h == [r \in Runs |-> NoClass]
<1>1. ASSUME NEW k \in Limited PROVE HeldBy(h, k) = {}
  BY <1>1, NoClassUnlimited DEF HeldBy
<1>2. NewPool \in PoolType
  BY DEF NewPool, PoolType
<1>3. ASSUME NEW k \in Limited PROVE Cardinality(HeldBy(h, k)) = 0
  BY <1>1, <1>3, FS_EmptySet
<1> QED BY <1>2, <1>3, Line0, NoClassUnlimited, CapacityAssumption
        DEF Books, NewPool, Limited

(* Unpark: w leaves its line, if it is in one. *)
LEMMA UnparkBooks ==
    ASSUME NEW p, NEW h, Books(p, h), NEW w \in Runs
    PROVE  /\ Books(Unpark(p, w), h)
           /\ Unpark(p, w).inUse = p.inUse
           /\ Unpark(p, w).parked = [p.parked EXCEPT ![w] = NoClass]
           /\ \A k \in Limited : k # p.parked[w] =>
                Unpark(p, w).waiters[k] = p.waiters[k]
<1> DEFINE q == Unpark(p, w)
<1>0. /\ p \in PoolType /\ p.parked \in [Runs -> Limited \cup {NoClass}]
      /\ p.waiters \in [Limited -> Seq(Runs)]
  BY DEF Books, PoolType
<1>1. CASE p.parked[w] = NoClass
  <2>1. q = p
    BY <1>1 DEF Unpark
  <2>2. [p.parked EXCEPT ![w] = NoClass] = p.parked
    BY <1>0, <1>1
  <2> QED BY <2>1, <2>2
<1>2. CASE p.parked[w] # NoClass
  <2> DEFINE c == p.parked[w]
             line == Without(p.waiters[c], w)
  <2>1. c \in Limited
    BY <1>0, <1>2
  <2>2. /\ line \in Seq(Runs) /\ Distinct(line)
        /\ Members(line) = Members(p.waiters[c]) \ {w}
    BY <1>0, <2>1, WithoutLine DEF Books
  <2>3. q = [p EXCEPT !.parked = [@ EXCEPT ![w] = NoClass],
                      !.waiters = [@ EXCEPT ![c] = line]]
    BY <1>0, <1>2 DEF Unpark, PoolType
  <2> HIDE DEF line, q
  <2>4. /\ q \in PoolType /\ q.inUse = p.inUse
        /\ q.parked = [p.parked EXCEPT ![w] = NoClass]
        /\ q.waiters = [p.waiters EXCEPT ![c] = line]
    BY <1>0, <2>1, <2>2, <2>3 DEF PoolType
  <2>5. ASSUME NEW k \in Limited
        PROVE  /\ Distinct(q.waiters[k])
               /\ Members(q.waiters[k]) = {r \in Runs : q.parked[r] = k}
               /\ k # c => q.waiters[k] = p.waiters[k]
    <3>1. CASE k = c
      BY <1>0, <2>1, <2>2, <2>4, <2>5, <3>1, NoClassUnlimited DEF Books
    <3>2. CASE k # c
      BY <1>0, <2>1, <2>4, <2>5, <3>2, NoClassUnlimited DEF Books
    <3> QED BY <3>1, <3>2
  <2>6. Books(q, h)
    BY <2>4, <2>5 DEF Books
  <2> QED BY <2>4, <2>5, <2>6 DEF q
<1> QED BY <1>1, <1>2

(* One token more is out, and w holds it. *)
Lent(p, k) == [p EXCEPT !.inUse[k] = @ + 1]

LEMMA GrantBooks ==
    ASSUME NEW p, NEW h, Books(p, h), NEW w \in Runs, h[w] = NoClass,
           NEW k \in Limited, Free(p, k)
    PROVE  /\ Books(Lent(p, k), [h EXCEPT ![w] = k])
           /\ Lent(p, k).parked = p.parked /\ Lent(p, k).waiters = p.waiters
           /\ Lent(p, k).inUse = [p.inUse EXCEPT ![k] = @ + 1]
<1> DEFINE q == Lent(p, k)
           g == [h EXCEPT ![w] = k]
<1>0. p \in PoolType /\ p.inUse \in [Limited -> Int] /\ h \in [Runs -> Limited \cup {NoClass}]
  BY DEF Books, PoolType
<1>1. /\ q \in PoolType /\ q.parked = p.parked /\ q.waiters = p.waiters
      /\ q.inUse = [p.inUse EXCEPT ![k] = @ + 1]
  <2> DEFINE used == [p.inUse EXCEPT ![k] = @ + 1]
  <2>1. used \in [Limited -> Int]
    BY <1>0
  <2>2. q = [p EXCEPT !.inUse = used]
    BY <1>0 DEF PoolType, Lent
  <2> HIDE DEF used, q
  <2>3. /\ q \in PoolType /\ q.parked = p.parked /\ q.waiters = p.waiters
        /\ q.inUse = used
    BY <1>0, <2>1, <2>2 DEF PoolType
  <2> QED BY <2>3 DEF used
<1>2. g \in [Runs -> Limited \cup {NoClass}]
  BY <1>0
<1>3. HeldBy(g, k) = HeldBy(h, k) \cup {w} /\ w \notin HeldBy(h, k)
  BY <1>0, NoClassUnlimited DEF HeldBy
<1>4. \A c \in Limited \ {k} : HeldBy(g, c) = HeldBy(h, c)
  BY <1>0, NoClassUnlimited DEF HeldBy
<1>5. Cardinality(HeldBy(g, k)) = Cardinality(HeldBy(h, k)) + 1
  BY <1>3, FiniteHeld, FS_AddElement
<1> HIDE DEF q, g
<1>6. Capacity[k] \in Nat
  BY CapacityAssumption DEF Limited
<1>7. ASSUME NEW c \in Limited
      PROVE  q.inUse[c] = Cardinality(HeldBy(g, c)) /\ q.inUse[c] <= Capacity[c]
  <2>1. CASE c = k
    BY <1>0, <1>1, <1>5, <1>6, <2>1 DEF Books, Free
  <2>2. CASE c # k
    BY <1>0, <1>1, <1>4, <2>2 DEF Books
  <2> QED BY <2>1, <2>2
<1>8. Books(q, g)
  BY <1>1, <1>2, <1>7 DEF Books
<1> QED BY <1>1, <1>8 DEF q, g

(* A token comes back. *)
LEMMA ReleaseBooks ==
    ASSUME NEW p, NEW h, Books(p, h), NEW w \in Runs, h[w] \in Limited
    PROVE  /\ Books(Release(p, h[w]), [h EXCEPT ![w] = NoClass])
           /\ Release(p, h[w]).parked = p.parked /\ Release(p, h[w]).waiters = p.waiters
           /\ Release(p, h[w]).inUse = [p.inUse EXCEPT ![h[w]] = @ - 1]
<1> DEFINE k == h[w]
           q == Release(p, k)
           g == [h EXCEPT ![w] = NoClass]
<1>0. p \in PoolType /\ p.inUse \in [Limited -> Int] /\ h \in [Runs -> Limited \cup {NoClass}]
  BY DEF Books, PoolType
<1>1. /\ q \in PoolType /\ q.parked = p.parked /\ q.waiters = p.waiters
      /\ q.inUse = [p.inUse EXCEPT ![k] = @ - 1]
  <2> DEFINE used == [p.inUse EXCEPT ![k] = @ - 1]
  <2>1. used \in [Limited -> Int]
    BY <1>0
  <2>2. q = [p EXCEPT !.inUse = used]
    BY <1>0 DEF PoolType, Release
  <2> HIDE DEF used, q
  <2>3. /\ q \in PoolType /\ q.parked = p.parked /\ q.waiters = p.waiters
        /\ q.inUse = used
    BY <1>0, <2>1, <2>2 DEF PoolType
  <2> QED BY <2>3 DEF used
<1>2. g \in [Runs -> Limited \cup {NoClass}]
  BY <1>0
<1>3. HeldBy(g, k) = HeldBy(h, k) \ {w} /\ w \in HeldBy(h, k)
  BY <1>0, NoClassUnlimited DEF HeldBy
<1>4. \A c \in Limited \ {k} : HeldBy(g, c) = HeldBy(h, c)
  BY <1>0, NoClassUnlimited DEF HeldBy
<1>5. Cardinality(HeldBy(g, k)) = Cardinality(HeldBy(h, k)) - 1
  BY <1>3, FiniteHeld, FS_RemoveElement
<1>6. Capacity[k] \in Nat
  BY CapacityAssumption DEF Limited
<1>7. ASSUME NEW c \in Limited
      PROVE  q.inUse[c] = Cardinality(HeldBy(g, c)) /\ q.inUse[c] <= Capacity[c]
  <2> HIDE DEF q, g, k
  <2>1. CASE c = k
    <3>1. q.inUse[c] = p.inUse[c] - 1
      BY <1>0, <1>1, <2>1
    <3>2. p.inUse[c] = Cardinality(HeldBy(h, c)) /\ p.inUse[c] <= Capacity[c]
      BY DEF Books
    <3>3. p.inUse[c] \in Int
      BY <1>0
    <3> QED BY <1>5, <1>6, <2>1, <3>1, <3>2, <3>3
  <2>2. CASE c # k
    BY <1>0, <1>1, <1>4, <2>2 DEF Books
  <2> QED BY <2>1, <2>2
<1> HIDE DEF q, g
<1>8. Books(q, g)
  BY <1>1, <1>2, <1>7 DEF Books
<1> QED BY <1>1, <1>8 DEF q, g

(* A refusal: w is in the line of k, where it was or at its end. *)
Refused(p, k, w) ==
    [p EXCEPT !.waiters[k] = IF w \in Members(@) THEN @ ELSE Append(@, w), !.parked[w] = k]

LEMMA ParkBooks ==
    ASSUME NEW p, NEW h, Books(p, h), NEW w \in Runs, NEW k \in Limited,
           p.parked[w] \in {k, NoClass}
    PROVE  /\ Books(Refused(p, k, w), h)
           /\ Refused(p, k, w).parked = [p.parked EXCEPT ![w] = k]
           /\ Refused(p, k, w).inUse = p.inUse
           /\ \A c \in Limited \ {k} : Refused(p, k, w).waiters[c] = p.waiters[c]
<1> DEFINE q == Refused(p, k, w)
<1> DEFINE line == IF w \in Members(p.waiters[k]) THEN p.waiters[k] ELSE Append(p.waiters[k], w)
<1>0. /\ p \in PoolType /\ p.parked \in [Runs -> Limited \cup {NoClass}]
      /\ p.waiters \in [Limited -> Seq(Runs)]
  BY DEF Books, PoolType
<1>1. p.waiters[k] \in Seq(Runs) /\ Distinct(p.waiters[k])
  BY <1>0 DEF Books
<1>2. /\ line \in Seq(Runs) /\ Distinct(line)
      /\ Members(line) = Members(p.waiters[k]) \cup {w}
  <2>1. CASE w \in Members(p.waiters[k])
    BY <1>1, <2>1
  <2>2. CASE w \notin Members(p.waiters[k])
    BY <1>1, <2>2, AppendLine
  <2> QED BY <2>1, <2>2
<1>3. q = [p EXCEPT !.waiters[k] = line, !.parked[w] = k]
  BY <1>0 DEF PoolType, Refused
<1> HIDE DEF line, q
<1>4. /\ q \in PoolType /\ q.inUse = p.inUse
      /\ q.parked = [p.parked EXCEPT ![w] = k]
      /\ q.waiters = [p.waiters EXCEPT ![k] = line]
  BY <1>0, <1>2, <1>3 DEF PoolType
<1>5. ASSUME NEW c \in Limited
      PROVE  /\ Distinct(q.waiters[c])
             /\ Members(q.waiters[c]) = {r \in Runs : q.parked[r] = c}
             /\ c # k => q.waiters[c] = p.waiters[c]
  <2>0. Members(p.waiters[c]) = {r \in Runs : p.parked[r] = c}
    BY DEF Books
  <2>1. CASE c = k
    BY <1>0, <1>2, <1>4, <2>0, <2>1
  <2>2. CASE c # k
    BY <1>0, <1>4, <2>0, <2>2, NoClassUnlimited DEF Books
  <2> QED BY <2>1, <2>2
<1>6. Books(q, h)
  BY <1>4, <1>5 DEF Books
<1> QED BY <1>4, <1>5, <1>6 DEF q

(* Who is woken when a token of k is free. *)
Waking(p, k, x) == Free(p, k) /\ p.waiters[k] # <<>> /\ x = Head(p.waiters[k])

LEMMA NextWaiterWakes ==
    ASSUME NEW p, p \in PoolType, NEW k \in Limited
    PROVE  /\ NextWaiter(p, k) \in Seq(Runs)
           /\ \A x : Waking(p, k, x) => x \in Members(NextWaiter(p, k))
<1>1. p.waiters[k] \in Seq(Runs)
  BY DEF PoolType
<1>2. CASE Free(p, k) /\ p.waiters[k] # <<>>
  <2>1. Head(p.waiters[k]) \in Runs
    BY <1>1, <1>2, FirstOfLine
  <2>2. NextWaiter(p, k) = <<Head(p.waiters[k])>>
    BY <1>2 DEF NextWaiter
  <2> QED BY <2>1, <2>2, Line1 DEF Waking
<1>3. CASE ~(Free(p, k) /\ p.waiters[k] # <<>>)
  <2>1. NextWaiter(p, k) = <<>>
    BY <1>3, Zenon DEF NextWaiter
  <2> QED BY <1>3, <2>1 DEF Waking
<1> QED BY <1>2, <1>3

(* Clear: whoever may use what w leaves is kicked. *)
LEMMA UnparkWakes ==
    ASSUME NEW p, NEW h, Books(p, h), NEW w \in Runs
    PROVE  /\ UnparkKicks(p, w) \in Seq(Runs)
           /\ \A k \in Limited : \A x : Waking(Unpark(p, w), k, x) =>
                x \in Members(UnparkKicks(p, w)) \/ Waking(p, k, x)
<1>0. p \in PoolType /\ p.parked \in [Runs -> Limited \cup {NoClass}]
  BY DEF Books, PoolType
<1>1. CASE p.parked[w] = NoClass
  <2>1. UnparkKicks(p, w) = <<>> /\ Unpark(p, w) = p
    BY <1>1 DEF UnparkKicks, Unpark
  <2> QED BY <2>1
<1>2. CASE p.parked[w] # NoClass
  <2> DEFINE c == p.parked[w]
             q == Unpark(p, w)
  <2>1. c \in Limited /\ UnparkKicks(p, w) = NextWaiter(q, c)
    BY <1>0, <1>2 DEF UnparkKicks
  <2>2. q \in PoolType /\ q.inUse = p.inUse
    <3>1. Books(q, h) /\ q.inUse = p.inUse
      BY UnparkBooks
    <3> QED BY <3>1 DEF Books
  <2>3. \A k \in Limited : k # c => q.waiters[k] = p.waiters[k]
    BY UnparkBooks, Zenon
  <2> HIDE DEF q
  <2>4. /\ NextWaiter(q, c) \in Seq(Runs)
        /\ \A x : Waking(q, c, x) => x \in Members(NextWaiter(q, c))
    BY <2>1, <2>2, NextWaiterWakes
  <2>5. \A k \in Limited : \A x : k # c /\ Waking(q, k, x) => Waking(p, k, x)
    BY <2>2, <2>3 DEF Waking, Free
  <2> QED BY <2>1, <2>4, <2>5 DEF q
<1> QED BY <1>1, <1>2

(* Who holds what after acquireClass. *)
Taken(p, h, k, w) == IF k \in Limited /\ Free(p, k) THEN [h EXCEPT ![w] = k] ELSE h

(* What acquireClass does to the books, for a Run that waits on k or on     *)
(* nothing: a grant takes it out of line, a refusal puts it in line, and    *)
(* everybody with a claim on a free token is kicked or was the head before. *)
LEMMA AcquireBooks ==
    ASSUME NEW p, NEW h, Books(p, h), NEW w \in Runs, h[w] = NoClass,
           NEW k, p.parked[w] \in {k, NoClass}
    PROVE  /\ Books(Acquire(p, k, w), Taken(p, h, k, w))
           /\ \A r \in Runs \ {w} : Acquire(p, k, w).parked[r] = p.parked[r]
           /\ Granted(p, k) => Acquire(p, k, w).parked[w] = NoClass
           /\ ~Granted(p, k) => Acquire(p, k, w).parked[w] = k /\ k \in Limited
           /\ AcquireKicks(p, k, w) \in Seq(Runs)
           /\ \A c \in Limited : \A x : Waking(Acquire(p, k, w), c, x) =>
                x \in Members(AcquireKicks(p, k, w)) \/ (Waking(p, c, x) /\ x # w)
<1> DEFINE u == Unpark(p, w)
           q == Acquire(p, k, w)
           g == Taken(p, h, k, w)
           a == IF p.parked[w] = k THEN <<>> ELSE UnparkKicks(p, w)
           b == IF k \in Limited /\ Free(p, k) THEN NextWaiter(q, k) ELSE <<>>
<1>0. p \in PoolType /\ p.parked \in [Runs -> Limited \cup {NoClass}]
  BY DEF Books, PoolType
<1>1. /\ Books(u, h) /\ u.inUse = p.inUse
      /\ u.parked = [p.parked EXCEPT ![w] = NoClass]
      /\ \A c \in Limited : c # p.parked[w] => u.waiters[c] = p.waiters[c]
  BY UnparkBooks
<1>2. a \in Seq(Runs)
  <2>1. UnparkKicks(p, w) \in Seq(Runs)
    BY UnparkWakes
  <2> QED BY <2>1
<1>3. AcquireKicks(p, k, w) = a \o b
  BY Zenon DEF AcquireKicks
<1>4. ASSUME NEW x, NEW c \in Limited, Waking(p, c, x), x \in Runs
      PROVE  p.parked[x] = c
  <2>1. p.waiters[c] \in Seq(Runs)
    BY <1>0 DEF PoolType
  <2>2. x \in Members(p.waiters[c])
    BY <1>4, <2>1, FirstOfLine DEF Waking
  <2> QED BY <1>4, <2>2 DEF Books
<1> HIDE DEF u, a
<1>5. CASE k \notin Limited
  <2>1. p.parked[w] = NoClass
    BY <1>0, <1>5
  <2>2. q = p /\ b = <<>> /\ g = h /\ Granted(p, k)
    BY <1>5, <2>1, Zenon DEF Acquire, Unpark, Granted, Taken
  <2>3. ASSUME NEW x, NEW c \in Limited, Waking(p, c, x) PROVE x # w
    BY <1>4, <2>1, <2>3, NoClassUnlimited
  <2>4. a \o b = a
    BY <1>2, <2>2
  <2> HIDE DEF q, g, b
  <2> QED BY <1>2, <1>3, <2>1, <2>2, <2>3, <2>4 DEF q, g
<1>6. CASE k \in Limited /\ Free(p, k)
  <2>1. q = Lent(u, k) /\ b = NextWaiter(q, k)
        /\ g = [h EXCEPT ![w] = k] /\ Granted(p, k)
    BY <1>6, Zenon DEF Acquire, u, Granted, Taken, Lent
  <2>2. Free(u, k)
    BY <1>1, <1>6 DEF Free
  <2>3. /\ Books(q, g) /\ q.parked = u.parked /\ q.waiters = u.waiters
        /\ q.inUse = [u.inUse EXCEPT ![k] = @ + 1]
    <3>1. /\ Books(Lent(u, k), [h EXCEPT ![w] = k])
          /\ Lent(u, k).parked = u.parked /\ Lent(u, k).waiters = u.waiters
          /\ Lent(u, k).inUse = [u.inUse EXCEPT ![k] = @ + 1]
      BY <1>1, <1>6, <2>2, GrantBooks
    <3> HIDE DEF q, g, b
    <3> QED BY <2>1, <3>1
  <2> HIDE DEF q, g, b
  <2>4. q \in PoolType
    BY <2>3 DEF Books
  <2>5. b \in Seq(Runs) /\ \A x : Waking(q, k, x) => x \in Members(b)
    BY <1>6, <2>1, <2>4, NextWaiterWakes
  <2>6. a \o b \in Seq(Runs) /\ Members(a \o b) = Members(a) \cup Members(b)
    BY <1>2, <2>5, LineConcat
  <2>7. ASSUME NEW c \in Limited, NEW x, Waking(q, c, x)
        PROVE  x \in Members(a \o b) \/ (Waking(p, c, x) /\ x # w)
    <3>1. CASE c = k
      BY <2>5, <2>6, <2>7, <3>1
    <3>2. CASE c # k
      <4>1. c # p.parked[w]
        BY <3>2, <2>7, NoClassUnlimited
      <4>2. q.waiters[c] = p.waiters[c] /\ q.inUse[c] = p.inUse[c]
        BY <1>0, <1>1, <1>6, <2>3, <3>2, <4>1 DEF PoolType
      <4>3. Waking(p, c, x)
        BY <2>7, <4>2 DEF Waking, Free
      <4> QED BY <1>4, <4>1, <4>3
    <3> QED BY <3>1, <3>2
  <2>8. q.parked[w] = NoClass /\ \A r \in Runs \ {w} : q.parked[r] = p.parked[r]
    BY <1>0, <1>1, <2>3
  <2> QED BY <1>3, <2>1, <2>3, <2>6, <2>7, <2>8 DEF q, g
<1>7. CASE k \in Limited /\ ~Free(p, k)
  <2>1. p = IF p.parked[w] = k THEN p ELSE Unpark(p, w)
    BY <1>0, <1>7 DEF Unpark
  <2>2. q = Refused(p, k, w)
    BY <1>7, <2>1, Zenon DEF Acquire, Refused
  <2> HIDE DEF q
  <2>3. /\ Books(q, h) /\ q.parked = [p.parked EXCEPT ![w] = k] /\ q.inUse = p.inUse
        /\ \A c \in Limited \ {k} : q.waiters[c] = p.waiters[c]
    BY <1>7, <2>2, ParkBooks
  <2>4. a = <<>>
    BY <1>0 DEF a, UnparkKicks
  <2>5. b = <<>> /\ g = h /\ ~Granted(p, k)
    BY <1>7, Zenon DEF Granted, Taken
  <2> HIDE DEF g, b
  <2>6. ASSUME NEW c \in Limited, NEW x, Waking(q, c, x)
        PROVE  Waking(p, c, x) /\ x # w
    <3>1. c # k
      BY <1>7, <2>3, <2>6 DEF Waking, Free
    <3>2. Waking(p, c, x)
      BY <2>3, <2>6, <3>1 DEF Waking, Free
    <3> QED BY <1>4, <3>1, <3>2, NoClassUnlimited
  <2>7. a \o b = <<>>
    BY <2>4, <2>5
  <2>8. q.parked[w] = k /\ \A r \in Runs \ {w} : q.parked[r] = p.parked[r]
    BY <1>0, <2>3
  <2>9. AcquireKicks(p, k, w) \in Seq(Runs)
    BY <1>3, <2>7
  <2> QED BY <1>7, <2>3, <2>5, <2>6, <2>8, <2>9 DEF q, g
<1> QED BY <1>5, <1>6, <1>7
-----------------------------------------------------------------------------
(* The inductive invariant.                                                 *)

(* What the place of r's worker says about r: it works on a Step from the   *)
(* gate's decision to the end of the attempt, and it holds a token only     *)
(* during an attempt, when it waits for none.                               *)
AtWorkOf(r) ==
    /\ wpc[r] \in {"acquire", "attempt"} => Working(r)
    /\ wpc[r] = "clear" => rec[r].state = "live"
    /\ held[r] # NoClass => wpc[r] = "attempt"
    /\ wpc[r] = "attempt" => pool.parked[r] = NoClass

AtWork == \A r \in Runs : AtWorkOf(r)

NeedOf(r) == pool.parked[r] # NoClass =>
                \/ Working(r) /\ ClassOf(r) = pool.parked[r]
                \/ wpc[r] = "clear"

(* The four parts keep each other: a token is never idle because the heads  *)
(* of lines need their class, and they do because the books tell who is in  *)
(* which line.                                                              *)
Inv == /\ TypeOK /\ Books(pool, held) /\ AtWork /\ WaitersNeedTheClass
       /\ NoTokenIdle /\ NoRunForgotten

Rec == [state : {"absent", "live", "terminal"}, phase : Phases,
        done : Nat, due : BOOLEAN, cancel : BOOLEAN]
Places == {"none", "arming", "waiting", "sem"} \cup InRun

LEMMA Lengths == ASSUME NEW r \in Runs PROVE Len(StepsOf[r]) \in Nat
BY StepsAssumption

(* Dispatch leaves x with a worker whose pass is still to come, and no other *)
(* Run without one.                                                         *)
LEMMA DispatchFacts ==
    ASSUME wpc \in [Runs -> Places], repoke \subseteq Runs,
           NEW x \in Runs, NEW d \in BOOLEAN, Dispatch(x, d)
    PROVE  /\ wpc' \in [Runs -> Places] /\ repoke' \subseteq Runs
           /\ wpc'[x] \notin {"none", "left"} \/ (wpc'[x] = "left" /\ x \in repoke')
           /\ \A q \in Runs : wpc'[q] = wpc[q] \/ (wpc[q] = "none" /\ wpc'[q] \in {"arming", "sem"})
           /\ \A q \in Runs \ {x} : wpc'[q] = wpc[q]
           /\ repoke \subseteq repoke'
<1>1. CASE wpc[x] = "none"
  <2>1. PICK pl \in {"arming", "sem"} : wpc' = [wpc EXCEPT ![x] = pl]
    BY <1>1, Zenon DEF Dispatch
  <2>2. repoke' = repoke
    BY <1>1 DEF Dispatch
  <2> QED BY <1>1, <2>1, <2>2 DEF Places
<1>2. CASE wpc[x] # "none"
  BY <1>2 DEF Dispatch, Places
<1> QED BY <1>1, <1>2

(* The parts of TypeOK that are not in the books. *)
RestType ==
    /\ rec \in [Runs -> Rec]
    /\ \A r \in Runs : rec[r].done <= Len(StepsOf[r])
    /\ wpc \in [Runs -> Places]
    /\ again \subseteq Runs
    /\ owed \in [Runs -> Seq(Runs)]
    /\ repoke \subseteq Runs
    /\ signal \in [Runs -> {"none", "armed", "fired"}]
    /\ late \in [Runs -> [now : Nat, later : Nat]]
    /\ call \in [Runs -> {"idle", "wake", "dispatch", "over"}]
    /\ tries \in [Runs -> Nat]

LEMMA TypeParts == Books(pool, held) => (TypeOK <=> RestType)
BY DEF Books, TypeOK, RestType, Rec, Places

(* Nothing of another Run changes, but that a free key may get a worker. *)
Frame(r) ==
    \A q \in Runs \ {r} :
        /\ rec'[q] = rec[q] /\ held'[q] = held[q] /\ pool'.parked[q] = pool.parked[q]
        /\ wpc'[q] = wpc[q] \/ (wpc[q] = "none" /\ wpc'[q] \in {"arming", "sem"})

(* Then only r's part of AtWork and WaitersNeedTheClass is to be shown. *)
LEMMA OnlyItself ==
    ASSUME Inv, NEW r \in Runs, Frame(r), AtWorkOf(r)', NeedOf(r)'
    PROVE  AtWork' /\ WaitersNeedTheClass'
<1>1. ASSUME NEW q \in Runs \ {r} PROVE AtWorkOf(q)' /\ NeedOf(q)'
  <2>1. /\ rec'[q] = rec[q] /\ held'[q] = held[q] /\ pool'.parked[q] = pool.parked[q]
        /\ wpc'[q] = wpc[q] \/ (wpc[q] = "none" /\ wpc'[q] \in {"arming", "sem"})
    BY DEF Frame
  <2>2. (Working(q)' <=> Working(q)) /\ ClassOf(q)' = ClassOf(q)
    BY <2>1 DEF Working, Over, ClassOf
  <2>3. AtWorkOf(q) /\ NeedOf(q)
    BY DEF Inv, AtWork, WaitersNeedTheClass, NeedOf
  <2> QED BY <2>1, <2>2, <2>3 DEF AtWorkOf, NeedOf
<1> QED BY <1>1 DEF AtWork, WaitersNeedTheClass, NeedOf

(* Whoever a free token waits for is on its way. *)
LEMMA IdleWaking ==
    NoTokenIdle <=> \A k \in Limited : \A x : Waking(pool, k, x) => OnItsWay(x)
BY DEF NoTokenIdle, Waking

(* The head of a line is parked on the line's class. *)
LEMMA HeadParked ==
    ASSUME NEW p, NEW h, Books(p, h), NEW k \in Limited, NEW x, Waking(p, k, x)
    PROVE  x \in Runs /\ p.parked[x] = k
<1>1. p.waiters[k] \in Seq(Runs)
  BY DEF Books, PoolType
<1>2. x \in Members(p.waiters[k])
  BY <1>1, FirstOfLine DEF Waking
<1> QED BY <1>2 DEF Books

(* A step that leaves the pool alone and takes nobody off its way. *)
LEMMA WayKept ==
    ASSUME Inv, pool' = pool,
           \A q \in Runs : OnItsWay(q) => OnItsWay(q)',
           \A q \in Runs : rec'[q].state = "live" => rec[q].state = "live" \/ OnItsWay(q)'
    PROVE  NoTokenIdle' /\ NoRunForgotten'
<1>1. ASSUME NEW k \in Limited, NEW x, Waking(pool, k, x) PROVE OnItsWay(x)'
  <2>1. x \in Runs
    BY <1>1, HeadParked DEF Inv
  <2>2. OnItsWay(x)
    BY <1>1, IdleWaking DEF Inv
  <2> QED BY <2>1, <2>2
<1>2. NoTokenIdle'
  <2>1. NoTokenIdle' <=> \A k \in Limited : \A x : Waking(pool', k, x) => OnItsWay(x)'
    BY DEF NoTokenIdle, Waking
  <2> QED BY <1>1, <2>1
<1>3. NoRunForgotten'
  BY DEF Inv, NoRunForgotten
<1> QED BY <1>2, <1>3

LEMMA Close ==
    ASSUME Inv, NEW r \in Runs, RestType', Books(pool', held'), Frame(r),
           AtWorkOf(r)', NeedOf(r)', NoTokenIdle', NoRunForgotten'
    PROVE  Inv'
<1>1. AtWork' /\ WaitersNeedTheClass'
  BY OnlyItself
<1>2. TypeOK'
  BY DEF Books, TypeOK, RestType, Rec, Places
<1> QED BY <1>1, <1>2 DEF Inv

(* A step that touches neither the pool nor a token. *)
LEMMA Quiet ==
    ASSUME Inv, NEW r \in Runs, RestType', pool' = pool, held' = held,
           \A q \in Runs \ {r} : /\ rec'[q] = rec[q]
                                 /\ \/ wpc'[q] = wpc[q]
                                    \/ wpc[q] = "none" /\ wpc'[q] \in {"arming", "sem"},
           AtWorkOf(r)', NeedOf(r)',
           \A q \in Runs : OnItsWay(q) => OnItsWay(q)',
           rec'[r].state = "live" => rec[r].state = "live" \/ OnItsWay(r)'
    PROVE  Inv'
<1>1. Frame(r)
  BY DEF Frame
<1>2. Books(pool', held')
  BY DEF Inv
<1>3. NoTokenIdle' /\ NoRunForgotten'
  <2>1. \A q \in Runs : rec'[q].state = "live" => rec[q].state = "live" \/ OnItsWay(q)'
    OBVIOUS
  <2> QED BY <2>1, WayKept
<1> QED BY <1>1, <1>2, <1>3, Close

LEMMA InvParts ==
    ASSUME Inv, NEW r \in Runs
    PROVE  RestType /\ Books(pool, held) /\ AtWorkOf(r) /\ NeedOf(r)
BY TypeParts DEF Inv, AtWork, WaitersNeedTheClass, NeedOf

(* A worker's steps before processRun. *)
LEMMA WaitingSteps ==
    ASSUME Inv, NEW r \in Runs, Arm(r) \/ TimerFires(r) \/ Woken(r) \/ Enter(r)
    PROVE  Inv'
<1>0. RestType /\ AtWorkOf(r) /\ NeedOf(r)
  BY InvParts
<1>1. /\ UNCHANGED <<rec, pool, pass, repoke, late, call, tries>>
      /\ wpc[r] \in {"arming", "waiting", "sem"}
      /\ \E pl \in {"waiting", "sem", "read"} : wpc' = [wpc EXCEPT ![r] = pl]
  BY DEF Arm, TimerFires, Woken, WaitOver, Enter
<1>2. signal' \in [Runs -> {"none", "armed", "fired"}]
  BY <1>0 DEF Arm, TimerFires, Woken, WaitOver, Enter, RestType
<1>3. PICK pl \in {"waiting", "sem", "read"} : wpc' = [wpc EXCEPT ![r] = pl]
  BY <1>1
<1>4. wpc' \in [Runs -> Places] /\ wpc'[r] = pl /\ \A q \in Runs \ {r} : wpc'[q] = wpc[q]
  BY <1>0, <1>3 DEF RestType, Places, InRun
<1>5. RestType'
  BY <1>0, <1>1, <1>2, <1>4 DEF RestType, pass
<1>6. AtWorkOf(r)' /\ NeedOf(r)'
  BY <1>0, <1>1, <1>4 DEF AtWorkOf, NeedOf, pass, Working, Over, ClassOf
<1>7. \A q \in Runs : OnItsWay(q) => OnItsWay(q)'
  BY <1>1, <1>4 DEF OnItsWay, pass
<1> QED BY <1>1, <1>4, <1>5, <1>6, <1>7, Quiet DEF pass

(* A dispatch of r itself, whose reason is given up with it. *)
LEMMA DispatchSteps ==
    ASSUME Inv, NEW r \in Runs, NEW d \in BOOLEAN, Dispatch(r, d),
           UNCHANGED <<rec, pool, pass, signal, tries>>,
           late' \in [Runs -> [now : Nat, later : Nat]],
           call' \in [Runs -> {"idle", "wake", "dispatch", "over"}],
           \A q \in Runs \ {r} : late'[q] = late[q] /\ call'[q] = call[q]
    PROVE  Inv'
<1>0. RestType /\ AtWorkOf(r) /\ NeedOf(r)
  BY InvParts
<1>1. /\ wpc' \in [Runs -> Places] /\ repoke' \subseteq Runs
      /\ wpc'[r] \notin {"none", "left"} \/ (wpc'[r] = "left" /\ r \in repoke')
      /\ wpc'[r] = wpc[r] \/ (wpc[r] = "none" /\ wpc'[r] \in {"arming", "sem"})
      /\ \A q \in Runs \ {r} : wpc'[q] = wpc[q]
      /\ repoke \subseteq repoke'
  BY <1>0, DispatchFacts DEF RestType
<1>2. RestType'
  BY <1>0, <1>1 DEF RestType, pass
<1>3. AtWorkOf(r)' /\ NeedOf(r)'
  BY <1>0, <1>1 DEF AtWorkOf, NeedOf, pass, Working, Over, ClassOf
<1>4. OnItsWay(r)'
  BY <1>1 DEF OnItsWay
<1>5. ASSUME NEW q \in Runs \ {r}, OnItsWay(q) PROVE OnItsWay(q)'
  BY <1>1, <1>5 DEF OnItsWay, pass
<1> QED BY <1>1, <1>2, <1>3, <1>4, <1>5, Quiet DEF pass

(* One redispatch more or fewer. *)
LEMMA LateSet ==
    ASSUME NEW f \in [Runs -> [now : Nat, later : Nat]], NEW r \in Runs, NEW n \in Nat
    PROVE  /\ [f EXCEPT ![r].now = n] \in [Runs -> [now : Nat, later : Nat]]
           /\ [f EXCEPT ![r].later = n] \in [Runs -> [now : Nat, later : Nat]]
           /\ [f EXCEPT ![r].now = n][r] = [now |-> n, later |-> f[r].later]
           /\ [f EXCEPT ![r].later = n][r] = [now |-> f[r].now, later |-> n]
           /\ f[r].now \in Nat /\ f[r].later \in Nat
<1>1. f[r] \in [now : Nat, later : Nat]
  OBVIOUS
<1>2. /\ [f[r] EXCEPT !.now = n] = [now |-> n, later |-> f[r].later]
      /\ [f[r] EXCEPT !.later = n] = [now |-> f[r].now, later |-> n]
      /\ f[r].now \in Nat /\ f[r].later \in Nat
  BY <1>1
<1>3. [f EXCEPT ![r].now = n] = [f EXCEPT ![r] = [now |-> n, later |-> f[r].later]]
  BY <1>2
<1>4. [f EXCEPT ![r].later = n] = [f EXCEPT ![r] = [now |-> f[r].now, later |-> n]]
  BY <1>2
<1> QED BY <1>2, <1>3, <1>4

LEMMA RedispatchStep == ASSUME Inv, NEW r \in Runs, Redispatch(r) PROVE Inv'
<1>0. RestType
  BY InvParts
<1>1. PICK d \in BOOLEAN : Dispatch(r, d)
  BY DEF Redispatch
<1>2. /\ late' \in [Runs -> [now : Nat, later : Nat]]
      /\ \A q \in Runs \ {r} : late'[q] = late[q]
  <2>0. late \in [Runs -> [now : Nat, later : Nat]]
    BY <1>0 DEF RestType
  <2>3. late[r].now \in Nat /\ late[r].later \in Nat
    BY <2>0
  <2>1. PICK n \in Nat : late' = [late EXCEPT ![r].now = n] \/ late' = [late EXCEPT ![r].later = n]
    <3>1. CASE late[r].now > 0 /\ late' = [late EXCEPT ![r].now = @ - 1]
      <4>1. late[r].now - 1 \in Nat
        BY <2>3, <3>1
      <4> QED BY <3>1, <4>1, Zenon
    <3>2. CASE late[r].later > 0 /\ late' = [late EXCEPT ![r].later = @ - 1]
      <4>1. late[r].later - 1 \in Nat
        BY <2>3, <3>2
      <4> QED BY <3>2, <4>1, Zenon
    <3> QED BY <3>1, <3>2, Zenon DEF Redispatch
  <2>2. late' \in [Runs -> [now : Nat, later : Nat]]
    <3>1. /\ [late EXCEPT ![r].now = n] \in [Runs -> [now : Nat, later : Nat]]
          /\ [late EXCEPT ![r].later = n] \in [Runs -> [now : Nat, later : Nat]]
      BY <2>0, LateSet
    <3> QED BY <2>1, <3>1, Zenon
  <2> QED BY <2>0, <2>1, <2>2
<1> QED BY <1>0, <1>1, <1>2, DispatchSteps DEF Redispatch, RestType

LEMMA CancelDispatchStep == ASSUME Inv, NEW r \in Runs, CancelDispatch(r) PROVE Inv'
<1>0. RestType
  BY InvParts
<1>1. /\ call' \in [Runs -> {"idle", "wake", "dispatch", "over"}]
      /\ \A q \in Runs \ {r} : call'[q] = call[q]
  BY <1>0 DEF CancelDispatch, RestType
<1> QED BY <1>0, <1>1, DispatchSteps DEF CancelDispatch, RestType

(* A kick reaches the head of a line. *)
LEMMA DeliverKickStep == ASSUME Inv, NEW r \in Runs, DeliverKick(r) PROVE Inv'
<1>0. RestType /\ owed[r] \in Seq(Runs) /\ owed[r] # <<>>
  BY InvParts DEF RestType, DeliverKick
<1>1. PICK x \in Runs : /\ x = Head(owed[r]) /\ Tail(owed[r]) \in Seq(Runs)
                       /\ Members(owed[r]) = {x} \cup Members(Tail(owed[r]))
  BY <1>0, FirstOfLine
<1>2. /\ UNCHANGED <<rec, pool, again, held, signal, late, call, tries>>
      /\ owed' = [owed EXCEPT ![r] = Tail(@)] /\ Dispatch(x, FALSE)
  BY <1>1 DEF DeliverKick
<1>3. /\ wpc' \in [Runs -> Places] /\ repoke' \subseteq Runs
      /\ wpc'[x] \notin {"none", "left"} \/ (wpc'[x] = "left" /\ x \in repoke')
      /\ wpc'[x] = wpc[x] \/ (wpc[x] = "none" /\ wpc'[x] \in {"arming", "sem"})
      /\ \A q \in Runs \ {x} : wpc'[q] = wpc[q]
      /\ repoke \subseteq repoke'
  BY <1>0, <1>1, <1>2, DispatchFacts DEF RestType
<1>4. /\ owed' \in [Runs -> Seq(Runs)] /\ owed'[r] = Tail(owed[r])
      /\ \A q \in Runs \ {r} : owed'[q] = owed[q]
  BY <1>0, <1>1, <1>2 DEF RestType
<1>5. RestType'
  BY <1>0, <1>2, <1>3, <1>4 DEF RestType
<1>6. AtWorkOf(x)' /\ NeedOf(x)'
  <2>1. AtWorkOf(x) /\ NeedOf(x)
    BY <1>1, InvParts
  <2> QED BY <1>2, <1>3, <2>1 DEF AtWorkOf, NeedOf, Working, Over, ClassOf
<1>7. ASSUME NEW q \in Runs, OnItsWay(q) PROVE OnItsWay(q)'
  <2>1. CASE q = x
    BY <1>3, <2>1 DEF OnItsWay
  <2>2. CASE q # x
    <3>1. wpc'[q] = wpc[q] /\ (q \in repoke => q \in repoke')
      BY <1>3, <1>7, <2>2
    <3>2. ASSUME NEW z \in Runs, q \in Members(owed[z]) PROVE q \in Members(owed'[z])
      BY <1>1, <1>4, <2>2, <3>2
    <3> QED BY <1>2, <1>7, <3>1, <3>2 DEF OnItsWay
  <2> QED BY <2>1, <2>2
<1> QED BY <1>1, <1>2, <1>3, <1>5, <1>6, <1>7, Quiet

(* The key is given up; a pass still wanted becomes a redispatch. *)
LEMMA ClearActiveStep == ASSUME Inv, NEW r \in Runs, ClearActive(r) PROVE Inv'
<1>0. RestType /\ AtWorkOf(r) /\ NeedOf(r)
  BY InvParts
<1>1. /\ UNCHANGED <<rec, pool, held, owed, signal, call, tries>>
      /\ wpc[r] = "left" /\ wpc' = [wpc EXCEPT ![r] = "none"]
      /\ repoke' = repoke \ {r} /\ again' = again \ {r}
  BY DEF ClearActive
<1>2. wpc' \in [Runs -> Places] /\ wpc'[r] = "none" /\ \A q \in Runs \ {r} : wpc'[q] = wpc[q]
  BY <1>0, <1>1 DEF RestType, Places
<1>3. late \in [Runs -> [now : Nat, later : Nat]] /\ late[r].now \in Nat /\ late[r].later \in Nat
  <2>1. late \in [Runs -> [now : Nat, later : Nat]]
    BY <1>0 DEF RestType
  <2> QED BY <2>1
<1>4. /\ late' \in [Runs -> [now : Nat, later : Nat]]
      /\ \A q \in Runs \ {r} : late'[q] = late[q]
      /\ late'[r].now + late'[r].later >= late[r].now + late[r].later
      /\ r \in repoke \cup again => late'[r].now + late'[r].later > 0
  <2>1. CASE r \in repoke
    <3>1. late' = [late EXCEPT ![r].now = late[r].now + 1] /\ late[r].now + 1 \in Nat
      BY <1>3, <2>1 DEF ClearActive
    <3>2. /\ late' \in [Runs -> [now : Nat, later : Nat]]
          /\ late'[r] = [now |-> late[r].now + 1, later |-> late[r].later]
      BY <1>3, <3>1, LateSet
    <3> QED BY <1>3, <3>1, <3>2
  <2>2. CASE r \notin repoke /\ r \in again
    <3>1. late' = [late EXCEPT ![r].later = late[r].later + 1] /\ late[r].later + 1 \in Nat
      BY <1>3, <2>2 DEF ClearActive
    <3>2. /\ late' \in [Runs -> [now : Nat, later : Nat]]
          /\ late'[r] = [now |-> late[r].now, later |-> late[r].later + 1]
      BY <1>3, <3>1, LateSet
    <3> QED BY <1>3, <3>1, <3>2
  <2>3. CASE r \notin repoke /\ r \notin again
    <3>1. late' = late
      BY <2>3, Zenon DEF ClearActive
    <3> QED BY <1>3, <2>3, <3>1
  <2> QED BY <2>1, <2>2, <2>3
<1>5. RestType'
  BY <1>0, <1>1, <1>2, <1>4 DEF RestType
<1>6. AtWorkOf(r)' /\ NeedOf(r)'
  BY <1>0, <1>1, <1>2 DEF AtWorkOf, NeedOf, Working, Over, ClassOf
<1>7. ASSUME OnItsWay(r) PROVE OnItsWay(r)'
  <2>1. late'[r].now \in Nat /\ late'[r].later \in Nat
    BY <1>4
  <2>2. CASE r \in repoke \cup again
    BY <1>4, <2>2 DEF OnItsWay
  <2>3. CASE late[r].now + late[r].later > 0
    BY <1>3, <1>4, <2>1, <2>3 DEF OnItsWay
  <2> QED BY <1>1, <1>7, <2>2, <2>3 DEF OnItsWay
<1>8. ASSUME NEW q \in Runs \ {r}, OnItsWay(q) PROVE OnItsWay(q)'
  BY <1>1, <1>2, <1>4, <1>8 DEF OnItsWay
<1> QED BY <1>1, <1>2, <1>5, <1>6, <1>7, <1>8, Quiet

(* A record replaced. *)
LEMMA RecSet ==
    ASSUME RestType, NEW r \in Runs, NEW e \in Rec, e.done <= Len(StepsOf[r]),
           rec' = [rec EXCEPT ![r] = e]
    PROVE  /\ rec' \in [Runs -> Rec] /\ \A q \in Runs : rec'[q].done <= Len(StepsOf[q])
           /\ rec'[r] = e /\ \A q \in Runs \ {r} : rec'[q] = rec[q]
BY DEF RestType

LEMMA RecOf ==
    ASSUME RestType, NEW r \in Runs
    PROVE  /\ rec[r] \in Rec /\ rec[r].done \in Nat /\ rec[r].done <= Len(StepsOf[r])
           /\ rec[r].phase \in Phases
<1>1. rec[r] \in Rec
  BY DEF RestType
<1> QED BY <1>1 DEF RestType, Rec

(* A step of r's pass that does not go near the pool. *)
LEMMA PassStep ==
    ASSUME Inv, NEW r \in Runs, owed[r] = <<>>,
           UNCHANGED <<pool, held, owed, repoke, signal, late, call>>,
           wpc[r] \notin {"none", "left", "attempt"},
           NEW pl \in Places \ {"none", "attempt"}, wpc' = [wpc EXCEPT ![r] = pl],
           again' \in {again, again \cup {r}}, pl = "left" => r \in again',
           NEW e \in Rec, e.done <= Len(StepsOf[r]), rec' = [rec EXCEPT ![r] = e],
           e.state = rec[r].state, tries' \in [Runs -> Nat],
           pl = "acquire" => Working(r)', pl = "clear" => e.state = "live", NeedOf(r)'
    PROVE  Inv'
<1>0. RestType /\ AtWorkOf(r)
  BY InvParts
<1>1. wpc' \in [Runs -> Places] /\ wpc'[r] = pl /\ \A q \in Runs \ {r} : wpc'[q] = wpc[q]
  BY <1>0 DEF RestType
<1>2. /\ rec' \in [Runs -> Rec] /\ \A q \in Runs : rec'[q].done <= Len(StepsOf[q])
      /\ rec'[r] = e /\ \A q \in Runs \ {r} : rec'[q] = rec[q]
  BY <1>0, RecSet
<1>3. RestType'
  BY <1>0, <1>1, <1>2 DEF RestType
<1>4. AtWorkOf(r)'
  BY <1>0, <1>1, <1>2 DEF AtWorkOf
<1>5. OnItsWay(r)'
  BY <1>1 DEF OnItsWay
<1>6. ASSUME NEW q \in Runs \ {r}, OnItsWay(q) PROVE OnItsWay(q)'
  BY <1>1, <1>6 DEF OnItsWay
<1> QED BY <1>1, <1>2, <1>3, <1>4, <1>5, <1>6, Quiet

LEMMA ReadFailsStep == ASSUME Inv, NEW r \in Runs, owed[r] = <<>>, ReadFails(r) PROVE Inv'
<1>0. RestType /\ NeedOf(r)
  BY InvParts
<1>1. /\ UNCHANGED <<pool, held, owed, repoke, signal, late, call, rec>>
      /\ wpc[r] \in {"read", "gate"} /\ wpc' = [wpc EXCEPT ![r] = "left"]
      /\ again' = again \cup {r} /\ tries' = [tries EXCEPT ![r] = @ + 1]
  BY Zenon DEF ReadFails, Fault, Leave
<1>2. tries' \in [Runs -> Nat]
  BY <1>0, <1>1 DEF RestType
<1>3. rec' = [rec EXCEPT ![r] = rec[r]] /\ rec[r] \in Rec /\ rec[r].done <= Len(StepsOf[r])
  BY <1>0, <1>1, RecOf DEF RestType
<1>4. NeedOf(r)'
  BY <1>0, <1>1 DEF NeedOf, Working, Over, ClassOf
<1>5. "left" \in Places \ {"none", "attempt"}
  BY DEF Places, InRun
<1> QED BY <1>1, <1>2, <1>3, <1>4, <1>5, PassStep

LEMMA GateRetryStep == ASSUME Inv, NEW r \in Runs, owed[r] = <<>>, GateRetry(r) PROVE Inv'
<1>0. RestType /\ NeedOf(r)
  BY InvParts
<1>1. /\ UNCHANGED <<pool, held, owed, repoke, signal, late, call, rec, tries>>
      /\ wpc[r] \in {"read", "gate"} /\ Working(r)
      /\ \/ wpc' = [wpc EXCEPT ![r] = "acquire"] /\ again' = again
         \/ wpc' = [wpc EXCEPT ![r] = "left"] /\ again' = again \cup {r}
  BY Zenon DEF GateRetry, Leave
<1>2. tries' \in [Runs -> Nat]
  BY <1>0, <1>1 DEF RestType
<1>3. rec' = [rec EXCEPT ![r] = rec[r]] /\ rec[r] \in Rec /\ rec[r].done <= Len(StepsOf[r])
  BY <1>0, <1>1, RecOf DEF RestType
<1>4. NeedOf(r)' /\ Working(r)'
  BY <1>0, <1>1 DEF NeedOf, Working, Over, ClassOf
<1>5. "left" \in Places \ {"none", "attempt"} /\ "acquire" \in Places \ {"none", "attempt"}
  BY DEF Places, InRun
<1>6. CASE wpc' = [wpc EXCEPT ![r] = "acquire"] /\ again' = again
  BY <1>1, <1>2, <1>3, <1>4, <1>5, <1>6, PassStep
<1>7. CASE wpc' = [wpc EXCEPT ![r] = "left"] /\ again' = again \cup {r}
  BY <1>1, <1>2, <1>3, <1>4, <1>5, <1>7, PassStep
<1> QED BY <1>1, <1>6, <1>7

LEMMA GateCancelStep == ASSUME Inv, NEW r \in Runs, owed[r] = <<>>, GateCancel(r) PROVE Inv'
<1>0. RestType /\ NeedOf(r)
  BY InvParts
<1>1. /\ UNCHANGED <<pool, held, owed, repoke, signal, late, call>>
      /\ wpc[r] \in {"read", "gate"} /\ Working(r)
  BY DEF GateCancel
<1>2. "left" \in Places \ {"none", "attempt"} /\ "clear" \in Places \ {"none", "attempt"}
  BY DEF Places, InRun
<1>3. CASE /\ rec' = [rec EXCEPT ![r].phase = "unwind", ![r].due = TRUE]
           /\ wpc' = [wpc EXCEPT ![r] = "clear"] /\ UNCHANGED <<again, tries>>
  <2> DEFINE e == [rec[r] EXCEPT !.phase = "unwind", !.due = TRUE]
  <2>1. /\ e \in Rec /\ e.done <= Len(StepsOf[r]) /\ e.state = rec[r].state
    BY <1>0, RecOf DEF Rec, Phases
  <2>2. rec' = [rec EXCEPT ![r] = e]
    BY <1>0, <1>3 DEF RestType
  <2>3. wpc'[r] = "clear"
    BY <1>0, <1>3 DEF RestType
  <2>4. NeedOf(r)'
    BY <2>3 DEF NeedOf
  <2>5. tries' \in [Runs -> Nat]
    BY <1>0, <1>3 DEF RestType
  <2>6. e.state = "live"
    BY <1>1, <2>1 DEF Working
  <2> HIDE DEF e
  <2> QED BY <1>1, <1>2, <1>3, <2>1, <2>2, <2>4, <2>5, <2>6, PassStep
<1>4. CASE Fault(r) /\ Leave(r, TRUE)
  <2>1. /\ wpc' = [wpc EXCEPT ![r] = "left"] /\ again' = again \cup {r}
        /\ tries' = [tries EXCEPT ![r] = @ + 1] /\ rec' = rec
    BY <1>4, Zenon DEF Fault, Leave
  <2>2. tries' \in [Runs -> Nat]
    BY <1>0, <2>1 DEF RestType
  <2>3. rec' = [rec EXCEPT ![r] = rec[r]] /\ rec[r] \in Rec /\ rec[r].done <= Len(StepsOf[r])
    BY <1>0, <2>1, RecOf DEF RestType
  <2>4. NeedOf(r)'
    BY <1>0, <1>1, <2>1 DEF NeedOf, Working, Over, ClassOf
  <2> QED BY <1>1, <1>2, <2>1, <2>2, <2>3, <2>4, PassStep
<1> QED BY <1>3, <1>4 DEF GateCancel

(* The Run is over: its worker leaves for good, and it is in no line. *)
LEMMA GateTerminalStep == ASSUME Inv, NEW r \in Runs, owed[r] = <<>>, GateTerminal(r) PROVE Inv'
<1> DEFINE e == [NoRecord EXCEPT !.state = "terminal"]
<1>0. RestType /\ AtWorkOf(r) /\ NeedOf(r) /\ Books(pool, held)
  BY InvParts
<1>1. /\ UNCHANGED <<pool, held, owed, repoke, signal, late, call, tries, again>>
      /\ wpc[r] \in {"read", "gate"} /\ wpc' = [wpc EXCEPT ![r] = "left"]
      /\ ~Working(r) /\ rec' = [rec EXCEPT ![r] = e]
  BY DEF GateTerminal, Leave, Working
<1>2. e \in Rec /\ e.state = "terminal" /\ e.done <= Len(StepsOf[r])
  <2>1. NoRecord \in Rec /\ NoRecord.done = 0
    BY DEF NoRecord, Rec, Phases
  <2> QED BY <2>1, Lengths DEF Rec
<1> HIDE DEF e
<1>3. wpc' \in [Runs -> Places] /\ wpc'[r] = "left" /\ \A q \in Runs \ {r} : wpc'[q] = wpc[q]
  BY <1>0, <1>1 DEF RestType, Places, InRun
<1>4. /\ rec' \in [Runs -> Rec] /\ \A q \in Runs : rec'[q].done <= Len(StepsOf[q])
      /\ rec'[r] = e /\ \A q \in Runs \ {r} : rec'[q] = rec[q]
  BY <1>0, <1>1, <1>2, RecSet
<1>5. RestType'
  BY <1>0, <1>1, <1>3, <1>4 DEF RestType
<1>6. pool.parked[r] = NoClass
  BY <1>0, <1>1 DEF NeedOf
<1>7. AtWorkOf(r)' /\ NeedOf(r)'
  BY <1>0, <1>1, <1>3, <1>6 DEF AtWorkOf, NeedOf
<1>8. Frame(r)
  BY <1>1, <1>3, <1>4 DEF Frame
<1>9. ASSUME NEW q \in Runs \ {r}, OnItsWay(q) PROVE OnItsWay(q)'
  BY <1>1, <1>3, <1>9 DEF OnItsWay
<1>10. NoTokenIdle'
  <2>1. ASSUME NEW k \in Limited, NEW x, Waking(pool, k, x) PROVE OnItsWay(x)'
    <3>1. x \in Runs /\ pool.parked[x] = k
      BY <1>0, <2>1, HeadParked
    <3>2. x # r
      BY <1>6, <2>1, <3>1, NoClassUnlimited
    <3>3. OnItsWay(x)
      BY <2>1, IdleWaking DEF Inv
    <3> QED BY <1>9, <3>1, <3>2, <3>3
  <2>2. NoTokenIdle' <=> \A k \in Limited : \A x : Waking(pool', k, x) => OnItsWay(x)'
    BY DEF NoTokenIdle, Waking
  <2> QED BY <1>1, <2>1, <2>2
<1>11. NoRunForgotten'
  BY <1>1, <1>2, <1>4, <1>9 DEF Inv, NoRunForgotten
<1> QED BY <1>0, <1>1, <1>5, <1>7, <1>8, <1>10, <1>11, Close

(* A caller's mark on the record, or the clock's. *)
LEMMA MarkStep ==
    ASSUME Inv, NEW r \in Runs,
           UNCHANGED <<pool, wpc, pass, repoke, signal, late, tries>>,
           NEW e \in Rec, rec' = [rec EXCEPT ![r] = e],
           e.state = rec[r].state, e.done = rec[r].done, e.phase = rec[r].phase,
           call' \in [Runs -> {"idle", "wake", "dispatch", "over"}],
           \A q \in Runs : call[q] \in {"wake", "dispatch"} => call'[q] \in {"wake", "dispatch"}
    PROVE  Inv'
<1>0. RestType /\ AtWorkOf(r) /\ NeedOf(r) /\ e.done <= Len(StepsOf[r])
  BY InvParts DEF RestType
<1>1. /\ rec' \in [Runs -> Rec] /\ \A q \in Runs : rec'[q].done <= Len(StepsOf[q])
      /\ rec'[r] = e /\ \A q \in Runs \ {r} : rec'[q] = rec[q]
  BY <1>0, RecSet
<1>2. RestType'
  BY <1>0, <1>1 DEF RestType, pass
<1>3. AtWorkOf(r)' /\ NeedOf(r)'
  BY <1>0, <1>1 DEF AtWorkOf, NeedOf, Working, Over, ClassOf, pass
<1>4. ASSUME NEW q \in Runs, OnItsWay(q) PROVE OnItsWay(q)'
  BY <1>4 DEF OnItsWay, pass
<1> QED BY <1>1, <1>2, <1>3, <1>4, Quiet DEF pass

LEMMA CancelRequestStep == ASSUME Inv, NEW r \in Runs, CancelRequest(r) PROVE Inv'
<1> DEFINE e == [rec[r] EXCEPT !.cancel = TRUE]
<1>0. RestType
  BY InvParts
<1>1. /\ e \in Rec /\ e.state = rec[r].state /\ e.done = rec[r].done /\ e.phase = rec[r].phase
  BY <1>0, RecOf DEF Rec
<1>2. rec' = [rec EXCEPT ![r] = e] /\ UNCHANGED <<pool, wpc, pass, repoke, signal, late, tries>>
  BY <1>0 DEF CancelRequest, RestType
<1>3. /\ call' \in [Runs -> {"idle", "wake", "dispatch", "over"}]
      /\ \A q \in Runs : call[q] \in {"wake", "dispatch"} => call'[q] \in {"wake", "dispatch"}
  BY <1>0 DEF CancelRequest, RestType
<1> HIDE DEF e
<1> QED BY <1>1, <1>2, <1>3, MarkStep

LEMMA ComesDueStep == ASSUME Inv, NEW r \in Runs, ComesDue(r) PROVE Inv'
<1> DEFINE e == [rec[r] EXCEPT !.due = TRUE]
<1>0. RestType
  BY InvParts
<1>1. /\ e \in Rec /\ e.state = rec[r].state /\ e.done = rec[r].done /\ e.phase = rec[r].phase
  BY <1>0, RecOf DEF Rec
<1>2. rec' = [rec EXCEPT ![r] = e] /\ UNCHANGED <<pool, wpc, pass, repoke, signal, late, tries, call>>
  BY <1>0 DEF ComesDue, RestType
<1>3. call' \in [Runs -> {"idle", "wake", "dispatch", "over"}]
  BY <1>0, <1>2 DEF RestType
<1> HIDE DEF e
<1> QED BY <1>1, <1>2, <1>3, MarkStep

(* Wake cuts the delay of a waiting worker. *)
LEMMA CancelWakeStep == ASSUME Inv, NEW r \in Runs, CancelWake(r) PROVE Inv'
<1>0. RestType /\ AtWorkOf(r) /\ NeedOf(r)
  BY InvParts
<1>1. /\ UNCHANGED <<rec, pool, wpc, pass, repoke, late, tries>>
      /\ call[r] = "wake" /\ call' = [call EXCEPT ![r] = "dispatch"]
  BY DEF CancelWake
<1>2. signal' \in [Runs -> {"none", "armed", "fired"}]
  BY <1>0 DEF CancelWake, RestType
<1>3. RestType'
  BY <1>0, <1>1, <1>2 DEF RestType, pass
<1>4. AtWorkOf(r)' /\ NeedOf(r)'
  BY <1>0, <1>1 DEF AtWorkOf, NeedOf, Working, Over, ClassOf, pass
<1>5. ASSUME NEW q \in Runs, OnItsWay(q) PROVE OnItsWay(q)'
  BY <1>0, <1>1, <1>5 DEF OnItsWay, pass, RestType
<1> QED BY <1>1, <1>3, <1>4, <1>5, Quiet DEF pass

(* Schedule and Start: whatever the record says, r is dispatched. *)
LEMMA BeginStep == ASSUME Inv, NEW r \in Runs, Begin(r) PROVE Inv'
<1>0. RestType /\ AtWorkOf(r) /\ NeedOf(r)
  BY InvParts
<1>1. /\ UNCHANGED <<pool, pass, signal, late, call, tries>>
      /\ rec[r].state = "absent" /\ Dispatch(r, r \in Recovered)
  BY DEF Begin
<1>2. PICK e \in Rec : /\ rec' = [rec EXCEPT ![r] = e]
                       /\ e.done <= Len(StepsOf[r])
  <2>1. CASE r \in Recovered
    <3>1. PICK done \in 0..Len(StepsOf[r]), phase \in Phases :
            rec' = [rec EXCEPT ![r] = [@ EXCEPT !.state = "live", !.done = done, !.phase = phase]]
      BY <2>1 DEF Begin
    <3> DEFINE e == [rec[r] EXCEPT !.state = "live", !.done = done, !.phase = phase]
    <3>2. done \in Nat /\ done <= Len(StepsOf[r])
      BY Lengths
    <3>3. e \in Rec /\ e.done <= Len(StepsOf[r])
      BY <1>0, <3>2, RecOf DEF Rec
    <3> QED BY <3>1, <3>3
  <2>2. CASE r \notin Recovered
    <3> DEFINE due == r \notin Delayed
               e == [rec[r] EXCEPT !.state = "live", !.due = due]
    <3>1. rec' = [rec EXCEPT ![r].state = "live", ![r].due = due]
      BY <2>2, Zenon DEF Begin
    <3>2. due \in BOOLEAN
      OBVIOUS
    <3> HIDE DEF due
    <3>3. e \in Rec /\ e.done <= Len(StepsOf[r])
      BY <1>0, <3>2, RecOf DEF Rec
    <3>4. rec' = [rec EXCEPT ![r] = e]
      BY <1>0, <3>1 DEF RestType
    <3> QED BY <3>3, <3>4
  <2> QED BY <2>1, <2>2
<1>3. /\ rec' \in [Runs -> Rec] /\ \A q \in Runs : rec'[q].done <= Len(StepsOf[q])
      /\ \A q \in Runs \ {r} : rec'[q] = rec[q]
  BY <1>0, <1>2, RecSet
<1>4. PICK d \in BOOLEAN : Dispatch(r, d)
  <2>1. CASE r \in Recovered
    <3>1. Dispatch(r, TRUE)
      BY <1>1, <2>1, Zenon DEF Dispatch
    <3> QED BY <3>1
  <2>2. CASE r \notin Recovered
    <3>1. Dispatch(r, FALSE)
      BY <1>1, <2>2, Zenon DEF Dispatch
    <3> QED BY <3>1
  <2> QED BY <2>1, <2>2
<1>5. /\ wpc' \in [Runs -> Places] /\ repoke' \subseteq Runs
      /\ wpc'[r] \notin {"none", "left"} \/ (wpc'[r] = "left" /\ r \in repoke')
      /\ wpc'[r] = wpc[r] \/ (wpc[r] = "none" /\ wpc'[r] \in {"arming", "sem"})
      /\ \A q \in Runs \ {r} : wpc'[q] = wpc[q]
      /\ repoke \subseteq repoke'
  BY <1>0, <1>4, DispatchFacts DEF RestType
<1>6. RestType'
  BY <1>0, <1>1, <1>3, <1>5 DEF RestType, pass
<1>7. wpc[r] \notin {"acquire", "attempt", "clear"} /\ pool.parked[r] = NoClass
  BY <1>0, <1>1 DEF AtWorkOf, NeedOf, Working
<1>8. AtWorkOf(r)' /\ NeedOf(r)'
  BY <1>0, <1>1, <1>5, <1>7 DEF AtWorkOf, NeedOf, pass
<1>9. OnItsWay(r)'
  BY <1>5 DEF OnItsWay
<1>10. ASSUME NEW q \in Runs \ {r}, OnItsWay(q) PROVE OnItsWay(q)'
  BY <1>1, <1>5, <1>10 DEF OnItsWay, pass
<1> QED BY <1>1, <1>3, <1>5, <1>6, <1>8, <1>9, <1>10, Quiet DEF pass

(* A step of r's pass that may change the pool.  Whoever has a claim on a   *)
(* free token afterwards is kicked by it, or had the claim before and is    *)
(* not r.                                                                   *)
LEMMA PoolStep ==
    ASSUME Inv, NEW r \in Runs, owed[r] = <<>>, wpc[r] \notin {"none", "left"},
           UNCHANGED <<repoke, signal, late, call>>,
           NEW pl \in Places \ {"none"}, wpc' = [wpc EXCEPT ![r] = pl],
           again' \in {again, again \cup {r}},
           pl = "left" => r \in again' \/ pool'.parked[r] # NoClass,
           NEW e \in Rec, e.done <= Len(StepsOf[r]), rec' = [rec EXCEPT ![r] = e],
           e.state = rec[r].state, tries' \in [Runs -> Nat],
           Books(pool', held'),
           \A q \in Runs \ {r} : held'[q] = held[q] /\ pool'.parked[q] = pool.parked[q],
           NEW kicks \in Seq(Runs), owed' = [owed EXCEPT ![r] = kicks],
           \A c \in Limited : \A x : Waking(pool', c, x) =>
                x \in Members(kicks) \/ (Waking(pool, c, x) /\ (x = r => pl # "left" \/ r \in again')),
           AtWorkOf(r)', NeedOf(r)'
    PROVE  Inv'
<1>0. RestType
  BY InvParts
<1>1. wpc' \in [Runs -> Places] /\ wpc'[r] = pl /\ \A q \in Runs \ {r} : wpc'[q] = wpc[q]
  BY <1>0 DEF RestType
<1>2. /\ rec' \in [Runs -> Rec] /\ \A q \in Runs : rec'[q].done <= Len(StepsOf[q])
      /\ rec'[r] = e /\ \A q \in Runs \ {r} : rec'[q] = rec[q]
  BY <1>0, RecSet
<1>3. /\ owed' \in [Runs -> Seq(Runs)] /\ owed'[r] = kicks
      /\ \A q \in Runs \ {r} : owed'[q] = owed[q]
  BY <1>0 DEF RestType
<1>4. RestType'
  BY <1>0, <1>1, <1>2, <1>3 DEF RestType
<1>5. Frame(r)
  BY <1>1, <1>2 DEF Frame
<1>6. pl # "left" \/ r \in again' => OnItsWay(r)'
  BY <1>1 DEF OnItsWay
<1>7. ASSUME NEW q \in Runs \ {r}, OnItsWay(q) PROVE OnItsWay(q)'
  <2>1. q \notin Members(owed[r])
    BY Line0
  <2>2. ASSUME NEW z \in Runs, q \in Members(owed[z]) PROVE q \in Members(owed'[z])
    BY <1>3, <2>1, <2>2
  <2> QED BY <1>1, <1>7, <2>2 DEF OnItsWay
<1>8. ASSUME NEW q \in Members(kicks) PROVE OnItsWay(q)'
  BY <1>3, <1>8 DEF OnItsWay
<1>9. NoTokenIdle'
  <2>1. ASSUME NEW c \in Limited, NEW x, Waking(pool', c, x) PROVE OnItsWay(x)'
    <3>1. CASE x \in Members(kicks)
      BY <1>8, <3>1
    <3>2. CASE Waking(pool, c, x) /\ (x = r => pl # "left" \/ r \in again')
      <4>1. x \in Runs
        BY <3>2, HeadParked DEF Inv
      <4>2. OnItsWay(x)
        BY <3>2, IdleWaking DEF Inv
      <4> QED BY <1>6, <1>7, <3>2, <4>1, <4>2
    <3> QED BY <2>1, <3>1, <3>2
  <2>2. NoTokenIdle' <=> \A k \in Limited : \A x : Waking(pool', k, x) => OnItsWay(x)'
    BY DEF NoTokenIdle, Waking
  <2> QED BY <2>1, <2>2
<1>10. NoRunForgotten'
  <2>1. ASSUME NEW q \in Runs \ {r}, rec'[q].state = "live"
        PROVE  OnItsWay(q)' \/ pool'.parked[q] # NoClass
    BY <1>2, <1>7, <2>1 DEF Inv, NoRunForgotten
  <2>2. OnItsWay(r)' \/ pool'.parked[r] # NoClass
    BY <1>6
  <2> QED BY <2>1, <2>2 DEF NoRunForgotten
<1> QED BY <1>4, <1>5, <1>9, <1>10, Close

LEMMA AcquireClassStep == ASSUME Inv, NEW r \in Runs, owed[r] = <<>>, AcquireClass(r) PROVE Inv'
<1>0. RestType /\ AtWorkOf(r) /\ NeedOf(r) /\ Books(pool, held)
  BY InvParts
<1>1. PICK k : k = ClassOf(r)
  OBVIOUS
<1>2. /\ wpc[r] = "acquire" /\ UNCHANGED <<rec, repoke, signal, late, call, tries>>
      /\ pool' = Acquire(pool, k, r)
      /\ owed' = [owed EXCEPT ![r] = AcquireKicks(pool, k, r)]
      /\ Granted(pool, k) => /\ wpc' = [wpc EXCEPT ![r] = "attempt"] /\ again' = again
                             /\ held' = [held EXCEPT ![r] = IF k \in Limited THEN k ELSE NoClass]
      /\ ~Granted(pool, k) => wpc' = [wpc EXCEPT ![r] = "left"] /\ again' = again /\ held' = held
  BY <1>1, Zenon DEF AcquireClass, Leave
<1>3. Working(r) /\ held[r] = NoClass /\ pool.parked[r] \in {k, NoClass}
  BY <1>0, <1>1, <1>2 DEF AtWorkOf, NeedOf
<1> DEFINE g == Taken(pool, held, k, r)
           kicks == AcquireKicks(pool, k, r)
<1>4. /\ Books(pool', g)
      /\ \A q \in Runs \ {r} : pool'.parked[q] = pool.parked[q]
      /\ Granted(pool, k) => pool'.parked[r] = NoClass
      /\ ~Granted(pool, k) => pool'.parked[r] = k /\ k \in Limited
      /\ kicks \in Seq(Runs)
      /\ \A c \in Limited : \A x : Waking(pool', c, x) =>
            x \in Members(kicks) \/ (Waking(pool, c, x) /\ x # r)
  BY <1>0, <1>2, <1>3, AcquireBooks
<1> HIDE DEF kicks
<1>5. held' = g
  <2>1. CASE k \in Limited /\ Free(pool, k)
    <3>1. Granted(pool, k)
      BY <2>1 DEF Granted
    <3>2. held' = [held EXCEPT ![r] = k]
      BY <1>2, <2>1, <3>1, Zenon
    <3> QED BY <2>1, <3>2, Zenon DEF Taken
  <2>2. CASE k \notin Limited
    <3>1. Granted(pool, k)
      BY <2>2 DEF Granted
    <3>2. held' = [held EXCEPT ![r] = NoClass]
      BY <1>2, <2>2, <3>1, Zenon
    <3>3. held' = held
      BY <1>0, <1>3, <3>2 DEF Books
    <3> QED BY <2>2, <3>3, Zenon DEF Taken
  <2>3. CASE k \in Limited /\ ~Free(pool, k)
    BY <1>2, <2>3, Zenon DEF Granted, Taken
  <2> QED BY <2>1, <2>2, <2>3
<1>6. Books(pool', held') /\ \A q \in Runs \ {r} : held'[q] = held[q]
  <2>1. \A q \in Runs \ {r} : g[q] = held[q]
    BY <1>0 DEF Books, Taken
  <2> HIDE DEF g
  <2> QED BY <1>4, <1>5, <2>1
<1> HIDE DEF g
<1>7. rec' = [rec EXCEPT ![r] = rec[r]] /\ rec[r] \in Rec /\ rec[r].done <= Len(StepsOf[r])
  BY <1>0, <1>2, RecOf DEF RestType
<1>8. tries' \in [Runs -> Nat]
  BY <1>0, <1>2 DEF RestType
<1>9. Working(r)' /\ ClassOf(r)' = k
  BY <1>1, <1>2, <1>3 DEF Working, Over, ClassOf
<1>10. "attempt" \in Places \ {"none"} /\ "left" \in Places \ {"none"}
  BY DEF Places, InRun
<1>11. owed' = [owed EXCEPT ![r] = kicks]
  BY <1>2 DEF kicks
<1>12. CASE Granted(pool, k)
  <2>1. wpc'[r] = "attempt"
    BY <1>0, <1>2, <1>12 DEF RestType
  <2>2. AtWorkOf(r)' /\ NeedOf(r)'
    BY <1>4, <1>9, <1>12, <2>1 DEF AtWorkOf, NeedOf
  <2>3. \A c \in Limited : \A x : Waking(pool', c, x) =>
            x \in Members(kicks) \/ (Waking(pool, c, x) /\ (x = r => "attempt" # "left" \/ r \in again'))
    BY <1>4
  <2> QED BY <1>2, <1>4, <1>6, <1>7, <1>8, <1>10, <1>11, <1>12, <2>2, <2>3, PoolStep
<1>13. CASE ~Granted(pool, k)
  <2>1. wpc'[r] = "left" /\ held'[r] = NoClass
    BY <1>0, <1>2, <1>3, <1>13 DEF RestType
  <2>2. AtWorkOf(r)' /\ NeedOf(r)' /\ pool'.parked[r] # NoClass
    BY <1>4, <1>9, <1>13, <2>1, NoClassUnlimited DEF AtWorkOf, NeedOf
  <2>3. \A c \in Limited : \A x : Waking(pool', c, x) =>
            x \in Members(kicks) \/ (Waking(pool, c, x) /\ (x = r => "left" # "left" \/ r \in again'))
    BY <1>4
  <2> QED BY <1>2, <1>4, <1>6, <1>7, <1>8, <1>10, <1>11, <1>13, <2>2, <2>3, PoolStep
<1> QED BY <1>12, <1>13

LEMMA ClearClassWaitStep == ASSUME Inv, NEW r \in Runs, owed[r] = <<>>, ClearClassWait(r) PROVE Inv'
<1>0. RestType /\ AtWorkOf(r) /\ Books(pool, held)
  BY InvParts
<1> DEFINE kicks == UnparkKicks(pool, r)
<1>1. /\ wpc[r] = "clear" /\ UNCHANGED <<rec, again, held, repoke, signal, late, call, tries>>
      /\ pool' = Unpark(pool, r) /\ owed' = [owed EXCEPT ![r] = kicks]
      /\ wpc' = [wpc EXCEPT ![r] = "gate"]
  BY DEF ClearClassWait
<1>2. /\ Books(pool', held') /\ pool'.parked = [pool.parked EXCEPT ![r] = NoClass]
  BY <1>0, <1>1, UnparkBooks
<1>3. /\ kicks \in Seq(Runs)
      /\ \A k \in Limited : \A x : Waking(pool', k, x) => x \in Members(kicks) \/ Waking(pool, k, x)
  BY <1>0, <1>1, UnparkWakes
<1> HIDE DEF kicks
<1>4. pool'.parked[r] = NoClass /\ \A q \in Runs \ {r} : pool'.parked[q] = pool.parked[q]
  <2>1. pool.parked \in [Runs -> Limited \cup {NoClass}]
    BY <1>0 DEF Books, PoolType
  <2> QED BY <1>2, <2>1
<1>5. rec' = [rec EXCEPT ![r] = rec[r]] /\ rec[r] \in Rec /\ rec[r].done <= Len(StepsOf[r])
  BY <1>0, <1>1, RecOf DEF RestType
<1>6. tries' \in [Runs -> Nat] /\ wpc'[r] = "gate"
  BY <1>0, <1>1 DEF RestType
<1>7. AtWorkOf(r)' /\ NeedOf(r)'
  BY <1>0, <1>1, <1>4, <1>6 DEF AtWorkOf, NeedOf
<1>8. "gate" \in Places \ {"none"}
  BY DEF Places, InRun
<1>9. \A c \in Limited : \A x : Waking(pool', c, x) =>
            x \in Members(kicks) \/ (Waking(pool, c, x) /\ (x = r => "gate" # "left" \/ r \in again'))
  BY <1>3
<1> QED BY <1>1, <1>2, <1>3, <1>4, <1>5, <1>6, <1>7, <1>8, <1>9, PoolStep

(* What an attempt comes to, whichever way it ends. *)
LEMMA AttemptFacts ==
    ASSUME Inv, NEW r \in Runs, Attempt(r)
    PROVE  /\ \E e \in Rec : /\ rec' = [rec EXCEPT ![r] = e] /\ e.state = rec[r].state
                             /\ e.done <= Len(StepsOf[r])
           /\ tries' \in [Runs -> Nat] /\ ReleaseClass(r)
           /\ \/ wpc' = [wpc EXCEPT ![r] = "gate"] /\ again' = again
              \/ wpc' = [wpc EXCEPT ![r] = "left"] /\ again' = again \cup {r}
           /\ wpc[r] = "attempt" /\ UNCHANGED <<repoke, signal, late, call>>
<1>0. RestType /\ AtWorkOf(r)
  BY InvParts
<1>1. wpc[r] = "attempt" /\ UNCHANGED <<repoke, signal, late, call>> /\ ReleaseClass(r)
  BY DEF Attempt
<1>2. tries' \in [Runs -> Nat]
  <2>1. tries' = tries \/ tries' = [tries EXCEPT ![r] = @ + 1]
    BY DEF Attempt, Fault
  <2>2. tries \in [Runs -> Nat]
    BY <1>0 DEF RestType
  <2> QED BY <2>1, <2>2
<1>3. \/ wpc' = [wpc EXCEPT ![r] = "gate"] /\ again' = again
      \/ wpc' = [wpc EXCEPT ![r] = "left"] /\ again' = again \cup {r}
  BY Zenon DEF Attempt, Round, Leave
<1>4. /\ rec[r] \in Rec /\ rec[r].done \in Nat /\ rec[r].done <= Len(StepsOf[r])
      /\ rec[r].phase \in Phases /\ Len(StepsOf[r]) \in Nat /\ rec \in [Runs -> Rec]
  BY <1>0, RecOf, Lengths DEF RestType
<1>5. \E e \in Rec : /\ rec' = [rec EXCEPT ![r] = e] /\ e.state = rec[r].state
                     /\ e.done <= Len(StepsOf[r])
  <2>1. CASE rec' = [rec EXCEPT ![r].done = Resolved(r)]
    <3> DEFINE n == Resolved(r)
               e == [rec[r] EXCEPT !.done = n]
    <3>1. n \in Nat /\ n <= Len(StepsOf[r])
      <4>1. ~Over(r)
        BY <1>0, <1>1 DEF AtWorkOf, Working
      <4>2. CASE rec[r].phase = "forward"
        BY <1>4, <4>1, <4>2 DEF Over, Resolved
      <4>3. CASE rec[r].phase # "forward"
        BY <1>4, <4>1, <4>3 DEF Over, Resolved
      <4> QED BY <4>2, <4>3
    <3> HIDE DEF n
    <3>2. e \in Rec /\ e.state = rec[r].state /\ e.done <= Len(StepsOf[r])
      BY <1>4, <3>1 DEF Rec
    <3>3. rec' = [rec EXCEPT ![r] = e]
      BY <1>4, <2>1 DEF n
    <3> QED BY <3>2, <3>3
  <2>2. CASE rec' = [rec EXCEPT ![r].phase = "unwind"]
    <3> DEFINE e == [rec[r] EXCEPT !.phase = "unwind"]
    <3>1. e \in Rec /\ e.state = rec[r].state /\ e.done <= Len(StepsOf[r])
      BY <1>4 DEF Rec, Phases
    <3>2. rec' = [rec EXCEPT ![r] = e]
      BY <1>4, <2>2
    <3> QED BY <3>1, <3>2
  <2>3. CASE rec' = [rec EXCEPT ![r].due = FALSE]
    <3> DEFINE e == [rec[r] EXCEPT !.due = FALSE]
    <3>1. e \in Rec /\ e.state = rec[r].state /\ e.done <= Len(StepsOf[r])
      BY <1>4 DEF Rec
    <3>2. rec' = [rec EXCEPT ![r] = e]
      BY <1>4, <2>3
    <3> QED BY <3>1, <3>2
  <2>4. CASE rec' = rec
    <3>1. rec' = [rec EXCEPT ![r] = rec[r]]
      BY <1>4, <2>4
    <3> QED BY <1>4, <3>1
  <2> QED BY <2>1, <2>2, <2>3, <2>4, Zenon DEF Attempt, Fault
<1> QED BY <1>1, <1>2, <1>3, <1>5

(* The token goes back, and whoever may use it is kicked. *)
LEMMA ReleaseClassFacts ==
    ASSUME RestType, Books(pool, held), NEW r \in Runs, owed[r] = <<>>, ReleaseClass(r)
    PROVE  /\ Books(pool', held') /\ pool'.parked = pool.parked /\ held'[r] = NoClass
           /\ \A q \in Runs \ {r} : held'[q] = held[q]
           /\ \E kicks \in Seq(Runs) :
                /\ owed' = [owed EXCEPT ![r] = kicks]
                /\ \A c \in Limited : \A x : Waking(pool', c, x) =>
                     x \in Members(kicks) \/ Waking(pool, c, x)
<1>0. held \in [Runs -> Limited \cup {NoClass}] /\ held' = [held EXCEPT ![r] = NoClass]
  BY DEF Books, ReleaseClass
<1>1. held'[r] = NoClass /\ \A q \in Runs \ {r} : held'[q] = held[q]
  BY <1>0
<1>2. CASE held[r] = NoClass
  <2>1. pool' = pool /\ owed' = owed
    BY <1>2 DEF ReleaseClass
  <2>2. held' = held
    BY <1>0, <1>2
  <2>3. owed' = [owed EXCEPT ![r] = <<>>] /\ <<>> \in Seq(Runs)
    BY <2>1 DEF RestType
  <2> QED BY <1>1, <2>1, <2>2, <2>3
<1>3. CASE held[r] # NoClass
  <2> DEFINE k == held[r]
             kicks == ReleaseKicks(pool, k)
  <2>1. k \in Limited /\ pool' = Release(pool, k) /\ owed' = [owed EXCEPT ![r] = kicks]
    BY <1>0, <1>3 DEF ReleaseClass
  <2>2. /\ Books(pool', held') /\ pool'.parked = pool.parked /\ pool'.waiters = pool.waiters
        /\ pool'.inUse = [pool.inUse EXCEPT ![k] = @ - 1]
    <3>1. /\ Books(Release(pool, k), [held EXCEPT ![r] = NoClass])
          /\ Release(pool, k).parked = pool.parked /\ Release(pool, k).waiters = pool.waiters
          /\ Release(pool, k).inUse = [pool.inUse EXCEPT ![k] = @ - 1]
      BY <2>1, ReleaseBooks
    <3> QED BY <1>0, <2>1, <3>1, Zenon
  <2>3. pool' \in PoolType /\ kicks = NextWaiter(pool', k)
    BY <2>1, <2>2 DEF Books, ReleaseKicks
  <2> HIDE DEF kicks, k
  <2>4. kicks \in Seq(Runs) /\ \A x : Waking(pool', k, x) => x \in Members(kicks)
    BY <2>1, <2>3, NextWaiterWakes
  <2>5. ASSUME NEW c \in Limited, NEW x, Waking(pool', c, x), c # k PROVE Waking(pool, c, x)
    <3>1. pool.inUse \in [Limited -> Int]
      BY DEF Books, PoolType
    <3>2. pool'.inUse[c] = pool.inUse[c]
      BY <2>2, <2>5, <3>1
    <3> QED BY <2>2, <2>5, <3>2 DEF Waking, Free
  <2> QED BY <1>1, <2>1, <2>2, <2>4, <2>5
<1> QED BY <1>2, <1>3

LEMMA AttemptStep == ASSUME Inv, NEW r \in Runs, owed[r] = <<>>, Attempt(r) PROVE Inv'
<1>0. RestType /\ AtWorkOf(r) /\ Books(pool, held)
  BY InvParts
<1>1. /\ tries' \in [Runs -> Nat] /\ ReleaseClass(r)
      /\ \/ wpc' = [wpc EXCEPT ![r] = "gate"] /\ again' = again
         \/ wpc' = [wpc EXCEPT ![r] = "left"] /\ again' = again \cup {r}
      /\ wpc[r] = "attempt" /\ UNCHANGED <<repoke, signal, late, call>>
  BY AttemptFacts
<1>2. PICK e \in Rec : /\ rec' = [rec EXCEPT ![r] = e] /\ e.state = rec[r].state
                       /\ e.done <= Len(StepsOf[r])
  BY AttemptFacts
<1>3. /\ Books(pool', held') /\ pool'.parked = pool.parked /\ held'[r] = NoClass
      /\ \A q \in Runs \ {r} : held'[q] = held[q]
  BY <1>0, <1>1, ReleaseClassFacts
<1>4. PICK kicks \in Seq(Runs) :
        /\ owed' = [owed EXCEPT ![r] = kicks]
        /\ \A c \in Limited : \A x : Waking(pool', c, x) =>
             x \in Members(kicks) \/ Waking(pool, c, x)
  BY <1>0, <1>1, ReleaseClassFacts
<1>5. PICK pl \in {"gate", "left"} :
        /\ wpc' = [wpc EXCEPT ![r] = pl] /\ again' \in {again, again \cup {r}}
        /\ pl = "left" => r \in again'
  BY <1>1
<1>6. wpc'[r] = pl
  BY <1>0, <1>5 DEF RestType
<1>7. AtWorkOf(r)' /\ NeedOf(r)'
  BY <1>0, <1>1, <1>3, <1>6 DEF AtWorkOf, NeedOf
<1>8. pl \in Places \ {"none"}
  BY DEF Places, InRun
<1> QED BY <1>1, <1>2, <1>3, <1>4, <1>5, <1>7, <1>8, PoolStep
-----------------------------------------------------------------------------
LEMMA InitInv == Init => Inv
<1> SUFFICES ASSUME Init PROVE Inv
  OBVIOUS
<1>1. Books(pool, held)
  BY NewBooks DEF Init
<1>2. RestType
  <2>1. NoRecord \in Rec /\ NoRecord.done = 0
    BY DEF NoRecord, Rec, Phases
  <2>2. \A r \in Runs : NoRecord.done <= Len(StepsOf[r])
    BY <2>1, Lengths
  <2>3. rec \in [Runs -> Rec] /\ \A r \in Runs : rec[r].done <= Len(StepsOf[r])
    BY <2>1, <2>2 DEF Init
  <2>4. late \in [Runs -> [now : Nat, later : Nat]]
    BY DEF Init
  <2> QED BY <2>3, <2>4 DEF Init, RestType, Places
<1>3. TypeOK
  BY <1>1, <1>2, TypeParts
<1>4. \A r \in Runs : wpc[r] = "none" /\ held[r] = NoClass /\ pool.parked[r] = NoClass /\ rec[r].state = "absent"
  BY DEF Init, NewPool, NoRecord
<1>5. AtWork /\ WaitersNeedTheClass /\ NoRunForgotten
  BY <1>4 DEF AtWork, AtWorkOf, WaitersNeedTheClass, NoRunForgotten
<1>6. NoTokenIdle
  BY DEF Init, NewPool, NoTokenIdle
<1> QED BY <1>1, <1>3, <1>5, <1>6 DEF Inv

LEMMA StepInv == Inv /\ [Next]_vars => Inv'
<1> SUFFICES ASSUME Inv, [Next]_vars PROVE Inv'
  OBVIOUS
<1>1. CASE UNCHANGED vars
  BY <1>1 DEF Inv, vars, pass, TypeOK, AtWork, AtWorkOf, WaitersNeedTheClass, NoTokenIdle,
              NoRunForgotten, OnItsWay, Working, Over, ClassOf
<1>2. ASSUME NEW r \in Runs, Begin(r) \/ CancelRequest(r) \/ Canceler(r) \/ ComesDue(r) PROVE Inv'
  BY <1>2, BeginStep, CancelRequestStep, CancelWakeStep, CancelDispatchStep, ComesDueStep DEF Canceler
<1>3. ASSUME NEW r \in Runs, Worker(r) PROVE Inv'
  <2>1. CASE Arm(r) \/ TimerFires(r) \/ Woken(r) \/ Enter(r) \/ Redispatch(r) \/ DeliverKick(r)
    BY <2>1, WaitingSteps, RedispatchStep, DeliverKickStep
  <2>2. CASE owed[r] = <<>> /\ (ClearActive(r) \/ ReadFails(r) \/ GateTerminal(r) \/ GateCancel(r))
    BY <2>2, ClearActiveStep, ReadFailsStep, GateTerminalStep, GateCancelStep
  <2>3. CASE owed[r] = <<>> /\ (GateRetry(r) \/ AcquireClass(r) \/ Attempt(r) \/ ClearClassWait(r))
    BY <2>3, GateRetryStep, AcquireClassStep, AttemptStep, ClearClassWaitStep
  <2> QED BY <1>3, <2>1, <2>2, <2>3 DEF Worker
<1>4. CASE Rest
  BY <1>1, <1>4 DEF Rest
<1> QED BY <1>1, <1>2, <1>3, <1>4 DEF Next

LEMMA Invariant == Spec => []Inv
BY InitInv, StepInv, PTL DEF Spec

(* tokenpool and acquireClass: the tokens out are those that attempts hold,  *)
(* never more than the capacity, the lines hold each waiting Run once, and   *)
(* every one of them still needs its class or is about to leave.             *)
THEOREM PoolSoundAlways == Spec => []PoolSound
<1>1. Inv => PoolSound
  <2> SUFFICES ASSUME Inv PROVE TokensAccounted
    BY DEF Inv, PoolSound
  <2> SUFFICES ASSUME NEW k \in Limited
               PROVE  /\ pool.inUse[k] = Cardinality({r \in Runs : held[r] = k})
                      /\ pool.inUse[k] <= Capacity[k]
                      /\ Members(pool.waiters[k]) = {r \in Runs : pool.parked[r] = k}
                      /\ Len(pool.waiters[k]) = Cardinality(Members(pool.waiters[k]))
                      /\ \A r \in Members(pool.waiters[k]) : held[r] = NoClass
    BY DEF TokensAccounted
  <2>1. /\ pool.inUse[k] = Cardinality(HeldBy(held, k))
        /\ pool.inUse[k] <= Capacity[k]
        /\ Distinct(pool.waiters[k])
        /\ Members(pool.waiters[k]) = {r \in Runs : pool.parked[r] = k}
        /\ pool.waiters[k] \in Seq(Runs)
    BY DEF Inv, Books, PoolType
  <2>2. Len(pool.waiters[k]) = Cardinality(Members(pool.waiters[k]))
    BY <2>1, LineLength
  <2>3. ASSUME NEW r \in Members(pool.waiters[k]) PROVE held[r] = NoClass
    BY <2>1, <2>3, NoClassUnlimited DEF Inv, AtWork, AtWorkOf
  <2> QED BY <2>1, <2>2, <2>3 DEF HeldBy
<1> QED BY <1>1, Invariant, PTL

(* tokenpool's kicks: while a token is free and a Run waits for it, the head *)
(* of the line is on its way to ask, in every order of releases, cancels,    *)
(* refusals and re-pokes.                                                    *)
THEOREM NoTokenIdleAlways == Spec => []NoTokenIdle
<1>1. Inv => NoTokenIdle
  BY DEF Inv
<1> QED BY <1>1, Invariant, PTL

(* dispatcher: a Run that is not over has a pass to come or a place in line. *)
THEOREM NoRunForgottenAlways == Spec => []NoRunForgotten
<1>1. Inv => NoRunForgotten
  BY DEF Inv
<1> QED BY <1>1, Invariant, PTL
=============================================================================
