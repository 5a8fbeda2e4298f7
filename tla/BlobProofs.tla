----------------------------- MODULE BlobProofs -----------------------------
(***************************************************************************)
(* A read of the bbolt store returns the blobs of its snapshot, for any     *)
(* Runs, Steps, readers, blobs and limits of the two caches, and a cached   *)
(* blob of a Run in the file is the file's.  What makes it true is that a   *)
(* slot of a Run is written once: everyone who has a blob of it, in the     *)
(* file, in the open transaction, in a cache, in a snapshot or on the way   *)
(* to a cache, has the same.  The one way out, a read inside a transaction  *)
(* that is then rolled back, is in the statements: ahead has its blobs.     *)
(* The caches also account for exactly what they hold and stay within their *)
(* limits: each method keeps the sum that a cache's size is, and evict      *)
(* always finds entries enough to let go.                                   *)
(***************************************************************************)
EXTENDS BlobReads, FiniteSetTheorems, WellFoundedInduction, TLAPS

-----------------------------------------------------------------------------
(* The methods of a cache.  The bytes do not matter here: whatever evict    *)
(* decides, an entry is kept or emptied.                                    *)

IsCache(c) ==
    /\ DOMAIN c = {"order", "entry", "bytes", "size", "limit"}
    /\ c.entry \in [Runs -> Content]

\* Every blob of d was in c, or is the one of b and in r's entry.
Within(d, c, r, b) ==
    /\ IsCache(d)
    /\ \A q \in Runs : \A x \in Slots :
         \/ d.entry[q][x] \in {NoBlob, c.entry[q][x]}
         \/ q = r /\ d.entry[q][x] = b[x]

Only(x, v) == [y \in Slots |-> IF y = x THEN v ELSE NoBlob]

\* An empty entry is an entry.
LEMMA EmptyContent == Empty \in Content /\ \A x \in Slots : Empty[x] = NoBlob
BY DEF Empty, Content

\* A cache that is as it was.
LEMMA SameCache ==
    ASSUME NEW c, IsCache(c), NEW r, NEW b
    PROVE  Within(c, c, r, b)
BY DEF Within

\* newBlobCache: nothing is cached.
LEMMA NewIsCache ==
    ASSUME NEW limit
    PROVE  /\ IsCache(NewCache(limit))
           /\ \A r \in Runs : \A x \in Slots : NewCache(limit).entry[r][x] = NoBlob
BY EmptyContent DEF IsCache, NewCache

\* touch and lookup only move an entry.
LEMMA Touched ==
    ASSUME NEW c, IsCache(c), NEW r
    PROVE  /\ IsCache(Touch(c, r)) /\ Touch(c, r).entry = c.entry
           /\ Within(Lookup(c, r), c, r, Empty)
<1>1. IsCache(Touch(c, r)) /\ Touch(c, r).entry = c.entry
  BY DEF IsCache, Touch
<1> QED BY <1>1 DEF Lookup, Within

\* drop empties one entry.
LEMMA Dropped ==
    ASSUME NEW c, IsCache(c), NEW r
    PROVE  Within(Drop(c, r), c, r, Empty)
<1>1. CASE ~Cached(c, r)
  BY <1>1 DEF Drop, Within
<1>2. CASE Cached(c, r)
  <2>1. IsCache(Drop(c, r)) /\ Drop(c, r).entry = [c.entry EXCEPT ![r] = Empty]
    BY <1>2, EmptyContent DEF IsCache, Drop
  <2> QED BY <2>1, EmptyContent DEF IsCache, Within
<1> QED BY <1>1, <1>2

\* remove, for however many entries: each is kept or emptied.
LEMMA Kept ==
    ASSUME NEW c, IsCache(c), NEW n
    PROVE  /\ IsCache(KeepFirst(c, n))
           /\ \A q \in Runs : \A x \in Slots :
                KeepFirst(c, n).entry[q][x] \in {NoBlob, c.entry[q][x]}
<1> DEFINE out == {c.order[i] : i \in n+1..Len(c.order)}
           kept == [q \in Runs |-> IF q \in out THEN Empty ELSE c.entry[q]]
<1>1. DOMAIN KeepFirst(c, n) = DOMAIN c /\ KeepFirst(c, n).entry = kept
  BY DEF IsCache, KeepFirst, Others
<1>2. kept \in [Runs -> Content]
  BY EmptyContent DEF IsCache
<1>3. \A q \in Runs : \A x \in Slots : kept[q][x] \in {NoBlob, c.entry[q][x]}
  BY EmptyContent
<1> HIDE DEF kept
<1> QED BY <1>1, <1>2, <1>3 DEF IsCache

\* setInput, setOutput and setState add the blob they are given, or nothing.
LEMMA SetWithin ==
    ASSUME NEW c, IsCache(c), NEW r \in Runs, NEW x \in Slots, NEW v \in Blobs \cup {NoBlob}
    PROVE  Within(Set(c, r, x, v), c, r, Only(x, v))
<1>1. CASE c.limit = 0 \/ (v = NoBlob /\ x \notin Steps)
  BY <1>1, SameCache DEF Set
<1>2. CASE ~(c.limit = 0 \/ (v = NoBlob /\ x \notin Steps))
  <2> DEFINE t == Touch(c, r)
             more == Bytes[v] - Bytes[t.entry[r][x]]
             s == [t EXCEPT !.entry[r][x] = v, !.bytes[r] = @ + more, !.size = @ + more]
  <2>1. IsCache(t) /\ t.entry = c.entry
    BY Touched
  <2>2. Set(c, r, x, v) = IF v = NoBlob THEN s ELSE Evict(s)
    BY <1>2 DEF Set
  <2> HIDE DEF t, more
  <2>3. DOMAIN s = DOMAIN t /\ s.entry = [c.entry EXCEPT ![r][x] = v]
    <3>1. DOMAIN s = DOMAIN t
      OBVIOUS
    <3>2. "entry" \in DOMAIN t
      BY <2>1 DEF IsCache
    <3>3. s.entry = [t.entry EXCEPT ![r][x] = v]
      BY <3>2
    <3> QED BY <2>1, <3>1, <3>3
  <2> HIDE DEF s
  <2>4. s.entry \in [Runs -> Content]
    BY <2>3 DEF IsCache, Content
  <2>5. \A q \in Runs : \A y \in Slots :
          s.entry[q][y] = IF q = r /\ y = x THEN v ELSE c.entry[q][y]
    BY <2>3 DEF IsCache, Content
  <2>6. IsCache(s)
    BY <2>1, <2>3, <2>4 DEF IsCache
  <2>7. IsCache(Evict(s)) /\ \A q \in Runs : \A y \in Slots :
          Evict(s).entry[q][y] \in {NoBlob, s.entry[q][y]}
    BY <2>6, Kept DEF Evict
  <2> QED BY <2>2, <2>5, <2>6, <2>7 DEF Within, Only
<1> QED BY <1>1, <1>2

\* fill adds what it is given, or nothing.
LEMMA FillWithin ==
    ASSUME NEW c, IsCache(c), NEW r \in Runs, NEW b \in Content
    PROVE  Within(Fill(c, r, b), c, r, b)
<1>1. CASE BytesOf(b) = 0 \/ c.limit = 0 \/ Cached(c, r)
  BY <1>1, SameCache DEF Fill
<1>2. CASE ~(BytesOf(b) = 0 \/ c.limit = 0 \/ Cached(c, r))
  <2> DEFINE t == Touch(c, r)
             s == [t EXCEPT !.entry[r] = b, !.bytes[r] = BytesOf(b), !.size = @ + BytesOf(b)]
  <2>1. IsCache(t) /\ t.entry = c.entry
    BY Touched
  <2>2. Fill(c, r, b) = Evict(s)
    BY <1>2 DEF Fill
  <2> HIDE DEF t
  <2>3. DOMAIN s = DOMAIN t /\ s.entry = [c.entry EXCEPT ![r] = b]
    BY <2>1 DEF IsCache
  <2>4. IsCache(s)
    BY <2>1, <2>3 DEF IsCache
  <2> HIDE DEF s
  <2>5. IsCache(Evict(s)) /\ \A q \in Runs : \A y \in Slots :
          Evict(s).entry[q][y] \in {NoBlob, s.entry[q][y]}
    BY <2>4, Kept DEF Evict
  <2>6. \A q \in Runs : \A y \in Slots :
          s.entry[q][y] = IF q = r THEN b[y] ELSE c.entry[q][y]
    BY <2>3 DEF IsCache
  <2> QED BY <2>2, <2>5, <2>6 DEF Within
<1> QED BY <1>1, <1>2

-----------------------------------------------------------------------------
(* The inductive invariant.                                                 *)

Types ==
    /\ file \in Rows /\ draft \in Rows /\ open \subseteq Runs /\ inside \subseteq Readers
    /\ IsCache(blobs) /\ IsCache(outputs)
    /\ todo \in [Runs -> Seq(Call)]
    /\ reaping \in Runs \cup {NoRun}
    /\ peeked \subseteq Runs \X Slots /\ ahead \subseteq Runs \X Slots

ReadTypes ==
    /\ rpc \in [Readers -> {"idle", "input", "states", "output", "fill", "done"}]
    /\ run \in [Readers -> Runs \cup {NoRun}]
    /\ snap \in [Readers -> Content] /\ got \in [Readers -> Content]
    /\ left \in [Readers -> SUBSET Steps] /\ took \in [Readers -> SUBSET Slots]
    /\ \A k \in Readers : rpc[k] # "idle" => run[k] \in Runs

\* v is the blob that Run r has in slot x for somebody who is not in the open
\* transaction: the file, a cache, the snapshot of a read outside it, or a call
\* that a write still owes to a cache after its commit.
Held(r, x, v) ==
    /\ v # NoBlob
    /\ \/ v = file[r].blob[x]
       \/ v = blobs.entry[r][x]
       \/ v = outputs.entry[r][x]
       \/ \E k \in Readers \ inside : rpc[k] # "idle" /\ run[k] = r /\ v = snap[k][x]
       \/ r \notin open /\ \E i \in DOMAIN todo[r] : todo[r][i].slot = x /\ v = todo[r][i].blob

\* The same for anybody, the transaction and the reads and writes in it too.
Claim(r, x, v) ==
    \/ Held(r, x, v)
    \/ /\ v # NoBlob
       /\ \/ v = draft[r].blob[x]
          \/ \E k \in Readers : rpc[k] # "idle" /\ run[k] = r /\ v = snap[k][x]
          \/ \E i \in DOMAIN todo[r] : todo[r][i].slot = x /\ v = todo[r][i].blob

\* All who have a blob of a slot have the same one, also after the Run is gone,
\* unless a transaction that was rolled back left one in a cache.
OneValue == \A r \in Runs : \A x \in Slots : \A v, w :
    <<r, x>> \notin ahead /\ Claim(r, x, v) /\ Claim(r, x, w) => v = w

\* While the Run is in the rows of the transaction, it is theirs.
OfDraft == \A r \in Runs : \A x \in Slots : \A v :
    <<r, x>> \notin ahead /\ draft[r].life # "gone" /\ Claim(r, x, v) => v = draft[r].blob[x]

\* Outside the transaction it is the file's, but for what was cached inside it.
OfFile == \A r \in Runs : \A x \in Slots : \A v :
    <<r, x>> \notin ahead \cup peeked /\ file[r].life # "gone" /\ Held(r, x, v)
        => v = file[r].blob[x]

Agree == OneValue /\ OfDraft /\ OfFile

\* A Run that is not there has no blobs and one in flight no output: the slots
\* are empty when they are written.
LivesIn(rows) == \A r \in Runs :
    /\ rows[r].life \in {"absent", "gone"} => \A x \in Slots : rows[r].blob[x] = NoBlob
    /\ rows[r].life = "live" => rows[r].blob["output"] = NoBlob

\* The transaction has the file's rows but for the Runs it writes, each of them
\* once; the reaper's is another one; what is read in it are Runs in flight.
Drafted ==
    /\ \A r \in Runs \ open : draft[r] = file[r]
    /\ \A r \in open : /\ todo[r] # <<>> /\ file[r].life \in {"absent", "live"}
                         /\ draft[r].life # "gone"
    /\ reaping # NoRun => open = {} /\ inside = {}
    /\ \A k \in inside : rpc[k] \in {"input", "states", "done"}

\* A read has a blob of its snapshot or has yet to ask for it; what it has yet
\* to ask for is in the snapshot.
Has(k, x) == got[k][x] = snap[k][x] \/ <<run[k], x>> \in ahead

ReadingOf(k) ==
    /\ rpc[k] # "idle" => \A x \in Slots : got[k][x] = NoBlob \/ Has(k, x)
    /\ rpc[k] = "input" => \A x \in Slots : x = "input" \/ x \in left[k] \/ Has(k, x)
    /\ rpc[k] = "states" => \A x \in Slots : x \in left[k] \/ Has(k, x)
    /\ rpc[k] \in {"input", "states"} => \A x \in left[k] : snap[k][x] # NoBlob
    /\ rpc[k] = "output" => \A x \in Slots :
         (x = "output" /\ Beside(snap[k][x])) \/ Has(k, x)
    /\ rpc[k] \in {"fill", "done"} => \A x \in Slots : Has(k, x)

Reading == \A k \in Readers : ReadingOf(k)

Inv == Types /\ ReadTypes /\ Agree /\ LivesIn(file) /\ LivesIn(draft) /\ Drafted /\ Reading

-----------------------------------------------------------------------------
(* Steps on which nobody gets a blob that nobody had.                       *)

Keeps(old, new) == \A r \in Runs :
    /\ \A x \in Slots : new[r].blob[x] \in {NoBlob, old[r].blob[x]}
    /\ new[r].life # "gone" => old[r].life # "gone" /\ new[r].blob = old[r].blob
CachesCopy == \A r \in Runs : \A x \in Slots : <<r, x>> \notin ahead =>
    /\ \/ blobs'.entry[r][x] = NoBlob
       \/ Held(r, x, blobs'.entry[r][x])
       \/ <<r, x>> \in peeked' /\ Claim(r, x, blobs'.entry[r][x])
    /\ outputs'.entry[r][x] = NoBlob \/ Held(r, x, outputs'.entry[r][x])
ReadsCopy == \A k \in Readers : rpc'[k] # "idle" => \A x \in Slots :
    /\ run'[k] \in Runs
    /\ \/ snap'[k][x] = NoBlob
       \/ Held(run'[k], x, snap'[k][x])
       \/ k \in inside' /\ Claim(run'[k], x, snap'[k][x])
TodoShrinks == open' = open /\ \A r \in Runs : \A i \in DOMAIN todo'[r] :
    \E j \in DOMAIN todo[r] : todo'[r][i] = todo[r][j]

\* What is unchanged copies.
LEMMA Unchanged ==
    ASSUME Inv
    PROVE  /\ \A rows : Keeps(rows, rows)
           /\ UNCHANGED <<blobs, outputs>> => CachesCopy
           /\ UNCHANGED <<rpc, run, snap, inside>> => ReadsCopy
           /\ UNCHANGED <<open, todo>> => TodoShrinks
<1>1. \A rows : Keeps(rows, rows)
  BY DEF Keeps
<1>2. UNCHANGED <<blobs, outputs>> => CachesCopy
  BY DEF CachesCopy, Held
<1>3. UNCHANGED <<rpc, run, snap, inside>> => ReadsCopy
  BY DEF ReadsCopy, Held, Claim, Inv, ReadTypes
<1>4. UNCHANGED <<open, todo>> => TodoShrinks
  BY DEF TodoShrinks
<1> QED BY <1>1, <1>2, <1>3, <1>4

\* Then all still agree.
LEMMA Agreement ==
    ASSUME Inv, Keeps(file, file'), Keeps(draft, draft'), CachesCopy, ReadsCopy, TodoShrinks,
           ahead' = ahead, peeked \subseteq peeked'
    PROVE  Agree'
<1>1. ASSUME NEW r \in Runs, NEW x \in Slots, NEW v, <<r, x>> \notin ahead, Held(r, x, v)'
      PROVE  Held(r, x, v) \/ (<<r, x>> \in peeked' /\ Claim(r, x, v))
  <2>0. v # NoBlob
    BY <1>1 DEF Held
  <2>1. CASE v = file'[r].blob[x]
    BY <2>0, <2>1 DEF Keeps, Held
  <2>2. CASE v = blobs'.entry[r][x] \/ v = outputs'.entry[r][x]
    BY <1>1, <2>0, <2>2 DEF CachesCopy
  <2>3. CASE \E k \in Readers \ inside' : rpc'[k] # "idle" /\ run'[k] = r /\ v = snap'[k][x]
    BY <2>0, <2>3 DEF ReadsCopy
  <2>4. CASE r \notin open' /\ \E i \in DOMAIN todo'[r] : todo'[r][i].slot = x /\ v = todo'[r][i].blob
    BY <2>0, <2>4 DEF TodoShrinks, Held
  <2> QED BY <1>1, <2>1, <2>2, <2>3, <2>4 DEF Held
<1>2. ASSUME NEW r \in Runs, NEW x \in Slots, NEW v, <<r, x>> \notin ahead, Claim(r, x, v)'
      PROVE  Claim(r, x, v)
  <2>1. CASE Held(r, x, v)'
    BY <1>1, <1>2, <2>1 DEF Claim
  <2>2. CASE v # NoBlob /\ v = draft'[r].blob[x]
    BY <2>2 DEF Keeps, Claim
  <2>3. CASE v # NoBlob /\ \E k \in Readers : rpc'[k] # "idle" /\ run'[k] = r /\ v = snap'[k][x]
    BY <2>3 DEF ReadsCopy, Claim
  <2>4. CASE v # NoBlob /\ \E i \in DOMAIN todo'[r] : todo'[r][i].slot = x /\ v = todo'[r][i].blob
    BY <2>4 DEF TodoShrinks, Claim
  <2> QED BY <1>2, <2>1, <2>2, <2>3, <2>4 DEF Claim
<1>3. OneValue'
  BY <1>2 DEF Inv, Agree, OneValue
<1>4. OfDraft'
  BY <1>2 DEF Inv, Agree, OfDraft, Keeps
<1>5. OfFile'
  BY <1>1 DEF Inv, Agree, OfFile, Keeps
<1> QED BY <1>3, <1>4, <1>5 DEF Agree

\* Caches that only got blobs somebody outside had.
LEMMA Copied ==
    ASSUME Inv, NEW q \in Runs, NEW b,
           \A x \in Slots : <<q, x>> \in ahead \/ b[x] = NoBlob \/ Held(q, x, b[x]),
           \/ Within(blobs', blobs, q, b) /\ outputs' = outputs
           \/ blobs' = blobs /\ Within(outputs', outputs, q, b)
    PROVE  CachesCopy /\ IsCache(blobs)' /\ IsCache(outputs)'
<1>1. ASSUME NEW r \in Runs, NEW x \in Slots, <<r, x>> \notin ahead
      PROVE  /\ blobs'.entry[r][x] = NoBlob \/ Held(r, x, blobs'.entry[r][x])
             /\ outputs'.entry[r][x] = NoBlob \/ Held(r, x, outputs'.entry[r][x])
  <2>1. /\ blobs'.entry[r][x] \in {NoBlob, blobs.entry[r][x]} \/ (q = r /\ blobs'.entry[r][x] = b[x])
        /\ outputs'.entry[r][x] \in {NoBlob, outputs.entry[r][x]} \/ (q = r /\ outputs'.entry[r][x] = b[x])
    BY DEF Within
  <2>2. \A v : v # NoBlob /\ (v = blobs.entry[r][x] \/ v = outputs.entry[r][x]) => Held(r, x, v)
    BY DEF Held
  <2> HIDE DEF Held
  <2>3. blobs'.entry[r][x] = NoBlob \/ Held(r, x, blobs'.entry[r][x])
    BY <1>1, <2>1, <2>2
  <2>4. outputs'.entry[r][x] = NoBlob \/ Held(r, x, outputs'.entry[r][x])
    BY <1>1, <2>1, <2>2
  <2> QED BY <2>3, <2>4
<1> QED BY <1>1 DEF CachesCopy, Within, Inv, Types

\* What the readers' state says is about the readers alone.
LEMMA ReadersAlone ==
    ASSUME Inv, UNCHANGED reads, ahead \subseteq ahead'
    PROVE  Reading' /\ ReadTypes'
<1>1. Reading'
  <2> SUFFICES ASSUME NEW k \in Readers PROVE ReadingOf(k)'
    BY DEF Reading
  <2>1. \A x : Has(k, x) => Has(k, x)'
    BY DEF Has, reads
  <2> QED BY <2>1 DEF Inv, Reading, ReadingOf, reads, Beside
<1> QED BY <1>1 DEF Inv, ReadTypes, reads

\* The write of a slot that is empty in the transaction, of a Run that has
\* nothing in it yet: nobody had a blob of it.
LEMMA Written ==
    ASSUME Inv, NEW r \in Runs, MayWrite(r), NEW x \in Slots, NEW v, NEW rows \in Rows,
           NEW calls \in Seq(Call), calls # <<>>, Staged(r, rows, calls),
           draft[r].life \in {"absent", "live"}, draft[r].blob[x] = NoBlob, rows[r].blob[x] = v,
           \A y \in Slots : y # x => rows[r].blob[y] = draft[r].blob[y],
           \A q \in Runs : q # r => rows[q] = draft[q],
           \A i \in DOMAIN calls :
             calls[i].blob = NoBlob \/ (calls[i].slot = x /\ calls[i].blob = v),
           rows[r].life # "gone", LivesIn(rows), CachesCopy, IsCache(blobs)'
    PROVE  Inv'
<1>1. /\ draft' = rows /\ open' = open \cup {r} /\ todo' = [todo EXCEPT ![r] = calls]
      /\ UNCHANGED <<file, inside, outputs, reaping, reads, peeked, ahead>>
  BY DEF Staged, history
<1>2. todo' \in [Runs -> Seq(Call)] /\ todo'[r] = calls
      /\ \A q \in Runs : q # r => todo'[q] = todo[q]
  BY <1>1 DEF Inv, Types
<1>3. todo[r] = <<>> /\ reaping = NoRun /\ r \notin open /\ draft[r] = file[r]
  BY DEF MayWrite, Inv, Drafted
<1>4. Types' /\ ReadTypes' /\ Reading'
  BY <1>1, <1>2, ReadersAlone DEF Inv, Types
<1>5. LivesIn(file)' /\ LivesIn(draft)'
  BY <1>1 DEF Inv, LivesIn
<1>6. Drafted'
  <2>1. \A q \in Runs \ open' : draft'[q] = file'[q]
    BY <1>1 DEF Inv, Drafted
  <2>2. ASSUME NEW q \in open'
        PROVE  /\ todo'[q] # <<>> /\ file'[q].life \in {"absent", "live"}
               /\ draft'[q].life # "gone"
    <3>1. CASE q = r
      BY <1>1, <1>2, <1>3, <3>1
    <3>2. CASE q # r
      <4>1. q \in open /\ q \in Runs
        BY <1>1, <2>2, <3>2 DEF Inv, Types
      <4> QED BY <1>1, <1>2, <3>2, <4>1 DEF Inv, Drafted
    <3> QED BY <3>1, <3>2
  <2> QED BY <1>1, <1>3, <2>1, <2>2 DEF Inv, Drafted, reads
<1>7. <<r, x>> \in ahead \/ \A w : ~Claim(r, x, w)
  BY DEF Inv, Agree, OfDraft, Claim, Held
<1>8. ASSUME NEW q \in Runs, NEW y \in Slots, NEW w, <<q, y>> \notin ahead, Held(q, y, w)'
      PROVE  Held(q, y, w) \/ (<<q, y>> \in peeked /\ Claim(q, y, w))
  <2>0. w # NoBlob
    BY <1>8 DEF Held
  <2>1. CASE w = file'[q].blob[y]
    BY <1>1, <2>0, <2>1 DEF Held
  <2>2. CASE w = blobs'.entry[q][y] \/ w = outputs'.entry[q][y]
    BY <1>1, <1>8, <2>0, <2>2 DEF CachesCopy
  <2>3. CASE \E k \in Readers \ inside' : rpc'[k] # "idle" /\ run'[k] = q /\ w = snap'[k][y]
    BY <1>1, <2>0, <2>3 DEF Held, reads
  <2>4. CASE q \notin open' /\ \E i \in DOMAIN todo'[q] : todo'[q][i].slot = y /\ w = todo'[q][i].blob
    <3>1. q # r /\ q \notin open /\ todo'[q] = todo[q]
      BY <1>1, <1>2, <2>4
    <3> QED BY <2>0, <2>4, <3>1 DEF Held
  <2> QED BY <1>8, <2>1, <2>2, <2>3, <2>4 DEF Held
<1>9. ASSUME NEW q \in Runs, NEW y \in Slots, NEW w, <<q, y>> \notin ahead, Claim(q, y, w)'
      PROVE  \/ Claim(q, y, w) /\ (q # r \/ y # x)
             \/ q = r /\ y = x /\ w = v
  <2>1. CASE Held(q, y, w)'
    BY <1>7, <1>8, <1>9, <2>1 DEF Claim
  <2>2. CASE w # NoBlob /\ w = draft'[q].blob[y]
    <3>1. CASE q = r /\ y = x
      BY <1>1, <2>2, <3>1
    <3>2. CASE q # r \/ y # x
      <4>1. w = draft[q].blob[y]
        BY <1>1, <2>2, <3>2
      <4> QED BY <2>2, <3>2, <4>1 DEF Claim
    <3> QED BY <3>1, <3>2
  <2>3. CASE w # NoBlob /\ \E k \in Readers : rpc'[k] # "idle" /\ run'[k] = q /\ w = snap'[k][y]
    <3>1. Claim(q, y, w)
      BY <1>1, <2>3 DEF Claim, reads
    <3> QED BY <1>7, <1>9, <3>1
  <2>4. CASE w # NoBlob /\ \E i \in DOMAIN todo'[q] : todo'[q][i].slot = y /\ w = todo'[q][i].blob
    <3>1. CASE q = r
      BY <1>2, <2>4, <3>1
    <3>2. CASE q # r
      BY <1>2, <2>4, <3>2 DEF Claim
    <3> QED BY <3>1, <3>2
  <2> QED BY <1>9, <2>1, <2>2, <2>3, <2>4 DEF Claim
<1>10. OneValue'
  <2> SUFFICES ASSUME NEW q \in Runs, NEW y \in Slots, NEW w1, NEW w2, <<q, y>> \notin ahead,
                      Claim(q, y, w1)', Claim(q, y, w2)'
               PROVE  w1 = w2
    BY <1>1 DEF OneValue
  <2>1. \/ Claim(q, y, w1) /\ (q # r \/ y # x)
        \/ q = r /\ y = x /\ w1 = v
    BY <1>9
  <2>2. \/ Claim(q, y, w2) /\ (q # r \/ y # x)
        \/ q = r /\ y = x /\ w2 = v
    BY <1>9
  <2> QED BY <2>1, <2>2 DEF Inv, Agree, OneValue
<1>11. OfDraft'
  <2> SUFFICES ASSUME NEW q \in Runs, NEW y \in Slots, NEW w, <<q, y>> \notin ahead,
                      rows[q].life # "gone", Claim(q, y, w)'
               PROVE  w = rows[q].blob[y]
    BY <1>1 DEF OfDraft
  <2>1. \/ Claim(q, y, w) /\ (q # r \/ y # x)
        \/ q = r /\ y = x /\ w = v
    BY <1>9
  <2>2. CASE q = r /\ y = x
    BY <2>1, <2>2
  <2>3. CASE q # r \/ y # x
    <3>1. rows[q].blob[y] = draft[q].blob[y] /\ draft[q].life # "gone"
      BY <2>3
    <3> QED BY <2>1, <2>3, <3>1 DEF Inv, Agree, OfDraft
  <2> QED BY <2>2, <2>3
<1>12. OfFile'
  BY <1>1, <1>8 DEF Inv, Agree, OfFile
<1> QED BY <1>4, <1>5, <1>6, <1>10, <1>11, <1>12 DEF Inv, Agree

-----------------------------------------------------------------------------
(* One lemma per action.                                                    *)

LEMMA InitInv == Init => Inv
<1> SUFFICES ASSUME Init PROVE Inv
  OBVIOUS
<1>1. Types /\ ReadTypes
  BY EmptyContent, NewIsCache DEF Init, Types, ReadTypes, Rows, Call
<1>2. \A r \in Runs : \A x \in Slots : \A v : ~Held(r, x, v) /\ ~Claim(r, x, v)
  BY EmptyContent, NewIsCache DEF Init, Held, Claim
<1>3. LivesIn(file) /\ LivesIn(draft) /\ Drafted /\ Reading
  BY EmptyContent DEF Init, LivesIn, Drafted, Reading, ReadingOf
<1> QED BY <1>1, <1>2, <1>3 DEF Inv, Agree, OneValue, OfDraft, OfFile

LEMMA CreateRunInv ==
    ASSUME Inv, NEW r \in Runs, CreateRun(r)
    PROVE  Inv'
<1> DEFINE b(v) == [Empty EXCEPT !["input"] = v]
           row(v) == [life |-> "live", blob |-> b(v)]
           rows(v) == [draft EXCEPT ![r] = row(v)]
           call(v) == [cache |-> "blobs", slot |-> "input", blob |-> v]
<1>1. PICK v \in Values["input"] : Staged(r, rows(v), <<call(v)>>)
  BY DEF CreateRun
<1>2. v \in Blobs \cup {NoBlob} /\ "input" \in Slots /\ "output" \in Slots
  BY ValuesAssumption DEF Slots
<1>3. b(v) \in Content /\ b(v)["input"] = v /\ \A x \in Slots : x # "input" => b(v)[x] = NoBlob
  BY <1>2 DEF Empty, Content
<1>4. call(v) \in Call /\ call(v).slot = "input" /\ call(v).blob = v
  BY <1>2 DEF Call
<1>5. MayWrite(r) /\ draft[r].life = "absent" /\ \A x \in Slots : draft[r].blob[x] = NoBlob
  BY DEF CreateRun, Inv, LivesIn
<1>6. UNCHANGED <<blobs, outputs>>
  BY <1>1 DEF CreateRun, Staged
<1>7. CachesCopy /\ IsCache(blobs)'
  BY <1>6, Unchanged DEF Inv, Types
<1> HIDE DEF b, call
<1>8. rows(v) \in Rows /\ rows(v)[r] = row(v) /\ \A q \in Runs : q # r => rows(v)[q] = draft[q]
  BY <1>3 DEF Inv, Types, Rows
<1>9. row(v).life = "live" /\ row(v).blob = b(v)
  OBVIOUS
<1> HIDE DEF row, rows
<1>10. LivesIn(rows(v))
  BY <1>2, <1>3, <1>8, <1>9 DEF Inv, LivesIn
<1>11. /\ <<call(v)>> \in Seq(Call) /\ <<call(v)>> # <<>>
       /\ \A i \in DOMAIN <<call(v)>> : <<call(v)>>[i] = call(v)
  BY <1>4
<1> DEFINE calls == <<call(v)>>
<1>12. /\ calls \in Seq(Call) /\ calls # <<>> /\ Staged(r, rows(v), calls)
       /\ \A i \in DOMAIN calls : calls[i].slot = "input" /\ calls[i].blob = v
  BY <1>1, <1>4, <1>11
<1> HIDE DEF calls
<1>13. /\ rows(v)[r].blob["input"] = v /\ rows(v)[r].life # "gone"
       /\ \A y \in Slots : y # "input" => rows(v)[r].blob[y] = draft[r].blob[y]
  BY <1>3, <1>5, <1>8, <1>9
<1> QED BY <1>2, <1>5, <1>7, <1>8, <1>10, <1>12, <1>13, Written

LEMMA CommitStateInv ==
    ASSUME Inv, NEW r \in Runs, CommitState(r)
    PROVE  Inv'
<1> DEFINE rows(s, v) == [draft EXCEPT ![r].blob[s] = v]
           call(s, v) == [cache |-> "blobs", slot |-> s, blob |-> IF Beside(v) THEN v ELSE NoBlob]
<1>0. PICK s \in Steps : \E v \in Values[s] :
        draft[r].blob[s] = NoBlob /\ Staged(r, rows(s, v), <<call(s, v)>>)
  BY DEF CommitState
<1>1. PICK v \in Values[s] :
        draft[r].blob[s] = NoBlob /\ Staged(r, rows(s, v), <<call(s, v)>>)
  BY <1>0
<1>2. s \in Slots /\ s # "output" /\ "output" \in Slots /\ v \in Blobs \cup {NoBlob}
  BY ValuesAssumption, SlotsAssumption DEF Slots
<1>3. MayWrite(r) /\ draft[r].life = "live" /\ UNCHANGED <<blobs, outputs>>
  BY <1>1 DEF CommitState, Staged
<1>4. CachesCopy /\ IsCache(blobs)'
  BY <1>3, Unchanged DEF Inv, Types
<1>5. /\ rows(s, v) \in Rows /\ rows(s, v)[r].life = "live" /\ rows(s, v)[r].blob[s] = v
      /\ \A y \in Slots : y # s => rows(s, v)[r].blob[y] = draft[r].blob[y]
      /\ \A q \in Runs : q # r => rows(s, v)[q] = draft[q]
  BY <1>2, <1>3 DEF Inv, Types, Rows, Content
<1>6. call(s, v) \in Call /\ call(s, v).slot = s /\ call(s, v).blob \in {NoBlob, v}
  BY <1>2 DEF Call
<1> HIDE DEF rows, call
<1> DEFINE calls == <<call(s, v)>>
<1>7. /\ calls \in Seq(Call) /\ calls # <<>> /\ Staged(r, rows(s, v), calls)
      /\ \A i \in DOMAIN calls : calls[i].slot = s /\ calls[i].blob \in {NoBlob, v}
  BY <1>1, <1>6
<1> HIDE DEF calls
<1>8. LivesIn(rows(s, v))
  BY <1>2, <1>3, <1>5 DEF Inv, LivesIn
<1> QED BY <1>1, <1>2, <1>3, <1>4, <1>5, <1>7, <1>8, Written

\* The terminal transition's read of the record: the Run has nothing in the
\* transaction yet, so that its rows there are the file's.
LEMMA InFlightHeld ==
    ASSUME Inv, NEW r \in Runs \ open, blobs' = Fill(Lookup(blobs, r), r, InFlight(draft[r].blob)),
           outputs' = outputs
    PROVE  CachesCopy /\ IsCache(blobs)'
<1> DEFINE c == Lookup(blobs, r)
           b == InFlight(draft[r].blob)
<1>1. draft[r].blob \in Content /\ draft[r] = file[r] /\ IsCache(blobs)
  BY DEF Inv, Types, Rows, Drafted
<1>2. b \in Content /\ \A x \in Slots : b[x] \in {NoBlob, file[r].blob[x]}
  BY <1>1 DEF InFlight, Content
<1>3. IsCache(c) /\ Within(c, blobs, r, Empty)
  BY <1>1, Touched DEF Within
<1> HIDE DEF c, b
<1>4. Within(blobs', c, r, b)
  BY <1>2, <1>3, FillWithin DEF c, b
<1>5. Within(blobs', blobs, r, b)
  <2> SUFFICES ASSUME NEW q \in Runs, NEW x \in Slots
               PROVE  \/ blobs'.entry[q][x] \in {NoBlob, blobs.entry[q][x]}
                      \/ q = r /\ blobs'.entry[q][x] = b[x]
    BY <1>4 DEF Within
  <2>1. c.entry[q][x] \in {NoBlob, blobs.entry[q][x]}
    BY <1>3, EmptyContent DEF Within
  <2>2. \/ blobs'.entry[q][x] \in {NoBlob, c.entry[q][x]}
        \/ q = r /\ blobs'.entry[q][x] = b[x]
    BY <1>4 DEF Within
  <2> QED BY <2>1, <2>2
<1>6. \A x \in Slots : b[x] = NoBlob \/ Held(r, x, b[x])
  BY <1>2 DEF Held
<1> QED BY <1>5, <1>6, Copied

LEMMA CommitTerminalInv ==
    ASSUME Inv, NEW r \in Runs, CommitTerminal(r)
    PROVE  Inv'
<1> DEFINE drop == [cache |-> "blobs", slot |-> "drop", blob |-> NoBlob]
           keep(v) == [cache |-> "outputs", slot |-> "output", blob |-> v]
           calls(v) == <<drop>> \o IF Beside(v) THEN <<keep(v)>> ELSE <<>>
           rows(v) == [draft EXCEPT ![r].life = "terminal", ![r].blob["output"] = v]
<1>1. PICK v \in Values["output"] : Staged(r, rows(v), calls(v))
  BY DEF CommitTerminal
<1>2. "output" \in Slots /\ v \in Blobs \cup {NoBlob}
  BY ValuesAssumption DEF Slots
<1>3. MayWrite(r) /\ draft[r].life = "live" /\ draft[r].blob["output"] = NoBlob /\ r \notin open
  BY DEF CommitTerminal, MayWrite, Inv, LivesIn, Drafted
<1>4. CachesCopy /\ IsCache(blobs)'
  <2>1. blobs' = Fill(Lookup(blobs, r), r, InFlight(draft[r].blob)) /\ outputs' = outputs
    BY <1>1 DEF CommitTerminal, Staged
  <2> QED BY <1>3, <2>1, InFlightHeld
<1>5. /\ calls(v) \in Seq(Call) /\ calls(v) # <<>>
      /\ \A i \in DOMAIN calls(v) :
           calls(v)[i].blob = NoBlob \/ (calls(v)[i].slot = "output" /\ calls(v)[i].blob = v)
  <2>1. drop \in Call /\ keep(v) \in Call
    BY <1>2 DEF Call
  <2>2. drop.blob = NoBlob /\ keep(v).slot = "output" /\ keep(v).blob = v
    OBVIOUS
  <2> HIDE DEF drop, keep
  <2>3. CASE Beside(v)
    <3>1. calls(v) = <<drop>> \o <<keep(v)>>
      BY <2>3
    <3>2. <<drop>> \in Seq(Call) /\ <<keep(v)>> \in Seq(Call)
      BY <2>1
    <3>3. /\ calls(v) \in Seq(Call) /\ Len(calls(v)) = 2
          /\ calls(v)[1] = drop /\ calls(v)[2] = keep(v)
      BY <3>1, <3>2
    <3> HIDE DEF calls
    <3>4. DOMAIN calls(v) = {1, 2}
      BY <3>3
    <3> QED BY <2>2, <3>3, <3>4
  <2>4. CASE ~Beside(v)
    <3>1. calls(v) = <<drop>>
      BY <2>1, <2>4
    <3> HIDE DEF calls
    <3> QED BY <2>1, <2>2, <3>1
  <2> QED BY <2>3, <2>4
<1> HIDE DEF calls
<1>6. /\ rows(v) \in Rows /\ rows(v)[r].life = "terminal" /\ rows(v)[r].blob["output"] = v
      /\ \A y \in Slots : y # "output" => rows(v)[r].blob[y] = draft[r].blob[y]
      /\ \A q \in Runs : q # r => rows(v)[q] = draft[q]
  <2> DEFINE b == [draft[r].blob EXCEPT !["output"] = v]
             ended == [draft EXCEPT ![r].life = "terminal"]
  <2>1. draft[r] \in [life : {"absent", "live", "terminal", "gone"}, blob : Content]
    BY DEF Inv, Types, Rows
  <2>2. /\ b \in Content /\ b["output"] = v
        /\ \A y \in Slots : y # "output" => b[y] = draft[r].blob[y]
    BY <1>2, <2>1 DEF Content
  <2>3. rows(v) \in Rows
    <3>1. ended \in Rows
      BY DEF Inv, Types, Rows
    <3>2. rows(v) = [ended EXCEPT ![r].blob["output"] = v]
      OBVIOUS
    <3>3. PICK e, new : e = ended /\ new = rows(v)
      OBVIOUS
    <3> HIDE DEF ended, rows
    <3>4. e \in Rows /\ new = [e EXCEPT ![r].blob["output"] = v]
      BY <3>1, <3>2, <3>3
    <3>5. new \in Rows
      BY <1>2, <3>4 DEF Rows, Content
    <3> QED BY <3>3, <3>5
  <2>4. rows(v)[r].life = "terminal" /\ rows(v)[r].blob = b
    BY DEF Inv, Types, Rows
  <2>5. \A q \in Runs : q # r => rows(v)[q] = draft[q]
    BY DEF Inv, Types, Rows
  <2> HIDE DEF b, rows
  <2> QED BY <2>2, <2>3, <2>4, <2>5
<1>7. PICK new : new = rows(v)
  OBVIOUS
<1> HIDE DEF rows
<1>8. /\ new \in Rows /\ new[r].life = "terminal" /\ new[r].life # "gone" /\ new[r].blob["output"] = v
      /\ \A y \in Slots : y # "output" => new[r].blob[y] = draft[r].blob[y]
      /\ \A q \in Runs : q # r => new[q] = draft[q]
      /\ Staged(r, new, calls(v))
  BY <1>1, <1>6, <1>7
<1>9. LivesIn(new)
  BY <1>2, <1>8 DEF Inv, LivesIn
<1>10. PICK cs : cs = calls(v)
  OBVIOUS
<1>11. /\ cs \in Seq(Call) /\ cs # <<>> /\ Staged(r, new, cs)
       /\ \A i \in DOMAIN cs :
            cs[i].blob = NoBlob \/ (cs[i].slot = "output" /\ cs[i].blob = v)
  BY <1>5, <1>8, <1>10
<1> HIDE DEF drop, keep
<1>12. /\ MayWrite(r) /\ draft[r].life \in {"absent", "live"} /\ draft[r].blob["output"] = NoBlob
       /\ new \in Rows /\ new[r].blob["output"] = v /\ new[r].life # "gone"
       /\ \A y \in Slots : y # "output" => new[r].blob[y] = draft[r].blob[y]
       /\ \A q \in Runs : q # r => new[q] = draft[q]
  BY <1>3, <1>8
<1> QED BY <1>2, <1>4, <1>9, <1>11, <1>12, Written

\* What was the transaction's is the file's.
LEMMA TxCommitsInv ==
    ASSUME Inv, TxCommits
    PROVE  Inv'
<1>1. /\ file' = draft /\ open' = {} /\ inside' = {} /\ peeked' = {}
      /\ UNCHANGED <<draft, blobs, outputs, todo, reaping, reads, ahead>>
  BY DEF TxCommits, caches
<1>2. Types' /\ ReadTypes' /\ Reading'
  BY <1>1, ReadersAlone DEF Inv, Types
<1>3. LivesIn(file)' /\ LivesIn(draft)' /\ Drafted'
  BY <1>1 DEF Inv, LivesIn, Drafted
<1>4. ASSUME NEW r \in Runs, NEW x \in Slots, NEW v, Held(r, x, v)' \/ Claim(r, x, v)'
      PROVE  Claim(r, x, v)
  BY <1>1, <1>4 DEF Held, Claim, reads
<1>5. OneValue' /\ OfDraft'
  BY <1>1, <1>4 DEF Inv, Agree, OneValue, OfDraft
<1>6. OfFile'
  BY <1>1, <1>4 DEF Inv, Agree, OfDraft, OfFile
<1> QED BY <1>2, <1>3, <1>5, <1>6 DEF Inv, Agree

\* Reads that are over have nothing; the others go on.
LEMMA QuitReads ==
    ASSUME Inv, NEW S, Quit(S), ahead \subseteq ahead' \/ Readers \subseteq S
    PROVE  /\ ReadTypes' /\ Reading'
           /\ \A k \in Readers : k \in S => rpc'[k] = "idle"
           /\ \A k \in Readers : k \notin S =>
                rpc'[k] = rpc[k] /\ run'[k] = run[k] /\ snap'[k] = snap[k]
<1>1. ReadTypes'
  BY EmptyContent DEF Quit, Inv, ReadTypes
<1>2. \A k \in Readers : k \in S => rpc'[k] = "idle"
  BY DEF Quit
<1>3. \A k \in Readers : k \notin S =>
        /\ rpc'[k] = rpc[k] /\ run'[k] = run[k] /\ snap'[k] = snap[k]
        /\ got'[k] = got[k] /\ left'[k] = left[k]
  BY DEF Quit
<1>4. ASSUME NEW k \in Readers PROVE ReadingOf(k)'
  <2>1. CASE k \in S
    BY <1>2, <2>1 DEF ReadingOf
  <2>2. CASE k \notin S
    <3>1. \A x : Has(k, x) => Has(k, x)'
      BY <1>3, <2>2 DEF Has
    <3> QED BY <1>3, <2>2, <3>1 DEF Inv, Reading, ReadingOf, Beside
  <2> QED BY <2>1, <2>2
<1> QED BY <1>1, <1>2, <1>3, <1>4 DEF Reading

\* The rows without the transaction are the file's, or of a Run that never was.
LEMMA RowsRolledBack ==
    ASSUME Inv
    PROVE  /\ RolledBack \in Rows /\ LivesIn(RolledBack) /\ Keeps(file, RolledBack)
<1>1. RolledBack \in Rows
  BY EmptyContent DEF RolledBack, Inv, Types, Rows
<1>2. \A r \in Runs : \/ RolledBack[r] = file[r]
                      \/ RolledBack[r] = [life |-> "gone", blob |-> Empty]
  BY DEF RolledBack
<1>3. LivesIn(RolledBack) /\ Keeps(file, RolledBack)
  BY <1>2, EmptyContent DEF Inv, LivesIn, Keeps
<1> QED BY <1>1, <1>3

\* Nobody outside the transaction had anything of it, but what was cached inside.
LEMMA TxFailsInv ==
    ASSUME Inv, TxFails
    PROVE  Inv'
<1>1. /\ file' = RolledBack /\ draft' = RolledBack /\ open' = {} /\ inside' = {}
      /\ todo' = [r \in Runs |-> IF r \in open THEN <<>> ELSE todo[r]]
      /\ Quit(inside) /\ peeked' = {} /\ ahead' = ahead \cup peeked
      /\ UNCHANGED <<blobs, outputs, reaping>>
  BY DEF TxFails, caches
<1>2. Types'
  <2>1. todo' \in [Runs -> Seq(Call)]
    BY <1>1 DEF Inv, Types
  <2> QED BY <1>1, <2>1, RowsRolledBack DEF Inv, Types
<1>3. /\ ReadTypes' /\ Reading'
      /\ \A k \in Readers : k \in inside => rpc'[k] = "idle"
      /\ \A k \in Readers : k \notin inside =>
           rpc'[k] = rpc[k] /\ run'[k] = run[k] /\ snap'[k] = snap[k]
  BY <1>1, QuitReads
<1>4. LivesIn(file)' /\ LivesIn(draft)' /\ Drafted'
  <2>1. LivesIn(file') /\ LivesIn(draft')
    BY <1>1, RowsRolledBack
  <2> QED BY <1>1, <2>1 DEF Drafted, LivesIn
<1>5. ASSUME NEW r \in Runs, NEW x \in Slots, NEW v, Held(r, x, v)' \/ Claim(r, x, v)'
      PROVE  Held(r, x, v)
  <2>0. v # NoBlob
    BY <1>5 DEF Held, Claim
  <2>1. CASE v = file'[r].blob[x] \/ v = draft'[r].blob[x]
    BY <1>1, <2>0, <2>1, RowsRolledBack DEF Keeps, Held
  <2>2. CASE v = blobs'.entry[r][x] \/ v = outputs'.entry[r][x]
    BY <1>1, <2>0, <2>2 DEF Held
  <2>3. CASE \E k \in Readers : rpc'[k] # "idle" /\ run'[k] = r /\ v = snap'[k][x]
    BY <1>3, <2>0, <2>3 DEF Held
  <2>4. CASE \E i \in DOMAIN todo'[r] : todo'[r][i].slot = x /\ v = todo'[r][i].blob
    <3>1. r \notin open /\ todo'[r] = todo[r]
      BY <1>1, <2>4
    <3> QED BY <2>0, <2>4, <3>1 DEF Held
  <2> QED BY <1>5, <2>1, <2>2, <2>3, <2>4 DEF Held, Claim
<1>6. OneValue'
  <2> SUFFICES ASSUME NEW r \in Runs, NEW x \in Slots, NEW v, NEW w, <<r, x>> \notin ahead',
                      Claim(r, x, v)', Claim(r, x, w)'
               PROVE  v = w
    BY DEF OneValue
  <2>1. Claim(r, x, v) /\ Claim(r, x, w)
    BY <1>5 DEF Claim
  <2> QED BY <1>1, <2>1 DEF Inv, Agree, OneValue
<1>7. ASSUME NEW r \in Runs, NEW x \in Slots, NEW v, <<r, x>> \notin ahead \cup peeked,
             RolledBack[r].life # "gone", Held(r, x, v)
      PROVE  v = RolledBack[r].blob[x]
  <2>1. file[r].life # "gone" /\ RolledBack[r].blob = file[r].blob
    BY <1>7, RowsRolledBack DEF Keeps
  <2> QED BY <1>7, <2>1 DEF Inv, Agree, OfFile
<1>8. OfDraft' /\ OfFile'
  <2> HIDE DEF RolledBack, Held, Claim
  <2> QED BY <1>1, <1>5, <1>7 DEF OfDraft, OfFile
<1> QED BY <1>2, <1>3, <1>4, <1>6, <1>8 DEF Inv, Agree

LEMMA ReopenInv ==
    ASSUME Inv, Reopen
    PROVE  Inv'
<1>1. /\ file' = RolledBack /\ draft' = RolledBack /\ open' = {} /\ inside' = {}
      /\ todo' = [r \in Runs |-> <<>>] /\ reaping' = NoRun
      /\ Quit(Readers) /\ peeked' = {} /\ ahead' = {}
      /\ blobs' = NewCache(InFlightLimit) /\ outputs' = NewCache(OutputLimit)
  BY DEF Reopen
<1>2. Types'
  BY <1>1, RowsRolledBack, NewIsCache DEF Types
<1>3. ReadTypes' /\ Reading' /\ \A k \in Readers : rpc'[k] = "idle"
  BY <1>1, QuitReads
<1>4. LivesIn(file)' /\ LivesIn(draft)' /\ Drafted'
  <2>1. LivesIn(file') /\ LivesIn(draft')
    BY <1>1, RowsRolledBack
  <2> QED BY <1>1, <2>1 DEF Drafted, LivesIn
<1>5. ASSUME NEW r \in Runs, NEW x \in Slots, NEW v, Held(r, x, v)' \/ Claim(r, x, v)'
      PROVE  v = file'[r].blob[x] /\ v = draft'[r].blob[x]
  <2>1. blobs'.entry[r][x] = NoBlob /\ outputs'.entry[r][x] = NoBlob /\ DOMAIN todo'[r] = {}
    BY <1>1, NewIsCache
  <2> QED BY <1>1, <1>3, <1>5, <2>1 DEF Held, Claim
<1>6. Agree'
  <2> HIDE DEF Held, Claim
  <2> QED BY <1>5 DEF Agree, OneValue, OfDraft, OfFile
<1> QED BY <1>2, <1>3, <1>4, <1>6 DEF Inv

LEMMA TellCacheInv ==
    ASSUME Inv, NEW r \in Runs, TellCache(r)
    PROVE  Inv'
<1> DEFINE call == Head(todo[r])
           b == IF call.slot = "drop" THEN Empty ELSE Only(call.slot, call.blob)
<1>1. todo[r] \in Seq(Call) /\ todo[r] # <<>> /\ r \notin open
  BY DEF TellCache, Inv, Types
<1>2. call \in Call /\ 1 \in DOMAIN todo[r] /\ call = todo[r][1]
  BY <1>1
<1>3. /\ Tail(todo[r]) \in Seq(Call)
      /\ \A i \in DOMAIN Tail(todo[r]) :
           i + 1 \in DOMAIN todo[r] /\ Tail(todo[r])[i] = todo[r][i + 1]
  BY <1>1
<1>4. /\ blobs' = IF call.cache = "blobs" THEN Called(blobs, r, call) ELSE blobs
      /\ outputs' = IF call.cache = "outputs" THEN Called(outputs, r, call) ELSE outputs
      /\ todo' = [todo EXCEPT ![r] = Tail(@)]
      /\ UNCHANGED <<file, draft, open, inside, reaping, reads, peeked, ahead>>
  BY DEF TellCache, tx, history
<1>5. \A x \in Slots : b[x] = NoBlob \/ Held(r, x, b[x])
  <2>1. CASE call.slot = "drop"
    BY <2>1, EmptyContent
  <2>2. CASE call.slot # "drop"
    <3> HIDE DEF call
    <3>1. \A x \in Slots : b[x] = IF x = call.slot THEN call.blob ELSE NoBlob
      BY <2>2 DEF Only
    <3> QED BY <1>1, <1>2, <3>1 DEF Held
  <2> QED BY <2>1, <2>2
<1>6. \A c : IsCache(c) => Within(Called(c, r, call), c, r, b)
  <2> SUFFICES ASSUME NEW c, IsCache(c) PROVE Within(Called(c, r, call), c, r, b)
    OBVIOUS
  <2> HIDE DEF call
  <2>1. CASE call.slot = "drop"
    BY <2>1, Dropped DEF Called
  <2>2. CASE call.slot # "drop"
    <3>1. call.slot \in Slots /\ call.blob \in Blobs \cup {NoBlob}
      BY <1>2, <2>2 DEF Call
    <3> QED BY <2>2, <3>1, SetWithin DEF Called
  <2> QED BY <2>1, <2>2
<1> HIDE DEF call, b
<1>7. call.cache \in {"blobs", "outputs"}
  BY <1>2 DEF Call
<1>8. IsCache(blobs) /\ IsCache(outputs)
  BY DEF Inv, Types
<1>9. CachesCopy /\ IsCache(blobs)' /\ IsCache(outputs)'
  BY <1>4, <1>5, <1>6, <1>7, <1>8, Copied
<1>10. todo' \in [Runs -> Seq(Call)] /\ TodoShrinks
  BY <1>3, <1>4 DEF Inv, Types, TodoShrinks
<1>11. Keeps(file, file') /\ Keeps(draft, draft') /\ ReadsCopy
  BY <1>4, Unchanged DEF reads
<1>12. Types' /\ LivesIn(file)' /\ LivesIn(draft)'
  BY <1>4, <1>9, <1>10 DEF Inv, Types, LivesIn
<1>13. Drafted'
  <2>1. \A q \in open : todo'[q] = todo[q]
    BY <1>1, <1>4 DEF Inv, Types
  <2> QED BY <1>4, <2>1 DEF Inv, Drafted, reads
<1>14. Agree'
  BY <1>4, <1>9, <1>10, <1>11, Agreement
<1> QED BY <1>4, <1>12, <1>13, <1>14, ReadersAlone DEF Inv

LEMMA ReapDropsInv ==
    ASSUME Inv, NEW r \in Runs, ReapDrops(r)
    PROVE  Inv'
<1>1. /\ reaping' = r /\ outputs' = Drop(outputs, r) /\ open = {} /\ inside = {}
      /\ UNCHANGED <<file, draft, open, inside, blobs, todo, reads, peeked, ahead>>
  BY DEF ReapDrops, tx, history
<1>2. CachesCopy /\ IsCache(blobs)' /\ IsCache(outputs)'
  <2>1. Within(outputs', outputs, r, Empty)
    BY <1>1, Dropped DEF Inv, Types
  <2> QED BY <1>1, <2>1, EmptyContent, Copied
<1>3. Keeps(file, file') /\ Keeps(draft, draft') /\ ReadsCopy /\ TodoShrinks
  BY <1>1, Unchanged DEF reads
<1>4. Types' /\ LivesIn(file)' /\ LivesIn(draft)' /\ Drafted'
  BY <1>1, <1>2 DEF Inv, Types, LivesIn, Drafted
<1>5. Agree'
  BY <1>1, <1>2, <1>3, Agreement
<1> QED BY <1>1, <1>4, <1>5, ReadersAlone DEF Inv

LEMMA ReapEndsInv ==
    ASSUME Inv, ReapEnds
    PROVE  Inv'
<1>1. /\ reaping \in Runs /\ reaping' = NoRun /\ open = {} /\ inside = {}
      /\ UNCHANGED <<open, inside, blobs, outputs, todo, reads, peeked, ahead>>
      /\ \/ /\ file' = [file EXCEPT ![reaping] = [life |-> "gone", blob |-> Empty]]
            /\ draft' = file'
         \/ UNCHANGED <<file, draft>>
  BY DEF ReapEnds, caches, history, Inv, Types, Drafted
<1>2. \A q \in Runs :
        /\ draft[q] = file[q] /\ draft'[q] = file'[q]
        /\ file'[q] = file[q] \/ file'[q] = [life |-> "gone", blob |-> Empty]
  <2>1. \A q \in Runs : draft[q] = file[q]
    BY <1>1 DEF Inv, Drafted
  <2>2. \A q \in Runs : file'[q] = file[q] \/ file'[q] = [life |-> "gone", blob |-> Empty]
    BY <1>1 DEF Inv, Types, Rows
  <2>3. \A q \in Runs : draft'[q] = file'[q]
    BY <1>1, <2>1
  <2> QED BY <2>1, <2>2, <2>3, Zenon
<1>3. file' \in Rows /\ draft' \in Rows
  <2>1. [file EXCEPT ![reaping] = [life |-> "gone", blob |-> Empty]] \in Rows
    BY <1>1, EmptyContent DEF Inv, Types, Rows
  <2>2. file \in Rows /\ draft \in Rows
    BY DEF Inv, Types
  <2> QED BY <1>1, <2>1, <2>2, Zenon
<1>4. Keeps(file, file') /\ Keeps(draft, draft')
  BY <1>2, EmptyContent DEF Keeps
<1>5. CachesCopy /\ ReadsCopy /\ TodoShrinks
  BY <1>1, Unchanged DEF reads
<1>6. Types' /\ Drafted'
  BY <1>1, <1>2, <1>3 DEF Inv, Types, Drafted
<1>7. LivesIn(file)' /\ LivesIn(draft)'
  BY <1>2, EmptyContent DEF Inv, LivesIn
<1>8. Agree'
  BY <1>1, <1>4, <1>5, Agreement
<1> QED BY <1>1, <1>6, <1>7, <1>8, ReadersAlone DEF Inv

\* Another read goes on from what it has.
LEMMA OthersRead ==
    ASSUME Inv, NEW k \in Readers, ReadingOf(k)', ahead' = ahead,
           \A j \in Readers : j # k =>
             /\ rpc'[j] = rpc[j] /\ run'[j] = run[j] /\ snap'[j] = snap[j]
             /\ got'[j] = got[j] /\ left'[j] = left[j]
    PROVE  Reading'
<1> SUFFICES ASSUME NEW j \in Readers, j # k PROVE ReadingOf(j)'
  BY DEF Reading
<1>1. \A x : Has(j, x)' <=> Has(j, x)
  BY DEF Has
<1> QED BY <1>1 DEF Inv, Reading, ReadingOf, Beside

\* What is asked for is answered with the snapshot's blob, cached or not.
LEMMA Asked ==
    ASSUME Inv, NEW k \in Readers, rpc[k] # "idle", NEW x \in Slots, snap[k][x] # NoBlob,
           NEW c, c = blobs \/ c = outputs, Ask(c, k, x)
    PROVE  /\ got' \in [Readers -> Content] /\ took' \in [Readers -> SUBSET Slots]
           /\ got'[k][x] = snap[k][x] \/ <<run[k], x>> \in ahead
           /\ \A y \in Slots : y # x => got'[k][y] = got[k][y]
           /\ \A j \in Readers : j # k => got'[j] = got[j]
<1> DEFINE cached == c.entry[run[k]][x]
           v == IF cached # NoBlob THEN cached ELSE snap[k][x]
<1>1. run[k] \in Runs /\ snap[k][x] \in Blobs \cup {NoBlob} /\ cached \in Blobs \cup {NoBlob}
  BY DEF Inv, Types, ReadTypes, Content, IsCache
<1>2. v = snap[k][x] \/ <<run[k], x>> \in ahead
  <2>1. Claim(run[k], x, snap[k][x])
    BY DEF Claim
  <2>2. cached # NoBlob => Claim(run[k], x, cached)
    BY DEF Claim, Held
  <2> QED BY <1>1, <2>1, <2>2 DEF Inv, Agree, OneValue
<1>3. got' = [got EXCEPT ![k][x] = v] /\ v \in Blobs \cup {NoBlob}
  BY <1>1 DEF Ask
<1> HIDE DEF v
<1>4. /\ got' \in [Readers -> Content] /\ got'[k][x] = v
      /\ \A y \in Slots : y # x => got'[k][y] = got[k][y]
      /\ \A j \in Readers : j # k => got'[j] = got[j]
  BY <1>3 DEF Inv, ReadTypes, Content
<1>5. took' \in [Readers -> SUBSET Slots]
  BY DEF Ask, Inv, ReadTypes
<1> QED BY <1>2, <1>4, <1>5

\* lookup brings nothing new.
LEMMA LookedUp ==
    ASSUME Inv, NEW r \in Runs,
           \/ blobs' = Lookup(blobs, r) /\ outputs' = outputs
           \/ blobs' = blobs /\ outputs' = Lookup(outputs, r)
    PROVE  CachesCopy /\ IsCache(blobs)' /\ IsCache(outputs)'
<1>1. IsCache(blobs) /\ IsCache(outputs)
  BY DEF Inv, Types
<1>2. Within(Lookup(blobs, r), blobs, r, Empty) /\ Within(Lookup(outputs, r), outputs, r, Empty)
  BY <1>1, Touched
<1> QED BY <1>2, EmptyContent, Copied

\* What a read took from its snapshot, as somebody who has it.
LEMMA TakenContent ==
    ASSUME Inv, NEW k \in Readers
    PROVE  /\ Taken(k) \in Content
           /\ rpc[k] # "idle" => \A x \in Slots :
                <<run[k], x>> \in ahead \/ Taken(k)[x] \in {NoBlob, snap[k][x]}
<1>1. Taken(k) \in Content /\ \A x \in Slots : Taken(k)[x] \in {NoBlob, got[k][x]}
  BY DEF Inv, ReadTypes, Content, Taken
<1>2. rpc[k] # "idle" => \A x \in Slots : got[k][x] = NoBlob \/ Has(k, x)
  BY DEF Inv, Reading, ReadingOf
<1> QED BY <1>1, <1>2 DEF Has

\* A read outside the transaction fills in nothing new.
LEMMA FilledIn ==
    ASSUME Inv, NEW k \in Readers, rpc[k] # "idle", k \notin inside,
           \/ blobs' = Fill(blobs, run[k], Taken(k)) /\ outputs' = outputs
           \/ blobs' = blobs /\ outputs' = Fill(outputs, run[k], Taken(k))
    PROVE  CachesCopy /\ IsCache(blobs)' /\ IsCache(outputs)'
<1>1. IsCache(blobs) /\ IsCache(outputs) /\ run[k] \in Runs
  BY DEF Inv, Types, ReadTypes
<1>2. \A x \in Slots : \/ <<run[k], x>> \in ahead
                       \/ Taken(k)[x] = NoBlob
                       \/ Held(run[k], x, Taken(k)[x])
  BY TakenContent DEF Held
<1>3. /\ Within(Fill(blobs, run[k], Taken(k)), blobs, run[k], Taken(k))
      /\ Within(Fill(outputs, run[k], Taken(k)), outputs, run[k], Taken(k))
  BY <1>1, TakenContent, FillWithin
<1> QED BY <1>1, <1>2, <1>3, Copied

\* One inside it may, and what is new is marked.
LEMMA FilledInside ==
    ASSUME Inv, NEW k \in inside, outputs' = outputs,
           blobs' = Fill(blobs, run[k], Taken(k)),
           \A x \in Slots : \/ <<run[k], x>> \in peeked'
                            \/ blobs'.entry[run[k]][x] = blobs.entry[run[k]][x]
                            \/ blobs'.entry[run[k]][x] = file[run[k]].blob[x]
    PROVE  CachesCopy /\ IsCache(blobs)' /\ IsCache(outputs)'
<1>1. k \in Readers /\ rpc[k] # "idle"
  BY DEF Inv, Types, Drafted
<1>2. IsCache(blobs) /\ IsCache(outputs) /\ run[k] \in Runs
  BY <1>1 DEF Inv, Types, ReadTypes
<1>3. Within(blobs', blobs, run[k], Taken(k))
  BY <1>1, <1>2, TakenContent, FillWithin
<1>4. ASSUME NEW r \in Runs, NEW x \in Slots, <<r, x>> \notin ahead
      PROVE  \/ blobs'.entry[r][x] = NoBlob
             \/ Held(r, x, blobs'.entry[r][x])
             \/ <<r, x>> \in peeked' /\ Claim(r, x, blobs'.entry[r][x])
  <2> DEFINE v == blobs'.entry[r][x]
  <2>1. v \in {NoBlob, blobs.entry[r][x]} \/ (r = run[k] /\ v = Taken(k)[x])
    BY <1>3 DEF Within
  <2> SUFFICES ASSUME v # NoBlob PROVE Held(r, x, v) \/ (<<r, x>> \in peeked' /\ Claim(r, x, v))
    OBVIOUS
  <2>2. r = run[k] => <<r, x>> \in peeked' \/ v = blobs.entry[r][x] \/ v = file[r].blob[x]
    OBVIOUS
  <2> HIDE DEF v
  <2>3. CASE v = blobs.entry[r][x] \/ v = file[r].blob[x]
    BY <2>3 DEF Held
  <2>4. CASE r = run[k] /\ v = Taken(k)[x] /\ <<r, x>> \in peeked'
    <3>1. v = snap[k][x]
      BY <1>1, <1>4, <2>4, TakenContent
    <3> QED BY <1>1, <2>4, <3>1 DEF Claim
  <2> QED BY <2>1, <2>2, <2>3, <2>4
<1>5. \A r \in Runs : \A x \in Slots :
        outputs'.entry[r][x] = NoBlob \/ Held(r, x, outputs'.entry[r][x])
  BY DEF Held
<1> HIDE DEF Held, Claim
<1> QED BY <1>2, <1>3, <1>4, <1>5 DEF CachesCopy, Within

\* Reads of a snapshot already taken change neither the rows nor what is owed.
LEMMA ReadStep ==
    ASSUME Inv, UNCHANGED <<file, tx, todo, reaping, run, snap, ahead>>, CachesCopy,
           IsCache(blobs)', IsCache(outputs)',
           peeked \subseteq peeked', peeked' \subseteq Runs \X Slots,
           got' \in [Readers -> Content], left' \in [Readers -> SUBSET Steps],
           took' \in [Readers -> SUBSET Slots],
           rpc' \in [Readers -> {"idle", "input", "states", "output", "fill", "done"}],
           \A k \in Readers : rpc'[k] # "idle" => rpc[k] # "idle",
           \A k \in inside : rpc'[k] \in {"input", "states", "done"},
           Reading'
    PROVE  Inv'
<1>0. UNCHANGED <<draft, open, inside>>
  BY DEF tx
<1>1. Types' /\ ReadTypes' /\ LivesIn(file)' /\ LivesIn(draft)' /\ Drafted'
  BY <1>0 DEF Inv, Types, ReadTypes, LivesIn, Drafted
<1>2. ReadsCopy
  BY <1>0 DEF ReadsCopy, Claim, Held, Inv, ReadTypes
<1>3. Keeps(file, file') /\ Keeps(draft, draft') /\ TodoShrinks
  BY <1>0, Unchanged
<1> QED BY <1>1, <1>2, <1>3, Agreement DEF Inv

LEMMA ReadInputInv ==
    ASSUME Inv, NEW k \in Readers, ReadInput(k)
    PROVE  Inv'
<1>1. /\ rpc[k] = "input" /\ rpc' = [rpc EXCEPT ![k] = "states"]
      /\ IF snap[k]["input"] = NoBlob THEN UNCHANGED <<got, took>> ELSE Ask(blobs, k, "input")
      /\ blobs' = Lookup(blobs, run[k])
      /\ UNCHANGED <<file, tx, outputs, todo, reaping, run, snap, left, peeked, ahead>>
  BY DEF ReadInput, history
<1>2. run[k] \in Runs /\ "input" \in Slots /\ "input" \notin Steps
  BY <1>1, SlotsAssumption DEF Inv, ReadTypes, Slots
<1>3. CachesCopy /\ IsCache(blobs)' /\ IsCache(outputs)'
  BY <1>1, <1>2, LookedUp
<1>4. \A x \in Slots : got[k][x] = NoBlob \/ Has(k, x)
  BY <1>1 DEF Inv, Reading, ReadingOf
<1>5. /\ got' \in [Readers -> Content] /\ took' \in [Readers -> SUBSET Slots]
      /\ got'[k]["input"] = snap[k]["input"] \/ <<run[k], "input">> \in ahead
      /\ \A y \in Slots : y # "input" => got'[k][y] = got[k][y]
      /\ \A j \in Readers : j # k => got'[j] = got[j]
  <2>1. CASE snap[k]["input"] = NoBlob
    BY <1>1, <1>2, <1>4, <2>1 DEF Inv, ReadTypes, Has
  <2>2. CASE snap[k]["input"] # NoBlob
    BY <1>1, <1>2, <2>2, Asked
  <2> QED BY <2>1, <2>2
<1>6. /\ rpc' \in [Readers -> {"idle", "input", "states", "output", "fill", "done"}]
      /\ rpc'[k] = "states" /\ \A j \in Readers : j # k => rpc'[j] = rpc[j]
  BY <1>1 DEF Inv, ReadTypes
<1>7. ReadingOf(k)'
  BY <1>1, <1>4, <1>5, <1>6 DEF Inv, Reading, ReadingOf, Has
<1>8. Reading'
  BY <1>1, <1>5, <1>6, <1>7, OthersRead
<1>9. left' \in [Readers -> SUBSET Steps] /\ peeked' \subseteq Runs \X Slots
  BY <1>1 DEF Inv, Types, ReadTypes
<1>10. \A j \in inside : rpc'[j] \in {"input", "states", "done"}
  BY <1>6 DEF Inv, Types, Drafted
<1> QED BY <1>1, <1>3, <1>5, <1>6, <1>8, <1>9, <1>10, ReadStep

LEMMA ReadStateInv ==
    ASSUME Inv, NEW k \in Readers, ReadState(k)
    PROVE  Inv'
<1>1. PICK s \in left[k] : Ask(blobs, k, s) /\ left' = [left EXCEPT ![k] = @ \ {s}]
  BY DEF ReadState
<1>2. /\ rpc[k] = "states" /\ blobs' = Lookup(blobs, run[k])
      /\ UNCHANGED <<file, tx, outputs, todo, reaping, rpc, run, snap, peeked, ahead>>
  BY DEF ReadState, history
<1>3. run[k] \in Runs /\ s \in Slots
  BY <1>2 DEF Inv, ReadTypes, Slots
<1>4. snap[k][s] # NoBlob
  BY <1>2 DEF Inv, Reading, ReadingOf
<1>5. CachesCopy /\ IsCache(blobs)' /\ IsCache(outputs)'
  BY <1>2, <1>3, LookedUp
<1>6. /\ got' \in [Readers -> Content] /\ took' \in [Readers -> SUBSET Slots]
      /\ got'[k][s] = snap[k][s] \/ <<run[k], s>> \in ahead
      /\ \A y \in Slots : y # s => got'[k][y] = got[k][y]
      /\ \A j \in Readers : j # k => got'[j] = got[j]
  BY <1>1, <1>2, <1>3, <1>4, Asked
<1>7. /\ left' \in [Readers -> SUBSET Steps] /\ left'[k] = left[k] \ {s}
      /\ \A j \in Readers : j # k => left'[j] = left[j]
  BY <1>1 DEF Inv, ReadTypes
<1>8. ReadingOf(k)'
  <2>1. ReadingOf(k)
    BY DEF Inv, Reading
  <2> QED BY <1>2, <1>6, <1>7, <2>1 DEF ReadingOf, Has
<1>9. Reading'
  BY <1>2, <1>6, <1>7, <1>8, OthersRead
<1>10. /\ rpc' \in [Readers -> {"idle", "input", "states", "output", "fill", "done"}]
       /\ peeked' \subseteq Runs \X Slots
  BY <1>2 DEF Inv, Types, ReadTypes
<1>11. \A j \in inside : rpc'[j] \in {"input", "states", "done"}
  BY <1>2 DEF Inv, Drafted
<1> QED BY <1>2, <1>5, <1>6, <1>7, <1>9, <1>10, <1>11, ReadStep

LEMMA EndReadInv ==
    ASSUME Inv, NEW k \in Readers, EndRead(k)
    PROVE  Inv'
<1> DEFINE new == {y \in Slots : k \in inside
                     /\ blobs'.entry[run[k]][y] \notin {blobs.entry[run[k]][y], file[run[k]].blob[y]}}
<1>1. /\ rpc[k] = "states" /\ left[k] = {} /\ rpc' = [rpc EXCEPT ![k] = "done"]
      /\ blobs' = IF hit[k] THEN blobs ELSE Fill(blobs, run[k], Taken(k))
      /\ peeked' = peeked \cup {<<run[k], x>> : x \in new}
      /\ UNCHANGED <<file, tx, outputs, todo, reaping, run, snap, got, left, took, ahead>>
  BY DEF EndRead
<1>2. run[k] \in Runs
  BY <1>1 DEF Inv, ReadTypes
<1>3. peeked \subseteq peeked' /\ peeked' \subseteq Runs \X Slots
  BY <1>1, <1>2 DEF Inv, Types
<1>4. CachesCopy /\ IsCache(blobs)' /\ IsCache(outputs)'
  <2>1. CASE hit[k]
    BY <1>1, <2>1, Unchanged DEF Inv, Types
  <2>2. CASE ~hit[k] /\ k \notin inside
    BY <1>1, <2>2, FilledIn
  <2>3. CASE ~hit[k] /\ k \in inside
    <3>1. \A x \in Slots : \/ x \in new
                           \/ blobs'.entry[run[k]][x] = blobs.entry[run[k]][x]
                           \/ blobs'.entry[run[k]][x] = file[run[k]].blob[x]
      BY <2>3
    <3>2. \A x \in new : <<run[k], x>> \in peeked'
      BY <1>1
    <3> HIDE DEF new
    <3> QED BY <1>1, <2>3, <3>1, <3>2, FilledInside
  <2> QED BY <2>1, <2>2, <2>3
<1>5. /\ rpc' \in [Readers -> {"idle", "input", "states", "output", "fill", "done"}]
      /\ rpc'[k] = "done" /\ \A j \in Readers : j # k => rpc'[j] = rpc[j]
  BY <1>1 DEF Inv, ReadTypes
<1>6. \A x \in Slots : Has(k, x)'
  BY <1>1 DEF Inv, Reading, ReadingOf, Has
<1>7. ReadingOf(k)'
  BY <1>5, <1>6 DEF ReadingOf
<1>8. Reading'
  BY <1>1, <1>5, <1>7, OthersRead
<1>9. /\ got' \in [Readers -> Content] /\ left' \in [Readers -> SUBSET Steps]
      /\ took' \in [Readers -> SUBSET Slots]
  BY <1>1 DEF Inv, ReadTypes
<1>10. \A j \in inside : rpc'[j] \in {"input", "states", "done"}
  BY <1>5 DEF Inv, Types, Drafted
<1> HIDE DEF new
<1> QED BY <1>1, <1>3, <1>4, <1>5, <1>8, <1>9, <1>10, ReadStep

LEMMA ReadOutputInv ==
    ASSUME Inv, NEW k \in Readers, ReadOutput(k)
    PROVE  Inv'
<1>1. /\ rpc[k] = "output"
      /\ UNCHANGED <<file, tx, blobs, todo, reaping, run, snap, left, peeked, ahead>>
  BY DEF ReadOutput, history
<1>2. run[k] \in Runs /\ "output" \in Slots
  BY <1>1 DEF Inv, ReadTypes, Slots
<1>3. /\ rpc' \in [Readers -> {"idle", "input", "states", "output", "fill", "done"}]
      /\ rpc'[k] \in {"fill", "done"} /\ \A j \in Readers : j # k => rpc'[j] = rpc[j]
  BY DEF ReadOutput, Inv, ReadTypes
<1>4. /\ CachesCopy /\ IsCache(blobs)' /\ IsCache(outputs)'
      /\ got' \in [Readers -> Content] /\ took' \in [Readers -> SUBSET Slots]
      /\ \A x \in Slots : got'[k][x] = snap[k][x] \/ <<run[k], x>> \in ahead
      /\ \A j \in Readers : j # k => got'[j] = got[j]
  <2>1. CASE Beside(snap[k]["output"])
    <3>1. snap[k]["output"] # NoBlob
      BY <2>1, BlobsAssumption, LimitsAssumption DEF Beside
    <3>2. Ask(outputs, k, "output") /\ outputs' = Lookup(outputs, run[k])
      BY <2>1 DEF ReadOutput
    <3>3. CachesCopy /\ IsCache(blobs)' /\ IsCache(outputs)'
      BY <1>1, <1>2, <3>2, LookedUp
    <3>4. \A x \in Slots : x # "output" => Has(k, x)
      BY <1>1 DEF Inv, Reading, ReadingOf
    <3>5. /\ got' \in [Readers -> Content] /\ took' \in [Readers -> SUBSET Slots]
          /\ got'[k]["output"] = snap[k]["output"] \/ <<run[k], "output">> \in ahead
          /\ \A y \in Slots : y # "output" => got'[k][y] = got[k][y]
          /\ \A j \in Readers : j # k => got'[j] = got[j]
      BY <1>1, <1>2, <3>1, <3>2, Asked
    <3> QED BY <3>3, <3>4, <3>5 DEF Has
  <2>2. CASE ~Beside(snap[k]["output"])
    <3>1. UNCHANGED <<outputs, got, took>>
      BY <2>2 DEF ReadOutput
    <3>2. \A x \in Slots : Has(k, x)
      BY <1>1, <2>2 DEF Inv, Reading, ReadingOf
    <3> QED BY <1>1, <3>1, <3>2, Unchanged DEF Inv, Types, ReadTypes, Has
  <2> QED BY <2>1, <2>2
<1>5. \A x \in Slots : Has(k, x)'
  BY <1>1, <1>4 DEF Has
<1>6. ReadingOf(k)'
  BY <1>3, <1>5 DEF ReadingOf
<1>7. Reading'
  BY <1>1, <1>3, <1>4, <1>6, OthersRead
<1>8. left' \in [Readers -> SUBSET Steps] /\ peeked' \subseteq Runs \X Slots
  BY <1>1 DEF Inv, Types, ReadTypes
<1>9. \A j \in inside : rpc'[j] \in {"input", "states", "done"}
  BY <1>1, <1>3 DEF Inv, Types, Drafted
<1> QED BY <1>1, <1>3, <1>4, <1>7, <1>8, <1>9, ReadStep

LEMMA FillOutputInv ==
    ASSUME Inv, NEW k \in Readers, FillOutput(k)
    PROVE  Inv'
<1>1. /\ rpc[k] = "fill" /\ rpc' = [rpc EXCEPT ![k] = "done"]
      /\ outputs' = Fill(outputs, run[k], Taken(k))
      /\ UNCHANGED <<file, tx, blobs, todo, reaping, run, snap, got, left, took, peeked, ahead>>
  BY DEF FillOutput, history
<1>2. k \notin inside
  BY <1>1 DEF Inv, Drafted
<1>3. CachesCopy /\ IsCache(blobs)' /\ IsCache(outputs)'
  BY <1>1, <1>2, FilledIn
<1>4. /\ rpc' \in [Readers -> {"idle", "input", "states", "output", "fill", "done"}]
      /\ rpc'[k] = "done" /\ \A j \in Readers : j # k => rpc'[j] = rpc[j]
  BY <1>1 DEF Inv, ReadTypes
<1>5. \A x \in Slots : Has(k, x)'
  BY <1>1 DEF Inv, Reading, ReadingOf, Has
<1>6. ReadingOf(k)'
  BY <1>4, <1>5 DEF ReadingOf
<1>7. Reading'
  BY <1>1, <1>4, <1>6, OthersRead
<1>8. /\ got' \in [Readers -> Content] /\ left' \in [Readers -> SUBSET Steps]
      /\ took' \in [Readers -> SUBSET Slots] /\ peeked' \subseteq Runs \X Slots
  BY <1>1 DEF Inv, Types, ReadTypes
<1>9. \A j \in inside : rpc'[j] \in {"input", "states", "done"}
  BY <1>2, <1>4 DEF Inv, Types, Drafted
<1> QED BY <1>1, <1>3, <1>4, <1>7, <1>8, <1>9, ReadStep

LEMMA ReturnInv ==
    ASSUME Inv, NEW k \in Readers, Return(k)
    PROVE  Inv'
<1>1. /\ Quit({k}) /\ k \notin inside
      /\ UNCHANGED <<file, draft, open, inside, blobs, outputs, todo, reaping, peeked, ahead>>
  BY DEF Return, tx, caches, history
<1>2. /\ ReadTypes' /\ Reading' /\ rpc'[k] = "idle"
      /\ \A j \in Readers : j # k =>
           rpc'[j] = rpc[j] /\ run'[j] = run[j] /\ snap'[j] = snap[j]
  BY <1>1, QuitReads
<1>3. Types' /\ LivesIn(file)' /\ LivesIn(draft)'
  BY <1>1 DEF Inv, Types, LivesIn
<1>4. Drafted'
  BY <1>1, <1>2 DEF Inv, Types, Drafted
<1>5. ReadsCopy
  BY <1>1, <1>2 DEF ReadsCopy, Claim, Held, Inv, ReadTypes
<1>6. Keeps(file, file') /\ Keeps(draft, draft') /\ CachesCopy /\ TodoShrinks
  BY <1>1, Unchanged
<1> QED BY <1>1, <1>2, <1>3, <1>4, <1>5, <1>6, Agreement DEF Inv

\* A read begins with the blobs of the rows it is made on: the file's, or the
\* transaction's when it is inside.
LEMMA BeginInv ==
    ASSUME Inv, NEW k \in Readers, NEW r \in Runs, NEW rows \in Rows, LivesIn(rows),
           rpc[k] = "idle", Begin(k, r, rows),
           \/ rows = file /\ inside' = inside
           \/ /\ rows = draft /\ inside' = inside \cup {k}
              /\ reaping = NoRun /\ rows[r].life = "live"
    PROVE  Inv'
<1> DEFINE live == rows[r].life = "live"
           b == IF live THEN rows[r].blob
                ELSE [Empty EXCEPT !["output"] = rows[r].blob["output"]]
           g == [x \in Slots |-> IF x = "input" \/ Beside(b[x]) THEN NoBlob ELSE b[x]]
           ask == {s \in Steps : Beside(b[s])}
           pc == IF live THEN "input" ELSE "output"
<1>1. UNCHANGED <<file, draft, open, blobs, outputs, todo, reaping, took, peeked, ahead>>
  BY DEF Begin, caches, history
<1>2. "output" \in Slots /\ "input" \in Slots /\ Steps \subseteq Slots
  BY DEF Slots
<1>3. /\ b \in Content
      /\ \A x \in Slots : b[x] \in {NoBlob, rows[r].blob[x]}
      /\ live => b["output"] = NoBlob
      /\ ~live => \A x \in Slots : x # "output" => b[x] = NoBlob
  <2>1. rows[r].blob \in Content
    BY DEF Rows
  <2>2. live => rows[r].blob["output"] = NoBlob
    BY DEF LivesIn
  <2> QED BY <1>2, <2>1, <2>2 DEF Empty, Content
<1>4. snap' = [snap EXCEPT ![k] = b] /\ snap'[k] = b
  BY DEF Begin, Inv, ReadTypes
<1>5. got' = [got EXCEPT ![k] = g] /\ left' = [left EXCEPT ![k] = ask]
  <2> HIDE DEF b
  <2> QED BY <1>4 DEF Begin
<1>6. rpc' = [rpc EXCEPT ![k] = pc] /\ run' = [run EXCEPT ![k] = r]
  BY DEF Begin
<1> HIDE DEF b
<1>7. g \in Content /\ \A x \in Slots : g[x] = IF x = "input" \/ Beside(b[x]) THEN NoBlob ELSE b[x]
  BY <1>3 DEF Content
<1>8. ask \subseteq Steps /\ \A x \in Steps : x \in ask <=> Beside(b[x])
  OBVIOUS
<1>9. pc \in {"input", "output"} /\ (pc = "input" <=> live)
  OBVIOUS
<1> HIDE DEF g, ask, pc
<1>10. ReadTypes'
  BY <1>1, <1>3, <1>4, <1>5, <1>6, <1>7, <1>8, <1>9 DEF Inv, ReadTypes
<1>11. /\ rpc'[k] = pc /\ run'[k] = r /\ got'[k] = g /\ left'[k] = ask
       /\ \A j \in Readers : j # k =>
            /\ rpc'[j] = rpc[j] /\ run'[j] = run[j] /\ snap'[j] = snap[j]
            /\ got'[j] = got[j] /\ left'[j] = left[j]
  BY <1>4, <1>5, <1>6 DEF Inv, ReadTypes
<1>12. Types' /\ LivesIn(file)' /\ LivesIn(draft)'
  BY <1>1 DEF Inv, Types, LivesIn
<1>13. Drafted'
  <2>1. \A j \in inside' : rpc'[j] \in {"input", "states", "done"}
    <3>1. k \notin inside
      BY DEF Inv, Drafted
    <3> QED BY <1>9, <1>11, <3>1 DEF Inv, Types, Drafted
  <2> QED BY <1>1, <2>1 DEF Inv, Drafted
<1>14. ReadsCopy
  <2>1. \A x \in Slots : b[x] = NoBlob \/ Held(r, x, b[x]) \/ (k \in inside' /\ Claim(r, x, b[x]))
    <3>1. CASE rows = file
      BY <1>3, <3>1 DEF Held
    <3>2. CASE rows = draft /\ k \in inside'
      BY <1>3, <3>2 DEF Claim
    <3> QED BY <3>1, <3>2
  <2>2. \A j \in Readers : j # k /\ rpc[j] # "idle" => \A x \in Slots :
          /\ run[j] \in Runs
          /\ \/ snap[j][x] = NoBlob
             \/ Held(run[j], x, snap[j][x])
             \/ j \in inside' /\ Claim(run[j], x, snap[j][x])
    BY DEF Claim, Held, Inv, ReadTypes
  <2> HIDE DEF Claim, Held
  <2> QED BY <1>4, <1>11, <2>1, <2>2 DEF ReadsCopy
<1>15. Keeps(file, file') /\ Keeps(draft, draft') /\ CachesCopy /\ TodoShrinks
  BY <1>1, Unchanged
<1>16. \A x \in Slots : Beside(b[x]) => b[x] # NoBlob
  BY BlobsAssumption, LimitsAssumption DEF Beside
<1>17. ReadingOf(k)'
  <2>1. \A x \in Slots : g[x] \in {NoBlob, b[x]}
    BY <1>7
  <2>2. live => \A x \in Slots : x = "input" \/ x \in ask \/ g[x] = b[x]
    BY <1>3, <1>7, <1>8 DEF Slots
  <2>3. live => \A x \in ask : b[x] # NoBlob
    BY <1>2, <1>8, <1>16
  <2>4. ~live => \A x \in Slots : (x = "output" /\ Beside(b[x])) \/ g[x] = b[x]
    BY <1>3, <1>7
  <2> QED BY <1>4, <1>9, <1>11, <2>1, <2>2, <2>3, <2>4 DEF ReadingOf, Beside, Has
<1>18. Reading'
  BY <1>1, <1>11, <1>17, OthersRead
<1>19. Agree'
  BY <1>1, <1>14, <1>15, Agreement
<1> QED BY <1>10, <1>12, <1>13, <1>18, <1>19 DEF Inv

LEMMA BeginReadInv ==
    ASSUME Inv, NEW k \in Readers, NEW r \in Runs, BeginRead(k, r) \/ Occupied(k, r)
    PROVE  Inv'
<1>1. file \in Rows /\ draft \in Rows /\ LivesIn(file) /\ LivesIn(draft)
  BY DEF Inv, Types
<1>2. CASE BeginRead(k, r)
  <2>1. rpc[k] = "idle" /\ Begin(k, r, file) /\ inside' = inside
    BY <1>2 DEF BeginRead
  <2> QED BY <1>1, <2>1, BeginInv
<1>3. CASE Occupied(k, r)
  <2>1. /\ rpc[k] = "idle" /\ Begin(k, r, draft) /\ inside' = inside \cup {k}
        /\ reaping = NoRun /\ draft[r].life = "live"
    BY <1>3 DEF Occupied
  <2> QED BY <1>1, <2>1, BeginInv
<1> QED BY <1>2, <1>3

-----------------------------------------------------------------------------
(* The theorems.                                                            *)

LEMMA NextInv == Inv /\ [Next]_vars => Inv'
<1> SUFFICES ASSUME Inv, [Next]_vars PROVE Inv'
  OBVIOUS
<1>1. ASSUME NEW r \in Runs, Write(r) PROVE Inv'
  BY <1>1, CreateRunInv, CommitStateInv, CommitTerminalInv, TellCacheInv DEF Write
<1>2. ASSUME NEW r \in Runs, ReapDrops(r) PROVE Inv'
  BY <1>2, ReapDropsInv
<1>3. CASE TxCommits \/ TxFails \/ ReapEnds \/ Reopen
  BY <1>3, TxCommitsInv, TxFailsInv, ReapEndsInv, ReopenInv
<1>4. ASSUME NEW k \in Readers, Read(k) PROVE Inv'
  BY <1>4, ReadInputInv, ReadStateInv, EndReadInv, ReadOutputInv, FillOutputInv, ReturnInv DEF Read
<1>5. ASSUME NEW k \in Readers, NEW r \in Runs, BeginRead(k, r) \/ Occupied(k, r) PROVE Inv'
  BY <1>5, BeginReadInv
<1>6. CASE UNCHANGED vars
  <2>1. UNCHANGED <<file, draft, open, inside, blobs, outputs, todo, reaping, reads, peeked, ahead>>
    BY <1>6 DEF vars, tx, caches, history
  <2>2. Types' /\ LivesIn(file)' /\ LivesIn(draft)' /\ Drafted'
    BY <2>1 DEF Inv, Types, LivesIn, Drafted, reads
  <2>3. Keeps(file, file') /\ Keeps(draft, draft') /\ CachesCopy /\ ReadsCopy /\ TodoShrinks
    BY <2>1, Unchanged DEF reads
  <2>4. Agree'
    BY <2>1, <2>3, Agreement
  <2> QED BY <2>1, <2>2, <2>4, ReadersAlone DEF Inv
<1> QED BY <1>1, <1>2, <1>3, <1>4, <1>5, <1>6 DEF Next

\* Everyone who has a blob of a Run's slot has the same one, whatever the order
\* of commits, rollbacks, cache calls, fills, evictions, reaping and restarts,
\* but for a blob that was cached inside a transaction which was rolled back.
THEOREM BlobsAgreeAlways == Spec => []Inv
BY InitInv, NextInv, PTL DEF Spec

\* GetRun and ListNonterminal return the blobs of the snapshot they were made
\* on, whichever of them the caches had, unless the cache kept a blob of a
\* transaction that was rolled back after an occupied slot's read in it.
THEOREM ReadIsSnapshotAlways == Spec => []ReadIsSnapshot
<1>1. Inv => ReadIsSnapshot
  BY DEF Inv, Reading, ReadingOf, Has, ReadIsSnapshot
<1> QED BY <1>1, BlobsAgreeAlways, PTL

\* What a cache has of a Run, as the file or the open transaction has it.
LEMMA InvCacheIsFile == Inv => CacheIsFile
<1> SUFFICES ASSUME Inv, NEW r \in Runs, NEW x \in Slots, <<r, x>> \notin ahead
             PROVE  /\ file[r].life = "live" /\ blobs.entry[r][x] # NoBlob
                         => blobs.entry[r][x] = IF <<r, x>> \in peeked THEN draft[r].blob[x]
                                                                       ELSE file[r].blob[x]
                    /\ file[r].life = "terminal" /\ outputs.entry[r][x] # NoBlob
                         => outputs.entry[r][x] = file[r].blob[x]
  BY DEF CacheIsFile
<1>1. ASSUME file[r].life = "live", blobs.entry[r][x] # NoBlob
      PROVE  blobs.entry[r][x] = IF <<r, x>> \in peeked THEN draft[r].blob[x]
                                                        ELSE file[r].blob[x]
  <2>1. Held(r, x, blobs.entry[r][x]) /\ Claim(r, x, blobs.entry[r][x])
    BY <1>1 DEF Held, Claim
  <2>2. draft[r].life # "gone"
    BY <1>1 DEF Inv, Drafted
  <2> QED BY <1>1, <2>1, <2>2 DEF Inv, Agree, OfDraft, OfFile
<1>2. ASSUME file[r].life = "terminal", outputs.entry[r][x] # NoBlob
      PROVE  outputs.entry[r][x] = file[r].blob[x]
  <2>1. Claim(r, x, outputs.entry[r][x])
    BY <1>2 DEF Held, Claim
  <2>2. draft[r] = file[r]
    BY <1>2 DEF Inv, Drafted
  <2> QED BY <1>2, <2>1, <2>2 DEF Inv, Agree, OfDraft
<1> QED BY <1>1, <1>2

\* A cached blob of a Run that is in the file is the file's, or that of the
\* transaction it was read in; a late fill brings nothing back; only a rollback
\* after such a read leaves a cache ahead of the file.
THEOREM CacheIsFileAlways == Spec => []CacheIsFile
BY InvCacheIsFile, BlobsAgreeAlways, PTL

-----------------------------------------------------------------------------
(* Sums.  SumFunctionOnSet takes the elements of a set in some order; what  *)
(* it computes does not depend on the order.                                *)

\* Induction, as a fact about sets of numbers.
LEMMA AllNumbers ==
    ASSUME NEW G \in SUBSET Nat, 0 \in G, \A n \in G : n + 1 \in G
    PROVE  G = Nat
<1> SUFFICES ASSUME Nat \ G # {} PROVE FALSE
  OBVIOUS
<1>1. PICK x \in Nat \ G : \A y \in Nat \ G : ~(<<y, x>> \in OpToRel(<, Nat))
  BY NatLessThanWellFounded, WFMin, Zenon
<1>2. \A y \in Nat \ G : ~(y < x)
  BY <1>1 DEF OpToRel
<1>3. x \in Nat \ {0}
  OBVIOUS
<1>4. x - 1 \in Nat /\ x - 1 < x /\ (x - 1) + 1 = x
  BY <1>3
<1>5. x - 1 \in G
  BY <1>2, <1>4
<1> QED BY <1>4, <1>5

\* The element that is taken first.
Pick(s) == CHOOSE x \in s : TRUE

LEMMA PickIn == \A s : s # {} => Pick(s) \in s
BY DEF Pick

Body(f, h, s) == IF s = {} THEN 0 ELSE f[Pick(s)] + h[s \ {Pick(s)}]

\* h sums f over each subset of S.
Sums(f, h, S) == h = [s \in SUBSET S |-> Body(f, h, s)]

LEMMA SumIsChosen ==
    ASSUME NEW f, NEW S
    PROVE  SumFunctionOnSet(f, S) = (CHOOSE h : Sums(f, h, S))[S]
BY DEF SumFunctionOnSet, FoldFunctionOnSet, MapThenFoldSet, Sums, Body, Pick

\* There is such an h: one for the subsets of at most n elements, for every n.
LEMMA SumsExist ==
    ASSUME NEW f, NEW S, IsFiniteSet(S)
    PROVE  \E h : Sums(f, h, S)
<1> DEFINE D(n) == {s \in SUBSET S : Cardinality(s) <= n}
           Upto(h, n) == h = [s \in D(n) |-> Body(f, h, s)]
           G == {n \in Nat : \E h : Upto(h, n)}
<1>0. \A s \in SUBSET S : IsFiniteSet(s) /\ Cardinality(s) \in Nat
  BY FS_Subset, FS_CardinalityType
<1>1. 0 \in G
  <2> DEFINE h == [s \in D(0) |-> 0]
  <2>1. \A s \in D(0) : s = {}
    BY <1>0, FS_EmptySet
  <2>2. \A s \in D(0) : Body(f, h, s) = 0
    BY <2>1 DEF Body
  <2>3. Upto(h, 0)
    <3> HIDE DEF D
    <3> QED BY <2>2
  <2> QED BY <2>3
<1>2. ASSUME NEW n \in G PROVE n + 1 \in G
  <2>1. PICK h : Upto(h, n)
    OBVIOUS
  <2> DEFINE g == [s \in D(n + 1) |-> Body(f, h, s)]
  <2>2. n \in Nat
    OBVIOUS
  <2>3. D(n) \subseteq D(n + 1)
    BY <1>0, <2>2
  <2>4. \A s \in D(n) : g[s] = h[s]
    <3> HIDE DEF D
    <3> QED BY <2>1, <2>3
  <2>5. \A s \in D(n + 1) : s # {} => s \ {Pick(s)} \in D(n)
    <3> SUFFICES ASSUME NEW s \in D(n + 1), s # {} PROVE s \ {Pick(s)} \in D(n)
      OBVIOUS
    <3>1. Pick(s) \in s /\ s \in SUBSET S
      BY PickIn
    <3>2. Cardinality(s \ {Pick(s)}) = Cardinality(s) - 1
      BY <1>0, <3>1, FS_RemoveElement
    <3> QED BY <1>0, <2>2, <3>1, <3>2
  <2>6. \A s \in D(n + 1) : Body(f, g, s) = Body(f, h, s)
    <3> HIDE DEF D, g
    <3> QED BY <2>4, <2>5 DEF Body
  <2>7. Upto(g, n + 1)
    <3>1. g = [s \in D(n + 1) |-> Body(f, h, s)]
      OBVIOUS
    <3> HIDE DEF D, g
    <3> QED BY <2>6, <3>1
  <2> HIDE DEF Upto, g
  <2> QED BY <2>2, <2>7
<1>3. G = Nat
  <2> HIDE DEF G
  <2>1. G \in SUBSET Nat
    BY DEF G
  <2> QED BY <1>1, <1>2, <2>1, AllNumbers
<1>4. PICK h : Upto(h, Cardinality(S))
  BY <1>0, <1>3
<1>5. D(Cardinality(S)) = SUBSET S
  BY <1>0, FS_Subset
<1>6. Sums(f, h, S)
  BY <1>4, <1>5 DEF Sums
<1> QED BY <1>6

\* And it is the only one: what it says of a subset, any other says too.
LEMMA SumsAgree ==
    ASSUME NEW f, NEW S, IsFiniteSet(S), NEW T \in SUBSET S,
           NEW h, Sums(f, h, S), NEW g, Sums(f, g, T)
    PROVE  \A s \in SUBSET T : g[s] = h[s]
<1> DEFINE G == {n \in Nat : \A s \in SUBSET T : Cardinality(s) = n => g[s] = h[s]}
<1>0. \A s \in SUBSET T : IsFiniteSet(s) /\ Cardinality(s) \in Nat
  BY FS_Subset, FS_CardinalityType
<1>1. \A s \in SUBSET T : g[s] = Body(f, g, s) /\ h[s] = Body(f, h, s)
  BY DEF Sums
<1>2. 0 \in G
  <2>1. \A s \in SUBSET T : Cardinality(s) = 0 => s = {}
    BY <1>0, FS_EmptySet
  <2> QED BY <1>1, <2>1 DEF Body
<1>3. ASSUME NEW n \in G PROVE n + 1 \in G
  <2> SUFFICES ASSUME NEW s \in SUBSET T, Cardinality(s) = n + 1 PROVE g[s] = h[s]
    OBVIOUS
  <2>1. n \in Nat /\ s # {}
    BY FS_EmptySet
  <2>2. Pick(s) \in s
    BY <2>1, PickIn
  <2>3. Cardinality(s \ {Pick(s)}) = n
    BY <1>0, <2>1, <2>2, FS_RemoveElement
  <2>4. g[s \ {Pick(s)}] = h[s \ {Pick(s)}]
    BY <2>3
  <2> QED BY <1>1, <2>1, <2>4 DEF Body
<1>4. G = Nat
  <2> HIDE DEF G
  <2>1. G \in SUBSET Nat
    BY DEF G
  <2> QED BY <1>2, <1>3, <2>1, AllNumbers
<1> QED BY <1>0, <1>4

LEMMA SumOfNone == \A f : SumFunctionOnSet(f, {}) = 0
<1> TAKE f
<1>1. IsFiniteSet({})
  BY FS_EmptySet
<1>2. Sums(f, CHOOSE h : Sums(f, h, {}), {})
  BY <1>1, SumsExist
<1> DEFINE h == CHOOSE g : Sums(f, g, {})
<1>3. h[{}] = Body(f, h, {})
  BY <1>2 DEF Sums
<1> QED BY <1>3, SumIsChosen DEF Body

LEMMA SumTakesOne ==
    ASSUME NEW f, NEW S, IsFiniteSet(S), S # {}
    PROVE  SumFunctionOnSet(f, S) = f[Pick(S)] + SumFunctionOnSet(f, S \ {Pick(S)})
<1> DEFINE T == S \ {Pick(S)}
           h == CHOOSE i : Sums(f, i, S)
           g == CHOOSE i : Sums(f, i, T)
<1>1. IsFiniteSet(T) /\ T \in SUBSET S
  BY FS_Subset
<1>2. Sums(f, h, S) /\ Sums(f, g, T)
  <2>1. Sums(f, h, S)
    BY SumsExist
  <2>2. Sums(f, g, T)
    <3> HIDE DEF T
    <3> QED BY <1>1, SumsExist
  <2> QED BY <2>1, <2>2
<1> HIDE DEF h, g
<1>3. g[T] = h[T]
  <2> HIDE DEF T
  <2> QED BY <1>1, <1>2, SumsAgree
<1>4. h[S] = f[Pick(S)] + h[T]
  BY <1>2 DEF Sums, Body
<1>5. SumFunctionOnSet(f, S) = h[S] /\ SumFunctionOnSet(f, T) = g[T]
  BY SumIsChosen DEF h, g
<1> QED BY <1>3, <1>4, <1>5

LEMMA SumIsInt ==
    ASSUME NEW f, NEW S, IsFiniteSet(S), \A x \in S : f[x] \in Int
    PROVE  SumFunctionOnSet(f, S) \in Int
<1> DEFINE G == {n \in Nat : \A T \in SUBSET S :
                    Cardinality(T) = n => SumFunctionOnSet(f, T) \in Int}
<1>0. \A T \in SUBSET S : IsFiniteSet(T) /\ Cardinality(T) \in Nat
  BY FS_Subset, FS_CardinalityType
<1>1. 0 \in G
  BY <1>0, FS_EmptySet, SumOfNone
<1>2. ASSUME NEW n \in G PROVE n + 1 \in G
  <2> SUFFICES ASSUME NEW T \in SUBSET S, Cardinality(T) = n + 1
               PROVE  SumFunctionOnSet(f, T) \in Int
    OBVIOUS
  <2>0. n \in Nat /\ IsFiniteSet(T)
    BY <1>0
  <2>1. T # {}
    BY <2>0, FS_EmptySet
  <2>2. Pick(T) \in T
    BY <2>1, PickIn
  <2>3. Cardinality(T \ {Pick(T)}) = n
    <3>1. Cardinality(T \ {Pick(T)}) = Cardinality(T) - 1
      BY <2>0, <2>2, FS_RemoveElement
    <3> QED BY <2>0, <3>1
  <2>4. SumFunctionOnSet(f, T \ {Pick(T)}) \in Int
    BY <2>3
  <2>5. f[Pick(T)] \in Int
    BY <2>2
  <2> QED BY <1>0, <2>1, <2>4, <2>5, SumTakesOne
<1>3. G = Nat
  <2> HIDE DEF G
  <2>1. G \in SUBSET Nat
    BY DEF G
  <2> QED BY <1>1, <1>2, <2>1, AllNumbers
<1> QED BY <1>0, <1>3

LEMMA SumIsNat ==
    ASSUME NEW f, NEW S, IsFiniteSet(S), \A x \in S : f[x] \in Nat
    PROVE  SumFunctionOnSet(f, S) \in Nat
<1> DEFINE G == {n \in Nat : \A T \in SUBSET S :
                    Cardinality(T) = n => SumFunctionOnSet(f, T) \in Nat}
<1>0. \A T \in SUBSET S : IsFiniteSet(T) /\ Cardinality(T) \in Nat
  BY FS_Subset, FS_CardinalityType
<1>1. 0 \in G
  BY <1>0, FS_EmptySet, SumOfNone
<1>2. ASSUME NEW n \in G PROVE n + 1 \in G
  <2> SUFFICES ASSUME NEW T \in SUBSET S, Cardinality(T) = n + 1
               PROVE  SumFunctionOnSet(f, T) \in Nat
    OBVIOUS
  <2>0. n \in Nat /\ IsFiniteSet(T)
    BY <1>0
  <2>1. T # {}
    BY <2>0, FS_EmptySet
  <2>2. Pick(T) \in T
    BY <2>1, PickIn
  <2>3. Cardinality(T \ {Pick(T)}) = n
    <3>1. Cardinality(T \ {Pick(T)}) = Cardinality(T) - 1
      BY <2>0, <2>2, FS_RemoveElement
    <3> QED BY <2>0, <3>1
  <2>4. SumFunctionOnSet(f, T \ {Pick(T)}) \in Nat
    BY <2>3
  <2>5. f[Pick(T)] \in Nat
    BY <2>2
  <2> QED BY <1>0, <2>1, <2>4, <2>5, SumTakesOne
<1>3. G = Nat
  <2> HIDE DEF G
  <2>1. G \in SUBSET Nat
    BY DEF G
  <2> QED BY <1>1, <1>2, <2>1, AllNumbers
<1> QED BY <1>0, <1>3

\* Any element may be taken first.
LEMMA SumTakesAny ==
    ASSUME NEW f, NEW S, IsFiniteSet(S), \A x \in S : f[x] \in Int, NEW e \in S
    PROVE  SumFunctionOnSet(f, S) = f[e] + SumFunctionOnSet(f, S \ {e})
<1> DEFINE Sum(T) == SumFunctionOnSet(f, T)
           G == {n \in Nat : \A T \in SUBSET S : Cardinality(T) = n =>
                    \A x \in T : Sum(T) = f[x] + Sum(T \ {x})}
<1>0. \A T \in SUBSET S : IsFiniteSet(T) /\ Cardinality(T) \in Nat /\ Sum(T) \in Int
  BY FS_Subset, FS_CardinalityType, SumIsInt
<1>1. 0 \in G
  BY <1>0, FS_EmptySet
<1>2. ASSUME NEW n \in G PROVE n + 1 \in G
  <2> SUFFICES ASSUME NEW T \in SUBSET S, Cardinality(T) = n + 1, NEW x \in T
               PROVE  Sum(T) = f[x] + Sum(T \ {x})
    OBVIOUS
  <2>0. n \in Nat /\ IsFiniteSet(T)
    BY <1>0
  <2> DEFINE p == Pick(T)
  <2>1. p \in T
    BY PickIn
  <2>2. Sum(T) = f[p] + Sum(T \ {p})
    BY <1>0, SumTakesOne
  <2>3. CASE x = p
    BY <2>2, <2>3
  <2>4. CASE x # p
    <3>1. Cardinality(T \ {p}) = n /\ Cardinality(T \ {x}) = n
      <4>1. /\ Cardinality(T \ {p}) = Cardinality(T) - 1
            /\ Cardinality(T \ {x}) = Cardinality(T) - 1
        BY <2>0, <2>1, FS_RemoveElement
      <4> QED BY <2>0, <4>1
    <3> HIDE DEF p
    <3>2. Sum(T \ {p}) = f[x] + Sum((T \ {p}) \ {x})
      BY <2>4, <3>1
    <3>3. Sum(T \ {x}) = f[p] + Sum((T \ {x}) \ {p})
      BY <2>1, <2>4, <3>1
    <3>4. (T \ {p}) \ {x} = (T \ {x}) \ {p}
      OBVIOUS
    <3>5. /\ Sum(T) \in Int /\ Sum(T \ {p}) \in Int /\ Sum(T \ {x}) \in Int
          /\ Sum((T \ {p}) \ {x}) \in Int /\ f[p] \in Int /\ f[x] \in Int
      BY <1>0, <2>1
    <3> DEFINE all == Sum(T)
               noP == Sum(T \ {p})
               noX == Sum(T \ {x})
               rest == Sum((T \ {p}) \ {x})
    <3>6. all = f[p] + noP /\ noP = f[x] + rest /\ noX = f[p] + rest
      BY <2>2, <3>2, <3>3, <3>4
    <3>7. all \in Int /\ noP \in Int /\ noX \in Int /\ rest \in Int
      BY <3>5
    <3> HIDE DEF all, noP, noX, rest
    <3>8. all = f[x] + noX
      BY <3>5, <3>6, <3>7
    <3> QED BY <3>8 DEF all, noX
  <2> QED BY <2>3, <2>4
<1>3. G = Nat
  <2> HIDE DEF G
  <2>1. G \in SUBSET Nat
    BY DEF G
  <2> QED BY <1>1, <1>2, <2>1, AllNumbers
<1> QED BY <1>0, <1>3

\* The sum is of the values on the set and of nothing else.
LEMMA SumsAlike ==
    ASSUME NEW f, NEW g, NEW S, IsFiniteSet(S), \A x \in S : f[x] = g[x]
    PROVE  SumFunctionOnSet(f, S) = SumFunctionOnSet(g, S)
<1> DEFINE G == {n \in Nat : \A T \in SUBSET S : Cardinality(T) = n =>
                    SumFunctionOnSet(f, T) = SumFunctionOnSet(g, T)}
<1>0. \A T \in SUBSET S : IsFiniteSet(T) /\ Cardinality(T) \in Nat
  BY FS_Subset, FS_CardinalityType
<1>1. 0 \in G
  BY <1>0, FS_EmptySet, SumOfNone
<1>2. ASSUME NEW n \in G PROVE n + 1 \in G
  <2> SUFFICES ASSUME NEW T \in SUBSET S, Cardinality(T) = n + 1
               PROVE  SumFunctionOnSet(f, T) = SumFunctionOnSet(g, T)
    OBVIOUS
  <2>0. n \in Nat /\ IsFiniteSet(T)
    BY <1>0
  <2>1. T # {}
    BY <2>0, FS_EmptySet
  <2>2. Pick(T) \in T
    BY <2>1, PickIn
  <2>3. Cardinality(T \ {Pick(T)}) = n
    <3>1. Cardinality(T \ {Pick(T)}) = Cardinality(T) - 1
      BY <2>0, <2>2, FS_RemoveElement
    <3> QED BY <2>0, <3>1
  <2>4. SumFunctionOnSet(f, T \ {Pick(T)}) = SumFunctionOnSet(g, T \ {Pick(T)})
    BY <2>3
  <2> QED BY <1>0, <2>1, <2>2, <2>4, SumTakesOne
<1>3. G = Nat
  <2> HIDE DEF G
  <2>1. G \in SUBSET Nat
    BY DEF G
  <2> QED BY <1>1, <1>2, <2>1, AllNumbers
<1> QED BY <1>0, <1>3

\* One value changes: the sum changes by as much.
LEMMA SumChanges ==
    ASSUME NEW f, NEW S, IsFiniteSet(S), \A x \in S : f[x] \in Int,
           NEW e \in S, NEW g, g[e] \in Int, \A x \in S \ {e} : g[x] = f[x]
    PROVE  SumFunctionOnSet(g, S) = SumFunctionOnSet(f, S) + (g[e] - f[e])
<1>1. IsFiniteSet(S \ {e})
  BY FS_Subset
<1>2. SumFunctionOnSet(g, S \ {e}) = SumFunctionOnSet(f, S \ {e})
  BY <1>1, SumsAlike
<1>3. SumFunctionOnSet(f, S \ {e}) \in Int /\ f[e] \in Int
  BY <1>1, SumIsInt
<1>4. SumFunctionOnSet(f, S) = f[e] + SumFunctionOnSet(f, S \ {e})
  BY SumTakesAny
<1>5. \A x \in S : g[x] \in Int
  OBVIOUS
<1>6. SumFunctionOnSet(g, S) = g[e] + SumFunctionOnSet(g, S \ {e})
  BY <1>5, SumTakesAny
<1> QED BY <1>2, <1>3, <1>4, <1>6

\* What is set to nothing on T leaves the sum by what it was there.
LEMMA SumDrops ==
    ASSUME NEW f, NEW S, IsFiniteSet(S), \A x \in S : f[x] \in Int,
           NEW T \in SUBSET S, NEW g,
           \A x \in T : g[x] = 0, \A x \in S \ T : g[x] = f[x]
    PROVE  SumFunctionOnSet(g, S) = SumFunctionOnSet(f, S) - SumFunctionOnSet(f, T)
<1> DEFINE Cleared(U) == [x \in S |-> IF x \in U THEN 0 ELSE f[x]]
           G == {n \in Nat : \A U \in SUBSET S : Cardinality(U) = n =>
                    SumFunctionOnSet(Cleared(U), S)
                       = SumFunctionOnSet(f, S) - SumFunctionOnSet(f, U)}
<1>0. \A U \in SUBSET S : /\ IsFiniteSet(U) /\ Cardinality(U) \in Nat
                          /\ SumFunctionOnSet(f, U) \in Int
                          /\ \A x \in S : Cleared(U)[x] \in Int
  BY FS_Subset, FS_CardinalityType, SumIsInt
<1>1. 0 \in G
  <2>1. SumFunctionOnSet(Cleared({}), S) = SumFunctionOnSet(f, S)
    BY SumsAlike
  <2>2. SumFunctionOnSet(f, S) \in Int
    BY <1>0
  <2> HIDE DEF Cleared
  <2>3. \A U \in SUBSET S : Cardinality(U) = 0 => U = {}
    BY <1>0, FS_EmptySet
  <2> QED BY <2>1, <2>2, <2>3, SumOfNone
<1>2. ASSUME NEW n \in G PROVE n + 1 \in G
  <2> SUFFICES ASSUME NEW U \in SUBSET S, Cardinality(U) = n + 1
               PROVE  SumFunctionOnSet(Cleared(U), S)
                         = SumFunctionOnSet(f, S) - SumFunctionOnSet(f, U)
    OBVIOUS
  <2>0. n \in Nat /\ IsFiniteSet(U)
    BY <1>0
  <2> DEFINE e == Pick(U)
             V == U \ {e}
  <2>1. e \in U
    <3>1. U # {}
      BY <2>0, FS_EmptySet
    <3> QED BY <3>1, PickIn
  <2>2. Cardinality(V) = n
    <3>1. Cardinality(V) = Cardinality(U) - 1
      BY <2>0, <2>1, FS_RemoveElement
    <3> QED BY <2>0, <3>1
  <2>3. SumFunctionOnSet(f, U) = f[e] + SumFunctionOnSet(f, V)
    BY <1>0, <2>1, SumTakesOne
  <2>4. V \in SUBSET S /\ e \in S
    BY <2>1
  <2>5. SumFunctionOnSet(Cleared(V), S)
           = SumFunctionOnSet(f, S) - SumFunctionOnSet(f, V)
    BY <2>2, <2>4
  <2>6. /\ Cleared(U)[e] = 0 /\ Cleared(V)[e] = f[e]
        /\ \A x \in S \ {e} : Cleared(U)[x] = Cleared(V)[x]
    BY <2>1, <2>4
  <2>7. /\ \A x \in S : Cleared(V)[x] \in Int
        /\ SumFunctionOnSet(f, S) \in Int /\ SumFunctionOnSet(f, V) \in Int
    BY <1>0, <2>4
  <2> HIDE DEF Cleared, V, e
  <2>8. SumFunctionOnSet(Cleared(U), S)
           = SumFunctionOnSet(Cleared(V), S) + (Cleared(U)[e] - Cleared(V)[e])
    BY <2>4, <2>6, <2>7, SumChanges
  <2>9. f[e] \in Int
    BY <2>4
  <2> QED BY <2>3, <2>5, <2>6, <2>7, <2>8, <2>9
<1>3. G = Nat
  <2> HIDE DEF G
  <2>1. G \in SUBSET Nat
    BY DEF G
  <2> QED BY <1>1, <1>2, <2>1, AllNumbers
<1>4. SumFunctionOnSet(Cleared(T), S) = SumFunctionOnSet(f, S) - SumFunctionOnSet(f, T)
  BY <1>0, <1>3
<1>5. SumFunctionOnSet(g, S) = SumFunctionOnSet(Cleared(T), S)
  <2>1. \A x \in S : g[x] = Cleared(T)[x]
    OBVIOUS
  <2> HIDE DEF Cleared
  <2> QED BY <2>1, SumsAlike
<1> QED BY <1>4, <1>5

\* Nothing sums to nothing.
LEMMA SumOfZeros ==
    ASSUME NEW f, NEW S, IsFiniteSet(S), \A x \in S : f[x] = 0
    PROVE  SumFunctionOnSet(f, S) = 0
<1>1. SumFunctionOnSet(f, S) = SumFunctionOnSet(f, S) - SumFunctionOnSet(f, S)
  BY SumDrops
<1>2. SumFunctionOnSet(f, S) \in Int
  BY SumIsInt
<1> QED BY <1>1, <1>2

-----------------------------------------------------------------------------
(* The account of a cache.                                                  *)

\* A cache whose account is what it holds; it may still be over its limit.
Sound(c) == c \in CacheType /\ Accounted(c)

LEMMA SlotsFinite == IsFiniteSet(Slots)
<1>1. IsFiniteSet({"input", "output"})
  <2>1. IsFiniteSet({"input"}) /\ IsFiniteSet({"output"})
    BY FS_Singleton
  <2>2. {"input", "output"} = {"input"} \cup {"output"}
    OBVIOUS
  <2> QED BY <2>1, <2>2, FS_Union
<1> QED BY <1>1, SizeAssumption, FS_Union DEF Slots

\* The bytes of an entry are a sum over the Slots.
LEMMA EntryBytes ==
    ASSUME NEW b \in Content
    PROVE  /\ BytesOf(b) = SumFunctionOnSet([x \in Slots |-> Bytes[b[x]]], Slots)
           /\ \A x \in Slots : Bytes[b[x]] \in Int
           /\ BytesOf(b) \in Int
<1>1. \A x \in Slots : b[x] \in Blobs \cup {NoBlob}
  BY DEF Content
<1>2. \A x \in Slots : Bytes[b[x]] \in Nat
  BY <1>1, BlobsAssumption
<1>3. BytesOf(b) = SumFunctionOnSet([x \in Slots |-> Bytes[b[x]]], Slots)
  BY DEF BytesOf, SumFunction
<1> DEFINE f == [x \in Slots |-> Bytes[b[x]]]
<1>4. \A x \in Slots : f[x] \in Int
  BY <1>2
<1> HIDE DEF f
<1>5. SumFunctionOnSet(f, Slots) \in Int
  BY <1>4, SlotsFinite, SumIsInt
<1> QED BY <1>2, <1>3, <1>5 DEF f

LEMMA EmptyBytes == BytesOf(Empty) = 0
<1> DEFINE f == [x \in Slots |-> Bytes[Empty[x]]]
<1>1. \A x \in Slots : f[x] = 0
  BY EmptyContent, BlobsAssumption
<1> HIDE DEF f
<1>2. SumFunctionOnSet(f, Slots) = 0
  BY <1>1, SlotsFinite, SumOfZeros
<1> QED BY <1>2, EntryBytes, EmptyContent DEF f

\* A blob takes the place of another in one slot.
LEMMA SlotBytes ==
    ASSUME NEW b \in Content, NEW x \in Slots, NEW v \in Blobs \cup {NoBlob}
    PROVE  BytesOf([b EXCEPT ![x] = v]) = BytesOf(b) + (Bytes[v] - Bytes[b[x]])
<1> DEFINE d == [b EXCEPT ![x] = v]
           f == [y \in Slots |-> Bytes[b[y]]]
           g == [y \in Slots |-> Bytes[d[y]]]
<1>1. d \in Content
  BY DEF Content
<1>2. d[x] = v /\ \A y \in Slots \ {x} : d[y] = b[y]
  BY DEF Content
<1>3. BytesOf(b) = SumFunctionOnSet(f, Slots) /\ \A y \in Slots : Bytes[b[y]] \in Int
  BY EntryBytes
<1>4. BytesOf(d) = SumFunctionOnSet(g, Slots) /\ \A y \in Slots : Bytes[d[y]] \in Int
  <2> HIDE DEF d
  <2> QED BY <1>1, EntryBytes
<1> HIDE DEF d
<1>5. /\ \A y \in Slots : f[y] \in Int
      /\ g[x] \in Int /\ g[x] = Bytes[v] /\ f[x] = Bytes[b[x]]
      /\ \A y \in Slots \ {x} : g[y] = f[y]
  BY <1>2, <1>3, <1>4
<1> HIDE DEF f, g
<1>6. SumFunctionOnSet(g, Slots) = SumFunctionOnSet(f, Slots) + (g[x] - f[x])
  BY <1>5, SlotsFinite, SumChanges
<1> QED BY <1>3, <1>4, <1>5, <1>6 DEF d

\* An order without one of its Runs.
LEMMA TakenOut ==
    ASSUME NEW c, c.order \in Seq(Runs), NEW r,
           \A i, j \in 1..Len(c.order) : c.order[i] = c.order[j] => i = j
    PROVE  LET w == Without(c, r)
           IN  /\ w \in Seq(Runs)
               /\ \A i, j \in 1..Len(w) : w[i] = w[j] => i = j
               /\ \A q : (\E i \in 1..Len(w) : w[i] = q) <=> (Cached(c, q) /\ q # r)
<1> DEFINE o == c.order
           w == Without(c, r)
<1>1. CASE ~ Cached(c, r)
  <2>1. w = o
    BY <1>1 DEF Without
  <2> HIDE DEF w
  <2> QED BY <1>1, <2>1 DEF Cached, w
<1>2. CASE Cached(c, r)
  <2> DEFINE k == CHOOSE i \in 1..Len(o) : o[i] = r
  <2>1. k \in 1..Len(o) /\ o[k] = r
    BY <1>2 DEF Cached
  <2>2. w = SubSeq(o, 1, k - 1) \o SubSeq(o, k + 1, Len(o))
    BY <1>2 DEF Without, RemoveAt
  <2> HIDE DEF k, w
  <2>3. o \in Seq(Runs) /\ Len(o) \in Nat
    OBVIOUS
  <2> DEFINE a == SubSeq(o, 1, k - 1)
             z == SubSeq(o, k + 1, Len(o))
  <2>4. /\ a \in Seq(Runs) /\ Len(a) = k - 1 /\ \A i \in 1..(k - 1) : a[i] = o[i]
        /\ z \in Seq(Runs) /\ Len(z) = Len(o) - k
        /\ \A i \in 1..(Len(o) - k) : z[i] = o[k + i]
    <3> HIDE DEF o
    <3> QED BY <2>1, <2>3
  <2>5. w = a \o z
    BY <2>2
  <2> HIDE DEF a, z, o
  <2> DEFINE at(i) == IF i < k THEN i ELSE i + 1
  <2>6. /\ w \in Seq(Runs) /\ Len(w) = Len(o) - 1
        /\ \A i \in 1..Len(w) : at(i) \in 1..Len(o) /\ at(i) # k /\ w[i] = o[at(i)]
    <3>0. a \in Seq(Runs) /\ z \in Seq(Runs)
      BY <2>4
    <3>1. w \in Seq(Runs) /\ Len(w) = Len(a) + Len(z)
      BY <2>5, <3>0
    <3>2. \A i \in 1..Len(a) : w[i] = a[i]
      BY <2>5, <3>0
    <3>3. \A i \in 1..Len(z) : w[Len(a) + i] = z[i]
      BY <2>5, <3>0
    <3>4. Len(w) = Len(o) - 1
      BY <2>1, <2>3, <2>4, <3>1
    <3>5. ASSUME NEW i \in 1..Len(w)
          PROVE  at(i) \in 1..Len(o) /\ at(i) # k /\ w[i] = o[at(i)]
      <4>1. CASE i < k
        <5>1. i \in 1..Len(a) /\ i \in 1..(k - 1) /\ i \in 1..Len(o)
          BY <2>1, <2>3, <2>4, <4>1
        <5>2. w[i] = a[i] /\ a[i] = o[i]
          BY <2>4, <3>2, <5>1
        <5> QED BY <2>1, <4>1, <5>1, <5>2
      <4>2. CASE ~(i < k)
        <5>1. i - (k - 1) \in 1..Len(z) /\ Len(a) + (i - (k - 1)) = i
          BY <2>1, <2>3, <2>4, <3>4, <4>2
        <5>2. w[i] = z[i - (k - 1)]
          BY <3>3, <5>1
        <5>3. z[i - (k - 1)] = o[i + 1]
          BY <2>1, <2>3, <2>4, <5>1
        <5> QED BY <2>1, <2>3, <3>4, <4>2, <5>2, <5>3
      <4> QED BY <4>1, <4>2
    <3> QED BY <3>1, <3>4, <3>5
  <2>7. \A i, j \in 1..Len(o) : o[i] = o[j] => i = j
    BY DEF o
  <2>8. \A i, j \in 1..Len(w) : w[i] = w[j] => i = j
    <3> SUFFICES ASSUME NEW i \in 1..Len(w), NEW j \in 1..Len(w), w[i] = w[j]
                 PROVE  i = j
      OBVIOUS
    <3>1. at(i) = at(j)
      <4> HIDE DEF at
      <4> QED BY <2>6, <2>7
    <3> QED BY <2>1, <3>1
  <2>9. ASSUME NEW q PROVE (\E i \in 1..Len(w) : w[i] = q) <=> (Cached(c, q) /\ q # r)
    <3>1. ASSUME NEW i \in 1..Len(w), w[i] = q PROVE Cached(c, q) /\ q # r
      <4>1. \E j \in 1..Len(o) : j # k /\ o[j] = q
        BY <2>6, <3>1
      <4> QED BY <2>1, <2>7, <4>1 DEF Cached, o
    <3>2. ASSUME Cached(c, q), q # r PROVE \E i \in 1..Len(w) : w[i] = q
      <4>1. PICK j \in 1..Len(o) : o[j] = q
        BY <3>2 DEF Cached, o
      <4>2. j # k
        BY <2>1, <3>2, <4>1
      <4>3. CASE j < k
        <5>1. j \in 1..Len(w) /\ at(j) = j
          BY <2>1, <2>3, <2>6, <4>3
        <5> QED BY <2>6, <4>1, <5>1
      <4>4. CASE j > k
        <5>1. j - 1 \in 1..Len(w) /\ at(j - 1) = j
          BY <2>1, <2>3, <2>6, <4>4
        <5> QED BY <2>6, <4>1, <5>1
      <4> QED BY <2>1, <2>3, <4>1, <4>2, <4>3, <4>4
    <3> QED BY <3>1, <3>2
  <2> QED BY <2>6, <2>8, <2>9 DEF w
<1> QED BY <1>1, <1>2

\* touch: the account is not touched, and the Run is cached.
LEMMA TouchSound ==
    ASSUME NEW c, Sound(c), NEW r \in Runs
    PROVE  /\ Sound(Touch(c, r)) /\ Cached(Touch(c, r), r)
           /\ Touch(c, r).entry = c.entry /\ Touch(c, r).bytes = c.bytes
           /\ Touch(c, r).size = c.size /\ Touch(c, r).limit = c.limit
<1> DEFINE w == Without(c, r)
           t == Touch(c, r)
<1>1. /\ w \in Seq(Runs)
      /\ \A i, j \in 1..Len(w) : w[i] = w[j] => i = j
      /\ \A q : (\E i \in 1..Len(w) : w[i] = q) <=> (Cached(c, q) /\ q # r)
  BY TakenOut DEF Sound, Accounted, CacheType
<1>2. /\ t \in CacheType /\ t.order = <<r>> \o w /\ t.entry = c.entry
      /\ t.bytes = c.bytes /\ t.size = c.size /\ t.limit = c.limit
  <2> HIDE DEF w
  <2>1. <<r>> \o w \in Seq(Runs)
    BY <1>1
  <2>2. t = [c EXCEPT !.order = <<r>> \o w]
    BY DEF Touch, w
  <2> HIDE DEF t
  <2> QED BY <2>1, <2>2 DEF Sound, CacheType
<1> HIDE DEF w, t
<1>3. /\ Len(t.order) = Len(w) + 1 /\ Len(w) \in Nat /\ t.order[1] = r
      /\ \A i \in 1..Len(w) : t.order[i + 1] = w[i]
  BY <1>1, <1>2
<1>4. \A i \in 2..Len(t.order) : i - 1 \in 1..Len(w) /\ t.order[i] = w[i - 1]
  BY <1>3
<1>5. \A i, j \in 1..Len(t.order) : t.order[i] = t.order[j] => i = j
  <2>1. \A i \in 2..Len(t.order) : t.order[i] # r
    BY <1>1, <1>4
  <2>2. \A i, j \in 2..Len(t.order) : t.order[i] = t.order[j] => i = j
    <3> SUFFICES ASSUME NEW i \in 2..Len(t.order), NEW j \in 2..Len(t.order),
                        t.order[i] = t.order[j]
                 PROVE  i = j
      OBVIOUS
    <3>1. i - 1 = j - 1
      BY <1>1, <1>4
    <3> QED BY <1>3, <3>1
  <2> QED BY <1>3, <2>1, <2>2
<1>6. Cached(t, r) /\ \A q : Cached(c, q) => Cached(t, q)
  <2>1. 1 \in 1..Len(t.order)
    BY <1>3
  <2>2. \A i \in 1..Len(w) : i + 1 \in 1..Len(t.order)
    BY <1>3
  <2>3. Cached(t, r)
    BY <1>3, <2>1 DEF Cached
  <2>4. ASSUME NEW q, Cached(c, q), q # r PROVE Cached(t, q)
    <3>1. PICK i \in 1..Len(w) : w[i] = q
      BY <1>1, <2>4
    <3> QED BY <1>3, <2>2, <3>1 DEF Cached
  <2> QED BY <2>3, <2>4
<1>7. Accounted(t)
  BY <1>2, <1>5, <1>6 DEF Accounted, Sound
<1> QED BY <1>2, <1>6, <1>7 DEF Sound, t

\* drop takes the Run's bytes along.
LEMMA DropSound ==
    ASSUME NEW c, Sound(c), NEW r \in Runs
    PROVE  /\ Sound(Drop(c, r)) /\ Drop(c, r).limit = c.limit
           /\ Cached(c, r) => Drop(c, r).size = c.size - c.bytes[r]
           /\ ~ Cached(c, r) => Drop(c, r) = c
<1>1. CASE ~ Cached(c, r)
  BY <1>1 DEF Drop
<1>2. CASE Cached(c, r)
  <2> DEFINE w == Without(c, r)
             d == Drop(c, r)
  <2>1. /\ w \in Seq(Runs)
        /\ \A i, j \in 1..Len(w) : w[i] = w[j] => i = j
        /\ \A q : (\E i \in 1..Len(w) : w[i] = q) <=> (Cached(c, q) /\ q # r)
    BY TakenOut DEF Sound, Accounted, CacheType
  <2>2. d = [c EXCEPT !.order = w, !.entry[r] = Empty, !.bytes[r] = 0,
                      !.size = @ - c.bytes[r]]
    BY <1>2 DEF Drop
  <2> HIDE DEF w, d
  <2>3. /\ d \in CacheType /\ d.order = w /\ d.entry = [c.entry EXCEPT ![r] = Empty]
        /\ d.bytes = [c.bytes EXCEPT ![r] = 0] /\ d.size = c.size - c.bytes[r]
        /\ d.limit = c.limit
    <3>1. /\ c = [order |-> c.order, entry |-> c.entry, bytes |-> c.bytes,
                  size |-> c.size, limit |-> c.limit]
          /\ c.order \in Seq(Runs) /\ c.entry \in [Runs -> Content]
          /\ c.bytes \in [Runs -> Int] /\ c.size \in Int /\ c.limit \in Nat
      BY DEF Sound, CacheType
    <3>2. d = [order |-> w, entry |-> [c.entry EXCEPT ![r] = Empty],
               bytes |-> [c.bytes EXCEPT ![r] = 0], size |-> c.size - c.bytes[r],
               limit |-> c.limit]
      BY <2>2, <3>1
    <3>3. c.bytes[r] \in Int
      BY <3>1
    <3>4. c.size - c.bytes[r] \in Int
      BY <3>1, <3>3
    <3>5. [c.entry EXCEPT ![r] = Empty] \in [Runs -> Content]
      BY <3>1, EmptyContent
    <3>6. [c.bytes EXCEPT ![r] = 0] \in [Runs -> Int]
      BY <3>1
    <3> QED BY <2>1, <3>1, <3>2, <3>4, <3>5, <3>6 DEF CacheType
  <2>4. \A q \in Runs : d.bytes[q] = BytesOf(d.entry[q])
                        /\ (~Cached(d, q) => d.entry[q] = Empty)
    <3> SUFFICES ASSUME NEW q \in Runs
                 PROVE  /\ d.bytes[q] = BytesOf(d.entry[q])
                        /\ ~Cached(d, q) => d.entry[q] = Empty
      OBVIOUS
    <3>1. c.entry \in [Runs -> Content] /\ c.bytes \in [Runs -> Int]
      BY DEF Sound, CacheType
    <3>2. c.bytes[q] = BytesOf(c.entry[q]) /\ (~Cached(c, q) => c.entry[q] = Empty)
      BY DEF Sound, Accounted
    <3>3. Cached(d, q) <=> Cached(c, q) /\ q # r
      BY <2>1, <2>3 DEF Cached
    <3>4. CASE q = r
      BY <2>3, <3>1, <3>4, EmptyBytes
    <3>5. CASE q # r
      BY <2>3, <3>1, <3>2, <3>3, <3>5
    <3> QED BY <3>4, <3>5
  <2>5. d.size = SumFunction(d.bytes)
    <3> DEFINE f == c.bytes
               g == d.bytes
    <3>1. f \in [Runs -> Int] /\ g \in [Runs -> Int]
      BY <2>3 DEF Sound, CacheType
    <3>2. g[r] = 0 /\ \A q \in Runs \ {r} : g[q] = f[q]
      BY <2>3, <3>1
    <3>3. SumFunction(f) = SumFunctionOnSet(f, Runs) /\ SumFunction(g) = SumFunctionOnSet(g, Runs)
      BY <3>1 DEF SumFunction
    <3>4. c.size = SumFunction(f) /\ c.size \in Int
      BY DEF Sound, Accounted, CacheType
    <3> HIDE DEF f, g
    <3>5. SumFunctionOnSet(g, Runs) = SumFunctionOnSet(f, Runs) + (g[r] - f[r])
      BY <3>1, <3>2, SizeAssumption, SumChanges
    <3>6. d.size = c.size - f[r] /\ f[r] \in Int
      BY <2>3, <3>1 DEF f
    <3> QED BY <3>2, <3>3, <3>4, <3>5, <3>6 DEF g
  <2> QED BY <1>2, <2>1, <2>3, <2>4, <2>5 DEF Sound, Accounted, d
<1> QED BY <1>1, <1>2

\* A bounded set of numbers has a greatest.
LEMMA MaxIsIn ==
    ASSUME NEW N \in Nat, NEW S \in SUBSET (0..N), S # {}
    PROVE  Max(S) \in S
<1> DEFINE G == {n \in Nat : n <= N /\ N - n \in S}
<1>1. G \subseteq Nat /\ G # {}
  <2>1. PICK x \in S : TRUE
    OBVIOUS
  <2>2. x \in 0..N
    OBVIOUS
  <2>3. N - x \in Nat /\ N - x <= N /\ N - (N - x) = x
    BY <2>2
  <2> QED BY <2>1, <2>3
<1>2. PICK n \in G : \A m \in G : ~(<<m, n>> \in OpToRel(<, Nat))
  <2> HIDE DEF G
  <2> QED BY <1>1, NatLessThanWellFounded, WFMin, Zenon
<1>3. \A m \in G : ~(m < n)
  BY <1>1, <1>2 DEF OpToRel
<1>4. n \in Nat /\ N - n \in S
  OBVIOUS
<1>5. \A y \in S : N - n >= y
  <2> SUFFICES ASSUME NEW y \in S PROVE N - n >= y
    OBVIOUS
  <2>1. y \in 0..N
    OBVIOUS
  <2>2. N - y \in G
    BY <2>1
  <2>3. ~(N - y < n)
    <3> HIDE DEF G
    <3> QED BY <1>3, <2>2
  <2> QED BY <1>4, <2>1, <2>3
<1> QED BY <1>4, <1>5 DEF Max

\* remove, for however many entries: the rest is accounted for.
LEMMA KeepSound ==
    ASSUME NEW c, Sound(c), NEW n \in 0..Len(c.order)
    PROVE  /\ Sound(KeepFirst(c, n))
           /\ KeepFirst(c, n).size = SizeOfFirst(c, n)
           /\ KeepFirst(c, n).limit = c.limit
           /\ KeepFirst(c, n).order = SubSeq(c.order, 1, n)
<1> DEFINE out == Others(c, n)
           d == KeepFirst(c, n)
           o == c.order
           front == SubSeq(o, 1, n)
           entry == [r \in Runs |-> IF r \in out THEN Empty ELSE c.entry[r]]
           bytes == [r \in Runs |-> IF r \in out THEN 0 ELSE c.bytes[r]]
<1>1. /\ c = [order |-> o, entry |-> c.entry, bytes |-> c.bytes,
              size |-> c.size, limit |-> c.limit]
      /\ o \in Seq(Runs) /\ c.entry \in [Runs -> Content]
      /\ c.bytes \in [Runs -> Int] /\ c.size \in Int /\ c.limit \in Nat
  BY DEF Sound, CacheType
<1>2. \A q \in Runs : c.bytes[q] = BytesOf(c.entry[q]) /\ (~Cached(c, q) => c.entry[q] = Empty)
  BY DEF Sound, Accounted
<1>3. \A i, j \in 1..Len(o) : o[i] = o[j] => i = j
  BY DEF Sound, Accounted
<1>4. d = [order |-> front, entry |-> entry, bytes |-> bytes, size |-> SizeOfFirst(c, n),
           limit |-> c.limit]
  <2> HIDE DEF out, front, entry, bytes, o
  <2>1. d = [c EXCEPT !.order = front, !.entry = entry, !.bytes = bytes,
                      !.size = SizeOfFirst(c, n)]
    BY DEF KeepFirst, out, front, entry, bytes, o
  <2> HIDE DEF d
  <2> QED BY <1>1, <2>1
<1>5. /\ front \in Seq(Runs) /\ Len(front) = n
      /\ \A i \in 1..n : i \in 1..Len(o) /\ front[i] = o[i]
  <2> HIDE DEF o
  <2> QED BY <1>1 DEF o
<1>6. out \in SUBSET Runs
  <2>1. \A i \in n+1..Len(o) : i \in 1..Len(o)
    BY <1>1
  <2> QED BY <1>1, <2>1 DEF Others
<1>7. entry \in [Runs -> Content] /\ bytes \in [Runs -> Int]
  <2> HIDE DEF out
  <2> QED BY <1>1, EmptyContent
<1>8. SizeOfFirst(c, n) = SumFunction(bytes) /\ SizeOfFirst(c, n) \in Int
  <2> DEFINE f == c.bytes
  <2>1. c.size = SumFunctionOnSet(f, Runs)
    BY <1>1 DEF Sound, Accounted, SumFunction
  <2>2. SumFunction(bytes) = SumFunctionOnSet(bytes, Runs)
    BY DEF SumFunction
  <2>3. SizeOfFirst(c, n) = c.size - SumFunctionOnSet(f, out)
    BY DEF SizeOfFirst
  <2>4. /\ \A q \in out : bytes[q] = 0
        /\ \A q \in Runs \ out : bytes[q] = f[q]
        /\ \A q \in Runs : f[q] \in Int
    <3> HIDE DEF out
    <3> QED BY <1>1, <1>6
  <2>5. IsFiniteSet(out)
    <3> HIDE DEF out
    <3> QED BY <1>6, SizeAssumption, FS_Subset
  <2> HIDE DEF f, bytes, out
  <2>6. SumFunctionOnSet(bytes, Runs) = SumFunctionOnSet(f, Runs) - SumFunctionOnSet(f, out)
    BY <1>6, <2>4, SizeAssumption, SumDrops
  <2>7. SumFunctionOnSet(f, out) \in Int
    BY <1>6, <2>4, <2>5, SumIsInt
  <2> QED BY <1>1, <2>1, <2>2, <2>3, <2>6, <2>7
<1>9. d \in CacheType
  <2> HIDE DEF d, front, entry, bytes, o
  <2> QED BY <1>1, <1>4, <1>5, <1>7, <1>8 DEF CacheType
<1>10. \A i, j \in 1..Len(d.order) : d.order[i] = d.order[j] => i = j
  <2> HIDE DEF d, front, entry, bytes, o
  <2> QED BY <1>3, <1>4, <1>5
<1>11. ASSUME NEW q \in Runs
       PROVE  d.bytes[q] = BytesOf(d.entry[q]) /\ (~Cached(d, q) => d.entry[q] = Empty)
  <2>1. d.bytes[q] = (IF q \in out THEN 0 ELSE c.bytes[q])
        /\ d.entry[q] = (IF q \in out THEN Empty ELSE c.entry[q])
    <3> HIDE DEF d, front, out
    <3> QED BY <1>4
  <2>2. ASSUME Cached(c, q), q \notin out PROVE Cached(d, q)
    <3>1. PICK i \in 1..Len(o) : o[i] = q
      BY <2>2 DEF Cached
    <3>2. i \in 1..n
      BY <1>1, <2>2, <3>1 DEF Others
    <3>3. d.order = front
      <4> HIDE DEF d, front, entry, bytes, o
      <4> QED BY <1>4
    <3> HIDE DEF d, front, o
    <3>4. i \in 1..Len(d.order) /\ d.order[i] = q
      BY <1>5, <3>1, <3>2, <3>3
    <3> QED BY <3>4 DEF Cached
  <2> HIDE DEF d, out
  <2> QED BY <1>2, <2>1, <2>2, EmptyBytes
<1>12. d.size = SumFunction(d.bytes)
  <2> HIDE DEF d, front, entry, bytes, o
  <2> QED BY <1>4, <1>8
<1>13. d.size = SizeOfFirst(c, n) /\ d.limit = c.limit /\ d.order = front
  <2> HIDE DEF d, front, entry, bytes, o
  <2> QED BY <1>4
<1> HIDE DEF d, entry, bytes
<1> QED BY <1>9, <1>10, <1>11, <1>12, <1>13 DEF Sound, Accounted, d

\* evict always gets the cache under its limit: with no entry it has no bytes.
LEMMA EvictSound ==
    ASSUME NEW c, Sound(c)
    PROVE  Sound(Evict(c)) /\ Evict(c).limit = c.limit /\ Evict(c).size <= c.limit
<1> DEFINE N == Len(c.order)
           S == {0} \cup {n \in 0..N : SizeOfFirst(c, n) <= c.limit}
           m == Max(S)
<1>1. N \in Nat /\ c.limit \in Nat
  BY DEF Sound, CacheType
<1>2. m \in S
  <2>1. S \in SUBSET (0..N) /\ S # {}
    BY <1>1
  <2> HIDE DEF S
  <2> QED BY <1>1, <2>1, MaxIsIn
<1>3. SizeOfFirst(c, 0) = 0
  <2> DEFINE d == KeepFirst(c, 0)
  <2>1. Sound(d) /\ d.size = SizeOfFirst(c, 0) /\ d.order = SubSeq(c.order, 1, 0)
    <3>1. 0 \in 0..N
      BY <1>1
    <3> QED BY <3>1, KeepSound
  <2> HIDE DEF d
  <2>2. Len(d.order) = 0
    <3>1. c.order \in Seq(Runs)
      BY DEF Sound, CacheType
    <3> QED BY <2>1, <3>1
  <2>3. \A q \in Runs : d.bytes[q] = 0
    BY <2>1, <2>2, EmptyBytes DEF Sound, Accounted, Cached
  <2>4. d.size = SumFunctionOnSet(d.bytes, Runs)
    BY <2>1 DEF Sound, Accounted, CacheType, SumFunction
  <2> QED BY <2>1, <2>3, <2>4, SizeAssumption, SumOfZeros
<1>4. m \in 0..N /\ SizeOfFirst(c, m) <= c.limit
  <2> HIDE DEF m
  <2> QED BY <1>1, <1>2, <1>3
<1>5. Evict(c) = KeepFirst(c, m)
  BY DEF Evict
<1> HIDE DEF m
<1> QED BY <1>4, <1>5, KeepSound

\* What a cache is between two calls.
Account(c, limit) == Sound(c) /\ c.limit = limit /\ c.size <= limit

LEMMA NewAccount == ASSUME NEW limit \in Nat PROVE Account(NewCache(limit), limit)
<1> DEFINE c == NewCache(limit)
<1>1. c = [order |-> <<>>, entry |-> [r \in Runs |-> Empty], bytes |-> [r \in Runs |-> 0],
           size |-> 0, limit |-> limit]
  BY DEF NewCache
<1> HIDE DEF c
<1>2. c \in CacheType
  BY <1>1, EmptyContent DEF CacheType
<1>3. c.size = SumFunction(c.bytes)
  <2> DEFINE f == [r \in Runs |-> 0]
  <2>1. \A r \in Runs : f[r] = 0
    OBVIOUS
  <2>2. SumFunction(f) = SumFunctionOnSet(f, Runs)
    BY DEF SumFunction
  <2> HIDE DEF f
  <2>3. SumFunctionOnSet(f, Runs) = 0
    BY <2>1, SizeAssumption, SumOfZeros
  <2> QED BY <1>1, <2>2, <2>3 DEF f
<1>4. Accounted(c)
  BY <1>1, <1>3, EmptyBytes DEF Accounted
<1> QED BY <1>1, <1>2, <1>4 DEF Account, Sound, c

LEMMA LookupAccount ==
    ASSUME NEW c, NEW limit, Account(c, limit), NEW r \in Runs
    PROVE  Account(Lookup(c, r), limit)
BY TouchSound DEF Lookup, Account

LEMMA EntryBytesPositive == ASSUME NEW v \in Blobs \cup {NoBlob} PROVE Bytes[v] \in Nat
BY BlobsAssumption

\* An entry is replaced in a cache that has its Run at the front.
LEMMA ReplaceSound ==
    ASSUME NEW t, Sound(t), NEW r \in Runs, Cached(t, r), NEW b \in Content,
           NEW more \in Int, BytesOf(b) = t.bytes[r] + more,
           NEW entry, entry = [t.entry EXCEPT ![r] = b],
           NEW bytes, bytes = [t.bytes EXCEPT ![r] = t.bytes[r] + more]
    PROVE  LET s == [order |-> t.order, entry |-> entry, bytes |-> bytes,
                     size |-> t.size + more, limit |-> t.limit]
           IN  Sound(s) /\ s.limit = t.limit /\ s.size = t.size + more
<1>1. /\ t = [order |-> t.order, entry |-> t.entry, bytes |-> t.bytes,
              size |-> t.size, limit |-> t.limit]
      /\ t.order \in Seq(Runs) /\ t.entry \in [Runs -> Content]
      /\ t.bytes \in [Runs -> Int] /\ t.size \in Int /\ t.limit \in Nat
  BY DEF Sound, CacheType
<1> DEFINE s == [order |-> t.order, entry |-> entry, bytes |-> bytes,
                 size |-> t.size + more, limit |-> t.limit]
<1>2. /\ s.order = t.order /\ s.entry = entry /\ s.bytes = bytes
      /\ s.size = t.size + more /\ s.limit = t.limit
  OBVIOUS
<1>3. /\ entry \in [Runs -> Content] /\ bytes \in [Runs -> Int] /\ t.size + more \in Int
      /\ entry[r] = b /\ bytes[r] = t.bytes[r] + more /\ bytes[r] \in Int
      /\ \A q \in Runs \ {r} : entry[q] = t.entry[q] /\ bytes[q] = t.bytes[q]
  BY <1>1
<1>4. s \in CacheType
  BY <1>1, <1>3 DEF CacheType
<1> HIDE DEF s
<1>5. \A q \in Runs : s.bytes[q] = BytesOf(s.entry[q]) /\ (~Cached(s, q) => s.entry[q] = Empty)
  <2> SUFFICES ASSUME NEW q \in Runs
               PROVE  s.bytes[q] = BytesOf(s.entry[q]) /\ (~Cached(s, q) => s.entry[q] = Empty)
    OBVIOUS
  <2>1. Cached(s, q) <=> Cached(t, q)
    BY <1>2 DEF Cached
  <2>2. CASE q = r
    <3>1. s.bytes[r] = bytes[r] /\ s.entry[r] = entry[r]
      BY <1>2
    <3>2. s.bytes[r] = BytesOf(b) /\ s.entry[r] = b
      BY <1>3, <3>1
    <3> QED BY <2>1, <2>2, <3>2
  <2>3. CASE q # r
    <3>1. t.bytes[q] = BytesOf(t.entry[q]) /\ (~Cached(t, q) => t.entry[q] = Empty)
      BY DEF Sound, Accounted
    <3> QED BY <1>2, <1>3, <2>1, <2>3, <3>1
  <2> QED BY <2>2, <2>3
<1>6. s.size = SumFunction(s.bytes)
  <2> DEFINE f == t.bytes
  <2>1. t.size = SumFunctionOnSet(f, Runs)
    BY <1>1 DEF Sound, Accounted, SumFunction
  <2>2. SumFunction(bytes) = SumFunctionOnSet(bytes, Runs)
    BY <1>3 DEF SumFunction
  <2>3. \A q \in Runs : f[q] \in Int
    BY <1>1
  <2>4. bytes[r] - f[r] = more
    <3>1. f[r] \in Int /\ bytes[r] = f[r] + more
      BY <1>3, <2>3
    <3> HIDE DEF f
    <3> QED BY <3>1
  <2>5. \A q \in Runs \ {r} : bytes[q] = f[q]
    BY <1>3
  <2> HIDE DEF f
  <2>6. SumFunctionOnSet(bytes, Runs) = SumFunctionOnSet(f, Runs) + (bytes[r] - f[r])
    BY <1>3, <2>3, <2>5, SizeAssumption, SumChanges
  <2>7. s.size = t.size + more /\ s.bytes = bytes
    BY <1>2
  <2> QED BY <2>1, <2>2, <2>4, <2>6, <2>7
<1>7. \A i, j \in 1..Len(s.order) : s.order[i] = s.order[j] => i = j
  BY <1>2 DEF Sound, Accounted
<1>8. Sound(s)
  BY <1>4, <1>5, <1>6, <1>7 DEF Sound, Accounted
<1> QED BY <1>2, <1>8 DEF s

\* setInput, setOutput and setState: what they add is evicted for, and what
\* they take out only makes the rest fit better.
LEMMA SetAccount ==
    ASSUME NEW c, NEW limit, Account(c, limit), NEW r \in Runs, NEW x \in Slots,
           NEW v \in Blobs \cup {NoBlob}
    PROVE  Account(Set(c, r, x, v), limit)
<1>1. CASE c.limit = 0 \/ (v = NoBlob /\ x \notin Steps)
  BY <1>1 DEF Set
<1>2. CASE ~(c.limit = 0 \/ (v = NoBlob /\ x \notin Steps))
  <2> DEFINE t == Touch(c, r)
             more == Bytes[v] - Bytes[t.entry[r][x]]
             s == [t EXCEPT !.entry[r][x] = v, !.bytes[r] = @ + more, !.size = @ + more]
             b == [t.entry[r] EXCEPT ![x] = v]
             entry == [t.entry EXCEPT ![r] = b]
             bytes == [t.bytes EXCEPT ![r] = t.bytes[r] + more]
  <2>1. Set(c, r, x, v) = IF v = NoBlob THEN s ELSE Evict(s)
    BY <1>2 DEF Set
  <2>2. Sound(t) /\ Cached(t, r) /\ t.size = c.size /\ t.limit = c.limit
    BY TouchSound DEF Account
  <2> HIDE DEF t
  <2>3. /\ t = [order |-> t.order, entry |-> t.entry, bytes |-> t.bytes,
                size |-> t.size, limit |-> t.limit]
        /\ t.entry \in [Runs -> Content] /\ t.size \in Int
    BY <2>2 DEF Sound, CacheType
  <2>4. t.entry[r] \in Content /\ t.entry[r][x] \in Blobs \cup {NoBlob}
    BY <2>3 DEF Content
  <2>5. Bytes[v] \in Nat /\ Bytes[t.entry[r][x]] \in Nat
    BY <2>4, EntryBytesPositive
  <2>6. more \in Int /\ (v = NoBlob => more <= 0)
    BY <2>5, BlobsAssumption
  <2>7. b \in Content
    BY <2>4 DEF Content
  <2>8. BytesOf(b) = t.bytes[r] + more
    <3>1. BytesOf(b) = BytesOf(t.entry[r]) + more
      BY <2>4, SlotBytes
    <3>2. t.bytes[r] = BytesOf(t.entry[r])
      BY <2>2 DEF Sound, Accounted
    <3> QED BY <3>1, <3>2
  <2>9. s = [order |-> t.order, entry |-> entry, bytes |-> bytes,
             size |-> t.size + more, limit |-> t.limit]
    <3>1. s = [t EXCEPT !.entry = entry, !.bytes = bytes, !.size = t.size + more]
      OBVIOUS
    <3> DEFINE size == t.size + more
    <3>2. s = [t EXCEPT !.entry = entry, !.bytes = bytes, !.size = size]
      BY <3>1
    <3> HIDE DEF s, entry, bytes, size
    <3>3. s = [order |-> t.order, entry |-> entry, bytes |-> bytes,
               size |-> size, limit |-> t.limit]
      BY <2>3, <3>2
    <3> QED BY <3>3 DEF size
  <2>10. Sound(s) /\ s.limit = t.limit /\ s.size = t.size + more
    <3> HIDE DEF b, more, s
    <3> QED BY <2>2, <2>6, <2>7, <2>8, <2>9, ReplaceSound
  <2> HIDE DEF s, more
  <2>11. CASE v = NoBlob
    <3>1. s.size <= limit
      <4>1. t.size <= limit /\ limit \in Nat
        BY <2>2 DEF Account, Sound, CacheType
      <4> QED BY <2>3, <2>6, <2>10, <2>11, <4>1
    <3> QED BY <2>1, <2>2, <2>10, <2>11, <3>1 DEF Account
  <2>12. CASE v # NoBlob
    BY <2>1, <2>2, <2>10, <2>12, EvictSound DEF Account
  <2> QED BY <2>11, <2>12
<1> QED BY <1>1, <1>2

\* fill: an entry that was not there is added, and evicted for.
LEMMA FillAccount ==
    ASSUME NEW c, NEW limit, Account(c, limit), NEW r \in Runs, NEW b \in Content
    PROVE  Account(Fill(c, r, b), limit)
<1>1. CASE BytesOf(b) = 0 \/ c.limit = 0 \/ Cached(c, r)
  BY <1>1 DEF Fill
<1>2. CASE ~(BytesOf(b) = 0 \/ c.limit = 0 \/ Cached(c, r))
  <2> DEFINE t == Touch(c, r)
             more == BytesOf(b)
             s == [t EXCEPT !.entry[r] = b, !.bytes[r] = BytesOf(b), !.size = @ + BytesOf(b)]
             entry == [t.entry EXCEPT ![r] = b]
             bytes == [t.bytes EXCEPT ![r] = t.bytes[r] + more]
  <2>1. Fill(c, r, b) = Evict(s)
    BY <1>2 DEF Fill
  <2>2. /\ Sound(t) /\ Cached(t, r) /\ t.limit = c.limit
        /\ t.entry = c.entry /\ t.bytes = c.bytes
    BY TouchSound DEF Account
  <2>3. t.bytes[r] = 0
    <3>1. c.bytes[r] = BytesOf(c.entry[r]) /\ c.entry[r] = Empty
      BY <1>2 DEF Account, Sound, Accounted
    <3> HIDE DEF t
    <3> QED BY <2>2, <3>1, EmptyBytes
  <2> HIDE DEF t
  <2>4. t = [order |-> t.order, entry |-> t.entry, bytes |-> t.bytes,
             size |-> t.size, limit |-> t.limit]
    BY <2>2 DEF Sound, CacheType
  <2>5. more \in Int
    BY EntryBytes
  <2>6. BytesOf(b) = t.bytes[r] + more
    <3> HIDE DEF more
    <3>1. t.bytes[r] + more = more
      BY <2>3, <2>5
    <3> QED BY <3>1 DEF more
  <2>7. s = [order |-> t.order, entry |-> entry, bytes |-> bytes,
             size |-> t.size + more, limit |-> t.limit]
    <3>1. bytes = [t.bytes EXCEPT ![r] = more]
      <4>1. t.bytes[r] + more = more
        BY <2>3, <2>5
      <4> HIDE DEF more
      <4> QED BY <4>1
    <3>2. s = [t EXCEPT !.entry = entry, !.bytes = [t.bytes EXCEPT ![r] = more],
                        !.size = t.size + more]
      OBVIOUS
    <3> DEFINE size == t.size + more
    <3> HIDE DEF bytes, s, entry, size
    <3>3. s = [t EXCEPT !.entry = entry, !.bytes = bytes, !.size = size]
      BY <3>1, <3>2 DEF size
    <3>4. s = [order |-> t.order, entry |-> entry, bytes |-> bytes,
               size |-> size, limit |-> t.limit]
      BY <2>4, <3>3
    <3> QED BY <3>4 DEF size
  <2>8. Sound(s) /\ s.limit = t.limit
    <3> HIDE DEF more, s
    <3> QED BY <2>2, <2>5, <2>6, <2>7, ReplaceSound
  <2> HIDE DEF s
  <2> QED BY <2>1, <2>2, <2>8, EvictSound DEF Account
<1> QED BY <1>1, <1>2

\* drop: what goes had no less than nothing.
LEMMA DropAccount ==
    ASSUME NEW c, NEW limit, Account(c, limit), NEW r \in Runs
    PROVE  Account(Drop(c, r), limit)
<1>1. CASE ~Cached(c, r)
  BY <1>1 DEF Drop
<1>2. CASE Cached(c, r)
  <2>1. /\ Sound(Drop(c, r)) /\ Drop(c, r).limit = c.limit
        /\ Drop(c, r).size = c.size - c.bytes[r]
    BY <1>2, DropSound DEF Account
  <2>2. c.entry[r] \in Content /\ c.bytes[r] = BytesOf(c.entry[r])
        /\ c.size \in Int /\ limit \in Nat /\ c.size <= limit
    BY DEF Account, Sound, CacheType, Accounted
  <2>3. BytesOf(c.entry[r]) \in Nat
    <3> DEFINE b == c.entry[r]
               f == [x \in Slots |-> Bytes[b[x]]]
    <3> HIDE DEF b
    <3>1. \A x \in Slots : f[x] \in Nat
      <4>1. \A x \in Slots : b[x] \in Blobs \cup {NoBlob}
        BY <2>2 DEF Content, b
      <4> QED BY <4>1, BlobsAssumption
    <3>2. BytesOf(b) = SumFunctionOnSet(f, Slots)
      BY <2>2, EntryBytes DEF b
    <3> HIDE DEF f
    <3>3. SumFunctionOnSet(f, Slots) \in Nat
      BY <3>1, SlotsFinite, SumIsNat
    <3> QED BY <3>2, <3>3 DEF b
  <2>4. c.size - c.bytes[r] <= limit
    BY <2>2, <2>3
  <2> QED BY <2>1, <2>4 DEF Account
<1> QED BY <1>1, <1>2

-----------------------------------------------------------------------------
(* The accounts of the two caches, whatever is asked of them.               *)

Accounts == Account(blobs, InFlightLimit) /\ Account(outputs, OutputLimit)

\* What reading has of its Run being cached, and how often something failed.
Counts == hit \in [Readers -> BOOLEAN] /\ fails \in 0..MaxFails

LEMMA CalledAccount ==
    ASSUME NEW c, NEW limit, Account(c, limit), NEW r \in Runs, NEW call \in Call
    PROVE  Account(Called(c, r, call), limit)
<1>1. CASE call.slot = "drop"
  BY <1>1, DropAccount DEF Called
<1>2. CASE call.slot # "drop"
  <2>1. call.slot \in Slots /\ call.blob \in Blobs \cup {NoBlob}
    BY <1>2 DEF Call
  <2> QED BY <1>2, <2>1, SetAccount DEF Called
<1> QED BY <1>1, <1>2

LEMMA InitAccounts == Init => Accounts /\ Counts
BY NewAccount, LimitsAssumption DEF Init, Accounts, Counts

LEMMA NextAccounts == Inv /\ Accounts /\ [Next]_vars => Accounts'
<1> SUFFICES ASSUME Inv, Accounts, [Next]_vars PROVE Accounts'
  OBVIOUS
<1>0. ASSUME NEW r \in Runs, CommitTerminal(r) PROVE Accounts'
  <2>1. blobs' = Fill(Lookup(blobs, r), r, InFlight(draft[r].blob)) /\ UNCHANGED outputs
    BY <1>0 DEF CommitTerminal, Staged
  <2>2. InFlight(draft[r].blob) \in Content
    BY DEF Inv, Types, Rows, InFlight, Content
  <2>3. Account(Lookup(blobs, r), InFlightLimit)
    BY LookupAccount DEF Accounts
  <2> QED BY <2>1, <2>2, <2>3, FillAccount DEF Accounts
<1>1. ASSUME NEW r \in Runs, CreateRun(r) \/ CommitState(r) PROVE Accounts'
  BY <1>1 DEF CreateRun, CommitState, Staged, Accounts
<1>2. ASSUME NEW r \in Runs, TellCache(r) PROVE Accounts'
  <2> DEFINE call == Head(todo[r])
  <2>1. todo[r] \in Seq(Call) /\ todo[r] # <<>>
    BY <1>2 DEF TellCache, Inv, Types
  <2>2. call \in Call
    BY <2>1
  <2>3. /\ blobs' = IF call.cache = "blobs" THEN Called(blobs, r, call) ELSE blobs
        /\ outputs' = IF call.cache = "outputs" THEN Called(outputs, r, call) ELSE outputs
    BY <1>2 DEF TellCache
  <2> HIDE DEF call
  <2>4. /\ Account(Called(blobs, r, call), InFlightLimit)
        /\ Account(Called(outputs, r, call), OutputLimit)
    BY <2>2, CalledAccount DEF Accounts
  <2> QED BY <2>3, <2>4 DEF Accounts
<1>3. ASSUME NEW r \in Runs, ReapDrops(r) PROVE Accounts'
  BY <1>3, DropAccount DEF ReapDrops, Accounts
<1>4. CASE ReapEnds \/ TxCommits \/ TxFails
  BY <1>4 DEF ReapEnds, TxCommits, TxFails, caches, Accounts
<1>5. CASE Reopen
  BY <1>5, NewAccount, LimitsAssumption DEF Reopen, Accounts
<1>6. ASSUME NEW k \in Readers, ReadInput(k) \/ ReadState(k) PROVE Accounts'
  <2>1. run[k] \in Runs
    BY <1>6 DEF ReadInput, ReadState, Inv, ReadTypes
  <2>2. blobs' = Lookup(blobs, run[k]) /\ UNCHANGED outputs
    BY <1>6 DEF ReadInput, ReadState
  <2> QED BY <2>1, <2>2, LookupAccount DEF Accounts
<1>7. ASSUME NEW k \in Readers, EndRead(k) PROVE Accounts'
  <2>1. run[k] \in Runs /\ Taken(k) \in Content
    BY <1>7, TakenContent DEF EndRead, Inv, ReadTypes
  <2>2. /\ blobs' = IF hit[k] THEN blobs ELSE Fill(blobs, run[k], Taken(k))
        /\ UNCHANGED outputs
    BY <1>7 DEF EndRead
  <2>3. Account(Fill(blobs, run[k], Taken(k)), InFlightLimit)
    BY <2>1, FillAccount DEF Accounts
  <2> QED BY <2>2, <2>3 DEF Accounts
<1>8. ASSUME NEW k \in Readers, ReadOutput(k) PROVE Accounts'
  <2>1. run[k] \in Runs
    BY <1>8 DEF ReadOutput, Inv, ReadTypes
  <2>2. outputs' \in {outputs, Lookup(outputs, run[k])} /\ UNCHANGED blobs
    BY <1>8 DEF ReadOutput
  <2> QED BY <2>1, <2>2, LookupAccount DEF Accounts
<1>9. ASSUME NEW k \in Readers, FillOutput(k) PROVE Accounts'
  <2>1. run[k] \in Runs /\ Taken(k) \in Content
    BY <1>9, TakenContent DEF FillOutput, Inv, ReadTypes
  <2>2. outputs' = Fill(outputs, run[k], Taken(k)) /\ UNCHANGED blobs
    BY <1>9 DEF FillOutput
  <2> QED BY <2>1, <2>2, FillAccount DEF Accounts
<1>10. ASSUME NEW k \in Readers, Return(k) PROVE Accounts'
  BY <1>10 DEF Return, caches, Accounts
<1>11. ASSUME NEW k \in Readers, NEW r \in Runs, BeginRead(k, r) \/ Occupied(k, r)
       PROVE  Accounts'
  BY <1>11 DEF BeginRead, Occupied, Begin, caches, Accounts
<1>12. CASE UNCHANGED vars
  BY <1>12 DEF vars, caches, Accounts
<1> QED BY <1>0, <1>1, <1>2, <1>3, <1>4, <1>5, <1>6, <1>7, <1>8, <1>9, <1>10, <1>11, <1>12
        DEF Next, Write, Read

LEMMA NextCounts == Counts /\ [Next]_vars => Counts'
<1> SUFFICES ASSUME Counts, [Next]_vars PROVE Counts'
  OBVIOUS
<1>0. MaxFails \in Nat /\ fails \in 0..MaxFails /\ hit \in [Readers -> BOOLEAN]
  BY LimitsAssumption DEF Counts
<1>1. fails' = fails \/ (fails < MaxFails /\ fails' = fails + 1)
  <2>1. ASSUME NEW r \in Runs, Write(r) \/ ReapDrops(r) PROVE fails' = fails
    BY <2>1 DEF Write, CreateRun, CommitState, CommitTerminal, Staged, TellCache, ReapDrops
  <2>2. CASE TxCommits \/ TxFails \/ ReapEnds \/ Reopen
    BY <2>2 DEF TxCommits, TxFails, ReapEnds, Reopen
  <2>3. ASSUME NEW k \in Readers, Read(k) PROVE fails' = fails
    BY <2>3 DEF Read, ReadInput, ReadState, EndRead, ReadOutput, FillOutput, Return
  <2>4. ASSUME NEW k \in Readers, NEW r \in Runs, BeginRead(k, r) \/ Occupied(k, r)
        PROVE  fails' = fails
    BY <2>4 DEF BeginRead, Occupied, Begin
  <2> QED BY <2>1, <2>2, <2>3, <2>4 DEF Next, vars
<1>2. fails' \in 0..MaxFails
  BY <1>0, <1>1
<1>3. hit' \in [Readers -> BOOLEAN]
  <2>1. ASSUME NEW k \in Readers, ReadInput(k) PROVE hit' \in [Readers -> BOOLEAN]
    <3>1. hit' = [hit EXCEPT ![k] = Cached(blobs, run[k])]
      BY <2>1 DEF ReadInput
    <3>2. Cached(blobs, run[k]) \in BOOLEAN
      BY DEF Cached
    <3> QED BY <1>0, <3>1, <3>2
  <2>2. \A S : Quit(S) => hit' \in [Readers -> BOOLEAN]
    BY <1>0 DEF Quit
  <2>3. ASSUME Reopen \/ TxFails \/ \E k \in Readers : Return(k)
        PROVE  hit' \in [Readers -> BOOLEAN]
    BY <2>2, <2>3 DEF Reopen, TxFails, Return
  <2>4. ASSUME NEW k \in Readers, NEW r \in Runs, BeginRead(k, r) \/ Occupied(k, r)
        PROVE  UNCHANGED hit
    BY <2>4 DEF BeginRead, Occupied, Begin
  <2>5. ASSUME NEW r \in Runs, Write(r) \/ ReapDrops(r) PROVE UNCHANGED hit
    <3>1. UNCHANGED reads
      BY <2>5 DEF Write, CreateRun, CommitState, CommitTerminal, Staged, TellCache, ReapDrops
    <3> QED BY <3>1 DEF reads
  <2>6. CASE ReapEnds \/ TxCommits \/ UNCHANGED vars
    BY <1>0, <2>6 DEF ReapEnds, TxCommits, reads, vars
  <2>7. ASSUME NEW k \in Readers, ReadState(k) \/ EndRead(k) \/ ReadOutput(k) \/ FillOutput(k)
        PROVE  UNCHANGED hit
    BY <2>7 DEF ReadState, EndRead, ReadOutput, FillOutput
  <2> QED BY <1>0, <2>1, <2>3, <2>4, <2>5, <2>6, <2>7 DEF Next, Read
<1> QED BY <1>2, <1>3 DEF Counts

\* A cache accounts for what it holds, each Run is cached once, neither is over
\* its limit between two calls, and nothing cached is at odds with the file or
\* with the transaction it was read in but what a rollback left, whatever order
\* writes, commits, reads, fills, evictions, drops and restarts come in.
THEOREM CachesSoundAlways == Spec => []CachesSound
<1>1. Inv /\ Accounts /\ Counts => CachesSound
  <2> SUFFICES ASSUME Inv, Accounts, Counts PROVE CachesSound
    OBVIOUS
  <2>1. TypeOK
    BY DEF Inv, Types, ReadTypes, Accounts, Account, Sound, Counts, TypeOK
  <2>2. CachesAccounted
    BY DEF Accounts, Account, Sound, CachesAccounted
  <2>3. CacheIsFile
    BY InvCacheIsFile
  <2> QED BY <2>1, <2>2, <2>3 DEF CachesSound
<1>2. Inv /\ Accounts /\ Counts /\ [Next]_vars => (Inv /\ Accounts /\ Counts)'
  BY NextInv, NextAccounts, NextCounts
<1>3. Init => Inv /\ Accounts /\ Counts
  BY InitInv, InitAccounts
<1> QED BY <1>1, <1>2, <1>3, PTL DEF Spec
=============================================================================
