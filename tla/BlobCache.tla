----------------------------- MODULE BlobCache -----------------------------
(***************************************************************************)
(* store/bbolt/blobcache.go: a least-recently-used cache of the blobs of    *)
(* Runs with an account of their bytes.  A cache is a record; each method   *)
(* runs under blobCache.mu and is a function on caches.  A Run's entry has  *)
(* a blob per slot: its input, its output and the state of each Step.       *)
(***************************************************************************)
EXTENDS Integers, Sequences, FiniteSets, SequencesExt

CONSTANTS Runs, Steps,
          Blobs, NoBlob, Bytes  \* values, the absent one, and the length of each

ASSUME BlobsAssumption ==
    /\ NoBlob \notin Blobs /\ Bytes \in [Blobs \cup {NoBlob} -> Nat]
    /\ \A v \in Blobs : Bytes[v] > 0
    /\ Bytes[NoBlob] = 0
ASSUME SlotsAssumption == Steps \cap {"input", "output"} = {}
ASSUME SizeAssumption == IsFiniteSet(Runs) /\ IsFiniteSet(Steps)   \* of one file

Slots == {"input", "output"} \cup Steps
Content == [Slots -> Blobs \cup {NoBlob}]
Empty == [x \in Slots |-> NoBlob]
BytesOf(blob) == SumFunction([x \in Slots |-> Bytes[blob[x]]])

\* order: the cached Runs, the most recently used first; entry and bytes (the
\* entry's own account) of a Run that is not cached are empty and zero.
CacheType == [order : Seq(Runs), entry : [Runs -> Content], bytes : [Runs -> Int],
              size : Int, limit : Nat]
NewCache(limit) == [order |-> <<>>, entry |-> [r \in Runs |-> Empty],
                    bytes |-> [r \in Runs |-> 0], size |-> 0, limit |-> limit]

Cached(c, r) == \E i \in 1..Len(c.order) : c.order[i] = r

\* The order when r's element, if it has one, is taken out of it.
Without(c, r) ==
    IF Cached(c, r) THEN RemoveAt(c.order, CHOOSE i \in 1..Len(c.order) : c.order[i] = r)
                    ELSE c.order

\* touch and lookup: the Run's entry becomes the most recently used; touch
\* creates it when it is absent.
Touch(c, r) == [c EXCEPT !.order = <<r>> \o Without(c, r)]
Lookup(c, r) == IF Cached(c, r) THEN Touch(c, r) ELSE c

Drop(c, r) ==
    IF ~Cached(c, r) THEN c
    ELSE [c EXCEPT !.order = Without(c, r), !.entry[r] = Empty,
                   !.bytes[r] = 0, !.size = @ - c.bytes[r]]

\* What is left of the account when only the first n in use are kept.
Others(c, n) == {c.order[i] : i \in n+1..Len(c.order)}
SizeOfFirst(c, n) == c.size - SumFunctionOnSet(c.bytes, Others(c, n))

KeepFirst(c, n) ==
    LET out == Others(c, n) IN
    [c EXCEPT !.order = SubSeq(c.order, 1, n),
              !.entry = [r \in Runs |-> IF r \in out THEN Empty ELSE c.entry[r]],
              !.bytes = [r \in Runs |-> IF r \in out THEN 0 ELSE c.bytes[r]],
              !.size = SizeOfFirst(c, n)]

\* Seeded fault: the entry being written, which is the first, is always kept.
EvictSparesFirst(c) ==
    KeepFirst(c, Max({1} \cup {n \in 0..Len(c.order) : SizeOfFirst(c, n) <= c.limit}))

\* evict: the least recently used go until the rest fits; the entry being
\* written goes too when it is alone and too big.
Evict(c) ==
    KeepFirst(c, Max({0} \cup {n \in 0..Len(c.order) : SizeOfFirst(c, n) <= c.limit}))

\* setInput, setOutput and setState.  An empty input or output changes nothing;
\* an empty state drops the one there was, and still touches the entry.
Set(c, r, x, v) ==
    IF c.limit = 0 \/ (v = NoBlob /\ x \notin Steps) THEN c
    ELSE LET t == Touch(c, r)
             more == Bytes[v] - Bytes[t.entry[r][x]]
             s == [t EXCEPT !.entry[r][x] = v, !.bytes[r] = @ + more, !.size = @ + more]
         IN  IF v = NoBlob THEN s ELSE Evict(s)

\* fill: what a read took from the file, if the Run is still not cached.
Fill(c, r, blob) ==
    IF BytesOf(blob) = 0 \/ c.limit = 0 \/ Cached(c, r) THEN c
    ELSE Evict([Touch(c, r) EXCEPT !.entry[r] = blob, !.bytes[r] = BytesOf(blob),
                                   !.size = @ + BytesOf(blob)])

\* The account is what is in the cache, and each Run is cached once.
Accounted(c) ==
    /\ \A i, j \in 1..Len(c.order) : c.order[i] = c.order[j] => i = j
    /\ \A r \in Runs : c.bytes[r] = BytesOf(c.entry[r])
                       /\ (~Cached(c, r) => c.entry[r] = Empty)
    /\ c.size = SumFunction(c.bytes)
=============================================================================
