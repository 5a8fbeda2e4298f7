----------------------------- MODULE BlobReads -----------------------------
(***************************************************************************)
(* store/bbolt's blobs and the two caches in front of them.  Writes share a *)
(* transaction and tell the caches after its commit; a read takes a         *)
(* snapshot of the file and asks the caches while others write, evict and   *)
(* drop, and fills an entry it missed when it is through.  Two reads are    *)
(* made inside a transaction, on its own rows: the one of a CreateRun that  *)
(* finds its slot occupied, and the one of a terminal transition.  Of the   *)
(* records only the blobs are kept here: BboltStore has the rest.           *)
(***************************************************************************)
EXTENDS BlobCache

CONSTANTS Readers, InFlightLimit, OutputLimit,
          RowMax,   \* the longest blob that is kept in its row (blobRowMax)
          Values,   \* the blobs that a Run may have in each slot
          MaxFails  \* bound: transactions rolled back and restarts

ASSUME LimitsAssumption == {InFlightLimit, OutputLimit, RowMax, MaxFails} \subseteq Nat
ASSUME ValuesAssumption == Values \in [Slots -> SUBSET (Blobs \cup {NoBlob})]

VARIABLES file,            \* the rows: each Run's life and blobs
          draft,           \* the rows as the open transaction has them
          open,            \* the Runs whose writes are in it
          inside,          \* the reads that are made in it
          blobs, outputs,  \* the caches of Runs in flight and of outputs
          todo,            \* calls on the caches that a write owes after its commit
          reaping,         \* the Run whose deletion is under way
          rpc, run, snap, got, left,       \* reads: what is still to be asked for,
          hit, took,                       \* was it cached, what came from the rows
          fails,
          peeked, ahead    \* history: blobs cached before their commit, of the
                           \* open transaction and of those rolled back

tx == <<draft, open, inside>>
caches == <<blobs, outputs>>
reads == <<rpc, run, snap, got, left, hit, took>>
history == <<peeked, ahead>>
vars == <<file, tx, caches, todo, reaping, reads, fails, history>>

NoRun == "none"
Beside(v) == Bytes[v] > RowMax
Call == [cache : {"blobs", "outputs"}, slot : Slots \cup {"drop"}, blob : Blobs \cup {NoBlob}]

Rows == [Runs -> [life : {"absent", "live", "terminal", "gone"}, blob : Content]]

TypeOK ==
    /\ file \in Rows /\ draft \in Rows /\ open \subseteq Runs /\ inside \subseteq Readers
    /\ blobs \in CacheType /\ outputs \in CacheType
    /\ \A r \in Runs : todo[r] \in Seq(Call)
    /\ reaping \in Runs \cup {NoRun}
    /\ rpc \in [Readers -> {"idle", "input", "states", "output", "fill", "done"}]
    /\ \A k \in Readers : rpc[k] # "idle" => run[k] \in Runs
    /\ snap \in [Readers -> Content] /\ got \in [Readers -> Content]
    /\ hit \in [Readers -> BOOLEAN] /\ left \in [Readers -> SUBSET Steps]
    /\ took \in [Readers -> SUBSET Slots]
    /\ fails \in 0..MaxFails
    /\ peeked \subseteq Runs \X Slots /\ ahead \subseteq Runs \X Slots

Init ==
    /\ file = [r \in Runs |-> [life |-> "absent", blob |-> Empty]]
    /\ draft = file /\ open = {} /\ inside = {}
    /\ blobs = NewCache(InFlightLimit) /\ outputs = NewCache(OutputLimit)
    /\ todo = [r \in Runs |-> <<>>] /\ reaping = NoRun
    /\ rpc = [k \in Readers |-> "idle"] /\ run = [k \in Readers |-> NoRun]
    /\ snap = [k \in Readers |-> Empty] /\ got = [k \in Readers |-> Empty]
    /\ hit = [k \in Readers |-> FALSE] /\ left = [k \in Readers |-> {}]
    /\ took = [k \in Readers |-> {}]
    /\ fails = 0 /\ peeked = {} /\ ahead = {}

-----------------------------------------------------------------------------
(* Writes.  A Run's writes come one after another, from its worker; those of *)
(* several Runs share a transaction (groupCommit), in which call follows call. *)

Between == \A k \in inside : rpc[k] = "done"

\* Nobody but its worker writes a Run, and one transaction runs at a time.
MayWrite(r) == todo[r] = <<>> /\ reaping = NoRun /\ Between

\* The write of r is in the transaction, and owes the calls to the caches.
Staged(r, rows, calls) ==
    /\ draft' = rows /\ open' = open \cup {r}
    /\ todo' = [todo EXCEPT ![r] = calls]
    /\ UNCHANGED <<file, inside, outputs, reaping, reads, fails, history>>

\* The slot is free: the Run is put with its input.
CreateRun(r) ==
    /\ MayWrite(r) /\ draft[r].life = "absent"
    /\ \E v \in Values["input"] :
         Staged(r, [draft EXCEPT ![r] = [life |-> "live", blob |-> [Empty EXCEPT !["input"] = v]]],
                <<[cache |-> "blobs", slot |-> "input", blob |-> v]>>)
    /\ UNCHANGED blobs

\* Seeded fault: the state is cached inside the transaction.
CommitStateInside(r) ==
    /\ MayWrite(r) /\ draft[r].life = "live"
    /\ \E s \in Steps : \E v \in Values[s] :
         /\ draft[r].blob[s] = NoBlob
         /\ blobs' = Set(blobs, r, s, IF Beside(v) THEN v ELSE NoBlob)
         /\ Staged(r, [draft EXCEPT ![r].blob[s] = v],
                   <<[cache |-> "blobs", slot |-> s, blob |-> IF Beside(v) THEN v ELSE NoBlob]>>)

\* A transition that resolves a forward operation: its state is written once,
\* beside its row when it is long, and cached after the commit; otherwise the
\* cache is told that the Step has none.
CommitState(r) ==
    /\ MayWrite(r) /\ draft[r].life = "live"
    /\ \E s \in Steps : \E v \in Values[s] :
         /\ draft[r].blob[s] = NoBlob
         /\ Staged(r, [draft EXCEPT ![r].blob[s] = v],
                   <<[cache |-> "blobs", slot |-> s, blob |-> IF Beside(v) THEN v ELSE NoBlob]>>)
    /\ UNCHANGED blobs

\* What getNonterminal has of a Run's blobs for an entry of the cache.
InFlight(blob) ==
    [x \in Slots |-> IF x = "input" \/ (x \in Steps /\ Beside(blob[x])) THEN blob[x] ELSE NoBlob]

\* The terminal transition reads the record, which fills its entry; after the
\* commit the Run leaves one cache and its output, if it is long, enters the other.
CommitTerminal(r) ==
    /\ MayWrite(r) /\ draft[r].life = "live"
    /\ blobs' = Fill(Lookup(blobs, r), r, InFlight(draft[r].blob))
    /\ \E v \in Values["output"] :
         Staged(r, [draft EXCEPT ![r].life = "terminal", ![r].blob["output"] = v],
                <<[cache |-> "blobs", slot |-> "drop", blob |-> NoBlob]>>
                \o IF Beside(v) THEN <<[cache |-> "outputs", slot |-> "output", blob |-> v]>>
                                ELSE <<>>)

\* The transaction commits, and its calls return to their callers.
TxCommits ==
    /\ open \cup inside # {} /\ Between
    /\ file' = draft /\ open' = {} /\ inside' = {} /\ peeked' = {}
    /\ UNCHANGED <<draft, caches, todo, reaping, reads, fails, ahead>>

\* The reads of S are over.
Quit(S) ==
    /\ rpc' = [k \in Readers |-> IF k \in S THEN "idle" ELSE rpc[k]]
    /\ run' = [k \in Readers |-> IF k \in S THEN NoRun ELSE run[k]]
    /\ snap' = [k \in Readers |-> IF k \in S THEN Empty ELSE snap[k]]
    /\ got' = [k \in Readers |-> IF k \in S THEN Empty ELSE got[k]]
    /\ left' = [k \in Readers |-> IF k \in S THEN {} ELSE left[k]]
    /\ hit' = [k \in Readers |-> IF k \in S THEN FALSE ELSE hit[k]]
    /\ took' = [k \in Readers |-> IF k \in S THEN {} ELSE took[k]]

\* The rows without the transaction.  No identifier is used twice: a Run whose
\* creation is rolled back is never created.
RolledBack ==
    [r \in Runs |-> IF r \in open /\ file[r].life = "absent"
                    THEN [life |-> "gone", blob |-> Empty] ELSE file[r]]

\* The transaction fails and so do its calls.  The caches are not told: what a
\* read inside it has cached stays.
TxFails ==
    /\ open \cup inside # {} /\ Between
    /\ fails < MaxFails /\ fails' = fails + 1
    /\ file' = RolledBack /\ draft' = RolledBack /\ open' = {} /\ inside' = {}
    /\ todo' = [r \in Runs |-> IF r \in open THEN <<>> ELSE todo[r]]
    /\ Quit(inside)
    /\ peeked' = {} /\ ahead' = ahead \cup peeked
    /\ UNCHANGED <<caches, reaping>>

\* What the writer does to the caches after its commit.
Called(c, r, call) ==
    IF call.slot = "drop" THEN Drop(c, r) ELSE Set(c, r, call.slot, call.blob)

TellCache(r) ==
    /\ todo[r] # <<>> /\ r \notin open
    /\ LET call == Head(todo[r]) IN
         /\ blobs' = IF call.cache = "blobs" THEN Called(blobs, r, call) ELSE blobs
         /\ outputs' = IF call.cache = "outputs" THEN Called(outputs, r, call) ELSE outputs
    /\ todo' = [todo EXCEPT ![r] = Tail(@)]
    /\ UNCHANGED <<file, tx, reaping, reads, fails, history>>

\* ReapTerminal has a transaction of its own and drops the output inside it,
\* before it commits.
ReapDrops(r) ==
    /\ reaping = NoRun /\ open \cup inside = {} /\ file[r].life = "terminal"
    /\ reaping' = r
    /\ outputs' = Drop(outputs, r)
    /\ UNCHANGED <<file, tx, blobs, todo, reads, fails, history>>

ReapEnds ==
    /\ reaping # NoRun
    /\ \/ /\ file' = [file EXCEPT ![reaping] = [life |-> "gone", blob |-> Empty]]
          /\ draft' = file' /\ UNCHANGED fails
       \/ fails < MaxFails /\ fails' = fails + 1 /\ UNCHANGED <<file, draft>>
    /\ reaping' = NoRun
    /\ UNCHANGED <<open, inside, caches, todo, reads, history>>

\* The store is opened again: the caches start cold, and what was under way is gone.
Reopen ==
    /\ fails < MaxFails /\ fails' = fails + 1
    /\ blobs' = NewCache(InFlightLimit) /\ outputs' = NewCache(OutputLimit)
    /\ file' = RolledBack /\ draft' = RolledBack /\ open' = {} /\ inside' = {}
    /\ todo' = [r \in Runs |-> <<>>] /\ reaping' = NoRun
    /\ Quit(Readers)
    /\ peeked' = {} /\ ahead' = {}

-----------------------------------------------------------------------------
(* Reads: getRun and getNonterminal on a snapshot of the rows. *)

\* The blobs in their rows come with the snapshot; the ones beside are asked for.
Begin(k, r, rows) ==
    /\ rpc' = [rpc EXCEPT ![k] = IF rows[r].life = "live" THEN "input" ELSE "output"]
    /\ run' = [run EXCEPT ![k] = r]
    /\ snap' = [snap EXCEPT ![k] = IF rows[r].life = "live" THEN rows[r].blob
                                   ELSE [Empty EXCEPT !["output"] = rows[r].blob["output"]]]
    /\ got' = [got EXCEPT ![k] = [x \in Slots |->
                 IF x = "input" \/ Beside(snap'[k][x]) THEN NoBlob ELSE snap'[k][x]]]
    /\ left' = [left EXCEPT ![k] = {s \in Steps : Beside(snap'[k][s])}]
    /\ UNCHANGED <<file, draft, open, caches, todo, reaping, hit, took, fails, history>>

\* Seeded fault: any blob that is beside its row is asked for as a state.
BeginReadAllStates(k, r) ==
    /\ rpc[k] = "idle" /\ file[r].life \in {"live", "terminal"}
    /\ rpc' = [rpc EXCEPT ![k] = IF file[r].life = "live" THEN "input" ELSE "output"]
    /\ run' = [run EXCEPT ![k] = r]
    /\ snap' = [snap EXCEPT ![k] = file[r].blob]
    /\ left' = [left EXCEPT ![k] = {s \in Slots : Beside(snap'[k][s])}]
    /\ UNCHANGED <<file, tx, caches, todo, reaping, got, hit, took, fails, history>>

\* GetRun: on what is committed.
BeginRead(k, r) ==
    /\ rpc[k] = "idle" /\ file[r].life \in {"live", "terminal"}
    /\ Begin(k, r, file)
    /\ UNCHANGED inside

\* CreateRun finds r in its slot, or in one of its group, and reads it in the
\* transaction, whose earlier calls have not committed.
Occupied(k, r) ==
    /\ rpc[k] = "idle" /\ reaping = NoRun /\ Between /\ draft[r].life = "live"
    /\ Begin(k, r, draft)
    /\ inside' = inside \cup {k}

\* The cache's blob if it has one, or else that of the rows.
Ask(c, k, x) ==
    LET cached == c.entry[run[k]][x] IN
    /\ got' = [got EXCEPT ![k][x] = IF cached # NoBlob THEN cached ELSE snap[k][x]]
    /\ took' = [took EXCEPT ![k] = IF cached # NoBlob THEN @ ELSE @ \cup {x}]

\* The input is asked first; whether the Run is cached decides about the fill.
ReadInput(k) ==
    /\ rpc[k] = "input"
    /\ hit' = [hit EXCEPT ![k] = Cached(blobs, run[k])]
    /\ IF snap[k]["input"] = NoBlob THEN UNCHANGED <<got, took>> ELSE Ask(blobs, k, "input")
    /\ blobs' = Lookup(blobs, run[k])
    /\ rpc' = [rpc EXCEPT ![k] = "states"]
    /\ UNCHANGED <<file, tx, outputs, todo, reaping, run, snap, left, fails, history>>

\* Seeded fault: a Run that is cached is taken to have all its states cached.
ReadStateTrusts(k) ==
    /\ rpc[k] = "states"
    /\ \E s \in left[k] :
         /\ got' = [got EXCEPT ![k][s] =
                      IF Cached(blobs, run[k]) THEN blobs.entry[run[k]][s] ELSE snap[k][s]]
         /\ took' = [took EXCEPT ![k] = IF Cached(blobs, run[k]) THEN @ ELSE @ \cup {s}]
         /\ left' = [left EXCEPT ![k] = @ \ {s}]
    /\ blobs' = Lookup(blobs, run[k])
    /\ UNCHANGED <<file, tx, outputs, todo, reaping, rpc, run, snap, hit, fails, history>>

ReadState(k) ==
    /\ rpc[k] = "states"
    /\ \E s \in left[k] :
         /\ Ask(blobs, k, s)
         /\ left' = [left EXCEPT ![k] = @ \ {s}]
    /\ blobs' = Lookup(blobs, run[k])
    /\ UNCHANGED <<file, tx, outputs, todo, reaping, rpc, run, snap, hit, fails, history>>

\* What the read took from the rows, as an entry of a cache.
Taken(k) == [x \in Slots |-> IF x \in took[k] THEN got[k][x] ELSE NoBlob]

\* Only a Run that was not cached at all when the read began enters the cache.
EndRead(k) ==
    /\ rpc[k] = "states" /\ left[k] = {}
    /\ blobs' = IF hit[k] THEN blobs ELSE Fill(blobs, run[k], Taken(k))
    /\ rpc' = [rpc EXCEPT ![k] = "done"]
    /\ peeked' = peeked \cup {<<run[k], x>> : x \in {y \in Slots : k \in inside
                     /\ blobs'.entry[run[k]][y] \notin {blobs.entry[run[k]][y], file[run[k]].blob[y]}}}
    /\ UNCHANGED <<file, tx, outputs, todo, reaping, run, snap, got, left, hit, took, fails, ahead>>

\* The output of a terminal Run: in its row, or from the cache, or from the file.
ReadOutput(k) ==
    /\ rpc[k] = "output"
    /\ IF Beside(snap[k]["output"])
         THEN /\ Ask(outputs, k, "output")
              /\ outputs' = Lookup(outputs, run[k])
              /\ rpc' = [rpc EXCEPT ![k] = IF took'[k] # {} THEN "fill" ELSE "done"]
         ELSE rpc' = [rpc EXCEPT ![k] = "done"] /\ UNCHANGED <<outputs, got, took>>
    /\ UNCHANGED <<file, tx, blobs, todo, reaping, run, snap, left, hit, fails, history>>

FillOutput(k) ==
    /\ rpc[k] = "fill"
    /\ outputs' = Fill(outputs, run[k], Taken(k))
    /\ rpc' = [rpc EXCEPT ![k] = "done"]
    /\ UNCHANGED <<file, tx, blobs, todo, reaping, run, snap, got, left, hit, took, fails, history>>

\* The record goes to the caller, of a call in a transaction when that is over.
Return(k) ==
    /\ rpc[k] = "done" /\ k \notin inside
    /\ Quit({k})
    /\ UNCHANGED <<file, tx, caches, todo, reaping, fails, history>>

Write(r) == CreateRun(r) \/ CommitState(r) \/ CommitTerminal(r) \/ TellCache(r)
Read(k) == ReadInput(k) \/ ReadState(k) \/ EndRead(k) \/ ReadOutput(k) \/ FillOutput(k)
           \/ Return(k)

Next ==
    \/ \E r \in Runs : Write(r) \/ ReapDrops(r)
    \/ TxCommits \/ TxFails \/ ReapEnds \/ Reopen
    \/ \E k \in Readers : Read(k) \/ \E r \in Runs : BeginRead(k, r) \/ Occupied(k, r)

Spec == Init /\ [][Next]_vars

-----------------------------------------------------------------------------
(* Properties. *)

\* The caches' accounts are what they hold, each Run is cached once, and neither
\* is over its limit between two calls, whatever order the calls come in.
CachesAccounted ==
    /\ Accounted(blobs) /\ Accounted(outputs)
    /\ blobs.size <= InFlightLimit /\ outputs.size <= OutputLimit

\* A read returns the blobs of the snapshot it was made on, whether the caches
\* had them, had some of them, or were filled, evicted and dropped under it.
\* (Except a blob that an occupied slot's CreateRun cached from a transaction
\* which was then rolled back: until the entry is replaced or goes, a read after
\* the commit of another blob finds the one that was never committed.)
ReadIsSnapshot ==
    \A k \in Readers : rpc[k] = "done" =>
        \A x \in Slots : got[k][x] = snap[k][x] \/ <<run[k], x>> \in ahead

\* A cached blob of a Run in the file is the file's, and a late fill brings
\* nothing back; the one that a CreateRun cached inside the open transaction is
\* that transaction's.  (Except when that transaction was rolled back: the caches
\* are then ahead of the file, and stay so.)
CacheIsFile ==
    \A r \in Runs : \A x \in Slots : <<r, x>> \in ahead \/
        /\ file[r].life = "live" /\ blobs.entry[r][x] # NoBlob
             => blobs.entry[r][x] = IF <<r, x>> \in peeked THEN draft[r].blob[x]
                                                           ELSE file[r].blob[x]
        /\ file[r].life = "terminal" /\ outputs.entry[r][x] # NoBlob
             => outputs.entry[r][x] = file[r].blob[x]

\* The caches hold what they account for, and nothing the file denies but what a
\* transaction that was rolled back left there.
CachesSound == TypeOK /\ CachesAccounted /\ CacheIsFile
=============================================================================
