------------------------------- MODULE Limits -------------------------------
(***************************************************************************)
(* The edges of the engine's inputs: the bound on recorded text (boundText *)
(* of engine/ids.go), the retry delay (backoff), the options of Schedule   *)
(* (schedule.go and the head of Pipeline.Schedule), and the store a URI    *)
(* opens (store/store.go, store/bbolt/open.go, store/mem/open.go).         *)
(***************************************************************************)
EXTENDS Integers, Sequences, FiniteSets, FiniteSetsExt, SequencesExt

CONSTANTS
    DefaultTextLimit,   \* bytes, when the engine has no positive limit
    MaxInt,             \* the greatest value of Go's int, a power of 2 less 1
    MaxDuration,        \* that of a time.Duration
    MaxFloat,           \* that of a float64; what is greater is infinite
    Unit,               \* the multiplier of each unit suffix, "" included
    DefaultCache        \* the byte limit of a cache the URI does not set

\* int is at least wide enough for one of each unit.
ASSUME LimitsAssumption ==
    /\ DefaultTextLimit \in Nat \ {0} /\ DefaultCache \in Nat
    /\ MaxInt \in Nat /\ MaxDuration \in Nat /\ MaxFloat \in Nat /\ MaxDuration <= MaxFloat
    /\ \A u \in DOMAIN Unit : Unit[u] \in 1..MaxInt

----------------------------------------------------------------------------
(***************************************************************************)
(* Text is the sequence of the widths in bytes of its characters, 1 to 4;  *)
(* 0 is a byte that is not UTF-8.  MarkWidth is the width of the ellipsis  *)
(* that marks a cut, and of the replacement character.                     *)
(***************************************************************************)
MarkWidth == 3
BadByte == 0

Bytes(text) == FoldLeft(LAMBDA n, w : n + w, 0, text)

\* strings.ToValidUTF8: one replacement for each run of bad bytes.
sanitizeText(text) ==
    LET clean(out, i) ==
            IF text[i] # BadByte THEN Append(out, text[i])
            ELSE IF i > 1 /\ text[i - 1] = BadByte THEN out
            ELSE Append(out, MarkWidth)
    IN  FoldLeftDomain(clean, <<>>, text)

(***************************************************************************)
(* boundText: the cut starts at the limit less the mark and walks back to  *)
(* the start of a character; keep is how many characters end before it.    *)
(***************************************************************************)
BoundTextPlusMark(text, textLimit) ==   \* mutant: no room is left for the mark
    LET s == sanitizeText(text)
        limit == IF textLimit <= 0 THEN DefaultTextLimit ELSE textLimit
        keep == Max({k \in 0..Len(s) : Bytes(SubSeq(s, 1, k)) <= limit})
    IN  IF Bytes(s) <= limit THEN s ELSE Append(SubSeq(s, 1, keep), MarkWidth)

boundText(text, textLimit) ==
    LET s == sanitizeText(text)
        limit == IF textLimit <= 0 THEN DefaultTextLimit ELSE textLimit
        cut == Max({0, limit - MarkWidth})
        keep == Max({k \in 0..Len(s) : Bytes(SubSeq(s, 1, k)) <= cut})
    IN  IF Bytes(s) <= limit THEN s ELSE Append(SubSeq(s, 1, keep), MarkWidth)

----------------------------------------------------------------------------
(***************************************************************************)
(* backoff: the delays attempt may be given, computed in float64.          *)
(* Time.Duration truncates the fractions, so the jitter over [d/2, d) is a *)
(* set of whole units; what it makes of a float it cannot hold is up to    *)
(* the build: the least Duration on one machine, the greatest on another.  *)
(***************************************************************************)
Power(m, n) == LET p[k \in Nat] == IF k = 0 THEN 1 ELSE p[k - 1] * m IN p[n]

Growth(policy, attempts) == Power(Max({policy.multiplier, 1}), attempts - 1)

UncappedAsGiven(policy, attempts) ==   \* mutant: a multiplier below one is used
    IF attempts = 1 THEN policy.initial
    ELSE policy.initial * Power(policy.multiplier, attempts - 1)

Uncapped(policy, attempts) == policy.initial * Growth(policy, attempts)

Least == -(MaxDuration + 1)

Duration(d) == IF d <= MaxDuration THEN {d} ELSE {Least, MaxDuration}

\* Zero times infinity is no number, exceeds no maximum, and is converted to
\* the least Duration or to zero.
NoNumber(policy, attempts) == policy.initial = 0 /\ Growth(policy, attempts) > MaxFloat

backoff(policy, attempts) ==
    LET grown == Uncapped(policy, attempts)
        d == IF policy.max > 0 /\ grown > policy.max THEN policy.max ELSE grown
    IN  IF NoNumber(policy, attempts) THEN {Least, 0}
        ELSE UNION {Duration(j) : j \in {i \in (d \div 2)..d : i < d \/ d = 0}}

----------------------------------------------------------------------------
(***************************************************************************)
(* ScheduleOptions, filled by the engine's annotators and then by the      *)
(* call's options in order.  An option is StartAt, StartAfter or           *)
(* WithAnnotations; annotations are functions from keys to values, and so  *)
(* are the maps the engine's annotators answer.                            *)
(***************************************************************************)
NoOptions == [startAt |-> 0, startAfter |-> 0, annotations |-> <<>>]

\* maps.Copy.
Merge(old, new) ==
    [k \in DOMAIN old \cup DOMAIN new |-> IF k \in DOMAIN new THEN new[k] ELSE old[k]]

ApplyStartAtFirst(so, o) ==   \* mutant: StartAfter leaves an earlier StartAt
    CASE o.opt = "StartAt" -> [so EXCEPT !.startAt = o.time, !.startAfter = 0]
      [] o.opt = "StartAfter" -> [so EXCEPT !.startAfter = o.time]
      [] o.opt = "WithAnnotations" ->
           [so EXCEPT !.annotations = Merge(@, o.annotations)]

ApplyScheduleOption(so, o) ==
    CASE o.opt = "StartAt" -> [so EXCEPT !.startAt = o.time, !.startAfter = 0]
      [] o.opt = "StartAfter" -> [so EXCEPT !.startAt = 0, !.startAfter = o.time]
      [] o.opt = "WithAnnotations" ->
           [so EXCEPT !.annotations = Merge(@, o.annotations)]

Annotate(annotations) ==
    [opt |-> "WithAnnotations", time |-> 0, annotations |-> annotations]

\* The annotations and NextAttemptAt of the record Schedule creates.
ScheduleRecord(annotators, opts, now) ==
    LET seeds == [i \in DOMAIN annotators |-> Annotate(annotators[i])]
        so == FoldLeft(ApplyScheduleOption, NoOptions, seeds \o opts)
    IN  [annotations |-> so.annotations,
         nextAttemptAt |-> IF so.startAt # 0 THEN so.startAt
                           ELSE IF so.startAfter > 0 THEN now + so.startAfter
                           ELSE 0]

----------------------------------------------------------------------------
(***************************************************************************)
(* store.Open.  A URI is parsed (by net/url) into scheme, host, path (with *)
(* opaque) and query: its pairs of an option key and a value, in order.  A *)
(* value is a whole number and a unit suffix, or neither.  A pair is well  *)
(* formed when url.ParseQuery takes it: no semicolon, no broken escape.    *)
(***************************************************************************)
Refused == [opened |-> FALSE, driver |-> "", blobCache |-> 0, outputCache |-> 0]

\* Go's int arithmetic wraps.
Wrap(n) ==
    LET values == 2 * (MaxInt + 1)
        m == n % values
    IN  IF m <= MaxInt THEN m ELSE m - values

parseBytes(v) == Wrap(v.number * Unit[v.unit])

\* strconv.Atoi takes it, and it is not negative.
IsByteCount(v) == v.digits /\ v.number \in 0..MaxInt

\* u.Query(): the pairs that are not well formed are left out, and no error is given.
Kept(uri) == {i \in DOMAIN uri.pairs : uri.pairs[i].wellFormed}
Places(uri, key) == {i \in Kept(uri) : uri.pairs[i].key = key}

Given(uri, key) ==
    IF Places(uri, key) = {} THEN DefaultCache
    ELSE parseBytes(uri.pairs[CHOOSE i \in Places(uri, key) : TRUE].value)

OpenBboltLenient(uri) ==   \* mutant: an unknown option is ignored
    IF /\ uri.host = "" /\ uri.path # ""
       /\ \A i \in Kept(uri) :
             Places(uri, uri.pairs[i].key) = {i} /\ IsByteCount(uri.pairs[i].value)
      THEN [opened |-> TRUE, driver |-> "bbolt",
            blobCache |-> Given(uri, "blob_cache"),
            outputCache |-> Given(uri, "output_cache")]
      ELSE Refused

OpenBbolt(uri) ==
    IF /\ uri.host = "" /\ uri.path # ""
       /\ \A i \in Kept(uri) :
             /\ Places(uri, uri.pairs[i].key) = {i}
             /\ IsByteCount(uri.pairs[i].value)
             /\ uri.pairs[i].key \in {"blob_cache", "output_cache"}
      THEN [opened |-> TRUE, driver |-> "bbolt",
            blobCache |-> Given(uri, "blob_cache"),
            outputCache |-> Given(uri, "output_cache")]
      ELSE Refused

\* The raw query must be empty: here a pair that is not well formed is refused.
OpenMem(uri) ==
    IF uri.host = "" /\ uri.path = "" /\ uri.pairs = <<>>
      THEN [Refused EXCEPT !.opened = TRUE, !.driver = "mem"]
      ELSE Refused

\* drivers is the set of schemes registered by the drivers linked in.
Open(uri, drivers) ==
    CASE uri.scheme \notin drivers -> Refused
      [] uri.scheme = "bbolt" -> OpenBbolt(uri)
      [] uri.scheme = "mem" -> OpenMem(uri)
=============================================================================
