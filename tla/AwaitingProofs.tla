--------------------------- MODULE AwaitingProofs ---------------------------
(***************************************************************************)
(* Theorems about Awaiting, for any finite set of Runs, any parks they may  *)
(* ask for, any callers, cancels, retention, failures and process ends: the *)
(* registrations are the stored parks, no completion and no caller of Wait  *)
(* is missed, what a handler is told about its park is true, a cascade is   *)
(* exact, and no circle of parks comes to rest.                             *)
(***************************************************************************)
EXTENDS Awaiting, FiniteSetTheorems, WellFoundedInduction, TLAPS

-----------------------------------------------------------------------------
(* The inductive invariant, by its parts. *)

(* Where a worker is and what its Run's record then says. *)
Place(r) ==
    /\ db[r].park # NoPark => db[r].park.targets # {}
    /\ db[r].phase = "ended" => db[r].park = NoPark
    /\ ~Live(r) => db[r].phase = "ended"
    /\ wpc[r] \in {"gatewalk", "targets"} => Registered(joins, r)
    /\ wpc[r] \in {"reserve", "parkwalk", "reveal"} => db[r].park # NoPark
    /\ wpc[r] = "reveal" => invalid[r] # {}
    /\ wpc[r] = "handler" => Live(r) /\ db[r].phase # "ended" /\ db[r].park = NoPark
    /\ wpc[r] \in {"notify", "complete", "kick"} => ~Live(r)
    /\ r \in passed => db[r].park.deadline
    /\ ~up => wpc[r] = "none" /\ ~Registered(joins, r)

(* A registration is for the stored park, and its marks are true. *)
Entry(r) ==
    /\ Registered(joins, r) => /\ db[r].park # NoPark
                               /\ joins[r].keys = db[r].park.targets
                               /\ joins[r].need = AwaitNeed(db[r].park)
                               /\ wpc[r] \in {"none", "queued", "gatewalk", "targets"}
    /\ joins[r].kicked => Cardinality(joins[r].done) >= joins[r].need
    /\ \A t \in joins[r].done : ~Live(t)
    /\ timers[r] # "off" => Registered(joins, r)
    /\ timers[r] = "fired" => r \in passed

(* A live Run without a worker is parked, with all it needs to be woken, or *)
(* its terminal commit failed; a cancellation that concerns a Run finds it, *)
(* or its worker passes again.                                              *)
Idle(r) ==
    up /\ Live(r) =>
        /\ wpc[r] = "none" =>
             \/ r \in stranded /\ db[r].phase = "ended"
             \/ /\ db[r].park # NoPark
                /\ invalid[r] = {} => /\ Registered(joins, r)
                                      /\ db[r].park.deadline => timers[r] = "armed"
        /\ db[r].phase = "forward" /\ db[r].cancel =>
             wpc[r] = "queued" \/ (wpc[r] # "none" /\ r \in repoke)

(* A finished target is marked, about to be announced, or about to be read. *)
Cover(r) ==
    \A t \in joins[r].keys :
        \/ Live(t) \/ t \in joins[r].done
        \/ wpc[t] \in {"notify", "complete"}
        \/ wpc[r] = "gatewalk" \/ (wpc[r] = "targets" /\ t \in left[r])

(* A Run at rest whose threshold is reached is about to be kicked. *)
Kick(r) ==
    Registered(joins, r) /\ wpc[r] = "none" /\ Cardinality(joins[r].done) >= joins[r].need =>
        \E t \in joins[r].keys : wpc[t] = "kick" /\ r \in left[t]

(* A caller has a channel until it returns. *)
Waiter(c) ==
    /\ cpc[c] \in {"read", "wait"} => watch[c] # "none"
    /\ cpc[c] = "wait" /\ watch[c] # "closed" =>
         \/ Live(On[c]) /\ invalid[On[c]] = {}
         \/ wpc[On[c]] \in {"notify", "reveal"}
    /\ ~up => cpc[c] \in {"idle", "returned"}

(* A memory of a park is true. *)
True(r, m) ==
    LET enough == Cardinality(m.done) >= AwaitNeed(m.park) IN
    /\ \A t \in m.done : ~Live(t)
    /\ ~enough => m.expired \/ r \in unread
    /\ m.expired => ~enough /\ m.park.deadline
Memory(r) ==
    /\ woke[r] # NoWake => True(r, woke[r])
    /\ db[r].memory # NoWake => True(r, db[r].memory)

(* A cascade requests the cancel of what it must. *)
Owed(r) == wpc[r] = "cascade" => left[r] \subseteq must

(* Circles of parks: a set of parked, valid Runs each of which waits for    *)
(* another of them, and such a set without a smaller one in it.             *)
Stands(r) == db[r].park # NoPark /\ invalid[r] = {}
Standing(S) ==
    S # {} /\ S \subseteq Runs /\ \A r \in S : Stands(r) /\ db[r].park.targets \cap S # {}
Circle(S) == Standing(S) /\ \A T \in SUBSET S : Standing(T) => T = S

(* r's search cannot miss the circle S: it has all of r's targets and those *)
(* of every member it has visited.                                          *)
Finding(r, S) ==
    /\ r \notin seen[r]
    /\ db[r].park.targets \subseteq seen[r] \cup left[r]
    /\ \A v \in S \cap seen[r] : db[v].park.targets \subseteq seen[r] \cup left[r]

(* Without trouble a circle never outlives the search of its last parkAwait.*)
(* After one, the gate's search of some member is still to come or under way. *)
ParkFinds == \A S \in SUBSET Runs : Circle(S) =>
    \E r \in S : wpc[r] = "parkwalk" /\ Finding(r, S)
GateFinds == \A S \in SUBSET Runs : Circle(S) =>
    \E r \in S : ~Registered(joins, r) \/ (wpc[r] = "gatewalk" /\ Finding(r, S))
Search == (troubles = 0 => ParkFinds) /\ (troubles <= 1 => GateFinds)

Own(r) == Place(r) /\ Entry(r) /\ Idle(r) /\ Cover(r) /\ Kick(r) /\ Memory(r) /\ Owed(r)
Inv ==
    /\ TypeOK
    /\ \A r \in Runs : Own(r)
    /\ \A c \in Callers : Waiter(c)
    /\ CascadeExact

-----------------------------------------------------------------------------
(* Records and registrations. *)

LEMMA Nothing == NoPark \in ParkType /\ NoWake \in WakeType /\ NoPark.targets = {}
                 /\ ~NoPark.deadline
BY DEF NoPark, NoWake, ParkType, WakeType

LEMMA ParkAsked ==
    ASSUME NEW r \in Runs, NEW p \in Parks[r]
    PROVE  p \in ParkType /\ p.targets # {} /\ p # NoPark /\ p.targets \subseteq Runs
<1>1. p \in {q \in ParkType : q.targets # {}}
  BY ParksAssumption
<1> QED BY <1>1 DEF NoPark, ParkType

Records == [Runs -> RecordType]

PutPark(d, r, p, m) == [d EXCEPT ![r].park = p, ![r].memory = m]
PutCancel(d, r) == [d EXCEPT ![r].cancel = TRUE]
PutLife(d, r, v) == [d EXCEPT ![r].life = v]
PutResolved(d, r) == [d EXCEPT ![r] = Resolved(@)]

LEMMA SetPark ==
    ASSUME NEW d \in Records, NEW r \in Runs, NEW p \in ParkType, NEW m \in WakeType
    PROVE  /\ PutPark(d, r, p, m) \in Records
           /\ \A x \in Runs \ {r} : PutPark(d, r, p, m)[x] = d[x]
           /\ PutPark(d, r, p, m)[r].park = p /\ PutPark(d, r, p, m)[r].memory = m
           /\ PutPark(d, r, p, m)[r].life = d[r].life
           /\ PutPark(d, r, p, m)[r].phase = d[r].phase
           /\ PutPark(d, r, p, m)[r].cancel = d[r].cancel
BY DEF PutPark, Records, RecordType

LEMMA SetCancel ==
    ASSUME NEW d \in Records, NEW r \in Runs
    PROVE  /\ PutCancel(d, r) \in Records
           /\ \A x \in Runs \ {r} : PutCancel(d, r)[x] = d[x]
           /\ PutCancel(d, r)[r].cancel = TRUE /\ PutCancel(d, r)[r].memory = d[r].memory
           /\ PutCancel(d, r)[r].life = d[r].life
           /\ PutCancel(d, r)[r].phase = d[r].phase /\ PutCancel(d, r)[r].park = d[r].park
BY DEF PutCancel, Records, RecordType

LEMMA SetLife ==
    ASSUME NEW d \in Records, NEW r \in Runs, NEW v, v = "terminal" \/ v = "gone"
    PROVE  /\ PutLife(d, r, v) \in Records
           /\ \A x \in Runs \ {r} : PutLife(d, r, v)[x] = d[x]
           /\ PutLife(d, r, v)[r].life = v /\ PutLife(d, r, v)[r].memory = d[r].memory
           /\ PutLife(d, r, v)[r].cancel = d[r].cancel
           /\ PutLife(d, r, v)[r].phase = d[r].phase /\ PutLife(d, r, v)[r].park = d[r].park
BY DEF PutLife, Records, RecordType

LEMMA SetResolved ==
    ASSUME NEW d \in Records, NEW r \in Runs
    PROVE  /\ PutResolved(d, r) \in Records
           /\ \A x \in Runs \ {r} : PutResolved(d, r)[x] = d[x]
           /\ PutResolved(d, r)[r].life = d[r].life /\ PutResolved(d, r)[r].memory = NoWake
           /\ PutResolved(d, r)[r].cancel = d[r].cancel
           /\ PutResolved(d, r)[r].phase = "ended" /\ PutResolved(d, r)[r].park = NoPark
BY Nothing DEF PutResolved, Records, RecordType, Resolved

LEMMA Sizes ==
    ASSUME NEW S, S \subseteq Runs
    PROVE  /\ IsFiniteSet(S) /\ Cardinality(S) \in Nat
           /\ S # {} => Cardinality(S) >= 1
           /\ \A T \in SUBSET S : Cardinality(T) <= Cardinality(S)
<1>1. IsFiniteSet(S)
  BY RunsAssumption, FS_Subset
<1>2. Cardinality(S) \in Nat /\ (Cardinality(S) = 0 <=> S = {})
  BY <1>1, FS_CardinalityType, FS_EmptySet
<1>3. \A T \in SUBSET S : Cardinality(T) <= Cardinality(S)
  BY <1>1, FS_Subset
<1> QED BY <1>1, <1>2, <1>3

(* The mode's threshold is one the registration can reach. *)
LEMMA NeedInRange ==
    ASSUME NEW p \in ParkType, p.targets # {}
    PROVE  /\ AwaitNeed(p) \in 1..Cardinality(p.targets)
           /\ Clamp(AwaitNeed(p), 1, Cardinality(p.targets)) = AwaitNeed(p)
<1>1. p.targets \subseteq Runs
  BY DEF ParkType
<1>2. Cardinality(p.targets) \in Nat /\ Cardinality(p.targets) >= 1
  BY <1>1, Sizes
<1> QED BY <1>2 DEF AwaitNeed, Clamp

LEMMA Registers ==
    ASSUME NEW s \in SetType, NEW w \in Runs, NEW p \in ParkType, p.targets # {},
           ~Registered(s, w), NEW t, t = Register(s, w, p.targets, AwaitNeed(p))
    PROVE  /\ t \in SetType /\ \A x \in Runs \ {w} : t[x] = s[x]
           /\ t[w].keys = p.targets /\ t[w].need = AwaitNeed(p) /\ t[w].done = {}
           /\ ~t[w].kicked
<1> DEFINE g == [keys |-> p.targets, need |-> AwaitNeed(p), done |-> {}, kicked |-> FALSE]
<1>1. t = [s EXCEPT ![w] = g]
  BY NeedInRange DEF Register
<1>2. g \in Registration
  <2>1. p.targets \subseteq Runs
    BY DEF ParkType
  <2>2. AwaitNeed(p) \in Nat /\ AwaitNeed(p) <= Cardinality(p.targets)
    BY NeedInRange, Sizes, <2>1
  <2> QED BY <2>1, <2>2 DEF Registration
<1> HIDE DEF g
<1>3. t \in SetType /\ (\A x \in Runs \ {w} : t[x] = s[x]) /\ t[w] = g
  BY <1>1, <1>2 DEF SetType
<1> QED BY <1>3 DEF g

LEMMA Removes ==
    ASSUME NEW s \in SetType, NEW w \in Runs, NEW t, t = Remove(s, w)
    PROVE  /\ t \in SetType /\ \A x \in Runs \ {w} : t[x] = s[x]
           /\ t[w] = Unregistered
<1>1. Unregistered \in Registration
  BY FS_EmptySet DEF Unregistered, Registration
<1> QED BY <1>1 DEF Remove, SetType

Marked(t, s, w, k) ==
    /\ t \in SetType /\ \A x \in Runs \ {w} : t[x] = s[x]
    /\ t[w].keys = s[w].keys /\ t[w].need = s[w].need /\ t[w].kicked = s[w].kicked
    /\ k \in s[w].keys => t[w].done = s[w].done \cup {k}
    /\ k \notin s[w].keys => t[w].done = s[w].done

LEMMA Marks ==
    ASSUME NEW s \in SetType, NEW w \in Runs, NEW k \in Runs
    PROVE  Marked(Mark(s, w, k), s, w, k)
<1> DEFINE t == Mark(s, w, k)
<1>1. CASE k \in s[w].keys
  <2> DEFINE g == [s[w] EXCEPT !.done = @ \cup {k}]
  <2>1. s[w] \in Registration
    BY DEF SetType
  <2>2. /\ g \in Registration /\ g.done = s[w].done \cup {k}
        /\ g.keys = s[w].keys /\ g.need = s[w].need /\ g.kicked = s[w].kicked
    BY <1>1, <2>1 DEF Registration
  <2>3. t = [s EXCEPT ![w] = g]
    BY <1>1 DEF Mark
  <2> HIDE DEF g, t
  <2>4. t \in SetType /\ t[w] = g /\ \A x \in Runs \ {w} : t[x] = s[x]
    BY <2>2, <2>3 DEF SetType
  <2>5. Marked(t, s, w, k)
    BY <1>1, <2>2, <2>4 DEF Marked
  <2> QED BY <2>5 DEF t
<1>2. CASE k \notin s[w].keys
  BY <1>2 DEF Mark, Marked
<1> QED BY <1>1, <1>2

LEMMA Completes ==
    ASSUME NEW s \in SetType, NEW k \in Runs, NEW t, t = Complete(s, k)
    PROVE  /\ t \in SetType
           /\ \A w \in Runs :
                /\ t[w].keys = s[w].keys /\ t[w].need = s[w].need
                /\ k \in s[w].keys => /\ t[w].done = s[w].done \cup {k}
                                      /\ t[w].kicked <=> (s[w].kicked \/ w \in CompleteKicks(s, k))
                /\ k \notin s[w].keys => t[w] = s[w]
<1> SUFFICES ASSUME NEW w \in Runs
             PROVE  /\ t[w] \in Registration /\ t[w].keys = s[w].keys /\ t[w].need = s[w].need
                    /\ k \in s[w].keys => /\ t[w].done = s[w].done \cup {k}
                                          /\ t[w].kicked <=> (s[w].kicked \/ w \in CompleteKicks(s, k))
                    /\ k \notin s[w].keys => t[w] = s[w]
  BY DEF Complete, SetType
<1> DEFINE b == s[w].kicked \/ w \in CompleteKicks(s, k)
           g == [s[w] EXCEPT !.done = @ \cup {k}, !.kicked = b]
<1>1. s[w] \in Registration
  BY DEF SetType
<1>2. t[w] = IF k \in s[w].keys THEN g ELSE s[w]
  BY Zenon DEF Complete
<1>3. b \in BOOLEAN
  OBVIOUS
<1> HIDE DEF b
<1>4. k \in s[w].keys => /\ g \in Registration /\ g.done = s[w].done \cup {k} /\ g.kicked = b
                         /\ g.keys = s[w].keys /\ g.need = s[w].need
  BY <1>1, <1>3 DEF Registration
<1> HIDE DEF g
<1>5. CASE k \in s[w].keys
  <2>1. t[w] = g
    BY <1>2, <1>5
  <2>2. t[w].kicked = b
    BY <1>4, <1>5, <2>1
  <2>3. t[w].kicked <=> (s[w].kicked \/ w \in CompleteKicks(s, k))
    BY <2>2, Zenon DEF b
  <2> QED BY <1>4, <1>5, <2>1, <2>3
<1>6. CASE k \notin s[w].keys
  BY <1>1, <1>2, <1>6
<1> QED BY <1>5, <1>6

-----------------------------------------------------------------------------
(* What a step of one Run leaves alone, and what it owes the others.        *)

Places == {"none", "queued", "gatewalk", "targets", "reserve", "handler",
           "parkwalk", "reveal", "cascade", "notify", "complete", "kick"}
WorkTypes ==
    /\ wpc \in [Runs -> Places] /\ repoke \subseteq Runs
    /\ left \in [Runs -> SUBSET Runs] /\ seen \in [Runs -> SUBSET Runs]
    /\ woke \in [Runs -> WakeType]
EngineTypes ==
    /\ up \in BOOLEAN /\ joins \in SetType
    /\ timers \in [Runs -> {"off", "armed", "fired"}] /\ invalid \in [Runs -> SUBSET Runs]
StoreTypes == db \in Records /\ passed \subseteq Runs
RestTypes ==
    /\ cpc \in [Callers -> {"idle", "read", "wait", "returned"}]
    /\ watch \in [Callers -> {"none", "open", "closed"}]
    /\ tries \in [Runs -> Nat] /\ (\A r \in Runs : tries[r] <= MaxTries[r])
    /\ troubles \in 0..MaxTroubles
    /\ must \subseteq Runs /\ cut \subseteq Runs /\ refused \subseteq Runs
    /\ unread \subseteq Runs /\ stranded \subseteq Runs

LEMMA Types == TypeOK <=> WorkTypes /\ EngineTypes /\ StoreTypes /\ RestTypes
BY DEF TypeOK, WorkTypes, EngineTypes, StoreTypes, RestTypes, Places, Records

LEMMA TypesNext == TypeOK' <=> WorkTypes' /\ EngineTypes' /\ StoreTypes' /\ RestTypes'
BY DEF TypeOK, WorkTypes, EngineTypes, StoreTypes, RestTypes, Places, Records

WorkFrame(r) ==
    \A x \in Runs \ {r} :
        /\ wpc'[x] = wpc[x] /\ left'[x] = left[x] /\ seen'[x] = seen[x] /\ woke'[x] = woke[x]
        /\ x \in repoke' <=> x \in repoke
EngineFrame(r) ==
    /\ up' = up
    /\ \A x \in Runs \ {r} :
        joins'[x] = joins[x] /\ timers'[x] = timers[x] /\ invalid'[x] = invalid[x]
StoreFrame(r) ==
    \A x \in Runs \ {r} : db'[x] = db[x] /\ (x \in passed' <=> x \in passed)
Frame(r) == WorkFrame(r) /\ EngineFrame(r) /\ StoreFrame(r)

(* A Run that ends says so, a kick is not forgotten, history grows. *)
Hand(r) ==
    /\ Live(r)' => Live(r)
    /\ ~Live(r)' /\ wpc'[r] \notin {"notify", "complete"} =>
         ~Live(r) /\ wpc[r] \notin {"notify", "complete"}
    /\ wpc[r] = "kick" => left[r] = {} \/ (wpc'[r] = "kick" /\ left'[r] = left[r])
    /\ unread \subseteq unread' /\ must \subseteq must' /\ stranded \subseteq stranded'

(* Callers of Wait are not left with a Run that ended or is invalid. *)
Told(r) ==
    /\ UNCHANGED callers
    /\ Live(r) /\ invalid[r] = {} =>
         (Live(r)' /\ invalid'[r] = {}) \/ wpc'[r] \in {"notify", "reveal"}
    /\ wpc[r] \in {"notify", "reveal"} => wpc'[r] \in {"notify", "reveal"}

(* Requests are kept, and a cascade goes through its targets. *)
Kept(r) ==
    /\ db[r].cancel => db'[r].cancel
    /\ db'[r].cancel => db[r].cancel \/ r \in Cancelable
    /\ \A t \in must' \ must : wpc'[r] = "cascade" /\ t \in left'[r]
    /\ cut \subseteq cut' /\ refused \subseteq refused'
    /\ wpc[r] = "cascade" =>
         \A t \in left[r] : t \in refused' \/ (wpc'[r] = "cascade" /\ t \in left'[r])

(* r's place among the parked does not change, or it parks, or it gives up   *)
(* its place.                                                               *)
Stays(r) ==
    /\ troubles' >= troubles
    /\ \/ ~Stands(r)'
       \/ /\ wpc'[r] = "parkwalk" /\ seen'[r] = {} /\ left'[r] = db'[r].park.targets
          /\ ~Registered(joins', r)
       \/ /\ db'[r].park = db[r].park /\ invalid'[r] = invalid[r]
          /\ wpc[r] \in {"parkwalk", "gatewalk"} =>
               wpc'[r] = wpc[r] /\ seen'[r] = seen[r] /\ left'[r] = left[r]
          /\ \/ Registered(joins, r) \/ ~Registered(joins', r)
             \/ wpc'[r] = "gatewalk" /\ seen'[r] = {} /\ left'[r] = db'[r].park.targets

LEMMA GoesTo ==
    ASSUME TypeOK, NEW r \in Runs, NEW pc \in Places, NEW S \in SUBSET Runs, Goto(r, pc, S)
    PROVE  /\ wpc' \in [Runs -> Places] /\ left' \in [Runs -> SUBSET Runs]
           /\ seen' \in [Runs -> SUBSET Runs] /\ repoke' = repoke
           /\ wpc'[r] = pc /\ left'[r] = S /\ seen'[r] = {}
           /\ \A x \in Runs \ {r} : wpc'[x] = wpc[x] /\ left'[x] = left[x] /\ seen'[x] = seen[x]
BY Types DEF Goto, WorkTypes

LEMMA GoesOn ==
    ASSUME TypeOK, NEW r \in Runs, NEW pc \in Places, NEW S \in SUBSET Runs, Goto(r, pc, S),
           UNCHANGED woke
    PROVE  /\ WorkTypes' /\ WorkFrame(r) /\ woke' = woke
           /\ repoke' = repoke /\ wpc'[r] = pc /\ left'[r] = S /\ seen'[r] = {}
BY GoesTo, Types DEF WorkTypes, WorkFrame

LEMMA Leaves ==
    ASSUME TypeOK, NEW r \in Runs, NEW again \in BOOLEAN, Leave(r, again)
    PROVE  /\ WorkTypes' /\ WorkFrame(r)
           /\ wpc'[r] = (IF again \/ r \in repoke THEN "queued" ELSE "none")
           /\ r \notin repoke' /\ left'[r] = {} /\ seen'[r] = {} /\ woke'[r] = NoWake
BY Types, Nothing DEF Leave, WorkTypes, WorkFrame, Places

LEMMA Unparks ==
    ASSUME TypeOK, NEW r \in Runs, Unpark(r)
    PROVE  /\ joins' \in SetType /\ timers' \in [Runs -> {"off", "armed", "fired"}]
           /\ timers'[r] = "off" /\ joins'[r] = Unregistered
           /\ \A x \in Runs \ {r} : joins'[x] = joins[x] /\ timers'[x] = timers[x]
BY Types, Removes DEF Unpark, EngineTypes

(* The other Runs keep their part of the invariant. *)
LEMMA OthersKeep ==
    ASSUME Inv, NEW r \in Runs, Frame(r), Hand(r), Own(r)'
    PROVE  \A x \in Runs : Own(x)'
<1> SUFFICES ASSUME NEW x \in Runs \ {r} PROVE Own(x)'
  OBVIOUS
<1>0. Own(x) /\ Own(r) /\ TypeOK
  BY DEF Inv
<1>a. /\ wpc'[x] = wpc[x] /\ left'[x] = left[x] /\ woke'[x] = woke[x]
      /\ x \in repoke' <=> x \in repoke
      /\ up' = up /\ joins'[x] = joins[x] /\ timers'[x] = timers[x] /\ invalid'[x] = invalid[x]
      /\ db'[x] = db[x] /\ (x \in passed' <=> x \in passed)
  BY DEF Frame, WorkFrame, EngineFrame, StoreFrame
<1>b. \A t \in Runs : Live(t)' => Live(t)
  BY DEF Frame, StoreFrame, Hand, Live
<1>c. joins[x].keys \subseteq Runs /\ joins[x].done \subseteq Runs
  BY <1>0, Types DEF EngineTypes, SetType, Registration
<1>1. Place(x)'
  BY <1>0, <1>a DEF Own, Place, Live, Registered
<1>2. Entry(x)'
  <2>1. Entry(x)
    BY <1>0 DEF Own
  <2> QED BY <2>1, <1>a, <1>b, <1>c DEF Entry, Live, Registered
<1>3. Idle(x)'
  BY <1>0, <1>a DEF Own, Idle, Live, Registered, Hand
<1>4. Cover(x)'
  <2> SUFFICES ASSUME NEW t \in joins[x].keys
               PROVE  \/ Live(t)' \/ t \in joins[x].done \/ wpc'[t] \in {"notify", "complete"}
                      \/ wpc[x] = "gatewalk" \/ (wpc[x] = "targets" /\ t \in left[x])
    BY <1>a DEF Cover
  <2>1. \/ Live(t) \/ t \in joins[x].done \/ wpc[t] \in {"notify", "complete"}
        \/ wpc[x] = "gatewalk" \/ (wpc[x] = "targets" /\ t \in left[x])
    BY <1>0 DEF Own, Cover
  <2>2. CASE t = r
    BY <2>1, <2>2 DEF Hand
  <2>3. CASE t # r
    BY <1>c, <2>1, <2>3 DEF Frame, WorkFrame, StoreFrame, Live
  <2> QED BY <2>2, <2>3
<1>5. Kick(x)'
  <2> SUFFICES ASSUME NEW t \in joins[x].keys, wpc[t] = "kick", x \in left[t]
               PROVE  wpc'[t] = "kick" /\ x \in left'[t]
    BY <1>0, <1>a DEF Own, Kick, Registered
  <2> QED BY <1>c DEF Frame, WorkFrame, Hand
<1>6. Memory(x)'
  <2>1. woke[x].done \subseteq Runs /\ db[x].memory.done \subseteq Runs
    BY <1>0, Types DEF WorkTypes, StoreTypes, Records, RecordType, WakeType
  <2>2. ASSUME NEW m, m.done \subseteq Runs, True(x, m) PROVE True(x, m)'
    BY <1>b, <2>2 DEF True, Hand
  <2> QED BY <1>0, <1>a, <2>1, <2>2 DEF Own, Memory
<1>7. Owed(x)'
  BY <1>0, <1>a DEF Own, Owed, Hand
<1> QED BY <1>1, <1>2, <1>3, <1>4, <1>5, <1>6, <1>7 DEF Own

LEMMA WaitersKeep ==
    ASSUME Inv, NEW r \in Runs, WorkFrame(r), StoreFrame(r), up' = up, Told(r),
           \A x \in Runs \ {r} : invalid'[x] = invalid[x]
    PROVE  \A c \in Callers : Waiter(c)'
<1> SUFFICES ASSUME NEW c \in Callers PROVE Waiter(c)'
  OBVIOUS
<1>1. Waiter(c) /\ cpc'[c] = cpc[c] /\ watch'[c] = watch[c] /\ up' = up /\ On[c] \in Runs
  BY CallersAssumption DEF Inv, Told, callers
<1>2. CASE On[c] = r
  BY <1>1, <1>2 DEF Waiter, Told
<1>3. CASE On[c] # r
  <2>1. /\ db'[On[c]] = db[On[c]] /\ invalid'[On[c]] = invalid[On[c]] /\ wpc'[On[c]] = wpc[On[c]]
    BY <1>1, <1>3 DEF StoreFrame, WorkFrame
  <2> QED BY <1>1, <2>1 DEF Waiter, Live
<1> QED BY <1>2, <1>3

LEMMA CascadeKeeps ==
    ASSUME Inv, NEW r \in Runs, WorkFrame(r), StoreFrame(r), Hand(r), Kept(r)
    PROVE  CascadeExact'
<1>0. CascadeExact /\ must \subseteq Runs
  BY Types DEF Inv, RestTypes
<1>1. ASSUME NEW t \in must'
      PROVE  \/ ~Live(t)' \/ db'[t].cancel \/ t \in cut' \cup refused'
             \/ \E x \in Runs : wpc'[x] = "cascade" /\ t \in left'[x]
  <2>1. CASE t \notin must
    BY <1>1, <2>1 DEF Kept
  <2>2. CASE t \in must
    <3>1. t \in Runs
      BY <1>0, <2>2
    <3>2. Live(t)' => Live(t)
      BY <3>1 DEF Hand, StoreFrame, Live
    <3>3. db[t].cancel => db'[t].cancel
      BY <3>1 DEF Kept, StoreFrame
    <3>4. ASSUME NEW x \in Runs, wpc[x] = "cascade", t \in left[x]
          PROVE  t \in refused' \/ (wpc'[x] = "cascade" /\ t \in left'[x])
      BY <3>4 DEF Kept, WorkFrame
    <3>5. \/ ~Live(t) \/ db[t].cancel \/ t \in cut \cup refused
          \/ \E x \in Runs : wpc[x] = "cascade" /\ t \in left[x]
      BY <1>0, <2>2 DEF CascadeExact
    <3> QED BY <3>2, <3>3, <3>4, <3>5 DEF Kept
  <2> QED BY <2>1, <2>2
<1>2. ASSUME NEW t \in Runs, db'[t].cancel PROVE t \in Cancelable \cup must'
  <2>1. db[t].cancel \/ t \in Cancelable
    BY <1>2 DEF Kept, StoreFrame
  <2> QED BY <1>0, <2>1 DEF CascadeExact, Hand
<1> QED BY <1>1, <1>2 DEF CascadeExact

(* A set whose members keep their parks and their validity is a circle when *)
(* it was one.                                                              *)
LEMMA CircleKept ==
    ASSUME NEW S \in SUBSET Runs, Circle(S)',
           \A x \in S : db'[x].park = db[x].park /\ invalid'[x] = invalid[x]
    PROVE  Circle(S)
<1>1. \A T \in SUBSET S : Standing(T)' <=> Standing(T)
  BY DEF Standing, Stands
<1> QED BY <1>1 DEF Circle

LEMMA SearchKeeps ==
    ASSUME Inv, Search, TypeOK', NEW r \in Runs, Frame(r), Stays(r)
    PROVE  Search'
<1>0. troubles \in Nat /\ troubles' \in Nat /\ troubles' >= troubles
  BY Types, TypesNext, BoundsAssumption DEF Inv, RestTypes, Stays
<1>a. \A x \in Runs \ {r} :
        /\ wpc'[x] = wpc[x] /\ left'[x] = left[x] /\ seen'[x] = seen[x]
        /\ joins'[x] = joins[x] /\ invalid'[x] = invalid[x] /\ db'[x].park = db[x].park
  BY DEF Frame, WorkFrame, EngineFrame, StoreFrame
<1>b. ASSUME NEW S \in SUBSET Runs, Circle(S)'
      PROVE  \/ /\ r \in S /\ wpc'[r] = "parkwalk" /\ seen'[r] = {}
                /\ left'[r] = db'[r].park.targets /\ ~Registered(joins', r)
             \/ /\ Circle(S) /\ \A x \in S : db'[x].park = db[x].park /\ invalid'[x] = invalid[x]
                /\ r \in S => /\ wpc[r] \in {"parkwalk", "gatewalk"} =>
                                   wpc'[r] = wpc[r] /\ seen'[r] = seen[r] /\ left'[r] = left[r]
                              /\ \/ Registered(joins, r) \/ ~Registered(joins', r)
                                 \/ wpc'[r] = "gatewalk" /\ seen'[r] = {}
                                    /\ left'[r] = db'[r].park.targets
  <2>1. CASE r \in S /\ wpc'[r] = "parkwalk" /\ seen'[r] = {}
             /\ left'[r] = db'[r].park.targets /\ ~Registered(joins', r)
    BY <2>1
  <2>2. CASE ~(r \in S /\ wpc'[r] = "parkwalk" /\ seen'[r] = {}
               /\ left'[r] = db'[r].park.targets /\ ~Registered(joins', r))
    <3>1. r \in S => Stands(r)'
      BY <1>b DEF Circle, Standing
    <3>2. r \in S => /\ db'[r].park = db[r].park /\ invalid'[r] = invalid[r]
                     /\ wpc[r] \in {"parkwalk", "gatewalk"} =>
                          wpc'[r] = wpc[r] /\ seen'[r] = seen[r] /\ left'[r] = left[r]
                     /\ \/ Registered(joins, r) \/ ~Registered(joins', r)
                        \/ wpc'[r] = "gatewalk" /\ seen'[r] = {} /\ left'[r] = db'[r].park.targets
      BY <2>2, <3>1 DEF Stays
    <3>3. \A x \in S : db'[x].park = db[x].park /\ invalid'[x] = invalid[x]
      BY <1>a, <3>2
    <3>4. Circle(S)
      BY <1>b, <3>3, CircleKept
    <3> QED BY <3>2, <3>3, <3>4
  <2> QED BY <2>1, <2>2
<1>1. ASSUME troubles' = 0, NEW S \in SUBSET Runs, Circle(S)'
      PROVE  \E x \in S : wpc'[x] = "parkwalk" /\ Finding(x, S)'
  <2>1. CASE r \in S /\ wpc'[r] = "parkwalk" /\ seen'[r] = {} /\ left'[r] = db'[r].park.targets
    <3>1. Finding(r, S)'
      BY <2>1 DEF Finding
    <3> QED BY <2>1, <3>1
  <2>2. CASE /\ Circle(S) /\ \A x \in S : db'[x].park = db[x].park
             /\ r \in S /\ wpc[r] = "parkwalk" =>
                  wpc'[r] = wpc[r] /\ seen'[r] = seen[r] /\ left'[r] = left[r]
    <3>1. PICK x \in S : wpc[x] = "parkwalk" /\ Finding(x, S)
      BY <1>0, <1>1, <2>2 DEF Search, ParkFinds
    <3>2. x \in Runs
      OBVIOUS
    <3>3. wpc'[x] = "parkwalk" /\ seen'[x] = seen[x] /\ left'[x] = left[x]
      BY <1>a, <2>2, <3>1, <3>2
    <3>4. Finding(x, S)'
      BY <2>2, <3>1, <3>3 DEF Finding
    <3> QED BY <3>3, <3>4
  <2> QED BY <1>b, <1>1, <2>1, <2>2
<1>2. ASSUME troubles' <= 1, NEW S \in SUBSET Runs, Circle(S)'
      PROVE  \E x \in S : ~Registered(joins, x)' \/ (wpc'[x] = "gatewalk" /\ Finding(x, S)')
  <2>1. CASE r \in S /\ ~Registered(joins', r)
    BY <2>1
  <2>2. CASE r \in S /\ wpc'[r] = "gatewalk" /\ seen'[r] = {} /\ left'[r] = db'[r].park.targets
    <3>1. Finding(r, S)'
      BY <2>2 DEF Finding
    <3> QED BY <2>2, <3>1
  <2>3. CASE /\ Circle(S) /\ \A x \in S : db'[x].park = db[x].park
             /\ r \in S => Registered(joins, r)
             /\ r \in S /\ wpc[r] = "gatewalk" =>
                  wpc'[r] = wpc[r] /\ seen'[r] = seen[r] /\ left'[r] = left[r]
    <3>1. PICK x \in S : ~Registered(joins, x) \/ (wpc[x] = "gatewalk" /\ Finding(x, S))
      BY <1>0, <1>2, <2>3 DEF Search, GateFinds
    <3>2. CASE ~Registered(joins, x)
      <4>1. x # r /\ joins'[x] = joins[x]
        BY <1>a, <2>3, <3>2
      <4> QED BY <3>2, <4>1 DEF Registered
    <3>3. CASE wpc[x] = "gatewalk" /\ Finding(x, S)
      <4>1. wpc'[x] = "gatewalk" /\ seen'[x] = seen[x] /\ left'[x] = left[x]
        BY <1>a, <2>3, <3>3
      <4>2. Finding(x, S)'
        BY <2>3, <3>3, <4>1 DEF Finding
      <4> QED BY <4>1, <4>2
    <3> QED BY <3>1, <3>2, <3>3
  <2> QED BY <1>b, <1>2, <2>1, <2>2, <2>3
<1> QED BY <1>1, <1>2 DEF Search, ParkFinds, GateFinds

Step(r) == TypeOK' /\ Frame(r) /\ Hand(r) /\ Own(r)' /\ Kept(r)

LEMMA StepKeepsInv ==
    ASSUME Inv, NEW r \in Runs, Step(r), Told(r)
    PROVE  Inv'
BY OthersKeep, WaitersKeep, CascadeKeeps DEF Inv, Step, Frame, EngineFrame

LEMMA StepKeepsSearch ==
    ASSUME Inv, Search, NEW r \in Runs, Step(r), Stays(r)
    PROVE  Search'
BY SearchKeeps DEF Step

(* Nothing but the bounds may change beside workers, engine and store. *)
LEMMA RestKept ==
    ASSUME TypeOK, UNCHANGED <<callers, tries, troubles, history>>
    PROVE  /\ RestTypes' /\ cpc' = cpc /\ watch' = watch /\ troubles' = troubles
           /\ must' = must /\ cut' = cut /\ refused' = refused /\ unread' = unread /\ stranded' = stranded
BY Types DEF RestTypes, callers, history

LEMMA StoreKept ==
    ASSUME TypeOK, UNCHANGED store, NEW r \in Runs
    PROVE  StoreTypes' /\ StoreFrame(r) /\ db' = db /\ passed' = passed
BY Types DEF StoreTypes, store, StoreFrame

LEMMA EngineKept ==
    ASSUME TypeOK, UNCHANGED engine, NEW r \in Runs
    PROVE  /\ EngineTypes' /\ EngineFrame(r) /\ up' = up /\ joins' = joins /\ timers' = timers
           /\ invalid' = invalid
BY Types DEF EngineTypes, engine, EngineFrame

LEMMA KeysTyped ==
    ASSUME TypeOK, NEW r \in Runs
    PROVE  /\ joins[r].keys \subseteq Runs /\ joins[r].done \subseteq joins[r].keys
           /\ joins[r].need \in Nat /\ Cardinality(joins[r].done) \in Nat
           /\ joins[r].keys = {} => joins[r].done = {}
           /\ woke[r].done \subseteq Runs /\ db[r].memory.done \subseteq Runs
           /\ db[r].park \in ParkType /\ db[r].park.targets \subseteq Runs
           /\ db[r].memory \in WakeType /\ woke[r] \in WakeType
<1>1. /\ joins[r].keys \subseteq Runs /\ joins[r].done \subseteq joins[r].keys
      /\ joins[r].need \in Nat
  BY Types DEF EngineTypes, SetType, Registration
<1>2. Cardinality(joins[r].done) \in Nat
  BY <1>1, Sizes
<1>3. woke[r] \in WakeType /\ db[r].memory \in WakeType /\ db[r].park \in ParkType
  BY Types DEF WorkTypes, StoreTypes, Records, RecordType
<1>4. /\ woke[r].done \subseteq Runs /\ db[r].memory.done \subseteq Runs
      /\ db[r].park.targets \subseteq Runs
  BY <1>3 DEF WakeType, ParkType
<1> QED BY <1>1, <1>2, <1>3, <1>4

-----------------------------------------------------------------------------
(* One lemma per action. *)

LEMMA PassOverStep ==
    ASSUME Inv, NEW r \in Runs, PassOver(r)
    PROVE  Step(r) /\ Told(r) /\ Stays(r)
<1>0. TypeOK /\ Own(r) /\ wpc[r] = "queued" /\ ~Live(r)
  BY DEF Inv, PassOver
<1>1. /\ WorkTypes' /\ WorkFrame(r) /\ wpc'[r] \in {"notify", "queued", "none"}
      /\ woke'[r] \in {woke[r], NoWake}
  <2>1. CASE Goto(r, "notify", {}) /\ UNCHANGED woke
    BY <1>0, <2>1, GoesOn DEF Places
  <2>2. CASE Leave(r, FALSE)
    BY <1>0, <2>2, Leaves
  <2> QED BY <2>1, <2>2 DEF PassOver
<1>2. /\ StoreTypes' /\ StoreFrame(r) /\ db' = db /\ passed' = passed
      /\ EngineTypes' /\ EngineFrame(r) /\ up' = up /\ joins' = joins /\ timers' = timers
      /\ invalid' = invalid
      /\ RestTypes' /\ cpc' = cpc /\ watch' = watch /\ troubles' = troubles
      /\ must' = must /\ cut' = cut /\ refused' = refused /\ unread' = unread /\ stranded' = stranded
  <2>1. UNCHANGED store /\ UNCHANGED engine /\ UNCHANGED <<callers, tries, troubles, history>>
    BY DEF PassOver
  <2> QED BY <1>0, <2>1, StoreKept, EngineKept, RestKept
<1>3. TypeOK' /\ Frame(r)
  BY <1>1, <1>2, TypesNext DEF Frame
<1>4. Own(r)'
  BY <1>0, <1>1, <1>2 DEF Own, Place, Entry, Idle, Cover, Kick, Memory, Owed, Live, Registered, True
<1>5. Hand(r) /\ Kept(r)
  BY <1>0, <1>1, <1>2 DEF Hand, Kept, Live
<1>6. Told(r) /\ Stays(r)
  BY <1>0, <1>1, <1>2, Types DEF Told, Stays, Live, callers, RestTypes
<1> QED BY <1>3, <1>4, <1>5, <1>6 DEF Step

LEMMA GateStep ==
    ASSUME Inv, NEW r \in Runs, Gate(r)
    PROVE  Step(r) /\ Told(r) /\ Stays(r)
<1>0. /\ TypeOK /\ Own(r) /\ wpc[r] = "queued" /\ Live(r) /\ db[r].park # NoPark
      /\ db[r].phase # "ended" /\ (db[r].phase = "forward" => ~db[r].cancel)
  BY DEF Inv, Gate, Deciding, Parked
<1> DEFINE p == db[r].park
<1>a. p \in ParkType /\ p.targets # {} /\ p.targets \subseteq Runs /\ joins \in SetType
  BY <1>0, Types DEF StoreTypes, Records, RecordType, ParkType, Own, Place, EngineTypes
<1>b. joins' = Register(joins, r, p.targets, AwaitNeed(p))
  BY DEF Gate
<1>1. CASE Registered(joins, r)
  <2>1. joins' = joins
    BY <1>1, <1>b DEF Register
  <2>2. /\ WorkTypes' /\ WorkFrame(r) /\ woke' = woke
        /\ repoke' = repoke /\ wpc'[r] = "targets" /\ left'[r] = {} /\ seen'[r] = {}
    BY <1>0, <1>1, GoesOn DEF Gate, Places
  <2>3. /\ StoreTypes' /\ StoreFrame(r) /\ db' = db /\ passed' = passed
        /\ EngineTypes' /\ EngineFrame(r) /\ up' = up /\ timers' = timers /\ invalid' = invalid
        /\ RestTypes' /\ cpc' = cpc /\ watch' = watch /\ troubles' = troubles
        /\ must' = must /\ cut' = cut /\ refused' = refused /\ unread' = unread /\ stranded' = stranded
    <3>1. /\ UNCHANGED store /\ UNCHANGED engine
          /\ UNCHANGED <<callers, tries, troubles, history>>
      BY <2>1 DEF Gate, engine
    <3> QED BY <1>0, <3>1, StoreKept, EngineKept, RestKept
  <2>4. TypeOK' /\ Frame(r)
    BY <2>2, <2>3, TypesNext DEF Frame
  <2>5. Own(r)'
    <3>1. Cover(r)'
      BY <1>0, <2>1, <2>2, <2>3, KeysTyped DEF Own, Cover, Live, WorkFrame
    <3> QED BY <1>0, <1>1, <2>1, <2>2, <2>3, <3>1
        DEF Own, Place, Entry, Idle, Kick, Memory, Owed, Live, Registered, True
  <2>6. Hand(r) /\ Kept(r)
    BY <1>0, <2>2, <2>3 DEF Hand, Kept, Live
  <2>7. Told(r) /\ Stays(r)
    BY <1>0, <1>1, <2>2, <2>3, Types DEF Told, Stays, Live, callers, RestTypes
  <2> QED BY <2>4, <2>5, <2>6, <2>7 DEF Step
<1>2. CASE ~Registered(joins, r)
  <2>1. /\ joins' \in SetType /\ (\A x \in Runs \ {r} : joins'[x] = joins[x])
        /\ joins'[r].keys = p.targets /\ joins'[r].need = AwaitNeed(p) /\ joins'[r].done = {}
        /\ ~joins'[r].kicked
    BY <1>2, <1>a, <1>b, Registers
  <2>2. /\ WorkTypes' /\ WorkFrame(r) /\ woke' = woke
        /\ repoke' = repoke /\ wpc'[r] = "gatewalk" /\ left'[r] = p.targets /\ seen'[r] = {}
    BY <1>0, <1>2, <1>a, GoesOn DEF Gate, Places
  <2>3. /\ StoreTypes' /\ StoreFrame(r) /\ db' = db /\ passed' = passed
        /\ up' = up /\ timers' = timers /\ invalid' = invalid
        /\ RestTypes' /\ cpc' = cpc /\ watch' = watch /\ troubles' = troubles
        /\ must' = must /\ cut' = cut /\ refused' = refused /\ unread' = unread /\ stranded' = stranded
    <3>1. /\ UNCHANGED store /\ UNCHANGED <<up, timers, invalid>>
          /\ UNCHANGED <<callers, tries, troubles, history>>
      BY DEF Gate
    <3> QED BY <1>0, <3>1, StoreKept, RestKept
  <2>4. EngineTypes' /\ EngineFrame(r)
    BY <1>0, <2>1, <2>3, Types DEF EngineTypes, EngineFrame
  <2>5. TypeOK' /\ Frame(r)
    BY <2>2, <2>3, <2>4, TypesNext DEF Frame
  <2>6. Own(r)'
    <3>1. db' = db /\ p = db'[r].park
      BY <2>3
    <3> HIDE DEF p
    <3> QED BY <1>0, <1>2, <1>a, <2>1, <2>2, <2>3, <3>1
        DEF Own, Place, Entry, Idle, Cover, Kick, Memory, Owed, Live, Registered, True, AwaitNeed
  <2>7. Hand(r) /\ Kept(r)
    BY <1>0, <2>2, <2>3 DEF Hand, Kept, Live
  <2>8. Told(r) /\ Stays(r)
    BY <1>0, <1>2, <2>2, <2>3, Types DEF Told, Stays, Live, callers, RestTypes
  <2> QED BY <2>5, <2>6, <2>7, <2>8 DEF Step
<1> QED BY <1>1, <1>2

LEMMA Troubled ==
    ASSUME TypeOK, Trouble
    PROVE  troubles' \in 0..MaxTroubles /\ troubles' = troubles + 1 /\ troubles' >= troubles
BY Types, BoundsAssumption DEF RestTypes, Trouble

LEMMA CommitStep ==
    ASSUME Inv, NEW r \in Runs, Commit(r)
    PROVE  Step(r) /\ Told(r) /\ Stays(r)
<1>0. /\ TypeOK /\ Own(r) /\ wpc[r] = "queued" /\ Live(r) /\ db[r].phase = "ended"
      /\ db \in Records /\ UNCHANGED passed /\ UNCHANGED engine /\ UNCHANGED callers
      /\ UNCHANGED <<tries, must, cut, refused, unread>>
  BY Types DEF Inv, Commit, StoreTypes
<1>1. /\ EngineTypes' /\ EngineFrame(r) /\ up' = up /\ joins' = joins /\ timers' = timers
      /\ invalid' = invalid /\ passed' = passed /\ cpc' = cpc /\ watch' = watch
      /\ must' = must /\ cut' = cut /\ refused' = refused /\ unread' = unread
  BY <1>0, EngineKept DEF callers
<1>a. joins[r].done \subseteq Runs /\ woke[r].done \subseteq Runs /\ db[r].memory.done \subseteq Runs
  BY <1>0, Types DEF EngineTypes, SetType, Registration, WorkTypes, StoreTypes, Records,
                     RecordType, WakeType
<1>2. CASE /\ db' = [db EXCEPT ![r].life = "terminal"]
           /\ Goto(r, "notify", {}) /\ UNCHANGED <<troubles, woke, stranded>>
  <2>1. /\ WorkTypes' /\ WorkFrame(r) /\ woke' = woke
        /\ repoke' = repoke /\ wpc'[r] = "notify" /\ left'[r] = {} /\ seen'[r] = {}
    BY <1>0, <1>2, GoesOn DEF Places
  <2>2. /\ db' \in Records /\ (\A x \in Runs \ {r} : db'[x] = db[x])
        /\ db'[r].life = "terminal" /\ db'[r].memory = db[r].memory
        /\ db'[r].cancel = db[r].cancel
        /\ db'[r].phase = db[r].phase /\ db'[r].park = db[r].park
    <3>1. db' = PutLife(db, r, "terminal")
      BY <1>2 DEF PutLife
    <3> QED BY <1>0, <3>1, SetLife
  <2>3. RestTypes' /\ troubles' = troubles /\ stranded' = stranded
    BY <1>0, <1>1, <1>2, Types DEF RestTypes
  <2>4. TypeOK' /\ Frame(r)
    BY <1>0, <1>1, <2>1, <2>2, <2>3, Types, TypesNext DEF Frame, StoreFrame, StoreTypes
  <2>5. \A t \in Runs : Live(t)' => Live(t)
    BY <1>0, <2>2 DEF Live
  <2>6. Own(r)'
    BY <1>0, <1>1, <1>a, <2>1, <2>2, <2>3, <2>5
    DEF Own, Place, Entry, Idle, Cover, Kick, Memory, Owed, Live, Registered, True
  <2>7. Hand(r) /\ Kept(r)
    BY <1>0, <1>1, <2>1, <2>2, <2>3 DEF Hand, Kept, Live
  <2>8. Told(r) /\ Stays(r)
    BY <1>0, <1>1, <2>1, <2>2, <2>3, Types
    DEF Told, Stays, Stands, Live, callers, RestTypes, Own, Place
  <2> QED BY <2>4, <2>6, <2>7, <2>8 DEF Step
<1>3. CASE /\ Trouble /\ Leave(r, FALSE) /\ UNCHANGED db
           /\ stranded' = stranded \cup {r}
  <2>1. /\ WorkTypes' /\ WorkFrame(r) /\ wpc'[r] \in {"queued", "none"} /\ left'[r] = {}
        /\ seen'[r] = {} /\ woke'[r] = NoWake
    BY <1>0, <1>3, Leaves
  <2>2. StoreTypes' /\ StoreFrame(r) /\ db' = db
    BY <1>0, <1>1, <1>3, Types DEF StoreTypes, StoreFrame
  <2>3. RestTypes' /\ troubles' >= troubles /\ stranded' = stranded \cup {r}
    BY <1>0, <1>1, <1>3, Types, Troubled DEF RestTypes
  <2>4. TypeOK' /\ Frame(r)
    BY <1>1, <2>1, <2>2, <2>3, TypesNext DEF Frame
  <2>5. db[r].park = NoPark /\ ~Registered(joins, r)
    BY <1>0 DEF Own, Place, Entry
  <2>6. Own(r)'
    BY <1>0, <1>1, <1>a, <2>1, <2>2, <2>3, <2>5
    DEF Own, Place, Entry, Idle, Cover, Kick, Memory, Owed, Live, Registered, True
  <2>7. Hand(r) /\ Kept(r)
    BY <1>0, <1>1, <2>1, <2>2, <2>3 DEF Hand, Kept, Live
  <2>8. Told(r) /\ Stays(r)
    BY <1>0, <1>1, <2>1, <2>2, <2>3, <2>5, Types
    DEF Told, Stays, Stands, Live, callers, RestTypes, Own, Place
  <2> QED BY <2>4, <2>6, <2>7, <2>8 DEF Step
<1> QED BY <1>2, <1>3 DEF Commit

LEMMA RestTroubled ==
    ASSUME TypeOK, Trouble, UNCHANGED <<callers, tries>>, UNCHANGED history
    PROVE  /\ RestTypes' /\ cpc' = cpc /\ watch' = watch /\ troubles' >= troubles
           /\ must' = must /\ cut' = cut /\ refused' = refused /\ unread' = unread /\ stranded' = stranded
BY Troubled, Types DEF RestTypes, callers, history

LEMMA CancelOperationStep ==
    ASSUME Inv, NEW r \in Runs, CancelOperation(r)
    PROVE  Step(r) /\ Told(r) /\ Stays(r)
<1>0. /\ TypeOK /\ Own(r) /\ wpc[r] \in {"queued", "handler"} /\ Live(r)
      /\ db[r].phase = "forward" /\ db[r].cancel /\ db \in Records
  BY Types DEF Inv, CancelOperation, StoreTypes
<1>1. /\ joins' \in SetType /\ timers' \in [Runs -> {"off", "armed", "fired"}]
      /\ timers'[r] = "off" /\ joins'[r] = Unregistered
      /\ \A x \in Runs \ {r} : joins'[x] = joins[x] /\ timers'[x] = timers[x]
  BY <1>0, Unparks DEF CancelOperation
<1>2. /\ ~Registered(joins', r) /\ ~joins'[r].kicked /\ joins'[r].done = {} /\ joins'[r].keys = {}
  BY <1>1 DEF Unregistered, Registered
<1>3. up' = up /\ invalid' = invalid /\ UNCHANGED <<callers, tries, cut, refused, unread, stranded>>
  BY DEF CancelOperation
<1>4. EngineTypes' /\ EngineFrame(r)
  BY <1>0, <1>1, <1>3, Types DEF EngineTypes, EngineFrame
<1> DEFINE p == db[r].park
           reach == IF p.cascade THEN p.targets ELSE {}
<1>5. reach \subseteq Runs
  BY <1>0, KeysTyped
<1>6. CASE /\ db' = [db EXCEPT ![r] = Resolved(@)]
           /\ Goto(r, IF reach = {} THEN "queued" ELSE "cascade", reach)
           /\ must' = must \cup reach
           /\ passed' = passed \ {r} /\ UNCHANGED <<troubles, woke>>
  <2> HIDE DEF reach
  <2>1. /\ WorkTypes' /\ WorkFrame(r) /\ woke' = woke /\ repoke' = repoke
        /\ wpc'[r] = (IF reach = {} THEN "queued" ELSE "cascade")
        /\ left'[r] = reach /\ seen'[r] = {}
    BY <1>0, <1>5, <1>6, GoesOn DEF Places
  <2>2. /\ db' \in Records /\ (\A x \in Runs \ {r} : db'[x] = db[x])
        /\ db'[r].life = db[r].life /\ db'[r].memory = NoWake /\ db'[r].cancel = db[r].cancel
        /\ db'[r].phase = "ended" /\ db'[r].park = NoPark
    <3>1. db' = PutResolved(db, r)
      BY <1>6 DEF PutResolved
    <3> QED BY <1>0, <3>1, SetResolved
  <2>3. RestTypes' /\ must' = must \cup reach /\ troubles' = troubles
    BY <1>0, <1>3, <1>5, <1>6, Types DEF RestTypes, callers
  <2>4. TypeOK' /\ Frame(r)
    BY <1>0, <1>4, <1>6, <2>1, <2>2, <2>3, Types, TypesNext DEF Frame, StoreFrame, StoreTypes
  <2>5. \A t \in Runs : Live(t)' <=> Live(t)
    BY <2>2 DEF Live
  <2>6. Memory(r)'
    BY <1>0, <1>3, <2>1, <2>2, <2>5, KeysTyped DEF Own, Memory, True
  <2>7. Own(r)'
    BY <1>0, <1>1, <1>2, <1>3, <1>6, <2>1, <2>2, <2>3, <2>6, Nothing
    DEF Own, Place, Entry, Idle, Cover, Kick, Owed, Live, Registered
  <2>8. Hand(r) /\ Kept(r)
    BY <1>0, <1>3, <1>6, <2>1, <2>2, <2>3 DEF Hand, Kept, Live
  <2>9. Told(r) /\ Stays(r)
    BY <1>0, <1>3, <2>1, <2>2, <2>3, Types DEF Told, Stays, Stands, Live, callers, RestTypes
  <2> QED BY <2>4, <2>7, <2>8, <2>9 DEF Step
<1>7. CASE Trouble /\ Leave(r, TRUE) /\ UNCHANGED <<store, must>>
  <2>1. /\ WorkTypes' /\ WorkFrame(r) /\ wpc'[r] = "queued" /\ left'[r] = {}
        /\ seen'[r] = {} /\ woke'[r] = NoWake
    BY <1>0, <1>7, Leaves
  <2>2. StoreTypes' /\ StoreFrame(r) /\ db' = db /\ passed' = passed
    BY <1>0, <1>7, StoreKept
  <2>3. /\ RestTypes' /\ must' = must /\ cut' = cut /\ refused' = refused /\ unread' = unread /\ stranded' = stranded
        /\ troubles' >= troubles
    BY <1>0, <1>3, <1>7, Types, Troubled DEF RestTypes, callers
  <2>4. TypeOK' /\ Frame(r)
    BY <1>4, <2>1, <2>2, <2>3, TypesNext DEF Frame
  <2>5. Own(r)'
    BY <1>0, <1>1, <1>2, <1>3, <2>1, <2>2, <2>3, Nothing
    DEF Own, Place, Entry, Idle, Cover, Kick, Memory, Owed, Live, Registered, True
  <2>6. Hand(r) /\ Kept(r)
    BY <1>0, <1>3, <2>1, <2>2, <2>3 DEF Hand, Kept, Live
  <2>7. Told(r) /\ Stays(r)
    BY <1>0, <1>2, <1>3, <2>1, <2>2, <2>3, Types DEF Told, Stays, Live, callers, RestTypes
  <2> QED BY <2>4, <2>5, <2>6, <2>7 DEF Step
<1> QED BY <1>6, <1>7 DEF CancelOperation

(* A search, while it goes on and when it ends without a circle. *)
LEMMA WalkOn ==
    ASSUME Inv, NEW r \in Runs, wpc[r] \in {"gatewalk", "parkwalk"}, r \notin left[r],
           UNCHANGED <<store, engine, callers, tries, history>>, RestTypes',
           troubles' >= troubles, WorkTypes', WorkFrame(r),
           \/ wpc'[r] = wpc[r] /\ repoke' = repoke /\ woke' = woke
           \/ wpc[r] = "gatewalk" /\ wpc'[r] = "targets" /\ left'[r] = db[r].park.targets
              /\ repoke' = repoke /\ woke' = woke
           \/ wpc[r] = "parkwalk" /\ wpc'[r] = "queued" /\ woke'[r] \in {woke[r], NoWake}
    PROVE  Step(r) /\ Told(r)
<1>0. /\ TypeOK /\ Own(r)
      /\ must' = must /\ cut' = cut /\ refused' = refused /\ unread' = unread /\ stranded' = stranded
      /\ cpc' = cpc /\ watch' = watch
  BY DEF Inv, callers, history
<1>1. /\ StoreTypes' /\ StoreFrame(r) /\ db' = db /\ passed' = passed
      /\ EngineTypes' /\ EngineFrame(r) /\ up' = up /\ joins' = joins /\ timers' = timers
      /\ invalid' = invalid
  BY <1>0, StoreKept, EngineKept
<1>2. TypeOK' /\ Frame(r)
  BY <1>1, TypesNext DEF Frame
<1>3. Cover(r)'
  BY <1>0, <1>1, KeysTyped DEF Own, Cover, Entry, Registered, Live
<1>4. Memory(r)'
  BY <1>0, <1>1 DEF Own, Memory, True, Live
<1>5. Own(r)'
  BY <1>0, <1>1, <1>3, <1>4 DEF Own, Place, Entry, Idle, Kick, Owed, Live, Registered
<1>6. Hand(r) /\ Kept(r) /\ Told(r)
  BY <1>0, <1>1 DEF Hand, Kept, Live, Told, callers, Own, Place, Entry
<1> QED BY <1>2, <1>5, <1>6 DEF Step

LEMMA WalkStepStep ==
    ASSUME Inv, NEW r \in Runs, WalkStep(r)
    PROVE  Step(r) /\ Told(r)
<1>0. /\ TypeOK /\ wpc[r] \in {"gatewalk", "parkwalk"} /\ r \notin left[r]
      /\ UNCHANGED <<store, engine, callers, tries, history>> /\ woke' = woke
  BY DEF Inv, WalkStep
<1>1. RestTypes' /\ troubles' = troubles /\ troubles' >= troubles
  BY <1>0, RestKept, Types DEF WalkStep, RestTypes
<1>2. PICK t \in left[r] :
         LET visited == seen[r] \cup {t}
             further == IF Parked(t) THEN db[t].park.targets ELSE {}
             todo == (left[r] \cup further) \ visited
         IN  IF todo = {} \/ Cardinality(visited) >= MaxVisited THEN WalkEnds(r)
             ELSE /\ seen' = [seen EXCEPT ![r] = visited]
                  /\ left' = [left EXCEPT ![r] = todo]
                  /\ UNCHANGED <<wpc, repoke>>
  BY DEF WalkStep
<1>3. CASE WalkEnds(r)
  <2>1. CASE wpc[r] = "gatewalk"
    <3>1. /\ WorkTypes' /\ WorkFrame(r) /\ repoke' = repoke /\ wpc'[r] = "targets"
          /\ left'[r] = db[r].park.targets
      BY <1>0, <1>3, <2>1, GoesOn, KeysTyped DEF WalkEnds, Places
    <3> QED BY <1>0, <1>1, <2>1, <3>1, WalkOn
  <2>2. CASE wpc[r] = "parkwalk"
    <3>1. WorkTypes' /\ WorkFrame(r) /\ wpc'[r] = "queued"
      BY <1>0, <1>3, <2>2, GoesOn DEF WalkEnds, Places
    <3> QED BY <1>0, <1>1, <2>2, <3>1, WalkOn
  <2> QED BY <1>0, <2>1, <2>2
<1>4. CASE \E v, u \in SUBSET Runs : seen' = [seen EXCEPT ![r] = v] /\ left' = [left EXCEPT ![r] = u]
                                  /\ UNCHANGED <<wpc, repoke>>
  <2>1. WorkTypes' /\ WorkFrame(r) /\ repoke' = repoke /\ wpc' = wpc
    BY <1>0, <1>4, Types DEF WorkTypes, WorkFrame
  <2> QED BY <1>0, <1>1, <2>1, WalkOn
<1>5. left[r] \subseteq Runs /\ seen[r] \subseteq Runs /\ \A x \in Runs : db[x].park.targets \subseteq Runs
  BY <1>0, Types, KeysTyped DEF WorkTypes
<1> DEFINE visited == seen[r] \cup {t}
           todo == (left[r] \cup (IF Parked(t) THEN db[t].park.targets ELSE {})) \ visited
<1>6. visited \in SUBSET Runs /\ todo \in SUBSET Runs
  BY <1>5
<1>7. \/ WalkEnds(r)
      \/ /\ seen' = [seen EXCEPT ![r] = visited] /\ left' = [left EXCEPT ![r] = todo]
         /\ UNCHANGED <<wpc, repoke>>
  BY <1>2
<1> HIDE DEF visited, todo
<1> QED BY <1>3, <1>4, <1>6, <1>7

LEMMA WalkFailsStep ==
    ASSUME Inv, NEW r \in Runs, WalkFails(r)
    PROVE  Step(r) /\ Told(r) /\ troubles' = troubles + 1 /\ UNCHANGED <<db, joins, invalid>>
<1>0. /\ TypeOK /\ wpc[r] \in {"gatewalk", "parkwalk"} /\ r \notin left[r]
      /\ UNCHANGED <<store, engine, callers, tries, history>>
  BY DEF Inv, WalkFails
<1>1. RestTypes' /\ troubles' = troubles + 1 /\ troubles' >= troubles
  BY <1>0, RestTroubled, Troubled DEF WalkFails
<1>2. CASE wpc[r] = "gatewalk"
  <2>1. /\ WorkTypes' /\ WorkFrame(r) /\ repoke' = repoke /\ wpc'[r] = "targets"
        /\ left'[r] = db[r].park.targets /\ woke' = woke
    BY <1>0, <1>2, GoesOn, KeysTyped DEF WalkFails, Places
  <2> QED BY <1>0, <1>1, <1>2, <2>1, WalkOn DEF store, engine
<1>3. CASE wpc[r] = "parkwalk"
  <2>1. WorkTypes' /\ WorkFrame(r) /\ wpc'[r] = "queued" /\ woke'[r] = NoWake
    BY <1>0, <1>3, Leaves DEF WalkFails
  <2> QED BY <1>0, <1>1, <1>3, <2>1, WalkOn DEF store, engine
<1> QED BY <1>0, <1>2, <1>3

LEMMA WalkFindsStep ==
    ASSUME Inv, NEW r \in Runs, WalkFinds(r)
    PROVE  Step(r) /\ Told(r) /\ Stays(r)
<1>0. /\ TypeOK /\ Own(r) /\ wpc[r] \in {"gatewalk", "parkwalk"}
      /\ UNCHANGED store /\ up' = up /\ UNCHANGED <<callers, tries, troubles, history>>
  BY DEF Inv, WalkFinds
<1>1. /\ db[r].park # NoPark /\ db[r].park.targets # {} /\ db[r].park.targets \subseteq Runs
      /\ wpc[r] = "parkwalk" => ~Registered(joins, r)
  BY <1>0, KeysTyped DEF Own, Place, Entry
<1>2. /\ joins' \in SetType /\ timers' \in [Runs -> {"off", "armed", "fired"}]
      /\ timers'[r] = "off" /\ joins'[r].keys = {} /\ joins'[r].done = {}
      /\ joins'[r].kicked => Cardinality(joins'[r].done) >= joins'[r].need
      /\ \A x \in Runs \ {r} : joins'[x] = joins[x] /\ timers'[x] = timers[x]
  <2>1. CASE wpc[r] = "gatewalk"
    <3>1. Unpark(r)
      BY <2>1 DEF WalkFinds
    <3> QED BY <1>0, <3>1, Unparks DEF Unregistered
  <2>2. CASE wpc[r] = "parkwalk"
    <3>1. joins' = joins /\ timers' = timers
      BY <2>2 DEF WalkFinds
    <3>2. joins[r].keys = {} /\ joins[r].done = {} /\ timers[r] = "off"
      BY <1>0, <1>1, <2>2, KeysTyped DEF Own, Entry, Registered
    <3> QED BY <1>0, <3>1, <3>2, Types DEF EngineTypes, Own, Entry
  <2> QED BY <1>0, <2>1, <2>2
<1>3. /\ WorkTypes' /\ WorkFrame(r) /\ invalid' \in [Runs -> SUBSET Runs]
      /\ \A x \in Runs \ {r} : invalid'[x] = invalid[x]
      /\ invalid'[r] # {} /\ wpc'[r] \in {"reveal", "queued", "none"}
      /\ wpc'[r] = "none" => r \notin repoke
      /\ wpc'[r] = "reveal" => (r \in repoke <=> r \in repoke')
      /\ woke'[r] \in {woke[r], NoWake}
      /\ invalid[r] # {} \/ wpc'[r] = "reveal"
  <2>1. CASE invalid[r] = db[r].park.targets /\ Leave(r, FALSE) /\ UNCHANGED invalid
    BY <1>0, <1>1, <2>1, Leaves, Types DEF EngineTypes
  <2>2. CASE /\ invalid' = [invalid EXCEPT ![r] = db[r].park.targets]
             /\ Goto(r, "reveal", {}) /\ UNCHANGED woke
    BY <1>0, <1>1, <2>2, GoesOn, Types DEF EngineTypes, Places
  <2> QED BY <2>1, <2>2 DEF WalkFinds
<1>4. /\ StoreTypes' /\ StoreFrame(r) /\ db' = db /\ passed' = passed
      /\ RestTypes' /\ cpc' = cpc /\ watch' = watch /\ troubles' = troubles
      /\ must' = must /\ cut' = cut /\ refused' = refused /\ unread' = unread /\ stranded' = stranded
  BY <1>0, StoreKept, RestKept
<1>5. TypeOK' /\ Frame(r)
  BY <1>0, <1>2, <1>3, <1>4, Types, TypesNext DEF Frame, EngineTypes, EngineFrame
<1>6. Own(r)'
  BY <1>0, <1>1, <1>2, <1>3, <1>4
  DEF Own, Place, Entry, Idle, Cover, Kick, Memory, Owed, Live, Registered, True
<1>7. Hand(r) /\ Kept(r)
  BY <1>0, <1>1, <1>3, <1>4 DEF Hand, Kept, Live, Own, Place
<1>8. Told(r) /\ Stays(r)
  BY <1>0, <1>3, <1>4, Types DEF Told, Stays, Stands, Live, callers, RestTypes
<1> QED BY <1>5, <1>6, <1>7, <1>8 DEF Step

LEMMA RevealStep ==
    ASSUME Inv, NEW r \in Runs, Reveal(r)
    PROVE  Step(r) /\ Stays(r)
<1>0. /\ TypeOK /\ Own(r) /\ wpc[r] = "reveal" /\ watch' = Notified(r)
      /\ UNCHANGED store /\ UNCHANGED <<up, invalid, cpc, tries, troubles, history>>
  BY DEF Inv, Reveal
<1>1. /\ joins' \in SetType /\ timers' \in [Runs -> {"off", "armed", "fired"}]
      /\ timers'[r] = "off" /\ joins'[r].keys = {} /\ joins'[r].done = {} /\ ~joins'[r].kicked
      /\ \A x \in Runs \ {r} : joins'[x] = joins[x] /\ timers'[x] = timers[x]
  BY <1>0, Unparks DEF Unregistered, Reveal
<1>2. /\ WorkTypes' /\ WorkFrame(r) /\ wpc'[r] = (IF r \in repoke THEN "queued" ELSE "none")
      /\ woke'[r] = NoWake
  BY <1>0, Leaves DEF Reveal
<1>3. /\ StoreTypes' /\ StoreFrame(r) /\ db' = db /\ passed' = passed
      /\ RestTypes' /\ troubles' = troubles /\ up' = up /\ invalid' = invalid
      /\ must' = must /\ cut' = cut /\ refused' = refused /\ unread' = unread /\ stranded' = stranded
  BY <1>0, StoreKept, Types DEF RestTypes, history, Notified
<1>4. TypeOK' /\ Frame(r)
  BY <1>0, <1>1, <1>2, <1>3, Types, TypesNext DEF Frame, EngineTypes, EngineFrame
<1>5. Own(r)'
  BY <1>0, <1>1, <1>2, <1>3
  DEF Own, Place, Entry, Idle, Cover, Kick, Memory, Owed, Live, Registered, True
<1>6. Hand(r) /\ Kept(r)
  BY <1>0, <1>2, <1>3, Nothing DEF Hand, Kept, Live, Own, Place
<1>7. Stays(r)
  BY <1>0, <1>3, Types DEF Stays, Stands, RestTypes, Own, Place
<1> QED BY <1>4, <1>5, <1>6, <1>7 DEF Step

LEMMA ReadTargetStep ==
    ASSUME Inv, NEW r \in Runs, ReadTarget(r)
    PROVE  Step(r) /\ Told(r) /\ Stays(r)
<1>0. /\ TypeOK /\ Own(r) /\ wpc[r] = "targets"
      /\ UNCHANGED store /\ UNCHANGED <<up, timers, invalid, wpc, repoke, seen, woke>>
      /\ UNCHANGED <<callers, tries, troubles, history>>
  BY DEF Inv, ReadTarget
<1>1. PICK t \in left[r] : /\ joins' = IF Live(t) THEN joins ELSE Mark(joins, r, t)
                           /\ left' = [left EXCEPT ![r] = @ \ {t}]
  BY DEF ReadTarget
<1>2. t \in Runs /\ joins \in SetType /\ left[r] \subseteq Runs
  BY <1>0, Types DEF WorkTypes, EngineTypes
<1>3. /\ joins' \in SetType /\ (\A x \in Runs \ {r} : joins'[x] = joins[x])
      /\ joins'[r].keys = joins[r].keys /\ joins'[r].need = joins[r].need
      /\ joins'[r].kicked = joins[r].kicked
      /\ joins[r].done \subseteq joins'[r].done /\ joins'[r].done \subseteq joins[r].done \cup {t}
      /\ Live(t) => joins'[r].done = joins[r].done
      /\ ~Live(t) /\ t \in joins[r].keys => t \in joins'[r].done
  <2>1. CASE Live(t)
    BY <1>1, <1>2, <2>1
  <2>2. CASE ~Live(t)
    <3>1. joins' = Mark(joins, r, t)
      BY <1>1, <2>2
    <3>2. /\ joins' \in SetType /\ (\A x \in Runs \ {r} : joins'[x] = joins[x])
          /\ joins'[r].keys = joins[r].keys /\ joins'[r].need = joins[r].need
          /\ joins'[r].kicked = joins[r].kicked
          /\ t \in joins[r].keys => joins'[r].done = joins[r].done \cup {t}
          /\ t \notin joins[r].keys => joins'[r].done = joins[r].done
      <4>1. Marked(joins', joins, r, t)
        BY <1>2, <3>1, Marks
      <4> QED BY <4>1 DEF Marked
    <3> QED BY <2>2, <3>2
  <2> QED BY <2>1, <2>2
<1>4. Cardinality(joins'[r].done) >= Cardinality(joins[r].done)
      /\ Cardinality(joins[r].done) \in Nat /\ Cardinality(joins'[r].done) \in Nat
  <2>1. joins'[r].done \subseteq Runs
    BY <1>0, <1>2, <1>3, KeysTyped
  <2> QED BY <1>3, <2>1, Sizes
<1>5. /\ left' \in [Runs -> SUBSET Runs] /\ left'[r] = left[r] \ {t}
      /\ \A x \in Runs \ {r} : left'[x] = left[x]
  BY <1>0, <1>1, Types DEF WorkTypes
<1>6. /\ StoreTypes' /\ StoreFrame(r) /\ db' = db /\ passed' = passed
      /\ RestTypes' /\ cpc' = cpc /\ watch' = watch /\ troubles' = troubles
      /\ must' = must /\ cut' = cut /\ refused' = refused /\ unread' = unread /\ stranded' = stranded
  BY <1>0, StoreKept, RestKept
<1>7. TypeOK' /\ Frame(r)
  BY <1>0, <1>3, <1>5, <1>6, Types, TypesNext
  DEF Frame, EngineTypes, EngineFrame, WorkTypes, WorkFrame
<1>8. Own(r)'
  <2>1. Place(r)' /\ Idle(r)' /\ Kick(r)' /\ Memory(r)' /\ Owed(r)'
    BY <1>0, <1>3, <1>6 DEF Own, Place, Idle, Kick, Memory, Owed, Live, Registered, True
  <2>2. Cover(r)'
    BY <1>0, <1>3, <1>5, <1>6 DEF Own, Cover, Live
  <2>3. Entry(r)'
    BY <1>0, <1>3, <1>4, <1>6, KeysTyped DEF Own, Entry, Live, Registered
  <2> QED BY <2>1, <2>2, <2>3 DEF Own
<1>9. Hand(r) /\ Kept(r) /\ Told(r)
  BY <1>0, <1>6 DEF Hand, Kept, Live, Told, callers
<1>10. Stays(r)
  BY <1>0, <1>3, <1>6, Types DEF Stays, RestTypes, Registered
<1> QED BY <1>7, <1>8, <1>9, <1>10 DEF Step

(* The park ends: what the handler will be told is what the set knew. *)
LEMMA Settles ==
    ASSUME Inv, NEW r \in Runs, wpc[r] = "targets", Unpark(r), Goto(r, "reserve", {}),
           NEW expired \in BOOLEAN, Settle(r, joins[r].done, expired),
           Cardinality(joins[r].done) < AwaitNeed(db[r].park) =>
             (expired /\ r \in passed) \/ r \in unread',
           expired => Cardinality(joins[r].done) < AwaitNeed(db[r].park) /\ r \in passed,
           UNCHANGED <<store, up, invalid, callers, tries>>, RestTypes', troubles' >= troubles,
           UNCHANGED <<must, cut, refused, stranded>>, unread \subseteq unread'
    PROVE  Step(r) /\ Told(r) /\ Stays(r)
<1>0. /\ TypeOK /\ Own(r) /\ UNCHANGED store
  BY DEF Inv
<1>1. /\ joins' \in SetType /\ timers' \in [Runs -> {"off", "armed", "fired"}]
      /\ timers'[r] = "off" /\ joins'[r].keys = {} /\ joins'[r].done = {} /\ ~joins'[r].kicked
      /\ \A x \in Runs \ {r} : joins'[x] = joins[x] /\ timers'[x] = timers[x]
  BY <1>0, Unparks DEF Unregistered
<1>2. /\ db[r].park # NoPark /\ db[r].park \in ParkType /\ joins[r].done \subseteq Runs
      /\ AwaitNeed(db[r].park) \in Nat /\ Cardinality(joins[r].done) \in Nat
      /\ \A t \in joins[r].done : ~Live(t)
  <2>1. /\ db[r].park # NoPark /\ db[r].park.targets # {} /\ \A t \in joins[r].done : ~Live(t)
    BY <1>0 DEF Own, Place, Entry
  <2>2. db[r].park \in ParkType /\ joins[r].done \subseteq Runs
        /\ Cardinality(joins[r].done) \in Nat
    BY <1>0, KeysTyped
  <2>3. AwaitNeed(db[r].park) \in 1..Cardinality(db[r].park.targets)
    BY <2>1, <2>2, NeedInRange
  <2> QED BY <2>1, <2>2, <2>3
<1>a. PICK m : m = [park |-> db[r].park, done |-> joins[r].done, expired |-> expired]
  OBVIOUS
<1>3. m \in WakeType /\ m.park = db[r].park /\ m.done = joins[r].done /\ m.expired = expired
  BY <1>2, <1>a DEF WakeType
<1>4. woke' = [woke EXCEPT ![r] = m]
  BY <1>a DEF Settle
<1>5. /\ woke' \in [Runs -> WakeType] /\ woke'[r] = m /\ \A x \in Runs \ {r} : woke'[x] = woke[x]
  BY <1>0, <1>3, <1>4, Types DEF WorkTypes
<1>6. /\ WorkTypes' /\ WorkFrame(r) /\ wpc'[r] = "reserve" /\ repoke' = repoke
  BY <1>0, <1>5, GoesTo, Types DEF WorkTypes, WorkFrame, Places
<1>7. StoreTypes' /\ StoreFrame(r) /\ db' = db /\ passed' = passed
  BY <1>0, StoreKept
<1>8. TypeOK' /\ Frame(r)
  BY <1>0, <1>1, <1>6, <1>7, Types, TypesNext DEF Frame, EngineTypes, EngineFrame
<1>9. Own(r)'
  <2>1. True(r, m)'
    BY <1>0, <1>2, <1>3, <1>7 DEF True, Live, Own, Place
  <2>2. True(r, db[r].memory) => True(r, db[r].memory)'
    BY <1>7 DEF True, Live
  <2>3. Memory(r)'
    BY <1>0, <1>5, <1>7, <2>1, <2>2 DEF Own, Memory
  <2> QED BY <1>0, <1>1, <1>2, <1>6, <1>7, <2>3
      DEF Own, Place, Entry, Idle, Cover, Kick, Owed, Live, Registered
<1>10. Hand(r) /\ Kept(r) /\ Told(r)
  BY <1>0, <1>6, <1>7 DEF Hand, Kept, Live, Told, callers
<1>11. Stays(r)
  BY <1>0, <1>1, <1>7 DEF Stays, Registered
<1> QED BY <1>8, <1>9, <1>10, <1>11 DEF Step

LEMMA TargetUnreadStep ==
    ASSUME Inv, NEW r \in Runs, TargetUnread(r)
    PROVE  Step(r) /\ Told(r) /\ Stays(r)
<1>1. /\ wpc[r] = "targets" /\ Trouble /\ Settle(r, joins[r].done, FALSE) /\ Unpark(r)
      /\ Goto(r, "reserve", {}) /\ unread' = unread \cup {r}
      /\ UNCHANGED <<store, up, invalid, callers, tries>> /\ UNCHANGED <<must, cut, refused, stranded>>
  BY DEF TargetUnread, Done
<1>2. TypeOK
  BY DEF Inv
<1>3. RestTypes' /\ troubles' >= troubles
  BY <1>1, <1>2, Types, Troubled DEF RestTypes, callers
<1> QED BY <1>1, <1>3, Settles

LEMMA WakeStep ==
    ASSUME Inv, NEW r \in Runs, Wake(r)
    PROVE  Step(r) /\ Told(r) /\ Stays(r)
<1> DEFINE enough == Cardinality(joins[r].done) >= AwaitNeed(db[r].park)
<1>1. /\ wpc[r] = "targets" /\ (enough \/ r \in passed) /\ Settle(r, joins[r].done, ~enough)
      /\ Unpark(r) /\ Goto(r, "reserve", {})
      /\ UNCHANGED <<store, up, invalid, callers, tries>>
      /\ UNCHANGED <<callers, tries, troubles, history>>
  BY DEF Wake, Done
<1>2. TypeOK /\ Own(r)
  BY DEF Inv
<1>3. /\ RestTypes' /\ troubles' >= troubles /\ UNCHANGED <<must, cut, refused, stranded>>
      /\ unread' = unread /\ stranded' = stranded
  BY <1>1, <1>2, RestKept, Types DEF RestTypes
<1>4. ~enough <=> Cardinality(joins[r].done) < AwaitNeed(db[r].park)
  <2>1. db[r].park \in ParkType /\ db[r].park.targets # {} /\ Cardinality(joins[r].done) \in Nat
    BY <1>1, <1>2, KeysTyped DEF Own, Place, Entry
  <2>2. AwaitNeed(db[r].park) \in 1..Cardinality(db[r].park.targets)
    BY <2>1, NeedInRange
  <2> QED BY <2>1, <2>2
<1>5. PICK e \in BOOLEAN : e = ~enough
  OBVIOUS
<1>6. Settle(r, joins[r].done, e)
  BY <1>1, <1>5
<1> HIDE DEF enough
<1> QED BY <1>1, <1>3, <1>4, <1>5, <1>6, Settles

LEMMA StayParkedStep ==
    ASSUME Inv, NEW r \in Runs, StayParked(r)
    PROVE  Step(r) /\ Told(r) /\ Stays(r)
<1>0. /\ TypeOK /\ Own(r) /\ wpc[r] = "targets" /\ left[r] = {} /\ r \notin passed
      /\ Cardinality(joins[r].done) < AwaitNeed(db[r].park)
      /\ UNCHANGED store /\ UNCHANGED <<up, joins, invalid>>
      /\ UNCHANGED <<callers, tries, troubles, history>>
  BY DEF Inv, StayParked, Done
<1>1. /\ WorkTypes' /\ WorkFrame(r) /\ wpc'[r] = (IF r \in repoke THEN "queued" ELSE "none")
      /\ woke'[r] = NoWake
  BY <1>0, Leaves DEF StayParked
<1>2. /\ timers' \in [Runs -> {"off", "armed", "fired"}]
      /\ timers'[r] = (IF db[r].park.deadline /\ timers[r] = "off" THEN "armed" ELSE timers[r])
      /\ \A x \in Runs \ {r} : timers'[x] = timers[x]
  BY <1>0, Types DEF StayParked, EngineTypes
<1>3. /\ StoreTypes' /\ StoreFrame(r) /\ db' = db /\ passed' = passed
      /\ RestTypes' /\ cpc' = cpc /\ watch' = watch /\ troubles' = troubles
      /\ must' = must /\ cut' = cut /\ refused' = refused /\ unread' = unread /\ stranded' = stranded
  BY <1>0, StoreKept, RestKept
<1>4. TypeOK' /\ Frame(r)
  BY <1>0, <1>1, <1>2, <1>3, Types, TypesNext DEF Frame, EngineTypes, EngineFrame
<1>5. /\ Registered(joins, r) /\ joins[r].need = AwaitNeed(db[r].park) /\ timers[r] # "fired"
      /\ db[r].park # NoPark /\ timers[r] \in {"off", "armed", "fired"}
  BY <1>0, Types DEF Own, Place, Entry, EngineTypes
<1>6. Own(r)'
  <2>1. Place(r)' /\ Memory(r)' /\ Owed(r)'
    BY <1>0, <1>1, <1>3 DEF Own, Place, Memory, Owed, Live, Registered, True
  <2>2. Entry(r)'
    BY <1>0, <1>1, <1>2, <1>3, <1>5 DEF Own, Entry, Live, Registered
  <2>3. Idle(r)'
    BY <1>0, <1>1, <1>2, <1>3, <1>5 DEF Own, Idle, Live, Registered
  <2>4. Cover(r)'
    BY <1>0, <1>1, <1>3, KeysTyped DEF Own, Cover, Live, WorkFrame
  <2>5. Kick(r)'
    BY <1>0, <1>5, KeysTyped DEF Kick
  <2> QED BY <2>1, <2>2, <2>3, <2>4, <2>5 DEF Own
<1>7. Hand(r) /\ Kept(r) /\ Told(r)
  BY <1>0, <1>1, <1>3 DEF Hand, Kept, Live, Told, callers
<1>8. Stays(r)
  BY <1>0, <1>3, Types DEF Stays, RestTypes, Registered
<1> QED BY <1>4, <1>6, <1>7, <1>8 DEF Step

(* r is poked: dispatched, or passed again by the worker it has. *)
LEMMA Pokes ==
    ASSUME TypeOK, NEW r \in Runs, wpc' = Poked({r}, wpc), repoke' = Repoked({r}),
           UNCHANGED <<left, seen, woke>>
    PROVE  /\ WorkTypes' /\ WorkFrame(r)
           /\ wpc'[r] = (IF wpc[r] = "none" THEN "queued" ELSE wpc[r])
           /\ wpc[r] # "none" => r \in repoke'
           /\ left' = left /\ seen' = seen /\ woke' = woke
BY Types DEF Poked, Repoked, WorkTypes, WorkFrame, Places

LEMMA TimerFiresStep ==
    ASSUME Inv, NEW r \in Runs, TimerFires(r)
    PROVE  Step(r) /\ Told(r) /\ Stays(r)
<1>0. /\ TypeOK /\ Own(r) /\ timers[r] = "armed" /\ r \in passed
      /\ UNCHANGED store /\ UNCHANGED <<up, joins, invalid>>
      /\ UNCHANGED <<callers, tries, troubles, history>>
  BY DEF Inv, TimerFires
<1>1. /\ WorkTypes' /\ WorkFrame(r)
      /\ wpc'[r] = (IF wpc[r] = "none" THEN "queued" ELSE wpc[r])
      /\ wpc[r] # "none" => r \in repoke'
      /\ left' = left /\ seen' = seen /\ woke' = woke
  BY <1>0, Pokes DEF TimerFires
<1>2. /\ timers' \in [Runs -> {"off", "armed", "fired"}] /\ timers'[r] = "fired"
      /\ \A x \in Runs \ {r} : timers'[x] = timers[x]
  BY <1>0, Types DEF TimerFires, EngineTypes
<1>3. /\ StoreTypes' /\ StoreFrame(r) /\ db' = db /\ passed' = passed
      /\ RestTypes' /\ cpc' = cpc /\ watch' = watch /\ troubles' = troubles
      /\ must' = must /\ cut' = cut /\ refused' = refused /\ unread' = unread /\ stranded' = stranded
  BY <1>0, StoreKept, RestKept
<1>4. TypeOK' /\ Frame(r)
  BY <1>0, <1>1, <1>2, <1>3, Types, TypesNext DEF Frame, EngineTypes, EngineFrame
<1>5. /\ Registered(joins, r) /\ up /\ wpc[r] \in {"none", "queued", "gatewalk", "targets"}
  BY <1>0 DEF Own, Place, Entry
<1>6. Own(r)'
  <2>1. Place(r)' /\ Memory(r)' /\ Owed(r)' /\ Kick(r)' /\ Idle(r)'
    BY <1>0, <1>1, <1>3, <1>5 DEF Own, Place, Memory, Owed, Live, Registered, True, Kick, Idle
  <2>2. Entry(r)'
    BY <1>0, <1>1, <1>2, <1>3, <1>5 DEF Own, Entry, Live, Registered
  <2>3. Cover(r)'
    BY <1>0, <1>1, <1>3, <1>5, KeysTyped DEF Own, Cover, Live, WorkFrame
  <2> QED BY <2>1, <2>2, <2>3 DEF Own
<1>7. Hand(r) /\ Kept(r) /\ Told(r)
  BY <1>0, <1>1, <1>3, <1>5 DEF Hand, Kept, Live, Told, callers
<1>8. Stays(r)
  BY <1>0, <1>1, <1>3, <1>5, Types DEF Stays, RestTypes, Registered
<1> QED BY <1>4, <1>6, <1>7, <1>8 DEF Step

LEMMA CancelStep ==
    ASSUME Inv, NEW r \in Runs, Cancel(r)
    PROVE  Step(r) /\ Told(r) /\ Stays(r)
<1>0. /\ TypeOK /\ Own(r) /\ up /\ r \in Cancelable /\ Live(r) /\ db \in Records
      /\ UNCHANGED passed /\ UNCHANGED engine /\ UNCHANGED <<callers, tries, troubles, history>>
  BY Types DEF Inv, Cancel, Accepts, StoreTypes
<1>1. /\ WorkTypes' /\ WorkFrame(r)
      /\ wpc'[r] = (IF wpc[r] = "none" THEN "queued" ELSE wpc[r])
      /\ wpc[r] # "none" => r \in repoke'
      /\ left' = left /\ seen' = seen /\ woke' = woke
  BY <1>0, Pokes DEF Cancel
<1>2. /\ db' \in Records /\ (\A x \in Runs \ {r} : db'[x] = db[x])
      /\ db'[r].cancel /\ db'[r].memory = db[r].memory /\ db'[r].life = db[r].life
      /\ db'[r].phase = db[r].phase /\ db'[r].park = db[r].park
  <2>1. db' = PutCancel(db, r)
    BY DEF Cancel, PutCancel
  <2> QED BY <1>0, <2>1, SetCancel
<1>3. /\ EngineTypes' /\ EngineFrame(r) /\ up' = up /\ joins' = joins /\ timers' = timers
      /\ invalid' = invalid /\ passed' = passed
      /\ RestTypes' /\ cpc' = cpc /\ watch' = watch /\ troubles' = troubles
      /\ must' = must /\ cut' = cut /\ refused' = refused /\ unread' = unread /\ stranded' = stranded
  BY <1>0, EngineKept, RestKept
<1>4. TypeOK' /\ Frame(r)
  BY <1>0, <1>1, <1>2, <1>3, Types, TypesNext DEF Frame, StoreFrame, StoreTypes
<1>5. \A t \in Runs : Live(t)' <=> Live(t)
  BY <1>2 DEF Live
<1>6. Own(r)'
  <2>1. Place(r)' /\ Owed(r)' /\ Kick(r)' /\ Idle(r)'
    BY <1>0, <1>1, <1>2, <1>3 DEF Own, Place, Owed, Live, Registered, Kick, Idle
  <2>2. Memory(r)'
    BY <1>0, <1>1, <1>2, <1>3, <1>5, KeysTyped DEF Own, Memory, True
  <2>3. Entry(r)'
    BY <1>0, <1>1, <1>2, <1>3, <1>5, KeysTyped DEF Own, Entry, Registered
  <2>4. Cover(r)'
    BY <1>0, <1>1, <1>3, <1>5, KeysTyped DEF Own, Cover, WorkFrame
  <2> QED BY <2>1, <2>2, <2>3, <2>4 DEF Own
<1>7. Hand(r) /\ Kept(r) /\ Told(r)
  BY <1>0, <1>1, <1>2, <1>3 DEF Hand, Kept, Live, Told, callers
<1>8. Stays(r)
  BY <1>0, <1>1, <1>2, <1>3, Types DEF Stays, RestTypes, Registered
<1> QED BY <1>4, <1>6, <1>7, <1>8 DEF Step

LEMMA DeadlinePassesStep ==
    ASSUME Inv, NEW r \in Runs, DeadlinePasses(r)
    PROVE  Step(r) /\ Told(r) /\ Stays(r)
<1>0. /\ TypeOK /\ Own(r) /\ db[r].park.deadline /\ db' = db /\ passed' = passed \cup {r}
      /\ UNCHANGED engine /\ UNCHANGED worker /\ UNCHANGED <<callers, tries, troubles, history>>
  BY DEF Inv, DeadlinePasses
<1>1. /\ WorkTypes' /\ WorkFrame(r) /\ wpc' = wpc /\ left' = left /\ seen' = seen /\ woke' = woke
      /\ repoke' = repoke
  BY <1>0, Types DEF worker, WorkTypes, WorkFrame
<1>2. /\ EngineTypes' /\ EngineFrame(r) /\ up' = up /\ joins' = joins /\ timers' = timers
      /\ invalid' = invalid
      /\ RestTypes' /\ cpc' = cpc /\ watch' = watch /\ troubles' = troubles
      /\ must' = must /\ cut' = cut /\ refused' = refused /\ unread' = unread /\ stranded' = stranded
  BY <1>0, EngineKept, RestKept
<1>3. TypeOK' /\ Frame(r)
  BY <1>0, <1>1, <1>2, Types, TypesNext DEF Frame, StoreFrame, StoreTypes
<1>4. Own(r)'
  BY <1>0, <1>1, <1>2 DEF Own, Place, Entry, Idle, Cover, Kick, Memory, Owed, Live, Registered, True
<1>5. Hand(r) /\ Kept(r) /\ Told(r)
  BY <1>0, <1>1, <1>2 DEF Hand, Kept, Live, Told, callers
<1>6. Stays(r)
  BY <1>0, <1>1, <1>2, Types DEF Stays, RestTypes
<1> QED BY <1>3, <1>4, <1>5, <1>6 DEF Step

LEMMA ReapStep ==
    ASSUME Inv, NEW r \in Runs, Reap(r)
    PROVE  Step(r) /\ Told(r) /\ Stays(r)
<1>0. /\ TypeOK /\ Own(r) /\ ~Live(r) /\ db \in Records /\ passed' = passed
      /\ UNCHANGED engine /\ UNCHANGED worker /\ UNCHANGED <<callers, tries, troubles, history>>
  BY Types DEF Inv, Reap, Live, StoreTypes
<1>1. /\ WorkTypes' /\ WorkFrame(r) /\ wpc' = wpc /\ left' = left /\ seen' = seen /\ woke' = woke
      /\ repoke' = repoke
  BY <1>0, Types DEF worker, WorkTypes, WorkFrame
<1>2. /\ EngineTypes' /\ EngineFrame(r) /\ up' = up /\ joins' = joins /\ timers' = timers
      /\ invalid' = invalid
      /\ RestTypes' /\ cpc' = cpc /\ watch' = watch /\ troubles' = troubles
      /\ must' = must /\ cut' = cut /\ refused' = refused /\ unread' = unread /\ stranded' = stranded
  BY <1>0, EngineKept, RestKept
<1>3. /\ db' \in Records /\ (\A x \in Runs \ {r} : db'[x] = db[x])
      /\ db'[r].life = "gone" /\ db'[r].memory = db[r].memory /\ db'[r].cancel = db[r].cancel
      /\ db'[r].phase = db[r].phase /\ db'[r].park = db[r].park
  <2>1. db' = PutLife(db, r, "gone")
    BY DEF Reap, PutLife
  <2> QED BY <1>0, <2>1, SetLife
<1>4. TypeOK' /\ Frame(r)
  BY <1>0, <1>1, <1>2, <1>3, Types, TypesNext DEF Frame, StoreFrame, StoreTypes
<1>5. \A t \in Runs : Live(t)' <=> Live(t)
  BY <1>0, <1>3 DEF Live
<1>6. Own(r)'
  <2>1. Place(r)' /\ Owed(r)' /\ Kick(r)' /\ Idle(r)'
    BY <1>0, <1>1, <1>2, <1>3, <1>5 DEF Own, Place, Owed, Registered, Kick, Idle
  <2>2. Memory(r)'
    BY <1>0, <1>1, <1>2, <1>3, <1>5, KeysTyped DEF Own, Memory, True
  <2>3. Entry(r)' /\ Cover(r)'
    BY <1>0, <1>1, <1>2, <1>3, <1>5, KeysTyped DEF Own, Entry, Registered, Cover
  <2> QED BY <2>1, <2>2, <2>3 DEF Own
<1>7. Hand(r) /\ Kept(r) /\ Told(r)
  BY <1>0, <1>1, <1>2, <1>3, <1>5 DEF Hand, Kept, Told, callers
<1>8. Stays(r)
  BY <1>0, <1>1, <1>2, <1>3, Types DEF Stays, RestTypes
<1> QED BY <1>4, <1>6, <1>7, <1>8 DEF Step

(* An attempt that commits nothing: the Run is passed again. *)
LEMMA Retried ==
    ASSUME Inv, NEW r \in Runs, wpc[r] \in {"queued", "reserve", "handler"}, Live(r),
           Leave(r, TRUE), UNCHANGED store, UNCHANGED engine, UNCHANGED callers,
           UNCHANGED history, RestTypes', troubles' >= troubles
    PROVE  Step(r) /\ Told(r) /\ Stays(r)
<1>0. /\ TypeOK /\ Own(r)
      /\ must' = must /\ cut' = cut /\ refused' = refused /\ unread' = unread /\ stranded' = stranded
  BY DEF Inv, history
<1>1. /\ WorkTypes' /\ WorkFrame(r) /\ wpc'[r] = "queued" /\ woke'[r] = NoWake
  BY <1>0, Leaves
<1>2. /\ StoreTypes' /\ StoreFrame(r) /\ db' = db /\ passed' = passed
      /\ EngineTypes' /\ EngineFrame(r) /\ up' = up /\ joins' = joins /\ timers' = timers
      /\ invalid' = invalid
  BY <1>0, StoreKept, EngineKept
<1>3. TypeOK' /\ Frame(r)
  BY <1>1, <1>2, TypesNext DEF Frame
<1>4. Own(r)'
  <2>1. Cover(r)'
    BY <1>0, <1>1, <1>2, KeysTyped DEF Own, Cover, Live, WorkFrame
  <2> QED BY <1>0, <1>1, <1>2, <2>1
      DEF Own, Place, Entry, Idle, Kick, Memory, Owed, Live, Registered, True
<1>5. Hand(r) /\ Kept(r) /\ Told(r)
  BY <1>0, <1>1, <1>2 DEF Hand, Kept, Live, Told, callers
<1>6. Stays(r)
  BY <1>0, <1>2 DEF Stays
<1> QED BY <1>3, <1>4, <1>5, <1>6 DEF Step

(* The record changes and the worker goes on; the Run is not registered. *)
LEMMA Recorded ==
    ASSUME Inv, NEW r \in Runs, wpc[r] \in {"queued", "reserve", "handler"}, Live(r), up,
           ~Registered(joins, r), UNCHANGED engine, UNCHANGED callers, UNCHANGED history,
           RestTypes', troubles' >= troubles,
           WorkTypes', WorkFrame(r), repoke' = repoke,
           wpc'[r] \in {"queued", "handler", "parkwalk"},
           db' \in Records, \A x \in Runs \ {r} : db'[x] = db[x],
           db'[r].life = db[r].life, db'[r].cancel = db[r].cancel,
           passed' = passed \ {r}, Place(r)', Idle(r)',
           {woke'[r], db'[r].memory} \subseteq {NoWake, woke[r], db[r].memory},
           \/ db'[r].park = NoPark
           \/ wpc'[r] = "parkwalk" /\ seen'[r] = {} /\ left'[r] = db'[r].park.targets
    PROVE  Step(r) /\ Told(r) /\ Stays(r)
<1>0. /\ TypeOK /\ Own(r)
      /\ must' = must /\ cut' = cut /\ refused' = refused /\ unread' = unread /\ stranded' = stranded
  BY DEF Inv, history
<1>1. /\ EngineTypes' /\ EngineFrame(r) /\ up' = up /\ joins' = joins /\ timers' = timers
      /\ invalid' = invalid
  BY <1>0, EngineKept
<1>2. TypeOK' /\ Frame(r)
  BY <1>0, <1>1, Types, TypesNext DEF Frame, StoreFrame, StoreTypes
<1>3. \A t \in Runs : Live(t)' <=> Live(t)
  BY DEF Live
<1>4. Own(r)'
  <2>1. /\ joins[r].keys = {} /\ joins[r].done = {} /\ timers[r] = "off"
    BY <1>0, KeysTyped DEF Own, Entry, Registered
  <2>2. Entry(r)' /\ Cover(r)' /\ Kick(r)' /\ Owed(r)'
    BY <1>0, <1>1, <2>1 DEF Own, Entry, Cover, Kick, Owed, Registered
  <2>3. Memory(r)'
    BY <1>0, <1>3, KeysTyped DEF Own, Memory, True
  <2> QED BY <2>2, <2>3 DEF Own
<1>5. Hand(r) /\ Kept(r) /\ Told(r)
  BY <1>0, <1>1, <1>3 DEF Hand, Kept, Told, callers
<1>6. Stays(r)
  BY <1>1 DEF Stays, Stands, Registered
<1> QED BY <1>2, <1>4, <1>5, <1>6 DEF Step

LEMMA ReserveStep ==
    ASSUME Inv, NEW r \in Runs, Reserve(r)
    PROVE  Step(r) /\ Told(r) /\ Stays(r)
<1>0. /\ TypeOK /\ Own(r) /\ db \in Records /\ UNCHANGED engine /\ UNCHANGED <<callers, tries, history>>
      /\ wpc[r] = "reserve" \/ (Deciding(r) /\ db[r].park = NoPark)
  BY Types DEF Inv, Reserve, StoreTypes
<1>1. /\ Live(r) /\ up /\ ~Registered(joins, r) /\ wpc[r] \in {"queued", "reserve"}
      /\ db[r].phase # "ended"
      /\ db[r].phase = "forward" /\ db[r].cancel => r \in repoke
  BY <1>0 DEF Own, Place, Entry, Idle, Deciding
<1>2. CASE Trouble /\ Leave(r, TRUE) /\ UNCHANGED store
  <2>1. RestTypes' /\ troubles' >= troubles
    BY <1>0, <1>2, RestTroubled
  <2> QED BY <1>0, <1>1, <1>2, <2>1, Retried
<1>3. CASE /\ db' = [db EXCEPT ![r].park = NoPark,
                               ![r].memory = IF woke[r] # NoWake THEN woke[r] ELSE @]
           /\ Goto(r, "handler", {})
           /\ woke' = [woke EXCEPT ![r] = NoWake]
           /\ passed' = passed \ {r} /\ UNCHANGED troubles
  <2>1. PICK m \in WakeType : m = IF woke[r] # NoWake THEN woke[r] ELSE db[r].memory
    BY <1>0, KeysTyped
  <2>2. db' = PutPark(db, r, NoPark, m)
    BY <1>0, <1>3, <2>1 DEF PutPark, Records
  <2>3. /\ db' \in Records /\ (\A x \in Runs \ {r} : db'[x] = db[x])
        /\ db'[r].park = NoPark /\ db'[r].memory = m /\ db'[r].life = db[r].life
        /\ db'[r].phase = db[r].phase /\ db'[r].cancel = db[r].cancel
    BY <1>0, <2>1, <2>2, SetPark, Nothing
  <2>4. /\ WorkTypes' /\ WorkFrame(r) /\ wpc'[r] = "handler" /\ repoke' = repoke
        /\ woke'[r] = NoWake
    BY <1>0, <1>3, GoesTo, Types, Nothing DEF WorkTypes, WorkFrame, Places
  <2>5. RestTypes' /\ troubles' >= troubles
    BY <1>0, <1>3, RestKept, Types DEF RestTypes
  <2>6. Place(r)' /\ Idle(r)'
    BY <1>0, <1>1, <1>3, <2>3, <2>4 DEF Place, Idle, Live, engine
  <2>7. {woke'[r], db'[r].memory} \subseteq {NoWake, woke[r], db[r].memory}
    BY <2>1, <2>3, <2>4
  <2>8. UNCHANGED callers /\ UNCHANGED history
    BY <1>0
  <2> QED BY <1>0, <1>1, <1>3, <2>3, <2>4, <2>5, <2>6, <2>7, <2>8, Recorded
<1> QED BY <1>2, <1>3 DEF Reserve

LEMMA HandlerResolvesStep ==
    ASSUME Inv, NEW r \in Runs, HandlerResolves(r)
    PROVE  Step(r) /\ Told(r) /\ Stays(r)
<1>0. /\ TypeOK /\ Own(r) /\ db \in Records /\ wpc[r] = "handler" /\ passed' = passed
      /\ UNCHANGED engine /\ UNCHANGED <<callers, tries, history>>
      /\ UNCHANGED callers /\ UNCHANGED history
  BY Types DEF Inv, HandlerResolves, StoreTypes
<1>1. Live(r) /\ up /\ ~Registered(joins, r) /\ r \notin passed
  BY <1>0, Nothing DEF Own, Place, Entry
<1>2. CASE Trouble /\ Leave(r, TRUE) /\ UNCHANGED db
  <2>1. RestTypes' /\ troubles' >= troubles
    BY <1>0, <1>2, RestTroubled
  <2>2. UNCHANGED store
    BY <1>0, <1>2 DEF store
  <2> QED BY <1>0, <1>1, <1>2, <2>1, <2>2, Retried
<1>3. CASE /\ db' = [db EXCEPT ![r] = Resolved(@)]
           /\ Goto(r, "queued", {}) /\ UNCHANGED <<troubles, woke>>
  <2>1. db' = PutResolved(db, r)
    BY <1>3 DEF PutResolved
  <2>2. /\ db' \in Records /\ (\A x \in Runs \ {r} : db'[x] = db[x])
        /\ db'[r].life = db[r].life /\ db'[r].memory = NoWake /\ db'[r].cancel = db[r].cancel
        /\ db'[r].phase = "ended" /\ db'[r].park = NoPark
    BY <1>0, <2>1, SetResolved
  <2>3. /\ WorkTypes' /\ WorkFrame(r) /\ wpc'[r] = "queued" /\ repoke' = repoke /\ woke' = woke
    BY <1>0, <1>3, GoesOn DEF Places
  <2>4. RestTypes' /\ troubles' >= troubles
    BY <1>0, <1>3, RestKept, Types DEF RestTypes
  <2>5. Place(r)' /\ Idle(r)' /\ passed' = passed \ {r}
    BY <1>0, <1>1, <2>2, <2>3 DEF Place, Idle, Live, engine
  <2>6. {woke'[r], db'[r].memory} \subseteq {NoWake, woke[r], db[r].memory}
    BY <2>2, <2>3
  <2> QED BY <1>0, <1>1, <2>2, <2>3, <2>4, <2>5, <2>6, Recorded
<1> QED BY <1>2, <1>3 DEF HandlerResolves

LEMMA HandlerErrsStep ==
    ASSUME Inv, NEW r \in Runs, HandlerErrs(r)
    PROVE  Step(r) /\ Told(r) /\ Stays(r)
<1>0. /\ TypeOK /\ Own(r) /\ wpc[r] = "handler" /\ Leave(r, TRUE) /\ UNCHANGED store
      /\ UNCHANGED engine /\ UNCHANGED callers /\ UNCHANGED history /\ UNCHANGED troubles
      /\ tries[r] < MaxTries[r] /\ tries' = [tries EXCEPT ![r] = @ + 1]
  BY DEF Inv, HandlerErrs
<1>1. Live(r)
  BY <1>0 DEF Own, Place
<1>2. RestTypes' /\ troubles' >= troubles
  BY <1>0, Types, BoundsAssumption DEF RestTypes, callers, history
<1> QED BY <1>0, <1>1, <1>2, Retried

LEMMA ParkStep ==
    ASSUME Inv, NEW r \in Runs, Park(r)
    PROVE  Step(r) /\ Told(r) /\ Stays(r)
<1>0. /\ TypeOK /\ Own(r) /\ db \in Records /\ wpc[r] = "handler"
      /\ UNCHANGED engine /\ UNCHANGED callers /\ UNCHANGED history
      /\ tries[r] < MaxTries[r] /\ tries' = [tries EXCEPT ![r] = @ + 1]
  BY Types DEF Inv, Park, StoreTypes
<1>1. /\ Live(r) /\ up /\ ~Registered(joins, r) /\ db[r].phase # "ended"
      /\ db[r].phase = "forward" /\ db[r].cancel => r \in repoke
  BY <1>0 DEF Own, Place, Entry, Idle
<1>2. ASSUME troubles' \in 0..MaxTroubles, troubles' >= troubles PROVE RestTypes'
  BY <1>0, <1>2, Types, BoundsAssumption DEF RestTypes, callers, history
<1>3. CASE Trouble /\ Leave(r, TRUE) /\ UNCHANGED store
  <2>1. RestTypes' /\ troubles' >= troubles
    BY <1>0, <1>2, <1>3, Troubled
  <2> QED BY <1>0, <1>1, <1>3, <2>1, Retried
<1>4. ASSUME NEW p \in Parks[r], db' = [db EXCEPT ![r].park = p, ![r].memory = NoWake],
             passed' = passed \ {r}, Goto(r, "parkwalk", p.targets), UNCHANGED <<troubles, woke>>
      PROVE  Step(r) /\ Told(r) /\ Stays(r)
  <2>1. p \in ParkType /\ p.targets # {} /\ p # NoPark /\ p.targets \subseteq Runs
    BY ParkAsked
  <2>2. db' = PutPark(db, r, p, NoWake)
    BY <1>4 DEF PutPark
  <2>3. /\ db' \in Records /\ (\A x \in Runs \ {r} : db'[x] = db[x])
        /\ db'[r].park = p /\ db'[r].memory = NoWake /\ db'[r].life = db[r].life
        /\ db'[r].phase = db[r].phase /\ db'[r].cancel = db[r].cancel
    BY <1>0, <2>1, <2>2, SetPark, Nothing
  <2>4. /\ WorkTypes' /\ WorkFrame(r) /\ wpc'[r] = "parkwalk" /\ repoke' = repoke /\ woke' = woke
        /\ left'[r] = p.targets /\ seen'[r] = {}
    BY <1>0, <1>4, <2>1, GoesOn DEF Places
  <2>5. RestTypes' /\ troubles' >= troubles
    BY <1>0, <1>2, <1>4, Types, BoundsAssumption DEF RestTypes
  <2>6. Place(r)' /\ Idle(r)'
    BY <1>0, <1>1, <1>4, <2>1, <2>3, <2>4 DEF Place, Idle, Live, engine
  <2>7. {woke'[r], db'[r].memory} \subseteq {NoWake, woke[r], db[r].memory}
    BY <2>3, <2>4
  <2>8. left'[r] = db'[r].park.targets
    BY <2>3, <2>4
  <2> QED BY <1>0, <1>1, <1>4, <2>3, <2>4, <2>5, <2>6, <2>7, <2>8, Recorded
<1> QED BY <1>3, <1>4 DEF Park

LEMMA CascadeFailsStep ==
    ASSUME Inv, NEW r \in Runs, CascadeFails(r)
    PROVE  Step(r) /\ Told(r) /\ Stays(r)
<1>0. /\ TypeOK /\ Own(r) /\ wpc[r] = "cascade" /\ Trouble
      /\ UNCHANGED store /\ UNCHANGED engine
      /\ UNCHANGED <<wpc, repoke, seen, woke, callers, tries, must, cut, unread, stranded>>
  BY DEF Inv, CascadeFails
<1>1. PICK t \in left[r] : left' = [left EXCEPT ![r] = @ \ {t}] /\ refused' = refused \cup {t}
  BY DEF CascadeFails
<1>2. t \in Runs
  BY <1>0, Types DEF WorkTypes
<1>3. /\ WorkTypes' /\ WorkFrame(r) /\ left'[r] = left[r] \ {t}
      /\ wpc' = wpc /\ woke' = woke /\ repoke' = repoke
  BY <1>0, <1>1, Types DEF WorkTypes, WorkFrame
<1>4. /\ StoreTypes' /\ StoreFrame(r) /\ db' = db /\ passed' = passed
      /\ EngineTypes' /\ EngineFrame(r) /\ up' = up /\ joins' = joins /\ timers' = timers
      /\ invalid' = invalid
  BY <1>0, StoreKept, EngineKept
<1>5. RestTypes' /\ troubles' >= troubles
  BY <1>0, <1>1, <1>2, Types, Troubled DEF RestTypes, callers
<1>6. TypeOK' /\ Frame(r)
  BY <1>3, <1>4, <1>5, TypesNext DEF Frame
<1>7. Own(r)'
  BY <1>0, <1>3, <1>4 DEF Own, Place, Entry, Idle, Cover, Kick, Memory, Owed, Live, Registered, True
<1>8. Hand(r) /\ Kept(r) /\ Told(r)
  BY <1>0, <1>1, <1>3, <1>4 DEF Hand, Kept, Live, Told, callers
<1>9. Stays(r)
  BY <1>0, <1>4, <1>5 DEF Stays
<1> QED BY <1>6, <1>7, <1>8, <1>9 DEF Step

LEMMA CascadeEndsStep ==
    ASSUME Inv, NEW r \in Runs, CascadeEnds(r)
    PROVE  Step(r) /\ Told(r) /\ Stays(r)
<1>0. /\ TypeOK /\ Own(r) /\ wpc[r] = "cascade" /\ left[r] = {}
      /\ UNCHANGED store /\ UNCHANGED engine /\ UNCHANGED <<callers, tries, troubles, history>>
  BY DEF Inv, CascadeEnds
<1>1. /\ WorkTypes' /\ WorkFrame(r) /\ wpc'[r] = "queued" /\ woke' = woke /\ repoke' = repoke
  BY <1>0, GoesOn DEF CascadeEnds, Places
<1>2. /\ StoreTypes' /\ StoreFrame(r) /\ db' = db /\ passed' = passed
      /\ EngineTypes' /\ EngineFrame(r) /\ up' = up /\ joins' = joins /\ timers' = timers
      /\ invalid' = invalid
      /\ RestTypes' /\ cpc' = cpc /\ watch' = watch /\ troubles' = troubles
      /\ must' = must /\ cut' = cut /\ refused' = refused /\ unread' = unread /\ stranded' = stranded
  BY <1>0, StoreKept, EngineKept, RestKept
<1>3. TypeOK' /\ Frame(r)
  BY <1>1, <1>2, TypesNext DEF Frame
<1>4. Own(r)'
  <2>1. Cover(r)'
    BY <1>0, <1>1, <1>2, KeysTyped DEF Own, Cover, Live, WorkFrame
  <2> QED BY <1>0, <1>1, <1>2, <2>1
      DEF Own, Place, Entry, Idle, Kick, Memory, Owed, Live, Registered, True
<1>5. Hand(r) /\ Kept(r) /\ Told(r)
  BY <1>0, <1>1, <1>2 DEF Hand, Kept, Live, Told, callers
<1>6. Stays(r)
  BY <1>0, <1>2, Types DEF Stays, RestTypes
<1> QED BY <1>3, <1>4, <1>5, <1>6 DEF Step

(* The worker of a Run that ended goes on. *)
LEMMA Ends ==
    ASSUME Inv, NEW r \in Runs, wpc[r] \in {"notify", "kick"},
           wpc[r] = "notify" => wpc'[r] = "complete",
           wpc[r] = "kick" => left[r] = {} /\ wpc'[r] \in {"queued", "none"},
           WorkTypes', WorkFrame(r), woke'[r] \in {woke[r], NoWake}, UNCHANGED store,
           UNCHANGED engine, UNCHANGED troubles, UNCHANGED history, RestTypes'
    PROVE  Step(r) /\ Stays(r)
<1>0. TypeOK /\ Own(r) /\ ~Live(r) /\ db[r].park = NoPark
  BY DEF Inv, Own, Place
<1>1. /\ StoreTypes' /\ StoreFrame(r) /\ db' = db /\ passed' = passed
      /\ EngineTypes' /\ EngineFrame(r) /\ up' = up /\ joins' = joins /\ timers' = timers
      /\ invalid' = invalid
      /\ must' = must /\ cut' = cut /\ refused' = refused /\ unread' = unread /\ stranded' = stranded
  BY <1>0, StoreKept, EngineKept DEF history
<1>2. TypeOK' /\ Frame(r)
  BY <1>1, TypesNext DEF Frame
<1>3. Own(r)'
  BY <1>0, <1>1 DEF Own, Place, Entry, Idle, Cover, Kick, Memory, Owed, Live, Registered, True
<1>4. Hand(r) /\ Kept(r)
  BY <1>0, <1>1 DEF Hand, Kept, Live
<1>5. Stays(r)
  BY <1>0, <1>1, Types DEF Stays, RestTypes, Stands
<1> QED BY <1>2, <1>3, <1>4, <1>5 DEF Step

LEMMA NotifyStep ==
    ASSUME Inv, NEW r \in Runs, Notify(r)
    PROVE  Step(r) /\ Stays(r)
<1>0. /\ TypeOK /\ wpc[r] = "notify" /\ watch' = Notified(r) /\ UNCHANGED <<cpc, tries>>
      /\ UNCHANGED store /\ UNCHANGED engine /\ UNCHANGED troubles /\ UNCHANGED history
  BY DEF Inv, Notify
<1>1. WorkTypes' /\ WorkFrame(r) /\ wpc'[r] = "complete" /\ woke' = woke
  BY <1>0, GoesOn DEF Notify, Places
<1>2. RestTypes'
  BY <1>0, Types DEF RestTypes, history, Notified
<1> QED BY <1>0, <1>1, <1>2, Ends

LEMMA KicksDeliveredStep ==
    ASSUME Inv, NEW r \in Runs, KicksDelivered(r)
    PROVE  Step(r) /\ Told(r) /\ Stays(r)
<1>0. /\ TypeOK /\ Own(r) /\ wpc[r] = "kick" /\ left[r] = {} /\ UNCHANGED callers
      /\ UNCHANGED store /\ UNCHANGED engine /\ UNCHANGED troubles /\ UNCHANGED history
      /\ UNCHANGED <<callers, tries, troubles, history>>
  BY DEF Inv, KicksDelivered
<1>1. WorkTypes' /\ WorkFrame(r) /\ wpc'[r] \in {"queued", "none"} /\ woke'[r] = NoWake
  BY <1>0, Leaves DEF KicksDelivered
<1>2. RestTypes'
  BY <1>0, RestKept
<1>3. Told(r)
  BY <1>0 DEF Told, Own, Place
<1> QED BY <1>0, <1>1, <1>2, <1>3, Ends

(* Notify and Reveal close the channels of the callers that watch r. *)
LEMMA Awakened ==
    ASSUME Inv, NEW r \in Runs, Step(r), watch' = Notified(r), cpc' = cpc, invalid' = invalid,
           UNCHANGED store
    PROVE  \A c \in Callers : Waiter(c)'
<1> SUFFICES ASSUME NEW c \in Callers PROVE Waiter(c)'
  OBVIOUS
<1>1. /\ Waiter(c) /\ cpc'[c] = cpc[c] /\ up' = up /\ On[c] \in Runs /\ db' = db
      /\ watch[c] \in {"none", "open", "closed"}
      /\ watch'[c] = (IF On[c] = r /\ watch[c] = "open" THEN "closed" ELSE watch[c])
  BY CallersAssumption, Types DEF Inv, Notified, Step, Frame, EngineFrame, store, RestTypes
<1>2. CASE On[c] = r
  BY <1>1, <1>2 DEF Waiter
<1>3. CASE On[c] # r
  <2>1. wpc'[On[c]] = wpc[On[c]]
    BY <1>1, <1>3 DEF Step, Frame, WorkFrame
  <2> QED BY <1>1, <1>3, <2>1 DEF Waiter, Live
<1> QED BY <1>2, <1>3

-----------------------------------------------------------------------------
(* Steps that reach other Runs. *)

(* The searches go on as they were. *)
LEMMA SearchSame ==
    ASSUME Inv, Search, TypeOK', troubles' >= troubles,
           \A x \in Runs : /\ db'[x].park = db[x].park /\ invalid'[x] = invalid[x]
                           /\ wpc[x] \in {"parkwalk", "gatewalk"} =>
                                wpc'[x] = wpc[x] /\ seen'[x] = seen[x] /\ left'[x] = left[x]
                           /\ Registered(joins', x) => Registered(joins, x)
    PROVE  Search'
<1>0. troubles \in Nat /\ troubles' \in Nat
  BY Types, TypesNext, BoundsAssumption DEF Inv, RestTypes
<1>1. ASSUME NEW S \in SUBSET Runs, Circle(S)' PROVE Circle(S)
  BY <1>1, CircleKept
<1>2. ASSUME NEW S \in SUBSET Runs, NEW x \in S, wpc[x] \in {"parkwalk", "gatewalk"}, Finding(x, S)
      PROVE  wpc'[x] = wpc[x] /\ Finding(x, S)'
  BY <1>2 DEF Finding
<1>3. ASSUME troubles' = 0 PROVE ParkFinds'
  <2> SUFFICES ASSUME NEW S \in SUBSET Runs, Circle(S)'
               PROVE  \E x \in S : wpc'[x] = "parkwalk" /\ Finding(x, S)'
    BY DEF ParkFinds
  <2>1. PICK x \in S : wpc[x] = "parkwalk" /\ Finding(x, S)
    BY <1>0, <1>1, <1>3 DEF Search, ParkFinds
  <2> QED BY <1>2, <2>1
<1>4. ASSUME troubles' <= 1 PROVE GateFinds'
  <2> SUFFICES ASSUME NEW S \in SUBSET Runs, Circle(S)'
               PROVE  \E x \in S : ~Registered(joins', x) \/ (wpc'[x] = "gatewalk" /\ Finding(x, S)')
    BY DEF GateFinds, Registered
  <2>1. PICK x \in S : ~Registered(joins, x) \/ (wpc[x] = "gatewalk" /\ Finding(x, S))
    BY <1>0, <1>1, <1>4 DEF Search, GateFinds
  <2> QED BY <1>2, <2>1
<1> QED BY <1>3, <1>4 DEF Search

LEMMA AwaitTargetDoneStep ==
    ASSUME Inv, NEW r \in Runs, AwaitTargetDone(r)
    PROVE  /\ Inv' /\ troubles' = troubles /\ UNCHANGED <<db, invalid>> /\ wpc[r] = "complete"
           /\ WorkFrame(r) /\ \A x \in Runs : Registered(joins', x) <=> Registered(joins, x)
<1>0. /\ TypeOK /\ Own(r) /\ wpc[r] = "complete" /\ joins \in SetType
      /\ joins' = Complete(joins, r)
      /\ UNCHANGED store /\ UNCHANGED <<up, timers, invalid>>
      /\ UNCHANGED <<callers, tries, troubles, history>>
  BY Types DEF Inv, AwaitTargetDone, EngineTypes
<1>1. /\ StoreTypes' /\ StoreFrame(r) /\ db' = db /\ passed' = passed
      /\ RestTypes' /\ cpc' = cpc /\ watch' = watch /\ troubles' = troubles
      /\ must' = must /\ cut' = cut /\ refused' = refused /\ unread' = unread /\ stranded' = stranded
  BY <1>0, StoreKept, RestKept
<1>2. joins' \in SetType
  BY <1>0, Completes
<1>3. ASSUME NEW w \in Runs
      PROVE  /\ joins'[w].keys = joins[w].keys /\ joins'[w].need = joins[w].need
             /\ r \in joins[w].keys => /\ joins'[w].done = joins[w].done \cup {r}
                                       /\ joins'[w].kicked <=>
                                            (joins[w].kicked \/ w \in CompleteKicks(joins, r))
             /\ r \notin joins[w].keys => joins'[w] = joins[w]
  BY <1>0, Completes
<1>4. CompleteKicks(joins, r) \subseteq Runs
  BY DEF CompleteKicks
<1>5. /\ WorkTypes' /\ WorkFrame(r) /\ wpc'[r] \in {"queued", "none", "kick"}
      /\ woke'[r] \in {woke[r], NoWake}
      /\ CompleteKicks(joins, r) # {} => wpc'[r] = "kick" /\ left'[r] = CompleteKicks(joins, r)
  <2>1. CASE CompleteKicks(joins, r) = {}
    BY <1>0, <2>1, Leaves DEF AwaitTargetDone
  <2>2. CASE CompleteKicks(joins, r) # {}
    BY <1>0, <1>4, <2>2, GoesOn DEF AwaitTargetDone, Places
  <2> QED BY <2>1, <2>2
<1>6. TypeOK'
  BY <1>0, <1>1, <1>2, <1>5, Types, TypesNext DEF EngineTypes
<1>7. ~Live(r) /\ ~Registered(joins, r)
  BY <1>0 DEF Own, Place, Entry
<1>8. \A x \in Runs : Registered(joins', x) <=> Registered(joins, x)
  BY <1>3 DEF Registered
<1>9. ASSUME NEW x \in Runs PROVE Own(x)'
  <2>0. /\ Own(x) /\ joins[x].keys \subseteq Runs /\ joins[x].done \subseteq joins[x].keys
        /\ joins[x].need \in Nat /\ Cardinality(joins[x].done) \in Nat
        /\ (x \in passed' <=> x \in passed)
    BY <1>0, <1>1, KeysTyped DEF Inv
  <2>a. x # r => /\ wpc'[x] = wpc[x] /\ left'[x] = left[x] /\ woke'[x] = woke[x]
                 /\ (x \in repoke' <=> x \in repoke)
    BY <1>5 DEF WorkFrame
  <2>b. joins[x].done \cup {r} \subseteq Runs
    BY <2>0
  <2>c. Cardinality(joins[x].done \cup {r}) \in Nat
        /\ Cardinality(joins[x].done) <= Cardinality(joins[x].done \cup {r})
    BY <2>b, Sizes
  <2>1. Place(x)'
    BY <1>0, <1>1, <1>5, <1>7, <1>8, <2>0, <2>a DEF Own, Place, Live, Registered
  <2>2. Entry(x)'
    <3>1. Entry(x) /\ timers' = timers
      BY <1>0, <2>0 DEF Own
    <3>2. CASE r \notin joins[x].keys
      BY <1>0, <1>1, <1>3, <1>5, <1>7, <2>0, <2>a, <3>1, <3>2 DEF Entry, Live, Registered
    <3>3. CASE r \in joins[x].keys
      <4>1. x # r
        BY <1>7, <3>3 DEF Registered
      <4>2. joins'[x].kicked => Cardinality(joins'[x].done) >= joins'[x].need
        <5>1. x \in CompleteKicks(joins, r) => Cardinality(joins[x].done \cup {r}) >= joins[x].need
          BY DEF CompleteKicks
        <5>2. /\ joins'[x].done = joins[x].done \cup {r} /\ joins'[x].need = joins[x].need
              /\ joins'[x].kicked => joins[x].kicked \/ x \in CompleteKicks(joins, r)
          BY <1>3, <3>3
        <5>3. joins[x].kicked => Cardinality(joins[x].done) >= joins[x].need
          BY <3>1 DEF Entry
        <5>4. joins[x].kicked => Cardinality(joins[x].done \cup {r}) >= joins[x].need
          BY <2>0, <2>c, <5>3
        <5> QED BY <5>1, <5>2, <5>4
      <4>3. \A t \in joins'[x].done : ~Live(t)'
        BY <1>1, <1>3, <1>7, <3>1, <3>3 DEF Entry, Live
      <4> QED BY <1>0, <1>1, <1>3, <2>0, <2>a, <3>1, <4>1, <4>2, <4>3 DEF Entry, Registered
    <3> QED BY <3>2, <3>3
  <2>3. Idle(x)'
    BY <1>0, <1>1, <1>7, <1>8, <2>0, <2>a DEF Own, Idle, Live, Registered
  <2>4. Cover(x)'
    <3> SUFFICES ASSUME NEW t \in joins[x].keys
                 PROVE  \/ Live(t) \/ t \in joins'[x].done \/ wpc'[t] \in {"notify", "complete"}
                        \/ wpc'[x] = "gatewalk" \/ (wpc'[x] = "targets" /\ t \in left'[x])
      BY <1>1, <1>3 DEF Cover, Live
    <3>1. \/ Live(t) \/ t \in joins[x].done \/ wpc[t] \in {"notify", "complete"}
          \/ wpc[x] = "gatewalk" \/ (wpc[x] = "targets" /\ t \in left[x])
      BY <2>0 DEF Own, Cover
    <3>2. x # r
      BY <1>7 DEF Registered
    <3>3. CASE t = r
      BY <1>3, <3>3
    <3>4. CASE t # r
      <4>1. wpc'[t] = wpc[t] /\ joins[x].done \subseteq joins'[x].done
        BY <1>3, <1>5, <2>0, <3>4 DEF WorkFrame
      <4> QED BY <2>a, <3>1, <3>2, <4>1
    <3> QED BY <3>3, <3>4
  <2>5. Kick(x)'
    <3> SUFFICES ASSUME Registered(joins, x), wpc'[x] = "none",
                        Cardinality(joins'[x].done) >= joins[x].need
                 PROVE  \E t \in joins[x].keys : wpc'[t] = "kick" /\ x \in left'[t]
      BY <1>3, <1>8 DEF Kick, Registered
    <3>1. x # r /\ wpc[x] = "none"
      BY <1>7, <2>a
    <3>2. CASE Cardinality(joins[x].done) >= joins[x].need
      <4>1. PICK t \in joins[x].keys : wpc[t] = "kick" /\ x \in left[t]
        BY <2>0, <3>1, <3>2 DEF Own, Kick
      <4>2. t # r /\ t \in Runs
        BY <1>0, <2>0, <4>1
      <4> QED BY <1>5, <4>1, <4>2 DEF WorkFrame
    <3>3. CASE ~(Cardinality(joins[x].done) >= joins[x].need)
      <4>1. r \in joins[x].keys
        BY <1>3, <3>3
      <4>2. ~joins[x].kicked
        BY <2>0, <3>3 DEF Own, Entry
      <4>3. x \in CompleteKicks(joins, r)
        BY <1>3, <4>1, <4>2 DEF CompleteKicks
      <4> QED BY <1>5, <4>1, <4>3
    <3> QED BY <3>2, <3>3
  <2>6. Memory(x)' /\ Owed(x)'
    BY <1>1, <1>5, <2>0, <2>a DEF Own, Memory, True, Live, Owed
  <2> QED BY <2>1, <2>2, <2>3, <2>4, <2>5, <2>6 DEF Own
<1>10. \A c \in Callers : Waiter(c)'
  <2>1. Told(r)
    BY <1>0, <1>7 DEF Told, Live
  <2> QED BY <1>0, <1>1, <1>5, <2>1, WaitersKeep
<1>11. CascadeExact'
  <2>1. CascadeExact /\ \A x \in Runs : wpc[x] = "cascade" => wpc'[x] = "cascade" /\ left'[x] = left[x]
    BY <1>0, <1>5 DEF Inv, WorkFrame
  <2> QED BY <1>1, <2>1 DEF CascadeExact, Live
<1> QED BY <1>0, <1>1, <1>5, <1>6, <1>8, <1>9, <1>10, <1>11 DEF Inv

(* A worker reaches t: it cancels it or kicks it, and may poke it. *)
Reaches(r, t) ==
    /\ left'[r] = left[r] \ {t} /\ \A x \in Runs \ {r} : left'[x] = left[x]
    /\ \A x \in Runs :
         /\ wpc'[x] = wpc[x] \/ (x = t /\ wpc[x] = "none" /\ wpc'[x] = "queued")
         /\ x \in repoke => x \in repoke'
         /\ db'[x].life = db[x].life /\ db'[x].phase = db[x].phase
         /\ db'[x].park = db[x].park /\ db'[x].memory = db[x].memory
         /\ db'[x].cancel => \/ db[x].cancel
                             \/ x = t /\ (wpc'[x] = "queued" \/ (wpc'[x] # "none" /\ x \in repoke'))
    /\ wpc[r] = "kick" => wpc'[t] # "none"
    /\ UNCHANGED <<passed, up, joins, timers, invalid, seen, woke, unread, must, stranded>>

LEMMA Reached ==
    ASSUME Inv, NEW r \in Runs, NEW t \in Runs, wpc[r] \in {"kick", "cascade"}, Reaches(r, t)
    PROVE  \A x \in Runs : Own(x)'
<1> SUFFICES ASSUME NEW x \in Runs PROVE Own(x)'
  OBVIOUS
<1>0. /\ TypeOK /\ Own(x) /\ up /\ (\A y \in Runs : Live(y)' <=> Live(y))
      /\ passed' = passed /\ up' = up /\ joins' = joins /\ timers' = timers /\ invalid' = invalid
      /\ woke' = woke /\ unread' = unread /\ must' = must /\ stranded' = stranded
  BY DEF Inv, Own, Place, Reaches, Live
<1>1. /\ wpc'[x] = wpc[x] \/ (x = t /\ wpc[x] = "none" /\ wpc'[x] = "queued")
      /\ x \in repoke => x \in repoke'
      /\ db'[x].life = db[x].life /\ db'[x].phase = db[x].phase
      /\ db'[x].park = db[x].park /\ db'[x].memory = db[x].memory
      /\ db'[x].cancel => \/ db[x].cancel
                          \/ wpc'[x] = "queued" \/ (wpc'[x] # "none" /\ x \in repoke')
      /\ x # r => left'[x] = left[x]
      /\ left'[x] \subseteq left[x]
  BY DEF Reaches
<1>2. Place(x)' /\ Idle(x)'
  BY <1>0, <1>1 DEF Own, Place, Idle, Live, Registered
<1>3. Entry(x)' /\ Memory(x)'
  BY <1>0, <1>1, KeysTyped DEF Own, Entry, Memory, True, Registered
<1>4. Cover(x)'
  <2> SUFFICES ASSUME NEW k \in joins[x].keys
               PROVE  \/ Live(k) \/ k \in joins[x].done \/ wpc'[k] \in {"notify", "complete"}
                      \/ wpc'[x] = "gatewalk" \/ (wpc'[x] = "targets" /\ k \in left'[x])
    BY <1>0, KeysTyped DEF Cover
  <2>1. \/ Live(k) \/ k \in joins[x].done \/ wpc[k] \in {"notify", "complete"}
        \/ wpc[x] = "gatewalk" \/ (wpc[x] = "targets" /\ k \in left[x])
    BY <1>0 DEF Own, Cover
  <2>2. k \in Runs
    BY <1>0, KeysTyped
  <2>3. wpc[k] \in {"notify", "complete"} => wpc'[k] = wpc[k]
    BY <2>2 DEF Reaches
  <2> QED BY <1>1, <2>1, <2>3
<1>5. Kick(x)'
  <2> SUFFICES ASSUME Registered(joins, x), wpc'[x] = "none",
                      Cardinality(joins[x].done) >= joins[x].need
               PROVE  \E k \in joins[x].keys : wpc'[k] = "kick" /\ x \in left'[k]
    BY <1>0 DEF Kick, Registered
  <2>1. PICK k \in joins[x].keys : wpc[k] = "kick" /\ x \in left[k]
    BY <1>0, <1>1 DEF Own, Kick
  <2>2. k \in Runs
    BY <1>0, KeysTyped
  <2>3. wpc'[k] = "kick"
    BY <2>1, <2>2 DEF Reaches
  <2>4. x \in left'[k]
    BY <2>1, <2>2 DEF Reaches
  <2> QED BY <2>3, <2>4
<1>6. Owed(x)'
  BY <1>0, <1>1 DEF Own, Owed
<1> QED BY <1>2, <1>3, <1>4, <1>5, <1>6 DEF Own

LEMMA DeliverKickStep ==
    ASSUME Inv, NEW r \in Runs, DeliverKick(r)
    PROVE  Inv' /\ (Search => Search')
<1>0. /\ TypeOK /\ wpc[r] = "kick" /\ UNCHANGED store /\ UNCHANGED engine
      /\ UNCHANGED <<seen, woke>> /\ UNCHANGED <<callers, tries, troubles, history>>
  BY DEF Inv, DeliverKick
<1>1. PICK t \in left[r] : /\ wpc' = Poked({t}, wpc) /\ repoke' = Repoked({t})
                           /\ left' = [left EXCEPT ![r] = @ \ {t}]
  BY DEF DeliverKick
<1>2. t \in Runs
  BY <1>0, Types DEF WorkTypes
<1>3. /\ StoreTypes' /\ db' = db /\ passed' = passed
      /\ EngineTypes' /\ up' = up /\ joins' = joins /\ timers' = timers /\ invalid' = invalid
      /\ RestTypes' /\ cpc' = cpc /\ watch' = watch /\ troubles' = troubles
      /\ must' = must /\ cut' = cut /\ refused' = refused /\ unread' = unread /\ stranded' = stranded
  BY <1>0, StoreKept, EngineKept, RestKept
<1>4. /\ WorkTypes' /\ \A x \in Runs : wpc'[x] = IF x = t /\ wpc[x] = "none" THEN "queued" ELSE wpc[x]
  BY <1>0, <1>1, <1>2, Types DEF WorkTypes, Poked, Repoked, Places
<1>5. left'[r] = left[r] \ {t} /\ \A x \in Runs \ {r} : left'[x] = left[x]
  BY <1>0, <1>1, Types DEF WorkTypes
<1>6. Reaches(r, t)
  BY <1>0, <1>1, <1>2, <1>3, <1>4, <1>5 DEF Reaches, Repoked
<1>7. TypeOK'
  BY <1>3, <1>4, TypesNext
<1>8. \A c \in Callers : Waiter(c)'
  BY <1>3, <1>4, CallersAssumption DEF Inv, Waiter, Live
<1>9. CascadeExact'
  <2>1. CascadeExact /\ \A x \in Runs : wpc[x] = "cascade" => wpc'[x] = "cascade" /\ left'[x] = left[x]
    BY <1>0, <1>4, <1>5 DEF Inv
  <2> QED BY <1>3, <2>1 DEF CascadeExact, Live
<1>10. Inv'
  BY <1>0, <1>2, <1>6, <1>7, <1>8, <1>9, Reached DEF Inv
<1>11. Search => Search'
  BY <1>0, <1>3, <1>4, <1>5, <1>7, SearchSame, Types DEF RestTypes
<1> QED BY <1>10, <1>11

LEMMA CascadeNextStep ==
    ASSUME Inv, NEW r \in Runs, CascadeNext(r)
    PROVE  Inv' /\ (Search => Search')
<1>0. /\ TypeOK /\ Own(r) /\ wpc[r] = "cascade" /\ passed' = passed /\ UNCHANGED engine
      /\ UNCHANGED <<seen, woke>> /\ UNCHANGED <<callers, tries, troubles, history>>
      /\ db \in Records
  BY Types DEF Inv, CascadeNext, StoreTypes
<1>1. PICK t \in left[r] :
        /\ IF Accepts(t)
             THEN /\ db' = [db EXCEPT ![t].cancel = TRUE]
                  /\ wpc' = Poked({t}, wpc) /\ repoke' = Repoked({t})
             ELSE UNCHANGED <<db, wpc, repoke>>
        /\ left' = [left EXCEPT ![r] = @ \ {t}]
  BY DEF CascadeNext
<1>2. t \in Runs /\ t \in must /\ must \subseteq Runs
  BY <1>0, Types DEF WorkTypes, Own, Owed, RestTypes
<1>3. /\ EngineTypes' /\ up' = up /\ joins' = joins /\ timers' = timers /\ invalid' = invalid
      /\ RestTypes' /\ cpc' = cpc /\ watch' = watch /\ troubles' = troubles
      /\ must' = must /\ cut' = cut /\ refused' = refused /\ unread' = unread /\ stranded' = stranded
  BY <1>0, EngineKept, RestKept
<1>4. left'[r] = left[r] \ {t} /\ \A x \in Runs \ {r} : left'[x] = left[x]
  BY <1>0, <1>1, Types DEF WorkTypes
<1>5. /\ WorkTypes'
      /\ \A x \in Runs : /\ wpc'[x] = wpc[x] \/ (x = t /\ wpc[x] = "none" /\ wpc'[x] = "queued")
                         /\ x \in repoke => x \in repoke'
      /\ Accepts(t) => wpc'[t] = "queued" \/ (wpc'[t] # "none" /\ t \in repoke')
  <2>1. CASE Accepts(t)
    BY <1>0, <1>1, <1>2, <2>1, Types DEF WorkTypes, Poked, Repoked, Places
  <2>2. CASE ~Accepts(t)
    BY <1>0, <1>1, <1>2, <2>2, Types DEF WorkTypes
  <2> QED BY <2>1, <2>2
<1>6. /\ db' \in Records /\ \A x \in Runs \ {t} : db'[x] = db[x]
      /\ db'[t].life = db[t].life /\ db'[t].phase = db[t].phase
      /\ db'[t].park = db[t].park /\ db'[t].memory = db[t].memory
      /\ Accepts(t) => db'[t].cancel
      /\ ~Accepts(t) => db'[t].cancel = db[t].cancel
  <2>1. CASE Accepts(t)
    <3>1. db' = PutCancel(db, t)
      BY <1>1, <2>1 DEF PutCancel
    <3> QED BY <1>0, <1>2, <2>1, <3>1, SetCancel
  <2>2. CASE ~Accepts(t)
    BY <1>0, <1>1, <2>2
  <2> QED BY <2>1, <2>2
<1>7. Reaches(r, t)
  BY <1>0, <1>2, <1>3, <1>4, <1>5, <1>6 DEF Reaches
<1>8. TypeOK'
  BY <1>0, <1>3, <1>5, <1>6, Types, TypesNext DEF StoreTypes
<1>a. \A x \in Runs : Live(x)' <=> Live(x)
  BY <1>6 DEF Live
<1>9. \A c \in Callers : Waiter(c)'
  <2> SUFFICES ASSUME NEW c \in Callers PROVE Waiter(c)'
    OBVIOUS
  <2>1. Waiter(c) /\ On[c] \in Runs
    BY CallersAssumption DEF Inv
  <2>2. (Live(On[c])' <=> Live(On[c])) /\ (wpc[On[c]] \in {"notify", "reveal"} => wpc'[On[c]] = wpc[On[c]])
    BY <1>5, <1>a, <2>1
  <2> QED BY <1>3, <2>1, <2>2 DEF Waiter
<1>10. CascadeExact'
  <2>0. CascadeExact
    BY DEF Inv
  <2>1. ASSUME NEW k \in must'
        PROVE  \/ ~Live(k)' \/ db'[k].cancel \/ k \in cut' \cup refused'
               \/ \E x \in Runs : wpc'[x] = "cascade" /\ k \in left'[x]
    <3>1. k \in must /\ k \in Runs
      BY <1>2, <1>3, <2>1
    <3>2. CASE k = t
      BY <1>2, <1>6, <1>a, <3>2 DEF Accepts
    <3>3. CASE k # t
      <4>1. \A x \in Runs : wpc[x] = "cascade" /\ k \in left[x] => wpc'[x] = "cascade" /\ k \in left'[x]
        BY <1>4, <1>5, <3>3
      <4>2. db'[k] = db[k] /\ (Live(k)' <=> Live(k))
        BY <1>6, <1>a, <3>1, <3>3
      <4>3. \/ ~Live(k) \/ db[k].cancel \/ k \in cut \cup refused
            \/ \E x \in Runs : wpc[x] = "cascade" /\ k \in left[x]
        BY <2>0, <3>1 DEF CascadeExact
      <4> QED BY <1>3, <4>1, <4>2, <4>3
    <3> QED BY <3>2, <3>3
  <2>2. ASSUME NEW k \in Runs, db'[k].cancel PROVE k \in Cancelable \cup must'
    BY <1>2, <1>3, <1>6, <2>0, <2>2 DEF CascadeExact
  <2> QED BY <2>1, <2>2 DEF CascadeExact
<1>11. Inv'
  BY <1>0, <1>2, <1>7, <1>8, <1>9, <1>10, Reached DEF Inv
<1>12. Search => Search'
  <2>1. ASSUME NEW x \in Runs
        PROVE  /\ db'[x].park = db[x].park /\ invalid'[x] = invalid[x]
               /\ wpc[x] \in {"parkwalk", "gatewalk"} =>
                    wpc'[x] = wpc[x] /\ seen'[x] = seen[x] /\ left'[x] = left[x]
               /\ Registered(joins', x) => Registered(joins, x)
    BY <1>0, <1>3, <1>4, <1>5, <1>6
  <2>2. troubles' >= troubles
    BY <1>0, <1>3, Types DEF RestTypes
  <2> QED BY <1>8, <2>1, <2>2, SearchSame
<1> QED BY <1>11, <1>12

-----------------------------------------------------------------------------
(* The process ends and starts again, and the callers of Wait. *)

LEMMA DownStep ==
    ASSUME Inv, Down
    PROVE  Inv' /\ Search'
<1>0. /\ TypeOK /\ up /\ up' = FALSE /\ Trouble
      /\ joins' = NewSet /\ timers' = [r \in Runs |-> "off"] /\ invalid' = [r \in Runs |-> {}]
      /\ wpc' = [r \in Runs |-> "none"] /\ repoke' = {}
      /\ left' = [r \in Runs |-> {}] /\ seen' = [r \in Runs |-> {}]
      /\ woke' = [r \in Runs |-> NoWake]
      /\ UNCHANGED store /\ UNCHANGED <<tries, must, refused, unread, stranded>>
  BY DEF Inv, Down
<1>a. /\ cpc' = [c \in Callers |-> IF cpc[c] = "idle" THEN "idle" ELSE "returned"]
      /\ watch' = [c \in Callers |-> "none"]
      /\ cut' = cut \cup UNION {left[r] : r \in {x \in Runs : wpc[x] = "cascade"}}
  BY DEF Down
<1>1. Unregistered \in Registration /\ Unregistered.keys = {} /\ Unregistered.done = {}
      /\ ~Unregistered.kicked
  BY FS_EmptySet DEF Unregistered, Registration
<1>2. joins' \in SetType /\ \A x \in Runs : joins'[x] = Unregistered
  BY <1>0, <1>1 DEF NewSet, SetType
<1>3. \A x \in Runs : ~Registered(joins', x)
  BY <1>1, <1>2 DEF Registered
<1>4. db' = db /\ passed' = passed /\ troubles' = troubles + 1 /\ must' = must
      /\ refused' = refused /\ unread' = unread /\ stranded' = stranded
  BY <1>0 DEF store, Trouble
<1>5. WorkTypes' /\ EngineTypes' /\ StoreTypes'
  BY <1>0, <1>2, <1>4, Types, Nothing DEF WorkTypes, EngineTypes, StoreTypes, Places
<1>6. cut' \subseteq Runs /\ cut \subseteq cut'
  BY <1>0, <1>a, Types DEF WorkTypes, RestTypes
<1>7. RestTypes'
  <2>1. cpc' \in [Callers -> {"idle", "read", "wait", "returned"}]
        /\ watch' \in [Callers -> {"none", "open", "closed"}]
    BY <1>a
  <2>2. troubles' \in 0..MaxTroubles
    BY <1>0, Types, BoundsAssumption DEF Trouble, RestTypes
  <2> QED BY <1>0, <1>6, <2>1, <2>2, Types DEF RestTypes
<1>8. TypeOK'
  BY <1>5, <1>7, TypesNext
<1>9. ASSUME NEW x \in Runs PROVE Own(x)'
  <2>1. Own(x) /\ wpc'[x] = "none" /\ timers'[x] = "off" /\ woke'[x] = NoWake
    BY <1>0 DEF Inv
  <2>2. joins'[x].keys = {} /\ joins'[x].done = {} /\ ~joins'[x].kicked
    BY <1>1, <1>2
  <2> QED BY <1>0, <1>4, <2>1, <2>2
      DEF Own, Place, Entry, Idle, Cover, Kick, Memory, Owed, Live, Registered, True
<1>10. \A c \in Callers : Waiter(c)'
  BY <1>0, <1>a DEF Waiter
<1>11. CascadeExact'
  <2>1. CascadeExact
    BY DEF Inv
  <2>2. ASSUME NEW t, NEW x \in Runs, wpc[x] = "cascade", t \in left[x] PROVE t \in cut'
    BY <1>a, <2>2
  <2> QED BY <1>4, <1>6, <2>1, <2>2 DEF CascadeExact, Live
<1>12. Search'
  <2>1. troubles \in Nat /\ troubles' # 0
    BY <1>0, <1>4, Types, BoundsAssumption DEF RestTypes
  <2>2. GateFinds'
    BY <1>3 DEF GateFinds, Circle, Standing, Registered
  <2> QED BY <2>1, <2>2 DEF Search
<1> QED BY <1>8, <1>9, <1>10, <1>11, <1>12 DEF Inv

LEMMA RestartStep ==
    ASSUME Inv, Restart
    PROVE  Inv' /\ (Search => Search')
<1>0. /\ TypeOK /\ ~up /\ up' = TRUE /\ wpc' = Poked({r \in Runs : Live(r)}, wpc)
      /\ UNCHANGED store /\ UNCHANGED <<joins, timers, invalid, repoke, left, seen, woke>>
      /\ UNCHANGED <<callers, tries, troubles, history>>
  BY DEF Inv, Restart
<1>1. /\ StoreTypes' /\ db' = db /\ passed' = passed
      /\ RestTypes' /\ cpc' = cpc /\ watch' = watch /\ troubles' = troubles
      /\ must' = must /\ cut' = cut /\ refused' = refused /\ unread' = unread /\ stranded' = stranded
  BY <1>0, Types, RestKept DEF store, StoreTypes
<1>2. \A x \in Runs : wpc[x] = "none" /\ ~Registered(joins, x)
  BY <1>0 DEF Inv, Own, Place
<1>3. \A x \in Runs : wpc'[x] = IF Live(x) THEN "queued" ELSE "none"
  BY <1>0, <1>2 DEF Poked
<1>4. WorkTypes' /\ EngineTypes'
  BY <1>0, Types DEF WorkTypes, EngineTypes, Poked, Places
<1>5. TypeOK'
  BY <1>1, <1>4, TypesNext
<1>6. ASSUME NEW x \in Runs PROVE Own(x)'
  <2>1. Own(x) /\ joins[x].keys = {} /\ wpc'[x] = (IF Live(x) THEN "queued" ELSE "none")
        /\ wpc[x] = "none"
    BY <1>2, <1>3 DEF Inv, Registered
  <2> QED BY <1>0, <1>1, <2>1
      DEF Own, Place, Entry, Idle, Cover, Kick, Memory, Owed, Live, Registered, True
<1>7. \A c \in Callers : Waiter(c)'
  BY <1>0, <1>1 DEF Inv, Waiter
<1>8. CascadeExact'
  <2>1. CascadeExact
    BY DEF Inv
  <2> QED BY <1>1, <1>2, <2>1 DEF CascadeExact, Live
<1>9. Search => Search'
  BY <1>0, <1>1, <1>2, <1>5, Types, SearchSame DEF RestTypes
<1> QED BY <1>5, <1>6, <1>7, <1>8, <1>9 DEF Inv

(* A step of a caller. *)
LEMMA CallerStep ==
    ASSUME Inv, NEW c \in Callers, CallWait(c) \/ Wait(c) \/ WaitGivesUp(c)
    PROVE  Inv' /\ (Search => Search')
<1>0. /\ TypeOK /\ UNCHANGED store /\ UNCHANGED engine /\ UNCHANGED worker
      /\ UNCHANGED <<tries, troubles>> /\ UNCHANGED history
  BY DEF Inv, CallWait, Wait, WaitReads, WaitWoken, WaitGivesUp
<1>1. /\ db' = db /\ passed' = passed /\ up' = up /\ joins' = joins /\ timers' = timers
      /\ invalid' = invalid /\ wpc' = wpc /\ repoke' = repoke /\ left' = left /\ seen' = seen
      /\ woke' = woke /\ tries' = tries /\ troubles' = troubles
      /\ must' = must /\ cut' = cut /\ refused' = refused /\ unread' = unread /\ stranded' = stranded
  BY <1>0 DEF store, engine, worker, history
<1>2. /\ cpc' \in [Callers -> {"idle", "read", "wait", "returned"}]
      /\ watch' \in [Callers -> {"none", "open", "closed"}]
      /\ \A d \in Callers \ {c} : cpc'[d] = cpc[d] /\ watch'[d] = watch[d]
  BY <1>0, Types DEF RestTypes, CallWait, Wait, WaitReads, WaitWoken, WaitGivesUp, Return
<1>3. TypeOK'
  BY <1>0, <1>1, <1>2, Types, TypesNext DEF WorkTypes, EngineTypes, StoreTypes, RestTypes
<1>4. ASSUME NEW x \in Runs PROVE Own(x)'
  <2>1. Own(x)
    BY DEF Inv
  <2> QED BY <1>1, <2>1
      DEF Own, Place, Entry, Idle, Cover, Kick, Memory, Owed, Live, Registered, True
<1>5. Waiter(c)'
  <2>0. Waiter(c) /\ cpc \in [Callers -> {"idle", "read", "wait", "returned"}]
        /\ watch \in [Callers -> {"none", "open", "closed"}]
    BY <1>0, Types DEF Inv, RestTypes
  <2>1. CASE CallWait(c)
    BY <1>1, <2>0, <2>1 DEF Waiter, CallWait, Live
  <2>2. CASE WaitReads(c)
    BY <1>1, <2>0, <2>2 DEF Waiter, WaitReads, Return, Live
  <2>3. CASE WaitWoken(c)
    BY <1>1, <2>0, <2>3 DEF Waiter, WaitWoken, Live
  <2>4. CASE WaitGivesUp(c)
    BY <1>1, <2>0, <2>4 DEF Waiter, WaitGivesUp, Return, Live
  <2> QED BY <2>1, <2>2, <2>3, <2>4 DEF Wait
<1>6. \A d \in Callers : Waiter(d)'
  <2> SUFFICES ASSUME NEW d \in Callers \ {c} PROVE Waiter(d)'
    BY <1>5
  <2>1. Waiter(d) /\ cpc'[d] = cpc[d] /\ watch'[d] = watch[d]
    BY <1>2 DEF Inv
  <2> QED BY <1>1, <2>1 DEF Waiter, Live
<1>7. CascadeExact'
  BY <1>1 DEF Inv, CascadeExact, Live
<1>8. Search => Search'
  BY <1>0, <1>1, <1>3, Types, SearchSame DEF RestTypes
<1> QED BY <1>3, <1>4, <1>6, <1>7, <1>8 DEF Inv

LEMMA Stutters ==
    ASSUME Inv, UNCHANGED vars
    PROVE  Inv' /\ (Search => Search')
<1>1. /\ db' = db /\ passed' = passed /\ up' = up /\ joins' = joins /\ timers' = timers
      /\ invalid' = invalid /\ wpc' = wpc /\ repoke' = repoke /\ left' = left /\ seen' = seen
      /\ woke' = woke /\ cpc' = cpc /\ watch' = watch /\ tries' = tries /\ troubles' = troubles
      /\ must' = must /\ cut' = cut /\ refused' = refused /\ unread' = unread /\ stranded' = stranded
  BY DEF vars, store, engine, worker, callers, history
<1>2. TypeOK /\ TypeOK'
  BY <1>1, Types, TypesNext DEF Inv, WorkTypes, EngineTypes, StoreTypes, RestTypes
<1>3. ASSUME NEW x \in Runs, Own(x) PROVE Own(x)'
  BY <1>1, <1>3 DEF Own, Place, Entry, Idle, Cover, Kick, Memory, Owed, Live, Registered, True
<1>4. ASSUME NEW c \in Callers, Waiter(c) PROVE Waiter(c)'
  BY <1>1, <1>4 DEF Waiter, Live
<1>5. CascadeExact => CascadeExact'
  BY <1>1 DEF CascadeExact, Live
<1>6. Search => Search'
  BY <1>1, <1>2, Types, SearchSame DEF RestTypes
<1> QED BY <1>2, <1>3, <1>4, <1>5, <1>6 DEF Inv

-----------------------------------------------------------------------------
(* The searches.                                                            *)

(* A search that cannot miss the circle S has not seen all of it: the       *)
(* members it visited would be a smaller circle.                            *)
LEMMA MoreToSearch ==
    ASSUME NEW r \in Runs, NEW S \in SUBSET Runs, Circle(S), r \in S, NEW V, r \notin V,
           db[r].park.targets \subseteq V,
           \A v \in S \cap V : db[v].park.targets \subseteq V
    PROVE  FALSE
<1> DEFINE T == S \cap V
<1>1. Standing(S) /\ T \subseteq S /\ T # S
  BY DEF Circle
<1>2. ASSUME NEW v \in S, db[v].park.targets \subseteq V PROVE db[v].park.targets \cap T # {}
  BY <1>1, <1>2 DEF Standing
<1>3. T # {}
  BY <1>2
<1>4. \A v \in T : Stands(v) /\ db[v].park.targets \cap T # {}
  BY <1>1, <1>2 DEF Standing
<1>5. Standing(T)
  BY <1>1, <1>3, <1>4 DEF Standing
<1> QED BY <1>1, <1>5 DEF Circle

(* And so it goes on, and still cannot miss it. *)
LEMMA WalkGoesOn ==
    ASSUME Inv, Cardinality(Runs) <= MaxVisited, NEW r \in Runs, WalkStep(r),
           NEW S \in SUBSET Runs, Circle(S), r \in S, Finding(r, S)
    PROVE  wpc'[r] = wpc[r] /\ Finding(r, S)'
<1>0. /\ TypeOK /\ r \notin left[r] /\ db' = db /\ left[r] \subseteq Runs /\ seen[r] \subseteq Runs
  BY Types DEF Inv, WalkStep, store, WorkTypes
<1>1. PICK t \in left[r] :
         LET visited == seen[r] \cup {t}
             further == IF Parked(t) THEN db[t].park.targets ELSE {}
             todo == (left[r] \cup further) \ visited
         IN  IF todo = {} \/ Cardinality(visited) >= MaxVisited THEN WalkEnds(r)
             ELSE /\ seen' = [seen EXCEPT ![r] = visited]
                  /\ left' = [left EXCEPT ![r] = todo]
                  /\ UNCHANGED <<wpc, repoke>>
  BY DEF WalkStep
<1> DEFINE visited == seen[r] \cup {t}
           further == IF Parked(t) THEN db[t].park.targets ELSE {}
           todo == (left[r] \cup further) \ visited
<1>2. /\ r \notin visited /\ visited \subseteq Runs /\ t \in Runs
      /\ seen[r] \cup left[r] \subseteq visited \cup todo
  BY <1>0, <1>1 DEF Finding
<1>3. t \in S => db[t].park.targets \subseteq visited \cup todo
  <2>1. t \in S => db[t].park # NoPark
    BY DEF Circle, Standing, Stands
  <2>2. db[t].park # NoPark => Parked(t)
    BY <1>2 DEF Inv, Own, Place, Parked
  <2> QED BY <2>1, <2>2
<1>4. /\ db[r].park.targets \subseteq visited \cup todo
      /\ \A v \in S \cap visited : db[v].park.targets \subseteq visited \cup todo
  BY <1>2, <1>3 DEF Finding
<1>5. todo # {}
  <2> HIDE DEF visited, todo
  <2> SUFFICES ASSUME todo = {} PROVE FALSE
    OBVIOUS
  <2> QED BY <1>2, <1>4, MoreToSearch
<1>6. Cardinality(visited) < MaxVisited
  <2> HIDE DEF visited
  <2>1. IsFiniteSet(Runs \ {r}) /\ Cardinality(Runs \ {r}) = Cardinality(Runs) - 1
    BY RunsAssumption, FS_RemoveElement
  <2>2. visited \subseteq Runs \ {r}
    BY <1>2
  <2>3. Cardinality(visited) \in Nat /\ Cardinality(visited) <= Cardinality(Runs \ {r})
        /\ Cardinality(Runs) \in Nat
    BY <1>2, <2>1, <2>2, Sizes
  <2> QED BY <2>1, <2>3, BoundsAssumption
<1>7. visited \subseteq Runs => Cardinality(visited) \in Nat
  BY Sizes
<1>8. /\ seen' = [seen EXCEPT ![r] = visited] /\ left' = [left EXCEPT ![r] = todo]
      /\ UNCHANGED <<wpc, repoke>>
  <2>1. ~(todo = {} \/ Cardinality(visited) >= MaxVisited)
    <3> HIDE DEF visited, todo
    <3> QED BY <1>2, <1>5, <1>6, <1>7, BoundsAssumption
  <2> QED BY <1>1, <2>1
<1>9. seen'[r] = visited /\ left'[r] = todo /\ wpc' = wpc
  <2> HIDE DEF visited, todo
  <2> QED BY <1>0, <1>8, Types DEF WorkTypes
<1> HIDE DEF visited, todo
<1> QED BY <1>0, <1>2, <1>4, <1>9 DEF Finding

LEMMA WalkStepSearch ==
    ASSUME Inv, Cardinality(Runs) <= MaxVisited, Search, NEW r \in Runs, WalkStep(r)
    PROVE  Search'
<1>0. /\ db' = db /\ invalid' = invalid /\ joins' = joins /\ troubles' = troubles
  BY DEF WalkStep, store, engine
<1>1. \A x \in Runs \ {r} : wpc'[x] = wpc[x] /\ left'[x] = left[x] /\ seen'[x] = seen[x]
  BY WalkStepStep DEF Step, Frame, WorkFrame
<1>2. ASSUME NEW S \in SUBSET Runs, Circle(S)' PROVE Circle(S)
  BY <1>0, <1>2, CircleKept
<1>3. ASSUME NEW S \in SUBSET Runs, Circle(S), NEW x \in S, Finding(x, S)
      PROVE  wpc'[x] = wpc[x] /\ Finding(x, S)'
  <2>1. CASE x = r
    BY <1>3, <2>1, WalkGoesOn
  <2>2. CASE x # r
    BY <1>0, <1>1, <1>3, <2>2 DEF Finding
  <2> QED BY <2>1, <2>2
<1>4. ASSUME ParkFinds PROVE ParkFinds'
  <2> SUFFICES ASSUME NEW S \in SUBSET Runs, Circle(S)'
               PROVE  \E x \in S : wpc'[x] = "parkwalk" /\ Finding(x, S)'
    BY DEF ParkFinds
  <2>1. PICK x \in S : wpc[x] = "parkwalk" /\ Finding(x, S)
    BY <1>2, <1>4 DEF ParkFinds
  <2> QED BY <1>2, <1>3, <2>1
<1>5. ASSUME GateFinds PROVE GateFinds'
  <2> SUFFICES ASSUME NEW S \in SUBSET Runs, Circle(S)'
               PROVE  \E x \in S : ~Registered(joins', x) \/ (wpc'[x] = "gatewalk" /\ Finding(x, S)')
    BY DEF GateFinds, Registered
  <2>1. PICK x \in S : ~Registered(joins, x) \/ (wpc[x] = "gatewalk" /\ Finding(x, S))
    BY <1>2, <1>5 DEF GateFinds
  <2> QED BY <1>0, <1>2, <1>3, <2>1
<1> QED BY <1>0, <1>4, <1>5 DEF Search

(* One search that fails leaves the gate's: who parks is not registered.    *)
LEMMA WalkFailsSearch ==
    ASSUME Inv, Search, NEW r \in Runs, WalkFails(r)
    PROVE  Search'
<1>0. db' = db /\ invalid' = invalid /\ joins' = joins /\ troubles' = troubles + 1
  BY WalkFailsStep
<1>1. troubles \in Nat
  BY Types, BoundsAssumption DEF Inv, RestTypes
<1>2. ASSUME troubles' <= 1 PROVE GateFinds'
  <2> SUFFICES ASSUME NEW S \in SUBSET Runs, Circle(S)'
               PROVE  \E x \in S : ~Registered(joins', x)
    BY DEF GateFinds, Registered
  <2>1. Circle(S)
    BY <1>0, CircleKept
  <2>2. PICK x \in S : wpc[x] = "parkwalk"
    BY <1>0, <1>1, <1>2, <2>1 DEF Search, ParkFinds
  <2>3. ~Registered(joins, x)
    BY <2>2 DEF Inv, Own, Entry
  <2> QED BY <1>0, <2>3
<1> QED BY <1>0, <1>1, <1>2 DEF Search

-----------------------------------------------------------------------------
(* Every step. *)

LEMMA InitHolds == Init => Inv /\ Search
<1> SUFFICES ASSUME Init PROVE Inv /\ Search
  OBVIOUS
<1>1. /\ up = TRUE /\ joins = NewSet /\ passed = {} /\ repoke = {} /\ troubles = 0
      /\ must = {} /\ cut = {} /\ refused = {} /\ unread = {} /\ stranded = {}
      /\ timers = [r \in Runs |-> "off"] /\ invalid = [r \in Runs |-> {}]
      /\ wpc = [r \in Runs |-> "queued"] /\ left = [r \in Runs |-> {}]
      /\ seen = [r \in Runs |-> {}] /\ woke = [r \in Runs |-> NoWake]
      /\ cpc = [c \in Callers |-> "idle"] /\ watch = [c \in Callers |-> "none"]
      /\ tries = [r \in Runs |-> 0]
  BY DEF Init
<1>2. \A r \in Runs : /\ db[r].life = "live" /\ ~db[r].cancel /\ db[r].park = NoPark
                      /\ db[r].memory = NoWake
  BY DEF Init
<1>3. db \in Records
  BY CallersAssumption, Nothing DEF Init, Records, RecordType
<1>4. Unregistered \in Registration /\ Unregistered.keys = {} /\ Unregistered.done = {}
      /\ ~Unregistered.kicked
  BY FS_EmptySet DEF Unregistered, Registration
<1>5. joins \in SetType /\ \A x \in Runs : joins[x] = Unregistered
  BY <1>1, <1>4 DEF NewSet, SetType
<1>6. TypeOK
  <2>1. WorkTypes /\ EngineTypes /\ StoreTypes
    BY <1>1, <1>3, <1>5, Nothing DEF WorkTypes, EngineTypes, StoreTypes, Places
  <2>2. RestTypes
    BY <1>1, BoundsAssumption DEF RestTypes
  <2> QED BY <2>1, <2>2, Types
<1>7. ASSUME NEW x \in Runs PROVE Own(x)
  <2>1. joins[x].keys = {} /\ joins[x].done = {} /\ ~joins[x].kicked
    BY <1>4, <1>5
  <2>2. wpc[x] = "queued" /\ timers[x] = "off" /\ woke[x] = NoWake
    BY <1>1
  <2> QED BY <1>1, <1>2, <2>1, <2>2
      DEF Own, Place, Entry, Idle, Cover, Kick, Memory, Owed, Live, Registered
<1>8. \A c \in Callers : Waiter(c)
  BY <1>1 DEF Waiter
<1>9. CascadeExact
  BY <1>1, <1>2 DEF CascadeExact
<1>10. Search
  BY <1>2 DEF Search, ParkFinds, GateFinds, Circle, Standing, Stands
<1> QED BY <1>6, <1>7, <1>8, <1>9, <1>10 DEF Inv

(* A step of one Run that keeps its place. *)
LEMMA OwnStep ==
    ASSUME Inv, NEW r \in Runs, Step(r), Told(r), Stays(r)
    PROVE  Inv' /\ (Search => Search')
BY StepKeepsInv, StepKeepsSearch

LEMMA AwaitTargetDoneKeeps ==
    ASSUME Inv, NEW r \in Runs, AwaitTargetDone(r)
    PROVE  Inv' /\ (Search => Search')
<1>1. /\ Inv' /\ troubles' = troubles /\ UNCHANGED <<db, invalid>> /\ wpc[r] = "complete"
      /\ WorkFrame(r) /\ \A x \in Runs : Registered(joins', x) <=> Registered(joins, x)
  BY AwaitTargetDoneStep
<1>2. TypeOK' /\ troubles' >= troubles
  BY <1>1, Types DEF Inv, RestTypes
<1>3. \A x \in Runs : wpc[x] \in {"parkwalk", "gatewalk"} =>
        wpc'[x] = wpc[x] /\ seen'[x] = seen[x] /\ left'[x] = left[x]
  BY <1>1 DEF WorkFrame
<1> QED BY <1>1, <1>2, <1>3, SearchSame

(* Reveal and Notify tell the callers. *)
LEMMA TellingStep ==
    ASSUME Inv, NEW r \in Runs, Reveal(r) \/ Notify(r)
    PROVE  Inv' /\ (Search => Search')
<1>1. Step(r) /\ Stays(r)
  BY RevealStep, NotifyStep
<1>2. watch' = Notified(r) /\ cpc' = cpc /\ invalid' = invalid /\ UNCHANGED store
  BY DEF Reveal, Notify, engine
<1>3. \A c \in Callers : Waiter(c)'
  BY <1>1, <1>2, Awakened
<1>4. (\A x \in Runs : Own(x)') /\ CascadeExact' /\ TypeOK'
  BY <1>1, OthersKeep, CascadeKeeps DEF Step, Frame
<1> QED BY <1>1, <1>3, <1>4, StepKeepsSearch DEF Inv

LEMMA NextStep ==
    ASSUME Inv, [Next]_vars
    PROVE  Inv' /\ (Cardinality(Runs) <= MaxVisited /\ Search => Search')
<1>1. CASE UNCHANGED vars
  BY <1>1, Stutters
<1>2. ASSUME NEW r \in Runs, Work(r)
      PROVE  Inv' /\ (Cardinality(Runs) <= MaxVisited /\ Search => Search')
  <2>1. CASE Pass(r)
    BY <2>1, PassOverStep, GateStep, CancelOperationStep, OwnStep DEF Pass
  <2>2. CASE WalkStep(r)
    BY <2>2, WalkStepStep, StepKeepsInv, WalkStepSearch
  <2>3. CASE WalkFails(r)
    BY <2>3, WalkFailsStep, StepKeepsInv, WalkFailsSearch
  <2>4. CASE WalkFinds(r)
    BY <2>4, WalkFindsStep, OwnStep
  <2>5. CASE Reveal(r) \/ Notify(r)
    BY <2>5, TellingStep
  <2>6. CASE AwaitGate(r)
    BY <2>6, ReadTargetStep, TargetUnreadStep, WakeStep, StayParkedStep, OwnStep DEF AwaitGate
  <2>7. CASE Attempt(r)
    BY <2>7, ReserveStep, HandlerResolvesStep, HandlerErrsStep, ParkStep, OwnStep DEF Attempt
  <2>8. CASE CascadeNext(r)
    BY <2>8, CascadeNextStep
  <2>9. CASE CascadeFails(r) \/ CascadeEnds(r) \/ KicksDelivered(r) \/ Commit(r)
    BY <2>9, CascadeFailsStep, CascadeEndsStep, KicksDeliveredStep, CommitStep, OwnStep
  <2>10. CASE AwaitTargetDone(r)
    BY <2>10, AwaitTargetDoneKeeps
  <2>11. CASE DeliverKick(r)
    BY <2>11, DeliverKickStep
  <2> QED BY <1>2, <2>1, <2>2, <2>3, <2>4, <2>5, <2>6, <2>7, <2>8, <2>9, <2>10, <2>11
      DEF Work, Walk, Cascade, CompleteRun
<1>3. ASSUME NEW r \in Runs, TimerFires(r) \/ DeadlinePasses(r) \/ Cancel(r) \/ Reap(r)
      PROVE  Inv' /\ (Search => Search')
  BY <1>3, TimerFiresStep, DeadlinePassesStep, CancelStep, ReapStep, OwnStep
<1>4. ASSUME NEW c \in Callers, CallWait(c) \/ Wait(c) \/ WaitGivesUp(c)
      PROVE  Inv' /\ (Search => Search')
  BY <1>4, CallerStep
<1>5. CASE Down
  BY <1>5, DownStep
<1>6. CASE Restart
  BY <1>6, RestartStep
<1>7. CASE Rest
  BY <1>7, Stutters DEF Rest
<1> QED BY <1>1, <1>2, <1>3, <1>4, <1>5, <1>6, <1>7 DEF Next

-----------------------------------------------------------------------------
(* A standing set contains a circle: one of its smallest standing subsets.  *)

LEMMA LeastSize ==
    ASSUME NEW S, S \subseteq Nat, S # {}
    PROVE  \E i \in S : \A j \in S : i <= j
<1>1. PICK x \in S : \A y \in S : ~(<<y, x>> \in OpToRel(<, Nat))
  BY NatLessThanWellFounded, WFMin, Zenon
<1>2. \A y \in S : ~(y < x)
  BY <1>1 DEF OpToRel
<1> QED BY <1>2

LEMMA HasCircle ==
    ASSUME NEW S \in SUBSET Runs, Standing(S)
    PROVE  \E T \in SUBSET S : Circle(T)
<1> DEFINE All == {T \in SUBSET S : Standing(T)}
           Counts == {Cardinality(T) : T \in All}
<1>1. \A T \in SUBSET Runs : IsFiniteSet(T) /\ Cardinality(T) \in Nat
  BY Sizes
<1>2. Counts \subseteq Nat /\ Counts # {}
  <2>1. S \in All
    OBVIOUS
  <2>2. Cardinality(S) \in Counts
    BY <2>1
  <2>3. \A T \in All : Cardinality(T) \in Nat
    BY <1>1
  <2>4. Counts \subseteq Nat
    BY <2>3
  <2> QED BY <2>2, <2>4
<1>3. PICK n \in Counts : \A m \in Counts : n <= m
  <2> HIDE DEF Counts
  <2> QED BY <1>2, LeastSize
<1>4. PICK T \in All : n = Cardinality(T)
  BY <1>3
<1>5. ASSUME NEW U \in SUBSET T, Standing(U) PROVE U = T
  <2>1. U \in All
    BY <1>5
  <2>2. Cardinality(U) \in Counts
    BY <2>1
  <2>3. Cardinality(T) <= Cardinality(U)
    BY <1>3, <1>4, <2>2
  <2>4. T \in SUBSET Runs
    OBVIOUS
  <2>5. IsFiniteSet(T)
    BY <1>1, <2>4
  <2>6. /\ Cardinality(U) <= Cardinality(T)
        /\ Cardinality(U) = Cardinality(T) => U = T
    BY <2>5, FS_Subset
  <2>7. Cardinality(U) \in Nat /\ Cardinality(T) \in Nat
    BY <1>1, <2>4
  <2> QED BY <2>3, <2>6, <2>7
<1>6. Standing(T) /\ T \in SUBSET S
  OBVIOUS
<1>7. Circle(T)
  BY <1>5, <1>6 DEF Circle
<1> QED BY <1>6, <1>7

-----------------------------------------------------------------------------
(* The invariant and what follows from it. *)

(* The inductive invariant holds always: where every worker is, what is     *)
(* registered, marked, owed and watched agrees with the store.              *)
THEOREM InvAlways == Spec => []Inv
<1>1. Init => Inv
  BY InitHolds
<1>2. Inv /\ [Next]_vars => Inv'
  BY NextStep
<1> QED BY <1>1, <1>2, PTL DEF Spec

(* The join set and the timers of Engine.awaitGate, unpark and              *)
(* awaitTargetDone are the stored parks': a registration is for the park the *)
(* store holds, and a Run at rest has one, with its timer armed when the    *)
(* park has a deadline.                                                     *)
THEOREM JoinSoundAlways == Spec => []JoinSound
<1>1. Inv => JoinSound
  <2> SUFFICES ASSUME Inv, NEW r \in Runs
               PROVE  /\ Registered(joins, r) => Parked(r) /\ joins[r].keys = db[r].park.targets
                      /\ timers[r] # "off" => Registered(joins, r)
                      /\ AtRest(r) => /\ Registered(joins, r)
                                      /\ db[r].park.deadline => timers[r] = "armed"
    BY DEF JoinSound, RegistrationIsThePark, Inv
  <2>1. Place(r) /\ Entry(r) /\ Idle(r)
    BY DEF Inv, Own
  <2> QED BY <2>1 DEF Place, Entry, Idle, Parked, AtRest, Live
<1> QED BY <1>1, InvAlways, PTL

(* What Run.Status reports is honest: an awaiting Run executes no handler,  *)
(* and while the Engine is up the only Runs reported runnable without       *)
(* anybody about to run them are those whose terminal commit failed and     *)
(* those that were canceled and whose unwind is parked.                     *)
THEOREM StatusHonestAlways == Spec => []StatusHonest
<1>1. Inv => StatusHonest
  <2> SUFFICES ASSUME Inv, NEW r \in Runs, up, Live(r)
               PROVE  /\ State(r) = "awaiting" => wpc[r] # "handler"
                      /\ State(r) = "runnable" =>
                           \/ r \in stranded /\ db[r].phase = "ended"
                           \/ db[r].cancel /\ db[r].phase = "unwind" /\ db[r].park # NoPark
    BY DEF StatusHonest
  <2>1. Place(r) /\ Idle(r) /\ db[r].phase \in {"forward", "unwind", "ended"}
    BY Types DEF Inv, Own, StoreTypes, Records, RecordType
  <2> QED BY <2>1 DEF Place, Idle, State, Live
<1> QED BY <1>1, InvAlways, PTL

(* Neither a parked Run nor a caller of Run.Wait misses what it waits for:  *)
(* whoever has finished, or was found invalid, is about to wake them.       *)
THEOREM NothingMissedAlways == Spec => []NothingMissed
<1>1. ASSUME Inv PROVE NoCompletionMissed
  <2> SUFFICES ASSUME NEW r \in Runs, AtRest(r),
                      Cardinality({t \in db[r].park.targets : ~Live(t)}) >= AwaitNeed(db[r].park)
               PROVE  \E t \in db[r].park.targets :
                        wpc[t] \in {"notify", "complete"} \/ (wpc[t] = "kick" /\ r \in left[t])
    BY DEF NoCompletionMissed
  <2>0. Own(r) /\ TypeOK
    BY <1>1 DEF Inv
  <2>1. /\ Registered(joins, r) /\ joins[r].keys = db[r].park.targets
        /\ joins[r].need = AwaitNeed(db[r].park) /\ wpc[r] = "none"
    BY <2>0 DEF Own, Place, Entry, Idle, AtRest, Parked
  <2>2. CASE Cardinality(joins[r].done) >= joins[r].need
    BY <2>0, <2>1, <2>2 DEF Own, Kick
  <2>3. CASE ~(Cardinality(joins[r].done) >= joins[r].need)
    <3> DEFINE F == {t \in db[r].park.targets : ~Live(t)}
    <3>1. joins[r].done \subseteq Runs
      BY <2>0, KeysTyped
    <3>2. ~(F \subseteq joins[r].done)
      <4> SUFFICES ASSUME F \subseteq joins[r].done PROVE FALSE
        OBVIOUS
      <4>1. Cardinality(F) <= Cardinality(joins[r].done)
        BY <3>1, Sizes
      <4>2. F \subseteq Runs
        BY <3>1
      <4>3. Cardinality(F) \in Nat /\ Cardinality(joins[r].done) \in Nat /\ joins[r].need \in Nat
        BY <2>0, <4>2, Sizes, KeysTyped
      <4>4. Cardinality(F) >= joins[r].need
        BY <2>1
      <4> HIDE DEF F
      <4> QED BY <2>3, <4>1, <4>3, <4>4
    <3>3. PICK t \in db[r].park.targets : ~Live(t) /\ t \notin joins[r].done
      BY <3>2
    <3>4. wpc[t] \in {"notify", "complete"}
      BY <2>0, <2>1, <3>3 DEF Own, Cover
    <3> QED BY <3>4
  <2> QED BY <2>2, <2>3
<1>2. Inv => NoWaitMissed
  BY DEF Inv, Waiter, NoWaitMissed
<1>3. Inv => NothingMissed
  BY <1>1, <1>2 DEF NothingMissed
<1> QED BY <1>3, InvAlways, PTL

(* What settleAwait tells a handler of the park that ended is true.         *)
THEOREM WakeIsTrueAlways == Spec => []WakeIsTrue
<1>1. ASSUME Inv PROVE WakeIsTrue
  <2> SUFFICES ASSUME NEW r \in Runs, NEW m \in {woke[r], db[r].memory} \ {NoWake}
               PROVE  True(r, m)
    BY DEF WakeIsTrue, True
  <2> QED BY <1>1 DEF Inv, Own, Memory
<1> QED BY <1>1, InvAlways, PTL

(* A cancellation with a cascade (cancelOperation) reaches each target of   *)
(* the park unless the process ended or the store failed, and nobody else.  *)
THEOREM CascadeExactAlways == Spec => []CascadeExact
<1>1. Inv => CascadeExact
  BY DEF Inv
<1> QED BY <1>1, InvAlways, PTL

(* With no more Runs than awaitCycle visits, and at most one failing store  *)
(* call or process end, no Runs come to rest waiting on each other in a     *)
(* circle, however their parks, searches, wakes and cancels interleave.     *)
THEOREM NoStandingCycleAlways ==
    Cardinality(Runs) <= MaxVisited /\ Spec => [](troubles <= 1 => NoStandingCycle)
<1>1. ASSUME Cardinality(Runs) <= MaxVisited PROVE Spec => [](Inv /\ Search)
  <2>1. Init => Inv /\ Search
    BY InitHolds
  <2>2. Inv /\ Search /\ [Next]_vars => Inv' /\ Search'
    BY <1>1, NextStep
  <2> QED BY <2>1, <2>2, PTL DEF Spec
<1>2. ASSUME Inv, Search, troubles <= 1 PROVE NoStandingCycle
  <2> SUFFICES ASSUME NEW S \in SUBSET Runs, S # {},
                      \A r \in S : AtRest(r) /\ db[r].park.targets \cap S # {}
               PROVE  FALSE
    BY DEF NoStandingCycle
  <2>1. Standing(S)
    BY DEF Standing, Stands, AtRest, Parked
  <2>2. PICK T \in SUBSET S : Circle(T)
    BY <2>1, HasCircle
  <2>3. T \in SUBSET Runs /\ GateFinds
    BY <1>2 DEF Search
  <2>4. PICK r \in T : ~Registered(joins, r) \/ wpc[r] = "gatewalk"
    BY <2>2, <2>3 DEF GateFinds
  <2>5. AtRest(r) /\ r \in Runs
    OBVIOUS
  <2>6. Idle(r) /\ Place(r)
    BY <1>2, <2>5 DEF Inv, Own
  <2> QED BY <2>4, <2>5, <2>6 DEF Idle, Place, AtRest, Parked
<1>3. CASE Cardinality(Runs) <= MaxVisited
  <2>1. Spec => [](Inv /\ Search)
    BY <1>1, <1>3
  <2>2. Inv /\ Search => (troubles <= 1 => NoStandingCycle)
    BY <1>2
  <2> QED BY <2>1, <2>2, PTL
<1>4. CASE ~(Cardinality(Runs) <= MaxVisited)
  BY <1>4
<1> QED BY <1>3, <1>4
=============================================================================
