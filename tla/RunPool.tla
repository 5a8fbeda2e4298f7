------------------------------ MODULE RunPool ------------------------------
(***************************************************************************)
(* internal/runpool: the pool behind one run class.  A pool is a record    *)
(*   inUse    tokens held                    (class.inUse)                 *)
(*   holders  members holding one            (Pool.holders)                *)
(*   pending  admitted members not holding   (Pool.pending)                *)
(*   line     pending members in line        (class.line)                  *)
(*   aside    pending members set aside      (Pool.sidelined)              *)
(*   parked   pending members refused once   (Pool.parked)                 *)
(*                                                                         *)
(* The code keeps the line as a slice sorted by a unique order key.  Here  *)
(* it is a set, and Before(place, ., .) is the order: an index in the line *)
(* is the number of members ahead.  Every operation runs under Pool.mu, so *)
(* each is one function from pools to pools.  NoRun stands for "no kick".  *)
(***************************************************************************)
EXTENDS Integers, FiniteSets

CONSTANTS Runs,   \* the RunIDs, ordered as numbers
          NoRun   \* no Run: the absent kick

ASSUME RunsAssumption == /\ Runs \subseteq Nat
                         /\ IsFiniteSet(Runs)
                         /\ NoRun \notin Runs

PoolType == [inUse : Nat, holders : SUBSET Runs, pending : SUBSET Runs,
             line : SUBSET Runs, aside : SUBSET Runs, parked : SUBSET Runs]

NewPool == [inUse |-> 0, holders |-> {}, pending |-> {},
            line |-> {}, aside |-> {}, parked |-> {}]

(* The order of the line: eligibility time, then RunID. *)
Before(place, a, b) == \/ place[a] < place[b]
                       \/ place[a] = place[b] /\ a < b

Ahead(p, place, w) == {m \in p.line : Before(place, m, w)}

(* The member to wake when the class has free capacity, or NoRun. *)
Head(p, cap, place) ==
    IF p.inUse < cap /\ p.line # {}
    THEN CHOOSE m \in p.line : \A n \in p.line \ {m} : Before(place, m, n)
    ELSE NoRun

PendingCount(p) == Cardinality(p.line) + Cardinality(p.aside)

(* max = 0 is unbounded; a holder or a pending member is always admitted. *)
Admits(p, w, max) == \/ w \in p.holders \cup p.pending
                     \/ max = 0
                     \/ PendingCount(p) < max

Admit(p, w) == IF w \in p.holders \cup p.pending
               THEN p
               ELSE [p EXCEPT !.pending = @ \cup {w}, !.line = @ \cup {w}]

\* Seeded fault: a departing member stays marked as parked.
ForgetKeepsParked(p, w) == [p EXCEPT !.pending = @ \ {w}, !.aside = @ \ {w},
                                     !.line = @ \ {w}]

Forget(p, w) == [p EXCEPT !.pending = @ \ {w}, !.parked = @ \ {w},
                          !.aside = @ \ {w}, !.line = @ \ {w}]

(* Acquire first gives w its place (again, if it was set aside) ...        *)
Enter(p, w) == [p EXCEPT !.pending = @ \cup {w}, !.line = @ \cup {w},
                         !.aside = @ \ {w}]

\* Seeded fault: off by one, the class takes one member too many.
GrantedOneMore(p, w, cap, place) ==
    \/ w \in p.holders
    \/ p.inUse + Cardinality(Ahead(Enter(p, w), place, w)) <= cap

(* ... then grants exactly when w and all those ahead fit.                 *)
Granted(p, w, cap, place) ==
    \/ w \in p.holders
    \/ p.inUse + Cardinality(Ahead(Enter(p, w), place, w)) < cap

Acquire(p, w, cap, place) ==
    IF w \in p.holders THEN p
    ELSE IF Granted(p, w, cap, place)
    THEN [Forget(p, w) EXCEPT !.inUse = @ + 1, !.holders = @ \cup {w}]
    ELSE [Enter(p, w) EXCEPT !.parked = @ \cup {w}]

(* A grant that leaves capacity owes the new head a kick. *)
AcquireKick(p, w, cap, place) ==
    IF w \notin p.holders /\ Granted(p, w, cap, place)
    THEN Head(Acquire(p, w, cap, place), cap, place)
    ELSE NoRun

Hold(p, w) == IF w \in p.holders
              THEN p
              ELSE [Forget(p, w) EXCEPT !.inUse = @ + 1, !.holders = @ \cup {w}]

\* Seeded fault: a pending member gives back a token it never had.
ReleaseAnyToken(p, w) == [Forget(p, w) EXCEPT !.inUse = @ - 1, !.holders = @ \ {w}]

Release(p, w) == IF w \in p.holders
                 THEN [p EXCEPT !.inUse = @ - 1, !.holders = @ \ {w}]
                 ELSE Forget(p, w)

ReleaseKick(p, w, cap, place) ==
    IF w \in p.holders \cup p.pending
    THEN Head(Release(p, w), cap, place)
    ELSE NoRun

Clear(p, w) == IF w \in p.pending \ p.aside
               THEN [p EXCEPT !.line = @ \ {w}, !.parked = @ \ {w},
                              !.aside = @ \cup {w}]
               ELSE p

ClearKick(p, w, cap, place) ==
    IF w \in p.pending \ p.aside
    THEN Head(Clear(p, w), cap, place)
    ELSE NoRun

(* Every count and every set of the pool agrees with the others. *)
PoolOK(p) == /\ p.inUse = Cardinality(p.holders)
             /\ p.holders \cap p.pending = {}
             /\ p.pending = p.line \cup p.aside
             /\ p.line \cap p.aside = {}
             /\ p.parked \subseteq p.line
=============================================================================
