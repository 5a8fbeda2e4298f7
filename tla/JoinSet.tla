------------------------------ MODULE JoinSet ------------------------------
(***************************************************************************)
(* internal/joinset: waiters registered on a set of keys with a threshold   *)
(* of how many must be done.  A set is a function from waiters to           *)
(* registrations; each method runs under Set.mu and is a function on sets   *)
(* beside what it returns.  The index byKey is derived: the waiters whose   *)
(* registration has the key.  Keys and waiters are Runs, as the Engine uses *)
(* it; the stamp of Register only feeds an event and is left out.           *)
(***************************************************************************)
EXTENDS Integers, FiniteSets

CONSTANT Runs

ASSUME RunsAssumption == IsFiniteSet(Runs)

Registration ==
    {g \in [keys : SUBSET Runs, need : Nat, done : SUBSET Runs, kicked : BOOLEAN] :
        g.done \subseteq g.keys /\ g.need <= Cardinality(g.keys)}

\* A waiter that is not registered is on no keys.
Unregistered == [keys |-> {}, need |-> 0, done |-> {}, kicked |-> FALSE]

SetType == [Runs -> Registration]
NewSet == [w \in Runs |-> Unregistered]

Registered(s, w) == s[w].keys # {}

Clamp(n, lo, hi) == IF n < lo THEN lo ELSE IF n > hi THEN hi ELSE n

\* A waiter that is registered already is left as it was.
Register(s, w, keys, need) ==
    IF Registered(s, w) THEN s
    ELSE [s EXCEPT ![w] = [keys |-> keys, need |-> Clamp(need, 1, Cardinality(keys)),
                           done |-> {}, kicked |-> FALSE]]

Mark(s, w, k) ==
    IF k \in s[w].keys THEN [s EXCEPT ![w].done = @ \cup {k}] ELSE s

\* The waiters that this completion takes to their threshold, or past it when
\* marks had done so and nobody was told.
CompleteKicks(s, k) ==
    {w \in Runs : /\ k \in s[w].keys /\ ~s[w].kicked
                  /\ Cardinality(s[w].done \cup {k}) >= s[w].need}

\* Seeded fault: the key is marked on every waiter.
CompleteEverywhere(s, k) ==
    [w \in Runs |-> IF Registered(s, w)
                      THEN [s[w] EXCEPT !.done = @ \cup {k},
                                        !.kicked = @ \/ w \in CompleteKicks(s, k)]
                      ELSE s[w]]

Complete(s, k) ==
    [w \in Runs |-> IF k \in s[w].keys
                      THEN [s[w] EXCEPT !.done = @ \cup {k},
                                        !.kicked = @ \/ w \in CompleteKicks(s, k)]
                      ELSE s[w]]

Done(s, w) == s[w].done

Remove(s, w) == [s EXCEPT ![w] = Unregistered]
=============================================================================
