----------------------------- MODULE TokenPool -----------------------------
(***************************************************************************)
(* internal/tokenpool: a counting semaphore per concurrency class with FIFO *)
(* waiters.  A pool is a record; each method runs under Pool.mu and is a    *)
(* function on pools beside the kicks it returns, the waiters its caller    *)
(* must wake.  A class that was never used has no tokens out and nobody     *)
(* waiting.                                                                 *)
(***************************************************************************)
EXTENDS Integers, Sequences, FiniteSets

CONSTANTS Runs,
          Classes, NoClass,  \* the classes Steps name; NoClass is ""
          Capacity           \* of the limited classes

ASSUME RunsAssumption == IsFiniteSet(Runs)
ASSUME ClassesAssumption == NoClass \notin Classes
ASSUME CapacityAssumption ==
    DOMAIN Capacity \subseteq Classes /\ \A k \in DOMAIN Capacity : Capacity[k] \in Nat

Limited == DOMAIN Capacity
Members(s) == {s[i] : i \in 1..Len(s)}

PoolType == [inUse : [Limited -> Int], waiters : [Limited -> Seq(Runs)],
             parked : [Runs -> Limited \cup {NoClass}]]

NewPool == [inUse |-> [k \in Limited |-> 0], waiters |-> [k \in Limited |-> <<>>],
            parked |-> [w \in Runs |-> NoClass]]

Free(p, k) == p.inUse[k] < Capacity[k]

\* The head waiter, when a token is free for it.
NextWaiter(p, k) ==
    IF Free(p, k) /\ p.waiters[k] # <<>> THEN <<Head(p.waiters[k])>> ELSE <<>>

\* The line without w, who has one place in it at most (TokensAccounted).
Without(s, w) ==
    IF w \notin Members(s) THEN s
    ELSE LET i == CHOOSE j \in 1..Len(s) : s[j] = w
         IN  SubSeq(s, 1, i - 1) \o SubSeq(s, i + 1, Len(s))

\* w's park and its place in line are gone.
Unpark(p, w) ==
    IF p.parked[w] = NoClass THEN p
    ELSE [p EXCEPT !.parked[w] = NoClass,
                   !.waiters[p.parked[w]] = Without(@, w)]

\* Who may use the capacity w leaves behind on the class it was parked on.
UnparkKicks(p, w) ==
    IF p.parked[w] = NoClass THEN <<>> ELSE NextWaiter(Unpark(p, w), p.parked[w])

\* A classless Step and an unlimited class need no token.
Granted(p, k) == k \notin Limited \/ Free(p, k)

Acquire(p, k, w) ==
    IF k \notin Limited THEN Unpark(p, w)
    ELSE IF Free(p, k) THEN [Unpark(p, w) EXCEPT !.inUse[k] = @ + 1]
    ELSE LET q == IF p.parked[w] = k THEN p ELSE Unpark(p, w)
         IN  [q EXCEPT !.waiters[k] = IF w \in Members(@) THEN @ ELSE Append(@, w),
                       !.parked[w] = k]

\* Seeded fault: a grant wakes nobody although a token is still free.
AcquireKicksNoCascade(p, k, w) ==
    IF p.parked[w] = k THEN <<>> ELSE UnparkKicks(p, w)

\* What leaving another class exposes; then the cascade: two tokens may have
\* been released before the head that was woken ran.
AcquireKicks(p, k, w) ==
    (IF p.parked[w] = k THEN <<>> ELSE UnparkKicks(p, w))
    \o (IF k \in Limited /\ Free(p, k) THEN NextWaiter(Acquire(p, k, w), k) ELSE <<>>)

Release(p, k) == [p EXCEPT !.inUse[k] = @ - 1]
ReleaseKicks(p, k) == NextWaiter(Release(p, k), k)
=============================================================================
