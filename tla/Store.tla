-------------------------------- MODULE Store --------------------------------
(***************************************************************************)
(* The store contract, as the in-memory store (store/mem) executes it: one   *)
(* map of records, the slots of the nonterminal Runs and the operation each  *)
(* Run's cursor names.  Every operation is one step under the store's mutex. *)
(***************************************************************************)
EXTENDS StoreRecords

VARIABLES runs,       \* RunID -> record
          slots,      \* <<pipeline, resource>> -> RunID
          inflight,   \* RunID -> the Step of its cursor's operation
          used,       \* RunIDs handed to CreateRun; an id is never reused
          now         \* the Engine's clock

vars == <<runs, slots, inflight, used, now>>

TypeOK ==
    /\ IsMap(runs, Runs, Record) /\ IsMap(slots, Slots, Runs) /\ IsMap(inflight, Runs, Steps)
    /\ used \subseteq Runs
    /\ now \in Times

Init ==
    /\ runs = [r \in {} |-> NoRun] /\ slots = [s \in {} |-> NoRun]
    /\ inflight = [r \in {} |-> NoStep]
    /\ used = {} /\ now = 0

\* The slots whose occupant blocks r.
Blocking(r) == {SlotOf[r]} \cup {<<p, SlotOf[r][2]>> : p \in Excluding[r]}

\* The record is stored unless a nonterminal Run holds its slot or that of an
\* excluded pipeline on the same resource.
CreateRun(r) ==
    /\ r \notin used
    /\ used' = used \cup {r}
    /\ IF Blocking(r) \cap DOMAIN slots # {}
         THEN UNCHANGED <<runs, slots>>
         ELSE \E input \in Inputs :
                /\ runs' = Put(runs, r, NewRecord(r, input, now))
                /\ slots' = Put(slots, SlotOf[r], r)
    /\ UNCHANGED <<inflight, now>>

\* The record after transition t.
Applied(rec, t) ==
    LET written == [o \in Ops |->
                      IF \E w \in t.ops : <<w.step, w.phase>> = o
                        THEN (CHOOSE w \in t.ops : <<w.step, w.phase>> = o).op
                        ELSE rec.ops[o]]
        next == [rec EXCEPT !.ops = OverlayCursor(written, t.cursor),
                            !.phase = t.cursor.phase, !.sched = t.cursor.sched,
                            !.updatedAt = t.cursor.updatedAt,
                            !.failure = @ \/ t.failure]
    IN  IF t.outcome = "none" THEN next
        ELSE CompactTerminal([next EXCEPT !.outcome = t.outcome, !.output = t.output])

InFlight(r) == IF r \in DOMAIN inflight THEN inflight[r] ELSE NoStep

\* A missing Run and a terminal one are refused; an outcome frees the slot.
ApplyTransition(r) ==
    LET rec == runs[r]
    IN  /\ UNCHANGED <<used, now>>
        /\ r \in DOMAIN runs /\ ~Terminal(rec)
        /\ \E t \in Transitions(rec, StepsOf[r], InFlight(r), now) :
             /\ inflight' = IF t.cursor.step = NoStep THEN Delete(inflight, {r})
                            ELSE Put(inflight, r, t.cursor.step)
             /\ slots' = IF t.outcome # "none"
                           THEN Delete(slots, {s \in {SlotOf[r]} : slots[s] = r})
                           ELSE slots
             /\ runs' = [runs EXCEPT ![r] = Applied(rec, t)]

\* The first request wins.
RequestCancel(r) ==
    /\ UNCHANGED <<slots, inflight, used, now>>
    /\ r \in DOMAIN runs /\ ~Terminal(runs[r]) /\ runs[r].cancel = NoCause
    /\ \E c \in Causes : runs' = [runs EXCEPT ![r].cancel = c]

\* Up to limit terminal Runs committed before the cutoff are deleted, in no
\* particular order.
ReapTerminal ==
    /\ UNCHANGED <<slots, inflight, used, now>>
    /\ \E before \in 0..now :
         \E victims \in SUBSET {r \in DOMAIN runs : /\ Terminal(runs[r])
                                                    /\ runs[r].updatedAt < before} :
           runs' = Delete(runs, victims)

Tick ==
    /\ now < MaxTime /\ now' = now + 1
    /\ UNCHANGED <<runs, slots, inflight, used>>

Next ==
    \/ \E r \in Runs : CreateRun(r) \/ ApplyTransition(r) \/ RequestCancel(r)
    \/ ReapTerminal
    \/ Tick

Spec == Init /\ [][Next]_vars

\* GetRunHead: no blobs, and of the operations only the cursor's.
HeadOf(r) ==
    LET bare == [runs[r] EXCEPT !.input = "none", !.output = "none"]
    IN  IF Terminal(runs[r]) THEN bare
        ELSE [bare EXCEPT !.ops = [o \in Ops |->
                IF o = <<InFlight(r), runs[r].phase>>
                  THEN [NoOp EXCEPT !.status = "unresolved", !.attempts = runs[r].ops[o].attempts]
                  ELSE NoOp]]

\* ListNonterminal.
Nonterminal == {r \in DOMAIN runs : ~Terminal(runs[r])}
=============================================================================
