------------------------- MODULE TemperatureControl -------------------------
(***************************************************************************)
(* Monitored equipment (modules/equipments) and the temperature records    *)
(* taken on it (modules/haccp).                                            *)
(*                                                                         *)
(* A record is judged against thresholds that were SELECTed some awaits    *)
(* before its transaction commits; a PATCH of one threshold is validated   *)
(* against the other one as it was when the row was loaded.  A transaction *)
(* shows its rows when it commits; until then a request's rows are known   *)
(* from its pc.  A record, and the ticket opened for it, are identified by *)
(* the request that creates them.                                          *)
(***************************************************************************)
EXTENDS Integers

CONSTANTS
    Equipment,  \* primary keys of equipements
    Temp,       \* temperatures, in degrees
    Request,    \* HTTP requests; each one is served once
    Exclusive,  \* equipment whose requests happen never to overlap
    None        \* SQL NULL, or a field the request leaves out

ASSUME TempAssumption == Temp \subseteq Int
ASSUME ExclusiveAssumption == Exclusive \subseteq Equipment
ASSUME NoneAssumption == None \notin Int \cup Equipment

VARIABLES
    presence,   \* the row: not created, active, soft-deleted or erased
    lo,         \* temperature_min_cible
    hi,         \* temperature_max_cible
    releves,    \* committed rows of releves_temperature
    tickets,    \* committed non-conformities, by source_record_id
    pc,         \* where each request is
    call,       \* what each request that found its row asked for
    seen        \* the thresholds each request loaded

vars == <<presence, lo, hi, releves, tickets, pc, call, seen>>

Presence == {"absent", "active", "deleted", "erased"}
Field == Temp \cup {None}
Thresholds == [lo : Temp, hi : Temp]

RecordCall == [op : {"record"}, eq : Equipment, value : Temp]
PatchCall == [op : {"patch"}, eq : Equipment, lo : Field, hi : Field]
DeleteCall == [op : {"soft delete", "hard delete"}, eq : Equipment]
Call == RecordCall \cup PatchCall \cup DeleteCall

\* A transaction that has flushed the record holds a lock on the equipment row.
Flushed == {"flushed", "ticketed"}
InFlight == {"measured", "patching", "deleting", "erasing"} \cup Flushed
Answered == {"ok", "rejected", "refused", "failed"}

TypeOK ==
    /\ presence \in [Equipment -> Presence]
    /\ lo \in [Equipment -> Field]
    /\ hi \in [Equipment -> Field]
    /\ \A e \in Equipment : presence[e] # "absent" => lo[e] \in Temp /\ hi[e] \in Temp
    /\ releves \subseteq Request
    /\ tickets \subseteq Request
    /\ pc \in [Request -> {"new"} \cup InFlight \cup Answered]
    /\ call \in [Request -> Call \cup {None}]
    /\ seen \in [Request -> Thresholds \cup {None}]

Init ==
    /\ presence = [e \in Equipment |-> "absent"]
    /\ lo = [e \in Equipment |-> None]
    /\ hi = [e \in Equipment |-> None]
    /\ releves = {}
    /\ tickets = {}
    /\ pc = [r \in Request |-> "new"]
    /\ call = [r \in Request |-> None]
    /\ seen = [r \in Request |-> None]

-----------------------------------------------------------------------------
(* The two definitions of "out of range".                                   *)

\* Mutant: the lower threshold is excluded.
IsCompliant_Strict(value, min, max) == min < value /\ value <= max

\* _is_temperature_compliant, at write time.
IsCompliant(value, min, max) == min <= value /\ value <= max

\* _deviation_celsius, at read time.
Deviation(value, min, max) ==
    IF value < min THEN min - value
    ELSE IF value > max THEN value - max ELSE 0

\* is_conforme of the record of request r.
Verdict(r) == IsCompliant(call[r].value, seen[r].lo, seen[r].hi)

\* deviation_celsius of the ticket of record r, as _build_item computes it now.
ShownDeviation(r) == Deviation(call[r].value, lo[call[r].eq], hi[call[r].eq])

-----------------------------------------------------------------------------
(* Steps of a request.                                                      *)

equipment == <<presence, lo, hi>>
history == <<releves, tickets>>

\* r arrives and loads the row of c.eq, if it is among the visible ones;
\* otherwise it answers 404.
Load(r, c, visible, next) ==
    /\ pc[r] = "new"
    /\ IF presence[c.eq] \in visible
       THEN /\ call' = [call EXCEPT ![r] = c]
            /\ seen' = [seen EXCEPT ![r] = [lo |-> lo[c.eq], hi |-> hi[c.eq]]]
            /\ pc' = [pc EXCEPT ![r] = next]
       ELSE /\ pc' = [pc EXCEPT ![r] = "rejected"]
            /\ UNCHANGED <<call, seen>>
    /\ UNCHANGED <<equipment, history>>

Goto(r, next) == pc' = [pc EXCEPT ![r] = next] /\ UNCHANGED <<call, seen>>

\* r is answered, and leaves no record behind that needs what it asked for.
Finish(r, answer) ==
    /\ pc' = [pc EXCEPT ![r] = answer]
    /\ call' = [call EXCEPT ![r] = None]
    /\ seen' = [seen EXCEPT ![r] = None]

\* create_equipment: one INSERT; the schema refuses min >= max.
Create(e) ==
    \E min, max \in Temp :
        /\ min < max
        /\ presence[e] = "absent"
        /\ presence' = [presence EXCEPT ![e] = "active"]
        /\ lo' = [lo EXCEPT ![e] = min]
        /\ hi' = [hi EXCEPT ![e] = max]
        /\ UNCHANGED <<history, pc, call, seen>>

-----------------------------------------------------------------------------
(* create_temperature_record.                                               *)

Measure(r) ==
    \E e \in Equipment, v \in Temp :
        Load(r, [op |-> "record", eq |-> e, value |-> v], {"active"}, "measured")

\* Mutant: a commit of its own for the record.
FlushReleve_Commits(r) ==
    /\ pc[r] = "measured"
    /\ presence[call[r].eq] # "erased"
    /\ releves' = releves \cup {r}
    /\ Goto(r, "flushed")
    /\ UNCHANGED <<equipment, tickets>>

\* The INSERT of the record locks the equipment row, which the foreign key
\* needs; it fails if the row was erased.
FlushReleve(r) ==
    /\ pc[r] = "measured"
    /\ IF presence[call[r].eq] = "erased" THEN Finish(r, "failed") ELSE Goto(r, "flushed")
    /\ UNCHANGED <<equipment, history>>

\* open_temperature_nonconformity, in the same transaction.
FlushTicket(r) ==
    /\ pc[r] = "flushed"
    /\ ~Verdict(r)
    /\ Goto(r, "ticketed")
    /\ UNCHANGED <<equipment, history>>

CommitRecord(r) ==
    /\ pc[r] \in Flushed
    /\ pc[r] = "flushed" => Verdict(r)
    /\ releves' = releves \cup {r}
    /\ tickets' = IF pc[r] = "ticketed" THEN tickets \cup {r} ELSE tickets
    /\ Goto(r, "ok")
    /\ UNCHANGED equipment

-----------------------------------------------------------------------------
(* update_equipment.                                                        *)

\* payload.field or current: a threshold of 0 is falsy, and counts as absent.
OrElse(field, current) == IF field \in {None, 0} THEN current ELSE field

\* The schema refuses min >= max only when both are given.
ValidPayload(c) == c.lo # None /\ c.hi # None => c.lo < c.hi

\* The range a PATCH would leave, given the row as loaded.
MergedRange(c) ==
    presence[c.eq] = "active" => OrElse(c.lo, lo[c.eq]) < OrElse(c.hi, hi[c.eq])

\* Mutant: only the schema checks the range.
Patch_Unmerged(r) ==
    \E e \in Equipment, newLo, newHi \in Field :
        LET c == [op |-> "patch", eq |-> e, lo |-> newLo, hi |-> newHi] IN
        ValidPayload(c) /\ Load(r, c, {"active"}, "patching")

\* A merged range that is empty is a 422.
Patch(r) ==
    \E e \in Equipment, newLo, newHi \in Field :
        LET c == [op |-> "patch", eq |-> e, lo |-> newLo, hi |-> newHi] IN
        /\ ValidPayload(c)
        /\ Load(r, c, IF MergedRange(c) THEN {"active"} ELSE {}, "patching")

\* Mutant: a field the request leaves out is written as NULL.
Written_Null(field, loaded, current) == field

\* The UPDATE writes the fields that were given and differ from the loaded
\* ones; it matches no row, and fails, if the row was erased.
Written(field, loaded, current) == IF field \in {None, loaded} THEN current ELSE field

CommitPatch(r) ==
    LET e == call[r].eq IN
    /\ pc[r] = "patching"
    /\ IF presence[e] = "erased"
       THEN Finish(r, "failed") /\ UNCHANGED <<lo, hi>>
       ELSE /\ lo' = [lo EXCEPT ![e] = Written(call[r].lo, seen[r].lo, @)]
            /\ hi' = [hi EXCEPT ![e] = Written(call[r].hi, seen[r].hi, @)]
            /\ Finish(r, "ok")
    /\ UNCHANGED <<presence, history>>

-----------------------------------------------------------------------------
(* delete_equipment, soft and hard.                                         *)

SoftDelete(r) ==
    \E e \in Equipment :
        Load(r, [op |-> "soft delete", eq |-> e], {"active"}, "deleting")

CommitSoftDelete(r) ==
    LET e == call[r].eq IN
    /\ pc[r] = "deleting"
    /\ IF presence[e] = "erased"
       THEN Finish(r, "failed") /\ UNCHANGED presence
       ELSE presence' = [presence EXCEPT ![e] = "deleted"] /\ Finish(r, "ok")
    /\ UNCHANGED <<lo, hi, history>>

HardDelete(r) ==
    \E e \in Equipment :
        Load(r, [op |-> "hard delete", eq |-> e], {"active", "deleted"}, "erasing")

\* Mutant: no foreign key.
RecordsOf_None(e) == {}

RecordsOf(e) == {q \in releves : call[q].eq = e}

\* The DELETE waits for the transactions that hold a lock on the row.  The
\* records are not loaded (lazy="noload"), so that none is deleted with the
\* equipment, and their foreign key (ondelete="RESTRICT") refuses the DELETE.
CommitHardDelete(r) ==
    LET e == call[r].eq IN
    /\ pc[r] = "erasing"
    /\ \A q \in Request : pc[q] \in Flushed => call[q].eq # e
    /\ IF RecordsOf(e) # {}
       THEN Finish(r, "refused") /\ UNCHANGED presence
       ELSE presence' = [presence EXCEPT ![e] = "erased"] /\ Finish(r, "ok")
    /\ UNCHANGED <<lo, hi, history>>

-----------------------------------------------------------------------------
\* A request may die before its commit; its transaction rolls back.
Fail(r) ==
    /\ pc[r] \in InFlight
    /\ Finish(r, "failed")
    /\ UNCHANGED <<equipment, history>>

Proceed(r) ==
    \/ FlushReleve(r)
    \/ FlushTicket(r)
    \/ CommitRecord(r)
    \/ CommitPatch(r)
    \/ CommitSoftDelete(r)
    \/ CommitHardDelete(r)

Next ==
    \/ \E e \in Equipment : Create(e)
    \/ \E r \in Request :
         \/ Measure(r)
         \/ Patch(r)
         \/ SoftDelete(r)
         \/ HardDelete(r)
         \/ Proceed(r)
         \/ Fail(r)

\* Nothing in the program keeps the requests for an equipment apart.  Exclusive
\* is there to state what holds for the equipment where they happen to be.
NoOverlap ==
    \A q, r \in Request :
        q # r /\ pc[q] \in InFlight /\ pc[r] \in InFlight /\ call[q].eq \in Exclusive =>
            call[q].eq # call[r].eq

Spec == Init /\ [][Next /\ NoOverlap']_vars

-----------------------------------------------------------------------------
(* What the code keeps, however its requests interleave.                    *)

\* A record is out of range if and only if it has its ticket, whatever fails
\* between the three statements of create_temperature_record: they share one
\* commit.
RecordHasTicket ==
    /\ tickets \subseteq releves
    /\ \A r \in releves : r \in tickets <=> ~Verdict(r)

\* A record and its ticket never lose the equipment they are about: it may be
\* soft-deleted, or be patched, but a hard delete cannot erase it, not even one
\* that runs between the check and the INSERT of the record.
RecordsKeepEquipment == \A r \in releves : presence[call[r].eq] \in {"active", "deleted"}

\* Thresholds that change and are left out of order are those of a PATCH that its
\* check could not refuse: one that names a threshold of 0, which the check takes for
\* a missing one, or that overlaps another one, which has changed the thresholds
\* since this one loaded them.
RangeLossExplained ==
    [][\A e \in Equipment : <<lo[e], hi[e]>>' # <<lo[e], hi[e]>> /\ ~(lo'[e] < hi'[e]) =>
          \E r \in Request :
              /\ pc[r] = "patching" /\ pc'[r] = "ok" /\ call[r].eq = e
              /\ \/ 0 \in {call[r].lo, call[r].hi}
                 \/ e \notin Exclusive /\ seen[r] # [lo |-> lo[e], hi |-> hi[e]]]_vars

-----------------------------------------------------------------------------
(* What it keeps for the equipment whose requests do not overlap.           *)

\* A record that is committed now is of an equipment in use and was judged by the
\* thresholds in force now; _build_item would show a positive deviation for it
\* exactly if it is out of range.
VerdictInForce ==
    [][\A r \in releves' \ releves : call[r].eq \in Exclusive =>
          /\ presence[call[r].eq] = "active"
          /\ Verdict(r) <=> ShownDeviation(r) = 0]_vars

=============================================================================
