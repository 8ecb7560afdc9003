---------------------- MODULE TemperatureControlProofs ----------------------
(***************************************************************************)
(* Proofs about TemperatureControl, for any set of equipment, temperatures *)
(* and requests.                                                           *)
(***************************************************************************)
EXTENDS TemperatureControl, TLAPS

USE TempAssumption, ExclusiveAssumption, NoneAssumption

\* The two definitions of "out of range" agree, on any three integers and even
\* when min > max: _is_temperature_compliant fails exactly when
\* _deviation_celsius is positive.
THEOREM ComplianceIsNoDeviation ==
    ASSUME NEW value \in Int, NEW min \in Int, NEW max \in Int
    PROVE  /\ IsCompliant(value, min, max) <=> Deviation(value, min, max) = 0
           /\ Deviation(value, min, max) >= 0
BY DEF IsCompliant, Deviation

-----------------------------------------------------------------------------
(* The inductive invariant: what a request in flight relies on.  The row a   *)
(* record was flushed for cannot be erased before the commit (the lock).     *)

InFlightInv ==
    \A r \in Request :
        /\ pc[r] \in InFlight => call[r] \in Call
        /\ pc[r] \in {"measured"} \cup Flushed =>
              call[r] \in RecordCall /\ seen[r] \in Thresholds /\ r \notin releves
        /\ pc[r] \in Flushed => presence[call[r].eq] \in {"active", "deleted"}
        /\ pc[r] = "ticketed" => ~Verdict(r)
        /\ pc[r] = "patching" => call[r] \in PatchCall /\ seen[r] \in Thresholds
        /\ pc[r] \in InFlight => presence[call[r].eq] # "absent"

HistoryInv ==
    \A r \in releves : pc[r] = "ok" /\ call[r] \in RecordCall /\ seen[r] \in Thresholds

IInv ==
    /\ TypeOK
    /\ RecordHasTicket
    /\ RecordsKeepEquipment
    /\ InFlightInv
    /\ HistoryInv

LEMMA InitIInv == Init => IInv
BY DEF Init, IInv, TypeOK, RecordHasTicket, RecordsKeepEquipment, InFlightInv, HistoryInv,
       Presence, Field, InFlight, Answered, Flushed

LEMMA CallInFlight ==
    ASSUME IInv, NEW r \in Request, pc[r] \in InFlight
    PROVE  call[r] \in Call /\ call[r].eq \in Equipment
BY DEF IInv, InFlightInv, Call, RecordCall, PatchCall, DeleteCall

LEMMA RecordEquipment ==
    ASSUME IInv, NEW r \in releves
    PROVE  r \in Request /\ call[r].eq \in Equipment
BY DEF IInv, HistoryInv, TypeOK, RecordCall

LEMMA CreateIInv == ASSUME IInv, NEW e \in Equipment, Create(e) PROVE IInv'
<1> USE DEF IInv, Create, history
<1>1. TypeOK'
  BY DEF TypeOK, Presence, Field
<1>2. RecordHasTicket' /\ HistoryInv'
  BY DEF RecordHasTicket, HistoryInv, Verdict
<1>3. RecordsKeepEquipment'
  BY DEF RecordsKeepEquipment, TypeOK
<1>4. InFlightInv'
  BY DEF InFlightInv, TypeOK, Verdict
<1> QED
  BY <1>1, <1>2, <1>3, <1>4

LEMMA LoadIInv ==
    ASSUME IInv, NEW r \in Request, NEW c \in Call, NEW visible, NEW next,
           Load(r, c, visible, next),
           visible \subseteq {"active", "deleted"},
           \/ next = "measured" /\ c \in RecordCall
           \/ next = "patching" /\ c \in PatchCall
           \/ next \in {"deleting", "erasing"}
    PROVE  IInv'
<1> USE DEF IInv, Load, equipment, history
<1>1. c.eq \in Equipment
  BY DEF Call, RecordCall, PatchCall, DeleteCall
<1>2. TypeOK'
  <2>1. presence[c.eq] \in visible => [lo |-> lo[c.eq], hi |-> hi[c.eq]] \in Thresholds
    BY <1>1 DEF TypeOK, Thresholds
  <2> QED
    BY <2>1 DEF TypeOK, InFlight, Answered
<1>3. \A q \in releves : q # r
  BY DEF HistoryInv
<1>4. \A q \in Request : q # r =>
        call'[q] = call[q] /\ seen'[q] = seen[q] /\ pc'[q] = pc[q]
  BY DEF TypeOK
<1>5. RecordHasTicket' /\ HistoryInv' /\ RecordsKeepEquipment'
  BY <1>3, <1>4 DEF RecordHasTicket, HistoryInv, RecordsKeepEquipment, Verdict, TypeOK
<1>6. InFlightInv'
  <2>1. ASSUME NEW q \in Request, q # r PROVE InFlightInv!(q)'
    BY <1>4, <2>1 DEF InFlightInv, Verdict
  <2>2. InFlightInv!(r)'
    <3>1. presence[c.eq] \in visible => [lo |-> lo[c.eq], hi |-> hi[c.eq]] \in Thresholds
      BY <1>1 DEF TypeOK, Thresholds
    <3> QED
      BY <3>1, <1>3 DEF InFlightInv, TypeOK, Flushed, InFlight
  <2> QED
    BY <2>1, <2>2 DEF InFlightInv
<1> QED
  BY <1>2, <1>5, <1>6

\* A step that changes neither the database nor a call.
LEMMA GotoIInv ==
    ASSUME IInv, NEW r \in Request, NEW next, Goto(r, next),
           pc[r] \in InFlight, UNCHANGED <<equipment, history>>,
           \/ next = "flushed" /\ pc[r] = "measured" /\ presence[call[r].eq] # "erased"
           \/ next = "ticketed" /\ pc[r] = "flushed" /\ ~Verdict(r)
    PROVE  IInv'
<1> USE DEF IInv, Goto, equipment, history
<1>1. TypeOK'
  BY DEF TypeOK, InFlight, Flushed
<1>2. RecordHasTicket' /\ RecordsKeepEquipment'
  BY DEF RecordHasTicket, RecordsKeepEquipment, Verdict
<1>3. HistoryInv'
  BY DEF HistoryInv, TypeOK, InFlight, Flushed
<1>4. InFlightInv'
  <2>1. ASSUME NEW q \in Request, q # r PROVE InFlightInv!(q)'
    BY <2>1 DEF InFlightInv, TypeOK, Verdict
  <2>2. pc'[r] = next
    BY DEF TypeOK
  <2>3. call[r].eq \in Equipment
    BY CallInFlight
  <2>4. InFlightInv!(r)'
    BY <2>2, <2>3 DEF InFlightInv, TypeOK, Verdict, Presence, Flushed, InFlight, Answered
  <2> QED
    BY <2>1, <2>4 DEF InFlightInv
<1> QED
  BY <1>1, <1>2, <1>3, <1>4

Finishing(r) == pc[r] \in InFlight /\ \E answer \in Answered : Finish(r, answer)

\* A request that ends and forgets its call is not on record, and leaves the
\* other requests as they are.
LEMMA FinishFrame ==
    ASSUME IInv, NEW r \in Request, Finishing(r)
    PROVE  /\ r \notin releves
           /\ pc'[r] \in Answered /\ pc'[r] \notin InFlight
           /\ \A q \in Request :
                 q # r => pc'[q] = pc[q] /\ call'[q] = call[q] /\ seen'[q] = seen[q]
<1>1. r \notin releves
  BY DEF Finishing, IInv, HistoryInv, InFlight, Flushed
<1>2. pc'[r] \in Answered
  BY DEF Finishing, Finish, IInv, TypeOK
<1> QED
  BY <1>1, <1>2 DEF Finishing, Finish, IInv, TypeOK, Answered, InFlight, Flushed

LEMMA CommitFinishes ==
    ASSUME NEW r \in Request, CommitPatch(r) \/ CommitSoftDelete(r) \/ CommitHardDelete(r)
    PROVE  Finishing(r)
BY DEF Finishing, CommitPatch, CommitSoftDelete, CommitHardDelete, InFlight, Answered

\* A step that only gives up the request.
LEMMA FinishIInv ==
    ASSUME IInv, NEW r \in Request, Finishing(r), UNCHANGED <<equipment, history>>
    PROVE  IInv'
<1> USE FinishFrame DEF equipment, history
<1>1. TypeOK'
  BY DEF Finishing, Finish, IInv, TypeOK
<1>2. releves \subseteq Request
  BY DEF IInv, TypeOK
<1>3. RecordHasTicket' /\ RecordsKeepEquipment'
  BY <1>2 DEF IInv, RecordHasTicket, RecordsKeepEquipment, Verdict
<1>4. HistoryInv'
  BY <1>2 DEF IInv, HistoryInv
<1>5. InFlightInv'
  <2>1. ASSUME NEW q \in Request, q # r PROVE InFlightInv!(q)'
    BY <2>1 DEF IInv, InFlightInv, Verdict
  <2>2. InFlightInv!(r)'
    BY DEF InFlight, Flushed
  <2> QED
    BY <2>1, <2>2 DEF InFlightInv
<1> QED
  BY <1>1, <1>3, <1>4, <1>5 DEF IInv

LEMMA CommitRecordIInv == ASSUME IInv, NEW r \in Request, CommitRecord(r) PROVE IInv'
<1> USE DEF IInv, CommitRecord, Goto, equipment, Flushed
<1>1. TypeOK'
  BY DEF TypeOK, Answered
<1>2. r \notin releves /\ (pc[r] = "flushed" => Verdict(r)) /\ (pc[r] = "ticketed" => ~Verdict(r))
  BY DEF InFlightInv
<1>3. RecordHasTicket'
  BY <1>2 DEF RecordHasTicket, Verdict
<1>4. RecordsKeepEquipment'
  BY DEF RecordsKeepEquipment, InFlightInv
<1>5. HistoryInv'
  BY DEF HistoryInv, InFlightInv, TypeOK
<1>6. InFlightInv'
  BY DEF InFlightInv, TypeOK, Verdict, InFlight
<1> QED
  BY <1>1, <1>3, <1>4, <1>5, <1>6

LEMMA CommitPatchIInv == ASSUME IInv, NEW r \in Request, CommitPatch(r) PROVE IInv'
<1> USE DEF IInv, CommitPatch, Finish, history
<1>1. call[r].eq \in Equipment
  BY CallInFlight DEF InFlight
<1>2. TypeOK'
  <2>1. call[r].lo \in Field /\ call[r].hi \in Field
    BY DEF InFlightInv, PatchCall
  <2>2. presence[call[r].eq] # "absent"
    BY DEF InFlightInv, InFlight
  <2> QED
    BY <1>1, <2>1, <2>2 DEF TypeOK, Written, Field, Answered
<1> USE CommitFinishes, FinishFrame
<1>3. RecordHasTicket' /\ RecordsKeepEquipment'
  BY DEF RecordHasTicket, RecordsKeepEquipment, Verdict, TypeOK
<1>4. HistoryInv'
  BY DEF HistoryInv, TypeOK
<1>5. InFlightInv'
  BY DEF InFlightInv, TypeOK, Verdict, InFlight, Flushed
<1> QED
  BY <1>2, <1>3, <1>4, <1>5

LEMMA CommitSoftDeleteIInv ==
    ASSUME IInv, NEW r \in Request, CommitSoftDelete(r) PROVE IInv'
<1> USE DEF IInv, CommitSoftDelete, Finish, history
<1>1. call[r].eq \in Equipment
  BY CallInFlight DEF InFlight
<1>2. presence[call[r].eq] # "absent"
  BY DEF InFlightInv, InFlight
<1>3. TypeOK'
  BY <1>1, <1>2 DEF TypeOK, Presence, Answered
<1> USE CommitFinishes, FinishFrame
<1>4. RecordHasTicket' /\ HistoryInv'
  BY DEF RecordHasTicket, HistoryInv, Verdict, TypeOK
<1>5. RecordsKeepEquipment'
  BY <1>1, RecordEquipment DEF RecordsKeepEquipment, TypeOK
<1>6. InFlightInv'
  <2>1. ASSUME NEW q \in Request, q # r PROVE InFlightInv!(q)'
    <3>1. CASE pc[q] \notin InFlight
      BY <2>1, <3>1 DEF InFlightInv, TypeOK, Flushed, InFlight
    <3>2. CASE pc[q] \in InFlight
      <4>1. call[q].eq \in Equipment
        BY <3>2, CallInFlight
      <4>2. /\ pc'[q] = pc[q]
            /\ presence'[call[q].eq] \in {presence[call[q].eq], "deleted"}
            /\ presence[call[q].eq] = "erased" => presence'[call[q].eq] = "erased"
        BY <1>1, <2>1, <4>1 DEF TypeOK
      <4>3. InFlightInv!(q)
        BY DEF InFlightInv
      <4> QED
        BY <2>1, <4>2, <4>3 DEF Verdict
    <3> QED
      BY <3>1, <3>2
  <2>2. InFlightInv!(r)'
    BY <1>1, <1>2 DEF InFlightInv, TypeOK, InFlight, Flushed
  <2> QED
    BY <2>1, <2>2 DEF InFlightInv
<1> QED
  BY <1>3, <1>4, <1>5, <1>6

LEMMA CommitHardDeleteIInv ==
    ASSUME IInv, NEW r \in Request, CommitHardDelete(r) PROVE IInv'
<1> USE DEF IInv, CommitHardDelete, Finish, history
<1>1. call[r].eq \in Equipment
  BY CallInFlight DEF InFlight
<1>2. presence[call[r].eq] # "absent"
  BY DEF InFlightInv, InFlight
<1>3. TypeOK'
  BY <1>1, <1>2 DEF TypeOK, Presence, Answered
<1> USE CommitFinishes, FinishFrame
<1>4. RecordHasTicket' /\ HistoryInv'
  BY DEF RecordHasTicket, HistoryInv, Verdict, TypeOK
<1>5. RecordsKeepEquipment'
  <2>1. ASSUME NEW q \in releves
        PROVE  call'[q] = call[q] /\ presence'[call[q].eq] = presence[call[q].eq]
    BY <1>1, <2>1, RecordEquipment DEF RecordsOf, TypeOK
  <2> QED
    BY <2>1 DEF RecordsKeepEquipment
<1>6. InFlightInv'
  <2>1. ASSUME NEW q \in Request, q # r PROVE InFlightInv!(q)'
    <3>1. CASE pc[q] \notin InFlight
      BY <2>1, <3>1 DEF InFlightInv, TypeOK, Flushed, InFlight
    <3>2. CASE pc[q] \in InFlight
      <4>1. call[q].eq \in Equipment
        BY <3>2, CallInFlight
      <4>2. /\ pc'[q] = pc[q]
            /\ presence'[call[q].eq] \in {presence[call[q].eq], "erased"}
            /\ pc[q] \in Flushed => presence'[call[q].eq] = presence[call[q].eq]
        BY <1>1, <2>1, <4>1 DEF TypeOK
      <4>3. InFlightInv!(q)
        BY DEF InFlightInv
      <4> QED
        BY <2>1, <4>2, <4>3 DEF Verdict
    <3> QED
      BY <3>1, <3>2
  <2>2. InFlightInv!(r)'
    BY <1>1, <1>2 DEF InFlightInv, TypeOK, InFlight, Flushed
  <2> QED
    BY <2>1, <2>2 DEF InFlightInv
<1> QED
  BY <1>3, <1>4, <1>5, <1>6

LEMMA NextIInv == IInv /\ [Next]_vars => IInv'
<1> SUFFICES ASSUME IInv, [Next]_vars PROVE IInv'
  OBVIOUS
<1>1. ASSUME NEW r \in Request, Measure(r) PROVE IInv'
  BY <1>1, LoadIInv DEF Measure, Call, RecordCall
<1>2. ASSUME NEW r \in Request, Patch(r) PROVE IInv'
  <2>1. PICK c \in PatchCall :
          Load(r, c, IF MergedRange(c) THEN {"active"} ELSE {}, "patching")
    BY <1>2 DEF Patch, PatchCall
  <2> QED
    BY <2>1, LoadIInv DEF Call
<1>3. ASSUME NEW r \in Request, SoftDelete(r) \/ HardDelete(r) PROVE IInv'
  BY <1>3, LoadIInv DEF SoftDelete, HardDelete, Call, DeleteCall
<1>4. ASSUME NEW r \in Request, FlushReleve(r) \/ FlushTicket(r) \/ Fail(r) PROVE IInv'
  BY <1>4, GotoIInv, FinishIInv
     DEF Finishing, FlushReleve, FlushTicket, Fail, Answered, InFlight, Flushed
<1>5. CASE UNCHANGED vars
  BY <1>5 DEF IInv, vars, TypeOK, RecordHasTicket, RecordsKeepEquipment, InFlightInv,
              HistoryInv, Verdict
<1> QED
  BY <1>1, <1>2, <1>3, <1>4, <1>5, CreateIInv, CommitRecordIInv, CommitPatchIInv,
     CommitSoftDeleteIInv, CommitHardDeleteIInv DEF Next, Proceed

\* The inductive invariant holds in every behaviour.
THEOREM Invariance == Spec => []IInv
<1>1. Init => IInv
  BY InitIInv
<1>2. IInv /\ [Next /\ NoOverlap']_vars => IInv'
  BY NextIInv
<1> QED
  BY <1>1, <1>2, PTL DEF Spec

\* Every column and every request keeps its type; a created equipment always
\* has both thresholds (no PATCH writes a NULL).
THEOREM TypeCorrect == Spec => []TypeOK
<1>1. IInv => TypeOK
  BY DEF IInv
<1> QED
  BY <1>1, Invariance, PTL

\* A committed record is out of range if and only if it has its ticket: the
\* single transaction of create_temperature_record.
THEOREM RecordHasTicketCorrect == Spec => []RecordHasTicket
<1>1. IInv => RecordHasTicket
  BY DEF IInv
<1> QED
  BY <1>1, Invariance, PTL

\* No interleaving of records and deletions erases the equipment of a record:
\* the foreign key and the lock it takes.
THEOREM RecordsKeepEquipmentCorrect == Spec => []RecordsKeepEquipment
<1>1. IInv => RecordsKeepEquipment
  BY DEF IInv
<1> QED
  BY <1>1, Invariance, PTL

-----------------------------------------------------------------------------
(* Equipment whose requests do not overlap: what each one loaded is still    *)
(* what the row holds.                                                       *)

Loaded == {"measured", "patching"} \cup Flushed

Current ==
    \A r \in Request : pc[r] \in Loaded /\ call[r].eq \in Exclusive =>
        /\ presence[call[r].eq] = "active"
        /\ seen[r] = [lo |-> lo[call[r].eq], hi |-> hi[call[r].eq]]

Merged ==
    \A r \in Request : pc[r] = "patching" =>
        OrElse(call[r].lo, seen[r].lo) < OrElse(call[r].hi, seen[r].hi)

\* A commit does not touch the row of another request in flight.
LEMMA OthersKeepRow ==
    ASSUME IInv, NoOverlap, Current, NEW r \in Request, NEW q \in Request, q # r,
           pc[q] \in Loaded, call[q].eq \in Exclusive,
           CommitPatch(r) \/ CommitSoftDelete(r) \/ CommitHardDelete(r)
    PROVE  /\ pc'[q] = pc[q] /\ call'[q] = call[q] /\ seen'[q] = seen[q]
           /\ presence'[call[q].eq] = presence[call[q].eq]
           /\ lo'[call[q].eq] = lo[call[q].eq]
           /\ hi'[call[q].eq] = hi[call[q].eq]
<1>1. pc[q] \in InFlight /\ pc[r] \in InFlight
  BY DEF CommitPatch, CommitSoftDelete, CommitHardDelete, InFlight, Flushed, Loaded
<1>2. call[q].eq # call[r].eq
  BY <1>1 DEF NoOverlap
<1>3. call[q].eq \in Equipment /\ call[r].eq \in Equipment
  BY <1>1, CallInFlight
<1> QED
  BY <1>2, <1>3, CommitFinishes, FinishFrame
     DEF CommitPatch, CommitSoftDelete, CommitHardDelete, IInv, TypeOK

LEMMA CurrentStep ==
    ASSUME IInv, NoOverlap, Current, Next PROVE Current'
<1>1. ASSUME NEW e \in Equipment, Create(e) PROVE Current'
  <2> SUFFICES ASSUME NEW q \in Request, pc[q] \in Loaded, call[q].eq \in Exclusive
               PROVE  Current!(q)'
    BY <1>1 DEF Current, Create
  <2>1. call[q].eq \in Equipment
    BY CallInFlight DEF Loaded, InFlight
  <2>2. call[q].eq # e
    BY <1>1 DEF Create, Current
  <2> QED
    BY <1>1, <2>1, <2>2 DEF Create, Current, IInv, TypeOK
<1>2. ASSUME NEW r \in Request, NEW c \in Call, NEW visible, NEW next,
             Load(r, c, visible, next), next \in Loaded => visible \subseteq {"active"}
      PROVE  Current'
  BY <1>2 DEF Load, Current, IInv, TypeOK, equipment, Loaded, Flushed
<1>3. ASSUME NEW r \in Request,
             CommitPatch(r) \/ CommitSoftDelete(r) \/ CommitHardDelete(r)
      PROVE  Current'
  <2>1. pc'[r] \notin Loaded
    BY <1>3, CommitFinishes, FinishFrame DEF Loaded, InFlight, Flushed
  <2>2. ASSUME NEW q \in Request, q # r PROVE pc'[q] = pc[q] /\ call'[q] = call[q]
    BY <1>3, <2>2, CommitFinishes, FinishFrame
  <2> QED
    BY <1>3, <2>1, <2>2, OthersKeepRow DEF Current
<1>4. ASSUME NEW r \in Request,
             FlushReleve(r) \/ FlushTicket(r) \/ CommitRecord(r) \/ Fail(r)
      PROVE  Current'
  BY <1>4 DEF FlushReleve, FlushTicket, CommitRecord, Fail, Goto, Finish, Current, IInv, TypeOK,
              equipment, Loaded, Flushed
<1>5. ASSUME NEW r \in Request, Measure(r) PROVE Current'
  BY <1>5, <1>2 DEF Measure, Call, RecordCall
<1>6. ASSUME NEW r \in Request, Patch(r) PROVE Current'
  <2>1. PICK c \in PatchCall :
          Load(r, c, IF MergedRange(c) THEN {"active"} ELSE {}, "patching")
    BY <1>6 DEF Patch, PatchCall
  <2> QED
    BY <1>2, <2>1 DEF Call
<1>7. ASSUME NEW r \in Request, SoftDelete(r) \/ HardDelete(r) PROVE Current'
  BY <1>7, <1>2 DEF SoftDelete, HardDelete, Call, DeleteCall, Loaded, Flushed
<1> QED
  BY <1>1, <1>3, <1>4, <1>5, <1>6, <1>7 DEF Next, Proceed

LEMMA MergedStep == ASSUME IInv, Merged, Next PROVE Merged'
<1>1. ASSUME NEW r \in Request, Patch(r) PROVE Merged'
  <2>1. PICK c \in PatchCall :
          Load(r, c, IF MergedRange(c) THEN {"active"} ELSE {}, "patching")
    BY <1>1 DEF Patch, PatchCall
  <2>2. ASSUME NEW q \in Request, q # r PROVE Merged!(q)'
    BY <2>1, <2>2 DEF Load, Merged, IInv, TypeOK
  <2>3. ASSUME pc'[r] = "patching"
        PROVE  /\ call'[r] = c
               /\ seen'[r] = [lo |-> lo[c.eq], hi |-> hi[c.eq]]
               /\ MergedRange(c) /\ presence[c.eq] = "active"
    BY <2>1, <2>3 DEF Load, IInv, TypeOK
  <2>4. ASSUME pc'[r] = "patching"
        PROVE  seen'[r].lo = lo[c.eq] /\ seen'[r].hi = hi[c.eq]
    BY <2>3, <2>4
  <2>5. Merged!(r)'
    BY <2>3, <2>4 DEF MergedRange, OrElse
  <2> QED
    BY <2>2, <2>5 DEF Merged
<1>2. ASSUME NEW r \in Request, Measure(r) \/ SoftDelete(r) \/ HardDelete(r)
      PROVE  Merged'
  <2>1. ASSUME NEW c, NEW visible, NEW next, next # "patching", Load(r, c, visible, next)
        PROVE  Merged'
    BY <2>1 DEF Load, Merged, IInv, TypeOK
  <2>2. CASE Measure(r)
    BY <2>1, <2>2 DEF Measure
  <2>3. CASE SoftDelete(r)
    BY <2>1, <2>3 DEF SoftDelete
  <2>4. CASE HardDelete(r)
    BY <2>1, <2>4 DEF HardDelete
  <2> QED
    BY <1>2, <2>2, <2>3, <2>4
<1>3. ASSUME NEW r \in Request, Proceed(r) \/ Fail(r) PROVE Merged'
  BY <1>3 DEF Proceed, FlushReleve, FlushTicket, CommitRecord, CommitPatch,
              CommitSoftDelete, CommitHardDelete, Fail, Goto, Finish, Merged, IInv, TypeOK
<1>4. ASSUME NEW e \in Equipment, Create(e) PROVE Merged'
  BY <1>4 DEF Create, Merged
<1> QED
  BY <1>1, <1>2, <1>3, <1>4 DEF Next

ExclusiveInv == IInv /\ NoOverlap /\ Current /\ Merged

LEMMA ExclusiveInvariance == Spec => []ExclusiveInv
<1>1. Init => ExclusiveInv
  BY InitIInv DEF ExclusiveInv, Init, NoOverlap, Current, Merged, InFlight, Flushed, Loaded
<1>2. ExclusiveInv /\ [Next /\ NoOverlap']_vars => ExclusiveInv'
  <2>1. CASE Next /\ NoOverlap'
    BY <2>1, NextIInv, CurrentStep, MergedStep DEF ExclusiveInv
  <2>2. CASE UNCHANGED vars
    BY <2>2, NextIInv DEF ExclusiveInv, vars, NoOverlap, Current, Merged
  <2> QED
    BY <2>1, <2>2
<1> QED
  BY <1>1, <1>2, PTL DEF Spec

\* The rows that enter releves in a step are the one that commits.
LEMMA RecordStep ==
    ASSUME Next, NEW r \in releves' \ releves
    PROVE  r \in Request /\ CommitRecord(r)
<1>1. ASSUME NEW e \in Equipment, Create(e) PROVE FALSE
  BY <1>1 DEF Create, history
<1>2. ASSUME NEW q \in Request, Measure(q) \/ Patch(q) \/ SoftDelete(q) \/ HardDelete(q)
      PROVE  FALSE
  BY <1>2 DEF Measure, Patch, SoftDelete, HardDelete, Load, history
<1>3. ASSUME NEW q \in Request,
             \/ FlushReleve(q) \/ FlushTicket(q) \/ CommitPatch(q)
             \/ CommitSoftDelete(q) \/ CommitHardDelete(q) \/ Fail(q)
      PROVE  FALSE
  BY <1>3 DEF FlushReleve, FlushTicket, CommitPatch, CommitSoftDelete, CommitHardDelete,
              Fail, history
<1>4. ASSUME NEW q \in Request, CommitRecord(q) PROVE q = r
  BY <1>4 DEF CommitRecord
<1> QED
  BY <1>1, <1>2, <1>3, <1>4 DEF Next, Proceed

\* Where the requests for an equipment do not overlap, a record is committed on one
\* that is in use, is judged by the thresholds in force at its commit, and the ticket
\* list would show a positive deviation for exactly the records judged out of range.
THEOREM VerdictCorrect == Spec => VerdictInForce
<1>1. ExclusiveInv /\ [Next /\ NoOverlap']_vars =>
        [\A r \in releves' \ releves :
            call[r].eq \in Exclusive =>
                /\ presence[call[r].eq] = "active"
                /\ Verdict(r) <=> ShownDeviation(r) = 0]_vars
  <2> SUFFICES ASSUME ExclusiveInv, Next, NEW r \in releves' \ releves,
                      call[r].eq \in Exclusive
               PROVE  /\ presence[call[r].eq] = "active"
                      /\ Verdict(r) <=> ShownDeviation(r) = 0
    OBVIOUS
  <2>1. r \in Request /\ CommitRecord(r)
    BY RecordStep
  <2>2. pc[r] \in Flushed
    BY <2>1 DEF CommitRecord
  <2>3. /\ call[r] \in RecordCall /\ seen[r] \in Thresholds
        /\ seen[r] = [lo |-> lo[call[r].eq], hi |-> hi[call[r].eq]]
    BY <2>1, <2>2 DEF ExclusiveInv, IInv, InFlightInv, Current, Loaded
  <2>4. presence[call[r].eq] = "active"
    BY <2>1 DEF CommitRecord, ExclusiveInv, Current, Loaded
  <2>5. /\ seen[r].lo = lo[call[r].eq] /\ seen[r].hi = hi[call[r].eq]
        /\ seen[r].lo \in Int /\ seen[r].hi \in Int /\ call[r].value \in Int
    <3>1. seen[r].lo = lo[call[r].eq] /\ seen[r].hi = hi[call[r].eq]
      BY <2>3
    <3>2. seen[r].lo \in Temp /\ seen[r].hi \in Temp
      BY <2>3 DEF Thresholds
    <3>3. call[r].value \in Temp
      BY <2>3 DEF RecordCall
    <3> QED
      BY <3>1, <3>2, <3>3
  <2> QED
    BY <2>4, <2>5, ComplianceIsNoDeviation DEF Verdict, ShownDeviation
<1> QED
  BY <1>1, ExclusiveInvariance, PTL DEF Spec, VerdictInForce

-----------------------------------------------------------------------------

\* The thresholds change when an equipment is created, or a PATCH commits.
LEMMA ThresholdStep ==
    ASSUME IInv, Next, NEW e \in Equipment, <<lo[e], hi[e]>>' # <<lo[e], hi[e]>>
    PROVE  \/ Create(e)
           \/ \E r \in Request : CommitPatch(r) /\ call[r].eq = e
<1>1. ASSUME NEW d \in Equipment, Create(d) PROVE Create(e)
  BY <1>1 DEF Create, IInv, TypeOK
<1>2. ASSUME NEW r \in Request, CommitPatch(r) PROVE call[r].eq = e
  BY <1>2 DEF CommitPatch, IInv, TypeOK
<1>3. ASSUME NEW r \in Request, CommitSoftDelete(r) \/ CommitHardDelete(r) PROVE FALSE
  BY <1>3 DEF CommitSoftDelete, CommitHardDelete
<1>4. ASSUME NEW r \in Request, Measure(r) \/ Patch(r) \/ SoftDelete(r) \/ HardDelete(r)
      PROVE  FALSE
  BY <1>4 DEF Measure, Patch, SoftDelete, HardDelete, Load, equipment
<1>5. ASSUME NEW r \in Request,
             FlushReleve(r) \/ FlushTicket(r) \/ CommitRecord(r) \/ Fail(r)
      PROVE  FALSE
  BY <1>5 DEF FlushReleve, FlushTicket, CommitRecord, Fail, equipment
<1> QED
  BY <1>1, <1>2, <1>3, <1>4, <1>5 DEF Next, Proceed

\* A PATCH that names no threshold of 0, and commits on the thresholds that it
\* loaded, leaves them in order.
LEMMA CheckedPatch ==
    ASSUME IInv, Merged, NEW r \in Request, CommitPatch(r), NEW e \in Equipment,
           call[r].eq = e, 0 \notin {call[r].lo, call[r].hi},
           seen[r] = [lo |-> lo[e], hi |-> hi[e]], <<lo[e], hi[e]>>' # <<lo[e], hi[e]>>
    PROVE  lo'[e] < hi'[e]
<1>1. pc[r] = "patching" /\ call[r] \in PatchCall /\ seen[r].lo = lo[e] /\ seen[r].hi = hi[e]
  BY DEF CommitPatch, IInv, InFlightInv
<1>2. OrElse(call[r].lo, lo[e]) < OrElse(call[r].hi, hi[e])
  BY <1>1 DEF Merged
<1>3. /\ lo'[e] = Written(call[r].lo, lo[e], lo[e])
      /\ hi'[e] = Written(call[r].hi, hi[e], hi[e])
  BY <1>1 DEF CommitPatch, IInv, TypeOK
<1>4. /\ Written(call[r].lo, lo[e], lo[e]) = OrElse(call[r].lo, lo[e])
      /\ Written(call[r].hi, hi[e], hi[e]) = OrElse(call[r].hi, hi[e])
  BY DEF Written, OrElse
<1> QED
  BY <1>2, <1>3, <1>4

\* However requests interleave, thresholds that change and are left out of order are
\* those of a PATCH that the merged check of update_equipment could not refuse: one
\* with a threshold of 0, or one that overlaps another PATCH.
THEOREM RangeLossExplainedCorrect == Spec => RangeLossExplained
<1> DEFINE Explained ==
        \A e \in Equipment : <<lo[e], hi[e]>>' # <<lo[e], hi[e]>> /\ ~(lo'[e] < hi'[e]) =>
          \E r \in Request :
              /\ pc[r] = "patching" /\ pc'[r] = "ok" /\ call[r].eq = e
              /\ \/ 0 \in {call[r].lo, call[r].hi}
                 \/ e \notin Exclusive /\ seen[r] # [lo |-> lo[e], hi |-> hi[e]]
<1>1. ASSUME ExclusiveInv, Next PROVE Explained
  <2> SUFFICES ASSUME NEW e \in Equipment, <<lo[e], hi[e]>>' # <<lo[e], hi[e]>>,
                      ~(lo'[e] < hi'[e])
               PROVE  \E r \in Request :
                          /\ pc[r] = "patching" /\ pc'[r] = "ok" /\ call[r].eq = e
                          /\ \/ 0 \in {call[r].lo, call[r].hi}
                             \/ /\ e \notin Exclusive
                                /\ seen[r] # [lo |-> lo[e], hi |-> hi[e]]
    OBVIOUS
  <2> USE <1>1
  <2>1. CASE Create(e)
    BY <2>1 DEF Create, ExclusiveInv, IInv, TypeOK
  <2>2. ASSUME NEW r \in Request, CommitPatch(r), call[r].eq = e
        PROVE  /\ pc[r] = "patching" /\ pc'[r] = "ok"
               /\ \/ 0 \in {call[r].lo, call[r].hi}
                  \/ e \notin Exclusive /\ seen[r] # [lo |-> lo[e], hi |-> hi[e]]
    <3>1. pc[r] = "patching" /\ pc'[r] = "ok"
      BY <2>2 DEF CommitPatch, Finish, ExclusiveInv, IInv, TypeOK
    <3>2. e \in Exclusive => seen[r] = [lo |-> lo[e], hi |-> hi[e]]
      BY <2>2, <3>1 DEF ExclusiveInv, Current, Loaded
    <3> QED
      BY <2>2, <3>1, <3>2, CheckedPatch DEF ExclusiveInv
  <2> QED
    BY <2>1, <2>2, ThresholdStep DEF ExclusiveInv
<1>2. ExclusiveInv /\ [Next /\ NoOverlap']_vars => [Explained]_vars
  BY <1>1
<1> HIDE DEF Explained
<1>3. Spec => [][Explained]_vars
  BY <1>2, ExclusiveInvariance, PTL DEF Spec
<1> QED
  BY <1>3 DEF RangeLossExplained, Explained

=============================================================================
