-------------------------- MODULE TimeClockProofs --------------------------
(***************************************************************************)
(* Proofs about TimeClock, for any set of operators and requests, finite   *)
(* or not.                                                                 *)
(***************************************************************************)
EXTENDS TimeClock, TLAPS

USE ExclusiveAssumption, NoneAssumption

-----------------------------------------------------------------------------
(* The inductive invariant: a request that passed the check was licensed by  *)
(* an event committed, and stamped, before it arrived.                       *)

LicensedBefore(r, t) ==
    call[r].type # "CLOCK_IN" =>
        \E q \in EventsOf(call[r].operator) :
            /\ pointe_at[q] < t
            /\ <<call[q].type, call[r].type>> \in LegalSuccession

Progress ==
    \A r \in Request :
        /\ pc[r] # "new" => call[r] \in Call
        /\ r \in pointages <=> pc[r] = "ok"
        /\ pc[r] \in {"stamped", "ok"} => pointe_at[r] <= clock
        /\ pc[r] = "checked" => LicensedBefore(r, clock)
        /\ pc[r] \in {"stamped", "ok"} => LicensedBefore(r, pointe_at[r])

IInv == TypeOK /\ Progress

LEMMA IInvLicensed == IInv => Licensed
BY DEF IInv, Progress, Licensed, LicensedBefore, TypeOK

LEMMA InitIInv == Init => IInv
BY DEF Init, IInv, TypeOK, Progress

\* What passes the check is licensed by the event that was read.
LEMMA CheckIsLegal ==
    ASSUME NEW last \in TypeEvenementPointage \cup {None}, NEW t \in TypeEvenementPointage,
           t \in ValidTransitions(StatusFromEvent(last))
    PROVE  \/ last = None /\ t = "CLOCK_IN"
           \/ <<last, t>> \in LegalSuccession
BY DEF ValidTransitions, StatusFromEvent, LegalSuccession, TypeEvenementPointage

LEMMA LastRead ==
    ASSUME IInv, NEW o \in Operator, NEW last \in LastTypes(o)
    PROVE  /\ last \in TypeEvenementPointage \cup {None}
           /\ last # None => \E q \in Latest(o) : last = call[q].type
           /\ last = None <=> EventsOf(o) = {}
<1>1. ASSUME NEW q \in EventsOf(o)
      PROVE  call[q].type \in TypeEvenementPointage
  BY <1>1 DEF IInv, TypeOK, Progress, EventsOf, Call
<1> QED
  BY <1>1 DEF LastTypes, Latest, TypeEvenementPointage

\* Committed events stay as they are, and a license stays valid.
LEMMA LicenseKept ==
    ASSUME IInv, NEW r \in Request, NEW t \in Nat, NEW u \in Nat, t <= u,
           LicensedBefore(r, t), call'[r] = call[r],
           pointages \subseteq pointages',
           \A q \in pointages : call'[q] = call[q] /\ pointe_at'[q] = pointe_at[q]
    PROVE  LicensedBefore(r, u)'
<1> SUFFICES ASSUME call[r].type # "CLOCK_IN"
             PROVE  LicensedBefore(r, u)'
  BY DEF LicensedBefore
<1>1. PICK q \in EventsOf(call[r].operator) :
        /\ pointe_at[q] < t
        /\ <<call[q].type, call[r].type>> \in LegalSuccession
  BY DEF LicensedBefore
<1>2. q \in pointages /\ pointe_at[q] \in Nat
  BY <1>1 DEF EventsOf, IInv, TypeOK
<1>3. pointe_at'[q] < u /\ call'[q] = call[q]
  BY <1>1, <1>2
<1>4. q \in EventsOf(call[r].operator)'
  BY <1>1, <1>2 DEF EventsOf
<1> QED
  BY <1>1, <1>3, <1>4 DEF LicensedBefore, LegalSuccession

LEMMA CheckIInv == ASSUME IInv, NEW r \in Request, Check(r) PROVE IInv'
<1>0. PICK o \in Operator, t \in TypeEvenementPointage : \E last \in LastTypes(o) :
        /\ pc[r] = "new"
        /\ call' = [call EXCEPT ![r] = [operator |-> o, type |-> t]]
        /\ pc' = [pc EXCEPT ![r] =
                    IF t \in ValidTransitions(StatusFromEvent(last)) THEN "checked"
                    ELSE "rejected"]
        /\ clock' = clock + 1
        /\ UNCHANGED <<pointages, pointe_at>>
  BY DEF Check
<1>1. PICK last \in LastTypes(o) :
        /\ pc[r] = "new"
        /\ call' = [call EXCEPT ![r] = [operator |-> o, type |-> t]]
        /\ pc' = [pc EXCEPT ![r] =
                    IF t \in ValidTransitions(StatusFromEvent(last)) THEN "checked"
                    ELSE "rejected"]
        /\ clock' = clock + 1
        /\ UNCHANGED <<pointages, pointe_at>>
  BY <1>0
<1>2. r \notin pointages
  BY <1>1 DEF IInv, Progress
<1>now. PICK now \in Nat : now = clock' /\ clock < now
  BY <1>1 DEF IInv, TypeOK
<1>3. \A q \in pointages : call'[q] = call[q] /\ pointe_at'[q] = pointe_at[q]
  BY <1>1, <1>2 DEF IInv, TypeOK
<1>4. [operator |-> o, type |-> t] \in Call
  BY DEF Call
<1>5. TypeOK'
  BY <1>1, <1>4 DEF IInv, TypeOK, InFlight, Answered
<1>6. ASSUME NEW q \in Request, q # r PROVE Progress!(q)'
  <2>1. pc'[q] = pc[q] /\ call'[q] = call[q] /\ clock \in Nat /\ pointe_at[q] \in Nat
    BY <1>1, <1>6 DEF IInv, TypeOK
  <2>2. pc[q] = "checked" => LicensedBefore(q, now)'
    BY <1>1, <1>3, <1>now, <2>1, LicenseKept DEF IInv, Progress
  <2>3. pc[q] \in {"stamped", "ok"} => LicensedBefore(q, pointe_at[q])'
    BY <1>1, <1>3, <2>1, LicenseKept DEF IInv, Progress
  <2> QED
    BY <1>1, <1>now, <2>1, <2>2, <2>3 DEF IInv, Progress, LicensedBefore
<1>7. Progress!(r)'
  <2>1. call'[r] = [operator |-> o, type |-> t] /\ pc'[r] \in {"checked", "rejected"}
    BY <1>1 DEF IInv, TypeOK
  <2>2. CASE pc'[r] = "checked"
    <3>1. t \in ValidTransitions(StatusFromEvent(last))
      BY <1>1, <2>2 DEF IInv, TypeOK
    <3>2. SUFFICES ASSUME t # "CLOCK_IN" PROVE LicensedBefore(r, now)'
      BY <1>1, <1>2, <1>4, <1>now, <2>1, <2>2 DEF LicensedBefore
    <3>3. PICK q \in Latest(o) : <<call[q].type, t>> \in LegalSuccession
      <4>1. <<last, t>> \in LegalSuccession /\ last # None
        BY <3>1, <3>2, CheckIsLegal, LastRead DEF LegalSuccession
      <4>2. PICK q \in Latest(o) : last = call[q].type
        BY <4>1, LastRead
      <4> QED
        BY <4>1, <4>2
    <3>4. q \in EventsOf(o) /\ q \in pointages /\ call[q].operator = o
      BY <3>3 DEF Latest, EventsOf
    <3>5. pointe_at[q] \in Nat /\ pointe_at[q] <= clock /\ clock \in Nat
      BY <3>4 DEF IInv, TypeOK, Progress
    <3>6. pointe_at'[q] < now /\ call'[q] = call[q]
      BY <1>1, <1>3, <1>now, <3>4, <3>5
    <3>7. q \in EventsOf(o)'
      BY <1>1, <3>4, <3>6 DEF EventsOf
    <3> QED
      BY <2>1, <3>3, <3>6, <3>7 DEF LicensedBefore
  <2>3. CASE pc'[r] = "rejected"
    BY <1>1, <1>2, <1>4, <2>1, <2>3
  <2> QED
    BY <2>1, <2>2, <2>3
<1> QED
  BY <1>5, <1>6, <1>7 DEF IInv, Progress

LEMMA StampIInv == ASSUME IInv, NEW r \in Request, Stamp(r) PROVE IInv'
<1>1. PICK now \in {clock, clock + 1} :
        /\ pc[r] = "checked"
        /\ clock' = now
        /\ pointe_at' = [pointe_at EXCEPT ![r] = now]
        /\ pc' = [pc EXCEPT ![r] = "stamped"]
        /\ UNCHANGED <<pointages, call>>
  BY DEF Stamp
<1>2. r \notin pointages /\ clock \in Nat /\ now \in Nat /\ clock <= now
  BY <1>1 DEF IInv, Progress, TypeOK
<1>3. \A q \in pointages : call'[q] = call[q] /\ pointe_at'[q] = pointe_at[q]
  BY <1>1, <1>2 DEF IInv, TypeOK
<1>4. TypeOK'
  BY <1>1, <1>2 DEF IInv, TypeOK, InFlight
<1>5. ASSUME NEW q \in Request, q # r PROVE Progress!(q)'
  <2>1. pc'[q] = pc[q] /\ call'[q] = call[q] /\ pointe_at'[q] = pointe_at[q]
        /\ pointe_at[q] \in Nat
    BY <1>1, <1>5 DEF IInv, TypeOK
  <2>2. pc[q] = "checked" => LicensedBefore(q, now)'
    BY <1>1, <1>2, <1>3, <2>1, LicenseKept DEF IInv, Progress
  <2>3. pc[q] \in {"stamped", "ok"} => LicensedBefore(q, pointe_at[q])'
    BY <1>1, <1>3, <2>1, LicenseKept DEF IInv, Progress
  <2> QED
    BY <1>1, <1>2, <2>1, <2>2, <2>3 DEF IInv, Progress, LicensedBefore
<1>6. Progress!(r)'
  <2>1. LicensedBefore(r, now)'
    BY <1>1, <1>2, <1>3, LicenseKept DEF IInv, Progress
  <2>2. pc'[r] = "stamped" /\ pointe_at'[r] = now
    BY <1>1 DEF IInv, TypeOK
  <2> QED
    BY <1>1, <1>2, <2>1, <2>2 DEF IInv, Progress, LicensedBefore
<1> QED
  BY <1>4, <1>5, <1>6 DEF IInv, Progress

LEMMA CommitIInv == ASSUME IInv, NEW r \in Request, Commit(r) PROVE IInv'
<1> USE DEF Commit
<1>1. TypeOK'
  BY DEF IInv, TypeOK, Answered
<1>2. ASSUME NEW q \in Request PROVE Progress!(q)'
  <2>1. clock \in Nat /\ pointe_at[q] \in Nat
    BY DEF IInv, TypeOK
  <2>2. pc[q] = "checked" => LicensedBefore(q, clock)'
    BY <2>1, LicenseKept DEF IInv, Progress
  <2>3. pc[q] \in {"stamped", "ok"} => LicensedBefore(q, pointe_at[q])'
    BY <2>1, LicenseKept DEF IInv, Progress
  <2> QED
    BY <2>1, <2>2, <2>3 DEF IInv, Progress, TypeOK, LicensedBefore
<1> QED
  BY <1>1, <1>2 DEF IInv, Progress

LEMMA FailIInv == ASSUME IInv, NEW r \in Request, Fail(r) PROVE IInv'
<1> USE DEF Fail
<1>1. TypeOK'
  BY DEF IInv, TypeOK, Answered
<1>2. ASSUME NEW q \in Request PROVE Progress!(q)'
  BY DEF IInv, Progress, TypeOK, LicensedBefore, EventsOf, InFlight
<1> QED
  BY <1>1, <1>2 DEF IInv, Progress

LEMMA NextIInv == IInv /\ [Next]_vars => IInv'
<1>1. ASSUME IInv, UNCHANGED vars PROVE IInv'
  BY <1>1 DEF IInv, vars, TypeOK, Progress, LicensedBefore, EventsOf
<1> QED
  BY <1>1, CheckIInv, StampIInv, CommitIInv, FailIInv DEF Next

\* The inductive invariant holds in every behaviour.
THEOREM Invariance == Spec => []IInv
<1>1. IInv /\ [Next /\ NoOverlap']_vars => IInv'
  BY NextIInv
<1> QED
  BY <1>1, InitIInv, PTL DEF Spec

\* Every column and every request keeps its type.
THEOREM TypeCorrect == Spec => []TypeOK
<1>1. IInv => TypeOK
  BY DEF IInv
<1> QED
  BY <1>1, Invariance, PTL

\* However requests interleave, a break, its end or a clock-out is preceded by
\* an event of the same operator that allows it.
THEOREM LicensedCorrect == Spec => []Licensed
<1> QED
  BY IInvLicensed, Invariance, PTL

-----------------------------------------------------------------------------
(* Operators whose requests do not overlap: what a request read is still the *)
(* last event of the log, and its stamp is later than every event.           *)

Distinct ==
    \A o \in Exclusive : \A q, r \in EventsOf(o) : q # r => pointe_at[q] # pointe_at[r]

HasLatest == \A o \in Exclusive : EventsOf(o) # {} => Latest(o) # {}

UpToDate ==
    \A r \in Request : pc[r] \in InFlight /\ call[r].operator \in Exclusive =>
        /\ \E last \in LastTypes(call[r].operator) :
              call[r].type \in ValidTransitions(StatusFromEvent(last))
        /\ \A q \in EventsOf(call[r].operator) :
              /\ pc[r] = "checked" => pointe_at[q] < clock
              /\ pc[r] = "stamped" => pointe_at[q] < pointe_at[r]

LogInv == Distinct /\ HasLatest /\ LegalLog

ExclusiveInv == IInv /\ NoOverlap /\ LogInv /\ UpToDate

LEMMA InitExclusiveInv == Init => ExclusiveInv
BY InitIInv DEF ExclusiveInv, Init, NoOverlap, LogInv, UpToDate, Distinct, HasLatest, LegalLog,
                LegalLogOf, EventsOf, InFlight

LEMMA OperatorKnown ==
    ASSUME IInv, NEW r \in Request, pc[r] # "new"
    PROVE  call[r].operator \in Operator /\ call[r].type \in TypeEvenementPointage
BY DEF IInv, Progress, Call

\* A log that keeps its events keeps everything that is read off it.
LEMMA SameLog ==
    ASSUME pointages' = pointages,
           \A q \in pointages : call'[q] = call[q] /\ pointe_at'[q] = pointe_at[q]
    PROVE  /\ LogInv => LogInv'
           /\ \A o \in Operator : EventsOf(o)' = EventsOf(o) /\ LastTypes(o)' = LastTypes(o)
<1>1. \A o : EventsOf(o)' = EventsOf(o)
  BY DEF EventsOf
<1>2. \A o : EventsOf(o) \subseteq pointages
  BY DEF EventsOf
<1>3. \A o : Latest(o)' = Latest(o)
  BY <1>1, <1>2 DEF Latest
<1>4. \A o : Latest(o) \subseteq pointages
  BY <1>2 DEF Latest
<1>5. \A o : LastTypes(o)' = LastTypes(o)
  <2> SUFFICES ASSUME NEW o PROVE LastTypes(o)' = LastTypes(o)
    OBVIOUS
  <2>1. {call[r].type : r \in Latest(o)}' = {call[r].type : r \in Latest(o)}
    BY <1>3, <1>4
  <2> QED
    BY <1>1, <2>1 DEF LastTypes
<1>6. Distinct => Distinct'
  BY <1>1, <1>2 DEF Distinct
<1>7. HasLatest => HasLatest'
  BY <1>1, <1>3 DEF HasLatest
<1>8. LegalLog => LegalLog'
  <2> SUFFICES ASSUME LegalLog, NEW o \in Exclusive, NEW q \in EventsOf(o), NEW r \in EventsOf(o),
                      Before(q, r)'
               PROVE  <<call'[q].type, call'[r].type>> \in LegalSuccession
    BY <1>1 DEF LegalLog, LegalLogOf, LegalSuccession
  <2>1. call'[q] = call[q] /\ call'[r] = call[r]
    BY <1>2
  <2>2. \A x \in EventsOf(call[r].operator) \cup {q, r} : pointe_at'[x] = pointe_at[x]
    BY <1>2
  <2>3. Before(q, r)
    BY <1>1, <2>1, <2>2 DEF Before
  <2> QED
    BY <2>1, <2>3 DEF LegalLog, LegalLogOf
<1> QED
  BY <1>1, <1>5, <1>6, <1>7, <1>8 DEF LogInv

LEMMA CheckExclusive ==
    ASSUME ExclusiveInv, NEW r \in Request, Check(r) PROVE LogInv' /\ UpToDate'
<1>1. /\ pc[r] = "new"
      /\ clock' = clock + 1
      /\ UNCHANGED <<pointages, pointe_at>>
      /\ \A q \in Request : q # r => pc'[q] = pc[q] /\ call'[q] = call[q]
  BY DEF Check, ExclusiveInv, IInv, TypeOK
<1>2. \A q \in pointages : call'[q] = call[q] /\ pointe_at'[q] = pointe_at[q]
  BY <1>1 DEF ExclusiveInv, IInv, Progress, TypeOK
<1>3. LogInv' /\ \A o \in Operator : EventsOf(o)' = EventsOf(o) /\ LastTypes(o)' = LastTypes(o)
  BY <1>1, <1>2, SameLog DEF ExclusiveInv
<1>4. clock \in Nat /\ \A q \in pointages : pointe_at[q] \in Nat /\ pointe_at[q] <= clock
  BY DEF ExclusiveInv, IInv, TypeOK, Progress
<1>5. \A o \in Operator : \A q \in EventsOf(o) : q \in pointages
  BY DEF EventsOf
<1>6. ASSUME NEW q \in Request, q # r PROVE UpToDate!(q)'
  <2> SUFFICES ASSUME pc[q] \in InFlight PROVE UpToDate!(q)'
    BY <1>1, <1>6
  <2>1. call[q].operator \in Operator
    BY OperatorKnown DEF ExclusiveInv, InFlight
  <2> QED
    BY <1>1, <1>3, <1>4, <1>5, <1>6, <2>1 DEF ExclusiveInv, UpToDate
<1>7. UpToDate!(r)'
  <2> SUFFICES ASSUME pc'[r] \in InFlight PROVE UpToDate!(r)'
    OBVIOUS
  <2>1. PICK o \in Operator, t \in TypeEvenementPointage :
          /\ call' = [call EXCEPT ![r] = [operator |-> o, type |-> t]]
          /\ \E last \in LastTypes(o) :
               pc' = [pc EXCEPT ![r] =
                        IF t \in ValidTransitions(StatusFromEvent(last)) THEN "checked"
                        ELSE "rejected"]
    BY DEF Check
  <2>2. pc'[r] = "checked"
        /\ \E last \in LastTypes(o) : t \in ValidTransitions(StatusFromEvent(last))
    BY <2>1 DEF ExclusiveInv, IInv, TypeOK, InFlight
  <2>3. call'[r] = [operator |-> o, type |-> t]
    BY <2>1 DEF ExclusiveInv, IInv, TypeOK
  <2>4. call'[r].operator = o /\ call'[r].type = t
    BY <2>3
  <2>5. \A q \in EventsOf(o)' : pointe_at'[q] < clock'
    BY <1>1, <1>3, <1>4, <1>5
  <2>6. \E last \in LastTypes(o)' : t \in ValidTransitions(StatusFromEvent(last))
    BY <1>3, <2>2
  <2> QED
    BY <2>2, <2>4, <2>5, <2>6 DEF ValidTransitions, StatusFromEvent
<1> QED
  BY <1>3, <1>6, <1>7 DEF UpToDate

LEMMA StampExclusive ==
    ASSUME ExclusiveInv, NEW r \in Request, Stamp(r) PROVE LogInv' /\ UpToDate'
<1>1. PICK now \in {clock, clock + 1} :
        /\ pc[r] = "checked"
        /\ clock' = now
        /\ pointe_at' = [pointe_at EXCEPT ![r] = now]
        /\ pc' = [pc EXCEPT ![r] = "stamped"]
        /\ UNCHANGED <<pointages, call>>
  BY DEF Stamp
<1>2. r \notin pointages /\ clock \in Nat /\ clock <= now /\ now \in Nat
  BY <1>1 DEF ExclusiveInv, IInv, Progress, TypeOK
<1>3. \A q \in pointages : call'[q] = call[q] /\ pointe_at'[q] = pointe_at[q]
                           /\ pointe_at[q] \in Nat
  BY <1>1, <1>2 DEF ExclusiveInv, IInv, TypeOK
<1>4. LogInv' /\ \A o \in Operator : EventsOf(o)' = EventsOf(o) /\ LastTypes(o)' = LastTypes(o)
  BY <1>1, <1>3, SameLog DEF ExclusiveInv
<1>5. \A o \in Operator : \A q \in EventsOf(o) : q \in pointages
  BY DEF EventsOf
<1>6. ASSUME NEW q \in Request PROVE UpToDate!(q)'
  <2> SUFFICES ASSUME pc'[q] \in InFlight, call'[q].operator \in Exclusive
               PROVE  UpToDate!(q)'
    OBVIOUS
  <2>1. pc[q] \in InFlight /\ call'[q] = call[q] /\ call[q].operator \in Exclusive
    BY <1>1 DEF ExclusiveInv, IInv, TypeOK, InFlight
  <2>2. call[q].operator \in Operator
    BY <2>1, OperatorKnown DEF ExclusiveInv, InFlight
  <2>3. \E last \in LastTypes(call[q].operator)' :
           call[q].type \in ValidTransitions(StatusFromEvent(last))
    BY <1>4, <2>1, <2>2 DEF ExclusiveInv, UpToDate
  <2>4. ASSUME NEW e \in EventsOf(call[q].operator)'
        PROVE  /\ pc'[q] = "checked" => pointe_at'[e] < clock'
               /\ pc'[q] = "stamped" => pointe_at'[e] < pointe_at'[q]
    <3>1. e \in EventsOf(call[q].operator) /\ pointe_at'[e] = pointe_at[e] /\ pointe_at[e] \in Nat
      BY <1>1, <1>3, <2>1, <2>4 DEF EventsOf
    <3>2. /\ pc[q] = "checked" => pointe_at[e] < clock
          /\ pc[q] = "stamped" => pointe_at[e] < pointe_at[q]
      BY <2>1, <3>1 DEF ExclusiveInv, UpToDate
    <3>3. CASE q = r
      BY <1>1, <1>2, <3>1, <3>2, <3>3 DEF ExclusiveInv, IInv, TypeOK
    <3>4. CASE q # r
      BY <1>1, <1>2, <3>1, <3>2, <3>4 DEF ExclusiveInv, IInv, TypeOK
    <3> QED
      BY <3>3, <3>4
  <2> QED
    BY <2>1, <2>3, <2>4 DEF ValidTransitions, StatusFromEvent
<1> QED
  BY <1>4, <1>6 DEF UpToDate

LEMMA FailExclusive ==
    ASSUME ExclusiveInv, NEW r \in Request, Fail(r) PROVE LogInv' /\ UpToDate'
<1>1. LogInv' /\ \A o \in Operator : EventsOf(o)' = EventsOf(o) /\ LastTypes(o)' = LastTypes(o)
  BY SameLog DEF Fail, ExclusiveInv
<1>2. ASSUME NEW q \in Request PROVE UpToDate!(q)'
  <2> SUFFICES ASSUME pc'[q] \in InFlight PROVE UpToDate!(q)'
    OBVIOUS
  <2>1. pc'[q] = pc[q] /\ UNCHANGED <<clock, call, pointe_at>>
    BY DEF Fail, ExclusiveInv, IInv, TypeOK, InFlight
  <2>2. call[q].operator \in Operator
    BY <2>1, OperatorKnown DEF ExclusiveInv, InFlight
  <2> QED
    BY <1>1, <2>1, <2>2 DEF ExclusiveInv, UpToDate
<1> QED
  BY <1>1, <1>2 DEF UpToDate

-----------------------------------------------------------------------------
(* The commit of an event whose operator has no other request in flight.     *)

LEMMA CommitLog ==
    ASSUME ExclusiveInv, NEW r \in Request, Commit(r), NEW o, o = call[r].operator
    PROVE  /\ o \in Operator /\ r \notin EventsOf(o)
           /\ \A p \in Operator \ {o} :
                EventsOf(p)' = EventsOf(p) /\ Latest(p)' = Latest(p)
                /\ LastTypes(p)' = LastTypes(p)
<1> USE DEF Commit
<1>1. o \in Operator /\ r \notin EventsOf(o)
  BY OperatorKnown DEF ExclusiveInv, IInv, Progress, EventsOf
<1>2. \A p \in Operator \ {o} : EventsOf(p)' = EventsOf(p)
  BY DEF EventsOf
<1>3. \A p \in Operator \ {o} : Latest(p)' = Latest(p)
  BY <1>2 DEF Latest
<1>4. \A p \in Operator \ {o} : LastTypes(p)' = LastTypes(p)
  BY <1>2, <1>3 DEF LastTypes
<1> QED
  BY <1>1, <1>2, <1>3, <1>4

LEMMA CommitOwnLog ==
    ASSUME ExclusiveInv, NEW r \in Request, Commit(r), NEW o \in Exclusive, o = call[r].operator
    PROVE  /\ \A q \in EventsOf(o) : pointe_at[q] < pointe_at[r] /\ pointe_at[q] \in Nat
           /\ EventsOf(o)' = EventsOf(o) \cup {r}
           /\ Latest(o)' = {r}
           /\ LastTypes(o)' = {call[r].type}
<1> USE DEF Commit
<1>1. \A q \in EventsOf(o) : pointe_at[q] < pointe_at[r] /\ pointe_at[q] \in Nat
  BY DEF ExclusiveInv, IInv, TypeOK, UpToDate, InFlight, EventsOf
<1>2. EventsOf(o)' = EventsOf(o) \cup {r} /\ pointe_at[r] \in Nat
  BY DEF EventsOf, ExclusiveInv, IInv, TypeOK
<1>3. Latest(o)' = {r}
  BY <1>1, <1>2 DEF Latest
<1>4. LastTypes(o)' = {call[r].type}
  BY <1>2, <1>3 DEF LastTypes
<1> QED
  BY <1>1, <1>2, <1>3, <1>4

\* The last event of a log is unique, and it is what the status is read from.
LEMMA UniqueLast ==
    ASSUME ExclusiveInv, NEW o \in Exclusive, NEW last \in LastTypes(o)
    PROVE  \/ EventsOf(o) = {} /\ LastTypes(o) = {None} /\ last = None
           \/ \E m \in EventsOf(o) :
                /\ Latest(o) = {m} /\ LastTypes(o) = {call[m].type} /\ last = call[m].type
                /\ \A q \in EventsOf(o) : q # m => pointe_at[q] < pointe_at[m]
<1>1. CASE EventsOf(o) = {}
  BY <1>1 DEF LastTypes
<1>2. CASE EventsOf(o) # {}
  <2>1. PICK m \in Latest(o) : TRUE
    BY <1>2 DEF ExclusiveInv, LogInv, HasLatest
  <2>2. \A q \in EventsOf(o) : pointe_at[q] \in Nat
    BY DEF EventsOf, ExclusiveInv, IInv, TypeOK
  <2>3. m \in EventsOf(o) /\ \A q \in EventsOf(o) : q # m => pointe_at[q] < pointe_at[m]
    BY <2>1, <2>2 DEF Latest, ExclusiveInv, LogInv, Distinct
  <2>4. Latest(o) = {m}
    BY <2>1, <2>2, <2>3 DEF Latest
  <2>5. LastTypes(o) = {call[m].type}
    BY <1>2, <2>4 DEF LastTypes
  <2> QED
    BY <2>3, <2>4, <2>5
<1> QED
  BY <1>1, <1>2

LEMMA CommitLegal ==
    ASSUME ExclusiveInv, NEW r \in Request, Commit(r) PROVE LegalLog'
<1> PICK o : o = call[r].operator
  OBVIOUS
<1> USE DEF Commit
<1>1. /\ o \in Operator /\ r \notin EventsOf(o)
      /\ \A p \in Operator \ {o} : EventsOf(p)' = EventsOf(p)
      /\ pointe_at[r] \in Nat
  BY CommitLog DEF ExclusiveInv, IInv, TypeOK
<1>own. ASSUME o \in Exclusive
        PROVE  /\ \A q \in EventsOf(o) : pointe_at[q] < pointe_at[r] /\ pointe_at[q] \in Nat
               /\ EventsOf(o)' = EventsOf(o) \cup {r}
  BY <1>own, CommitOwnLog
<1>2. SUFFICES ASSUME NEW p \in Exclusive, NEW x \in EventsOf(p)', NEW y \in EventsOf(p)',
                      Before(x, y)'
               PROVE  <<call[x].type, call[y].type>> \in LegalSuccession
  BY DEF LegalLog, LegalLogOf, LegalSuccession
<1>3. /\ call[y].operator = p /\ x # y /\ pointe_at[x] <= pointe_at[y]
      /\ \A z \in EventsOf(p)' \ {x, y} :
            ~(pointe_at[x] < pointe_at[z] /\ pointe_at[z] < pointe_at[y])
  <2>1. UNCHANGED <<call, pointe_at>>
    OBVIOUS
  <2>2. call[y].operator = p
    BY <2>1 DEF EventsOf
  <2>3. EventsOf(call[y].operator)' = EventsOf(p)'
    BY <2>1, <2>2 DEF EventsOf
  <2> QED
    BY <1>2, <2>1, <2>2, <2>3 DEF Before
<1>4. CASE x \in EventsOf(p) /\ y \in EventsOf(p)
  <2>1. EventsOf(p) \subseteq EventsOf(p)'
    BY <1>1, <1>own
  <2>2. Before(x, y)
    BY <1>3, <2>1 DEF Before
  <2> QED
    BY <1>4, <2>2 DEF ExclusiveInv, LogInv, LegalLog, LegalLogOf
<1>5. CASE x = r
  <2>1. p = o /\ y \in EventsOf(o)
    <3>1. call[x].operator = p
      BY DEF EventsOf
    <3> QED
      BY <1>1, <1>3, <1>5, <1>own, <3>1
  <2> QED
    BY <1>1, <1>3, <1>5, <1>own, <2>1
<1>6. CASE x # r /\ y = r
  <2>1. p = o /\ x \in EventsOf(o)
    BY <1>1, <1>3, <1>6, <1>own
  <2>2. PICK last \in LastTypes(o) : call[r].type \in ValidTransitions(StatusFromEvent(last))
    BY <2>1 DEF ExclusiveInv, UpToDate, InFlight
  <2>3. PICK m \in EventsOf(o) :
          /\ last = call[m].type
          /\ \A q \in EventsOf(o) : q # m => pointe_at[q] < pointe_at[m]
    BY <1>1, <2>1, <2>2, UniqueLast
  <2>4. x = m
    <3> SUFFICES ASSUME x # m PROVE FALSE
      OBVIOUS
    <3>1. pointe_at[x] < pointe_at[m] /\ pointe_at[m] < pointe_at[r]
      BY <1>1, <1>own, <2>1, <2>3
    <3>2. m \in EventsOf(o)' \ {x, r}
      BY <1>1, <1>own, <2>1, <2>3
    <3> QED
      BY <1>3, <1>6, <2>1, <3>1, <3>2
  <2>5. last # None /\ last \in TypeEvenementPointage /\ call[r].type \in TypeEvenementPointage
    <3>1. pc[m] # "new" /\ m \in Request
      BY <2>3 DEF EventsOf, ExclusiveInv, IInv, TypeOK, Progress
    <3>2. last \in TypeEvenementPointage /\ call[r].type \in TypeEvenementPointage
      BY <2>3, <3>1, OperatorKnown DEF ExclusiveInv
    <3> QED
      BY <3>2 DEF TypeEvenementPointage
  <2>6. <<last, call[r].type>> \in LegalSuccession
    BY <2>2, <2>5, CheckIsLegal
  <2> QED
    BY <1>6, <2>3, <2>4, <2>6
<1> QED
  BY <1>1, <1>own, <1>4, <1>5, <1>6

LEMMA CommitExclusive ==
    ASSUME ExclusiveInv, NEW r \in Request, Commit(r) PROVE LogInv' /\ UpToDate'
<1> PICK o : o = call[r].operator
  OBVIOUS
<1> USE DEF Commit
<1>1. /\ o \in Operator /\ r \notin EventsOf(o)
      /\ \A p \in Operator \ {o} :
           EventsOf(p)' = EventsOf(p) /\ Latest(p)' = Latest(p) /\ LastTypes(p)' = LastTypes(p)
      /\ pointe_at[r] \in Nat
  BY CommitLog DEF ExclusiveInv, IInv, TypeOK
<1>own. ASSUME o \in Exclusive
        PROVE  /\ \A q \in EventsOf(o) : pointe_at[q] < pointe_at[r] /\ pointe_at[q] \in Nat
               /\ EventsOf(o)' = EventsOf(o) \cup {r}
               /\ Latest(o)' = {r}
  BY <1>own, CommitOwnLog
<1>2. Distinct'
  BY <1>1, <1>own DEF ExclusiveInv, LogInv, Distinct
<1>3. HasLatest'
  BY <1>1, <1>own DEF ExclusiveInv, LogInv, HasLatest
<1>4. UpToDate'
  <2> SUFFICES ASSUME NEW q \in Request, pc'[q] \in InFlight, call[q].operator \in Exclusive
               PROVE  UpToDate!(q)'
    BY DEF UpToDate
  <2>1. q # r /\ pc'[q] = pc[q]
    BY DEF ExclusiveInv, IInv, TypeOK, InFlight
  <2>2. call[q].operator \in Operator \ {o}
    BY <2>1 DEF ExclusiveInv, NoOverlap, InFlight
  <2> QED
    BY <1>1, <2>1, <2>2 DEF ExclusiveInv, UpToDate
<1> QED
  BY <1>2, <1>3, <1>4, CommitLegal DEF LogInv

LEMMA ExclusiveInvariance == Spec => []ExclusiveInv
<1>1. ExclusiveInv /\ [Next /\ NoOverlap']_vars => ExclusiveInv'
  <2>1. CASE Next /\ NoOverlap'
    BY <2>1, NextIInv, CheckExclusive, StampExclusive, CommitExclusive, FailExclusive DEF Next, ExclusiveInv
  <2>2. CASE UNCHANGED vars
    <3>1. LogInv => LogInv'
      BY <2>2, SameLog DEF vars
    <3>2. \A o : LastTypes(o)' = LastTypes(o) /\ EventsOf(o)' = EventsOf(o)
      BY <2>2 DEF vars, LastTypes, EventsOf, Latest
    <3>3. UpToDate => UpToDate'
      BY <2>2, <3>2 DEF vars, UpToDate
    <3> QED
      BY <2>2, <3>1, <3>3, NextIInv DEF ExclusiveInv, NoOverlap, vars
  <2> QED
    BY <2>1, <2>2
<1> QED
  BY <1>1, InitExclusiveInv, PTL DEF Spec

\* Where the requests of an operator do not overlap, every event of the log is
\* allowed by the event just before it: checking the last event is enough.
THEOREM LegalLogCorrect == Spec => []LegalLog
<1>1. ExclusiveInv => LegalLog
  BY DEF ExclusiveInv, LogInv
<1> QED
  BY <1>1, ExclusiveInvariance, PTL

\* However requests interleave, an event of the log stays as it is; where those of an
\* operator do not overlap, an event comes at the end of the log.
THEOREM LogGrowsAtEndCorrect == Spec => LogGrowsAtEnd
<1> DEFINE Grows ==
        /\ \A r \in pointages :
              r \in pointages' /\ call'[r] = call[r] /\ pointe_at'[r] = pointe_at[r]
        /\ \A r \in pointages' \ pointages :
              call[r].operator \in Exclusive => Latest(call[r].operator)' = {r}
<1>1. ASSUME ExclusiveInv, NEW r \in Request, Check(r) \/ Stamp(r) \/ Fail(r)
      PROVE  Grows
  <2>1. pointages' = pointages /\ (pc[r] = "new" \/ pc[r] \in InFlight)
    BY <1>1 DEF Check, Stamp, Fail, InFlight
  <2>2. r \notin pointages
    BY <1>1, <2>1 DEF InFlight, ExclusiveInv, IInv, Progress
  <2>3. \A q \in pointages : call'[q] = call[q] /\ pointe_at'[q] = pointe_at[q]
    BY <1>1, <2>2 DEF Check, Stamp, Fail, ExclusiveInv, IInv, TypeOK
  <2> QED
    BY <2>1, <2>3
<1>2. ASSUME ExclusiveInv, NEW r \in Request, Commit(r) PROVE Grows
  <2>1. pointages' = pointages \cup {r} /\ UNCHANGED <<call, pointe_at>>
    BY <1>2 DEF Commit
  <2>2. call[r].operator \in Exclusive => Latest(call[r].operator)' = {r}
    <3> SUFFICES ASSUME NEW o \in Exclusive, o = call[r].operator
                 PROVE  Latest(o)' = {r} /\ UNCHANGED call
      OBVIOUS
    <3> QED
      BY <1>2, <2>1, CommitOwnLog
  <2> QED
    BY <2>1, <2>2
<1>3. ExclusiveInv /\ [Next /\ NoOverlap']_vars => [Grows]_vars
  BY <1>1, <1>2 DEF Next
<1> HIDE DEF Grows
<1>4. Spec => [][Grows]_vars
  BY <1>3, ExclusiveInvariance, PTL DEF Spec
<1> QED
  BY <1>4 DEF LogGrowsAtEnd, Grows

-----------------------------------------------------------------------------
(* The status derived from the log refines a status that is kept.            *)

LEMMA ShownIsRead ==
    ASSUME NEW o, NEW last, LastTypes(o) = {last}
    PROVE  ShownStatus(o) = StatusFromEvent(last)
BY DEF ShownStatus

LEMMA SameShown ==
    ASSUME \A o \in Exclusive : LastTypes(o)' = LastTypes(o)
    PROVE  [o \in Exclusive |-> ShownStatus(o)]' = [o \in Exclusive |-> ShownStatus(o)]
<1>1. \A o \in Exclusive : ShownStatus(o)' = ShownStatus(o)
  <2> SUFFICES ASSUME NEW o \in Exclusive PROVE ShownStatus(o)' = ShownStatus(o)
    OBVIOUS
  <2>1. {StatusFromEvent(type) : type \in LastTypes(o)}'
          = {StatusFromEvent(type) : type \in LastTypes(o)}
    BY DEF StatusFromEvent
  <2> QED
    BY <2>1 DEF ShownStatus
<1> QED
  BY <1>1

LEMMA LegalMove ==
    ASSUME NEW last \in TypeEvenementPointage \cup {None}, NEW t \in TypeEvenementPointage,
           t \in ValidTransitions(StatusFromEvent(last))
    PROVE  \/ StatusFromEvent(last) = "CLOCKED_OUT" /\ StatusFromEvent(t) = "ACTIVE"
           \/ StatusFromEvent(last) = "ACTIVE" /\ StatusFromEvent(t) = "ON_BREAK"
           \/ StatusFromEvent(last) = "ON_BREAK" /\ StatusFromEvent(t) = "ACTIVE"
           \/ /\ StatusFromEvent(last) \in {"ACTIVE", "ON_BREAK"}
              /\ StatusFromEvent(t) = "CLOCKED_OUT"
BY DEF ValidTransitions, StatusFromEvent, TypeEvenementPointage

LEMMA CommitShift ==
    ASSUME ExclusiveInv, NEW r \in Request, Commit(r), call[r].operator \in Exclusive
    PROVE  Rota!Next
<1> PICK o : o = call[r].operator
  OBVIOUS
<1> DEFINE on_duty == [p \in Exclusive |-> ShownStatus(p)]
<1>1. /\ o \in Exclusive
      /\ LastTypes(o)' = {call[r].type}
      /\ \A p \in Exclusive \ {o} : LastTypes(p)' = LastTypes(p)
  BY CommitLog, CommitOwnLog
<1>2. PICK last \in LastTypes(o) : call[r].type \in ValidTransitions(StatusFromEvent(last))
  BY <1>1 DEF Commit, ExclusiveInv, UpToDate, InFlight
<1>3. LastTypes(o) = {last}
  BY <1>1, <1>2, UniqueLast
<1>4. last \in TypeEvenementPointage \cup {None} /\ call[r].type \in TypeEvenementPointage
  BY <1>1, <1>2, LastRead, OperatorKnown DEF ExclusiveInv, Commit
<1>5. ShownStatus(o) = StatusFromEvent(last)
  BY <1>3, ShownIsRead
<1>6. ShownStatus(o)' = StatusFromEvent(call[r].type)
  <2>1. ShownStatus(o)' = CHOOSE s \in {StatusFromEvent(call[r].type)} : TRUE
    BY <1>1 DEF ShownStatus, StatusFromEvent
  <2> QED
    BY <2>1
<1>7. \A p \in Exclusive \ {o} : ShownStatus(p)' = ShownStatus(p)
  BY <1>1 DEF ShownStatus, StatusFromEvent
<1>8. on_duty' = [on_duty EXCEPT ![o] = StatusFromEvent(call[r].type)]
  BY <1>1, <1>6, <1>7
<1>9. on_duty[o] = StatusFromEvent(last)
  BY <1>1, <1>5
<1> HIDE DEF on_duty
<1> QED
  BY <1>1, <1>2, <1>4, <1>8, <1>9, LegalMove
  DEF Rota!Next, Rota!ClockIn, Rota!StartBreak, Rota!EndBreak, Rota!ClockOut, Rota!Move, on_duty

\* Where the requests of an operator do not overlap, the log implements the
\* shift: every accepted event is one move, and nothing else moves anyone.
THEOREM ShiftImplemented == Spec => ImplementsShift
<1>1. Init => Rota!Init
  <2> SUFFICES ASSUME Init, NEW o \in Exclusive PROVE ShownStatus(o) = "CLOCKED_OUT"
    BY DEF Rota!Init
  <2>1. LastTypes(o) = {None}
    BY DEF Init, LastTypes, EventsOf
  <2>2. StatusFromEvent(None) = "CLOCKED_OUT"
    BY DEF StatusFromEvent
  <2> QED
    BY <2>1, <2>2, ShownIsRead
<1>2. ExclusiveInv /\ [Next /\ NoOverlap']_vars =>
        [Rota!Next]_([o \in Exclusive |-> ShownStatus(o)])
  <2> SUFFICES ASSUME ExclusiveInv, [Next]_vars
               PROVE  [Rota!Next]_([o \in Exclusive |-> ShownStatus(o)])
    OBVIOUS
  <2>1. ASSUME NEW r \in Request, Check(r) \/ Stamp(r) \/ Fail(r)
        PROVE  \A o \in Exclusive : LastTypes(o)' = LastTypes(o)
    <3>1. pointages' = pointages
      BY <2>1 DEF Check, Stamp, Fail
    <3>2. \A q \in pointages : call'[q] = call[q] /\ pointe_at'[q] = pointe_at[q]
      BY <2>1 DEF Check, Stamp, Fail, ExclusiveInv, IInv, Progress, TypeOK
    <3> QED
      BY <3>1, <3>2, SameLog
  <2>2. CASE UNCHANGED vars
    <3>1. \A o \in Exclusive : LastTypes(o)' = LastTypes(o)
      BY <2>2 DEF vars, LastTypes, EventsOf, Latest
    <3> QED
      BY <3>1, SameShown
  <2>3. ASSUME NEW r \in Request, Commit(r), call[r].operator \notin Exclusive
        PROVE  \A o \in Exclusive : LastTypes(o)' = LastTypes(o)
    BY <2>3, CommitLog
  <2> QED
    BY <2>1, <2>2, <2>3, CommitShift, SameShown DEF Next
<1> QED
  BY <1>1, <1>2, ExclusiveInvariance, PTL DEF Spec, ImplementsShift, Rota!Spec

=============================================================================
