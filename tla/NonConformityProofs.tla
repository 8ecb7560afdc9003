------------------------ MODULE NonConformityProofs ------------------------
(***************************************************************************)
(* Proofs about NonConformity, for any number of tickets, users and        *)
(* requests.                                                               *)
(***************************************************************************)
EXTENDS NonConformity, TLAPS

-----------------------------------------------------------------------------
(* The inductive invariant.  The stated invariants speak of rows; what makes *)
(* them inductive is what a request in flight may still rely on, because no  *)
(* other request can take it back: the row exists, the ticket was taken      *)
(* over, the evidence is there, the photo is uploaded.                       *)

InFlightInv ==
    \A r \in Request :
        /\ pc[r] # "new" => call[r] \in Call
        /\ pc[r] = "acknowledging" =>
              call[r].op = "acknowledge" /\ status[call[r].nc] # None
        /\ pc[r] \in {"loading", "uploading", "signing"} =>
              call[r].op = "correct" /\ assigned[call[r].nc] # None
        /\ pc[r] = "signing" /\ call[r].extra => r \in photos
        /\ pc[r] = "closing" =>
              call[r].op = "close" /\ corrective_action[call[r].nc] # None
        /\ pc[r] = "answering" /\ call[r].op = "correct" => corrective_action[call[r].nc] = r
        /\ r \in photos => pc[r] \notin {"new", "loading", "uploading", "rejected"}

\* Where a request is whose commit a ticket shows.
Committed == {"answering", "ok", "failed"}

SignatureInv ==
    \A n \in Ticket :
        /\ corrective_action[n] # None => pc[corrective_action[n]] \in Committed
        /\ assigned[n] # None => pc[assigned[n]] \in Committed
        /\ closed[n] # None => pc[closed[n]] \in Committed
        /\ closing_comment[n] # None => closed[n] # None

\* Work on a ticket starts with an acknowledgement: nothing is signed, and no
\* ticket leaves OPEN, unless an operator is assigned (acknowledge_nonconformity),
\* and an assigned ticket never shows as OPEN again.
Assignment ==
    \A n \in Ticket :
        /\ corrective_action[n] # None => assigned[n] # None
        /\ assigned[n] = None <=> status[n] \in {None, "OPEN"}

IInv ==
    /\ TypeOK
    /\ Evidence
    /\ Assignment
    /\ ResolvedNeverClosed
    /\ PhotoOnFile
    /\ AcceptedIsRecorded
    /\ InFlightInv
    /\ SignatureInv

USE NoneAssumption, ExclusiveAssumption

-----------------------------------------------------------------------------

LEMMA InitIInv == Init => IInv
  BY DEF Init, IInv, TypeOK, Evidence, Assignment, ResolvedNeverClosed, PhotoOnFile,
         AcceptedIsRecorded, InFlightInv, SignatureInv, Committed, Stamp, NonConformityStatus,
         InFlight, Answered

\* What a request reads is what its call may rely on from then on.
LEMMA LoadIInv ==
    ASSUME IInv, NEW r \in Request, NEW c \in Call, NEW from, NEW next,
           Load(r, c, from, next),
           <<c.op, from, next>> \in {<<"acknowledge", "OPEN", "acknowledging">>,
                                     <<"correct", "IN_PROGRESS", "loading">>,
                                     <<"close", "RESOLVED", "closing">>}
    PROVE  IInv'
<1> USE DEF IInv, Load, rows
<1>1. TypeOK'
  BY DEF TypeOK, InFlight, Answered
<1>2. Evidence' /\ Assignment' /\ ResolvedNeverClosed'
  BY DEF Evidence, Assignment, ResolvedNeverClosed
<1>3. PhotoOnFile'
  BY DEF PhotoOnFile, SignatureInv, Committed, TypeOK, Stamp
<1>4. AcceptedIsRecorded'
  <2>1. r \notin photos /\ \A n \in Ticket : r \notin {assigned[n], corrective_action[n], closed[n]}
    BY DEF InFlightInv, SignatureInv, Committed
  <2>2. ASSUME NEW q \in Request, q # r PROVE pc'[q] = pc[q] /\ call'[q] = call[q]
    BY <2>2 DEF TypeOK
  <2>3. pc'[r] # "ok"
    BY DEF TypeOK
  <2> QED
    BY <2>1, <2>2, <2>3 DEF AcceptedIsRecorded
<1>5. InFlightInv'
  <2>1. c.nc \in Ticket
    BY DEF Call
  <2>2. QED
    BY <2>1 DEF InFlightInv, TypeOK, Evidence, Assignment, NonConformityStatus
<1>6. SignatureInv'
  BY DEF SignatureInv, Committed, TypeOK, Stamp
<1> QED
  BY <1>1, <1>2, <1>3, <1>4, <1>5, <1>6

LEMMA OpenIInv == ASSUME IInv, NEW n \in Ticket, Open(n) PROVE IInv'
<1> USE DEF IInv, Open
<1>1. TypeOK'
  BY DEF TypeOK, NonConformityStatus
<1>2. Evidence' /\ Assignment' /\ ResolvedNeverClosed'
  BY DEF Evidence, Assignment, ResolvedNeverClosed, TypeOK
<1>3. PhotoOnFile' /\ AcceptedIsRecorded' /\ SignatureInv'
  BY DEF PhotoOnFile, AcceptedIsRecorded, SignatureInv, Committed, Assignment, TypeOK
<1>4. InFlightInv'
  BY DEF InFlightInv, TypeOK
<1> QED
  BY <1>1, <1>2, <1>3, <1>4

\* A request that is under way has a call, and its ticket is a ticket.
LEMMA CallInFlight ==
    ASSUME IInv, NEW r \in Request, pc[r] # "new"
    PROVE  call[r] \in Call /\ call[r].nc \in Ticket
BY DEF IInv, InFlightInv, Call

LEMMA CommitAcknowledgeIInv ==
    ASSUME IInv, NEW r \in Request, CommitAcknowledge(r) PROVE IInv'
<1> USE DEF IInv, CommitAcknowledge, Goto
<1>1. call[r].nc \in Ticket
  BY CallInFlight
<1>2. TypeOK'
  BY <1>1 DEF TypeOK, NonConformityStatus, Stamp, InFlight
<1>3. Evidence' /\ Assignment' /\ ResolvedNeverClosed'
  BY <1>1 DEF Evidence, Assignment, ResolvedNeverClosed, TypeOK
<1>4. PhotoOnFile' /\ AcceptedIsRecorded' /\ SignatureInv'
  BY DEF PhotoOnFile, AcceptedIsRecorded, SignatureInv, Committed, InFlightInv, TypeOK
<1>5. InFlightInv'
  BY <1>1 DEF InFlightInv, TypeOK
<1> QED
  BY <1>2, <1>3, <1>4, <1>5

LEMMA CheckCorrectiveIInv ==
    ASSUME IInv, NEW r \in Request, CheckCorrective(r) PROVE IInv'
<1> USE DEF IInv, CheckCorrective, Goto, rows
<1>1. PICK blank \in BOOLEAN :
        pc' = [pc EXCEPT ![r] =
                 IF blank \/ corrective_action[call[r].nc] # None THEN "rejected"
                 ELSE IF call[r].extra THEN "uploading" ELSE "signing"]
  OBVIOUS
<1>2. TypeOK'
  BY <1>1 DEF TypeOK, InFlight, Answered
<1>3. Evidence' /\ Assignment' /\ ResolvedNeverClosed' /\ PhotoOnFile'
  BY DEF Evidence, Assignment, ResolvedNeverClosed, PhotoOnFile
<1>4. SignatureInv'
  BY <1>1 DEF SignatureInv, Committed, TypeOK
<1>5. AcceptedIsRecorded'
  <2>1. r \notin photos /\ \A n \in Ticket : r \notin {assigned[n], corrective_action[n], closed[n]}
    BY DEF InFlightInv, SignatureInv, Committed
  <2>2. ASSUME NEW q \in Request, q # r PROVE pc'[q] = pc[q]
    BY <1>1, <2>2 DEF TypeOK
  <2>3. pc'[r] # "ok"
    BY <1>1 DEF TypeOK
  <2> QED
    BY <2>1, <2>2, <2>3 DEF AcceptedIsRecorded
<1>6. InFlightInv'
  BY <1>1 DEF InFlightInv, TypeOK
<1> QED
  BY <1>2, <1>3, <1>4, <1>5, <1>6

LEMMA UploadPhotoIInv ==
    ASSUME IInv, NEW r \in Request, UploadPhoto(r) PROVE IInv'
<1> USE DEF IInv, UploadPhoto, Goto, rows
<1>1. TypeOK'
  BY DEF TypeOK, InFlight
<1>2. Evidence' /\ Assignment' /\ ResolvedNeverClosed' /\ PhotoOnFile'
  BY DEF Evidence, Assignment, ResolvedNeverClosed, PhotoOnFile
<1>3. AcceptedIsRecorded' /\ SignatureInv'
  BY DEF AcceptedIsRecorded, SignatureInv, Committed, TypeOK
<1>4. InFlightInv'
  BY DEF InFlightInv, TypeOK
<1> QED
  BY <1>1, <1>2, <1>3, <1>4

LEMMA CommitCorrectiveIInv ==
    ASSUME IInv, NEW r \in Request, CommitCorrective(r) PROVE IInv'
<1> USE DEF IInv, CommitCorrective, Goto, UniqueHolds
<1>1. call[r].nc \in Ticket
  BY CallInFlight
<1>2. TypeOK'
  BY <1>1 DEF TypeOK, NonConformityStatus, Stamp, InFlight
<1>3. Evidence' /\ Assignment'
  BY <1>1 DEF Evidence, Assignment, TypeOK, InFlightInv
<1>4. ResolvedNeverClosed'
  BY <1>1 DEF ResolvedNeverClosed, Evidence, SignatureInv, Committed, TypeOK
<1>5. PhotoOnFile'
  BY <1>1 DEF PhotoOnFile, InFlightInv, TypeOK
<1>6. AcceptedIsRecorded'
  BY <1>1 DEF AcceptedIsRecorded, TypeOK
<1>7. SignatureInv'
  BY <1>1 DEF SignatureInv, Committed, TypeOK, Stamp
<1>8. InFlightInv'
  BY <1>1 DEF InFlightInv, TypeOK
<1> QED
  BY <1>2, <1>3, <1>4, <1>5, <1>6, <1>7, <1>8

LEMMA CommitCloseIInv ==
    ASSUME IInv, NEW r \in Request, CommitClose(r) PROVE IInv'
<1> USE DEF IInv, CommitClose, Goto
<1>1. call[r].nc \in Ticket
  BY CallInFlight
<1>2. TypeOK'
  BY <1>1 DEF TypeOK, NonConformityStatus, Stamp, InFlight
<1>3. Evidence' /\ Assignment'
  BY <1>1 DEF Evidence, Assignment, InFlightInv, TypeOK
<1>4. ResolvedNeverClosed'
  BY <1>1 DEF ResolvedNeverClosed, TypeOK
<1>5. PhotoOnFile' /\ AcceptedIsRecorded'
  BY DEF PhotoOnFile, AcceptedIsRecorded, InFlightInv, TypeOK
<1>6. SignatureInv'
  BY <1>1 DEF SignatureInv, Committed, TypeOK, Stamp
<1>7. InFlightInv'
  BY <1>1 DEF InFlightInv, TypeOK
<1> QED
  BY <1>2, <1>3, <1>4, <1>5, <1>6, <1>7

\* The news of a commit changes nothing that is kept.
LEMMA AnswerIInv ==
    ASSUME IInv, NEW r \in Request, Answer(r) PROVE IInv'
<1> USE DEF IInv, Answer, Goto, rows
<1>1. PICK answer \in {"ok", "failed"} :
        /\ pc' = [pc EXCEPT ![r] = answer]
        /\ answer = "ok" /\ call[r].op = "correct" => corrective_action[call[r].nc] = r
  BY DEF InFlightInv
<1>2. TypeOK'
  BY <1>1 DEF TypeOK, Answered
<1>3. Evidence' /\ Assignment' /\ ResolvedNeverClosed' /\ PhotoOnFile'
  BY DEF Evidence, Assignment, ResolvedNeverClosed, PhotoOnFile
<1>4. AcceptedIsRecorded'
  BY <1>1 DEF AcceptedIsRecorded, TypeOK
<1>5. SignatureInv'
  BY <1>1 DEF SignatureInv, Committed, TypeOK, Stamp
<1>6. InFlightInv'
  BY <1>1 DEF InFlightInv, TypeOK
<1> QED
  BY <1>2, <1>3, <1>4, <1>5, <1>6

\* A request that gives up, by itself or on the unique constraint, leaves the
\* database as it was.
LEMMA GiveUpIInv ==
    ASSUME IInv, NEW r \in Request, pc[r] \in InFlight, Goto(r, "failed"),
           UNCHANGED <<rows, photos>>
    PROVE  IInv'
<1> USE DEF IInv, Goto, rows
<1>1. TypeOK'
  BY DEF TypeOK, InFlight, Answered
<1>2. Evidence' /\ Assignment' /\ ResolvedNeverClosed' /\ PhotoOnFile'
  BY DEF Evidence, Assignment, ResolvedNeverClosed, PhotoOnFile
<1>3. AcceptedIsRecorded' /\ SignatureInv'
  BY DEF AcceptedIsRecorded, SignatureInv, Committed, TypeOK, Stamp, InFlight
<1>4. InFlightInv'
  BY DEF InFlightInv, TypeOK, InFlight
<1> QED
  BY <1>1, <1>2, <1>3, <1>4

LEMMA NextIInv == IInv /\ [Next]_vars => IInv'
<1> SUFFICES ASSUME IInv, [Next]_vars PROVE IInv'
  OBVIOUS
<1>1. ASSUME NEW n \in Ticket, Open(n) PROVE IInv'
  BY <1>1, OpenIInv
<1>2. ASSUME NEW r \in Request, Acknowledge(r) \/ Correct(r) \/ Close(r) PROVE IInv'
  <2>1. CASE Acknowledge(r)
    BY <2>1, LoadIInv DEF Acknowledge, Call
  <2>2. CASE Correct(r)
    BY <2>2, LoadIInv DEF Correct, Call
  <2>3. CASE Close(r)
    BY <2>3, LoadIInv DEF Close, Call
  <2> QED
    BY <1>2, <2>1, <2>2, <2>3
<1>3. ASSUME NEW r \in Request, Proceed(r) PROVE IInv'
  <2>1. CASE RollbackCorrective(r)
    BY <2>1, GiveUpIInv DEF RollbackCorrective, InFlight
  <2> QED
    BY <1>3, <2>1, CommitAcknowledgeIInv, CheckCorrectiveIInv, UploadPhotoIInv,
       CommitCorrectiveIInv, CommitCloseIInv, AnswerIInv DEF Proceed
<1>4. ASSUME NEW r \in Request, Fail(r) PROVE IInv'
  BY <1>4, GiveUpIInv DEF Fail
<1>5. CASE UNCHANGED vars
  BY <1>5 DEF IInv, vars, rows, TypeOK, Evidence, Assignment, ResolvedNeverClosed,
              PhotoOnFile, AcceptedIsRecorded, InFlightInv, SignatureInv, Committed
<1> QED
  BY <1>1, <1>2, <1>3, <1>4, <1>5 DEF Next

\* The inductive invariant holds in every behaviour.
THEOREM Invariance == Spec => []IInv
<1>1. Init => IInv
  BY InitIInv
<1>2. IInv /\ [Next /\ NoOverlap']_vars => IInv'
  BY NextIInv
<1> QED
  BY <1>1, <1>2, PTL DEF Spec

\* Every column, request and photo keeps its type (NonConformity!TypeOK).
THEOREM TypeCorrect == Spec => []TypeOK
<1>1. IInv => TypeOK
  BY DEF IInv
<1> QED
  BY <1>1, Invariance, PTL

\* A resolved, closed or signed-off ticket has its corrective action, dated by
\* the request that signed it (create_corrective_action, close_nonconformity).
THEOREM EvidenceCorrect == Spec => []Evidence
<1>1. IInv => Evidence
  BY DEF IInv
<1> QED
  BY <1>1, Invariance, PTL

\* A ticket that waits for a manager was never closed: what justifies leaving a
\* null closing_comment out of the UPDATE of close_nonconformity.
THEOREM ResolvedNeverClosedCorrect == Spec => []ResolvedNeverClosed
<1>1. IInv => ResolvedNeverClosed
  BY DEF IInv
<1> QED
  BY <1>1, Invariance, PTL

\* A stored photo key names an uploaded object (create_corrective_action).
THEOREM PhotoOnFileCorrect == Spec => []PhotoOnFile
<1>1. IInv => PhotoOnFile
  BY DEF IInv
<1> QED
  BY <1>1, Invariance, PTL

\* A corrective action answered 201 is the one on the ticket, whoever else
\* submitted one at the same time (the unique constraint), and a request answered
\* 4xx has left no mark on any ticket, and no photo.
THEOREM AcceptedIsRecordedCorrect == Spec => []AcceptedIsRecorded
<1>1. IInv => AcceptedIsRecorded
  BY DEF IInv
<1> QED
  BY <1>1, Invariance, PTL

-----------------------------------------------------------------------------
(* Steps.                                                                   *)

\* What one step may do to the facts of the tickets: nothing, or one of the
\* four commits, each of which finds its predecessor's fact.
LEMMA StepKinds ==
    ASSUME IInv, [Next]_vars
    PROVE  \/ UNCHANGED <<status, assigned, corrective_action, closed, closing_comment>>
           \/ \E n \in Ticket : Open(n)
           \/ \E r \in Request :
                 /\ call[r].nc \in Ticket
                 /\ \/ CommitAcknowledge(r)
                    \/ CommitCorrective(r)
                    \/ CommitClose(r)
<1>1. CASE UNCHANGED vars
  BY <1>1 DEF vars, rows
<1>2. CASE \E n \in Ticket : Open(n)
  BY <1>2
<1>3. ASSUME NEW r \in Request, Acknowledge(r) \/ Correct(r) \/ Close(r) \/ Fail(r)
      PROVE  UNCHANGED <<status, assigned, corrective_action, closed, closing_comment>>
  BY <1>3 DEF Acknowledge, Correct, Close, Fail, Load, rows
<1>4. ASSUME NEW r \in Request,
             CheckCorrective(r) \/ UploadPhoto(r) \/ RollbackCorrective(r) \/ Answer(r)
      PROVE  UNCHANGED <<status, assigned, corrective_action, closed, closing_comment>>
  BY <1>4 DEF CheckCorrective, UploadPhoto, RollbackCorrective, Answer, rows
<1>5. ASSUME NEW r \in Request,
             CommitAcknowledge(r) \/ CommitCorrective(r) \/ CommitClose(r)
      PROVE  call[r].nc \in Ticket
  BY <1>5, CallInFlight DEF CommitAcknowledge, CommitCorrective, CommitClose
<1> QED
  BY <1>1, <1>2, <1>3, <1>4, <1>5 DEF Next, Proceed

-----------------------------------------------------------------------------
(* Refinement of the audit trail.                                           *)

LEMMA TrailInit == Init => Trail!Init
  BY DEF Init, Trail!Init, Milestones

\* A step that sets the column of one milestone for ticket n, and leaves the
\* others as null or as set as they were, adds that milestone to ticket n.
LEMMA AddMilestone ==
    ASSUME NEW n \in Ticket, NEW m \in {"detected", "taken over", "signed", "signed off"},
           \A k \in Ticket :
             /\ (status'[k] # None) <=> (status[k] # None \/ (k = n /\ m = "detected"))
             /\ (assigned'[k] # None) <=> (assigned[k] # None \/ (k = n /\ m = "taken over"))
             /\ (corrective_action'[k] # None)
                  <=> (corrective_action[k] # None \/ (k = n /\ m = "signed"))
             /\ (closed'[k] # None) <=> (closed[k] # None \/ (k = n /\ m = "signed off"))
    PROVE  [k \in Ticket |-> Milestones(k)]'
             = [[k \in Ticket |-> Milestones(k)] EXCEPT ![n] = @ \cup {m}]
<1>1. ASSUME NEW k \in Ticket
      PROVE  Milestones(k)' = IF k = n THEN Milestones(k) \cup {m} ELSE Milestones(k)
  <2>1. ASSUME NEW x
        PROVE  x \in Milestones(k) <=>
                 \/ status[k] # None /\ x = "detected"
                 \/ assigned[k] # None /\ x = "taken over"
                 \/ corrective_action[k] # None /\ x = "signed"
                 \/ closed[k] # None /\ x = "signed off"
    BY Zenon DEF Milestones
  <2>2. ASSUME NEW x
        PROVE  x \in Milestones(k)' <=>
                 \/ status'[k] # None /\ x = "detected"
                 \/ assigned'[k] # None /\ x = "taken over"
                 \/ corrective_action'[k] # None /\ x = "signed"
                 \/ closed'[k] # None /\ x = "signed off"
    BY Zenon DEF Milestones
  <2>3. \A x : x \in Milestones(k)' <=> x \in Milestones(k) \/ (k = n /\ x = m)
    BY <1>1, <2>1, <2>2
  <2>4. \A x : x \in (IF k = n THEN Milestones(k) \cup {m} ELSE Milestones(k))
              <=> x \in Milestones(k) \/ (k = n /\ x = m)
    OBVIOUS
  <2> QED
    BY <2>3, <2>4
<1> QED
  BY <1>1

\* Each commit records one milestone; a repeated acknowledgement or closing
\* records one that is already there.
LEMMA TrailStep ==
    ASSUME IInv, [Next]_vars PROVE [Trail!Next]_(Trail!trail)
<1> DEFINE M == [n \in Ticket |-> Milestones(n)]
<1>1. CASE UNCHANGED <<status, assigned, corrective_action, closed, closing_comment>>
  BY <1>1 DEF Trail!trail, Milestones
<1>2. ASSUME NEW n \in Ticket, Open(n) PROVE Trail!Detect(n)
  <2>1. M' = [M EXCEPT ![n] = @ \cup {"detected"}]
    BY <1>2, AddMilestone DEF Open, IInv, TypeOK
  <2> QED
    BY <1>2, <2>1 DEF Trail!Detect, Trail!Reach, Open
<1>3. ASSUME NEW r \in Request, NEW n \in Ticket, n = call[r].nc, CommitAcknowledge(r)
      PROVE  Trail!TakeOver(n)
  <2>1. M' = [M EXCEPT ![n] = @ \cup {"taken over"}]
    BY <1>3, AddMilestone DEF CommitAcknowledge, IInv, TypeOK, InFlightInv
  <2>2. "detected" \in M[n]
    BY <1>3 DEF CommitAcknowledge, Milestones, IInv, InFlightInv
  <2> QED
    BY <1>3, <2>1, <2>2 DEF Trail!TakeOver, Trail!Reach, CommitAcknowledge
<1>4. ASSUME NEW r \in Request, NEW n \in Ticket, n = call[r].nc, CommitCorrective(r)
      PROVE  Trail!Sign(n, r)
  <2>1. M' = [M EXCEPT ![n] = @ \cup {"signed"}]
    BY <1>4, AddMilestone DEF CommitCorrective, IInv, TypeOK, InFlightInv, Assignment
  <2>2. "taken over" \in M[n]
    BY <1>4 DEF CommitCorrective, Milestones, IInv, InFlightInv
  <2> QED
    BY <1>4, <2>1, <2>2 DEF Trail!Sign, Trail!Reach, CommitCorrective, UniqueHolds
<1>5. ASSUME NEW r \in Request, NEW n \in Ticket, n = call[r].nc, CommitClose(r)
      PROVE  Trail!SignOff(n)
  <2>1. M' = [M EXCEPT ![n] = @ \cup {"signed off"}]
    BY <1>5, AddMilestone DEF CommitClose, IInv, TypeOK, InFlightInv, Assignment
  <2>2. "signed" \in M[n]
    BY <1>5 DEF CommitClose, Milestones, IInv, InFlightInv
  <2> QED
    BY <1>5, <2>1, <2>2 DEF Trail!SignOff, Trail!Reach, CommitClose
<1> QED
  BY <1>1, <1>2, <1>3, <1>4, <1>5, StepKinds DEF Trail!Next

\* The ticket handlers implement the audit trail: milestones are collected in
\* order, none is lost, the evidence is signed once.
THEOREM TrailImplemented == Spec => ImplementsTrail
<1>1. Init => Trail!Init
  BY TrailInit
<1>2. IInv /\ [Next /\ NoOverlap']_vars => [Trail!Next]_(Trail!trail)
  BY TrailStep
<1> QED
  BY <1>1, <1>2, Invariance, PTL DEF Spec, ImplementsTrail, Trail!Spec

-----------------------------------------------------------------------------
(* Tickets whose requests do not overlap.                                   *)

\* What a request for such a ticket saw is still true when it commits.
StillTrue ==
    \A r \in Request : pc[r] \in InFlight /\ call[r].nc \in Exclusive =>
        /\ pc[r] = "acknowledging" => status[call[r].nc] = "OPEN"
        /\ pc[r] \in {"loading", "uploading", "signing"} =>
              status[call[r].nc] = "IN_PROGRESS"
        /\ pc[r] = "closing" => status[call[r].nc] = "RESOLVED"

NotStuck ==
    \A n \in Exclusive : corrective_action[n] # None => status[n] # "IN_PROGRESS"

OneCloser ==
    \A n \in Exclusive : closing_comment[n] # None => closing_comment[n] = closed[n]

ExclusiveInv == NoOverlap /\ StillTrue /\ NotStuck /\ OneCloser

LEMMA InitExclusiveInv == Init => ExclusiveInv
  BY DEF Init, ExclusiveInv, NoOverlap, StillTrue, NotStuck, OneCloser, InFlight

\* A commit changes the status under no other request: one that still holds a
\* status is about another ticket.
LEMMA ExclusiveInvStep ==
    ASSUME IInv, ExclusiveInv, [Next /\ NoOverlap']_vars PROVE ExclusiveInv'
<1> USE DEF ExclusiveInv
<1>1. CASE UNCHANGED vars
  BY <1>1 DEF vars, rows, NoOverlap, StillTrue, NotStuck, OneCloser
<1>2. ASSUME NEW n \in Ticket, Open(n) PROVE StillTrue' /\ NotStuck' /\ OneCloser'
  <2>1. StillTrue'
    BY <1>2 DEF Open, StillTrue, IInv, TypeOK
  <2>2. NotStuck' /\ OneCloser'
    BY <1>2 DEF Open, NotStuck, OneCloser, IInv, TypeOK
  <2> QED
    BY <2>1, <2>2
<1>3. ASSUME NEW r \in Request, NEW c \in Call, NEW from, NEW next,
             Load(r, c, from, next),
             <<c.op, from, next>> \in {<<"acknowledge", "OPEN", "acknowledging">>,
                                       <<"correct", "IN_PROGRESS", "loading">>,
                                       <<"close", "RESOLVED", "closing">>}
      PROVE  StillTrue' /\ NotStuck' /\ OneCloser'
  <2>1. StillTrue'
    BY <1>3 DEF Load, rows, StillTrue, IInv, TypeOK
  <2>2. NotStuck' /\ OneCloser'
    BY <1>3 DEF Load, rows, NotStuck, OneCloser
  <2> QED
    BY <2>1, <2>2
<1>4. ASSUME NEW r \in Request, Acknowledge(r) \/ Correct(r) \/ Close(r)
      PROVE  StillTrue' /\ NotStuck' /\ OneCloser'
  <2>1. CASE Acknowledge(r)
    BY <2>1, <1>3 DEF Acknowledge, Call
  <2>2. CASE Correct(r)
    BY <2>2, <1>3 DEF Correct, Call
  <2>3. CASE Close(r)
    BY <2>3, <1>3 DEF Close, Call
  <2> QED
    BY <1>4, <2>1, <2>2, <2>3
<1>5. ASSUME NEW r \in Request, NEW next, Goto(r, next), UNCHANGED <<rows>>,
             pc[r] \in InFlight,
             next \in {"uploading", "signing"} => pc[r] \in {"loading", "uploading"},
             next \notin {"acknowledging", "loading", "closing"}
      PROVE  StillTrue' /\ NotStuck' /\ OneCloser'
  BY <1>5 DEF Goto, rows, StillTrue, NotStuck, OneCloser, IInv, TypeOK
<1>6. ASSUME NEW r \in Request,
             \/ CheckCorrective(r) \/ UploadPhoto(r) \/ RollbackCorrective(r)
             \/ Answer(r) \/ Fail(r)
      PROVE  StillTrue' /\ NotStuck' /\ OneCloser'
  BY <1>5, <1>6 DEF CheckCorrective, UploadPhoto, RollbackCorrective, Answer, Fail,
     InFlight
<1>7. ASSUME NEW r \in Request,
             CommitAcknowledge(r) \/ CommitCorrective(r) \/ CommitClose(r)
      PROVE  StillTrue' /\ NotStuck' /\ OneCloser'
  <2>1. call[r].nc \in Ticket /\ pc[r] \in InFlight
    BY <1>7, CallInFlight
    DEF CommitAcknowledge, CommitCorrective, CommitClose, InFlight
  <2>2. ASSUME NEW q \in Request, q # r, pc[q] \in InFlight
        PROVE  call[q].nc \in Exclusive => status'[call[q].nc] = status[call[q].nc]
    <3>1. call[q].nc \in Ticket /\ (call[q].nc \in Exclusive => call[q].nc # call[r].nc)
      BY <2>1, <2>2, CallInFlight DEF NoOverlap, InFlight
    <3> QED
      BY <1>7, <2>1, <3>1 DEF CommitAcknowledge, CommitCorrective, CommitClose, IInv, TypeOK
  <2>3. StillTrue'
    <3>1. /\ call' = call
          /\ \A q \in Request : q # r => pc'[q] = pc[q]
          /\ pc'[r] = "answering"
      BY <1>7 DEF CommitAcknowledge, CommitCorrective, CommitClose, Goto,
         IInv, TypeOK
    <3> QED
      BY <2>2, <3>1 DEF StillTrue, InFlight
  <2>4. NotStuck'
    BY <1>7, <2>1 DEF CommitAcknowledge, CommitCorrective, CommitClose,
       NotStuck, StillTrue, IInv, TypeOK, Evidence, Assignment
  <2>5. OneCloser'
    BY <1>7, <2>1 DEF CommitAcknowledge, CommitCorrective, CommitClose,
       OneCloser, StillTrue, IInv, TypeOK, ResolvedNeverClosed
  <2> QED
    BY <2>3, <2>4, <2>5
<1> QED
  BY <1>1, <1>2, <1>4, <1>6, <1>7 DEF Next, Proceed

LEMMA ExclusiveInvariance == Spec => [](IInv /\ ExclusiveInv)
<1>1. Init => IInv /\ ExclusiveInv
  BY InitIInv, InitExclusiveInv
<1>2. IInv /\ ExclusiveInv /\ [Next /\ NoOverlap']_vars => (IInv /\ ExclusiveInv)'
  BY NextIInv, ExclusiveInvStep
<1> QED
  BY <1>1, <1>2, PTL DEF Spec

LEMMA LifecycleInit == Init => Documented!Init
  BY DEF Init, Documented!Init, OnExclusive

LEMMA LifecycleStep ==
    ASSUME IInv, ExclusiveInv, [Next]_vars PROVE [Documented!Next]_(Documented!life)
<1> USE DEF ExclusiveInv, OnExclusive
<1> DEFINE columns == <<status, assigned, corrective_action, closed, closing_comment>>
<1>1. CASE UNCHANGED columns
  BY <1>1 DEF Documented!life
<1>2. ASSUME NEW n \in Ticket, n \notin Exclusive,
             Open(n) \/ \E r \in Request :
                           /\ call[r].nc = n
                           /\ CommitAcknowledge(r) \/ CommitCorrective(r) \/ CommitClose(r)
      PROVE  UNCHANGED Documented!life
  <2>1. /\ UNCHANGED OnExclusive(status) /\ UNCHANGED OnExclusive(assigned)
        /\ UNCHANGED OnExclusive(corrective_action) /\ UNCHANGED OnExclusive(closed)
        /\ UNCHANGED OnExclusive(closing_comment)
    BY <1>2 DEF Open, CommitAcknowledge, CommitCorrective, CommitClose, IInv, TypeOK
  <2> QED
    BY <2>1 DEF Documented!life
<1>3. ASSUME NEW n \in Exclusive, Open(n) PROVE Documented!Open(n)
  BY <1>3 DEF Open, Documented!Open, Documented!Advance, IInv, TypeOK
<1>4. ASSUME NEW r \in Request, NEW n \in Exclusive, n = call[r].nc, CommitAcknowledge(r)
      PROVE  Documented!Acknowledge(n, r)
  BY <1>4 DEF CommitAcknowledge, StillTrue, InFlight, Documented!Acknowledge,
              Documented!Advance, Documented!Fill, IInv, TypeOK
<1>5. ASSUME NEW r \in Request, NEW n \in Exclusive, n = call[r].nc, CommitCorrective(r)
      PROVE  Documented!Resolve(n, r)
  BY <1>5 DEF CommitCorrective, StillTrue, InFlight, Documented!Resolve,
              Documented!Advance, Documented!Fill, IInv, TypeOK
<1>6. ASSUME NEW r \in Request, NEW n \in Exclusive, n = call[r].nc, CommitClose(r)
      PROVE  Documented!Close(n, r)
  <2>1. status[n] = "RESOLVED" /\ closing_comment[n] = None
    BY <1>6 DEF CommitClose, StillTrue, InFlight, IInv, ResolvedNeverClosed
  <2> QED
    BY <1>6, <2>1 DEF CommitClose, Documented!Close, Documented!Advance,
                      Documented!Fill, IInv, TypeOK
<1> QED
  BY <1>1, <1>2, <1>3, <1>4, <1>5, <1>6, StepKinds DEF Documented!Next

\* For the tickets whose requests do not overlap the handlers implement the
\* documented lifecycle: each status check is sufficient when nothing overtakes it.
THEOREM LifecycleImplemented == Spec => ImplementsLifecycle
<1>1. Init => Documented!Init
  BY LifecycleInit
<1>2. IInv /\ ExclusiveInv /\ [Next /\ NoOverlap']_vars
        => [Documented!Next]_(Documented!life)
  BY LifecycleStep
<1> QED
  BY <1>1, <1>2, ExclusiveInvariance, PTL DEF Spec, ImplementsLifecycle, Documented!Spec

-----------------------------------------------------------------------------
(* Moves of the status that the documentation does not have.                 *)

LEMMA StuckStep ==
    ASSUME IInv, [Next]_vars, NEW n \in Ticket, Stuck(n), NoCloserLeft(n)
    PROVE  Stuck(n)' /\ NoCloserLeft(n)'
<1>1. CASE UNCHANGED vars
  BY <1>1 DEF vars, rows, Stuck, NoCloserLeft
<1>2. ASSUME NEW m \in Ticket, Open(m) PROVE Stuck(n)' /\ NoCloserLeft(n)'
  <2>1. Stuck(n)'
    BY <1>2 DEF Open, Stuck, IInv, TypeOK
  <2>2. NoCloserLeft(n)'
    BY <1>2 DEF Open, NoCloserLeft
  <2> QED
    BY <2>1, <2>2
<1>3. ASSUME NEW r \in Request, NEW c, NEW from, NEW next, Load(r, c, from, next),
             next = "closing" => from = "RESOLVED"
      PROVE  Stuck(n)' /\ NoCloserLeft(n)'
  BY <1>3 DEF Load, rows, Stuck, NoCloserLeft, IInv, TypeOK
<1>4. ASSUME NEW r \in Request, Acknowledge(r) \/ Correct(r) \/ Close(r)
      PROVE  Stuck(n)' /\ NoCloserLeft(n)'
  <2>1. CASE Acknowledge(r)
    BY <1>3, <2>1 DEF Acknowledge
  <2>2. CASE Correct(r)
    BY <1>3, <2>2 DEF Correct
  <2>3. CASE Close(r)
    BY <1>3, <2>3 DEF Close
  <2> QED
    BY <1>4, <2>1, <2>2, <2>3
<1>5. ASSUME NEW r \in Request, NEW next, Goto(r, next), next # "closing"
      PROVE  NoCloserLeft(n)'
  BY <1>5 DEF Goto, NoCloserLeft, IInv, TypeOK
<1>6. ASSUME NEW r \in Request,
             \/ CheckCorrective(r) \/ UploadPhoto(r) \/ RollbackCorrective(r)
             \/ Answer(r) \/ Fail(r)
      PROVE  Stuck(n)' /\ NoCloserLeft(n)'
  BY <1>5, <1>6 DEF CheckCorrective, UploadPhoto, RollbackCorrective, Answer, Fail,
     rows, Stuck
<1>7. ASSUME NEW r \in Request, CommitAcknowledge(r) \/ CommitCorrective(r) \/ CommitClose(r)
      PROVE  Stuck(n)' /\ NoCloserLeft(n)'
  <2>1. NoCloserLeft(n)'
    BY <1>5, <1>7 DEF CommitAcknowledge, CommitCorrective, CommitClose
  <2>2. CASE CommitAcknowledge(r)
    <3>1. Stuck(n)'
      BY <2>2 DEF CommitAcknowledge, Stuck, IInv, TypeOK
    <3> QED
      BY <2>1, <3>1
  <2>3. CASE CommitCorrective(r)
    <3>1. Stuck(n)'
      BY <2>3 DEF CommitCorrective, UniqueHolds, Stuck, IInv, TypeOK
    <3> QED
      BY <2>1, <3>1
  <2>4. CASE CommitClose(r)
    <3>1. Stuck(n)'
      BY <2>4 DEF CommitClose, NoCloserLeft, Stuck, IInv, TypeOK
    <3> QED
      BY <2>1, <3>1
  <2> QED
    BY <1>7, <2>1, <2>2, <2>3, <2>4
<1> QED
  BY <1>1, <1>2, <1>4, <1>6, <1>7 DEF Next, Proceed

\* A ticket that a late acknowledgement has put back to IN_PROGRESS with its
\* corrective action in place leaves that state by no request that begins then.
THEOREM StuckForGoodCorrect == Spec => StuckForGood
<1> DEFINE Stay == \A n \in Ticket : Stuck(n) /\ NoCloserLeft(n) => Stuck(n)' /\ NoCloserLeft(n)'
<1>1. IInv /\ [Next /\ NoOverlap']_vars => [Stay]_vars
  BY StuckStep
<1> HIDE DEF Stay
<1>2. Spec => [][Stay]_vars
  BY <1>1, Invariance, PTL DEF Spec
<1> QED
  BY <1>2 DEF StuckForGood, Stay

LEMMA MoveStep ==
    ASSUME IInv, [Next]_vars, NEW n \in Ticket, status'[n] # status[n]
    PROVE  Explained(n)
<1>1. CASE \E m \in Ticket : Open(m)
  BY <1>1 DEF Open, Explained, DocumentedMove, IInv, TypeOK
<1>2. ASSUME NEW r \in Request, call[r].nc \in Ticket, CommitAcknowledge(r) PROVE Explained(n)
  <2>1. /\ call[r].nc = n /\ status'[n] = "IN_PROGRESS" /\ assigned'[n] = r
        /\ pc[r] = "acknowledging" /\ status[n] # None
    BY <1>2 DEF CommitAcknowledge, IInv, TypeOK, InFlightInv
  <2>2. CASE assigned[n] = None
    BY <2>1, <2>2 DEF Explained, DocumentedMove, IInv, Assignment
  <2>3. CASE assigned[n] # None
    <3>1. assigned[n] # r
      BY <2>1, <2>3 DEF IInv, SignatureInv, Committed
    <3>2. status[n] \in {"RESOLVED", "CLOSED"}
      BY <2>1, <2>3 DEF IInv, TypeOK, NonConformityStatus, Assignment
    <3> QED
      BY <2>1, <2>3, <3>1, <3>2 DEF Explained
  <2> QED
    BY <2>2, <2>3
<1>3. ASSUME NEW r \in Request, call[r].nc \in Ticket, CommitCorrective(r) PROVE Explained(n)
  <2>1. /\ call[r].nc = n /\ status'[n] = "RESOLVED" /\ corrective_action[n] = None
        /\ assigned[n] # None
    BY <1>3 DEF CommitCorrective, UniqueHolds, IInv, TypeOK, InFlightInv
  <2>2. status[n] = "IN_PROGRESS"
    BY <2>1 DEF IInv, TypeOK, NonConformityStatus, Assignment, Evidence
  <2> QED
    BY <2>1, <2>2 DEF Explained, DocumentedMove
<1>4. ASSUME NEW r \in Request, call[r].nc \in Ticket, CommitClose(r) PROVE Explained(n)
  <2>1. /\ call[r].nc = n /\ status'[n] = "CLOSED" /\ corrective_action[n] # None
        /\ pc[r] = "closing"
    BY <1>4 DEF CommitClose, IInv, TypeOK, InFlightInv
  <2>2. status[n] \in {"IN_PROGRESS", "RESOLVED"}
    BY <2>1 DEF IInv, TypeOK, NonConformityStatus, Assignment
  <2> QED
    BY <2>1, <2>2 DEF Explained, DocumentedMove, Stuck, NoCloserLeft
<1> QED
  BY <1>1, <1>2, <1>3, <1>4, StepKinds

\* The status of a ticket moves as documented, but for a late acknowledgement
\* and the close request that overtook it.
THEOREM MovesExplainedCorrect == Spec => MovesExplained
<1> DEFINE Moves == \A n \in Ticket : status'[n] # status[n] => Explained(n)
<1>1. ASSUME IInv, [Next /\ NoOverlap']_vars PROVE Moves
  BY <1>1, MoveStep
<1>2. IInv /\ [Next /\ NoOverlap']_vars => [Moves]_vars
  BY <1>1
<1> HIDE DEF Moves
<1>3. Spec => [][Moves]_vars
  BY <1>2, Invariance, PTL DEF Spec
<1> QED
  BY <1>3 DEF MovesExplained, Moves

=============================================================================
