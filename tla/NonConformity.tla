--------------------------- MODULE NonConformity ---------------------------
(***************************************************************************)
(* The life of non-conformity tickets (modules/nonconformities).           *)
(*                                                                         *)
(* A ticket is a row of non_conformities, its corrective action a row of   *)
(* actions_correctives.  Every handler is an HTTP request with a database  *)
(* session of its own, at READ COMMITTED and without row locks or version  *)
(* columns: it SELECTs the ticket, checks the status it saw, awaits, and   *)
(* COMMITs an UPDATE ... WHERE id = pk that does not look at the status    *)
(* again.  The steps of a request are therefore separate actions, and any  *)
(* other request may run between them.                                     *)
(*                                                                         *)
(* Columns that one UPDATE always writes together (who and when) are kept  *)
(* as one value, the request that wrote them: call[r].user is the who.     *)
(***************************************************************************)
EXTENDS Naturals

CONSTANTS
    Ticket,     \* primary keys of non_conformities
    Operator,   \* users get_current_operator may return
    Manager,    \* users ensure_admin_org_access lets through
    Request,    \* HTTP requests; each one is served once
    Exclusive,  \* tickets whose requests happen never to overlap
    None        \* SQL NULL

ASSUME ExclusiveAssumption == Exclusive \subseteq Ticket
ASSUME NoneAssumption == None \notin Request \cup {"OPEN", "IN_PROGRESS", "RESOLVED", "CLOSED"}

VARIABLES
    workflow_type,      \* workflow_type column; source_record_id is NULL for RECEPTION
    status,             \* status column; None: there is no such row yet
    assigned,           \* assigned_to_id and assigned_at
    resolved,           \* resolved_at
    closed,             \* closed_by_id and closed_at
    closing_comment,    \* closing_comment
    corrective_action,  \* the row of actions_correctives for this ticket
    photos,             \* objects in the S3 bucket, one per uploading request
    pc,                 \* where each request is
    call                \* what each request asked for

rows == <<workflow_type, status, assigned, resolved, closed, closing_comment, corrective_action>>
vars == <<rows, photos, pc, call>>

WorkflowType == {"TEMPERATURE", "RECEPTION"}
NonConformityStatus == {"OPEN", "IN_PROGRESS", "RESOLVED", "CLOSED"}

Call == [op : {"acknowledge"}, nc : Ticket, user : Operator, extra : {FALSE}]
        \cup [op : {"correct"}, nc : Ticket, user : Operator, extra : BOOLEAN]
        \cup [op : {"close"}, nc : Ticket, user : Manager, extra : BOOLEAN]

InFlight == {"acknowledging", "loading", "uploading", "signing", "closing", "answering"}
Answered == {"ok", "rejected", "failed"}   \* 2xx, 4xx, 5xx or no answer

Stamp == Request \cup {None}

TypeOK ==
    /\ workflow_type \in [Ticket -> WorkflowType \cup {None}]
    /\ status \in [Ticket -> NonConformityStatus \cup {None}]
    /\ assigned \in [Ticket -> Stamp]
    /\ resolved \in [Ticket -> Stamp]
    /\ closed \in [Ticket -> Stamp]
    /\ closing_comment \in [Ticket -> Stamp]
    /\ corrective_action \in [Ticket -> Stamp]
    /\ photos \subseteq Request
    /\ pc \in [Request -> {"new"} \cup InFlight \cup Answered]
    /\ call \in [Request -> Call \cup {None}]

Init ==
    /\ workflow_type = [n \in Ticket |-> None]
    /\ status = [n \in Ticket |-> None]
    /\ assigned = [n \in Ticket |-> None]
    /\ resolved = [n \in Ticket |-> None]
    /\ closed = [n \in Ticket |-> None]
    /\ closing_comment = [n \in Ticket |-> None]
    /\ corrective_action = [n \in Ticket |-> None]
    /\ photos = {}
    /\ pc = [r \in Request |-> "new"]
    /\ call = [r \in Request |-> None]

-----------------------------------------------------------------------------
(* Opening.  The temperature and the reception handlers insert the ticket   *)
(* in their own transaction; here it appears when that transaction commits. *)

Open(n) ==
    /\ status[n] = None
    /\ \E w \in WorkflowType : workflow_type' = [workflow_type EXCEPT ![n] = w]
    /\ status' = [status EXCEPT ![n] = "OPEN"]
    /\ UNCHANGED <<assigned, resolved, closed, closing_comment, corrective_action,
                   photos, pc, call>>

-----------------------------------------------------------------------------
(* The steps every request is made of.                                      *)

\* Mutant: the status check is gone.
Load_Unchecked(r, c, from, next) ==
    /\ pc[r] = "new"
    /\ call' = [call EXCEPT ![r] = c]
    /\ pc' = [pc EXCEPT ![r] = IF status[c.nc] # None THEN next ELSE "rejected"]
    /\ UNCHANGED <<rows, photos>>

\* r arrives, loads its ticket and keeps it if the status is the one its
\* operation starts from; otherwise it answers 404 or 409.
Load(r, c, from, next) ==
    /\ pc[r] = "new"
    /\ call' = [call EXCEPT ![r] = c]
    /\ pc' = [pc EXCEPT ![r] = IF status[c.nc] = from THEN next ELSE "rejected"]
    /\ UNCHANGED <<rows, photos>>

Goto(r, next) == pc' = [pc EXCEPT ![r] = next] /\ UNCHANGED call

-----------------------------------------------------------------------------
(* acknowledge_nonconformity: OPEN -> IN_PROGRESS.                          *)

Acknowledge(r) ==
    \E n \in Ticket, u \in Operator :
        Load(r, [op |-> "acknowledge", nc |-> n, user |-> u, extra |-> FALSE],
             "OPEN", "acknowledging")

\* Mutant: a status the enumeration does not have.
CommitAcknowledge_Unknown(r) ==
    LET n == call[r].nc IN
    /\ pc[r] = "acknowledging"
    /\ status' = [status EXCEPT ![n] = "ACKNOWLEDGED"]
    /\ assigned' = [assigned EXCEPT ![n] = r]
    /\ UNCHANGED <<workflow_type, resolved, closed, closing_comment, corrective_action,
                   photos>>
    /\ Goto(r, "answering")

CommitAcknowledge(r) ==
    LET n == call[r].nc IN
    /\ pc[r] = "acknowledging"
    /\ status' = [status EXCEPT ![n] = "IN_PROGRESS"]
    /\ assigned' = [assigned EXCEPT ![n] = r]
    /\ UNCHANGED <<workflow_type, resolved, closed, closing_comment, corrective_action,
                   photos>>
    /\ Goto(r, "answering")

-----------------------------------------------------------------------------
(* create_corrective_action: IN_PROGRESS -> RESOLVED.  extra: with a photo. *)

Correct(r) ==
    \E n \in Ticket, u \in Operator, photo \in BOOLEAN :
        Load(r, [op |-> "correct", nc |-> n, user |-> u, extra |-> photo],
             "IN_PROGRESS", "loading")

\* Mutant: the key is stored without waiting for the upload.
CheckCorrective_NoUpload(r) ==
    /\ pc[r] = "loading"
    /\ \E blank \in BOOLEAN :
         Goto(r, IF blank \/ corrective_action[call[r].nc] # None THEN "rejected"
                 ELSE "signing")
    /\ UNCHANGED <<rows, photos>>

\* The eager load of nc.corrective_action is a second SELECT, with a snapshot
\* of its own; then the remaining checks (a blank description is a 422).
CheckCorrective(r) ==
    /\ pc[r] = "loading"
    /\ \E blank \in BOOLEAN :
         Goto(r, IF blank \/ corrective_action[call[r].nc] # None THEN "rejected"
                 ELSE IF call[r].extra THEN "uploading" ELSE "signing")
    /\ UNCHANGED <<rows, photos>>

UploadPhoto(r) ==
    /\ pc[r] = "uploading"
    /\ photos' = photos \cup {r}
    /\ Goto(r, "signing")
    /\ UNCHANGED rows

\* Mutant: no unique constraint, the last action replaces the first.
UniqueHolds_Dropped(n) == TRUE

\* UNIQUE (nonconformity_id) of actions_correctives.
UniqueHolds(n) == corrective_action[n] = None

\* Mutant: resolved_at is left for a later transaction.
CommitCorrective_NotDated(r) ==
    LET n == call[r].nc IN
    /\ pc[r] = "signing"
    /\ UniqueHolds(n)
    /\ status' = [status EXCEPT ![n] = "RESOLVED"]
    /\ corrective_action' = [corrective_action EXCEPT ![n] = r]
    /\ UNCHANGED <<workflow_type, assigned, resolved, closed, closing_comment, photos>>
    /\ Goto(r, "answering")

\* One transaction updates the ticket and inserts the action.
CommitCorrective(r) ==
    LET n == call[r].nc IN
    /\ pc[r] = "signing"
    /\ UniqueHolds(n)
    /\ status' = [status EXCEPT ![n] = "RESOLVED"]
    /\ resolved' = [resolved EXCEPT ![n] = r]
    /\ corrective_action' = [corrective_action EXCEPT ![n] = r]
    /\ UNCHANGED <<workflow_type, assigned, closed, closing_comment, photos>>
    /\ Goto(r, "answering")

\* Mutant: the INSERT is tried again and again.
RollbackCorrective_Retries(r) ==
    /\ pc[r] = "signing"
    /\ ~UniqueHolds(call[r].nc)
    /\ Goto(r, "signing")
    /\ UNCHANGED <<rows, photos>>

\* The INSERT raises IntegrityError: the transaction rolls back, the uploaded
\* photo stays in the bucket.
RollbackCorrective(r) ==
    /\ pc[r] = "signing"
    /\ ~UniqueHolds(call[r].nc)
    /\ Goto(r, "failed")
    /\ UNCHANGED <<rows, photos>>

-----------------------------------------------------------------------------
(* close_nonconformity: RESOLVED -> CLOSED.  extra: with a closing comment. *)

Close(r) ==
    \E n \in Ticket, u \in Manager, comment \in BOOLEAN :
        Load(r, [op |-> "close", nc |-> n, user |-> u, extra |-> comment],
             "RESOLVED", "closing")

\* The loaded comment is NULL (see ResolvedNeverClosed), so that a request
\* without a comment changes no value of that column and the UPDATE leaves
\* the column out.
CommitClose(r) ==
    LET n == call[r].nc IN
    /\ pc[r] = "closing"
    /\ status' = [status EXCEPT ![n] = "CLOSED"]
    /\ closed' = [closed EXCEPT ![n] = r]
    /\ closing_comment' = [closing_comment EXCEPT ![n] = IF call[r].extra THEN r ELSE @]
    /\ UNCHANGED <<workflow_type, assigned, resolved, corrective_action, photos>>
    /\ Goto(r, "answering")

-----------------------------------------------------------------------------
(* The answer, and the lack of one.                                         *)

\* ActionCorrectiveResponse.releve_id is not optional, and create_corrective_action
\* fills it with nc.source_record_id: there is no answer for a RECEPTION ticket.
HasAnswer(c) == c.op = "correct" => workflow_type[c.nc] = "TEMPERATURE"

\* After the commit the row is refreshed, and the answer built from it.
Answer(r) ==
    /\ pc[r] = "answering"
    /\ Goto(r, IF HasAnswer(call[r]) THEN "ok" ELSE "failed")
    /\ UNCHANGED <<rows, photos>>

\* A request may die at any of its awaits: the upload is refused or fails, the
\* worker stops, the database connection is lost.  Before the commit the session's
\* context manager rolls the transaction back; after it, only the answer is lost.
Fail(r) ==
    /\ pc[r] \in InFlight
    /\ Goto(r, "failed")
    /\ UNCHANGED <<rows, photos>>

-----------------------------------------------------------------------------

Proceed(r) ==
    \/ CommitAcknowledge(r)
    \/ CheckCorrective(r)
    \/ UploadPhoto(r)
    \/ CommitCorrective(r)
    \/ RollbackCorrective(r)
    \/ CommitClose(r)
    \/ Answer(r)

Next ==
    \/ \E n \in Ticket : Open(n)
    \/ \E r \in Request :
         \/ Acknowledge(r)
         \/ Correct(r)
         \/ Close(r)
         \/ Proceed(r)
         \/ Fail(r)

\* Nothing in the program keeps the requests for a ticket apart.  Exclusive is
\* there to state what holds for the tickets where they happen to be.
NoOverlap ==
    \A q, r \in Request :
        q # r /\ pc[q] \in InFlight /\ pc[r] \in InFlight /\ call[q].nc \in Exclusive =>
            call[q].nc # call[r].nc

Spec == Init /\ [][Next /\ NoOverlap']_vars

\* Requests arrive at will; the event loop keeps serving the ones it has.
FairSpec == Spec /\ \A r \in Request : WF_vars(Proceed(r))

-----------------------------------------------------------------------------
(* What the code keeps, however its requests interleave.                    *)

\* A ticket shown as resolved or closed, or signed off by a manager, has its
\* corrective action; the action and resolved_at are of the same request
\* (the single commit of create_corrective_action).
Evidence ==
    \A n \in Ticket :
        /\ status[n] \in {"RESOLVED", "CLOSED"} => corrective_action[n] # None
        /\ closed[n] # None => corrective_action[n] # None
        /\ resolved[n] = corrective_action[n]

\* A ticket waiting for a manager was never closed before: close_nonconformity
\* always finds closed_by_id and closing_comment NULL.
ResolvedNeverClosed ==
    \A n \in Ticket :
        status[n] = "RESOLVED" => closed[n] = None /\ closing_comment[n] = None

\* A photo key stored with a corrective action names an object that is in the
\* bucket (create_corrective_action uploads first, and stores the key after).
PhotoOnFile ==
    \A n \in Ticket :
        LET r == corrective_action[n] IN
        r # None /\ call[r].extra => r \in photos

\* An answer tells the truth, even after a race: who got a 201 for a corrective
\* action finds that very action on the ticket, for good; who got a 4xx has left
\* nothing behind, neither on a ticket nor in the bucket.  (Without an answer, or
\* with a 5xx, one cannot know: the refresh after the commit may fail.)
AcceptedIsRecorded ==
    \A r \in Request :
        /\ pc[r] = "ok" /\ call[r].op = "correct" => corrective_action[call[r].nc] = r
        /\ pc[r] = "rejected" =>
              /\ r \notin photos
              /\ \A n \in Ticket : r \notin {assigned[n], corrective_action[n], closed[n]}

\* Every request is answered: no handler waits for another one, not even the
\* loser of a race on the unique constraint.
RequestsAreAnswered ==
    \A r \in Request : pc[r] \in InFlight ~> pc[r] \in Answered

\* The facts an incident has collected, read off its row.
Milestones(n) ==
    (IF status[n] # None THEN {"detected"} ELSE {})
    \cup (IF assigned[n] # None THEN {"taken over"} ELSE {})
    \cup (IF corrective_action[n] # None THEN {"signed"} ELSE {})
    \cup (IF closed[n] # None THEN {"signed off"} ELSE {})

Trail == INSTANCE IncidentTrail
    WITH Signature <- Request,
         milestones <- [n \in Ticket |-> Milestones(n)],
         evidence <- corrective_action

\* The handlers implement the audit trail: milestones in order, none lost, one
\* signature, even while the status column goes back and forth.
ImplementsTrail == Trail!Spec

OnExclusive(column) == [n \in Exclusive |-> column[n]]

Documented == INSTANCE TicketLifecycle
    WITH Ticket <- Exclusive, Stamp <- Request,
         status <- OnExclusive(status),
         assigned <- OnExclusive(assigned),
         corrective_action <- OnExclusive(corrective_action),
         closed <- OnExclusive(closed),
         closing_comment <- OnExclusive(closing_comment)

\* For the tickets whose requests do not overlap, whatever the others do, the
\* handlers implement the documented lifecycle: their status checks are
\* sufficient one at a time.
ImplementsLifecycle == Documented!Spec

-----------------------------------------------------------------------------
(* What the documentation says.                                             *)

\* "Submitting a corrective action automatically transitions the parent NC to
\* RESOLVED" (nonconformities/models.py): a ticket with its action is not
\* IN_PROGRESS.  Where it is, it is stuck: a new corrective action is refused
\* because there is one, closing because the ticket is not RESOLVED.
NeverStuck ==
    \A n \in Ticket : corrective_action[n] # None => status[n] # "IN_PROGRESS"

Stuck(n) == status[n] = "IN_PROGRESS" /\ corrective_action[n] # None

\* Nobody is about to close n.
NoCloserLeft(n) == ~ \E r \in Request : pc[r] = "closing" /\ call[r].nc = n

\* A stuck ticket that no close request had loaded before it got stuck stays
\* stuck for good, whatever the operators and managers ask from then on: no
\* handler leads out of that state, and none reports it.
StuckForGood ==
    [][\A n \in Ticket : Stuck(n) /\ NoCloserLeft(n) => Stuck(n)' /\ NoCloserLeft(n)']_vars

DocumentedMove == {<<None, "OPEN">>, <<"OPEN", "IN_PROGRESS">>, <<"IN_PROGRESS", "RESOLVED">>,
                   <<"RESOLVED", "CLOSED">>}

\* A move of the status of n by the documentation, by an acknowledgement that
\* comes after another one, or by a close request older than that.
Explained(n) ==
    \/ <<status[n], status'[n]>> \in DocumentedMove
    \/ /\ status[n] \in {"RESOLVED", "CLOSED"} /\ status'[n] = "IN_PROGRESS"
       /\ \E r \in Request : /\ pc[r] = "acknowledging" /\ call[r].nc = n
                            /\ assigned[n] \notin {None, r} /\ assigned'[n] = r
    \/ Stuck(n) /\ ~NoCloserLeft(n) /\ status'[n] = "CLOSED"

\* However requests interleave, the status of a ticket moves as documented, with
\* two exceptions: an acknowledgement that comes after another one sets it back,
\* and a close request that loaded it before that may still close it.
MovesExplained ==
    [][\A n \in Ticket : status'[n] # status[n] => Explained(n)]_vars

=============================================================================
