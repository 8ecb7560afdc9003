-------------------------- MODULE TicketLifecycle --------------------------
(***************************************************************************)
(* The documented life of a ticket: OPEN, IN_PROGRESS, RESOLVED, CLOSED,   *)
(* one step at a time and never back; acknowledged by one operator,        *)
(* resolved with one corrective action, closed by one manager, whose note   *)
(* is the closing comment.                                                 *)
(***************************************************************************)
CONSTANTS Ticket, Stamp, None

VARIABLES
    status, assigned, corrective_action, closed, closing_comment

life == <<status, assigned, corrective_action, closed, closing_comment>>

Init ==
    /\ status = [n \in Ticket |-> None]
    /\ assigned = [n \in Ticket |-> None]
    /\ corrective_action = [n \in Ticket |-> None]
    /\ closed = [n \in Ticket |-> None]
    /\ closing_comment = [n \in Ticket |-> None]

Advance(n, from, to) ==
    /\ status[n] = from
    /\ status' = [status EXCEPT ![n] = to]

Fill(column, n, s) == [column EXCEPT ![n] = s]

Open(n) ==
    /\ Advance(n, None, "OPEN")
    /\ UNCHANGED <<assigned, corrective_action, closed, closing_comment>>

Acknowledge(n, s) ==
    /\ Advance(n, "OPEN", "IN_PROGRESS")
    /\ assigned' = Fill(assigned, n, s)
    /\ UNCHANGED <<corrective_action, closed, closing_comment>>

Resolve(n, s) ==
    /\ Advance(n, "IN_PROGRESS", "RESOLVED")
    /\ corrective_action' = Fill(corrective_action, n, s)
    /\ UNCHANGED <<assigned, closed, closing_comment>>

Close(n, s) ==
    /\ Advance(n, "RESOLVED", "CLOSED")
    /\ closed' = Fill(closed, n, s)
    /\ \E note \in {s, None} : closing_comment' = Fill(closing_comment, n, note)
    /\ UNCHANGED <<assigned, corrective_action>>

Next ==
    \E n \in Ticket :
        \/ Open(n)
        \/ \E s \in Stamp : Acknowledge(n, s) \/ Resolve(n, s) \/ Close(n, s)

Spec == Init /\ [][Next]_life

=============================================================================
