--------------------------- MODULE IncidentTrail ---------------------------
(***************************************************************************)
(* What the ticket workflow promises an inspector, however the requests    *)
(* interleave: an incident collects its milestones in order, loses none of *)
(* them, and is signed once.  There is no status here: the status column   *)
(* is only a view of these facts, and not always the right one.            *)
(***************************************************************************)
CONSTANTS Ticket, Signature, None

VARIABLES
    milestones, \* milestones[n]: what happened to incident n
    evidence    \* evidence[n]: the signature on its corrective action

trail == <<milestones, evidence>>

Init ==
    /\ milestones = [n \in Ticket |-> {}]
    /\ evidence = [n \in Ticket |-> None]

Reach(n, previous, m) ==
    /\ previous \subseteq milestones[n]
    /\ milestones' = [milestones EXCEPT ![n] = @ \cup {m}]

Detect(n) == Reach(n, {}, "detected") /\ UNCHANGED evidence

TakeOver(n) == Reach(n, {"detected"}, "taken over") /\ UNCHANGED evidence

Sign(n, s) ==
    /\ evidence[n] = None
    /\ Reach(n, {"taken over"}, "signed")
    /\ evidence' = [evidence EXCEPT ![n] = s]

SignOff(n) == Reach(n, {"signed"}, "signed off") /\ UNCHANGED evidence

Next ==
    \E n \in Ticket :
        \/ Detect(n)
        \/ TakeOver(n)
        \/ \E s \in Signature : Sign(n, s)
        \/ SignOff(n)

Spec == Init /\ [][Next]_trail

=============================================================================
