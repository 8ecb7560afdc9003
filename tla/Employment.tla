----------------------------- MODULE Employment -----------------------------
(***************************************************************************)
(* What the personnel service promises of each user: hired once, dismissed *)
(* for good, erased only while no record bears the signature; and someone  *)
(* who does one thing at a time signs records only while employed.         *)
(***************************************************************************)
CONSTANTS
    User,
    Record,
    Careful,    \* users who never do two things at once
    None        \* not hired yet

VARIABLES standing, signed

Init ==
    /\ standing \in [User -> {None, "active"}]
    /\ signed = [u \in User |-> {}]

Move(u, from, to) ==
    /\ standing[u] \in from
    /\ standing' = [standing EXCEPT ![u] = to]
    /\ UNCHANGED signed

Hire(u) == Move(u, {None}, "active")

Dismiss(u) == Move(u, {"active"}, "deleted")

Erase(u) == signed[u] = {} /\ Move(u, {"active", "deleted"}, "gone")

\* A signature that was under way when its author was dismissed may still land.
Sign(u) ==
    \E r \in Record \ signed[u] :
        /\ standing[u] \in IF u \in Careful THEN {"active"} ELSE {"active", "deleted"}
        /\ signed' = [signed EXCEPT ![u] = @ \cup {r}]
        /\ UNCHANGED standing

Next == \E u \in User : Hire(u) \/ Dismiss(u) \/ Erase(u) \/ Sign(u)

Spec == Init /\ [][Next]_<<standing, signed>>

=============================================================================
