-------------------------- MODULE DeliveryDossier --------------------------
(***************************************************************************)
(* What a reception session promises: lines are added while it is open,    *)
(* and closing it freezes them, once.                                      *)
(***************************************************************************)
CONSTANTS Session, Line, None

VARIABLES
    status,     \* None, "OPEN" or "CLOSED"
    lines,      \* lines[s]: the scanned lines of dossier s
    closed_at   \* closed_at[s]: the stamp of its closing

dossier == <<status, lines, closed_at>>

Init ==
    /\ status = [s \in Session |-> None]
    /\ lines = [s \in Session |-> {}]
    /\ closed_at = [s \in Session |-> None]

Open(s) ==
    /\ status[s] = None
    /\ status' = [status EXCEPT ![s] = "OPEN"]
    /\ UNCHANGED <<lines, closed_at>>

Add(s, l) ==
    /\ status[s] = "OPEN"
    /\ lines' = [lines EXCEPT ![s] = @ \cup {l}]
    /\ UNCHANGED <<status, closed_at>>

Close(s, l) ==
    /\ status[s] = "OPEN"
    /\ status' = [status EXCEPT ![s] = "CLOSED"]
    /\ closed_at' = [closed_at EXCEPT ![s] = l]
    /\ UNCHANGED lines

Next == \E s \in Session : Open(s) \/ \E l \in Line : Add(s, l) \/ Close(s, l)

Spec == Init /\ [][Next]_dossier

=============================================================================
