------------------------------ MODULE Logbook ------------------------------
(***************************************************************************)
(* What the cleaning log promises an inspector: batches of entries are     *)
(* added, each one whole and once, and no entry is ever removed.           *)
(***************************************************************************)
CONSTANTS Batch, Task

VARIABLE entries

Init == entries = [t \in Task |-> {}]

Write(b, tasks) ==
    /\ \A t \in Task : b \notin entries[t]
    /\ entries' = [t \in Task |-> IF t \in tasks THEN entries[t] \cup {b} ELSE entries[t]]

Next == \E b \in Batch, tasks \in SUBSET Task : Write(b, tasks)

Spec == Init /\ [][Next]_entries

=============================================================================
