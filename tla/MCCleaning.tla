----------------------------- MODULE MCCleaning -----------------------------
(* Small instances of Cleaning.  The kitchen has a zone, a routine, a task    *)
(* and one to come; the bar has a zone, a routine and two tasks, and a zone   *)
(* and a routine to come.                                                     *)
EXTENDS Cleaning, TLC

CONSTANTS kitchen, bar, floor, counter, shelf, morning, evening, late, mop, scrub, rinse, wipe

Where == [x \in Zone \cup Routine |-> IF x \in {floor, morning} THEN kitchen ELSE bar]

When == [k \in Routine |-> IF k = evening THEN "CLOSING" ELSE "OPENING"]

There == {floor, counter, morning, evening}

Planned ==
    [t \in Task |->
        CASE t = mop -> [routine |-> morning, zone |-> floor]
          [] t = scrub -> None
          [] OTHER -> [routine |-> evening, zone |-> counter]]

Symmetry == Permutations(Request)

=============================================================================
