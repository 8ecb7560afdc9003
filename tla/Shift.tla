------------------------------- MODULE Shift -------------------------------
(***************************************************************************)
(* What the time clock promises: each operator is off duty, at work or on  *)
(* a break, and moves from one to another one event at a time.             *)
(***************************************************************************)
CONSTANT Operator

VARIABLE on_duty

Init == on_duty = [o \in Operator |-> "CLOCKED_OUT"]

Move(o, from, to) ==
    /\ on_duty[o] \in from
    /\ on_duty' = [on_duty EXCEPT ![o] = to]

ClockIn(o) == Move(o, {"CLOCKED_OUT"}, "ACTIVE")

StartBreak(o) == Move(o, {"ACTIVE"}, "ON_BREAK")

EndBreak(o) == Move(o, {"ON_BREAK"}, "ACTIVE")

ClockOut(o) == Move(o, {"ACTIVE", "ON_BREAK"}, "CLOCKED_OUT")

Next == \E o \in Operator : ClockIn(o) \/ StartBreak(o) \/ EndBreak(o) \/ ClockOut(o)

Spec == Init /\ [][Next]_on_duty

=============================================================================
