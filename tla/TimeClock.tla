----------------------------- MODULE TimeClock -----------------------------
(***************************************************************************)
(* The time clock of one establishment (modules/haccp): a log of events per*)
(* operator, with no status column.  An operator's status is derived from  *)
(* the event with the latest pointe_at, and a new event is checked against *)
(* that status, stamped, and committed, in three steps between which other *)
(* requests of the same operator may run.                                  *)
(*                                                                         *)
(* An event is identified by the request that creates it.                  *)
(***************************************************************************)
EXTENDS Naturals

CONSTANTS
    Operator,   \* users get_current_operator may return
    Request,    \* HTTP requests; each one is served once
    Exclusive,  \* operators whose requests happen never to overlap
    None        \* no row

ASSUME ExclusiveAssumption == Exclusive \subseteq Operator
ASSUME NoneAssumption ==
    None \notin {"CLOCK_IN", "BREAK_START", "BREAK_END", "CLOCK_OUT"}

VARIABLES
    clock,      \* what now_for_site returns, in the clock's resolution
    pointages,  \* committed rows of pointages
    pointe_at,  \* the stamp each request took
    pc,         \* where each request is
    call        \* what each request asked for

vars == <<clock, pointages, pointe_at, pc, call>>

TypeEvenementPointage == {"CLOCK_IN", "BREAK_START", "BREAK_END", "CLOCK_OUT"}
TimeclockStatus == {"CLOCKED_OUT", "ACTIVE", "ON_BREAK"}

Call == [operator : Operator, type : TypeEvenementPointage]

InFlight == {"checked", "stamped"}
Answered == {"ok", "rejected", "failed"}

TypeOK ==
    /\ clock \in Nat
    /\ pointages \subseteq Request
    /\ pointe_at \in [Request -> Nat]
    /\ pc \in [Request -> {"new"} \cup InFlight \cup Answered]
    /\ call \in [Request -> Call \cup {None}]

Init ==
    /\ clock = 0
    /\ pointages = {}
    /\ pointe_at = [r \in Request |-> 0]
    /\ pc = [r \in Request |-> "new"]
    /\ call = [r \in Request |-> None]

-----------------------------------------------------------------------------

\* _status_from_event; None: the operator has no event.
StatusFromEvent(type) ==
    CASE type \in {"CLOCK_IN", "BREAK_END"} -> "ACTIVE"
      [] type = "BREAK_START" -> "ON_BREAK"
      [] OTHER -> "CLOCKED_OUT"

\* Mutant: a break may be the first event of the day.
ValidTransitions_BreakFirst(s) ==
    CASE s = "CLOCKED_OUT" -> {"CLOCK_IN", "BREAK_START"}
      [] s = "ACTIVE" -> {"BREAK_START", "CLOCK_OUT"}
      [] s = "ON_BREAK" -> {"BREAK_END", "CLOCK_OUT"}

\* _VALID_TRANSITIONS.
ValidTransitions(s) ==
    CASE s = "CLOCKED_OUT" -> {"CLOCK_IN"}
      [] s = "ACTIVE" -> {"BREAK_START", "CLOCK_OUT"}
      [] s = "ON_BREAK" -> {"BREAK_END", "CLOCK_OUT"}

EventsOf(o) == {r \in pointages : call[r].operator = o}

\* Mutant: ORDER BY pointe_at ascending.
Latest_Oldest(o) == {r \in EventsOf(o) : \A q \in EventsOf(o) : pointe_at[r] <= pointe_at[q]}

\* ORDER BY pointe_at DESC LIMIT 1 returns one of these, any one of them.
Latest(o) == {r \in EventsOf(o) : \A q \in EventsOf(o) : pointe_at[q] <= pointe_at[r]}

\* The types _get_operator_status may read.
LastTypes(o) ==
    IF EventsOf(o) = {} THEN {None} ELSE {call[r].type : r \in Latest(o)}

-----------------------------------------------------------------------------
(* create_time_clock_event.  A query takes longer than the resolution of the *)
(* clock: two requests that do not overlap never take the same stamp.        *)

Check(r) ==
    \E o \in Operator, t \in TypeEvenementPointage : \E last \in LastTypes(o) :
        /\ pc[r] = "new"
        /\ call' = [call EXCEPT ![r] = [operator |-> o, type |-> t]]
        /\ pc' = [pc EXCEPT ![r] =
                    IF t \in ValidTransitions(StatusFromEvent(last)) THEN "checked"
                    ELSE "rejected"]
        /\ clock' = clock + 1
        /\ UNCHANGED <<pointages, pointe_at>>

Stamp(r) ==
    \E now \in {clock, clock + 1} :
        /\ pc[r] = "checked"
        /\ clock' = now
        /\ pointe_at' = [pointe_at EXCEPT ![r] = now]
        /\ pc' = [pc EXCEPT ![r] = "stamped"]
        /\ UNCHANGED <<pointages, call>>

\* Mutant: the column is left out of the INSERT.
Commit_Unstamped(r) ==
    /\ pc[r] = "stamped"
    /\ pointages' = pointages \cup {r}
    /\ pointe_at' = [pointe_at EXCEPT ![r] = None]
    /\ pc' = [pc EXCEPT ![r] = "ok"]
    /\ UNCHANGED <<clock, call>>

Commit(r) ==
    /\ pc[r] = "stamped"
    /\ pointages' = pointages \cup {r}
    /\ pc' = [pc EXCEPT ![r] = "ok"]
    /\ UNCHANGED <<clock, pointe_at, call>>

\* A request may die before its commit.
Fail(r) ==
    /\ pc[r] \in InFlight
    /\ pc' = [pc EXCEPT ![r] = "failed"]
    /\ UNCHANGED <<clock, pointages, pointe_at, call>>

Next == \E r \in Request : Check(r) \/ Stamp(r) \/ Commit(r) \/ Fail(r)

\* Nothing in the program keeps the requests of an operator apart: a double tap
\* on the kiosk sends two.  Exclusive is there to state what holds of those who
\* send one at a time.
NoOverlap ==
    \A q, r \in Request :
        q # r /\ pc[q] \in InFlight /\ pc[r] \in InFlight /\ call[q].operator \in Exclusive =>
            call[q].operator # call[r].operator

Spec == Init /\ [][Next /\ NoOverlap']_vars

-----------------------------------------------------------------------------
(* The shift an inspector reads off the log, sorted by pointe_at.            *)

\* The successions the time clock allows, CLOCKED_OUT -> CLOCK_IN -> BREAK_START
\* <-> BREAK_END -> CLOCK_OUT, with a CLOCK_OUT from either state on duty.
LegalSuccession ==
    {<<"CLOCK_IN", "BREAK_START">>, <<"CLOCK_IN", "CLOCK_OUT">>,
     <<"BREAK_START", "BREAK_END">>, <<"BREAK_START", "CLOCK_OUT">>,
     <<"BREAK_END", "BREAK_START">>, <<"BREAK_END", "CLOCK_OUT">>,
     <<"CLOCK_OUT", "CLOCK_IN">>}

\* However requests interleave, no event comes out of nowhere: a break, its end
\* or a clock-out has a strictly earlier event of the same operator that allows
\* it, so that an operator's first event is a CLOCK_IN.
Licensed ==
    \A r \in pointages :
        call[r].type # "CLOCK_IN" =>
            \E q \in EventsOf(call[r].operator) :
                /\ pointe_at[q] < pointe_at[r]
                /\ <<call[q].type, call[r].type>> \in LegalSuccession

\* q is the event just before r in the log of their operator, or ties with it.
Before(q, r) ==
    /\ q # r
    /\ pointe_at[q] <= pointe_at[r]
    /\ \A p \in EventsOf(call[r].operator) \ {q, r} :
          ~(pointe_at[q] < pointe_at[p] /\ pointe_at[p] < pointe_at[r])

LegalLogOf(o) ==
    \A q, r \in EventsOf(o) : Before(q, r) => <<call[q].type, call[r].type>> \in LegalSuccession

\* Every event of an operator whose requests do not overlap is allowed by the
\* one just before it in the log, although the check reads only the last one.
LegalLog == \A o \in Exclusive : LegalLogOf(o)

\* However requests interleave, an event that is committed stays, with the type, the
\* operator and the time it has.  An event of an operator whose requests do not
\* overlap comes at the end of the log: it is what both status queries read at once.
LogGrowsAtEnd ==
    [][/\ \A r \in pointages :
              r \in pointages' /\ call'[r] = call[r] /\ pointe_at'[r] = pointe_at[r]
       /\ \A r \in pointages' \ pointages :
              call[r].operator \in Exclusive => Latest(call[r].operator)' = {r}]_vars

\* What the two status queries show for an operator.
ShownStatus(o) == CHOOSE s \in {StatusFromEvent(type) : type \in LastTypes(o)} : TRUE

Rota == INSTANCE Shift
            WITH Operator <- Exclusive, on_duty <- [o \in Exclusive |-> ShownStatus(o)]

\* The status derived from the log of these operators behaves like a status that
\* is kept: one transition per accepted event.
ImplementsShift == Rota!Spec

=============================================================================
