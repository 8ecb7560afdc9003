------------------------------ MODULE Cleaning ------------------------------
(***************************************************************************)
(* Cleaning plans (modules/cleaning): zones, routines, the tasks that join *)
(* them, and the log of what operators did.                                *)
(*                                                                         *)
(* Nothing is soft-deleted here.  Deletions load one row and leave the rest*)
(* to the foreign keys; a batch of logs is checked against the tasks there *)
(* are and inserted some awaits later; the to-do list is put together from *)
(* three SELECTs.                                                          *)
(*                                                                         *)
(* The logs of a batch are identified by the request that creates them.    *)
(***************************************************************************)
EXTENDS Naturals

CONSTANTS
    Site,           \* establishments
    Zone,           \* primary keys of cleaning_zones, each given to one row only
    Routine,        \* the same of cleaning_routines
    Task,           \* the same of cleaning_task_templates
    establishment,  \* the site of each zone and routine
    schedule,       \* schedule_type of each routine
    Seed,           \* zones and routines there are at the start
    plan,           \* tasks there are at the start, with their routine and zone
    Request,        \* HTTP requests; each one is served once
    Exclusive,      \* sites whose requests happen never to overlap
    None,           \* no row yet
    Gone            \* a row that was deleted

ScheduleType == {"OPENING", "CLOSING", "WEEKLY", "MONTHLY"}
Template == [routine : Routine, zone : Zone]

ASSUME SiteAssumption ==
    /\ establishment \in [Zone \cup Routine -> Site]
    /\ schedule \in [Routine -> ScheduleType]
    /\ Exclusive \subseteq Site
ASSUME SeedAssumption ==
    /\ plan \in [Task -> Template \cup {None}]
    /\ \A t \in Task : plan[t] # None =>
          /\ {plan[t].routine, plan[t].zone} \subseteq Seed
          /\ establishment[plan[t].routine] = establishment[plan[t].zone]
ASSUME NoneAssumption ==
    /\ None # Gone
    /\ {None, Gone} \cap {"row"} = {}
    /\ {None, Gone} \cap (Zone \cup Request) = {}
    /\ {None, Gone} \cap Template = {}

VARIABLES
    zone,       \* each zone: None, "row" or Gone
    routine,    \* each routine
    template,   \* each task: its routine and zone, or None or Gone
    logs,       \* committed logs: the requests that logged each task
    clock,      \* what now_for_site returns, in the clock's resolution
    executed_at,\* the stamp each batch took
    pc,         \* where each request is
    call,       \* what each request asked for
    seen,       \* the tasks a request loaded, with their zones
    shown       \* the logs a to-do list shows

plans == <<zone, routine, template>>
book == <<logs, clock, executed_at>>
vars == <<plans, book, pc, call, seen, shown>>

RowState == {None, "row", Gone}

ZoneCall == [op : {"zone"}, site : Site, zone : Zone]
RoutineCall == [op : {"routine", "todo"}, site : Site, routine : Routine]
NewTaskCall == [op : {"new task"}, site : Site, routine : Routine, zone : Zone]
TaskCall == [op : {"task"}, site : Site, task : Task]
BulkCall == [op : {"bulk"}, site : Site, items : SUBSET Task]
Call == ZoneCall \cup RoutineCall \cup NewTaskCall \cup TaskCall \cup BulkCall

ASSUME CallAssumption == None \notin Call

InFlight == {"dropping zone", "dropping routine", "dropping task", "adding task", "logging",
             "listing", "matching", "zoning"}
Answered == {"ok", "failed"}

TypeOK ==
    /\ zone \in [Zone -> RowState]
    /\ routine \in [Routine -> RowState]
    /\ template \in [Task -> Template \cup {None, Gone}]
    /\ logs \in [Task -> SUBSET Request]
    /\ clock \in Nat
    /\ executed_at \in [Request -> Nat]
    /\ pc \in [Request -> {"new"} \cup InFlight \cup Answered]
    /\ call \in [Request -> Call \cup {None}]
    /\ seen \in [Request -> [Task -> Zone \cup {None}]]
    /\ shown \in [Request -> [Task -> Request \cup {None}]]

Init ==
    /\ zone = [z \in Zone |-> IF z \in Seed THEN "row" ELSE None]
    /\ routine = [k \in Routine |-> IF k \in Seed THEN "row" ELSE None]
    /\ template = plan
    /\ logs = [t \in Task |-> {}]
    /\ clock = 0
    /\ executed_at = [r \in Request |-> 0]
    /\ pc = [r \in Request |-> "new"]
    /\ call = [r \in Request |-> None]
    /\ seen = [r \in Request |-> [t \in Task |-> None]]
    /\ shown = [r \in Request |-> [t \in Task |-> None]]

Begin(r, next, asked) ==
    /\ pc[r] = "new"
    /\ pc' = [pc EXCEPT ![r] = next]
    /\ call' = [call EXCEPT ![r] = asked]

\* r is answered, and leaves no row behind that needs what it asked for.
Finish(r, answer) ==
    /\ pc' = [pc EXCEPT ![r] = answer]
    /\ call' = [call EXCEPT ![r] = None]
    /\ seen' = [seen EXCEPT ![r] = [t \in Task |-> None]]
    /\ shown' = [shown EXCEPT ![r] = [t \in Task |-> None]]

-----------------------------------------------------------------------------
(* The rows.                                                                *)

IsTask(t) == template[t] \in Template

\* The site whose routine t belongs to.
SiteOf(t) == establishment[template[t].routine]

TasksOf(k) == {t \in Task : IsTask(t) /\ template[t].routine = k}

TasksIn(z) == {t \in Task : IsTask(t) /\ template[t].zone = z}

Listed(r) == {t \in Task : seen[r][t] # None}

\* The tasks of a routine with their zones, as a SELECT finds them.
Select(k) == [t \in Task |-> IF t \in TasksOf(k) THEN template[t].zone ELSE None]

\* Mutant: the oldest log of the day.
Latest_Oldest(t) == {q \in logs[t] : \A p \in logs[t] : executed_at[q] <= executed_at[p]}

\* ORDER BY executed_at DESC, the first log of the task: any one of these.
Latest(t) == {q \in logs[t] : \A p \in logs[t] : executed_at[p] <= executed_at[q]}

-----------------------------------------------------------------------------
(* Zones and routines.  Creation is one INSERT.                             *)

CreateZone(r) ==
    \E z \in Zone :
        /\ pc[r] = "new"
        /\ zone[z] = None
        /\ zone' = [zone EXCEPT ![z] = "row"]
        /\ Finish(r, "ok")
        /\ UNCHANGED <<routine, template, book>>

CreateRoutine(r) ==
    \E k \in Routine :
        /\ pc[r] = "new"
        /\ routine[k] = None
        /\ routine' = [routine EXCEPT ![k] = "row"]
        /\ Finish(r, "ok")
        /\ UNCHANGED <<zone, template, book>>

LoadZone(r) ==
    \E z \in Zone :
        /\ zone[z] = "row"
        /\ Begin(r, "dropping zone", [op |-> "zone", site |-> establishment[z], zone |-> z])
        /\ UNCHANGED <<plans, book, seen, shown>>

\* Mutant: the foreign key of the tasks does not restrict.
DeleteZone_Unrestricted(r) ==
    /\ pc[r] = "dropping zone"
    /\ zone' = [zone EXCEPT ![call[r].zone] = Gone]
    /\ Finish(r, "ok")
    /\ UNCHANGED <<routine, template, book>>

\* The foreign key of the tasks restricts.
DeleteZone(r) ==
    /\ pc[r] = "dropping zone"
    /\ TasksIn(call[r].zone) = {}
    /\ zone' = [zone EXCEPT ![call[r].zone] = Gone]
    /\ Finish(r, "ok")
    /\ UNCHANGED <<routine, template, book>>

\* The tasks come with the routine.
LoadRoutine(r) ==
    \E k \in Routine :
        /\ routine[k] = "row"
        /\ Begin(r, "dropping routine",
                 [op |-> "routine", site |-> establishment[k], routine |-> k])
        /\ seen' = [seen EXCEPT ![r] = Select(k)]
        /\ UNCHANGED <<plans, book, shown>>

\* Mutant: the logs of the tasks are deleted with them.
DeleteRoutine_WithLogs(r) ==
    LET dropped == TasksOf(call[r].routine) \cup Listed(r)
    IN  /\ pc[r] = "dropping routine"
        /\ template' = [t \in Task |-> IF t \in dropped THEN Gone ELSE template[t]]
        /\ routine' = [routine EXCEPT ![call[r].routine] = Gone]
        /\ logs' = [t \in Task |-> IF t \in dropped THEN {} ELSE logs[t]]
        /\ Finish(r, "ok")
        /\ UNCHANGED <<zone, clock, executed_at>>

\* The tasks loaded are deleted by the ORM, those added since by the foreign
\* key; that of the logs restricts.
DeleteRoutine(r) ==
    LET dropped == TasksOf(call[r].routine) \cup Listed(r)
    IN  /\ pc[r] = "dropping routine"
        /\ \A t \in dropped : logs[t] = {}
        /\ template' = [t \in Task |-> IF t \in dropped THEN Gone ELSE template[t]]
        /\ routine' = [routine EXCEPT ![call[r].routine] = Gone]
        /\ Finish(r, "ok")
        /\ UNCHANGED <<zone, book>>

-----------------------------------------------------------------------------
(* Tasks.                                                                   *)

\* The routine and the zone are SELECTed, in the same site.
LoadParents(r) ==
    \E k \in Routine, z \in Zone :
        /\ routine[k] = "row"
        /\ zone[z] = "row"
        /\ establishment[k] = establishment[z]
        /\ Begin(r, "adding task",
                 [op |-> "new task", site |-> establishment[k], routine |-> k, zone |-> z])
        /\ UNCHANGED <<plans, book, seen, shown>>

\* Mutant: the zone is left out of the row.
InsertTask_NoZone(r) ==
    \E t \in Task :
        /\ pc[r] = "adding task"
        /\ template[t] = None
        /\ routine[call[r].routine] = "row"
        /\ zone[call[r].zone] = "row"
        /\ template' = [template EXCEPT ![t] =
                          [routine |-> call[r].routine, zone |-> None]]
        /\ Finish(r, "ok")
        /\ UNCHANGED <<zone, routine, book>>

\* The foreign keys look again.
InsertTask(r) ==
    \E t \in Task :
        /\ pc[r] = "adding task"
        /\ template[t] = None
        /\ routine[call[r].routine] = "row"
        /\ zone[call[r].zone] = "row"
        /\ template' = [template EXCEPT ![t] =
                          [routine |-> call[r].routine, zone |-> call[r].zone]]
        /\ Finish(r, "ok")
        /\ UNCHANGED <<zone, routine, book>>

LoadTask(r) ==
    \E t \in Task :
        /\ IsTask(t)
        /\ Begin(r, "dropping task", [op |-> "task", site |-> SiteOf(t), task |-> t])
        /\ UNCHANGED <<plans, book, seen, shown>>

DeleteTask(r) ==
    /\ pc[r] = "dropping task"
    /\ logs[call[r].task] = {}
    /\ template' = [template EXCEPT ![call[r].task] = Gone]
    /\ Finish(r, "ok")
    /\ UNCHANGED <<zone, routine, book>>

-----------------------------------------------------------------------------
(* bulk_create_logs.                                                        *)

\* The stamp is taken, then every task is looked up.
CheckBatch(r) ==
    \E s \in Site, now \in {clock, clock + 1} :
        \E items \in SUBSET {t \in Task : IsTask(t) /\ SiteOf(t) = s} :
            /\ items # {}
            /\ Begin(r, "logging", [op |-> "bulk", site |-> s, items |-> items])
            /\ clock' = now + 1
            /\ executed_at' = [executed_at EXCEPT ![r] = now]
            /\ UNCHANGED <<plans, logs, seen, shown>>

\* Mutant: a task that is no longer there is skipped.
CommitBatch_Skips(r) ==
    /\ pc[r] = "logging"
    /\ logs' = [t \in Task |->
                  IF t \in call[r].items /\ IsTask(t) THEN logs[t] \cup {r} ELSE logs[t]]
    /\ pc' = [pc EXCEPT ![r] = "ok"]
    /\ UNCHANGED <<plans, clock, executed_at, call, seen, shown>>

\* All the INSERTs or none: the foreign key refuses a task that is gone.
CommitBatch(r) ==
    /\ pc[r] = "logging"
    /\ \A t \in call[r].items : IsTask(t)
    /\ logs' = [t \in Task |-> IF t \in call[r].items THEN logs[t] \cup {r} ELSE logs[t]]
    /\ pc' = [pc EXCEPT ![r] = "ok"]
    /\ UNCHANGED <<plans, clock, executed_at, call, seen, shown>>

-----------------------------------------------------------------------------
(* get_current_routine, get_routine_detail and _build_routine_todo.         *)

\* The routines the tablet may be shown: one of the schedule asked for, or the
\* oldest one when there is none.
CurrentRoutines(s, wanted) ==
    LET here == {k \in Routine : establishment[k] = s /\ routine[k] = "row"}
        fitting == {k \in here : schedule[k] = wanted}
    IN  IF fitting # {} THEN fitting ELSE here

OpenTodo(r) ==
    \E s \in Site, wanted \in ScheduleType : \E k \in CurrentRoutines(s, wanted) :
        /\ Begin(r, "listing", [op |-> "todo", site |-> s, routine |-> k])
        /\ UNCHANGED <<plans, book, seen, shown>>

\* A routine without tasks is answered at once.
ListTasks(r) ==
    /\ pc[r] = "listing"
    /\ IF TasksOf(call[r].routine) = {} THEN Finish(r, "ok")
       ELSE /\ seen' = [seen EXCEPT ![r] = Select(call[r].routine)]
            /\ pc' = [pc EXCEPT ![r] = "matching"]
            /\ UNCHANGED <<call, shown>>
    /\ UNCHANGED <<plans, book>>

\* Today's logs of the tasks listed; a run of the model is one day.
MatchLogs(r) ==
    \E lines \in [Task -> Request \cup {None}] :
        /\ pc[r] = "matching"
        /\ \A t \in Task :
              IF t \in Listed(r) /\ logs[t] # {} THEN lines[t] \in Latest(t) ELSE lines[t] = None
        /\ shown' = [shown EXCEPT ![r] = lines]
        /\ pc' = [pc EXCEPT ![r] = "zoning"]
        /\ UNCHANGED <<plans, book, call, seen>>

\* zones_by_id[zone_id] raises KeyError when one of the zones is gone.
AnswerTodo(r) ==
    /\ pc[r] = "zoning"
    /\ Finish(r, IF \A t \in Listed(r) : zone[seen[r][t]] = "row" THEN "ok" ELSE "failed")
    /\ UNCHANGED <<plans, book>>

-----------------------------------------------------------------------------

\* A request may die, or be refused by a foreign key.
Fail(r) ==
    /\ pc[r] \in InFlight
    /\ Finish(r, "failed")
    /\ UNCHANGED <<plans, book>>

Next ==
    \E r \in Request :
        \/ CreateZone(r) \/ LoadZone(r) \/ DeleteZone(r)
        \/ CreateRoutine(r) \/ LoadRoutine(r) \/ DeleteRoutine(r)
        \/ LoadParents(r) \/ InsertTask(r) \/ LoadTask(r) \/ DeleteTask(r)
        \/ CheckBatch(r) \/ CommitBatch(r)
        \/ OpenTodo(r) \/ ListTasks(r) \/ MatchLogs(r) \/ AnswerTodo(r)
        \/ Fail(r)

NoOverlap ==
    \A q, r \in Request :
        q # r /\ pc[q] \in InFlight /\ pc[r] \in InFlight /\ call[q].site \in Exclusive =>
            call[q].site # call[r].site

Spec == Init /\ [][Next /\ NoOverlap']_vars

-----------------------------------------------------------------------------
(* What the kitchen and the inspector rely on.                              *)

\* Whatever is deleted meanwhile, every log still says which task was done, of
\* which routine and in which zone.
LogsAreExplained ==
    \A t \in Task :
        /\ logs[t] # {} => IsTask(t)
        /\ IsTask(t) => routine[template[t].routine] = "row" /\ zone[template[t].zone] = "row"

\* However requests interleave, sites do not mix: the zone of a task is of its
\* routine's site, and so is every batch that logged it.
SitesApart ==
    \A t \in Task : IsTask(t) =>
        /\ establishment[template[t].zone] = SiteOf(t)
        /\ \A r \in logs[t] : call[r].site = SiteOf(t)

\* A batch is logged as a whole, or not at all.
BatchWhole ==
    \A t \in Task, r \in Request :
        r \in logs[t] <=> pc[r] = "ok" /\ call[r] # None /\ t \in call[r].items

\* However requests interleave, batches are written once and nothing is removed.
Register == INSTANCE Logbook WITH Batch <- Request, entries <- logs

ImplementsLogbook == Register!Spec

\* Three SELECTs make one picture when the site's requests do not overlap: the
\* routine's tasks as they are, each with its latest log and a zone to show it in.
TodoIsCurrent ==
    \A r \in Request : pc[r] = "zoning" /\ call[r].site \in Exclusive =>
        /\ seen[r] = Select(call[r].routine)
        /\ \A t \in Listed(r) :
              /\ zone[seen[r][t]] = "row"
              /\ logs[t] = {} => shown[r][t] = None
              /\ logs[t] # {} =>
                    /\ shown[r][t] \in logs[t]
                    /\ \A q \in logs[t] : executed_at[q] <= executed_at[shown[r][t]]

=============================================================================
