--------------------------- MODULE CleaningProofs ---------------------------
(***************************************************************************)
(* Proofs about Cleaning, for any plan, any sites and any requests.        *)
(***************************************************************************)
EXTENDS Cleaning, TLAPS

USE SiteAssumption, NoneAssumption

(* The inductive invariant: what a request in flight asked for, and that the *)
(* tasks it has looked up can only have been deleted since.                  *)

OfSite(t, s) == template[t] = Gone \/ (IsTask(t) /\ SiteOf(t) = s)

OfRoutine(t, k) == template[t] = Gone \/ (IsTask(t) /\ template[t].routine = k)

Sane(r) ==
    /\ pc[r] = "dropping zone" => call[r] \in ZoneCall
    /\ pc[r] \in {"dropping routine", "listing", "matching", "zoning"} =>
          call[r] \in RoutineCall /\ call[r].site = establishment[call[r].routine]
    /\ pc[r] \in {"dropping routine", "matching", "zoning"} =>
          \A t \in Listed(r) : OfRoutine(t, call[r].routine)
    /\ pc[r] = "adding task" =>
          call[r] \in NewTaskCall /\ call[r].site = establishment[call[r].routine]
    /\ pc[r] = "dropping task" =>
          call[r] \in TaskCall /\ OfSite(call[r].task, call[r].site)
    /\ pc[r] = "logging" =>
          call[r] \in BulkCall /\ \A t \in call[r].items : OfSite(t, call[r].site)
    /\ pc[r] = "ok" /\ call[r] # None => call[r] \in BulkCall

IInv ==
    /\ TypeOK
    /\ LogsAreExplained
    /\ BatchWhole
    /\ \A r \in Request : Sane(r)

LEMMA InitIInv == Init => IInv
<1> SUFFICES ASSUME Init PROVE IInv
  OBVIOUS
<1>1. TypeOK
  BY SeedAssumption DEF Init, TypeOK, RowState
<1>2. LogsAreExplained
  <2>1. ASSUME NEW t \in Task, IsTask(t)
        PROVE  routine[template[t].routine] = "row" /\ zone[template[t].zone] = "row"
    <3>1. plan[t] # None /\ plan[t] \in Template
      BY <2>1, SeedAssumption DEF Init, IsTask
    <3>2. plan[t].routine \in Routine \cap Seed /\ plan[t].zone \in Zone \cap Seed
      BY <3>1, SeedAssumption DEF Template
    <3> QED
      BY <3>2 DEF Init
  <2> QED
    BY <2>1 DEF Init, LogsAreExplained
<1>3. BatchWhole /\ \A r \in Request : Sane(r)
  BY DEF Init, BatchWhole, Sane
<1> QED
  BY <1>1, <1>2, <1>3 DEF IInv

\* A step changes a task only by adding it or by deleting it.
Kept == \A t \in Task : template[t] # None => template'[t] \in {template[t], Gone}

\* A request that is not the one that moves stays sane.
LEMMA OthersSane ==
    ASSUME IInv, Kept, NEW q \in Request,
           pc'[q] = pc[q], call'[q] = call[q], seen'[q] = seen[q]
    PROVE  Sane(q)'
<1>1. Sane(q)
  BY DEF IInv
<1>2. ASSUME NEW t \in Task, NEW s, OfSite(t, s) PROVE OfSite(t, s)'
  <2>1. template[t] # None /\ template'[t] \in {template[t], Gone}
    BY <1>2 DEF OfSite, IsTask, Kept
  <2>2. CASE template'[t] = Gone
    BY <2>2 DEF OfSite
  <2>3. CASE template'[t] = template[t]
    BY <1>2, <2>3 DEF OfSite, IsTask, SiteOf
  <2> QED
    BY <2>1, <2>2, <2>3
<1>3. ASSUME NEW t \in Task, NEW k, OfRoutine(t, k) PROVE OfRoutine(t, k)'
  <2>1. template[t] # None /\ template'[t] \in {template[t], Gone}
    BY <1>3 DEF OfRoutine, IsTask, Kept
  <2>2. CASE template'[t] = Gone
    BY <2>2 DEF OfRoutine
  <2>3. CASE template'[t] = template[t]
    BY <1>3, <2>3 DEF OfRoutine, IsTask
  <2> QED
    BY <2>1, <2>2, <2>3
<1>4. Listed(q)' = Listed(q) /\ Listed(q) \subseteq Task
  BY DEF Listed
<1>5. pc[q] = "logging" => call[q].items \subseteq Task
  BY <1>1 DEF Sane, BulkCall
<1>6. pc[q] = "dropping task" => call[q].task \in Task
  BY <1>1 DEF Sane, TaskCall
<1>7. pc[q] \in {"dropping routine", "matching", "zoning"} =>
        \A t \in Listed(q) : OfRoutine(t, call[q].routine)'
  BY <1>1, <1>3, <1>4 DEF Sane
<1>8. pc[q] = "dropping task" => OfSite(call[q].task, call[q].site)'
  BY <1>1, <1>2, <1>6 DEF Sane
<1>9. pc[q] = "logging" => \A t \in call[q].items : OfSite(t, call[q].site)'
  BY <1>1, <1>2, <1>5 DEF Sane
<1> QED
  BY <1>1, <1>4, <1>7, <1>8, <1>9 DEF Sane, OfSite, OfRoutine, IsTask, SiteOf

\* A request that has not been answered has no log.
LEMMA NoLogYet ==
    ASSUME IInv, NEW r \in Request, pc[r] # "ok", NEW t \in Task
    PROVE  r \notin logs[t]
BY DEF IInv, BatchWhole

\* A step that begins a request leaves the database alone.
LEMMA BeginIInv ==
    ASSUME IInv, NEW r \in Request, NEW c \in Call, NEW next \in InFlight, Begin(r, next, c),
           UNCHANGED <<plans, logs, shown>>, clock' \in Nat,
           executed_at' \in [Request -> Nat],
           seen' \in [Request -> [Task -> Zone \cup {None}]],
           \A q \in Request \ {r} : seen'[q] = seen[q],
           Sane(r)'
    PROVE  IInv'
<1> USE DEF Begin, plans
<1>1. TypeOK'
  BY DEF IInv, TypeOK
<1>2. LogsAreExplained'
  BY DEF IInv, LogsAreExplained, IsTask
<1>3. BatchWhole'
  <2>1. next # "ok"
    BY DEF InFlight
  <2> QED
    BY <2>1 DEF IInv, TypeOK, BatchWhole
<1>4. ASSUME NEW q \in Request PROVE Sane(q)'
  <2>1. CASE q = r
    BY <2>1
  <2>2. CASE q # r
    <3>1. pc'[q] = pc[q] /\ call'[q] = call[q] /\ seen'[q] = seen[q]
      BY <2>2 DEF IInv, TypeOK
    <3>2. Kept
      BY DEF Kept
    <3> QED
      BY <3>1, <3>2, OthersSane
  <2> QED
    BY <2>1, <2>2
<1> QED
  BY <1>1, <1>2, <1>3, <1>4 DEF IInv

\* A step that answers r and leaves no log, whatever it does to the plan.
LEMMA FinishIInv ==
    ASSUME IInv, NEW r \in Request, NEW answer \in Answered, Finish(r, answer),
           pc[r] # "ok", UNCHANGED book, Kept, LogsAreExplained',
           zone' \in [Zone -> RowState],
           routine' \in [Routine -> RowState],
           template' \in [Task -> Template \cup {None, Gone}]
    PROVE  IInv'
<1> USE DEF Finish, book
<1>1. TypeOK'
  BY DEF IInv, TypeOK
<1>2. BatchWhole'
  <2>1. ASSUME NEW t \in Task, NEW q \in Request
        PROVE  q \in logs[t] <=> pc'[q] = "ok" /\ call'[q] # None /\ t \in call'[q].items
    <3>1. CASE q = r
      BY <3>1, NoLogYet DEF IInv, TypeOK
    <3>2. CASE q # r
      BY <3>2 DEF IInv, TypeOK, BatchWhole
    <3> QED
      BY <3>1, <3>2
  <2> QED
    BY <2>1 DEF BatchWhole
<1>3. ASSUME NEW q \in Request PROVE Sane(q)'
  <2>1. CASE q = r
    <3>1. pc'[r] \in Answered /\ call'[r] = None
      BY DEF IInv, TypeOK
    <3> QED
      BY <2>1, <3>1 DEF Sane, Answered
  <2>2. CASE q # r
    <3>1. pc'[q] = pc[q] /\ call'[q] = call[q] /\ seen'[q] = seen[q]
      BY <2>2 DEF IInv, TypeOK
    <3> QED
      BY <3>1, OthersSane
  <2> QED
    BY <2>1, <2>2
<1> QED
  BY <1>1, <1>2, <1>3 DEF IInv

-----------------------------------------------------------------------------
(* Zones and routines.                                                       *)

LEMMA CreateRowIInv ==
    ASSUME IInv, NEW r \in Request, CreateZone(r) \/ CreateRoutine(r) PROVE IInv'
<1> USE DEF CreateZone, CreateRoutine
<1>1. Finish(r, "ok") /\ "ok" \in Answered /\ pc[r] # "ok" /\ UNCHANGED <<template, book>>
  BY DEF Answered
<1>2. zone' \in [Zone -> RowState] /\ routine' \in [Routine -> RowState]
  BY DEF IInv, TypeOK, RowState
<1>3. Kept /\ template' \in [Task -> Template \cup {None, Gone}]
  BY <1>1 DEF Kept, IInv, TypeOK
<1>4. /\ \A z \in Zone : zone[z] = "row" => zone'[z] = "row"
      /\ \A k \in Routine : routine[k] = "row" => routine'[k] = "row"
  BY DEF IInv, TypeOK
<1>5. LogsAreExplained'
  BY <1>1, <1>4 DEF IInv, LogsAreExplained, IsTask, Template, book
<1> HIDE DEF CreateZone, CreateRoutine
<1> QED
  BY <1>1, <1>2, <1>3, <1>5, FinishIInv

LEMMA LoadZoneIInv == ASSUME IInv, NEW r \in Request, LoadZone(r) PROVE IInv'
<1>1. PICK z \in Zone :
        /\ Begin(r, "dropping zone", [op |-> "zone", site |-> establishment[z], zone |-> z])
        /\ UNCHANGED <<plans, book, seen, shown>>
  BY DEF LoadZone
<1> DEFINE c == [op |-> "zone", site |-> establishment[z], zone |-> z]
<1>2. c \in ZoneCall /\ c \in Call /\ "dropping zone" \in InFlight
  BY DEF ZoneCall, Call, InFlight
<1>3. Sane(r)'
  BY <1>1, <1>2 DEF Begin, Sane, IInv, TypeOK
<1> HIDE DEF c
<1>4. Begin(r, "dropping zone", c)
  BY <1>1 DEF c
<1> QED
  BY <1>1, <1>2, <1>3, <1>4, BeginIInv DEF book, IInv, TypeOK

LEMMA DeleteZoneIInv == ASSUME IInv, NEW r \in Request, DeleteZone(r) PROVE IInv'
<1> USE DEF DeleteZone
<1>1. call[r].zone \in Zone
  BY DEF IInv, Sane, ZoneCall
<1>2. Finish(r, "ok") /\ "ok" \in Answered /\ pc[r] # "ok"
      /\ UNCHANGED <<routine, template, book>>
  BY DEF Answered
<1>3. zone' \in [Zone -> RowState]
  BY <1>1 DEF IInv, TypeOK, RowState
<1>4. LogsAreExplained'
  BY <1>1, <1>2 DEF IInv, TypeOK, LogsAreExplained, IsTask, TasksIn, Template, book
<1>5. Kept
  BY <1>2 DEF Kept
<1> HIDE DEF DeleteZone
<1> QED
  BY <1>2, <1>3, <1>4, <1>5, FinishIInv DEF IInv, TypeOK

LEMMA SelectType ==
    ASSUME IInv, NEW k \in Routine
    PROVE  Select(k) \in [Task -> Zone \cup {None}]
BY DEF IInv, TypeOK, Select, TasksOf, IsTask, Template

LEMMA LoadRoutineIInv == ASSUME IInv, NEW r \in Request, LoadRoutine(r) PROVE IInv'
<1>1. PICK k \in Routine :
        /\ Begin(r, "dropping routine", [op |-> "routine", site |-> establishment[k], routine |-> k])
        /\ seen' = [seen EXCEPT ![r] = Select(k)]
        /\ UNCHANGED <<plans, book, shown>>
  BY DEF LoadRoutine
<1> DEFINE c == [op |-> "routine", site |-> establishment[k], routine |-> k]
<1>2. c \in RoutineCall /\ c \in Call /\ "dropping routine" \in InFlight
  BY DEF RoutineCall, Call, InFlight
<1>3. pc'[r] = "dropping routine" /\ call'[r] = c /\ seen'[r] = Select(k)
  BY <1>1 DEF Begin, IInv, TypeOK
<1>4. \A t \in Listed(r)' : OfRoutine(t, k)'
  BY <1>1, <1>3 DEF Listed, Select, TasksOf, OfRoutine, IsTask, plans
<1>5. Sane(r)'
  <2>1. call'[r].routine = k /\ call'[r].site = establishment[k]
    BY <1>3, c.routine = k, c.site = establishment[k]
  <2> HIDE DEF c
  <2> QED
    BY <1>2, <1>3, <1>4, <2>1 DEF Sane
<1>6. seen' \in [Request -> [Task -> Zone \cup {None}]] /\ \A q \in Request \ {r} : seen'[q] = seen[q]
  BY <1>1, SelectType DEF IInv, TypeOK
<1> HIDE DEF c
<1>7. Begin(r, "dropping routine", c)
  BY <1>1 DEF c
<1> QED
  BY <1>1, <1>2, <1>5, <1>6, <1>7, BeginIInv DEF book, IInv, TypeOK

LEMMA DeleteRoutineIInv == ASSUME IInv, NEW r \in Request, DeleteRoutine(r) PROVE IInv'
<1> DEFINE dropped == TasksOf(call[r].routine) \cup Listed(r)
<1>1. call[r].routine \in Routine
  BY DEF DeleteRoutine, IInv, Sane, RoutineCall
<1>2. /\ Finish(r, "ok") /\ "ok" \in Answered /\ pc[r] # "ok"
      /\ UNCHANGED <<zone, book>>
      /\ \A t \in dropped : logs[t] = {}
      /\ template' = [t \in Task |-> IF t \in dropped THEN Gone ELSE template[t]]
      /\ routine' = [routine EXCEPT ![call[r].routine] = Gone]
  BY DEF DeleteRoutine, Answered
<1>3. routine' \in [Routine -> RowState] /\ template' \in [Task -> Template \cup {None, Gone}]
  BY <1>1, <1>2 DEF IInv, TypeOK, RowState
<1>4. LogsAreExplained'
  <2> SUFFICES ASSUME NEW t \in Task
               PROVE  /\ logs'[t] # {} => IsTask(t)'
                      /\ IsTask(t)' => routine'[template'[t].routine] = "row"
                                       /\ zone'[template'[t].zone] = "row"
    BY DEF LogsAreExplained
  <2>1. CASE t \in dropped
    BY <1>2, <2>1 DEF IsTask, book
  <2>2. CASE t \notin dropped
    <3>1. template'[t] = template[t] /\ logs'[t] = logs[t]
      BY <1>2, <2>2 DEF book
    <3>2. IsTask(t) => template[t].routine # call[r].routine /\ template[t].routine \in Routine
      BY <2>2 DEF TasksOf, IsTask, Template
    <3> QED
      BY <1>1, <1>2, <3>1, <3>2 DEF IInv, TypeOK, LogsAreExplained, IsTask
  <2> QED
    BY <2>1, <2>2
<1>5. Kept
  BY <1>2 DEF Kept
<1> QED
  BY <1>2, <1>3, <1>4, <1>5, FinishIInv DEF IInv, TypeOK

-----------------------------------------------------------------------------
(* Tasks.                                                                    *)

LEMMA LoadParentsIInv == ASSUME IInv, NEW r \in Request, LoadParents(r) PROVE IInv'
<1>1. PICK k \in Routine, z \in Zone :
        /\ Begin(r, "adding task",
                 [op |-> "new task", site |-> establishment[k], routine |-> k, zone |-> z])
        /\ UNCHANGED <<plans, book, seen, shown>>
  BY DEF LoadParents
<1> DEFINE c == [op |-> "new task", site |-> establishment[k], routine |-> k, zone |-> z]
<1>2. c \in NewTaskCall /\ c \in Call /\ "adding task" \in InFlight
  BY DEF NewTaskCall, Call, InFlight
<1>3. Sane(r)'
  BY <1>1, <1>2 DEF Begin, Sane, IInv, TypeOK
<1> HIDE DEF c
<1>4. Begin(r, "adding task", c)
  BY <1>1 DEF c
<1> QED
  BY <1>1, <1>2, <1>3, <1>4, BeginIInv DEF book, IInv, TypeOK

LEMMA InsertTaskIInv == ASSUME IInv, NEW r \in Request, InsertTask(r) PROVE IInv'
<1>1. PICK t \in Task :
        /\ pc[r] = "adding task"
        /\ template[t] = None
        /\ routine[call[r].routine] = "row"
        /\ zone[call[r].zone] = "row"
        /\ template' = [template EXCEPT ![t] = [routine |-> call[r].routine, zone |-> call[r].zone]]
        /\ Finish(r, "ok")
        /\ UNCHANGED <<zone, routine, book>>
  BY DEF InsertTask
<1>2. [routine |-> call[r].routine, zone |-> call[r].zone] \in Template
  BY <1>1 DEF IInv, Sane, NewTaskCall, Template
<1>3. template' \in [Task -> Template \cup {None, Gone}]
  BY <1>1, <1>2 DEF IInv, TypeOK
<1>4. LogsAreExplained'
  BY <1>1, <1>2 DEF IInv, TypeOK, LogsAreExplained, IsTask, book
<1>5. Kept /\ "ok" \in Answered /\ pc[r] # "ok"
  BY <1>1 DEF Kept, Answered, IInv, TypeOK
<1> QED
  BY <1>1, <1>3, <1>4, <1>5, FinishIInv DEF IInv, TypeOK

LEMMA LoadTaskIInv == ASSUME IInv, NEW r \in Request, LoadTask(r) PROVE IInv'
<1>1. PICK t \in Task :
        /\ IsTask(t)
        /\ Begin(r, "dropping task", [op |-> "task", site |-> SiteOf(t), task |-> t])
        /\ UNCHANGED <<plans, book, seen, shown>>
  BY DEF LoadTask
<1> DEFINE c == [op |-> "task", site |-> SiteOf(t), task |-> t]
<1>2. c \in TaskCall /\ c \in Call /\ "dropping task" \in InFlight
  BY <1>1 DEF TaskCall, Call, InFlight, SiteOf, IsTask, Template
<1>3. Sane(r)'
  BY <1>1, <1>2 DEF Begin, Sane, OfSite, IsTask, SiteOf, plans, IInv, TypeOK
<1> HIDE DEF c
<1>4. Begin(r, "dropping task", c)
  BY <1>1 DEF c
<1> QED
  BY <1>1, <1>2, <1>3, <1>4, BeginIInv DEF book, IInv, TypeOK

LEMMA DeleteTaskIInv == ASSUME IInv, NEW r \in Request, DeleteTask(r) PROVE IInv'
<1> USE DEF DeleteTask
<1>1. call[r].task \in Task
  BY DEF IInv, Sane, TaskCall
<1>2. Finish(r, "ok") /\ "ok" \in Answered /\ pc[r] # "ok" /\ UNCHANGED <<zone, routine, book>>
  BY DEF Answered
<1>3. template' \in [Task -> Template \cup {None, Gone}]
  BY <1>1 DEF IInv, TypeOK
<1>4. LogsAreExplained'
  BY <1>1, <1>2 DEF IInv, TypeOK, LogsAreExplained, IsTask, book
<1>5. Kept
  BY <1>1 DEF Kept, IInv, TypeOK
<1> HIDE DEF DeleteTask
<1> QED
  BY <1>2, <1>3, <1>4, <1>5, FinishIInv DEF IInv, TypeOK

-----------------------------------------------------------------------------
(* Logs and the to-do list.                                                  *)

LEMMA CheckBatchIInv == ASSUME IInv, NEW r \in Request, CheckBatch(r) PROVE IInv'
<1>1. PICK s \in Site, now \in {clock, clock + 1} :
      \E items \in SUBSET {t \in Task : IsTask(t) /\ SiteOf(t) = s} :
        /\ Begin(r, "logging", [op |-> "bulk", site |-> s, items |-> items])
        /\ clock' = now + 1
        /\ executed_at' = [executed_at EXCEPT ![r] = now]
        /\ UNCHANGED <<plans, logs, seen, shown>>
  BY DEF CheckBatch
<1>2. PICK items \in SUBSET {t \in Task : IsTask(t) /\ SiteOf(t) = s} :
        /\ Begin(r, "logging", [op |-> "bulk", site |-> s, items |-> items])
        /\ clock' = now + 1
        /\ executed_at' = [executed_at EXCEPT ![r] = now]
        /\ UNCHANGED <<plans, logs, seen, shown>>
  BY <1>1
<1> DEFINE c == [op |-> "bulk", site |-> s, items |-> items]
<1>3. c \in BulkCall /\ c \in Call /\ "logging" \in InFlight
  BY DEF BulkCall, Call, InFlight
<1>4. Sane(r)'
  BY <1>2, <1>3 DEF Begin, Sane, OfSite, IsTask, SiteOf, plans, IInv, TypeOK
<1>5. clock' \in Nat /\ executed_at' \in [Request -> Nat]
  BY <1>2 DEF IInv, TypeOK
<1> HIDE DEF c
<1>6. Begin(r, "logging", c)
  BY <1>2 DEF c
<1> QED
  BY <1>2, <1>3, <1>4, <1>5, <1>6, BeginIInv DEF IInv, TypeOK

LEMMA CommitBatchIInv == ASSUME IInv, NEW r \in Request, CommitBatch(r) PROVE IInv'
<1> USE DEF CommitBatch, plans
<1>1. call[r] \in BulkCall /\ call[r].items \subseteq Task /\ call[r] # None
  <2>1. call[r] \in BulkCall
    BY DEF IInv, Sane
  <2>2. call[r].items \subseteq Task
    BY <2>1 DEF BulkCall
  <2>3. call[r] # None
    BY <2>1, CallAssumption DEF Call
  <2> QED
    BY <2>1, <2>2, <2>3
<1>2. TypeOK'
  BY DEF IInv, TypeOK, Answered
<1>3. LogsAreExplained'
  BY DEF IInv, LogsAreExplained, IsTask
<1>4. BatchWhole'
  BY <1>1 DEF IInv, TypeOK, BatchWhole
<1>5. ASSUME NEW q \in Request PROVE Sane(q)'
  <2>1. CASE q = r
    BY <1>1, <2>1 DEF IInv, TypeOK, Sane
  <2>2. CASE q # r
    <3>1. pc'[q] = pc[q] /\ call'[q] = call[q] /\ seen'[q] = seen[q] /\ Kept
      BY <2>2 DEF IInv, TypeOK, Kept
    <3> QED
      BY <3>1, OthersSane
  <2> QED
    BY <2>1, <2>2
<1> QED
  BY <1>2, <1>3, <1>4, <1>5 DEF IInv

LEMMA OpenTodoIInv == ASSUME IInv, NEW r \in Request, OpenTodo(r) PROVE IInv'
<1>1. PICK s \in Site, wanted \in ScheduleType : \E k \in CurrentRoutines(s, wanted) :
        /\ Begin(r, "listing", [op |-> "todo", site |-> s, routine |-> k])
        /\ UNCHANGED <<plans, book, seen, shown>>
  BY DEF OpenTodo
<1>2. PICK k \in CurrentRoutines(s, wanted) :
        /\ Begin(r, "listing", [op |-> "todo", site |-> s, routine |-> k])
        /\ UNCHANGED <<plans, book, seen, shown>>
  BY <1>1
<1>3. k \in Routine /\ establishment[k] = s
  BY DEF CurrentRoutines
<1> DEFINE c == [op |-> "todo", site |-> s, routine |-> k]
<1>4. c \in RoutineCall /\ c \in Call /\ "listing" \in InFlight
  BY <1>3 DEF RoutineCall, Call, InFlight
<1>5. Sane(r)'
  BY <1>2, <1>3, <1>4 DEF Begin, Sane, IInv, TypeOK
<1> HIDE DEF c
<1>6. Begin(r, "listing", c)
  BY <1>2 DEF c
<1> QED
  BY <1>2, <1>4, <1>5, <1>6, BeginIInv DEF book, IInv, TypeOK

\* A step that only answers.
LEMMA AnswerIInv ==
    ASSUME IInv, NEW r \in Request, NEW answer \in Answered, Finish(r, answer),
           pc[r] # "ok", UNCHANGED <<plans, book>>
    PROVE  IInv'
<1>1. Kept /\ LogsAreExplained'
  BY DEF IInv, LogsAreExplained, IsTask, Kept, plans, book
<1> QED
  BY <1>1, FinishIInv DEF IInv, TypeOK, plans, book

\* A step that goes on reading.
LEMMA ReadIInv ==
    ASSUME IInv, NEW r \in Request, NEW next \in InFlight, pc' = [pc EXCEPT ![r] = next],
           pc[r] # "ok", UNCHANGED <<plans, book, call>>,
           seen' \in [Request -> [Task -> Zone \cup {None}]],
           shown' \in [Request -> [Task -> Request \cup {None}]],
           \A q \in Request \ {r} : seen'[q] = seen[q],
           Sane(r)'
    PROVE  IInv'
<1> USE DEF plans, book
<1>1. TypeOK'
  BY DEF IInv, TypeOK
<1>2. LogsAreExplained'
  BY DEF IInv, LogsAreExplained, IsTask
<1>3. BatchWhole'
  <2>1. next # "ok"
    BY DEF InFlight
  <2> QED
    BY <2>1 DEF IInv, TypeOK, BatchWhole
<1>4. ASSUME NEW q \in Request PROVE Sane(q)'
  <2>1. CASE q = r
    BY <2>1
  <2>2. CASE q # r
    <3>1. pc'[q] = pc[q] /\ call'[q] = call[q] /\ seen'[q] = seen[q] /\ Kept
      BY <2>2 DEF IInv, TypeOK, Kept
    <3> QED
      BY <3>1, OthersSane
  <2> QED
    BY <2>1, <2>2
<1> QED
  BY <1>1, <1>2, <1>3, <1>4 DEF IInv

LEMMA ListTasksIInv == ASSUME IInv, NEW r \in Request, ListTasks(r) PROVE IInv'
<1> DEFINE k == call[r].routine
<1>1. call[r] \in RoutineCall /\ call[r].site = establishment[k] /\ k \in Routine
  BY DEF ListTasks, IInv, Sane, RoutineCall
<1>2. CASE TasksOf(k) = {}
  <2>1. Finish(r, "ok") /\ "ok" \in Answered /\ pc[r] # "ok" /\ UNCHANGED <<plans, book>>
    BY <1>2 DEF ListTasks, Answered
  <2> QED
    BY <2>1, AnswerIInv
<1>3. CASE TasksOf(k) # {}
  <2>1. /\ seen' = [seen EXCEPT ![r] = Select(k)]
        /\ pc' = [pc EXCEPT ![r] = "matching"]
        /\ UNCHANGED <<plans, book, call, shown>>
        /\ pc[r] # "ok" /\ "matching" \in InFlight
    BY <1>3 DEF ListTasks, InFlight
  <2>2. pc'[r] = "matching" /\ seen'[r] = Select(k)
    BY <2>1 DEF IInv, TypeOK
  <2>3. \A t \in Listed(r)' : OfRoutine(t, k)'
    BY <2>1, <2>2 DEF Listed, Select, TasksOf, OfRoutine, IsTask, plans
  <2>4. Sane(r)'
    BY <1>1, <2>1, <2>2, <2>3 DEF Sane
  <2>5. seen' \in [Request -> [Task -> Zone \cup {None}]]
        /\ \A q \in Request \ {r} : seen'[q] = seen[q]
    BY <1>1, <2>1, SelectType DEF IInv, TypeOK
  <2> QED
    BY <2>1, <2>4, <2>5, ReadIInv DEF IInv, TypeOK
<1> QED
  BY <1>2, <1>3

LEMMA MatchLogsIInv == ASSUME IInv, NEW r \in Request, MatchLogs(r) PROVE IInv'
<1>1. PICK lines \in [Task -> Request \cup {None}] :
        /\ pc[r] = "matching"
        /\ shown' = [shown EXCEPT ![r] = lines]
        /\ pc' = [pc EXCEPT ![r] = "zoning"]
        /\ UNCHANGED <<plans, book, call, seen>>
  BY DEF MatchLogs
<1>2. Sane(r)'
  BY <1>1 DEF Sane, IInv, TypeOK, Listed, OfRoutine, IsTask, plans
<1>3. shown' \in [Request -> [Task -> Request \cup {None}]] /\ "zoning" \in InFlight
  BY <1>1 DEF IInv, TypeOK, InFlight
<1> QED
  BY <1>1, <1>2, <1>3, ReadIInv DEF IInv, TypeOK

LEMMA NextIInv == IInv /\ [Next]_vars => IInv'
<1> SUFFICES ASSUME IInv, [Next]_vars PROVE IInv'
  OBVIOUS
<1>1. ASSUME NEW r \in Request, AnswerTodo(r) \/ Fail(r) PROVE IInv'
  <2>1. PICK answer \in Answered : Finish(r, answer)
    BY <1>1 DEF AnswerTodo, Fail, Answered
  <2>2. pc[r] # "ok" /\ UNCHANGED <<plans, book>>
    BY <1>1 DEF AnswerTodo, Fail, InFlight
  <2> QED
    BY <2>1, <2>2, AnswerIInv
<1>2. CASE UNCHANGED vars
  <2>1. Kept /\ UNCHANGED <<zone, routine, template, logs, clock, executed_at, pc, call, seen, shown>>
    BY <1>2 DEF Kept, vars, plans, book
  <2>2. TypeOK' /\ LogsAreExplained' /\ BatchWhole'
    BY <2>1 DEF IInv, TypeOK, LogsAreExplained, BatchWhole, IsTask
  <2> QED
    BY <2>1, <2>2, OthersSane DEF IInv
<1> QED
  BY <1>1, <1>2, CreateRowIInv, LoadZoneIInv, DeleteZoneIInv, LoadRoutineIInv,
     DeleteRoutineIInv, LoadParentsIInv, InsertTaskIInv, LoadTaskIInv, DeleteTaskIInv,
     CheckBatchIInv, CommitBatchIInv, OpenTodoIInv, ListTasksIInv, MatchLogsIInv DEF Next

\* The inductive invariant holds in every behaviour.
THEOREM Invariance == Spec => []IInv
<1>1. Init => IInv
  BY InitIInv
<1>2. IInv /\ [Next /\ NoOverlap']_vars => IInv'
  BY NextIInv
<1> QED
  BY <1>1, <1>2, PTL DEF Spec

\* Every row, log and request keeps its type.
THEOREM TypeCorrect == Spec => []TypeOK
<1>1. IInv => TypeOK
  BY DEF IInv
<1> QED
  BY <1>1, Invariance, PTL

\* Whatever is deleted meanwhile, every log says which task was done, of which
\* routine and in which zone.
THEOREM LogsAreExplainedCorrect == Spec => []LogsAreExplained
<1>1. IInv => LogsAreExplained
  BY DEF IInv
<1> QED
  BY <1>1, Invariance, PTL

\* A batch is logged as a whole, or not at all.
THEOREM BatchWholeCorrect == Spec => []BatchWhole
<1>1. IInv => BatchWhole
  BY DEF IInv
<1> QED
  BY <1>1, Invariance, PTL

\* However requests interleave, the cleaning service implements the log book:
\* batches are written once and nothing is removed.
THEOREM LogbookImplemented == Spec => ImplementsLogbook
<1>1. Init => Register!Init
  BY DEF Init, Register!Init
<1>2. ASSUME IInv, [Next]_vars PROVE [Register!Next]_logs
  <2> USE <1>2
  <2>1. ASSUME NEW r \in Request, CommitBatch(r) PROVE Register!Next
    <3>1. call[r].items \in SUBSET Task
      BY <2>1 DEF CommitBatch, IInv, Sane, BulkCall
    <3>2. \A t \in Task : r \notin logs[t]
      BY <2>1, NoLogYet DEF CommitBatch
    <3> QED
      BY <2>1, <3>1, <3>2 DEF CommitBatch, Register!Next, Register!Write
  <2>2. ASSUME Next, \A r \in Request : ~CommitBatch(r) PROVE UNCHANGED logs
    BY <2>2 DEF Next, CreateZone, LoadZone, DeleteZone, CreateRoutine, LoadRoutine,
                DeleteRoutine, LoadParents, InsertTask, LoadTask, DeleteTask, CheckBatch,
                OpenTodo, ListTasks, MatchLogs, AnswerTodo, Fail, book
  <2> QED
    BY <2>1, <2>2 DEF vars, book
<1>3. IInv /\ [Next /\ NoOverlap']_vars => [Register!Next]_logs
  BY <1>2
<1> QED
  BY <1>1, <1>3, Invariance, PTL DEF Spec, ImplementsLogbook, Register!Spec

-----------------------------------------------------------------------------
(* Sites do not mix.  A task is added in the site where its two parents were  *)
(* found, and logged by a batch that found it in its own.                    *)

SiteInv ==
    /\ IInv
    /\ \A r \in Request : pc[r] = "adding task" =>
          establishment[call[r].routine] = establishment[call[r].zone]
    /\ SitesApart

\* The task that is there after a step was there before, or has just been added.
LEMMA TaskStep ==
    ASSUME IInv, Next, NEW t \in Task, IsTask(t)', template'[t] # template[t]
    PROVE  /\ template[t] = None /\ UNCHANGED logs
           /\ \E r \in Request :
                 pc[r] = "adding task" /\ template'[t].routine = call[r].routine
                                      /\ template'[t].zone = call[r].zone
<1>1. ASSUME NEW r \in Request, InsertTask(r)
      PROVE  /\ template[t] = None /\ UNCHANGED logs
             /\ pc[r] = "adding task" /\ template'[t].routine = call[r].routine
                                      /\ template'[t].zone = call[r].zone
  <2>1. PICK x \in Task :
          /\ pc[r] = "adding task" /\ template[x] = None /\ UNCHANGED book
          /\ template' = [template EXCEPT ![x] =
                            [routine |-> call[r].routine, zone |-> call[r].zone]]
    BY <1>1 DEF InsertTask
  <2>2. x = t
    BY <2>1 DEF IInv, TypeOK
  <2> QED
    BY <2>1, <2>2 DEF book, IInv, TypeOK
<1>2. ASSUME NEW r \in Request, DeleteRoutine(r) \/ DeleteTask(r) PROVE FALSE
  BY <1>2 DEF DeleteRoutine, DeleteTask, IsTask, IInv, TypeOK
<1>3. ASSUME \A r \in Request : ~InsertTask(r) /\ ~DeleteRoutine(r) /\ ~DeleteTask(r)
      PROVE  UNCHANGED template
  BY <1>3 DEF Next, CreateZone, LoadZone, DeleteZone, CreateRoutine, LoadRoutine, LoadParents,
              LoadTask, CheckBatch, CommitBatch, OpenTodo, ListTasks, MatchLogs, AnswerTodo,
              Fail, plans
<1> QED
  BY <1>1, <1>2, <1>3

\* A log is written by a batch that finds its task as it was.
LEMMA LogStep ==
    ASSUME IInv, Next, NEW t \in Task, NEW q \in logs'[t], q \notin logs[t]
    PROVE  /\ q \in Request /\ pc[q] = "logging" /\ t \in call[q].items
           /\ IsTask(t) /\ UNCHANGED <<template, call>>
<1>1. ASSUME NEW r \in Request, CommitBatch(r)
      PROVE  r = q /\ pc[r] = "logging" /\ t \in call[r].items
             /\ IsTask(t) /\ UNCHANGED <<template, call>>
  BY <1>1 DEF CommitBatch, plans
<1>2. ASSUME \A r \in Request : ~CommitBatch(r) PROVE UNCHANGED logs
  BY <1>2 DEF Next, CreateZone, LoadZone, DeleteZone, CreateRoutine, LoadRoutine,
              DeleteRoutine, LoadParents, InsertTask, LoadTask, DeleteTask, CheckBatch,
              OpenTodo, ListTasks, MatchLogs, AnswerTodo, Fail, book
<1> QED
  BY <1>1, <1>2

\* A batch on record is over: nothing changes what it asked for.
LEMMA LoggedStays ==
    ASSUME IInv, Next, NEW q \in Request, pc[q] = "ok" PROVE call'[q] = call[q]
<1> SUFFICES ASSUME NEW r \in Request,
                    \/ CreateZone(r) \/ LoadZone(r) \/ DeleteZone(r)
                    \/ CreateRoutine(r) \/ LoadRoutine(r) \/ DeleteRoutine(r)
                    \/ LoadParents(r) \/ InsertTask(r) \/ LoadTask(r) \/ DeleteTask(r)
                    \/ CheckBatch(r) \/ CommitBatch(r)
                    \/ OpenTodo(r) \/ ListTasks(r) \/ MatchLogs(r) \/ AnswerTodo(r)
                    \/ Fail(r)
             PROVE  call'[q] = call[q]
  BY DEF Next
<1>1. pc[r] # "ok"
  BY DEF CreateZone, LoadZone, DeleteZone, CreateRoutine, LoadRoutine, DeleteRoutine,
         LoadParents, InsertTask, LoadTask, DeleteTask, CheckBatch, CommitBatch, OpenTodo,
         ListTasks, MatchLogs, AnswerTodo, Fail, Begin, InFlight
<1>2. ASSUME NEW next, NEW asked, Begin(r, next, asked) PROVE call'[q] = call[q]
  BY <1>1, <1>2 DEF Begin, IInv, TypeOK
<1>3. ASSUME NEW answer, Finish(r, answer) PROVE call'[q] = call[q]
  BY <1>1, <1>3 DEF Finish, IInv, TypeOK
<1>4. CASE \/ LoadZone(r) \/ LoadRoutine(r) \/ LoadParents(r) \/ LoadTask(r)
           \/ CheckBatch(r) \/ OpenTodo(r)
  BY <1>2, <1>4 DEF LoadZone, LoadRoutine, LoadParents, LoadTask, CheckBatch, OpenTodo
<1>5. CASE \/ CreateZone(r) \/ DeleteZone(r) \/ CreateRoutine(r) \/ DeleteRoutine(r)
           \/ InsertTask(r) \/ DeleteTask(r) \/ AnswerTodo(r) \/ Fail(r)
  BY <1>3, <1>5 DEF CreateZone, DeleteZone, CreateRoutine, DeleteRoutine, InsertTask,
                    DeleteTask, AnswerTodo, Fail
<1>6. CASE CommitBatch(r) \/ ListTasks(r) \/ MatchLogs(r)
  BY <1>3, <1>6 DEF CommitBatch, ListTasks, MatchLogs
<1> QED
  BY <1>4, <1>5, <1>6

\* create_task has found its routine and its zone in one site.
LEMMA ParentsOfOneSite ==
    ASSUME SiteInv, Next, NEW q \in Request, pc'[q] = "adding task"
    PROVE  establishment[call'[q].routine] = establishment[call'[q].zone]
<1> USE DEF SiteInv, IInv, TypeOK
<1>1. ASSUME NEW r \in Request, LoadParents(r)
      PROVE  establishment[call'[q].routine] = establishment[call'[q].zone]
  <2>1. PICK k \in Routine, z \in Zone :
          /\ establishment[k] = establishment[z]
          /\ Begin(r, "adding task",
                   [op |-> "new task", site |-> establishment[k], routine |-> k, zone |-> z])
    BY <1>1 DEF LoadParents
  <2> QED
    BY <2>1 DEF Begin
<1>2. ASSUME NEW r \in Request, NEW next, NEW asked, Begin(r, next, asked), next # "adding task"
      PROVE  pc[q] = "adding task" /\ call'[q] = call[q]
  BY <1>2 DEF Begin
<1>3. ASSUME NEW r \in Request, NEW answer, Finish(r, answer), answer # "adding task"
      PROVE  pc[q] = "adding task" /\ call'[q] = call[q]
  BY <1>3 DEF Finish
<1>4. ASSUME NEW r \in Request,
             \/ LoadZone(r) \/ LoadRoutine(r) \/ LoadTask(r) \/ CheckBatch(r) \/ OpenTodo(r)
      PROVE  pc[q] = "adding task" /\ call'[q] = call[q]
  BY <1>2, <1>4 DEF LoadZone, LoadRoutine, LoadTask, CheckBatch, OpenTodo
<1>5. ASSUME NEW r \in Request,
             \/ CreateZone(r) \/ DeleteZone(r) \/ CreateRoutine(r) \/ DeleteRoutine(r)
             \/ InsertTask(r) \/ DeleteTask(r) \/ AnswerTodo(r) \/ Fail(r)
      PROVE  pc[q] = "adding task" /\ call'[q] = call[q]
  BY <1>3, <1>5 DEF CreateZone, DeleteZone, CreateRoutine, DeleteRoutine, InsertTask,
                    DeleteTask, AnswerTodo, Fail
<1>6. ASSUME NEW r \in Request, CommitBatch(r) \/ ListTasks(r) \/ MatchLogs(r)
      PROVE  pc[q] = "adding task" /\ call'[q] = call[q]
  BY <1>3, <1>6 DEF CommitBatch, ListTasks, MatchLogs
<1> QED
  BY <1>1, <1>4, <1>5, <1>6 DEF Next

LEMMA SitesApartStep == ASSUME SiteInv, Next PROVE SitesApart'
<1> USE DEF SiteInv
<1> SUFFICES ASSUME NEW t \in Task, IsTask(t)'
             PROVE  /\ establishment[template'[t].zone] = establishment[template'[t].routine]
                    /\ \A q \in logs'[t] : call'[q].site = establishment[template'[t].routine]
  BY DEF SitesApart, SiteOf
<1>1. CASE template'[t] = template[t]
  <2>1. IsTask(t)
    BY <1>1 DEF IsTask
  <2>2. ASSUME NEW q \in logs[t] PROVE call'[q].site = SiteOf(t)
    <3>1. q \in Request /\ pc[q] = "ok"
      BY DEF IInv, TypeOK, BatchWhole
    <3> QED
      BY <2>1, <3>1, LoggedStays DEF SitesApart
  <2>3. ASSUME NEW q \in logs'[t], q \notin logs[t] PROVE call'[q].site = SiteOf(t)
    <3>1. q \in Request /\ pc[q] = "logging" /\ t \in call[q].items /\ call'[q] = call[q]
      BY <2>3, LogStep
    <3>2. OfSite(t, call[q].site)
      BY <3>1 DEF IInv, Sane
    <3>3. template[t] # Gone
      BY <2>1 DEF IsTask
    <3> QED
      BY <3>1, <3>2, <3>3 DEF OfSite
  <2>4. SiteOf(t) = establishment[template'[t].routine]
    BY <1>1 DEF SiteOf
  <2>5. establishment[template[t].zone] = SiteOf(t)
    BY <2>1 DEF SitesApart
  <2>6. \A q \in logs'[t] : call'[q].site = SiteOf(t)
    BY <2>2, <2>3
  <2> QED
    BY <1>1, <2>4, <2>5, <2>6
<1>2. CASE template'[t] # template[t]
  <2>1. PICK r \in Request :
          /\ template[t] = None /\ UNCHANGED logs
          /\ pc[r] = "adding task" /\ template'[t].routine = call[r].routine
                                   /\ template'[t].zone = call[r].zone
    BY <1>2, TaskStep
  <2>2. logs'[t] = {}
    BY <2>1 DEF IInv, LogsAreExplained, IsTask
  <2>3. establishment[call[r].routine] = establishment[call[r].zone]
    BY <2>1
  <2> QED
    BY <2>1, <2>2, <2>3
<1> QED
  BY <1>1, <1>2

LEMMA SiteInvariance == Spec => []SiteInv
<1>1. Init => SiteInv
  <2> SUFFICES ASSUME Init, NEW t \in Task, IsTask(t)
               PROVE  establishment[template[t].zone] = SiteOf(t) /\ logs[t] = {}
    BY InitIInv DEF SiteInv, SitesApart, Init
  <2> QED
    BY SeedAssumption DEF Init, IsTask, SiteOf
<1>2. SiteInv /\ [Next /\ NoOverlap']_vars => SiteInv'
  <2> SUFFICES ASSUME SiteInv, [Next]_vars PROVE SiteInv'
    OBVIOUS
  <2>1. CASE Next
    BY <2>1, NextIInv, ParentsOfOneSite, SitesApartStep DEF SiteInv
  <2>2. CASE UNCHANGED vars
    <3>1. UNCHANGED <<template, logs, pc, call>>
      BY <2>2 DEF vars, plans, book
    <3>2. SitesApart'
      BY <3>1 DEF SiteInv, SitesApart, IsTask, SiteOf
    <3> QED
      BY <2>2, <3>1, <3>2, NextIInv DEF SiteInv
  <2> QED
    BY <2>1, <2>2
<1> QED
  BY <1>1, <1>2, PTL DEF Spec

\* However requests interleave, a task joins a routine and a zone of one site, and
\* is logged by batches of that site only.
THEOREM SitesApartCorrect == Spec => []SitesApart
<1>1. SiteInv => SitesApart
  BY DEF SiteInv
<1> QED
  BY <1>1, SiteInvariance, PTL

-----------------------------------------------------------------------------
(* The to-do list of an exclusive site: what it has loaded stays as it was,  *)
(* because whoever changes a task or logs it is in flight on the same site.  *)

\* The line shown for t is its latest log.
ShowsLatest(r, t) ==
    /\ logs[t] = {} => shown[r][t] = None
    /\ logs[t] # {} =>
          /\ shown[r][t] \in logs[t]
          /\ \A q \in logs[t] : executed_at[q] <= executed_at[shown[r][t]]

ExclusiveInv ==
    \A r \in Request : call[r].site \in Exclusive =>
        /\ pc[r] \in {"matching", "zoning"} => seen[r] = Select(call[r].routine)
        /\ pc[r] = "zoning" => \A t \in Listed(r) : ShowsLatest(r, t)

LEMMA InitExclusive == Init => ExclusiveInv /\ NoOverlap
BY DEF Init, ExclusiveInv, NoOverlap, InFlight

\* Whoever adds, deletes or logs a task has been in flight on its site.
LEMMA WriterOfTask ==
    ASSUME IInv, Next, NEW t \in Task, NEW s,
           \/ IsTask(t) /\ SiteOf(t) = s
           \/ IsTask(t)' /\ SiteOf(t)' = s,
           template'[t] # template[t] \/ logs'[t] # logs[t]
    PROVE  \E q \in Request : pc[q] \in InFlight /\ pc'[q] # pc[q] /\ call[q].site = s
<1>1. ASSUME NEW q \in Request, DeleteRoutine(q)
      PROVE  pc[q] \in InFlight /\ pc'[q] # pc[q] /\ call[q].site = s
  <2>1. /\ pc[q] = "dropping routine" /\ pc'[q] = "ok" /\ UNCHANGED logs
        /\ call[q].site = establishment[call[q].routine]
        /\ \A u \in Listed(q) : OfRoutine(u, call[q].routine)
    BY <1>1 DEF DeleteRoutine, Finish, book, IInv, TypeOK, Sane
  <2>2. t \in TasksOf(call[q].routine) \cup Listed(q) /\ template'[t] = Gone
    BY <1>1, <2>1 DEF DeleteRoutine
  <2>3. template[t] # Gone
    BY <2>1, <2>2
  <2>4. IsTask(t) /\ template[t].routine = call[q].routine /\ ~IsTask(t)'
    BY <2>1, <2>2, <2>3 DEF TasksOf, OfRoutine, IsTask
  <2> QED
    BY <2>1, <2>4 DEF SiteOf, InFlight
<1>2. ASSUME NEW q \in Request, InsertTask(q)
      PROVE  pc[q] \in InFlight /\ pc'[q] # pc[q] /\ call[q].site = s
  <2>1. /\ pc[q] = "adding task" /\ pc'[q] = "ok" /\ UNCHANGED logs
        /\ call[q].site = establishment[call[q].routine]
    BY <1>2 DEF InsertTask, Finish, book, IInv, TypeOK, Sane
  <2>2. template[t] = None
        /\ template'[t] = [routine |-> call[q].routine, zone |-> call[q].zone]
    BY <1>2, <2>1 DEF InsertTask, IInv, TypeOK
  <2>3. ~IsTask(t) /\ template'[t].routine = call[q].routine
    BY <2>2 DEF IsTask
  <2>4. SiteOf(t)' = call[q].site
    BY <2>1, <2>3 DEF SiteOf
  <2> QED
    BY <2>1, <2>3, <2>4 DEF InFlight
<1>3. ASSUME NEW q \in Request, DeleteTask(q)
      PROVE  pc[q] \in InFlight /\ pc'[q] # pc[q] /\ call[q].site = s
  <2>1. /\ pc[q] = "dropping task" /\ pc'[q] = "ok" /\ UNCHANGED logs
        /\ OfSite(call[q].task, call[q].site)
    BY <1>3 DEF DeleteTask, Finish, book, IInv, TypeOK, Sane
  <2>2. t = call[q].task /\ template'[t] = Gone
    BY <1>3, <2>1 DEF DeleteTask, IInv, TypeOK
  <2>3. template[t] # Gone /\ ~IsTask(t)'
    BY <2>1, <2>2 DEF IsTask
  <2> QED
    BY <2>1, <2>2, <2>3 DEF OfSite, InFlight
<1>4. ASSUME NEW q \in Request, CommitBatch(q)
      PROVE  pc[q] \in InFlight /\ pc'[q] # pc[q] /\ call[q].site = s
  <2>1. /\ pc[q] = "logging" /\ pc'[q] = "ok" /\ UNCHANGED template
        /\ \A u \in call[q].items : OfSite(u, call[q].site) /\ IsTask(u)
    BY <1>4 DEF CommitBatch, plans, IInv, TypeOK, Sane
  <2>2. t \in call[q].items
    BY <1>4, <2>1 DEF CommitBatch, IInv, TypeOK
  <2>3. SiteOf(t) = call[q].site
    BY <2>1, <2>2 DEF OfSite, IsTask
  <2>4. SiteOf(t)' = SiteOf(t)
    BY <2>1 DEF SiteOf
  <2> QED
    BY <2>1, <2>3, <2>4 DEF InFlight
<1>5. ASSUME \A q \in Request :
                ~DeleteRoutine(q) /\ ~InsertTask(q) /\ ~DeleteTask(q) /\ ~CommitBatch(q)
      PROVE  UNCHANGED <<template, logs>>
  BY <1>5 DEF Next, CreateZone, LoadZone, DeleteZone, CreateRoutine, LoadRoutine,
              LoadParents, LoadTask, CheckBatch, OpenTodo, ListTasks, MatchLogs,
              AnswerTodo, Fail, book, plans
<1> QED
  BY <1>1, <1>2, <1>3, <1>4, <1>5

\* The stamps of logs on record do not change.
LEMMA StampsStay ==
    ASSUME IInv, Next, NEW t \in Task, NEW q \in logs[t]
    PROVE  executed_at'[q] = executed_at[q]
<1>1. q \in Request /\ pc[q] # "new"
  BY DEF IInv, TypeOK, BatchWhole
<1>2. ASSUME NEW r \in Request, CheckBatch(r) PROVE executed_at'[q] = executed_at[q]
  BY <1>1, <1>2 DEF CheckBatch, Begin, IInv, TypeOK
<1>3. ASSUME \A r \in Request : ~CheckBatch(r) PROVE UNCHANGED executed_at
  BY <1>3 DEF Next, CreateZone, LoadZone, DeleteZone, CreateRoutine, LoadRoutine,
              DeleteRoutine, LoadParents, InsertTask, LoadTask, DeleteTask, CommitBatch,
              OpenTodo, ListTasks, MatchLogs, AnswerTodo, Fail, book
<1> QED
  BY <1>2, <1>3

\* A to-do list that stays where it is keeps what it relies on.
LEMMA WaitingTodo ==
    ASSUME IInv, NoOverlap, ExclusiveInv, Next, NEW r \in Request,
           pc[r] \in {"matching", "zoning"}, call[r].site \in Exclusive,
           pc'[r] = pc[r], call'[r] = call[r], seen'[r] = seen[r], shown'[r] = shown[r]
    PROVE  /\ seen'[r] = Select(call[r].routine)'
           /\ pc[r] = "zoning" => \A t \in Listed(r)' : ShowsLatest(r, t)'
<1> DEFINE k == call[r].routine
<1>1. k \in Routine /\ call[r].site = establishment[k]
  BY DEF IInv, Sane, RoutineCall
<1>2. ASSUME NEW t \in Task, t \in TasksOf(k) \/ t \in TasksOf(k)'
      PROVE  template'[t] = template[t] /\ logs'[t] = logs[t]
  <2>1. (IsTask(t) /\ SiteOf(t) = call[r].site) \/ (IsTask(t)' /\ SiteOf(t)' = call[r].site)
    BY <1>1, <1>2 DEF TasksOf, SiteOf, IsTask
  <2> SUFFICES ASSUME template'[t] # template[t] \/ logs'[t] # logs[t] PROVE FALSE
    OBVIOUS
  <2>2. PICK q \in Request : pc[q] \in InFlight /\ pc'[q] # pc[q] /\ call[q].site = call[r].site
    BY <2>1, WriterOfTask
  <2> QED
    BY <2>2 DEF NoOverlap, InFlight
<1>3. seen[r] = Select(k)
  BY DEF ExclusiveInv
<1>4. Select(k)' = Select(k)
  <2>1. ASSUME NEW t \in Task
        PROVE  /\ t \in TasksOf(k)' <=> t \in TasksOf(k)
               /\ t \in TasksOf(k) => template'[t] = template[t]
    BY <1>2 DEF TasksOf, IsTask
  <2> QED
    BY <2>1 DEF Select
<1>5. Listed(r)' = Listed(r) /\ Listed(r) \subseteq TasksOf(k)
  BY <1>3 DEF Listed, Select
<1>6. ASSUME pc[r] = "zoning", NEW t \in Listed(r) PROVE ShowsLatest(r, t)'
  <2>1. t \in Task /\ logs'[t] = logs[t]
    BY <1>2, <1>5, <1>6 DEF Listed
  <2>2. \A q \in logs[t] : executed_at'[q] = executed_at[q]
    BY <2>1, StampsStay
  <2>3. ShowsLatest(r, t)
    BY <1>6 DEF ExclusiveInv
  <2> QED
    BY <2>1, <2>2, <2>3 DEF ShowsLatest
<1> QED
  BY <1>3, <1>4, <1>5, <1>6

LEMMA NextExclusive ==
    ASSUME IInv, NoOverlap, ExclusiveInv, [Next /\ NoOverlap']_vars
    PROVE  ExclusiveInv' /\ NoOverlap'
<1>1. CASE UNCHANGED vars
  BY <1>1 DEF ExclusiveInv, NoOverlap, ShowsLatest, Listed, Select, TasksOf, IsTask,
              vars, plans, book
<1>2. CASE Next /\ NoOverlap'
  <2> USE <1>2
  <2> DEFINE Kind(r) == /\ pc[r] \in {"matching", "zoning"} => seen[r] = Select(call[r].routine)
                        /\ pc[r] = "zoning" => \A t \in Listed(r) : ShowsLatest(r, t)
  <2>1. ASSUME NEW r \in Request, ListTasks(r) PROVE Kind(r)'
    <3>1. pc'[r] \in {"ok", "matching"}
      BY <2>1 DEF ListTasks, Finish, IInv, TypeOK
    <3>2. pc'[r] = "matching" =>
            seen'[r] = Select(call[r].routine) /\ call'[r] = call[r] /\ UNCHANGED template
      BY <2>1 DEF ListTasks, Finish, plans, IInv, TypeOK
    <3> QED
      BY <3>1, <3>2 DEF Select, TasksOf, IsTask
  <2>2. ASSUME NEW r \in Request, MatchLogs(r), call[r].site \in Exclusive PROVE Kind(r)'
    <3>1. PICK lines \in [Task -> Request \cup {None}] :
            /\ pc[r] = "matching"
            /\ \A t \in Task :
                  IF t \in Listed(r) /\ logs[t] # {} THEN lines[t] \in Latest(t)
                  ELSE lines[t] = None
            /\ shown' = [shown EXCEPT ![r] = lines]
            /\ UNCHANGED <<plans, book, call, seen>>
      BY <2>2 DEF MatchLogs
    <3>2. seen'[r] = Select(call[r].routine)'
      BY <2>2, <3>1 DEF ExclusiveInv, Select, TasksOf, IsTask, plans
    <3>3. ASSUME NEW t \in Listed(r)' PROVE ShowsLatest(r, t)'
      BY <3>1, <3>3 DEF Listed, ShowsLatest, Latest, book, IInv, TypeOK
    <3> QED
      BY <3>2, <3>3
  <2>3. ASSUME NEW p \in Request, ~ListTasks(p), ~MatchLogs(p), NEW r \in Request,
               pc'[r] # pc[r] \/ call'[r] # call[r] \/ seen'[r] # seen[r] \/ shown'[r] # shown[r],
               \/ CreateZone(p) \/ LoadZone(p) \/ DeleteZone(p)
               \/ CreateRoutine(p) \/ LoadRoutine(p) \/ DeleteRoutine(p)
               \/ LoadParents(p) \/ InsertTask(p) \/ LoadTask(p) \/ DeleteTask(p)
               \/ CheckBatch(p) \/ CommitBatch(p) \/ OpenTodo(p) \/ AnswerTodo(p) \/ Fail(p)
        PROVE  pc'[r] \notin {"matching", "zoning"}
    <3>1. p = r
      BY <2>3 DEF CreateZone, LoadZone, DeleteZone, CreateRoutine, LoadRoutine, DeleteRoutine,
                  LoadParents, InsertTask, LoadTask, DeleteTask, CheckBatch, CommitBatch, OpenTodo,
                  AnswerTodo, Fail, Begin, Finish, IInv, TypeOK
    <3>2. ASSUME NEW next, next \notin {"matching", "zoning"}, NEW asked, Begin(p, next, asked)
          PROVE  pc'[r] \notin {"matching", "zoning"}
      BY <3>1, <3>2 DEF Begin, IInv, TypeOK
    <3>3. ASSUME NEW answer \in Answered, Finish(p, answer)
          PROVE  pc'[r] \notin {"matching", "zoning"}
      BY <3>1, <3>3 DEF Finish, Answered, IInv, TypeOK
    <3>4. CASE \/ LoadZone(p) \/ LoadRoutine(p) \/ LoadParents(p) \/ LoadTask(p)
               \/ CheckBatch(p) \/ OpenTodo(p)
      BY <3>2, <3>4 DEF LoadZone, LoadRoutine, LoadParents, LoadTask, CheckBatch, OpenTodo
    <3>5. CASE \/ CreateZone(p) \/ DeleteZone(p) \/ CreateRoutine(p) \/ DeleteRoutine(p)
               \/ InsertTask(p) \/ DeleteTask(p) \/ AnswerTodo(p) \/ Fail(p)
      BY <3>3, <3>5 DEF CreateZone, DeleteZone, CreateRoutine, DeleteRoutine, InsertTask,
                        DeleteTask, AnswerTodo, Fail, Answered
    <3>6. CASE CommitBatch(p)
      BY <3>1, <3>6 DEF CommitBatch, IInv, TypeOK
    <3> QED
      BY <2>3, <3>4, <3>5, <3>6
  <2>4. ASSUME NEW r \in Request, call'[r].site \in Exclusive PROVE Kind(r)'
    <3>1. CASE pc'[r] = pc[r] /\ call'[r] = call[r] /\ seen'[r] = seen[r] /\ shown'[r] = shown[r]
      BY <2>4, <3>1, WaitingTodo
    <3>2. CASE ~(pc'[r] = pc[r] /\ call'[r] = call[r] /\ seen'[r] = seen[r] /\ shown'[r] = shown[r])
      <4>1. ASSUME NEW p \in Request, ListTasks(p) \/ MatchLogs(p) PROVE p = r
        BY <3>2, <4>1 DEF ListTasks, MatchLogs, Finish, IInv, TypeOK
      <4>2. ASSUME NEW p \in Request, MatchLogs(p) PROVE call'[p] = call[p]
        BY <4>2 DEF MatchLogs
      <4>3. pc'[r] \notin {"matching", "zoning"} => Kind(r)'
        OBVIOUS
      <4> HIDE DEF Kind
      <4> QED
        BY <2>1, <2>2, <2>3, <2>4, <3>2, <4>1, <4>2, <4>3 DEF Next
    <3> QED
      BY <3>1, <3>2
  <2> QED
    BY <2>4 DEF ExclusiveInv
<1> QED
  BY <1>1, <1>2

LEMMA ExclusiveInvariance == Spec => [](ExclusiveInv /\ NoOverlap)
<1>1. Init => ExclusiveInv /\ NoOverlap
  BY InitExclusive
<1>2. IInv /\ (ExclusiveInv /\ NoOverlap) /\ [Next /\ NoOverlap']_vars
        => (ExclusiveInv /\ NoOverlap)'
  BY NextExclusive
<1> QED
  BY <1>1, <1>2, Invariance, PTL DEF Spec

\* The to-do list of an exclusive site is one picture of its plan, although three
\* SELECTs take it.
THEOREM TodoIsCurrentCorrect == Spec => []TodoIsCurrent
<1>1. ASSUME IInv, ExclusiveInv PROVE TodoIsCurrent
  <2> SUFFICES ASSUME NEW r \in Request, pc[r] = "zoning", call[r].site \in Exclusive
               PROVE  /\ seen[r] = Select(call[r].routine)
                      /\ \A t \in Listed(r) : zone[seen[r][t]] = "row" /\ ShowsLatest(r, t)
    BY DEF TodoIsCurrent, ShowsLatest
  <2> USE <1>1
  <2>1. seen[r] = Select(call[r].routine) /\ \A t \in Listed(r) : ShowsLatest(r, t)
    BY DEF ExclusiveInv
  <2>2. ASSUME NEW t \in Listed(r) PROVE zone[seen[r][t]] = "row"
    BY <2>1, <2>2 DEF Listed, Select, TasksOf, IInv, LogsAreExplained
  <2> QED
    BY <2>1, <2>2
<1>2. IInv /\ ExclusiveInv => TodoIsCurrent
  BY <1>1
<1> QED
  BY <1>2, Invariance, ExclusiveInvariance, PTL

=============================================================================
