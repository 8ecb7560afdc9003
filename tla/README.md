# TLA+ verification of HACCP Control

HACCP Control is a FastAPI service over PostgreSQL in which a restaurant keeps
its food-safety records: temperature readings, deliveries, cleaning, working
hours, and the tickets ("non-conformities") that open when something is out of
range. An inspector reads these records, so what matters is that they are
complete, in order, and cannot be changed by two tablets acting at once.

The modules here model the code in `src/backend/app`. TLC checks them on small
instances, TLAPS proves the theorems of the `*Proofs` modules for every value
of the constants, and `PROJECT.json` says which lines each definition models.

## 1. The system

### How it executes

- Every HTTP request runs one service function with a database session of its
  own (`core/database.py`). PostgreSQL is at READ COMMITTED; there is no
  `SELECT ... FOR UPDATE`, no version column and no retry.
- A handler SELECTs a row, checks it, awaits, and commits. The ORM's UPDATE names
  the primary key, and writes only the columns whose value changed since they
  were loaded. Between any two awaits any other request may run, on the
  same event loop, another worker or another container.
- An error is an `HTTPException` or an exception of the database: the session
  ends without a commit, and everything it flushed is rolled back. An upload to
  S3 is not.

### Components

| Component | State | Operations | Depends on | What makes it correct |
|---|---|---|---|---|
| Non-conformities | `non_conformities`, `actions_correctives`, photos | open (by the next two), acknowledge, corrective action, close | operator PIN, manager rights, S3 | documented life cycle; evidence complete, ordered, final |
| Temperature records | `releves_temperature` | record, with its ticket | equipment, tickets | record and ticket together; judged by the thresholds in force |
| Equipment | `equipements` | create, PATCH, soft and hard delete | records (foreign key) | ordered thresholds; history never loses its equipment |
| Time clock | `pointages` | clock in, out, break start, end | operator PIN, feature flag | the log follows the state machine; the status is derived from it |
| Receptions | `reception_sessions`, `reception_items`, photos | open, add a line with its ticket, close | products, suppliers, tickets, S3 | no line after closing; refused lines have tickets |
| Catalog | `suppliers`, `products` | create, PATCH, soft delete | | cold-chain products have a range; what is retired stays retired; a product's supplier is of its site |
| Cleaning | zones, routines, task templates, logs | create and delete, bulk logs, to-do list | operator PIN | a batch is logged whole; history survives deletions; a to-do list is one picture |
| Personnel | `utilisateurs`, `roles`, `affectations_sites`, `operators` | users, assignments, tablet operators, PIN reset | tenants | a deleted user gets no right back; no organisation touches another's assignments; signatures keep their author |
| Tenants | `organisations`, `abonnements`, `etablissements` (with settings) | create, delete, settings, overview | personnel | settings are merged; an organisation keeps a site; no row outlives its site |
| Authentication | tokens held by clients | three logins, PIN check, platform key | personnel, tenants | a token only allows what its holder may do now; the PIN check can answer |
| Core | sessions, S3, feature flags, clock | | | a module writes only where its feature is on |
| Frontend | browser state | a client of the API | | |

Calls between components are ordinary function calls in one transaction:
`create_temperature_record` calls `open_temperature_nonconformity`, `add_item`
inserts its ticket itself, and `close_nonconformity` asks personnel for
`ensure_admin_org_access`. Everything else interacts through rows.

### What is hard

1. *Check, await, write.* Every handler that checks a status writes it some awaits
   later: late acknowledgements, double closings, double taps, lines added to a
   closed session, thresholds that change under a reading.
2. *What one commit covers.* Record and ticket; line and ticket; action, status
   and date. And what it does not cover: photos.
3. *Constraints of the database* that decide where the code does not: the unique
   corrective action and e-mail, and which foreign keys restrict (records, logs, the zone of a
   task) or cascade (the tasks of a routine, and the rows of a site, as far as those among them that
   restrict each other allow).
4. *Columns left out* of an UPDATE because their value did not change.
5. *Values at the boundary*: a threshold of 0, a missing reading, a missing range.
6. *Derived state*: a status read off the latest stamp, a deviation computed from
   today's thresholds, a to-do list put together from three SELECTs.
7. *Whole documents*: settings are read, merged and written back as one value, and the
   assignments of a user are deleted as loaded and inserted anew.
8. *Checks that are made once*: a feature, an active supplier, a role or a PIN is looked at
   when the request enters, and relied on when it commits.

`PROJECT.json` lists these at their lines, under "hazards", with the properties
that answer them.

## 2. The modules

| Module | Models | Checked by |
|---|---|---|
| `NonConformity` | `modules/nonconformities` | `MCNonConformity`, `NonConformityProofs` |
| `IncidentTrail` | what tickets promise however requests interleave | refined by `NonConformity` |
| `TicketLifecycle` | the documented life cycle | refined by `NonConformity` on exclusive tickets |
| `TemperatureControl` | `modules/equipments`, the temperature half of `modules/haccp` | `MCTemperatureControl`, `TemperatureControlProofs` |
| `TimeClock` | the time-clock half of `modules/haccp` | `MCTimeClock`, `TimeClockProofs` |
| `Shift` | what the time clock promises | refined by `TimeClock` for exclusive operators (a theorem, no run) |
| `Reception` | `modules/receptions` and the products of `modules/catalog` | `MCReception`, `ReceptionProofs` |
| `DeliveryDossier` | what a reception session promises | refined by `Reception` on exclusive sessions |
| `Registers` | suppliers and the supplier of each product (`modules/catalog`), the `operators` table (`modules/personnel`) | `MCRegisters`, `RegistersProofs` |
| `Cleaning` | `modules/cleaning` | `MCCleaning`, `CleaningProofs` |
| `Logbook` | what the cleaning log promises | refined by `Cleaning` |
| `Personnel` | users and assignments (`modules/personnel`, one endpoint of `modules/tenant`), the manager's login (`modules/auth`), rights and PINs (`core/dependencies`) | `MCPersonnel`, `PersonnelProofs` |
| `Employment` | what the personnel service promises | refined by `Personnel` |
| `Tenant` | `modules/tenant`, with the feature gate of `core/feature_flags` | `MCTenant`, `TenantProofs` |

All eight component modules have the same shape.

- **Rows** are functions from primary keys; `None` is SQL NULL, or no row. Only
  committed rows are in the variables. What a transaction has flushed is known
  from the `pc` of its request: nobody else can see it, and it vanishes if the
  request fails.
- **Requests** are a constant set. Each is served once: `pc` says where it is,
  `call` what it asked for, `seen` what it loaded. A *load* step reads the row
  and makes the checks on what it read; a *commit* step makes the UPDATE. A step in
  between is there when the code reads or writes again (the eager load of the
  corrective action, a second SELECT, an upload, a flush that may fail or lock).
- **Stamps**: columns that one UPDATE always writes together (who and when) are one
  value, the request that wrote them. Records, lines and log entries are named
  after the request that creates them.
- **`Fail`** ends a request anywhere before its commit: a lost connection, a
  foreign key that is not there, a refused upload, a stopped worker. A failure between the commit and
  the answer looks to the database like a success, and to the client like no answer; it is a step
  of its own in `NonConformity`, where the answer itself may fail. `Finish` answers a request
  that leaves no row behind, and forgets what it asked for; a request that leaves a record, a
  line or a session keeps its `call`, which holds the columns of that row.
- **`Exclusive`** is a set of rows. `Spec` allows only steps that keep `NoOverlap`: two requests
  for the same exclusive row are never in flight together. Nothing in the program ensures it; the
  constant lets one specification say what holds for the rows whose requests do overlap and what more
  holds for those whose requests happen not to. With `Exclusive = {}` it is every interleaving, and
  the difference between the two is the price of the missing locks.

Guards before the load (token, PIN, manager rights) decide who sends a request
and are in the sets `Operator` and `Manager`. Request bodies that a schema refuses change
nothing and are left out, except where a property is about what the schema lets
through (`ValidPayload`, `ValidPatch`, the claim of `AddItem`).

### NonConformity

`Load` is `_load_nonconformity` with the status check of its caller;
`CommitAcknowledge`, `CommitCorrective` and `CommitClose` are the UPDATEs. The corrective
action has two more steps: `CheckCorrective` is the eager load of
`nc.corrective_action`, a SELECT of its own, and `UploadPhoto` the S3 upload.
`UniqueHolds` is the unique constraint; the loser of the race goes through
`RollbackCorrective`. `CommitClose` leaves `closing_comment` alone when the request
has none, because the loaded value is NULL and nothing changes
(the theorem `ResolvedNeverClosedCorrect` shows that it always is NULL). A request that
has committed is at `"answering"`: the row is still to be refreshed and the response to be built. `Answer`
does so, and fails where there is none (`HasAnswer`: a RECEPTION ticket has no `releve_id`); `Fail`
may come before it. In both cases the corrective action stays on the ticket without a 201, so
that `AcceptedIsRecorded` speaks of requests that got an answer.

### TemperatureControl

`Measure` loads the thresholds, `FlushReleve` inserts the record (which takes a key lock
on the equipment row), `FlushTicket` inserts the ticket, `CommitRecord` shows both.
`OrElse` is Python's `or`, for which 0 is a missing value. `Written` is what the ORM
puts in an UPDATE. `CommitHardDelete` waits for transactions holding the row, and is
refused by the foreign key when there are records. Creation is one INSERT
that nothing else can see before its commit, and is one step.

### TimeClock

`LastTypes` is `ORDER BY pointe_at DESC LIMIT 1`: when stamps tie it may return any of
the latest events. `Check`, `Stamp` and `Commit` are the three things
`create_time_clock_event` does. The clock is a counter that a stamp may advance
and that every query advances (a query takes longer than a microsecond), so that stamps tie only
between overlapping requests.

### Reception

`LoadSession` is `_get_session_in_scope` with the check of `add_item` or `close_session`.
`LoadProduct` is the second SELECT of `add_item`. `Compliant` is the server's verdict:
the tablet's claim, unless the packaging or the temperature says otherwise; `InRange` keeps
the four conditions of the code. The product handlers are those of `catalog`: `api/router.py`
includes that router before the one of `receptions`, whose `/products` routes are therefore never
reached.

### Registers

Suppliers, products and operators have the same life: created by one INSERT, edited by an UPDATE of
the columns that changed, retired by `is_active`, never deleted. `Load` is the SELECT, `Written` what
the ORM puts in the UPDATE (a field that is left out, `Unset`, or equal to what was loaded is not
in it). `CheckSupplier` is the SELECT of `_assert_supplier_in_scope`, between the two when the
PATCH of a product names a supplier. Only `update_supplier` finds retired rows and may bring one
back. A PIN is its last writer, since two salted hashes never compare equal.

### Cleaning

Nothing is soft-deleted here. `LoadZone`, `LoadRoutine` and `LoadTask` are the SELECTs of the
deletions; `DeleteRoutine` also deletes the tasks that came with the routine and, by the foreign
key, those added since; the foreign keys of the logs, and of the tasks on their zone, refuse.
`CheckBatch` takes the stamp and looks the tasks up, `CommitBatch` inserts all the logs or none
(a batch that names a task twice counts as one log of it here). The to-do list takes
`OpenTodo` (which routine), `ListTasks`, `MatchLogs` and `AnswerTodo`, one SELECT each.
`get_routine_detail` starts at a given routine instead; any routine of a site is offered by
`OpenTodo` for its own schedule, so that the two read alike.

### Personnel

A row of `affectations_site` is its key (user, site, role) and its `is_active`. `FromManager` is
`ensure_admin_org_access` for some token that was issued: the rights are looked up when the request
enters, with its SELECTs, and written on some awaits later. `Rebuild` is the branch of `update_user`
that deletes the assignments it loaded and inserts new ones, `Switch` the one that only writes
`is_active`. `CommitHardDelete` removes the user's assignments everywhere, those loaded by the ORM
and the others by the foreign key; that of the records restricts. `LoadAffect` is the upsert of
`create_site_affectation`, which does not look at the user. `CheckPassword` and `IssueToken` are the
manager's login, `CheckPin` is `get_current_operator`, `RaiseMultiple` its `scalar_one_or_none` with
two rows, and `CommitRecord` the commit of whatever the operator signs, in any module.

Exclusive users are those whose requests do not overlap *and* whose rights are managed from the
users screen only: the assignment endpoint can give a deleted user new rights, and a second role
on a site, without any race.

### Tenant

`EnterDelete`, `LoadTarget` and the two commits are `delete_establishment`, called from the tablet
of another site. `log` stands for the rows of the modules behind the feature gate. The key of each of
them to its site cascades, but the keys among them do not all: a log keeps its task, a record its
equipment, a session its supplier. `Held` is the set of features whose records are kept that way, and
a site with such a record is refused (`HeldBy`, `RefuseHardDelete`); the others, the time-clock events,
go with the site (`CommitHardDelete`). `Held` is a constant, and the proofs hold for
any value of it, because what a RESTRICT key does to a row of a cascade depends on the order in which
PostgreSQL fires the keys. `EnterSettings`, `LoadSettings` and `CommitSettings`
are the read, merge and write of the settings document. The second read goes through the session, which
hands out the object it loaded at entry unless that has been collected, so `LoadSettings` takes
either value; `Merged` is `model_copy`, `FromRaw` the reading
of a stored document, in which a missing feature is on. `EnterModule` is `require_feature` on the
row that came with the token, and `CommitRow` the commit of the request it let in. Signing up
is one pair of steps each for an organisation and for a site, with the unique login and SIRET.

The components meet in these modules where one relies on another's state: the tickets of the
records and of the lines (`TemperatureControl`, `Reception`), the products of a reception
(`Reception`, `Registers`), the signature on a record of any module (`Personnel`) and the site and
feature under it (`Tenant`).

## 3. The runs

Three questions are asked of every component: what it keeps however its requests
interleave; what more it keeps for the rows whose requests happen not to overlap; and
which documented statements it does not keep. The first two are asked in one run,
in which some rows are in `Exclusive` and some are not. Each run of the third kind checks one
statement, which TLC must find violated; the findings in `PROJECT.json` quote it.

| Run | Instance | Shows |
|---|---|---|
| `tickets` | tickets t1 and t2 (exclusive), 1 operator, 2 managers, 4 requests | evidence complete, ordered, final; an answer is true, whatever fails before or after the commit; implements `IncidentTrail`; t2 implements `TicketLifecycle` |
| `tickets_live` | 1 ticket, 4 requests | every request is answered |
| `temperature` | equipments e1 and e2 (exclusive), temperatures -1..1, 3 requests | record and ticket together; history keeps its equipment; thresholds get out of order only by a PATCH its check cannot refuse; e2: verdict by the thresholds in force, nothing recorded once retired |
| `timeclock` | operators ana and ben (exclusive), 4 requests | every event is licensed by an earlier one; ben: the log follows the state machine |
| `reception` | sessions s1 and s2 (exclusive), 1 product, 2 degrees, 3 requests | line and ticket together; delivery notes on file; a closed session settles; a range is lost in two ways only; s2 implements `DeliveryDossier` |
| `reception_product` | 1 session, 1 product (exclusive), 2 degrees, 3 requests | a line is judged by the range in force |
| `registers` | a site with suppliers s1 and s2 (exclusive), products p1 and p2 (exclusive), an operator (exclusive); a supplier of another site; 3 requests | what is retired comes back only on demand; a product gets a supplier of its own site, in force for s2 |
| `cleaning` | the kitchen (a routine, a zone, a task and one to come), the bar (exclusive; a routine, a zone, two tasks, a zone and a routine to come), 4 requests | batches whole, never removed, with their task, routine and zone; implements `Logbook`; the bar's to-do list is one picture |
| `personnel` | 2 organisations with a site each, a manager of both and a cook (exclusive), a user to come, 2 roles, 3 requests | implements `Employment`; a soft delete ends the rights it loaded; a second role on a site has one of two causes; organisations apart; for the exclusive users: no right comes back, and a hard delete leaves other organisations alone |
| `tenant` | an organisation with 2 sites (exclusive), one with a site and two to come, 2 to come, 2 features, 3 requests | records a key holds stay on file and refuse the hard delete, no other row outlives its site; features change by one PATCH at a time; for the exclusive one: settings merged with the present ones, a site is left, gates in force |
| `tickets_stuck` | 1 ticket, 4 requests | violated: a late acknowledgement leaves a ticket no request can move |
| `reception_no_range` | 1 exclusive product | violated: one PATCH leaves a cold-chain product without a range |

**Bounds.** The requests bound everything else: each is served once. Four requests are a whole
ticket (acknowledge, correct, close, and one late request), a whole shift (in, break, back, out), or
two races of two. Three are a record, an edit and a deletion, or an opening, a line and a closing; a
hiring, a dismissal and a late signature; two PATCHes of the settings and a gate between them. Four
requests on a cleaning plan are a deletion of each kind against a batch, or a to-do list with a
batch and two changes under it. Rows interact only through requests, so that one row of each kind,
exclusive and not, is enough; the proofs do not depend on these numbers. Temperatures are enough
values for a range and something outside it; those of `temperature` include 0, which the validation
of a range overlooks. The counters of the time clock and of the cleaning stamps need no bound of
their own: each request advances them at most twice. Both sites of `personnel` are of different
organisations, and the manager belongs to both, so that one can act on what the other relies on; the
exclusive organisation of `tenant` has two sites, so that two managers could delete each other's;
one of its features is in `Held` and one is not. `CHECK_DEADLOCK FALSE` is set in every
configuration because the system really stops: when every request has been answered nothing is left
to do.

**Symmetry** is used for requests, managers and features, which the modules treat alike, and in safety
runs only.

**Fairness.** Only `FairSpec` of `NonConformity` has it, and only `tickets_live` uses it: weak
fairness of `Proceed(r)` for each request. The event loop runs every task that is ready, and a
database call or an upload ends or raises; `Fail` and the arrival of requests are not fair.

**Other divergences** were met while modelling, and have no run of their own:
the runs keep one example of each cause and the most consequential cases.

Tickets, records and time clock:

- The late acknowledgement of `tickets_stuck` also takes a CLOSED ticket back to
  IN_PROGRESS: it writes `status` and `assigned_to_id` by primary key, without looking at
  the status again.
- The corrective action of a RECEPTION ticket is committed and then answered with an error:
  the response needs a `releve_id`, which is NULL for these tickets
  (`nonconformities/service.py:455`). `AcceptedIsRecorded` is no help to its operator: who
  gets a 5xx cannot know whether the action is on record.
- Two managers who close a ticket at once both succeed; each UPDATE writes `closing_comment` only if
  the request has one, so that the comment of the first may stay under the name of the second.
- "Four eyes" compares roles, not persons: one user who is an operator and a manager may
  resolve and close a ticket.
- A threshold of 0 in a PATCH is taken for a missing one when the range is validated
  (`equipments/service.py:206`), and then written: the range may be empty. And two overlapping
  PATCHes, one of each threshold of an equipment, are each valid against the values they loaded,
  and together leave an empty range. `RangeLossExplained` (`TemperatureControl`) says that nothing else
  does.
- The deviation shown with a record is recomputed from today's thresholds: raising a
  threshold makes it 0 for a record that has a ticket.
- The hard delete of an equipment with records is refused by the RESTRICT foreign key, with an
  unhandled database error, where its documentation says that it cascades. `RecordsKeepEquipment`
  is the better of the two.
- Two overlapping CLOCK_INs are both recorded, one after the other.

Receptions, catalog and cleaning:

- The range that `reception_no_range` shows lost to a PATCH without the flag is also lost to two
  overlapping PATCHes with it: each leaves out of its UPDATE what equals the values it loaded.
  `RangeLossExplained` (`Reception`) says that nothing else loses one.
- A line whose request loaded the session before it was closed is added to the closed session;
  two overlapping `close_session` calls both succeed, and the second overwrites `closed_at`.
- A cold-chain line may be accepted with no reading: `InRange` passes when a value is
  missing.
- `open_session` looks at neither the activity nor the approval of the supplier, although
  deliveries of a rejected one "should not be accepted" (`catalog/models.py`).
- A to-do list for which a zone was deleted after its tasks were read ends with a KeyError.

Personnel and tenants:

- Soft deletion by one organisation makes the user deleted everywhere, but deactivates only its own
  assignments (those of other organisations stay active), where `personnel/router.py:144`
  says "deactivates all assignments".
- `create_site_affectation` accepts a deleted user, and answers 500 for an unknown one. After a
  second role on one site, the PIN check of that user ends in 500. Two overlapping `update_user` calls
  may leave one as well; `SecondRoleExplained` says that nothing else does.
- A new user with the e-mail of a deleted one is refused by the unique index with a 500 instead
  of the documented 400; `OneUserPerEmail` is what the index is there for.
- "Deletion is always soft" (`personnel/models.py:42`), and there is a hard delete.
- `ensure_admin_org_access` ignores `deleted_at`: what stops a deleted manager's token is that the
  assignments were deactivated.
- Platform-administrator names are called a superset of the manager names (`core/role_utils.py`),
  and are not: a role with such a name alone passes no manager check.
- Two overlapping PATCHes of the settings lose the fields of the first, where
  "omitted sub-models are left unchanged" (`tenant/schemas.py:94-95`). What they lose is what
  they loaded before it changed, and nothing else (`SettingsMerged`).
- The hard delete of a site that has HACCP records is refused by their foreign keys, with an unhandled
  database error, where its documentation says that it "physically removes the row and cascades to all
  child records" (`tenant/service.py:302-303`). `RecordsOnFile` is the better of the two.
  For the rows no such key holds, the time-clock events, it does cascade, although a deletion
  "must not destroy its historical HACCP audit trail" (`tenant/models.py:185-186`).
- Two managers, each at one site, may delete each other's, which leaves the organisation
  without any.
- The limits of a plan are read and shown, and enforced nowhere.

## 4. The proofs

For each component the inductive invariant `IInv` is the type invariant, the safety
invariants, and one conjunct that says what each request may rely on at each `pc` (that
the row it loaded exists, what its call is, that its photo is in the bucket). The
invariants alone are not inductive: a commit step preserves them only because of what its
load step saw, and that is what the extra conjunct carries across the interleaving. There is one
lemma per action. `Init => IInv`, `IInv /\ [Next]_vars => IInv'` and `IInv => Inv` are put
together by PTL. The action properties and the refinements of every interleaving follow from
the same invariant.

The theorems about exclusive rows use a second invariant, `ExclusiveInv`, on top of the first: what
a request in flight has loaded of such a row is what the row still holds. It is preserved
because every write to the row comes from a request in flight, and `NoOverlap` makes that the
same request. `NoOverlap` itself is an invariant, since `Spec` allows only steps that keep it.

| Module | Every property of | and beyond the runs |
|---|---|---|
| `NonConformityProofs` | `tickets`, both refinements included | `ResolvedNeverClosedCorrect`, `StuckForGoodCorrect`, `MovesExplainedCorrect` |
| `TemperatureControlProofs` | `temperature` | `ComplianceIsNoDeviation` |
| `TimeClockProofs` | `timeclock` | `ShiftImplemented`, `LogGrowsAtEndCorrect` |
| `ReceptionProofs` | `reception` and `reception_product`, the refinement included | |
| `RegistersProofs` | `registers` | `SupplierOnFileCorrect` |
| `CleaningProofs` | `cleaning`, the refinement included | `SitesApartCorrect` |
| `PersonnelProofs` | `personnel`, the refinement included | `OneRolePerSiteCorrect`, `OneUserPerEmailCorrect` |
| `TenantProofs` | `tenant` | `RegisteredCorrect`, `DeletionSettlesCorrect` |

The last column states definitions of the model modules that no configuration lists.
TLC agreed with each of them on the instance of the module's run before it was proved; from
then on the proof is what keeps them.

**How bad a race can get.** Some theorems bound what the two findings and the other races can do.
`MovesExplained` says that the status of a ticket leaves the documented path in two ways only:
an acknowledgement that loaded the ticket before another one was committed sets it back, and a
close request older than that still closes it. `StuckForGood` says that the state
`tickets_stuck` finds is final: once no such close request is left, no request leads out. The
argument for the second is that a close request starts from a status the stuck ticket does not have
and that a ticket with a corrective action gets no other; for the first, that `assigned` names an
acknowledgement that has committed (`SignatureInv`), so that one still to commit is another, and
that an assigned ticket never shows as OPEN again (`Assignment`). `RangeLossExplained`
says, of every product and every interleaving, that a range is lost only to a PATCH without the flag or to one
that commits on another range than it loaded, so that `reception_no_range` shows the whole of that
divergence for products whose PATCHes do not overlap; its namesake in `TemperatureControl` says the same of
thresholds, a 0 or an overlap, and `SecondRoleExplained` of second roles, the assignment endpoint or
a rebuild of rights that have changed since. Each is proved by what a commit writes when the row is
still as it was loaded, so that an overlap is the only other case.

**Inductive invariants for rows that refer to rows**, each `IInv`, the property and what a request
relies on between its check and its commit:

- `LinkInv` (`Registers`): the supplier that a request is about to link is on file. It was when
  it was checked, and no handler deletes a row (`RowsRemain`).
- `SiteInv` (`Cleaning`): the routine and the zone of a task that is about to be added are of one site,
  also when one of them was deleted since; the foreign keys look at existence again at the
  commit. A task that is there was there before, or has just been added and has no logs (`TaskStep`).
- `RegisteredInv` (`Tenant`): a request that is creating a site has its organisation on file.
  Uniqueness itself comes from the indexes at the commit, not from the checks before it.

`DeletionSettles` (`Tenant`) needs no new invariant: it follows from `IInv` by a lemma each on what
becomes of a site (`SiteStep`), who passes its gate (`UsingStep`) and whose a row is (`RowStep`).
`RightsEnd` (`Personnel`) has an easy half, what a soft delete loaded is switched off
(`SoftDeleteDisarms`), and one that takes the `ExclusiveInv` of the module: an update of an
exclusive user that is about to commit still sees that user undeleted (`NoneBack`). `RecordsOnFile`
(`Tenant`) is kept by a hard delete only because `HeldBy` is looked at in the same step as the rows
go, which is what the foreign keys do.

What carries the other proofs: in `Cleaning`, a task that a request looked up can only have been
deleted since (`Kept`), and the foreign keys look again at the commit; in `Personnel`, an assignment
always has its user (`AssignedAreUsers`), so that a user who is hired has none, and a request
that loaded assignments loaded those of its user and organisation only (`LoadedFrom`); in
`Tenant`, a request in flight names the owner of its site, so that two changes of one site
are requests of one organisation; in `Registers`, an UPDATE that does not ask for it never
writes `is_active`; in `TimeClock`, a request of an exclusive operator that is about to commit
has a later time than every event of that operator (`UpToDate`), which gives `LegalLog` and `LogGrowsAtEnd`.

Assumptions: `NoneAssumption` and `CallAssumption` (NULL is not a value of another kind),
`ExclusiveAssumption` (exclusive rows are rows), `TempAssumption` (temperatures are integers),
`HeldAssumption` (the records a key holds are those of some features), `RowAssumption`,
`SiteAssumption`, `OwnerAssumption` and `RoleAssumption` (what the other constants are), and
`SeedAssumption` (rows there are at the start respect the foreign keys; an exclusive user starts
with one role on a site).

*Only model-checked*: `RequestsAreAnswered`; liveness under fairness is out of the prover's reach.

## 5. Not modelled

- Hashing, token formats and their expiry (libraries); a token here is never taken back, which is
  more than the real one allows, so that what holds here holds for it.
- The organisation's login and the platform key, which read one column and write nothing.
- The content of photos and URLs, pagination, lists, statistics and the overview, which change nothing.
- Names, addresses, passwords and user PINs, which no other state depends on.
- Plan limits, which nothing enforces.
- Metrics, logging, configuration and start-up; the connection pool.
- The frontend: a client, whose requests are the inputs here.
- Migrations and scripts, which run while the program is stopped.
- Crashes need no model of their own: a stopped worker is `Fail`, since nothing survives it but
  committed rows and uploaded objects.
