------------------------------ MODULE Personnel ------------------------------
(***************************************************************************)
(* Users, their roles on sites (modules/personnel, and the assignment      *)
(* endpoint of modules/tenant), and the three gates that read them: the    *)
(* manager's login (modules/auth), the rights of the token's manager and   *)
(* the operator's PIN (core/dependencies).                                 *)
(*                                                                         *)
(* Every handler checks its caller and SELECTs what it needs in one step,  *)
(* and writes some awaits later.  A request that is refused at the first   *)
(* step changes nothing, and is left out.                                  *)
(*                                                                         *)
(* An e-mail address is named after a user who may have it.                *)
(***************************************************************************)
CONSTANTS
    User,           \* primary keys of utilisateurs, each given to one row only
    Site,           \* establishments
    Role,           \* roles
    Manager,        \* roles for which is_manager_role holds
    Platform,       \* roles for which is_platform_admin_role holds
    organisation,   \* the organisation of each site
    Seed,           \* the assignments there are at the start
    Request,        \* HTTP requests; each one is served once
    Exclusive,      \* users whose requests never overlap, and whose rights are
                    \* managed from the users screen only
    None            \* SQL NULL, no row, or a field the request leaves out

Key == User \X Site \X Role

ASSUME RoleAssumption == Manager \subseteq Role /\ Platform \subseteq Role
ASSUME SeedAssumption ==
    /\ Seed \subseteq Key
    /\ \A j, k \in Seed : j[1] \in Exclusive /\ j[1] = k[1] /\ j[2] = k[2] => j = k
ASSUME ExclusiveAssumption == Exclusive \subseteq User
ASSUME NoneAssumption ==
    /\ None \notin BOOLEAN
    /\ None \notin User \cup Role
    /\ None \notin {"active", "deleted", "gone"}

VARIABLES
    account,        \* each user's row: None before it exists, "gone" afterwards
    email,          \* its e-mail
    affectation,    \* affectations_site: is_active of each row, None: no such row
    tokens,         \* establishment tokens issued: manager and site
    records,        \* requests that committed a record signed by their operator
    pc,             \* where each request is
    call,           \* what each request asked for
    seen            \* the assignments each request loaded

rows == <<account, email, affectation>>
vars == <<rows, tokens, records, pc, call, seen>>

Organisation == {organisation[s] : s \in Site}
Flag == BOOLEAN \cup {None}

CreateCall == [op : {"create"}, user : User, sites : SUBSET Site, role : Role, email : User]
UpdateCall == [op : {"update"}, user : User, org : Organisation, active : Flag,
               sites : SUBSET Site, role : Role \cup {None},
               email : User \cup {None}]
DeleteCall == [op : {"delete"}, user : User, org : Organisation, hard : BOOLEAN]
AffectCall == [op : {"affect"}, user : User, site : Site, role : Role, active : BOOLEAN]
LoginCall == [op : {"login"}, user : User, site : Site]
SignCall == [op : {"sign"}, user : User]
Call == CreateCall \cup UpdateCall \cup DeleteCall \cup AffectCall \cup LoginCall \cup SignCall

InFlight == {"creating", "updating", "deleting", "affecting", "login", "signing"}
Answered == {"ok", "failed"}

TypeOK ==
    /\ account \in [User -> {None, "active", "deleted", "gone"}]
    /\ email \in [User -> User \cup {None}]
    /\ affectation \in [Key -> Flag]
    /\ tokens \subseteq User \X Site
    /\ records \subseteq Request
    /\ pc \in [Request -> {"new"} \cup InFlight \cup Answered]
    /\ call \in [Request -> Call \cup {None}]
    /\ seen \in [Request -> [Key -> Flag] \cup {None}]

Init ==
    /\ account = [u \in User |-> IF \E k \in Seed : k[1] = u THEN "active" ELSE None]
    /\ email = [u \in User |-> IF account[u] = "active" THEN u ELSE None]
    /\ affectation = [k \in Key |-> IF k \in Seed THEN TRUE ELSE None]
    /\ tokens = {<<k[1], k[2]>> : k \in {j \in Seed : j[3] \in Manager}}
    /\ records = {}
    /\ pc = [r \in Request |-> "new"]
    /\ call = [r \in Request |-> None]
    /\ seen = [r \in Request |-> None]

\* r is let in and has loaded what it needs.
Begin(r, next, asked, loaded) ==
    /\ pc' = [pc EXCEPT ![r] = next]
    /\ call' = [call EXCEPT ![r] = asked]
    /\ seen' = [seen EXCEPT ![r] = loaded]

\* r is answered, and leaves no row behind that needs what it asked for.
Finish(r, answer) ==
    /\ pc' = [pc EXCEPT ![r] = answer]
    /\ call' = [call EXCEPT ![r] = None]
    /\ seen' = [seen EXCEPT ![r] = None]

-----------------------------------------------------------------------------
(* The rows, and who may do what.                                           *)

HasRow(u) == account[u] \in {"active", "deleted"}

OrgSites(o) == {s \in Site : organisation[s] = o}

\* The assignments of u on the sites of the organisation o, as they are now.
OrgAssignments(u, o) ==
    [k \in Key |-> IF k[1] = u /\ organisation[k[2]] = o THEN affectation[k] ELSE None]

\* The keys of the rows a SELECT returned.
Keys(loaded) == {k \in Key : loaded[k] # None}

ActiveRoles(u, s) == {role \in Role : affectation[<<u, s, role>>] = TRUE}

\* ensure_admin_org_access.  It does not look at deleted_at.
Admin(m, s) == ActiveRoles(m, s) \cap Manager # {}

\* ensure_platform_admin_access.
PlatformAdmin(m, o) == \E s \in OrgSites(o) : ActiveRoles(m, s) \cap Platform # {}

\* The request comes with the token of a manager of the organisation o.
FromManager(o) ==
    \E t \in tokens : organisation[t[2]] = o /\ Admin(t[1], t[2])

FromPlatformAdmin(o) ==
    \E t \in tokens : organisation[t[2]] = o /\ Admin(t[1], t[2]) /\ PlatformAdmin(t[1], o)

\* The check for a duplicate e-mail: deleted users do not count.
EmailUnused(u, e) ==
    \A v \in User \ {u} : account[v] = "active" => email[v] # e

\* The unique index on the e-mail: every row counts.
EmailFree(u, e) == \A v \in User \ {u} : HasRow(v) => email[v] # e

-----------------------------------------------------------------------------
(* create_user.                                                             *)

CheckCreate(r) ==
    /\ pc[r] = "new"
    /\ \E u, e \in User, o \in Organisation :
        /\ FromManager(o)
        /\ account[u] = None
        /\ EmailUnused(u, e)
        /\ \E sites \in SUBSET OrgSites(o) \ {{}}, role \in Role :
              Begin(r, "creating",
                    [op |-> "create", user |-> u, sites |-> sites, role |-> role, email |-> e],
                    None)
    /\ UNCHANGED <<rows, tokens, records>>

\* Mutant: a status no gate knows.
CommitCreate_Invited(r) ==
    /\ pc[r] = "creating"
    /\ account[call[r].user] = None
    /\ EmailFree(call[r].user, call[r].email)
    /\ account' = [account EXCEPT ![call[r].user] = "invited"]
    /\ email' = [email EXCEPT ![call[r].user] = call[r].email]
    /\ affectation' =
          [k \in Key |-> IF k[1] = call[r].user /\ k[2] \in call[r].sites /\ k[3] = call[r].role
                         THEN TRUE ELSE affectation[k]]
    /\ Finish(r, "ok")
    /\ UNCHANGED <<tokens, records>>

CommitCreate(r) ==
    /\ pc[r] = "creating"
    /\ account[call[r].user] = None
    /\ EmailFree(call[r].user, call[r].email)
    /\ account' = [account EXCEPT ![call[r].user] = "active"]
    /\ email' = [email EXCEPT ![call[r].user] = call[r].email]
    /\ affectation' =
          [k \in Key |-> IF k[1] = call[r].user /\ k[2] \in call[r].sites /\ k[3] = call[r].role
                         THEN TRUE ELSE affectation[k]]
    /\ Finish(r, "ok")
    /\ UNCHANGED <<tokens, records>>

-----------------------------------------------------------------------------
(* update_user.                                                             *)

\* Mutant: deleted users are loaded too.
LoadUpdate_Deleted(r) ==
    /\ pc[r] = "new"
    /\ \E u \in User, o \in Organisation, e \in User \cup {None} :
        /\ FromManager(o)
        /\ HasRow(u)
        /\ Keys(OrgAssignments(u, o)) # {}
        /\ e # None => e # email[u] /\ EmailUnused(u, e)
        /\ \E sites \in SUBSET OrgSites(o), role \in Role \cup {None}, active \in Flag :
              Begin(r, "updating",
                    [op |-> "update", user |-> u, org |-> o, active |-> active,
                     sites |-> sites, role |-> role, email |-> e],
                    OrgAssignments(u, o))
    /\ UNCHANGED <<rows, tokens, records>>

\* An e-mail equal to the one loaded is the same as none.  The list of sites,
\* when there is one, is not empty: {} stands for a request without it.
LoadUpdate(r) ==
    /\ pc[r] = "new"
    /\ \E u \in User, o \in Organisation, e \in User \cup {None} :
        /\ FromManager(o)
        /\ account[u] = "active"
        /\ Keys(OrgAssignments(u, o)) # {}
        /\ e # None => e # email[u] /\ EmailUnused(u, e)
        /\ \E sites \in SUBSET OrgSites(o), role \in Role \cup {None}, active \in Flag :
              Begin(r, "updating",
                    [op |-> "update", user |-> u, org |-> o, active |-> active,
                     sites |-> sites, role |-> role, email |-> e],
                    OrgAssignments(u, o))
    /\ UNCHANGED <<rows, tokens, records>>

\* The role the rebuilt rows get: the one asked for, or that of the first row
\* loaded, in no particular order.
NextRoles(r) ==
    IF call[r].role # None THEN {call[r].role} ELSE {k[3] : k \in Keys(seen[r])}

NextSites(r) ==
    IF call[r].sites # {} THEN call[r].sites ELSE {k[2] : k \in Keys(seen[r])}

NextActive(r) ==
    IF call[r].active # None THEN call[r].active ELSE \E k \in Keys(seen[r]) : seen[r][k] = TRUE

\* Mutant: only the rows of the sites asked for are deleted.
Replaced_SitesOnly(r) == {k \in Keys(seen[r]) : k[2] \notin NextSites(r)}

\* The rows that a rebuild deletes: those that were loaded.
Replaced(r) == Keys(seen[r])

\* role_id or establishment_ids: the rows loaded are deleted, then new ones are
\* inserted.  A row that somebody else inserted meanwhile is a conflict.
Rebuild(r) ==
    \E role \in NextRoles(r) :
        LET new == {k \in Key : k[1] = call[r].user /\ k[2] \in NextSites(r) /\ k[3] = role}
        IN  /\ \A k \in new \ Replaced(r) : affectation[k] = None
            /\ affectation' = [k \in Key |->
                  IF k \in new THEN NextActive(r)
                  ELSE IF k \in Replaced(r) THEN None ELSE affectation[k]]

\* The UPDATE of is_active: of the loaded rows that have another value.  One
\* that is no longer there makes the commit fail.
Switch(r, active) ==
    LET stale == {k \in Keys(seen[r]) : seen[r][k] # active}
    IN  /\ \A k \in stale : affectation[k] # None
        /\ affectation' = [k \in Key |-> IF k \in stale THEN active ELSE affectation[k]]

ChangeRights(r) ==
    IF call[r].role # None \/ call[r].sites # {} THEN Rebuild(r)
    ELSE IF call[r].active # None THEN Switch(r, call[r].active)
    ELSE UNCHANGED affectation

\* Mutant: the whole row is written back, as it was loaded.
CommitUpdate_WholeRow(r) ==
    /\ pc[r] = "updating"
    /\ HasRow(call[r].user)
    /\ call[r].email # None => EmailFree(call[r].user, call[r].email)
    /\ account' = [account EXCEPT ![call[r].user] = "active"]
    /\ email' = [email EXCEPT ![call[r].user] = IF call[r].email # None THEN call[r].email ELSE @]
    /\ ChangeRights(r)
    /\ Finish(r, "ok")
    /\ UNCHANGED <<tokens, records>>

CommitUpdate(r) ==
    /\ pc[r] = "updating"
    /\ HasRow(call[r].user)
    /\ call[r].email # None => EmailFree(call[r].user, call[r].email)
    /\ email' = [email EXCEPT ![call[r].user] = IF call[r].email # None THEN call[r].email ELSE @]
    /\ ChangeRights(r)
    /\ Finish(r, "ok")
    /\ UNCHANGED <<account, tokens, records>>

-----------------------------------------------------------------------------
(* delete_user, and create_site_affectation, which inserts or updates.      *)

\* Mutant: assignments in other organisations do not stop a hard delete.
NotOutside_Dropped(u, o) == TRUE

\* u has no assignment outside the organisation o.
NotOutside(u, o) == \A k \in Key : k[1] = u /\ affectation[k] # None => organisation[k[2]] = o

LoadDelete(r) ==
    /\ pc[r] = "new"
    /\ \E u \in User, o \in Organisation, hard \in BOOLEAN :
        /\ FromManager(o)
        /\ HasRow(u)
        /\ Keys(OrgAssignments(u, o)) # {}
        /\ hard => FromPlatformAdmin(o) /\ NotOutside(u, o)
        /\ Begin(r, "deleting", [op |-> "delete", user |-> u, org |-> o, hard |-> hard],
                 OrgAssignments(u, o))
    /\ UNCHANGED <<rows, tokens, records>>

CommitSoftDelete(r) ==
    /\ pc[r] = "deleting"
    /\ ~call[r].hard
    /\ HasRow(call[r].user)
    /\ account' = [account EXCEPT ![call[r].user] = "deleted"]
    /\ Switch(r, FALSE)
    /\ Finish(r, "ok")
    /\ UNCHANGED <<email, tokens, records>>

SignedBy(u) == {r \in records : call[r].user = u}

\* The assignments loaded are deleted by the ORM and the others by the foreign
\* key; that of the records restricts.
CommitHardDelete(r) ==
    /\ pc[r] = "deleting"
    /\ call[r].hard
    /\ SignedBy(call[r].user) = {}
    /\ account' = [account EXCEPT ![call[r].user] = "gone"]
    /\ email' = [email EXCEPT ![call[r].user] = None]
    /\ affectation' = [k \in Key |-> IF k[1] = call[r].user THEN None ELSE affectation[k]]
    /\ Finish(r, "ok")
    /\ UNCHANGED <<tokens, records>>

\* The user is not looked at, only the row of that user, site and role.
LoadAffect(r) ==
    /\ pc[r] = "new"
    /\ \E u \in User \ Exclusive, s \in Site, role \in Role, active \in BOOLEAN :
        /\ FromManager(organisation[s])
        /\ Begin(r, "affecting",
                 [op |-> "affect", user |-> u, site |-> s, role |-> role, active |-> active],
                 [k \in Key |-> IF k = <<u, s, role>> THEN affectation[k] ELSE None])
    /\ UNCHANGED <<rows, tokens, records>>

\* An INSERT when no row was loaded: it needs the user's row, deleted or not.
InsertAffect(r) ==
    LET key == <<call[r].user, call[r].site, call[r].role>>
    IN  /\ pc[r] = "affecting"
        /\ Keys(seen[r]) = {}
        /\ HasRow(call[r].user)
        /\ affectation[key] = None
        /\ affectation' = [affectation EXCEPT ![key] = call[r].active]
        /\ Finish(r, "ok")
        /\ UNCHANGED <<account, email, tokens, records>>

UpdateAffect(r) ==
    /\ pc[r] = "affecting"
    /\ Keys(seen[r]) # {}
    /\ Switch(r, call[r].active)
    /\ Finish(r, "ok")
    /\ UNCHANGED <<account, email, tokens, records>>

-----------------------------------------------------------------------------
(* login_manager, and get_current_operator with the record that follows.    *)

CheckPassword(r) ==
    /\ pc[r] = "new"
    /\ \E u \in User, s \in Site :
        /\ account[u] = "active"
        /\ Begin(r, "login", [op |-> "login", user |-> u, site |-> s], None)
    /\ UNCHANGED <<rows, tokens, records>>

IssueToken(r) ==
    /\ pc[r] = "login"
    /\ Admin(call[r].user, call[r].site)
    /\ tokens' = tokens \cup {<<call[r].user, call[r].site>>}
    /\ Finish(r, "ok")
    /\ UNCHANGED <<rows, records>>

CheckPin(r) ==
    /\ pc[r] = "new"
    /\ \E u \in User, t \in tokens, role \in Role \ Manager :
        /\ ActiveRoles(u, t[2]) = {role}
        /\ account[u] = "active"
        /\ Begin(r, "signing", [op |-> "sign", user |-> u], None)
    /\ UNCHANGED <<rows, tokens, records>>

\* scalar_one_or_none raises when there are two rows.
RaiseMultiple(r) ==
    /\ pc[r] = "new"
    /\ \E u \in User, t \in tokens : \E a, b \in ActiveRoles(u, t[2]) : a # b
    /\ Finish(r, "failed")
    /\ UNCHANGED <<rows, tokens, records>>

\* The INSERT of the record needs the operator's row.
CommitRecord(r) ==
    /\ pc[r] = "signing"
    /\ HasRow(call[r].user)
    /\ records' = records \cup {r}
    /\ pc' = [pc EXCEPT ![r] = "ok"]
    /\ UNCHANGED <<rows, tokens, call, seen>>

-----------------------------------------------------------------------------

\* A request may die, or break a constraint, before its commit.
Fail(r) ==
    /\ pc[r] \in InFlight
    /\ Finish(r, "failed")
    /\ UNCHANGED <<rows, tokens, records>>

Next ==
    \E r \in Request :
        \/ CheckCreate(r) \/ CommitCreate(r)
        \/ LoadUpdate(r) \/ CommitUpdate(r)
        \/ LoadDelete(r) \/ CommitSoftDelete(r) \/ CommitHardDelete(r)
        \/ LoadAffect(r) \/ InsertAffect(r) \/ UpdateAffect(r)
        \/ CheckPassword(r) \/ IssueToken(r)
        \/ CheckPin(r) \/ RaiseMultiple(r) \/ CommitRecord(r)
        \/ Fail(r)

NoOverlap ==
    \A q, r \in Request :
        q # r /\ pc[q] \in InFlight /\ pc[r] \in InFlight /\ call[q].user \in Exclusive =>
            call[q].user # call[r].user

Spec == Init /\ [][Next /\ NoOverlap']_vars

-----------------------------------------------------------------------------
(* What an employer and an inspector rely on.                               *)

\* However requests interleave, users are hired once, dismissed for good and
\* erased only while no record bears their signature; the careful ones sign
\* records only while employed (see Employment).
Staff == INSTANCE Employment
            WITH Record <- Request, Careful <- Exclusive, standing <- account,
                 signed <- [u \in User |-> SignedBy(u)]

ImplementsEmployment == Staff!Spec

\* r's soft delete takes every role in its organisation away, but for those that
\* somebody gave while it was under way.
Disarms(r) ==
    pc[r] = "deleting" /\ ~call[r].hard /\ pc'[r] = "ok" =>
        \A s \in OrgSites(call[r].org), role \in Role :
            LET k == <<call[r].user, s, role>>
            IN  affectation'[k] = TRUE => affectation[k] # seen[r][k]

StaysDisarmed(u) ==
    account[u] = "deleted" =>
        \A s \in Site, role \in Role :
            affectation[<<u, s, role>>] # TRUE => affectation'[<<u, s, role>>] # TRUE

\* A deletion ends the rights it is to end, however requests interleave: delete_user
\* switches off all the assignments of its organisation, as it loaded them (roles in
\* other organisations stay active, see TenantsKeepRights).  And a deleted user whose
\* rights are managed one request at a time gets none back, so that the user's
\* tokens, which outlive the account, open nothing again.
RightsEnd == [][(\A r \in Request : Disarms(r)) /\ (\A u \in Exclusive : StaysDisarmed(u))]_vars

\* However requests interleave, an e-mail finds one user at most: the check that
\* overlooks deleted users, and the requests that pass it together, are caught by
\* the unique index when they commit.
OneUserPerEmail ==
    \A u, v \in User : HasRow(u) /\ HasRow(v) /\ email[u] = email[v] => u = v

\* A user whose rights are managed one request at a time, and on the users screen
\* only (Exclusive leaves the assignment endpoint out), has one role on a site, so
\* that the PIN check, which expects one row at most, can answer.
OneRolePerSite ==
    \A j, k \in Keys(affectation) :
        j[1] \in Exclusive /\ j[1] = k[1] /\ j[2] = k[2] => j = k

\* u has several assignments on s, with as many roles: once they are active, the
\* PIN check fails (core/dependencies.py, 296-307).
SeveralRoles(u, s) ==
    \E a, b \in Role : a # b /\ {<<u, s, a>>, <<u, s, b>>} \subseteq Keys(affectation)

\* Somebody has changed the rights that r works on since r loaded them.
Stale(r) == seen[r] # OrgAssignments(call[r].user, call[r].org)

\* However requests interleave, a user gets a second role on a site in two ways
\* only: the assignment endpoint adds one, looking at no other role, or an
\* update_user rebuilds rights that are no longer the ones it loaded.  No creation,
\* deletion or up-to-date rebuild ever does.
SecondRoleExplained ==
    [][\A u \in User, s \in Site : ~SeveralRoles(u, s) /\ SeveralRoles(u, s)' =>
          \E r \in Request :
              /\ pc[r] \in {"affecting", "updating"} /\ pc'[r] = "ok"
              /\ call[r].user = u
              /\ pc[r] = "affecting" => call[r].site = s /\ Keys(seen[r]) = {}
              /\ pc[r] = "updating" => call[r].org = organisation[s] /\ Stale(r)]_vars

\* The requests of one organisation leave a user's rights in another one alone:
\* update_user and a soft delete however requests interleave, and the hard delete,
\* which removes the user's rows everywhere, where they do not overlap.
TenantsKeepRights ==
    [][\A r \in Request :
          /\ pc[r] \in {"updating", "deleting"} /\ pc'[r] = "ok"
          /\ pc[r] = "deleting" /\ call[r].hard => call[r].user \in Exclusive
          => \A s \in Site \ OrgSites(call[r].org), role \in Role :
                affectation'[<<call[r].user, s, role>>] = affectation[<<call[r].user, s, role>>]]_vars

=============================================================================
