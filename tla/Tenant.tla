------------------------------- MODULE Tenant -------------------------------
(***************************************************************************)
(* Organisations and their establishments (modules/tenant), the settings   *)
(* document of each establishment, and the feature gate that reads it      *)
(* before every request of the other modules (core/feature_flags).         *)
(*                                                                         *)
(* The settings are one JSON document: a PATCH reads it, merges, and writes*)
(* the whole of it back.  A request enters with the establishment row that *)
(* its token names as it is at that moment, and goes on with that copy.    *)
(* A request that is refused when it enters changes nothing, and is left   *)
(* out.                                                                    *)
(*                                                                         *)
(* An admin login is named after an organisation, and a SIRET after an     *)
(* establishment, that may have it.                                        *)
(***************************************************************************)
CONSTANTS
    Organisation,   \* primary keys of organisations
    Site,           \* primary keys of etablissements, each given to one row only
    owner,          \* the organisation that creates each site
    Seed,           \* the sites open at the start
    Feature,        \* members of the Feature enumeration
    Held,           \* those whose records a RESTRICT key keeps on file
    Request,        \* HTTP requests; each one is served once
    Exclusive,      \* organisations whose requests happen never to overlap
    None            \* SQL NULL, no row, or a field the request leaves out

ASSUME OwnerAssumption == owner \in [Site -> Organisation]
ASSUME SeedAssumption == Seed \subseteq Site /\ Exclusive \subseteq Organisation
ASSUME HeldAssumption == Held \subseteq Feature
ASSUME NoneAssumption ==
    /\ None \notin BOOLEAN \cup [Feature -> BOOLEAN]
    /\ None \notin Site \cup {"open", "deleted", "gone"}
    /\ None \notin Organisation

VARIABLES
    login,      \* admin_login_email of each organisation; None: no such row
    site,       \* each site's row: None before it exists, "gone" afterwards
    siret,      \* its SIRET
    settings,   \* its settings document; None: the empty one a new site has
    log,        \* requests that committed a record of a module behind the gate
    pc,         \* where each request is
    call,       \* what each request asked for
    seen        \* the settings each request loaded

tenants == <<login, site, siret>>
vars == <<tenants, settings, log, pc, call, seen>>

Document == [Feature -> BOOLEAN] \cup {None}
Patch == [Feature -> BOOLEAN \cup {None}]

OrganisationCall == [op : {"organisation"}, org : Organisation, login : Organisation]
CreateCall == [op : {"create"}, org : Organisation, site : Site, siret : Site \cup {None}]
DeleteCall == [op : {"delete"}, org : Organisation, site : Site, hard : BOOLEAN]
SettingsCall == [op : {"settings"}, org : Organisation, site : Site, patch : Patch]
UseCall == [op : {"use"}, org : Organisation, site : Site, feature : Feature]
Call == OrganisationCall \cup CreateCall \cup DeleteCall \cup SettingsCall \cup UseCall

InFlight == {"founding", "creating", "choosing", "deleting", "reading", "merging", "using"}
Answered == {"ok", "rejected", "failed"}

TypeOK ==
    /\ login \in [Organisation -> Organisation \cup {None}]
    /\ site \in [Site -> {None, "open", "deleted", "gone"}]
    /\ siret \in [Site -> Site \cup {None}]
    /\ settings \in [Site -> Document]
    /\ log \subseteq Request
    /\ pc \in [Request -> {"new"} \cup InFlight \cup Answered]
    /\ call \in [Request -> Call \cup {None}]
    /\ seen \in [Request -> Document]

Init ==
    /\ login = [o \in Organisation |-> IF \E s \in Seed : owner[s] = o THEN o ELSE None]
    /\ site = [s \in Site |-> IF s \in Seed THEN "open" ELSE None]
    /\ siret = [s \in Site |-> IF s \in Seed THEN s ELSE None]
    /\ settings = [s \in Site |-> None]
    /\ log = {}
    /\ pc = [r \in Request |-> "new"]
    /\ call = [r \in Request |-> None]
    /\ seen = [r \in Request |-> None]

Begin(r, next, asked, loaded) ==
    /\ pc' = [pc EXCEPT ![r] = next]
    /\ call' = [call EXCEPT ![r] = asked]
    /\ seen' = [seen EXCEPT ![r] = loaded]

Goto(r, next) == pc' = [pc EXCEPT ![r] = next] /\ UNCHANGED <<call, seen>>

\* r is answered, and leaves no row behind that needs what it asked for.
Finish(r, answer) ==
    /\ pc' = [pc EXCEPT ![r] = answer]
    /\ call' = [call EXCEPT ![r] = None]
    /\ seen' = [seen EXCEPT ![r] = None]

-----------------------------------------------------------------------------

HasRow(s) == site[s] \in {"open", "deleted"}

\* EstablishmentSettings.from_raw: a key that is missing is enabled.
FromRaw(document) == IF document = None THEN [f \in Feature |-> TRUE] ELSE document

\* is_enabled.
Enabled(document, f) == FromRaw(document)[f]

\* Mutant: the document is rebuilt from the payload, with the defaults.
Merged_Defaults(document, patch) ==
    [f \in Feature |-> IF patch[f] = None THEN TRUE ELSE patch[f]]

\* Mutant: the payload is stored as it came.
Merged_Payload(document, patch) == patch

\* model_copy(update=...): the sub-models of the payload replace the stored ones.
Merged(document, patch) ==
    [f \in Feature |-> IF patch[f] = None THEN FromRaw(document)[f] ELSE patch[f]]

LoginFree(o, l) == \A p \in Organisation \ {o} : login[p] # l

\* The unique column: NULLs do not collide, deleted sites do.
SiretFree(s, n) == n = None \/ \A t \in Site \ {s} : siret[t] # n

-----------------------------------------------------------------------------
(* create_organization and create_organization_establishment.               *)

CheckOrganisation(r) ==
    /\ pc[r] = "new"
    /\ \E o, l \in Organisation :
        /\ login[o] = None
        /\ LoginFree(o, l)
        /\ Begin(r, "founding", [op |-> "organisation", org |-> o, login |-> l], None)
    /\ UNCHANGED <<tenants, settings, log>>

CommitOrganisation(r) ==
    /\ pc[r] = "founding"
    /\ login[call[r].org] = None
    /\ LoginFree(call[r].org, call[r].login)
    /\ login' = [login EXCEPT ![call[r].org] = call[r].login]
    /\ Finish(r, "ok")
    /\ UNCHANGED <<site, siret, settings, log>>

CheckCreate(r) ==
    /\ pc[r] = "new"
    /\ \E s \in Site, n \in Site \cup {None} :
        /\ login[owner[s]] # None
        /\ site[s] = None
        /\ SiretFree(s, n)
        /\ Begin(r, "creating", [op |-> "create", org |-> owner[s], site |-> s, siret |-> n], None)
    /\ UNCHANGED <<tenants, settings, log>>

CommitCreate(r) ==
    /\ pc[r] = "creating"
    /\ site[call[r].site] = None
    /\ SiretFree(call[r].site, call[r].siret)
    /\ site' = [site EXCEPT ![call[r].site] = "open"]
    /\ siret' = [siret EXCEPT ![call[r].site] = call[r].siret]
    /\ Finish(r, "ok")
    /\ UNCHANGED <<login, settings, log>>

\* IntegrityError: rollback, and 409.
Conflict(r) ==
    /\ \/ /\ pc[r] = "founding"
          /\ ~LoginFree(call[r].org, call[r].login)
       \/ /\ pc[r] = "creating"
          /\ ~SiretFree(call[r].site, call[r].siret)
    /\ Finish(r, "rejected")
    /\ UNCHANGED <<tenants, settings, log>>

-----------------------------------------------------------------------------
(* delete_establishment, from the tablet of another site.                   *)

\* Mutant: a manager may delete the site of the tablet in use.
EnterDelete_Own(r) ==
    /\ pc[r] = "new"
    /\ \E here, s \in Site, hard \in BOOLEAN :
        /\ site[here] = "open"
        /\ owner[s] = owner[here]
        /\ Begin(r, "choosing", [op |-> "delete", org |-> owner[s], site |-> s,
                              hard |-> hard], None)
    /\ UNCHANGED <<tenants, settings, log>>

\* get_current_establishment, and the check that s is another one.
EnterDelete(r) ==
    /\ pc[r] = "new"
    /\ \E here, s \in Site, hard \in BOOLEAN :
        /\ site[here] = "open"
        /\ s # here
        /\ owner[s] = owner[here]
        /\ Begin(r, "choosing", [op |-> "delete", org |-> owner[s], site |-> s,
                              hard |-> hard], None)
    /\ UNCHANGED <<tenants, settings, log>>

\* _get_site_in_manager_scope.
LoadTarget(r) ==
    /\ pc[r] = "choosing"
    /\ IF call[r].hard THEN HasRow(call[r].site) ELSE site[call[r].site] = "open"
    /\ Goto(r, "deleting")
    /\ UNCHANGED <<tenants, settings, log>>

CommitSoftDelete(r) ==
    /\ pc[r] = "deleting"
    /\ ~call[r].hard
    /\ HasRow(call[r].site)
    /\ site' = [site EXCEPT ![call[r].site] = "deleted"]
    /\ Finish(r, "ok")
    /\ UNCHANGED <<login, siret, settings, log>>

LogOf(s) == {r \in log : call[r].site = s}

\* Mutant: every key of every table cascades.
HeldBy_Cascades(s) == {}

\* The records that keep s on file.  The key of a record to its site cascades, but
\* those among the tables of a site do not: a cleaning log RESTRICTs its task and a
\* task its zone, a temperature record its equipment, a session its supplier, a line
\* its product.  Nothing but the site refers to a time-clock event.
HeldBy(s) == {r \in LogOf(s) : call[r].feature \in Held}

\* The row is deleted, and the database deletes the rows that refer to it.
CommitHardDelete(r) ==
    /\ pc[r] = "deleting"
    /\ call[r].hard
    /\ HeldBy(call[r].site) = {}
    /\ site' = [site EXCEPT ![call[r].site] = "gone"]
    /\ siret' = [siret EXCEPT ![call[r].site] = None]
    /\ settings' = [settings EXCEPT ![call[r].site] = None]
    /\ log' = log \ LogOf(call[r].site)
    /\ Finish(r, "ok")
    /\ UNCHANGED login

\* IntegrityError, which nobody handles.
RefuseHardDelete(r) ==
    /\ pc[r] = "deleting"
    /\ call[r].hard
    /\ HeldBy(call[r].site) # {}
    /\ Finish(r, "failed")
    /\ UNCHANGED <<tenants, settings, log>>

-----------------------------------------------------------------------------
(* update_establishment_settings.                                           *)

\* get_current_establishment, and the is_org_admin claim.
EnterSettings(r) ==
    /\ pc[r] = "new"
    /\ \E s \in Site :
        /\ site[s] = "open"
        /\ \E patch \in Patch :
              Begin(r, "reading", [op |-> "settings", org |-> owner[s], site |-> s,
                                   patch |-> patch], settings[s])
    /\ UNCHANGED <<tenants, settings, log>>

\* The row is read again, deleted or not.  The session hands out the object it has
\* loaded at entry, as it was, unless the garbage collector has taken it meanwhile.
LoadSettings(r) ==
    /\ pc[r] = "reading"
    /\ HasRow(call[r].site)
    /\ \E document \in {seen[r], settings[call[r].site]} : seen' = [seen EXCEPT ![r] = document]
    /\ pc' = [pc EXCEPT ![r] = "merging"]
    /\ UNCHANGED <<tenants, settings, log, call>>

\* An UPDATE of the document, unless the merge left it as it was loaded.
CommitSettings(r) ==
    LET merged == Merged(seen[r], call[r].patch)
    IN  /\ pc[r] = "merging"
        /\ HasRow(call[r].site)
        /\ settings' = IF merged = seen[r] THEN settings
                       ELSE [settings EXCEPT ![call[r].site] = merged]
        /\ Finish(r, "ok")
        /\ UNCHANGED <<tenants, log>>

-----------------------------------------------------------------------------
(* A request of a module behind the gate.                                   *)

\* Mutant: the gate reads the defaults instead of the settings.
EnterModule_Defaults(r) ==
    /\ pc[r] = "new"
    /\ \E s \in Site, f \in Feature :
        /\ site[s] = "open"
        /\ Enabled(None, f)
        /\ Begin(r, "using", [op |-> "use", org |-> owner[s], site |-> s, feature |-> f], None)
    /\ UNCHANGED <<tenants, settings, log>>

\* require_feature, on the row that get_current_establishment loaded.
EnterModule(r) ==
    /\ pc[r] = "new"
    /\ \E s \in Site, f \in Feature :
        /\ site[s] = "open"
        /\ Enabled(settings[s], f)
        /\ Begin(r, "using", [op |-> "use", org |-> owner[s], site |-> s, feature |-> f], None)
    /\ UNCHANGED <<tenants, settings, log>>

CommitRow(r) ==
    /\ pc[r] = "using"
    /\ HasRow(call[r].site)
    /\ log' = log \cup {r}
    /\ pc' = [pc EXCEPT ![r] = "ok"]
    /\ UNCHANGED <<tenants, settings, call, seen>>

-----------------------------------------------------------------------------

\* A request may die, or find its row gone, before its commit.
Fail(r) ==
    /\ pc[r] \in InFlight
    /\ Finish(r, "failed")
    /\ UNCHANGED <<tenants, settings, log>>

Next ==
    \E r \in Request :
        \/ CheckOrganisation(r) \/ CommitOrganisation(r)
        \/ CheckCreate(r) \/ CommitCreate(r) \/ Conflict(r)
        \/ EnterDelete(r) \/ LoadTarget(r)
        \/ CommitSoftDelete(r) \/ CommitHardDelete(r) \/ RefuseHardDelete(r)
        \/ EnterSettings(r) \/ LoadSettings(r) \/ CommitSettings(r)
        \/ EnterModule(r) \/ CommitRow(r)
        \/ Fail(r)

NoOverlap ==
    \A q, r \in Request :
        q # r /\ pc[q] \in InFlight /\ pc[r] \in InFlight /\ call[q].org \in Exclusive =>
            call[q].org # call[r].org

Spec == Init /\ [][Next /\ NoOverlap']_vars

-----------------------------------------------------------------------------
(* What a restaurant relies on.                                             *)

SitesOf(o) == {s \in Site : owner[s] = o}

\* However requests interleave, a record that was accepted stays on file, and its
\* site with it, whatever a platform admin deletes meanwhile: either the record is
\* committed first and the hard delete is refused, or the other way round.  The
\* records no key holds may go, but only with their site: none outlives it.
RecordsOnFile ==
    \A r \in Request :
        /\ r \in log => HasRow(call[r].site)
        /\ pc[r] = "ok" /\ call[r] # None => r \in log \/ call[r].feature \notin Held

\* However requests interleave, no two organisations have one login, no two sites
\* one SIRET, a site on file has its owner, and one that is not leaves nothing.
Registered ==
    /\ \A o, p \in Organisation : o # p /\ login[o] # None => login[o] # login[p]
    /\ \A s, t \in Site : s # t /\ siret[s] # None => siret[s] # siret[t]
    /\ \A s \in Site :
          IF HasRow(s) THEN login[owner[s]] # None ELSE siret[s] = None /\ settings[s] = None

\* The requests that passed the gate for s, and have not been answered.
Using(s) == {r \in Request : pc[r] = "using" /\ call[r].site = s}

\* A deletion settles: the site does not come back, no request passes its gate any
\* more, and only those that had passed it can still write a row, while there is one.
DeletionSettles ==
    [][\A s \in Site : site[s] \in {"deleted", "gone"} =>
          /\ site'[s] \in {site[s], "gone"}
          /\ Using(s)' \subseteq Using(s)
          /\ LogOf(s)' \subseteq IF site[s] = "gone" THEN {} ELSE LogOf(s) \cup Using(s)]_vars

\* An organisation whose requests do not overlap never deletes its last site:
\* each deletion comes from the tablet of another site that is open.
KeepsASite ==
    [][\A o \in Exclusive :
          (\E s \in SitesOf(o) : site[s] = "open") => \E s \in SitesOf(o) : site'[s] = "open"]_vars

\* However requests interleave, a site's features change by one PATCH at a time: it
\* sets all that it names, and gives the others the values it loaded, which are the
\* present ones where an organisation's requests do not overlap (otherwise, it undoes
\* what another PATCH has set meanwhile).
SettingsMerged ==
    [][\A s \in Site : settings'[s] # settings[s] /\ HasRow(s)' =>
          \E r \in Request :
              /\ pc[r] = "merging" /\ pc'[r] = "ok" /\ call[r].site = s
              /\ owner[s] \in Exclusive => seen[r] = settings[s]
              /\ \A f \in Feature :
                    Enabled(settings'[s], f) =
                        IF call[r].patch[f] = None THEN Enabled(seen[r], f)
                        ELSE call[r].patch[f]]_vars

\* When its requests do not overlap, a module writes for a site only while the
\* site is open and the feature is on, although the gate looked only once.
GateInForce ==
    [][\A r \in log' \ log : call[r].org \in Exclusive =>
          /\ site[call[r].site] = "open"
          /\ Enabled(settings[call[r].site], call[r].feature)]_vars

=============================================================================
