---------------------------- MODULE TenantProofs ----------------------------
(***************************************************************************)
(* Proofs about Tenant, for any organisations, sites, features and         *)
(* requests.                                                               *)
(***************************************************************************)
EXTENDS Tenant, TLAPS

USE OwnerAssumption, NoneAssumption

(* The inductive invariant: what a request in flight asked for, which names  *)
(* the organisation of its site, and who wrote the rows there are.           *)

Sane(r) ==
    /\ pc[r] = "founding" => call[r] \in OrganisationCall
    /\ pc[r] = "creating" => call[r] \in CreateCall
    /\ pc[r] \in {"choosing", "deleting"} => call[r] \in DeleteCall
    /\ pc[r] \in {"reading", "merging"} => call[r] \in SettingsCall
    /\ pc[r] = "using" => call[r] \in UseCall
    /\ pc[r] \in InFlight \ {"founding"} => call[r].org = owner[call[r].site]
    /\ r \in log => pc[r] = "ok" /\ call[r] \in UseCall

IInv ==
    /\ TypeOK
    /\ RecordsOnFile
    /\ \A r \in Request : Sane(r)

LEMMA InitIInv == Init => IInv
BY SeedAssumption DEF Init, IInv, TypeOK, RecordsOnFile, Sane, Document, InFlight

\* A step that begins a request leaves the database alone.
LEMMA BeginIInv ==
    ASSUME IInv, NEW r \in Request, NEW c \in Call, NEW next \in InFlight,
           NEW loaded \in Document, Begin(r, next, c, loaded), pc[r] = "new", Sane(r)',
           UNCHANGED <<tenants, settings, log>>
    PROVE  IInv'
<1> USE DEF Begin, tenants
<1>1. TypeOK'
  BY DEF IInv, TypeOK
<1>2. r \notin log
  BY DEF IInv, Sane
<1>3. ASSUME NEW q \in Request, q # r PROVE pc'[q] = pc[q] /\ call'[q] = call[q]
  BY <1>3 DEF IInv, TypeOK
<1>4. pc'[r] # "ok"
  BY DEF IInv, TypeOK, InFlight
<1>5. RecordsOnFile'
  BY <1>2, <1>3, <1>4 DEF IInv, RecordsOnFile, HasRow
<1>6. ASSUME NEW q \in Request, q # r PROVE Sane(q)'
  BY <1>3, <1>6 DEF IInv, Sane
<1> QED
  BY <1>1, <1>5, <1>6 DEF IInv

\* A step that answers r, whatever it does to sites that no row needs.
LEMMA FinishIInv ==
    ASSUME IInv, NEW r \in Request, NEW answer \in Answered, Finish(r, answer),
           pc[r] # "ok", log' \subseteq log,
           \A s \in Site : HasRow(s) /\ LogOf(s) \cap log' # {} => HasRow(s)',
           \A q \in log \ log' : call[q].feature \notin Held,
           login' \in [Organisation -> Organisation \cup {None}],
           site' \in [Site -> {None, "open", "deleted", "gone"}],
           siret' \in [Site -> Site \cup {None}],
           settings' \in [Site -> Document]
    PROVE  IInv'
<1> USE DEF Finish
<1>1. TypeOK'
  BY DEF IInv, TypeOK, Document
<1>2. r \notin log
  BY DEF IInv, Sane
<1>3. ASSUME NEW q \in Request, q # r PROVE pc'[q] = pc[q] /\ call'[q] = call[q]
  BY <1>3 DEF IInv, TypeOK
<1>4. ASSUME NEW q \in log' PROVE site'[call'[q].site] \in {"open", "deleted"}
  <2>1. q \in Request /\ q # r /\ q \in log
    BY <1>2, <1>4 DEF IInv, TypeOK
  <2>2. call'[q] = call[q] /\ call[q].site \in Site
    BY <1>3, <2>1 DEF IInv, Sane, UseCall
  <2>3. HasRow(call[q].site) /\ q \in LogOf(call[q].site) \cap log'
    BY <1>4, <2>1 DEF IInv, RecordsOnFile, LogOf
  <2> QED
    BY <2>2, <2>3 DEF HasRow
<1>5. ASSUME NEW q \in Request PROVE Sane(q)'
  <2>1. CASE q = r
    <3>1. pc'[r] = answer /\ r \notin log'
      BY <1>2 DEF IInv, TypeOK
    <3> QED
      BY <2>1, <3>1 DEF Sane, InFlight, Answered
  <2>2. CASE q # r
    BY <1>3, <2>2 DEF IInv, Sane
  <2> QED
    BY <2>1, <2>2
<1>6. ASSUME NEW q \in Request, pc'[q] = "ok", call'[q] # None
      PROVE  q \in log' \/ call'[q].feature \notin Held
  <2>1. q # r
    BY <1>6 DEF IInv, TypeOK
  <2> QED
    BY <1>3, <1>6, <2>1 DEF IInv, RecordsOnFile
<1>7. RecordsOnFile'
  BY <1>4, <1>6 DEF RecordsOnFile, HasRow
<1> QED
  BY <1>1, <1>5, <1>7 DEF IInv

\* A step that sends r on with what it asked for.
LEMMA GotoIInv ==
    ASSUME IInv, NEW r \in Request, NEW next \in InFlight, pc[r] \in InFlight,
           pc' = [pc EXCEPT ![r] = next], UNCHANGED <<tenants, settings, log, call>>,
           seen' \in [Request -> Document], Sane(r)'
    PROVE  IInv'
<1> USE DEF tenants
<1>1. TypeOK'
  BY DEF IInv, TypeOK
<1>2. RecordsOnFile'
  BY DEF IInv, TypeOK, RecordsOnFile, HasRow, InFlight
<1>3. ASSUME NEW q \in Request, q # r PROVE Sane(q)'
  BY <1>3 DEF IInv, TypeOK, Sane
<1> QED
  BY <1>1, <1>2, <1>3 DEF IInv

-----------------------------------------------------------------------------
(* The requests that begin.                                                  *)

LEMMA CheckOrganisationIInv == ASSUME IInv, NEW r \in Request, CheckOrganisation(r) PROVE IInv'
<1>1. PICK o \in Organisation, l \in Organisation :
        Begin(r, "founding", [op |-> "organisation", org |-> o, login |-> l], None)
  BY DEF CheckOrganisation
<1> DEFINE c == [op |-> "organisation", org |-> o, login |-> l]
<1>2. c \in OrganisationCall /\ c \in Call /\ "founding" \in InFlight
  BY DEF OrganisationCall, Call, InFlight
<1> HIDE DEF c
<1>3. Begin(r, "founding", c, None) /\ pc[r] = "new" /\ UNCHANGED <<tenants, settings, log>>
  BY <1>1 DEF c, CheckOrganisation
<1>4. Sane(r)'
  BY <1>2, <1>3 DEF Begin, Sane, IInv, TypeOK, InFlight
<1> QED
  BY <1>2, <1>3, <1>4, BeginIInv DEF Document

LEMMA CheckCreateIInv == ASSUME IInv, NEW r \in Request, CheckCreate(r) PROVE IInv'
<1>1. PICK s \in Site, n \in Site \cup {None} :
        Begin(r, "creating", [op |-> "create", org |-> owner[s], site |-> s, siret |-> n], None)
  BY DEF CheckCreate
<1> DEFINE c == [op |-> "create", org |-> owner[s], site |-> s, siret |-> n]
<1>2. c \in CreateCall /\ c \in Call /\ "creating" \in InFlight /\ c.org = owner[c.site]
  BY DEF CreateCall, Call, InFlight
<1> HIDE DEF c
<1>3. Begin(r, "creating", c, None) /\ pc[r] = "new" /\ UNCHANGED <<tenants, settings, log>>
  BY <1>1 DEF c, CheckCreate
<1>4. Sane(r)'
  BY <1>2, <1>3 DEF Begin, Sane, IInv, TypeOK, InFlight
<1> QED
  BY <1>2, <1>3, <1>4, BeginIInv DEF Document

LEMMA EnterDeleteIInv == ASSUME IInv, NEW r \in Request, EnterDelete(r) PROVE IInv'
<1>1. PICK s \in Site, hard \in BOOLEAN :
        Begin(r, "choosing", [op |-> "delete", org |-> owner[s], site |-> s, hard |-> hard], None)
  BY DEF EnterDelete
<1> DEFINE c == [op |-> "delete", org |-> owner[s], site |-> s, hard |-> hard]
<1>2. c \in DeleteCall /\ c \in Call /\ "choosing" \in InFlight /\ c.org = owner[c.site]
  BY DEF DeleteCall, Call, InFlight
<1> HIDE DEF c
<1>3. Begin(r, "choosing", c, None) /\ pc[r] = "new" /\ UNCHANGED <<tenants, settings, log>>
  BY <1>1 DEF c, EnterDelete
<1>4. Sane(r)'
  BY <1>2, <1>3 DEF Begin, Sane, IInv, TypeOK, InFlight
<1> QED
  BY <1>2, <1>3, <1>4, BeginIInv DEF Document

LEMMA EnterSettingsIInv == ASSUME IInv, NEW r \in Request, EnterSettings(r) PROVE IInv'
<1>1. PICK s \in Site, patch \in Patch :
        Begin(r, "reading", [op |-> "settings", org |-> owner[s], site |-> s,
                             patch |-> patch], settings[s])
  BY DEF EnterSettings
<1> DEFINE c == [op |-> "settings", org |-> owner[s], site |-> s, patch |-> patch]
<1>2. c \in SettingsCall /\ c \in Call /\ "reading" \in InFlight /\ c.org = owner[c.site]
  BY DEF SettingsCall, Call, InFlight
<1> HIDE DEF c
<1>3. Begin(r, "reading", c, settings[s]) /\ pc[r] = "new" /\ UNCHANGED <<tenants, settings, log>>
  BY <1>1 DEF c, EnterSettings
<1>4. Sane(r)'
  BY <1>2, <1>3 DEF Begin, Sane, IInv, TypeOK, InFlight
<1>5. settings[s] \in Document
  BY DEF IInv, TypeOK
<1> QED
  BY <1>2, <1>3, <1>4, <1>5, BeginIInv

LEMMA EnterModuleIInv == ASSUME IInv, NEW r \in Request, EnterModule(r) PROVE IInv'
<1>1. PICK s \in Site, f \in Feature :
        Begin(r, "using", [op |-> "use", org |-> owner[s], site |-> s, feature |-> f], None)
  BY DEF EnterModule
<1> DEFINE c == [op |-> "use", org |-> owner[s], site |-> s, feature |-> f]
<1>2. c \in UseCall /\ c \in Call /\ "using" \in InFlight /\ c.org = owner[c.site]
  BY DEF UseCall, Call, InFlight
<1> HIDE DEF c
<1>3. Begin(r, "using", c, None) /\ pc[r] = "new" /\ UNCHANGED <<tenants, settings, log>>
  BY <1>1 DEF c, EnterModule
<1>4. Sane(r)'
  BY <1>2, <1>3 DEF Begin, Sane, IInv, TypeOK, InFlight
<1> QED
  BY <1>2, <1>3, <1>4, BeginIInv DEF Document

-----------------------------------------------------------------------------
(* The requests that go on, and their answers.                               *)

LEMMA CommitOrganisationIInv == ASSUME IInv, NEW r \in Request, CommitOrganisation(r) PROVE IInv'
<1>1. call[r].org \in Organisation /\ call[r].login \in Organisation
  BY DEF CommitOrganisation, IInv, Sane, OrganisationCall
<1>2. /\ Finish(r, "ok") /\ "ok" \in Answered /\ pc[r] # "ok"
      /\ UNCHANGED <<site, siret, settings, log>>
      /\ login' \in [Organisation -> Organisation \cup {None}]
  BY <1>1 DEF CommitOrganisation, Answered, IInv, TypeOK
<1> QED
  BY <1>2, FinishIInv DEF IInv, TypeOK, HasRow

LEMMA CommitCreateIInv == ASSUME IInv, NEW r \in Request, CommitCreate(r) PROVE IInv'
<1>1. call[r].site \in Site /\ call[r].siret \in Site \cup {None}
  BY DEF CommitCreate, IInv, Sane, CreateCall
<1>2. /\ Finish(r, "ok") /\ "ok" \in Answered /\ pc[r] # "ok"
      /\ UNCHANGED <<login, settings, log>>
      /\ site' \in [Site -> {None, "open", "deleted", "gone"}]
      /\ siret' \in [Site -> Site \cup {None}]
      /\ \A s \in Site : HasRow(s) => HasRow(s)'
  BY <1>1 DEF CommitCreate, Answered, IInv, TypeOK, HasRow
<1> QED
  BY <1>2, FinishIInv DEF IInv, TypeOK

LEMMA RefusalIInv ==
    ASSUME IInv, NEW r \in Request, Conflict(r) \/ RefuseHardDelete(r) \/ Fail(r) PROVE IInv'
<1>1. PICK answer \in Answered : Finish(r, answer)
  BY DEF Conflict, RefuseHardDelete, Fail, Answered
<1>2. pc[r] # "ok" /\ UNCHANGED <<tenants, settings, log>>
  BY DEF Conflict, RefuseHardDelete, Fail, InFlight
<1> QED
  BY <1>1, <1>2, FinishIInv DEF IInv, TypeOK, HasRow, tenants

LEMMA LoadTargetIInv == ASSUME IInv, NEW r \in Request, LoadTarget(r) PROVE IInv'
<1>1. /\ pc[r] \in InFlight /\ "deleting" \in InFlight
      /\ pc' = [pc EXCEPT ![r] = "deleting"]
      /\ UNCHANGED <<tenants, settings, log, call, seen>>
  BY DEF LoadTarget, Goto, InFlight
<1>2. Sane(r)'
  BY <1>1 DEF LoadTarget, IInv, TypeOK, Sane, InFlight
<1> QED
  BY <1>1, <1>2, GotoIInv DEF IInv, TypeOK

LEMMA CommitSoftDeleteIInv == ASSUME IInv, NEW r \in Request, CommitSoftDelete(r) PROVE IInv'
<1>1. call[r].site \in Site
  BY DEF CommitSoftDelete, IInv, Sane, DeleteCall
<1>2. /\ Finish(r, "ok") /\ "ok" \in Answered /\ pc[r] # "ok"
      /\ UNCHANGED <<login, siret, settings, log>>
      /\ site' \in [Site -> {None, "open", "deleted", "gone"}]
      /\ \A s \in Site : HasRow(s) => HasRow(s)'
  BY <1>1 DEF CommitSoftDelete, Answered, IInv, TypeOK, HasRow
<1> QED
  BY <1>2, FinishIInv DEF IInv, TypeOK

LEMMA CommitHardDeleteIInv == ASSUME IInv, NEW r \in Request, CommitHardDelete(r) PROVE IInv'
<1>1. call[r].site \in Site
  BY DEF CommitHardDelete, IInv, Sane, DeleteCall
<1>2. /\ Finish(r, "ok") /\ "ok" \in Answered /\ pc[r] # "ok"
      /\ log' \subseteq log /\ UNCHANGED login
      /\ \A q \in log \ log' : call[q].feature \notin Held
  BY DEF CommitHardDelete, Answered, HeldBy
<1>3. /\ site' \in [Site -> {None, "open", "deleted", "gone"}]
      /\ siret' \in [Site -> Site \cup {None}]
      /\ settings' \in [Site -> Document]
  BY <1>1 DEF CommitHardDelete, IInv, TypeOK, Document
<1>4. ASSUME NEW s \in Site, HasRow(s), LogOf(s) \cap log' # {} PROVE HasRow(s)'
  <2>1. s # call[r].site
    BY <1>4 DEF CommitHardDelete
  <2> QED
    BY <1>4, <2>1 DEF CommitHardDelete, HasRow, IInv, TypeOK
<1> QED
  BY <1>2, <1>3, <1>4, FinishIInv DEF IInv, TypeOK

LEMMA LoadSettingsIInv == ASSUME IInv, NEW r \in Request, LoadSettings(r) PROVE IInv'
<1>1. /\ pc[r] \in InFlight /\ "merging" \in InFlight
      /\ pc' = [pc EXCEPT ![r] = "merging"]
      /\ UNCHANGED <<tenants, settings, log, call>>
  BY DEF LoadSettings, InFlight
<1>2. Sane(r)' /\ call[r].site \in Site
  BY <1>1 DEF LoadSettings, IInv, TypeOK, Sane, InFlight, SettingsCall
<1>3. seen' \in [Request -> Document]
  BY <1>2 DEF LoadSettings, IInv, TypeOK
<1> QED
  BY <1>1, <1>2, <1>3, GotoIInv

\* Merging gives a whole document, in which the payload prevails.
LEMMA MergedDocument ==
    ASSUME NEW document \in Document, NEW patch \in Patch
    PROVE  /\ Merged(document, patch) \in [Feature -> BOOLEAN]
           /\ \A f \in Feature :
                 Enabled(Merged(document, patch), f) =
                     IF patch[f] = None THEN Enabled(document, f) ELSE patch[f]
<1>1. FromRaw(document) \in [Feature -> BOOLEAN]
  BY DEF FromRaw, Document
<1>2. Merged(document, patch) \in [Feature -> BOOLEAN]
  BY <1>1 DEF Merged, Patch
<1>3. FromRaw(Merged(document, patch)) = Merged(document, patch)
  BY <1>2 DEF FromRaw
<1> QED
  BY <1>2, <1>3 DEF Merged, Enabled

LEMMA CommitSettingsIInv == ASSUME IInv, NEW r \in Request, CommitSettings(r) PROVE IInv'
<1>1. call[r].site \in Site /\ call[r].patch \in Patch
  BY DEF CommitSettings, IInv, Sane, SettingsCall
<1>2. Merged(seen[r], call[r].patch) \in Document
  BY <1>1, MergedDocument DEF IInv, TypeOK, Document
<1>3. settings' \in [Site -> Document]
  BY <1>1, <1>2 DEF CommitSettings, IInv, TypeOK
<1>4. /\ Finish(r, "ok") /\ "ok" \in Answered /\ pc[r] # "ok"
      /\ UNCHANGED <<tenants, log>>
  BY DEF CommitSettings, Answered
<1> QED
  BY <1>3, <1>4, FinishIInv DEF IInv, TypeOK, HasRow, tenants

LEMMA CommitRowIInv == ASSUME IInv, NEW r \in Request, CommitRow(r) PROVE IInv'
<1> USE DEF CommitRow, tenants
<1>1. TypeOK'
  BY DEF IInv, TypeOK, Answered
<1>2. RecordsOnFile'
  BY DEF IInv, RecordsOnFile, HasRow
<1>3. ASSUME NEW q \in Request PROVE Sane(q)'
  <2>1. CASE q = r
    BY <2>1 DEF IInv, TypeOK, Sane, InFlight
  <2>2. CASE q # r
    BY <2>2 DEF IInv, TypeOK, Sane
  <2> QED
    BY <2>1, <2>2
<1> QED
  BY <1>1, <1>2, <1>3 DEF IInv

-----------------------------------------------------------------------------

LEMMA NextIInv == ASSUME IInv, [Next /\ NoOverlap']_vars PROVE IInv'
<1>1. CASE UNCHANGED vars
  BY <1>1 DEF vars, tenants, IInv, TypeOK, RecordsOnFile, HasRow, Sane
<1>2. CASE Next
  BY <1>2, CheckOrganisationIInv, CommitOrganisationIInv, CheckCreateIInv, CommitCreateIInv,
     RefusalIInv, EnterDeleteIInv, LoadTargetIInv, CommitSoftDeleteIInv, CommitHardDeleteIInv,
     EnterSettingsIInv, LoadSettingsIInv, CommitSettingsIInv, EnterModuleIInv, CommitRowIInv
  DEF Next
<1> QED
  BY <1>1, <1>2

\* The inductive invariant holds in every behaviour.
THEOREM Invariance == Spec => []IInv
<1>1. Init => IInv
  BY InitIInv
<1>2. IInv /\ [Next /\ NoOverlap']_vars => IInv'
  BY NextIInv
<1> QED
  BY <1>1, <1>2, PTL DEF Spec

\* Every row and request keeps its type.
THEOREM TypeCorrect == Spec => []TypeOK
<1>1. IInv => TypeOK
  BY DEF IInv
<1> QED
  BY <1>1, Invariance, PTL

\* However requests interleave, an accepted record of a feature that holds its site
\* stays on file, and none outlives its site.
THEOREM RecordsOnFileCorrect == Spec => []RecordsOnFile
<1>1. IInv => RecordsOnFile
  BY DEF IInv
<1> QED
  BY <1>1, Invariance, PTL

-----------------------------------------------------------------------------
(* The registers of tenants: a site is created for an organisation on file,  *)
(* and no handler deletes an organisation.                                   *)

RegisteredInv ==
    /\ IInv
    /\ \A r \in Request : pc[r] = "creating" => login[call[r].org] # None
    /\ Registered

LEMMA LoginsRemain ==
    ASSUME IInv, Next, NEW o \in Organisation, login[o] # None
    PROVE  login'[o] # None
<1>1. ASSUME NEW r \in Request, CommitOrganisation(r) PROVE login'[o] # None
  BY <1>1 DEF CommitOrganisation, IInv, TypeOK
<1>2. ASSUME \A r \in Request : ~CommitOrganisation(r) PROVE UNCHANGED login
  BY <1>2 DEF Next, CheckOrganisation, CheckCreate, CommitCreate, Conflict,
              RefuseHardDelete, EnterDelete, LoadTarget, CommitSoftDelete, CommitHardDelete,
              EnterSettings, LoadSettings, CommitSettings, EnterModule, CommitRow, Fail,
              tenants
<1> QED
  BY <1>1, <1>2

\* create_organization_establishment has found its organisation on file.
LEMMA CreatorOnFile ==
    ASSUME RegisteredInv, Next, NEW r \in Request, pc'[r] = "creating"
    PROVE  login'[call'[r].org] # None
<1> USE DEF RegisteredInv
<1>1. CASE CheckCreate(r)
  <2>1. PICK s \in Site, n \in Site \cup {None} :
          /\ login[owner[s]] # None
          /\ Begin(r, "creating", [op |-> "create", org |-> owner[s], site |-> s, siret |-> n], None)
    BY <1>1 DEF CheckCreate
  <2>2. call'[r].org = owner[s]
    BY <2>1 DEF Begin, IInv, TypeOK
  <2> QED
    BY <2>1, <2>2, LoginsRemain
<1>2. CASE ~CheckCreate(r)
  <2>1. pc[r] = "creating" /\ call'[r] = call[r]
    <3>1. ASSUME NEW q \in Request, NEW next, NEW c, NEW loaded,
             Begin(q, next, c, loaded),
                 q = r => next # "creating"
          PROVE  pc[r] = "creating" /\ call'[r] = call[r]
      BY <3>1 DEF Begin, IInv, TypeOK
    <3>2. ASSUME NEW q \in Request, NEW answer \in Answered, Finish(q, answer)
          PROVE  pc[r] = "creating" /\ call'[r] = call[r]
      BY <3>2 DEF Finish, IInv, TypeOK, Answered
    <3>3. ASSUME NEW q \in Request,
                 CheckOrganisation(q) \/ EnterSettings(q) \/ EnterDelete(q) \/ EnterModule(q)
          PROVE  pc[r] = "creating" /\ call'[r] = call[r]
      <4>1. CASE CheckOrganisation(q)
        BY <3>1, <4>1 DEF CheckOrganisation
      <4>2. CASE EnterSettings(q)
        BY <3>1, <4>2 DEF EnterSettings
      <4>3. CASE EnterDelete(q)
        BY <3>1, <4>3 DEF EnterDelete
      <4>4. CASE EnterModule(q)
        BY <3>1, <4>4 DEF EnterModule
      <4> QED
        BY <3>3, <4>1, <4>2, <4>3, <4>4
    <3>4. ASSUME NEW q \in Request \ {r}, CheckCreate(q)
          PROVE  pc[r] = "creating" /\ call'[r] = call[r]
      BY <3>1, <3>4 DEF CheckCreate
    <3>5. ASSUME NEW q \in Request, LoadTarget(q) \/ LoadSettings(q) \/ CommitRow(q)
          PROVE  pc[r] = "creating" /\ call'[r] = call[r]
      BY <3>5 DEF LoadTarget, Goto, LoadSettings, CommitRow, IInv, TypeOK
    <3>6. ASSUME NEW q \in Request,
                 \/ CommitOrganisation(q) \/ CommitCreate(q) \/ CommitSoftDelete(q)
                 \/ CommitHardDelete(q) \/ RefuseHardDelete(q) \/ CommitSettings(q)
             \/ Conflict(q) \/ Fail(q)
          PROVE  pc[r] = "creating" /\ call'[r] = call[r]
      BY <3>2, <3>6 DEF CommitOrganisation, CommitCreate, CommitSoftDelete, CommitHardDelete,
                        RefuseHardDelete, CommitSettings, Conflict, Fail, Answered
    <3> QED
      BY <1>2, <3>3, <3>4, <3>5, <3>6 DEF Next
  <2>2. call[r].org \in Organisation
    BY <2>1 DEF IInv, Sane, CreateCall
  <2> QED
    BY <2>1, <2>2, LoginsRemain
<1> QED
  BY <1>1, <1>2

LEMMA RegisteredStep == ASSUME RegisteredInv, Next PROVE Registered'
<1> USE DEF RegisteredInv
<1>1. ASSUME UNCHANGED <<tenants, settings>> PROVE Registered'
  BY <1>1 DEF Registered, HasRow, tenants
<1>2. ASSUME NEW r \in Request, CommitOrganisation(r) PROVE Registered'
  <2>1. /\ login' = [login EXCEPT ![call[r].org] = call[r].login]
        /\ LoginFree(call[r].org, call[r].login) /\ UNCHANGED <<site, siret, settings>>
        /\ call[r].org \in Organisation /\ call[r].login \in Organisation
    BY <1>2 DEF CommitOrganisation, IInv, Sane, OrganisationCall
  <2>2. \A o, p \in Organisation : o # p /\ login'[o] # None => login'[o] # login'[p]
    BY <2>1 DEF LoginFree, Registered, IInv, TypeOK
  <2>3. \A o \in Organisation : login[o] # None => login'[o] # None
    BY <1>2, LoginsRemain DEF Next
  <2> QED
    BY <2>1, <2>2, <2>3 DEF Registered, HasRow
<1>3. ASSUME NEW r \in Request, CommitCreate(r) PROVE Registered'
  <2>1. /\ site' = [site EXCEPT ![call[r].site] = "open"]
        /\ siret' = [siret EXCEPT ![call[r].site] = call[r].siret]
        /\ SiretFree(call[r].site, call[r].siret) /\ UNCHANGED <<login, settings>>
        /\ call[r].site \in Site /\ login[owner[call[r].site]] # None
    BY <1>3 DEF CommitCreate, IInv, Sane, CreateCall, InFlight
  <2>2. \A s, t \in Site : s # t /\ siret'[s] # None => siret'[s] # siret'[t]
    BY <2>1 DEF SiretFree, Registered, IInv, TypeOK
  <2>3. ASSUME NEW s \in Site
        PROVE  IF site'[s] \in {"open", "deleted"} THEN login'[owner[s]] # None
               ELSE siret'[s] = None /\ settings'[s] = None
    BY <2>1 DEF Registered, HasRow, IInv, TypeOK
  <2> QED
    BY <2>1, <2>2, <2>3 DEF Registered, HasRow
<1>4. ASSUME NEW r \in Request, CommitSoftDelete(r) PROVE Registered'
  <2>1. /\ site' = [site EXCEPT ![call[r].site] = "deleted"] /\ HasRow(call[r].site)
        /\ UNCHANGED <<login, siret, settings>>
    BY <1>4 DEF CommitSoftDelete
  <2>2. \A s \in Site : HasRow(s)' <=> HasRow(s)
    BY <2>1 DEF HasRow, IInv, TypeOK
  <2> QED
    BY <2>1, <2>2 DEF Registered
<1>5. ASSUME NEW r \in Request, CommitHardDelete(r) PROVE Registered'
  <2>1. /\ site' = [site EXCEPT ![call[r].site] = "gone"]
        /\ siret' = [siret EXCEPT ![call[r].site] = None]
        /\ settings' = [settings EXCEPT ![call[r].site] = None]
        /\ UNCHANGED login
    BY <1>5 DEF CommitHardDelete
  <2>2. \A s, t \in Site : s # t /\ siret'[s] # None => siret'[s] # siret'[t]
    BY <2>1 DEF Registered, IInv, TypeOK
  <2>3. ASSUME NEW s \in Site
        PROVE  IF site'[s] \in {"open", "deleted"} THEN login'[owner[s]] # None
               ELSE siret'[s] = None /\ settings'[s] = None
    BY <2>1 DEF Registered, HasRow, IInv, TypeOK
  <2> QED
    BY <2>1, <2>2, <2>3 DEF Registered, HasRow
<1>6. ASSUME NEW r \in Request, CommitSettings(r) PROVE Registered'
  <2>1. HasRow(call[r].site) /\ UNCHANGED tenants
        /\ \A s \in Site : s # call[r].site => settings'[s] = settings[s]
    BY <1>6 DEF CommitSettings, IInv, TypeOK
  <2> QED
    BY <2>1 DEF Registered, HasRow, tenants
<1>7. ASSUME NEW r \in Request,
             \/ CheckOrganisation(r) \/ CheckCreate(r) \/ Conflict(r) \/ EnterDelete(r)
             \/ RefuseHardDelete(r) \/ LoadTarget(r) \/ EnterSettings(r) \/ LoadSettings(r) \/ EnterModule(r)
             \/ CommitRow(r) \/ Fail(r)
      PROVE  UNCHANGED <<tenants, settings>>
  BY <1>7 DEF CheckOrganisation, CheckCreate, Conflict, RefuseHardDelete, EnterDelete,
              LoadTarget, EnterSettings, LoadSettings, EnterModule, CommitRow, Fail
<1> QED
  BY <1>1, <1>2, <1>3, <1>4, <1>5, <1>6, <1>7 DEF Next

LEMMA RegisteredInvariance == Spec => []RegisteredInv
<1>1. Init => RegisteredInv
  <2> SUFFICES ASSUME Init PROVE Registered
    BY InitIInv DEF RegisteredInv, Init
  <2>1. \A o, p \in Organisation : o # p /\ login[o] # None => login[o] # login[p]
    BY DEF Init
  <2>2. \A s, t \in Site : s # t /\ siret[s] # None => siret[s] # siret[t]
    BY DEF Init
  <2>3. ASSUME NEW s \in Site
        PROVE  IF HasRow(s) THEN login[owner[s]] # None
               ELSE siret[s] = None /\ settings[s] = None
    <3>1. CASE s \in Seed
      BY <3>1 DEF Init, HasRow
    <3>2. CASE s \notin Seed
      BY <3>2 DEF Init, HasRow
    <3> QED
      BY <3>1, <3>2
  <2> QED
    BY <2>1, <2>2, <2>3 DEF Registered
<1>2. RegisteredInv /\ [Next /\ NoOverlap']_vars => RegisteredInv'
  <2> SUFFICES ASSUME RegisteredInv, [Next /\ NoOverlap']_vars PROVE RegisteredInv'
    OBVIOUS
  <2>1. CASE Next
    BY <2>1, NextIInv, CreatorOnFile, RegisteredStep DEF RegisteredInv
  <2>2. CASE UNCHANGED vars
    BY <2>2, NextIInv DEF RegisteredInv, Registered, HasRow, vars, tenants
  <2> QED
    BY <2>1, <2>2
<1> QED
  BY <1>1, <1>2, PTL DEF Spec

\* However requests interleave, logins and SIRETs are unique, a site on file has
\* its owner, and one that is not on file leaves nothing behind.
THEOREM RegisteredCorrect == Spec => []Registered
<1>1. RegisteredInv => Registered
  BY DEF RegisteredInv
<1> QED
  BY <1>1, RegisteredInvariance, PTL

-----------------------------------------------------------------------------
(* What one step does to a site that was deleted, and to those that use it.  *)

\* A deleted site is there until it is hard-deleted, and a gone one stays gone.
LEMMA SiteStep ==
    ASSUME IInv, Next, NEW s \in Site, site[s] \in {"deleted", "gone"}
    PROVE  site'[s] \in {site[s], "gone"}
<1>1. ASSUME NEW r \in Request, CommitCreate(r) PROVE site'[s] = site[s]
  BY <1>1 DEF CommitCreate, IInv, TypeOK
<1>2. ASSUME NEW r \in Request, CommitSoftDelete(r) PROVE site'[s] = site[s]
  BY <1>2 DEF CommitSoftDelete, HasRow, IInv, TypeOK
<1>3. ASSUME NEW r \in Request, CommitHardDelete(r) PROVE site'[s] \in {site[s], "gone"}
  BY <1>3 DEF CommitHardDelete, IInv, TypeOK
<1>4. ASSUME \A r \in Request : ~CommitCreate(r) /\ ~CommitSoftDelete(r) /\ ~CommitHardDelete(r)
      PROVE  UNCHANGED site
  BY <1>4 DEF Next, CheckOrganisation, CommitOrganisation, CheckCreate, Conflict,
              RefuseHardDelete, EnterDelete, LoadTarget, EnterSettings, LoadSettings,
              CommitSettings, EnterModule, CommitRow, Fail, tenants
<1> QED
  BY <1>1, <1>2, <1>3, <1>4

\* A step moves one request, and it is by these steps that one gets where it
\* relies on what it found.
LEMMA OnlyTheMover ==
    ASSUME IInv, Next, NEW r \in Request,
           ~EnterDelete(r), ~LoadTarget(r), ~LoadSettings(r), ~EnterModule(r),
           ~EnterSettings(r), pc'[r] \in {"choosing", "deleting", "reading", "merging", "using"}
    PROVE  pc'[r] = pc[r] /\ call'[r] = call[r] /\ seen'[r] = seen[r]
<1>1. ASSUME NEW q \in Request, NEW next, NEW c, NEW loaded,
             Begin(q, next, c, loaded),
             q = r => next \notin {"choosing", "deleting", "reading", "merging", "using"}
      PROVE  pc'[r] = pc[r] /\ call'[r] = call[r] /\ seen'[r] = seen[r]
  BY <1>1 DEF Begin, IInv, TypeOK
<1>2. ASSUME NEW q \in Request, NEW answer \in Answered, Finish(q, answer)
      PROVE  pc'[r] = pc[r] /\ call'[r] = call[r] /\ seen'[r] = seen[r]
  BY <1>2 DEF Finish, IInv, TypeOK, Answered
<1>3. ASSUME NEW q \in Request, CheckOrganisation(q) \/ CheckCreate(q)
      PROVE  pc'[r] = pc[r] /\ call'[r] = call[r] /\ seen'[r] = seen[r]
  <2>1. CASE CheckOrganisation(q)
    BY <1>1, <2>1 DEF CheckOrganisation
  <2>2. CASE CheckCreate(q)
    BY <1>1, <2>2 DEF CheckCreate
  <2> QED
    BY <1>3, <2>1, <2>2
<1>4. ASSUME NEW q \in Request \ {r}, EnterDelete(q) \/ EnterSettings(q) \/ EnterModule(q)
      PROVE  pc'[r] = pc[r] /\ call'[r] = call[r] /\ seen'[r] = seen[r]
  BY <1>1, <1>4 DEF EnterDelete, EnterSettings, EnterModule
<1>5. ASSUME NEW q \in Request \ {r}, LoadTarget(q) \/ LoadSettings(q)
      PROVE  pc'[r] = pc[r] /\ call'[r] = call[r] /\ seen'[r] = seen[r]
  BY <1>5 DEF LoadTarget, Goto, LoadSettings, IInv, TypeOK
<1>6. ASSUME NEW q \in Request,
             \/ CommitOrganisation(q) \/ CommitCreate(q) \/ CommitSoftDelete(q)
             \/ CommitHardDelete(q) \/ RefuseHardDelete(q) \/ CommitSettings(q)
             \/ Conflict(q) \/ Fail(q)
      PROVE  pc'[r] = pc[r] /\ call'[r] = call[r] /\ seen'[r] = seen[r]
  BY <1>2, <1>6 DEF CommitOrganisation, CommitCreate, CommitSoftDelete, CommitHardDelete,
                    RefuseHardDelete, CommitSettings, Conflict, Fail, Answered
<1>7. ASSUME NEW q \in Request, CommitRow(q)
      PROVE  pc'[r] = pc[r] /\ call'[r] = call[r] /\ seen'[r] = seen[r]
  BY <1>7 DEF CommitRow, IInv, TypeOK
<1> QED
  BY <1>3, <1>4, <1>5, <1>6, <1>7 DEF Next

\* A request that has been answered keeps what it asked for.
LEMMA AnsweredStays ==
    ASSUME IInv, Next, NEW r \in Request, pc[r] = "ok"
    PROVE  call'[r] = call[r]
<1>1. ASSUME NEW q \in Request, pc[q] # "ok", NEW next, NEW c, NEW loaded,
             Begin(q, next, c, loaded)
      PROVE  call'[r] = call[r]
  BY <1>1 DEF Begin, IInv, TypeOK
<1>2. ASSUME NEW q \in Request, pc[q] # "ok", NEW answer, Finish(q, answer)
      PROVE  call'[r] = call[r]
  BY <1>2 DEF Finish, IInv, TypeOK
<1>3. ASSUME NEW q \in Request,
             \/ CheckOrganisation(q) \/ CheckCreate(q) \/ EnterDelete(q)
             \/ EnterSettings(q) \/ EnterModule(q)
      PROVE  call'[r] = call[r]
  BY <1>1, <1>3 DEF CheckOrganisation, CheckCreate, EnterDelete, EnterSettings, EnterModule
<1>4. ASSUME NEW q \in Request,
             \/ CommitOrganisation(q) \/ CommitCreate(q) \/ CommitSoftDelete(q)
             \/ CommitHardDelete(q) \/ RefuseHardDelete(q) \/ CommitSettings(q)
             \/ Conflict(q) \/ Fail(q)
      PROVE  call'[r] = call[r]
  BY <1>2, <1>4 DEF CommitOrganisation, CommitCreate, CommitSoftDelete, CommitHardDelete,
                    RefuseHardDelete, CommitSettings, Conflict, Fail, InFlight
<1>5. ASSUME NEW q \in Request, LoadTarget(q) \/ LoadSettings(q) \/ CommitRow(q)
      PROVE  UNCHANGED call
  BY <1>5 DEF LoadTarget, Goto, LoadSettings, CommitRow
<1> QED
  BY <1>3, <1>4, <1>5 DEF Next

\* Whoever passes the gate in a step finds the site open.
LEMMA UsingStep ==
    ASSUME IInv, Next, NEW q \in Request, pc'[q] = "using"
    PROVE  \/ pc[q] = "using" /\ call'[q] = call[q]
           \/ site[call'[q].site] = "open"
<1>1. CASE EnterModule(q)
  <2>1. PICK s \in Site, f \in Feature :
          /\ site[s] = "open"
          /\ Begin(q, "using", [op |-> "use", org |-> owner[s], site |-> s, feature |-> f], None)
    BY <1>1 DEF EnterModule
  <2> QED
    BY <2>1 DEF Begin, IInv, TypeOK
<1>2. CASE EnterDelete(q)
  BY <1>2 DEF EnterDelete, Begin, IInv, TypeOK
<1>3. CASE LoadTarget(q) \/ LoadSettings(q) \/ EnterSettings(q)
  BY <1>3 DEF LoadTarget, Goto, LoadSettings, EnterSettings, Begin, IInv, TypeOK
<1>4. CASE /\ ~EnterModule(q) /\ ~EnterDelete(q) /\ ~LoadTarget(q) /\ ~LoadSettings(q)
           /\ ~EnterSettings(q)
  BY <1>4, OnlyTheMover
<1> QED
  BY <1>1, <1>2, <1>3, <1>4

\* Whoever writes a row has passed the gate, and a row that is there stays whose it is.
LEMMA RowStep ==
    ASSUME IInv, Next, NEW q \in log'
    PROVE  /\ q \in Request /\ call'[q] = call[q]
           /\ q \in log \/ (pc[q] = "using" /\ HasRow(call[q].site))
<1>1. ASSUME NEW r \in Request, CommitRow(r)
      PROVE  /\ q \in Request /\ call'[q] = call[q]
             /\ q \in log \/ (pc[q] = "using" /\ HasRow(call[q].site))
  BY <1>1 DEF CommitRow, IInv, TypeOK
<1>2. ASSUME \A r \in Request : ~CommitRow(r)
      PROVE  q \in log
  BY <1>2 DEF Next, CheckOrganisation, CommitOrganisation, CheckCreate, CommitCreate,
              Conflict, RefuseHardDelete, EnterDelete, LoadTarget, CommitSoftDelete,
              CommitHardDelete, EnterSettings, LoadSettings, CommitSettings, EnterModule,
              Fail
<1>3. ASSUME q \in log PROVE q \in Request /\ call'[q] = call[q]
  <2>1. q \in Request /\ pc[q] = "ok"
    BY <1>3 DEF IInv, TypeOK, Sane
  <2> QED
    BY <2>1, AnsweredStays
<1> QED
  BY <1>1, <1>2, <1>3

\* Deleting a site settles it: nobody passes its gate any more.
THEOREM DeletionSettlesCorrect == Spec => DeletionSettles
<1>1. ASSUME IInv, Next, NEW s \in Site, site[s] \in {"deleted", "gone"}
      PROVE  /\ site'[s] \in {site[s], "gone"}
             /\ Using(s)' \subseteq Using(s)
             /\ LogOf(s)' \subseteq IF site[s] = "gone" THEN {} ELSE LogOf(s) \cup Using(s)
  <2>1. site'[s] \in {site[s], "gone"}
    BY <1>1, SiteStep
  <2>2. Using(s)' \subseteq Using(s)
    BY <1>1, UsingStep DEF Using
  <2>3. ASSUME NEW q \in LogOf(s)'
        PROVE  site[s] # "gone" /\ q \in LogOf(s) \cup Using(s)
    <3>1. q \in log' /\ call'[q].site = s
      BY <2>3 DEF LogOf
    <3>2. /\ q \in Request /\ call[q].site = s
          /\ q \in log \/ (pc[q] = "using" /\ HasRow(s))
      BY <1>1, <3>1, RowStep
    <3>3. HasRow(s)
      BY <1>1, <3>2 DEF IInv, RecordsOnFile
    <3> QED
      BY <3>2, <3>3 DEF HasRow, LogOf, Using
  <2> QED
    BY <2>1, <2>2, <2>3
<1>2. IInv /\ [Next /\ NoOverlap']_vars =>
        [\A s \in Site : site[s] \in {"deleted", "gone"} =>
          /\ site'[s] \in {site[s], "gone"}
          /\ Using(s)' \subseteq Using(s)
          /\ LogOf(s)' \subseteq IF site[s] = "gone" THEN {} ELSE LogOf(s) \cup Using(s)]_vars
  BY <1>1
<1> QED
  BY <1>2, Invariance, PTL DEF Spec, DeletionSettles

-----------------------------------------------------------------------------
(* An organisation whose requests do not overlap: what a request found when  *)
(* it entered still holds when it commits.                                   *)

ExclusiveInv ==
    \A r \in Request : call[r].org \in Exclusive =>
        /\ pc[r] \in {"choosing", "deleting"} =>
              \E here \in Site : /\ here # call[r].site
                                 /\ owner[here] = call[r].org
                                 /\ site[here] = "open"
        /\ pc[r] \in {"reading", "merging"} => seen[r] = settings[call[r].site]
        /\ pc[r] = "using" => /\ site[call[r].site] = "open"
                              /\ Enabled(settings[call[r].site], call[r].feature)

LEMMA InitExclusive == Init => ExclusiveInv /\ NoOverlap
BY DEF Init, ExclusiveInv, NoOverlap, InFlight

\* Whoever changes a site or its settings has been in flight for its owner.
LEMMA WriterOfSite ==
    ASSUME IInv, Next, NEW s \in Site, site'[s] # site[s] \/ settings'[s] # settings[s]
    PROVE  \E q \in Request : pc[q] \in InFlight /\ pc'[q] # pc[q] /\ call[q].org = owner[s]
<1>1. ASSUME NEW q \in Request,
             CommitCreate(q) \/ CommitSoftDelete(q) \/ CommitHardDelete(q) \/ CommitSettings(q)
      PROVE  pc[q] \in InFlight /\ pc'[q] # pc[q] /\ call[q].org = owner[s]
  <2>1. pc[q] \in InFlight \ {"founding"} /\ pc'[q] = "ok"
    BY <1>1 DEF CommitCreate, CommitSoftDelete, CommitHardDelete, CommitSettings, Finish,
                InFlight, IInv, TypeOK
  <2>2. call[q].site = s
    BY <1>1 DEF CommitCreate, CommitSoftDelete, CommitHardDelete, CommitSettings, tenants,
                IInv, TypeOK
  <2> QED
    BY <2>1, <2>2 DEF IInv, Sane, InFlight
<1>2. ASSUME \A q \in Request : ~CommitCreate(q) /\ ~CommitSoftDelete(q)
                                /\ ~CommitHardDelete(q) /\ ~CommitSettings(q)
      PROVE  UNCHANGED <<site, settings>>
  BY <1>2 DEF Next, CheckOrganisation, CommitOrganisation, CheckCreate, Conflict,
              RefuseHardDelete, EnterDelete, LoadTarget, EnterSettings, LoadSettings,
              EnterModule, CommitRow, Fail, tenants
<1> QED
  BY <1>1, <1>2

\* A request that stays where it is keeps what it relies on.
LEMMA WaitingRequest ==
    ASSUME IInv, NoOverlap, Next, NEW r \in Request, pc[r] \in InFlight, pc'[r] = pc[r],
           call[r].org \in Exclusive, NEW s \in Site, owner[s] = call[r].org
    PROVE  site'[s] = site[s] /\ settings'[s] = settings[s]
<1> SUFFICES ASSUME site'[s] # site[s] \/ settings'[s] # settings[s] PROVE FALSE
  OBVIOUS
<1>1. PICK q \in Request : pc[q] \in InFlight /\ pc'[q] # pc[q] /\ call[q].org = owner[s]
  BY WriterOfSite
<1> QED
  BY <1>1 DEF NoOverlap

LEMMA NextExclusive ==
    ASSUME IInv, ExclusiveInv, NoOverlap, [Next /\ NoOverlap']_vars
    PROVE  ExclusiveInv' /\ NoOverlap'
<1>1. CASE UNCHANGED vars
  BY <1>1 DEF vars, tenants, ExclusiveInv, NoOverlap, Enabled
<1>2. CASE Next /\ NoOverlap'
  <2> SUFFICES ASSUME NEW r \in Request, call'[r].org \in Exclusive
               PROVE  /\ pc'[r] \in {"choosing", "deleting"} =>
                            \E here \in Site : /\ here # call'[r].site
                                               /\ owner[here] = call'[r].org
                                               /\ site'[here] = "open"
                      /\ pc'[r] \in {"reading", "merging"} =>
                            seen'[r] = settings'[call'[r].site]
                      /\ pc'[r] = "using" =>
                            /\ site'[call'[r].site] = "open"
                            /\ Enabled(settings'[call'[r].site], call'[r].feature)
    BY <1>2 DEF ExclusiveInv, Enabled
  <2>1. CASE EnterDelete(r)
    BY <2>1 DEF EnterDelete, Begin, tenants, IInv, TypeOK
  <2>2. CASE LoadTarget(r)
    BY <2>2 DEF LoadTarget, Goto, tenants, IInv, TypeOK, ExclusiveInv
  <2>3. CASE LoadSettings(r)
    <3>1. /\ pc[r] = "reading" /\ pc'[r] = "merging"
          /\ call'[r] = call[r] /\ UNCHANGED <<site, settings>>
          /\ seen'[r] \in {seen[r], settings[call[r].site]}
      BY <2>3 DEF LoadSettings, tenants, IInv, TypeOK
    <3> QED
      BY <3>1 DEF ExclusiveInv
  <2>4. CASE EnterModule(r)
    BY <2>4 DEF EnterModule, Begin, tenants, IInv, TypeOK
  <2>5. CASE EnterSettings(r)
    BY <2>5 DEF EnterSettings, Begin, tenants, IInv, TypeOK
  <2>6. CASE pc'[r] \notin {"choosing", "deleting", "reading", "merging", "using"}
    BY <2>6
  <2>7. CASE /\ ~EnterDelete(r) /\ ~LoadTarget(r) /\ ~LoadSettings(r) /\ ~EnterModule(r)
             /\ ~EnterSettings(r)
             /\ pc'[r] \in {"choosing", "deleting", "reading", "merging", "using"}
    <3>1. pc'[r] = pc[r] /\ call'[r] = call[r] /\ seen'[r] = seen[r]
      BY <1>2, <2>7, OnlyTheMover
    <3>2. pc[r] \in InFlight \ {"founding"} /\ call[r].org = owner[call[r].site]
      BY <2>7, <3>1 DEF InFlight, IInv, Sane
    <3>3. call[r].site \in Site
      BY <2>7, <3>1 DEF IInv, Sane, DeleteCall, SettingsCall, UseCall
    <3>4. \A s \in Site : owner[s] = call[r].org =>
              site'[s] = site[s] /\ settings'[s] = settings[s]
      BY <1>2, <3>1, <3>2, WaitingRequest
    <3> QED
      BY <3>1, <3>2, <3>3, <3>4 DEF ExclusiveInv
  <2> QED
    BY <2>1, <2>2, <2>3, <2>4, <2>6, <2>7, <2>5
<1> QED
  BY <1>1, <1>2

LEMMA ExclusiveInvariance == Spec => [](ExclusiveInv /\ NoOverlap)
<1>1. Init => ExclusiveInv /\ NoOverlap
  BY InitExclusive
<1>2. IInv /\ ExclusiveInv /\ NoOverlap /\ [Next /\ NoOverlap']_vars => ExclusiveInv' /\ NoOverlap'
  BY NextExclusive
<1> QED
  BY <1>1, <1>2, Invariance, PTL DEF Spec

-----------------------------------------------------------------------------

\* An organisation whose requests do not overlap never deletes its last site.
THEOREM KeepsASiteCorrect == Spec => KeepsASite
<1> DEFINE Kept == \A o \in Exclusive :
              (\E s \in SitesOf(o) : site[s] = "open") => \E s \in SitesOf(o) : site'[s] = "open"
<1>1. ASSUME IInv, ExclusiveInv, Next PROVE Kept
  <2> SUFFICES ASSUME NEW o \in Exclusive, NEW s \in SitesOf(o), site[s] = "open"
               PROVE  \E t \in SitesOf(o) : site'[t] = "open"
    OBVIOUS
  <2> USE <1>1
  <2>1. s \in Site /\ owner[s] = o
    BY DEF SitesOf
  <2>2. ASSUME NEW r \in Request, CommitSoftDelete(r) \/ CommitHardDelete(r)
        PROVE  \E t \in SitesOf(o) : site'[t] = "open"
    <3>1. /\ pc[r] = "deleting" /\ call[r].org = owner[call[r].site]
          /\ \A t \in Site \ {call[r].site} : site'[t] = site[t]
      BY <2>2 DEF CommitSoftDelete, CommitHardDelete, IInv, TypeOK, Sane, InFlight
    <3>2. CASE call[r].site # s
      BY <2>1, <3>1, <3>2 DEF SitesOf
    <3>3. CASE call[r].site = s
      <4>1. PICK here \in Site : here # s /\ owner[here] = o /\ site[here] = "open"
        BY <2>1, <3>1, <3>3 DEF ExclusiveInv
      <4> QED
        BY <3>1, <3>3, <4>1 DEF SitesOf
    <3> QED
      BY <3>2, <3>3
  <2>3. ASSUME NEW r \in Request, CommitCreate(r) PROVE site'[s] = "open"
    BY <2>1, <2>3 DEF CommitCreate, IInv, TypeOK
  <2>4. ASSUME \A r \in Request : ~CommitSoftDelete(r) /\ ~CommitHardDelete(r) /\ ~CommitCreate(r)
        PROVE  UNCHANGED site
    BY <2>4 DEF Next, CheckOrganisation, CommitOrganisation, CheckCreate, Conflict,
                RefuseHardDelete, EnterDelete, LoadTarget, EnterSettings, LoadSettings,
                CommitSettings, EnterModule, CommitRow, Fail, tenants
  <2> QED
    BY <2>1, <2>2, <2>3, <2>4
<1>2. IInv /\ ExclusiveInv /\ [Next /\ NoOverlap']_vars => [Kept]_vars
  BY <1>1
<1> HIDE DEF Kept
<1>3. Spec => [][Kept]_vars
  BY <1>2, Invariance, ExclusiveInvariance, PTL DEF Spec
<1> QED
  BY <1>3 DEF KeepsASite, Kept

\* Features change only as a PATCH asks, and as all of it asks; the others get the
\* values that it loaded, the present ones where requests do not overlap.
THEOREM SettingsMergedCorrect == Spec => SettingsMerged
<1> DEFINE AsAsked == \A s \in Site :
              settings'[s] # settings[s] /\ HasRow(s)' =>
                  \E r \in Request :
                      /\ pc[r] = "merging" /\ pc'[r] = "ok" /\ call[r].site = s
                      /\ owner[s] \in Exclusive => seen[r] = settings[s]
                      /\ \A f \in Feature :
                            Enabled(settings'[s], f) =
                                IF call[r].patch[f] = None THEN Enabled(seen[r], f)
                                ELSE call[r].patch[f]
<1>1. ASSUME IInv, ExclusiveInv, Next PROVE AsAsked
  <2> SUFFICES ASSUME NEW s \in Site, settings'[s] # settings[s], HasRow(s)'
               PROVE  \E r \in Request :
                          /\ pc[r] = "merging" /\ pc'[r] = "ok" /\ call[r].site = s
                          /\ owner[s] \in Exclusive => seen[r] = settings[s]
                          /\ \A f \in Feature :
                                Enabled(settings'[s], f) =
                                    IF call[r].patch[f] = None THEN Enabled(seen[r], f)
                                    ELSE call[r].patch[f]
    OBVIOUS
  <2> USE <1>1
  <2>1. ASSUME NEW r \in Request, CommitHardDelete(r) PROVE FALSE
    <3>1. call[r].site = s
      BY <2>1 DEF CommitHardDelete, IInv, TypeOK
    <3> QED
      BY <2>1, <3>1 DEF CommitHardDelete, HasRow, IInv, TypeOK
  <2>2. ASSUME NEW r \in Request, CommitSettings(r)
        PROVE  /\ pc[r] = "merging" /\ pc'[r] = "ok" /\ call[r].site = s
               /\ owner[s] \in Exclusive => seen[r] = settings[s]
               /\ \A f \in Feature :
                     Enabled(settings'[s], f) =
                         IF call[r].patch[f] = None THEN Enabled(seen[r], f)
                         ELSE call[r].patch[f]
    <3>1. call[r].site = s /\ settings'[s] = Merged(seen[r], call[r].patch)
      BY <2>2 DEF CommitSettings, IInv, TypeOK
    <3>2. /\ pc[r] = "merging" /\ pc'[r] = "ok"
          /\ call[r].org = owner[s] /\ call[r].patch \in Patch
      BY <2>2, <3>1 DEF CommitSettings, Finish, IInv, TypeOK, Sane, InFlight, SettingsCall
    <3>3. (owner[s] \in Exclusive => seen[r] = settings[s]) /\ seen[r] \in Document
      BY <3>1, <3>2 DEF ExclusiveInv, IInv, TypeOK
    <3> QED
      BY <3>1, <3>2, <3>3, MergedDocument
  <2>3. ASSUME \A r \in Request : ~CommitHardDelete(r) /\ ~CommitSettings(r)
        PROVE  UNCHANGED settings
    BY <2>3 DEF Next, CheckOrganisation, CommitOrganisation, CheckCreate, CommitCreate,
                Conflict, RefuseHardDelete, EnterDelete, LoadTarget, CommitSoftDelete,
                EnterSettings, LoadSettings, EnterModule, CommitRow, Fail, tenants
  <2> QED
    BY <2>1, <2>2, <2>3
<1>2. IInv /\ ExclusiveInv /\ [Next /\ NoOverlap']_vars => [AsAsked]_vars
  BY <1>1
<1> HIDE DEF AsAsked
<1>3. Spec => [][AsAsked]_vars
  BY <1>2, Invariance, ExclusiveInvariance, PTL DEF Spec
<1> QED
  BY <1>3 DEF SettingsMerged, AsAsked

\* When an organisation's requests do not overlap, a module writes for a site only
\* while the site is open and the feature is on.
THEOREM GateInForceCorrect == Spec => GateInForce
<1> DEFINE Open == \A r \in log' \ log : call[r].org \in Exclusive =>
              /\ site[call[r].site] = "open"
              /\ Enabled(settings[call[r].site], call[r].feature)
<1>1. ASSUME IInv, ExclusiveInv, Next PROVE Open
  <2> USE <1>1
  <2>1. ASSUME NEW r \in Request, CommitRow(r) PROVE Open
    BY <2>1 DEF CommitRow, ExclusiveInv
  <2>2. ASSUME \A r \in Request : ~CommitRow(r) PROVE log' \subseteq log
    BY <2>2 DEF Next, CheckOrganisation, CommitOrganisation, CheckCreate, CommitCreate,
                Conflict, RefuseHardDelete, EnterDelete, LoadTarget, CommitSoftDelete,
                CommitHardDelete, EnterSettings, LoadSettings, CommitSettings, EnterModule,
                Fail
  <2> QED
    BY <2>1, <2>2
<1>2. IInv /\ ExclusiveInv /\ [Next /\ NoOverlap']_vars => [Open]_vars
  BY <1>1
<1> HIDE DEF Open
<1>3. Spec => [][Open]_vars
  BY <1>2, Invariance, ExclusiveInvariance, PTL DEF Spec
<1> QED
  BY <1>3 DEF GateInForce, Open

=============================================================================
