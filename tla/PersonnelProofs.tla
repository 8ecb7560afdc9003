--------------------------- MODULE PersonnelProofs ---------------------------
(***************************************************************************)
(* Proofs about Personnel, for any users, sites, roles and requests.       *)
(***************************************************************************)
EXTENDS Personnel, TLAPS

USE NoneAssumption

(* The inductive invariant: what a request in flight asked for and loaded,   *)
(* who signs the records, and that an assignment has its user.               *)

\* r loaded assignments of its user on sites of the organisation o.
LoadedFrom(r, o) ==
    /\ seen[r] \in [Key -> Flag]
    /\ \A k \in Keys(seen[r]) : k[1] = call[r].user /\ organisation[k[2]] = o

\* r loaded the assignment that it asked for, or none.
LoadedOne(r) ==
    /\ seen[r] \in [Key -> Flag]
    /\ Keys(seen[r]) \subseteq {<<call[r].user, call[r].site, call[r].role>>}

Sane(r) ==
    /\ pc[r] = "creating" => call[r] \in CreateCall
    /\ pc[r] = "updating" => /\ call[r] \in UpdateCall
                             /\ call[r].sites \subseteq OrgSites(call[r].org)
                             /\ LoadedFrom(r, call[r].org)
    /\ pc[r] = "deleting" => /\ call[r] \in DeleteCall
                             /\ account[call[r].user] # None
                             /\ LoadedFrom(r, call[r].org)
    /\ pc[r] = "affecting" => /\ call[r] \in AffectCall
                              /\ call[r].user \notin Exclusive
                              /\ LoadedOne(r)
    /\ pc[r] = "login" => call[r] \in LoginCall
    /\ pc[r] = "signing" => call[r] \in SignCall
    /\ r \in records => pc[r] = "ok" /\ call[r] \in SignCall

AssignedAreUsers == \A k \in Key : affectation[k] # None => HasRow(k[1])

IInv ==
    /\ TypeOK
    /\ AssignedAreUsers
    /\ \A r \in Request : Sane(r)

LEMMA KeyParts ==
    ASSUME NEW k \in Key
    PROVE  k[1] \in User /\ k[2] \in Site /\ k[3] \in Role /\ k = <<k[1], k[2], k[3]>>
BY DEF Key

LEMMA InitIInv == Init => IInv
<1> SUFFICES ASSUME Init PROVE IInv
  OBVIOUS
<1>1. Seed \subseteq Key
  BY SeedAssumption
<1>2. TypeOK
  <2>1. account \in [User -> {None, "active", "deleted", "gone"}] /\ email \in [User -> User \cup {None}]
    BY DEF Init
  <2>2. affectation \in [Key -> Flag]
    BY DEF Init, Flag
  <2>3. tokens \subseteq User \X Site
    BY <1>1, KeyParts DEF Init
  <2> QED
    BY <2>1, <2>2, <2>3 DEF Init, TypeOK
<1>3. AssignedAreUsers
  BY <1>1, KeyParts DEF Init, AssignedAreUsers, HasRow
<1>4. \A r \in Request : Sane(r)
  BY DEF Init, Sane
<1> QED
  BY <1>2, <1>3, <1>4 DEF IInv

\* A request that does not move stays sane.
LEMMA OthersSane ==
    ASSUME IInv, NEW q \in Request,
           pc'[q] = pc[q], call'[q] = call[q], seen'[q] = seen[q],
           q \in records' => q \in records,
           \A u \in User : account[u] # None => account'[u] # None
    PROVE  Sane(q)'
<1>1. Sane(q)
  BY DEF IInv
<1>2. pc[q] = "deleting" => call[q].user \in User
  BY <1>1 DEF Sane, DeleteCall
<1> QED
  BY <1>1, <1>2 DEF Sane, LoadedFrom, LoadedOne, Keys, OrgSites

\* A step that begins a request leaves the database alone.
LEMMA BeginIInv ==
    ASSUME IInv, NEW r \in Request, NEW c \in Call, NEW next \in InFlight,
           NEW loaded \in [Key -> Flag] \cup {None},
           Begin(r, next, c, loaded), pc[r] = "new", Sane(r)',
           UNCHANGED <<rows, tokens, records>>
    PROVE  IInv'
<1> USE DEF Begin, rows
<1>1. TypeOK'
  BY DEF IInv, TypeOK
<1>2. AssignedAreUsers'
  BY DEF IInv, AssignedAreUsers, HasRow
<1>3. ASSUME NEW q \in Request, q # r PROVE Sane(q)'
  <2>1. pc'[q] = pc[q] /\ call'[q] = call[q] /\ seen'[q] = seen[q]
    BY <1>3 DEF IInv, TypeOK
  <2> QED
    BY <2>1, OthersSane
<1> QED
  BY <1>1, <1>2, <1>3 DEF IInv

\* A step that answers r.
LEMMA FinishIInv ==
    ASSUME IInv, NEW r \in Request, NEW answer \in Answered, Finish(r, answer),
           pc[r] # "ok", UNCHANGED records, AssignedAreUsers',
           \A u \in User : account[u] # None => account'[u] # None,
           account' \in [User -> {None, "active", "deleted", "gone"}],
           email' \in [User -> User \cup {None}],
           affectation' \in [Key -> Flag],
           tokens' \subseteq User \X Site
    PROVE  IInv'
<1> USE DEF Finish
<1>1. TypeOK'
  BY DEF IInv, TypeOK
<1>2. ASSUME NEW q \in Request PROVE Sane(q)'
  <2>1. CASE q = r
    <3>1. pc'[r] = answer /\ r \notin records'
      BY DEF IInv, TypeOK, Sane
    <3> QED
      BY <2>1, <3>1 DEF Sane, Answered
  <2>2. CASE q # r
    <3>1. pc'[q] = pc[q] /\ call'[q] = call[q] /\ seen'[q] = seen[q]
      BY <2>2 DEF IInv, TypeOK
    <3> QED
      BY <3>1, OthersSane
  <2> QED
    BY <2>1, <2>2
<1> QED
  BY <1>1, <1>2 DEF IInv

\* The assignments that a request loads.
LEMMA OrgAssignmentsType ==
    ASSUME IInv, NEW u \in User, NEW o
    PROVE  /\ OrgAssignments(u, o) \in [Key -> Flag]
           /\ \A k \in Keys(OrgAssignments(u, o)) : k[1] = u /\ organisation[k[2]] = o
BY DEF OrgAssignments, Keys, Flag, IInv, TypeOK

-----------------------------------------------------------------------------
(* The requests that begin.                                                  *)

LEMMA CheckCreateIInv == ASSUME IInv, NEW r \in Request, CheckCreate(r) PROVE IInv'
<1>1. PICK u \in User, e \in User, sites \in SUBSET Site, role \in Role :
        Begin(r, "creating",
              [op |-> "create", user |-> u, sites |-> sites, role |-> role, email |-> e], None)
  BY DEF CheckCreate, OrgSites
<1> DEFINE c == [op |-> "create", user |-> u, sites |-> sites, role |-> role, email |-> e]
<1>2. c \in CreateCall /\ c \in Call /\ "creating" \in InFlight
  BY DEF CreateCall, Call, InFlight
<1> HIDE DEF c
<1>3. Begin(r, "creating", c, None) /\ pc[r] = "new" /\ UNCHANGED <<rows, tokens, records>>
  BY <1>1 DEF c, CheckCreate
<1>4. Sane(r)'
  BY <1>2, <1>3 DEF Begin, Sane, IInv, TypeOK
<1> QED
  BY <1>2, <1>3, <1>4, BeginIInv

LEMMA LoadUpdateIInv == ASSUME IInv, NEW r \in Request, LoadUpdate(r) PROVE IInv'
<1>1. PICK u \in User, o \in Organisation, e \in User \cup {None},
           sites \in SUBSET Site, role \in Role \cup {None}, active \in Flag :
        /\ sites \subseteq OrgSites(o)
        /\ Begin(r, "updating",
                 [op |-> "update", user |-> u, org |-> o, active |-> active,
                  sites |-> sites, role |-> role, email |-> e],
                 OrgAssignments(u, o))
  BY DEF LoadUpdate, OrgSites
<1> DEFINE c == [op |-> "update", user |-> u, org |-> o, active |-> active,
                 sites |-> sites, role |-> role, email |-> e]
<1>2. c \in UpdateCall /\ c \in Call /\ "updating" \in InFlight
  BY DEF UpdateCall, Call, InFlight
<1>3. c.user = u /\ c.org = o /\ c.sites = sites
  OBVIOUS
<1> HIDE DEF c
<1>4. /\ Begin(r, "updating", c, OrgAssignments(u, o)) /\ pc[r] = "new"
      /\ UNCHANGED <<rows, tokens, records>>
  BY <1>1 DEF c, LoadUpdate
<1>5. pc'[r] = "updating" /\ call'[r] = c /\ seen'[r] = OrgAssignments(u, o) /\ r \notin records'
  BY <1>4 DEF Begin, IInv, TypeOK, Sane
<1>6. LoadedFrom(r, c.org)'
  BY <1>3, <1>5, OrgAssignmentsType DEF LoadedFrom, Keys
<1>7. Sane(r)'
  BY <1>1, <1>2, <1>3, <1>5, <1>6 DEF Sane, LoadedFrom, OrgSites, Keys
<1> QED
  BY <1>2, <1>4, <1>7, BeginIInv, OrgAssignmentsType

LEMMA LoadDeleteIInv == ASSUME IInv, NEW r \in Request, LoadDelete(r) PROVE IInv'
<1>1. PICK u \in User, o \in Organisation, hard \in BOOLEAN :
        /\ HasRow(u)
        /\ Begin(r, "deleting", [op |-> "delete", user |-> u, org |-> o, hard |-> hard],
                 OrgAssignments(u, o))
  BY DEF LoadDelete
<1> DEFINE c == [op |-> "delete", user |-> u, org |-> o, hard |-> hard]
<1>2. c \in DeleteCall /\ c \in Call /\ "deleting" \in InFlight
  BY DEF DeleteCall, Call, InFlight
<1>3. c.user = u /\ c.org = o
  OBVIOUS
<1> HIDE DEF c
<1>4. /\ Begin(r, "deleting", c, OrgAssignments(u, o)) /\ pc[r] = "new"
      /\ UNCHANGED <<rows, tokens, records>>
  BY <1>1 DEF c, LoadDelete
<1>5. pc'[r] = "deleting" /\ call'[r] = c /\ seen'[r] = OrgAssignments(u, o) /\ r \notin records'
  BY <1>4 DEF Begin, IInv, TypeOK, Sane
<1>6. LoadedFrom(r, c.org)'
  BY <1>3, <1>5, OrgAssignmentsType DEF LoadedFrom, Keys
<1>7. account'[u] # None
  BY <1>1, <1>4 DEF HasRow, rows
<1>8. Sane(r)'
  BY <1>2, <1>3, <1>5, <1>6, <1>7 DEF Sane, LoadedFrom, Keys
<1> QED
  BY <1>2, <1>4, <1>8, BeginIInv, OrgAssignmentsType

LEMMA LoadAffectIInv == ASSUME IInv, NEW r \in Request, LoadAffect(r) PROVE IInv'
<1>1. PICK u \in User \ Exclusive, s \in Site, role \in Role, active \in BOOLEAN :
        Begin(r, "affecting",
              [op |-> "affect", user |-> u, site |-> s, role |-> role, active |-> active],
              [k \in Key |-> IF k = <<u, s, role>> THEN affectation[k] ELSE None])
  BY DEF LoadAffect
<1> DEFINE c == [op |-> "affect", user |-> u, site |-> s, role |-> role, active |-> active]
           loaded == [k \in Key |-> IF k = <<u, s, role>> THEN affectation[k] ELSE None]
<1>2. c \in AffectCall /\ c \in Call /\ "affecting" \in InFlight
  BY DEF AffectCall, Call, InFlight
<1>3. c.user = u /\ c.site = s /\ c.role = role
  OBVIOUS
<1>4. loaded \in [Key -> Flag] /\ Keys(loaded) \subseteq {<<u, s, role>>}
  BY DEF Keys, Flag, IInv, TypeOK
<1> HIDE DEF c, loaded
<1>5. /\ Begin(r, "affecting", c, loaded) /\ pc[r] = "new"
      /\ UNCHANGED <<rows, tokens, records>>
  BY <1>1 DEF c, loaded, LoadAffect
<1>6. pc'[r] = "affecting" /\ call'[r] = c /\ seen'[r] = loaded /\ r \notin records'
  BY <1>5 DEF Begin, IInv, TypeOK, Sane
<1>7. LoadedOne(r)'
  BY <1>3, <1>4, <1>6 DEF LoadedOne, Keys
<1>8. Sane(r)'
  BY <1>2, <1>3, <1>6, <1>7 DEF Sane
<1> QED
  BY <1>2, <1>4, <1>5, <1>8, BeginIInv

LEMMA CheckPasswordIInv == ASSUME IInv, NEW r \in Request, CheckPassword(r) PROVE IInv'
<1>1. PICK u \in User, s \in Site :
        Begin(r, "login", [op |-> "login", user |-> u, site |-> s], None)
  BY DEF CheckPassword
<1> DEFINE c == [op |-> "login", user |-> u, site |-> s]
<1>2. c \in LoginCall /\ c \in Call /\ "login" \in InFlight
  BY DEF LoginCall, Call, InFlight
<1> HIDE DEF c
<1>3. Begin(r, "login", c, None) /\ pc[r] = "new" /\ UNCHANGED <<rows, tokens, records>>
  BY <1>1 DEF c, CheckPassword
<1>4. Sane(r)'
  BY <1>2, <1>3 DEF Begin, Sane, IInv, TypeOK
<1> QED
  BY <1>2, <1>3, <1>4, BeginIInv

LEMMA CheckPinIInv == ASSUME IInv, NEW r \in Request, CheckPin(r) PROVE IInv'
<1>1. PICK u \in User : Begin(r, "signing", [op |-> "sign", user |-> u], None)
  BY DEF CheckPin
<1> DEFINE c == [op |-> "sign", user |-> u]
<1>2. c \in SignCall /\ c \in Call /\ "signing" \in InFlight
  BY DEF SignCall, Call, InFlight
<1> HIDE DEF c
<1>3. Begin(r, "signing", c, None) /\ pc[r] = "new" /\ UNCHANGED <<rows, tokens, records>>
  BY <1>1 DEF c, CheckPin
<1>4. Sane(r)'
  BY <1>2, <1>3 DEF Begin, Sane, IInv, TypeOK
<1> QED
  BY <1>2, <1>3, <1>4, BeginIInv

-----------------------------------------------------------------------------
(* What the commits do to the assignments.                                   *)

LEMMA SwitchRights ==
    ASSUME IInv, NEW r \in Request, NEW active \in BOOLEAN,
           seen[r] \in [Key -> Flag], Switch(r, active)
    PROVE  /\ affectation' \in [Key -> Flag]
           /\ \A k \in Key : affectation'[k] # None => affectation[k] # None
           /\ \A k \in Key : affectation'[k] \in {affectation[k], active}
           /\ \A k \in Key \ Keys(seen[r]) : affectation'[k] = affectation[k]
           /\ \A k \in Keys(seen[r]) : seen[r][k] = affectation[k] => affectation'[k] = active
<1> DEFINE stale == {k \in Keys(seen[r]) : seen[r][k] # active}
<1>1. /\ \A k \in stale : affectation[k] # None
      /\ affectation' = [k \in Key |-> IF k \in stale THEN active ELSE affectation[k]]
  BY DEF Switch
<1>2. stale \subseteq Keys(seen[r]) /\ \A k \in Keys(seen[r]) \ stale : seen[r][k] = active
  OBVIOUS
<1>3. affectation \in [Key -> Flag] /\ active \in Flag
  BY DEF IInv, TypeOK, Flag
<1> HIDE DEF stale
<1> QED
  BY <1>1, <1>2, <1>3 DEF Keys

\* A rebuild puts one role on each of the next sites.
LEMMA RebuildRights ==
    ASSUME IInv, NEW r \in Request, pc[r] = "updating", Rebuild(r)
    PROVE  /\ affectation' \in [Key -> Flag]
           /\ \A k \in Key : affectation'[k] # None /\ affectation[k] = None => k[1] = call[r].user
           /\ \E role \in Role :
                 \A k \in Key :
                    /\ affectation'[k] # affectation[k] =>
                          k[1] = call[r].user /\ organisation[k[2]] = call[r].org
                    /\ affectation'[k] # None =>
                          \/ k[1] = call[r].user /\ k[3] = role
                             /\ organisation[k[2]] = call[r].org
                          \/ k \notin Keys(seen[r]) /\ affectation'[k] = affectation[k]
<1>1. /\ call[r] \in UpdateCall /\ call[r].sites \subseteq OrgSites(call[r].org)
      /\ seen[r] \in [Key -> Flag]
      /\ \A k \in Keys(seen[r]) : k[1] = call[r].user /\ organisation[k[2]] = call[r].org
  BY DEF IInv, Sane, LoadedFrom
<1>2. NextRoles(r) \subseteq Role
  BY <1>1, KeyParts DEF NextRoles, UpdateCall, Keys
<1>3. \A s \in NextSites(r) : organisation[s] = call[r].org
  BY <1>1 DEF NextSites, OrgSites
<1>4. NextActive(r) \in Flag
  <2>1. CASE call[r].active # None
    BY <1>1, <2>1 DEF NextActive, UpdateCall
  <2>2. CASE call[r].active = None
    <3>1. (\E k \in Keys(seen[r]) : seen[r][k] = TRUE) \in BOOLEAN
      OBVIOUS
    <3>2. NextActive(r) = \E k \in Keys(seen[r]) : seen[r][k] = TRUE
      BY <2>2 DEF NextActive
    <3> QED
      BY <3>1, <3>2 DEF Flag
  <2> QED
    BY <2>1, <2>2
<1>5. PICK role \in NextRoles(r) :
        LET new == {k \in Key : k[1] = call[r].user /\ k[2] \in NextSites(r) /\ k[3] = role}
        IN  affectation' = [k \in Key |->
              IF k \in new THEN NextActive(r)
              ELSE IF k \in Replaced(r) THEN None ELSE affectation[k]]
  BY DEF Rebuild
<1> DEFINE new == {k \in Key : k[1] = call[r].user /\ k[2] \in NextSites(r) /\ k[3] = role}
<1>6. \A k \in Key :
        affectation'[k] = IF k \in new THEN NextActive(r)
                          ELSE IF k \in Keys(seen[r]) THEN None ELSE affectation[k]
  BY <1>5 DEF Replaced
<1>7. \A k \in new : k[1] = call[r].user /\ organisation[k[2]] = call[r].org /\ k[3] = role
  BY <1>3
<1>8. affectation' \in [Key -> Flag]
  <2>1. affectation \in [Key -> Flag]
    BY DEF IInv, TypeOK
  <2>2. affectation' = [k \in Key |-> IF k \in new THEN NextActive(r)
                                      ELSE IF k \in Keys(seen[r]) THEN None ELSE affectation[k]]
    BY <1>5 DEF Replaced
  <2> HIDE DEF new
  <2> QED
    BY <1>4, <2>1, <2>2 DEF Flag
<1> HIDE DEF new
<1> QED
  BY <1>1, <1>2, <1>6, <1>7, <1>8

\* What an update does to the assignments: nothing to those of others, or on the
\* sites of others.
LEMMA UpdateRights ==
    ASSUME IInv, NEW r \in Request, CommitUpdate(r)
    PROVE  /\ affectation' \in [Key -> Flag]
           /\ \A k \in Key : affectation'[k] # None /\ affectation[k] = None => k[1] = call[r].user
           /\ \A k \in Key : affectation'[k] # affectation[k] =>
                 k[1] = call[r].user /\ organisation[k[2]] = call[r].org
<1>1. /\ pc[r] = "updating" /\ call[r] \in UpdateCall /\ seen[r] \in [Key -> Flag]
      /\ \A k \in Keys(seen[r]) : k[1] = call[r].user /\ organisation[k[2]] = call[r].org
  BY DEF CommitUpdate, IInv, Sane, LoadedFrom
<1>2. CASE Rebuild(r)
  BY <1>1, <1>2, RebuildRights
<1>3. CASE call[r].active # None /\ Switch(r, call[r].active)
  <2>1. call[r].active \in BOOLEAN
    BY <1>1, <1>3 DEF UpdateCall, Flag
  <2> QED
    BY <1>1, <1>3, <2>1, SwitchRights DEF Keys
<1>4. CASE UNCHANGED affectation
  BY <1>4 DEF IInv, TypeOK
<1> QED
  BY <1>2, <1>3, <1>4 DEF CommitUpdate, ChangeRights

LEMMA SoftDeleteRights ==
    ASSUME IInv, NEW r \in Request, CommitSoftDelete(r)
    PROVE  /\ affectation' \in [Key -> Flag]
           /\ \A k \in Key : affectation'[k] # None => affectation[k] # None
           /\ \A k \in Key : affectation'[k] # affectation[k] =>
                 /\ affectation'[k] = FALSE
                 /\ k[1] = call[r].user /\ organisation[k[2]] = call[r].org
<1>1. /\ seen[r] \in [Key -> Flag] /\ Switch(r, FALSE)
      /\ \A k \in Keys(seen[r]) : k[1] = call[r].user /\ organisation[k[2]] = call[r].org
  BY DEF CommitSoftDelete, IInv, Sane, LoadedFrom
<1> QED
  BY <1>1, SwitchRights

\* The assignment endpoint leaves the rights of the exclusive users alone.
LEMMA AffectRights ==
    ASSUME IInv, NEW r \in Request, InsertAffect(r) \/ UpdateAffect(r)
    PROVE  /\ affectation' \in [Key -> Flag]
           /\ \A k \in Key : affectation'[k] # None /\ affectation[k] = None => HasRow(k[1])
           /\ \A k \in Key : affectation'[k] # affectation[k] =>
                 k[1] = call[r].user /\ k[1] \notin Exclusive
<1>1. /\ pc[r] = "affecting" /\ call[r] \in AffectCall /\ call[r].user \notin Exclusive
      /\ seen[r] \in [Key -> Flag]
      /\ Keys(seen[r]) \subseteq {<<call[r].user, call[r].site, call[r].role>>}
  BY DEF InsertAffect, UpdateAffect, IInv, Sane, LoadedOne
<1>2. call[r].user \in User /\ call[r].active \in BOOLEAN
      /\ <<call[r].user, call[r].site, call[r].role>> \in Key
  BY <1>1 DEF AffectCall, Key
<1>3. CASE InsertAffect(r)
  <2>1. HasRow(call[r].user)
        /\ affectation' = [affectation EXCEPT ![<<call[r].user, call[r].site, call[r].role>>] =
                             call[r].active]
    BY <1>3 DEF InsertAffect
  <2>2. affectation \in [Key -> Flag] /\ call[r].active \in Flag
    BY <1>2 DEF IInv, TypeOK, Flag
  <2> DEFINE key == <<call[r].user, call[r].site, call[r].role>>
  <2>3. key[1] = call[r].user
    OBVIOUS
  <2>4. key \in Key /\ affectation' = [affectation EXCEPT ![key] = call[r].active]
    BY <1>2, <2>1
  <2> HIDE DEF key
  <2> QED
    BY <1>1, <2>1, <2>2, <2>3, <2>4
<1>4. CASE UpdateAffect(r)
  BY <1>1, <1>2, <1>4, SwitchRights DEF UpdateAffect
<1> QED
  BY <1>3, <1>4

-----------------------------------------------------------------------------
(* The commits keep the inductive invariant.                                 *)

LEMMA CommitCreateIInv == ASSUME IInv, NEW r \in Request, CommitCreate(r) PROVE IInv'
<1>1. call[r].user \in User /\ call[r].email \in User
  BY DEF CommitCreate, IInv, Sane, CreateCall
<1>2. /\ Finish(r, "ok") /\ "ok" \in Answered /\ pc[r] # "ok" /\ UNCHANGED <<tokens, records>>
      /\ account' \in [User -> {None, "active", "deleted", "gone"}]
      /\ email' \in [User -> User \cup {None}]
      /\ \A u \in User : account[u] # None => account'[u] # None
  BY <1>1 DEF CommitCreate, Answered, IInv, TypeOK
<1>3. affectation' \in [Key -> Flag]
  BY DEF CommitCreate, IInv, TypeOK, Flag
<1>4. AssignedAreUsers'
  <2> SUFFICES ASSUME NEW k \in Key, affectation'[k] # None PROVE account'[k[1]] \in {"active", "deleted"}
    BY DEF AssignedAreUsers, HasRow
  <2>1. k[1] \in User
    BY KeyParts
  <2>2. CASE k[1] = call[r].user
    BY <1>1, <2>2 DEF CommitCreate, IInv, TypeOK
  <2>3. CASE k[1] # call[r].user
    BY <2>1, <2>3 DEF CommitCreate, IInv, TypeOK, AssignedAreUsers, HasRow
  <2> QED
    BY <2>2, <2>3
<1> QED
  BY <1>2, <1>3, <1>4, FinishIInv DEF IInv, TypeOK

LEMMA CommitUpdateIInv == ASSUME IInv, NEW r \in Request, CommitUpdate(r) PROVE IInv'
<1>1. call[r].user \in User /\ call[r].email \in User \cup {None}
  BY DEF CommitUpdate, IInv, Sane, UpdateCall
<1>2. /\ Finish(r, "ok") /\ "ok" \in Answered /\ pc[r] # "ok" /\ HasRow(call[r].user)
      /\ UNCHANGED <<account, tokens, records>>
      /\ email' \in [User -> User \cup {None}]
  BY <1>1 DEF CommitUpdate, Answered, IInv, TypeOK
<1>3. AssignedAreUsers'
  BY <1>2, UpdateRights DEF AssignedAreUsers, HasRow, IInv
<1> QED
  BY <1>2, <1>3, UpdateRights, FinishIInv DEF IInv, TypeOK

LEMMA CommitSoftDeleteIInv == ASSUME IInv, NEW r \in Request, CommitSoftDelete(r) PROVE IInv'
<1>1. call[r].user \in User
  BY DEF CommitSoftDelete, IInv, Sane, DeleteCall
<1>2. /\ Finish(r, "ok") /\ "ok" \in Answered /\ pc[r] # "ok"
      /\ UNCHANGED <<email, tokens, records>>
      /\ account' \in [User -> {None, "active", "deleted", "gone"}]
      /\ \A u \in User : account[u] # None => account'[u] # None
      /\ \A u \in User : HasRow(u) => HasRow(u)'
  BY <1>1 DEF CommitSoftDelete, Answered, IInv, TypeOK, HasRow
<1>3. AssignedAreUsers'
  BY <1>2, SoftDeleteRights, KeyParts DEF AssignedAreUsers, IInv
<1> QED
  BY <1>2, <1>3, SoftDeleteRights, FinishIInv DEF IInv, TypeOK

LEMMA CommitHardDeleteIInv == ASSUME IInv, NEW r \in Request, CommitHardDelete(r) PROVE IInv'
<1>1. call[r].user \in User
  BY DEF CommitHardDelete, IInv, Sane, DeleteCall
<1>2. /\ Finish(r, "ok") /\ "ok" \in Answered /\ pc[r] # "ok" /\ UNCHANGED <<tokens, records>>
      /\ account' \in [User -> {None, "active", "deleted", "gone"}]
      /\ email' \in [User -> User \cup {None}]
      /\ \A u \in User : account[u] # None => account'[u] # None
      /\ \A u \in User \ {call[r].user} : account'[u] = account[u]
  BY <1>1 DEF CommitHardDelete, Answered, IInv, TypeOK
<1>3. affectation' \in [Key -> Flag]
  BY DEF CommitHardDelete, IInv, TypeOK, Flag
<1>4. \A k \in Key : affectation'[k] # None => k[1] # call[r].user /\ affectation[k] # None
  BY DEF CommitHardDelete
<1>5. AssignedAreUsers'
  BY <1>2, <1>4, KeyParts DEF AssignedAreUsers, IInv, HasRow
<1> QED
  BY <1>2, <1>3, <1>5, FinishIInv DEF IInv, TypeOK

LEMMA AffectIInv ==
    ASSUME IInv, NEW r \in Request, InsertAffect(r) \/ UpdateAffect(r) PROVE IInv'
<1>1. /\ Finish(r, "ok") /\ "ok" \in Answered /\ pc[r] # "ok"
      /\ UNCHANGED <<account, email, tokens, records>>
  BY DEF InsertAffect, UpdateAffect, Answered
<1>2. AssignedAreUsers'
  BY <1>1, AffectRights DEF AssignedAreUsers, IInv, HasRow
<1> QED
  BY <1>1, <1>2, AffectRights, FinishIInv DEF IInv, TypeOK

LEMMA IssueTokenIInv == ASSUME IInv, NEW r \in Request, IssueToken(r) PROVE IInv'
<1>1. call[r].user \in User /\ call[r].site \in Site
  BY DEF IssueToken, IInv, Sane, LoginCall
<1>2. /\ Finish(r, "ok") /\ "ok" \in Answered /\ pc[r] # "ok" /\ UNCHANGED <<rows, records>>
      /\ tokens' \subseteq User \X Site
  BY <1>1 DEF IssueToken, Answered, IInv, TypeOK
<1>3. AssignedAreUsers'
  BY <1>2 DEF AssignedAreUsers, IInv, HasRow, rows
<1> QED
  BY <1>2, <1>3, FinishIInv DEF IInv, TypeOK, rows

LEMMA RefusalIInv == ASSUME IInv, NEW r \in Request, RaiseMultiple(r) \/ Fail(r) PROVE IInv'
<1>1. /\ Finish(r, "failed") /\ "failed" \in Answered /\ pc[r] # "ok"
      /\ UNCHANGED <<rows, tokens, records>>
  BY DEF RaiseMultiple, Fail, Answered, InFlight
<1>2. AssignedAreUsers'
  BY <1>1 DEF AssignedAreUsers, IInv, HasRow, rows
<1> QED
  BY <1>1, <1>2, FinishIInv DEF IInv, TypeOK, rows

LEMMA CommitRecordIInv == ASSUME IInv, NEW r \in Request, CommitRecord(r) PROVE IInv'
<1> USE DEF CommitRecord, rows
<1>1. TypeOK'
  BY DEF IInv, TypeOK, Answered
<1>2. AssignedAreUsers'
  BY DEF IInv, AssignedAreUsers, HasRow
<1>3. ASSUME NEW q \in Request PROVE Sane(q)'
  <2>1. CASE q = r
    BY <2>1 DEF IInv, TypeOK, Sane
  <2>2. CASE q # r
    <3>1. pc'[q] = pc[q] /\ (q \in records' => q \in records)
      BY <2>2 DEF IInv, TypeOK
    <3> QED
      BY <3>1, OthersSane
  <2> QED
    BY <2>1, <2>2
<1> QED
  BY <1>1, <1>2, <1>3 DEF IInv

-----------------------------------------------------------------------------

LEMMA NextIInv == ASSUME IInv, [Next /\ NoOverlap']_vars PROVE IInv'
<1>1. CASE UNCHANGED vars
  BY <1>1 DEF vars, rows, IInv, TypeOK, AssignedAreUsers, HasRow, Sane, LoadedFrom, LoadedOne, Keys
<1>2. CASE Next
  BY <1>2, CheckCreateIInv, CommitCreateIInv, LoadUpdateIInv, CommitUpdateIInv, LoadDeleteIInv,
     CommitSoftDeleteIInv, CommitHardDeleteIInv, LoadAffectIInv, AffectIInv, CheckPasswordIInv,
     IssueTokenIInv, CheckPinIInv, RefusalIInv, CommitRecordIInv
  DEF Next
<1> QED
  BY <1>1, <1>2

\* The inductive invariant holds in every behaviour.
THEOREM Invariance == Spec => []IInv
<1>1. Init => IInv
  BY InitIInv
<1>2. IInv /\ [Next /\ NoOverlap']_vars => IInv'
  BY NextIInv
<1> QED
  BY <1>1, <1>2, PTL DEF Spec

\* Every row, token and request keeps its type.
THEOREM TypeCorrect == Spec => []TypeOK
<1>1. IInv => TypeOK
  BY DEF IInv
<1> QED
  BY <1>1, Invariance, PTL

-----------------------------------------------------------------------------
(* Users whose requests do not overlap: what a request found when it entered *)
(* still holds when it commits.                                              *)

ExclusiveInv ==
    \A r \in Request : call[r].user \in Exclusive =>
        /\ pc[r] \in {"updating", "deleting"} =>
              seen[r] = OrgAssignments(call[r].user, call[r].org)
        /\ pc[r] \in {"updating", "signing"} => account[call[r].user] = "active"
        /\ pc[r] = "deleting" /\ call[r].hard => NotOutside(call[r].user, call[r].org)

LEMMA InitExclusive == Init => ExclusiveInv /\ NoOverlap
BY DEF Init, ExclusiveInv, NoOverlap, InFlight

\* Only the commits that write rows change the accounts, the e-mails and the rights.
LEMMA OthersKeepRows ==
    ASSUME Next,
           \A r \in Request :
              /\ ~CommitCreate(r) /\ ~CommitUpdate(r) /\ ~CommitSoftDelete(r)
              /\ ~CommitHardDelete(r) /\ ~InsertAffect(r) /\ ~UpdateAffect(r)
    PROVE  UNCHANGED rows
BY DEF Next, CheckCreate, LoadUpdate, LoadDelete, LoadAffect, CheckPassword, IssueToken,
       CheckPin, RaiseMultiple, CommitRecord, Fail, rows

\* A request that a step answers with success has committed in that step.
LEMMA CommitsItself ==
    ASSUME IInv, Next, NEW r \in Request, pc'[r] = "ok"
    PROVE  /\ pc[r] = "updating" => CommitUpdate(r)
           /\ pc[r] = "deleting" => CommitSoftDelete(r) \/ CommitHardDelete(r)
<1>1. ASSUME NEW q \in Request, NEW next \in InFlight, NEW c, NEW loaded,
             Begin(q, next, c, loaded)
      PROVE  pc[r] = "ok"
  BY <1>1 DEF Begin, InFlight, IInv, TypeOK
<1>2. ASSUME NEW q \in Request,
             CheckCreate(q) \/ LoadUpdate(q) \/ LoadDelete(q) \/ LoadAffect(q)
             \/ CheckPassword(q) \/ CheckPin(q)
      PROVE  pc[r] = "ok"
  <2>1. PICK next, c, loaded : next \in InFlight /\ Begin(q, next, c, loaded)
    <3>1. {"creating", "updating", "deleting", "affecting", "login", "signing"} \subseteq InFlight
      BY DEF InFlight
    <3>2. CASE CheckCreate(q)
      BY <3>1, <3>2 DEF CheckCreate
    <3>3. CASE LoadUpdate(q)
      BY <3>1, <3>3 DEF LoadUpdate
    <3>4. CASE LoadDelete(q)
      BY <3>1, <3>4 DEF LoadDelete
    <3>5. CASE LoadAffect(q)
      BY <3>1, <3>5 DEF LoadAffect
    <3>6. CASE CheckPassword(q)
      BY <3>1, <3>6 DEF CheckPassword
    <3>7. CASE CheckPin(q)
      BY <3>1, <3>7 DEF CheckPin
    <3> QED
      BY <1>2, <3>2, <3>3, <3>4, <3>5, <3>6, <3>7
  <2> QED
    BY <1>1, <2>1
<1>3. ASSUME NEW q \in Request, RaiseMultiple(q) \/ Fail(q) PROVE pc[r] = "ok"
  BY <1>3 DEF RaiseMultiple, Fail, Finish, IInv, TypeOK
<1>4. ASSUME NEW q \in Request, q # r,
             \/ CommitCreate(q) \/ CommitUpdate(q) \/ CommitSoftDelete(q) \/ CommitHardDelete(q)
             \/ InsertAffect(q) \/ UpdateAffect(q) \/ IssueToken(q) \/ CommitRecord(q)
      PROVE  pc[r] = "ok"
  <2>1. pc' = [pc EXCEPT ![q] = "ok"]
    BY <1>4 DEF CommitCreate, CommitUpdate, CommitSoftDelete, CommitHardDelete, InsertAffect,
                UpdateAffect, IssueToken, CommitRecord, Finish
  <2> QED
    BY <1>4, <2>1 DEF IInv, TypeOK
<1>5. CASE \/ CommitCreate(r) \/ InsertAffect(r) \/ UpdateAffect(r) \/ IssueToken(r)
           \/ CommitRecord(r)
  BY <1>5 DEF CommitCreate, InsertAffect, UpdateAffect, IssueToken, CommitRecord
<1>6. CASE CommitUpdate(r) \/ CommitSoftDelete(r) \/ CommitHardDelete(r)
  BY <1>6 DEF CommitUpdate, CommitSoftDelete, CommitHardDelete
<1>7. CASE pc[r] = "ok"
  BY <1>7
<1> QED
  BY <1>2, <1>3, <1>4, <1>5, <1>6, <1>7 DEF Next

\* Whoever changes an exclusive user or the rights of one has been in flight for
\* that user.
LEMMA WriterOfUser ==
    ASSUME IInv, Next, NEW u \in Exclusive, u \in User,
           \/ account'[u] # account[u]
           \/ \E k \in Key : k[1] = u /\ affectation'[k] # affectation[k]
    PROVE  \E q \in Request : pc[q] \in InFlight /\ pc'[q] # pc[q] /\ call[q].user = u
<1>1. ASSUME NEW q \in Request, CommitCreate(q)
      PROVE  pc[q] \in InFlight /\ pc'[q] # pc[q] /\ call[q].user = u
  BY <1>1 DEF CommitCreate, Finish, InFlight, IInv, TypeOK
<1>2. ASSUME NEW q \in Request, CommitUpdate(q)
      PROVE  pc[q] \in InFlight /\ pc'[q] # pc[q] /\ call[q].user = u
  <2>1. call[q].user = u
    BY <1>2, UpdateRights DEF CommitUpdate
  <2> QED
    BY <1>2, <2>1 DEF CommitUpdate, Finish, InFlight, IInv, TypeOK
<1>3. ASSUME NEW q \in Request, CommitSoftDelete(q)
      PROVE  pc[q] \in InFlight /\ pc'[q] # pc[q] /\ call[q].user = u
  <2>1. call[q].user = u
    BY <1>3, SoftDeleteRights DEF CommitSoftDelete, IInv, TypeOK
  <2> QED
    BY <1>3, <2>1 DEF CommitSoftDelete, Finish, InFlight, IInv, TypeOK
<1>4. ASSUME NEW q \in Request, CommitHardDelete(q)
      PROVE  pc[q] \in InFlight /\ pc'[q] # pc[q] /\ call[q].user = u
  BY <1>4 DEF CommitHardDelete, Finish, InFlight, IInv, TypeOK
<1>5. ASSUME NEW q \in Request, InsertAffect(q) \/ UpdateAffect(q) PROVE FALSE
  BY <1>5, AffectRights DEF InsertAffect, UpdateAffect
<1> QED
  BY <1>1, <1>2, <1>3, <1>4, <1>5, OthersKeepRows DEF rows

\* While a request of an exclusive user waits, nobody changes the user.
LEMMA WaitingRequest ==
    ASSUME IInv, NoOverlap, Next, NEW r \in Request, pc[r] \in InFlight, pc'[r] = pc[r],
           call[r].user \in Exclusive, call[r].user \in User
    PROVE  /\ account'[call[r].user] = account[call[r].user]
           /\ \A k \in Key : k[1] = call[r].user => affectation'[k] = affectation[k]
<1> SUFFICES ASSUME \/ account'[call[r].user] # account[call[r].user]
                    \/ \E k \in Key : k[1] = call[r].user /\ affectation'[k] # affectation[k]
             PROVE  FALSE
  OBVIOUS
<1>1. PICK q \in Request : pc[q] \in InFlight /\ pc'[q] # pc[q] /\ call[q].user = call[r].user
  BY WriterOfUser
<1> QED
  BY <1>1 DEF NoOverlap

\* A step moves one request, and it is by these steps that one gets where it
\* relies on what it found.
LEMMA OnlyTheMover ==
    ASSUME IInv, Next, NEW r \in Request, ~LoadUpdate(r), ~LoadDelete(r), ~CheckPin(r),
           pc'[r] \in {"updating", "deleting", "signing"}
    PROVE  pc'[r] = pc[r] /\ call'[r] = call[r] /\ seen'[r] = seen[r]
<1>1. ASSUME NEW q \in Request, NEW next, NEW c, NEW loaded, Begin(q, next, c, loaded),
             q = r => next \notin {"updating", "deleting", "signing"}
      PROVE  pc'[r] = pc[r] /\ call'[r] = call[r] /\ seen'[r] = seen[r]
  BY <1>1 DEF Begin, IInv, TypeOK
<1>2. ASSUME NEW q \in Request, NEW answer \in Answered, Finish(q, answer)
      PROVE  pc'[r] = pc[r] /\ call'[r] = call[r] /\ seen'[r] = seen[r]
  BY <1>2 DEF Finish, IInv, TypeOK, Answered
<1>3. ASSUME NEW q \in Request, CheckCreate(q)
      PROVE  pc'[r] = pc[r] /\ call'[r] = call[r] /\ seen'[r] = seen[r]
  BY <1>1, <1>3 DEF CheckCreate
<1>4. ASSUME NEW q \in Request, LoadAffect(q)
      PROVE  pc'[r] = pc[r] /\ call'[r] = call[r] /\ seen'[r] = seen[r]
  BY <1>1, <1>4 DEF LoadAffect
<1>5. ASSUME NEW q \in Request, CheckPassword(q)
      PROVE  pc'[r] = pc[r] /\ call'[r] = call[r] /\ seen'[r] = seen[r]
  BY <1>1, <1>5 DEF CheckPassword
<1>6. ASSUME NEW q \in Request \ {r}, LoadUpdate(q)
      PROVE  pc'[r] = pc[r] /\ call'[r] = call[r] /\ seen'[r] = seen[r]
  BY <1>1, <1>6 DEF LoadUpdate
<1>7. ASSUME NEW q \in Request \ {r}, LoadDelete(q)
      PROVE  pc'[r] = pc[r] /\ call'[r] = call[r] /\ seen'[r] = seen[r]
  BY <1>1, <1>7 DEF LoadDelete
<1>8. ASSUME NEW q \in Request \ {r}, CheckPin(q)
      PROVE  pc'[r] = pc[r] /\ call'[r] = call[r] /\ seen'[r] = seen[r]
  BY <1>1, <1>8 DEF CheckPin
<1>9. ASSUME NEW q \in Request,
             \/ CommitCreate(q) \/ CommitUpdate(q) \/ CommitSoftDelete(q) \/ CommitHardDelete(q)
             \/ InsertAffect(q) \/ UpdateAffect(q) \/ IssueToken(q) \/ RaiseMultiple(q) \/ Fail(q)
      PROVE  pc'[r] = pc[r] /\ call'[r] = call[r] /\ seen'[r] = seen[r]
  <2>1. Finish(q, "ok") \/ Finish(q, "failed")
    BY <1>9 DEF CommitCreate, CommitUpdate, CommitSoftDelete, CommitHardDelete, InsertAffect,
                UpdateAffect, IssueToken, RaiseMultiple, Fail
  <2> QED
    BY <1>2, <2>1 DEF Answered
<1>10. ASSUME NEW q \in Request, CommitRecord(q)
       PROVE  pc'[r] = pc[r] /\ call'[r] = call[r] /\ seen'[r] = seen[r]
  BY <1>10 DEF CommitRecord, IInv, TypeOK
<1> QED
  BY <1>3, <1>4, <1>5, <1>6, <1>7, <1>8, <1>9, <1>10 DEF Next

LEMMA NextExclusive ==
    ASSUME IInv, ExclusiveInv, NoOverlap, [Next /\ NoOverlap']_vars
    PROVE  ExclusiveInv' /\ NoOverlap'
<1>1. CASE UNCHANGED vars
  BY <1>1 DEF vars, rows, ExclusiveInv, NoOverlap, OrgAssignments, NotOutside
<1>2. CASE Next /\ NoOverlap'
  <2> SUFFICES ASSUME NEW r \in Request, call'[r].user \in Exclusive
               PROVE  /\ pc'[r] \in {"updating", "deleting"} =>
                            seen'[r] = OrgAssignments(call[r].user, call[r].org)'
                      /\ pc'[r] \in {"updating", "signing"} => account'[call'[r].user] = "active"
                      /\ pc'[r] = "deleting" /\ call'[r].hard =>
                            NotOutside(call[r].user, call[r].org)'
    BY <1>2 DEF ExclusiveInv
  <2>1. CASE LoadUpdate(r)
    BY <2>1 DEF LoadUpdate, Begin, rows, IInv, TypeOK, OrgAssignments
  <2>2. CASE LoadDelete(r)
    BY <2>2 DEF LoadDelete, Begin, rows, IInv, TypeOK, OrgAssignments, NotOutside
  <2>3. CASE CheckPin(r)
    BY <2>3 DEF CheckPin, Begin, rows, IInv, TypeOK
  <2>4. CASE pc'[r] \notin {"updating", "deleting", "signing"}
    BY <2>4
  <2>5. CASE /\ ~LoadUpdate(r) /\ ~LoadDelete(r) /\ ~CheckPin(r)
             /\ pc'[r] \in {"updating", "deleting", "signing"}
    <3>1. pc'[r] = pc[r] /\ call'[r] = call[r] /\ seen'[r] = seen[r]
      BY <1>2, <2>5, OnlyTheMover
    <3>2. call[r].user \in User /\ pc[r] \in InFlight
      BY <2>5, <3>1 DEF InFlight, IInv, Sane, UpdateCall, DeleteCall, SignCall
    <3>3. /\ account'[call[r].user] = account[call[r].user]
          /\ \A k \in Key : k[1] = call[r].user => affectation'[k] = affectation[k]
      BY <1>2, <3>1, <3>2, WaitingRequest
    <3>4. OrgAssignments(call[r].user, call[r].org)' = OrgAssignments(call[r].user, call[r].org)
      BY <3>1, <3>3 DEF OrgAssignments
    <3>5. NotOutside(call[r].user, call[r].org) => NotOutside(call[r].user, call[r].org)'
      BY <3>1, <3>3 DEF NotOutside
    <3> QED
      BY <2>5, <3>1, <3>3, <3>4, <3>5 DEF ExclusiveInv
  <2> QED
    BY <2>1, <2>2, <2>3, <2>4, <2>5
<1> QED
  BY <1>1, <1>2

LEMMA ExclusiveInvariance == Spec => [](ExclusiveInv /\ NoOverlap)
<1>1. Init => ExclusiveInv /\ NoOverlap
  BY InitExclusive
<1>2. IInv /\ ExclusiveInv /\ NoOverlap /\ [Next /\ NoOverlap']_vars => ExclusiveInv' /\ NoOverlap'
  BY NextExclusive
<1> QED
  BY <1>1, <1>2, Invariance, PTL DEF Spec

-----------------------------------------------------------------------------
(* One role on each site.                                                    *)

LEMMA NextOneRole ==
    ASSUME IInv, ExclusiveInv, OneRolePerSite, [Next /\ NoOverlap']_vars
    PROVE  OneRolePerSite'
<1> SUFFICES ASSUME NEW j \in Key, NEW k \in Key, affectation'[j] # None, affectation'[k] # None,
                    j[1] \in Exclusive, j[1] = k[1], j[2] = k[2]
             PROVE  j = k
  BY DEF OneRolePerSite, Keys
<1>1. affectation[j] # None /\ affectation[k] # None => j = k
  BY DEF OneRolePerSite, Keys
<1>2. ASSUME NEW r \in Request, CommitCreate(r) PROVE j = k
  <2>1. CASE j[1] = call[r].user
    <3>1. account[j[1]] = None
      BY <1>2, <2>1 DEF CommitCreate
    <3>2. affectation[j] = None /\ affectation[k] = None
      BY <3>1 DEF IInv, AssignedAreUsers, HasRow
    <3>3. j[3] = call[r].role /\ k[3] = call[r].role
      BY <1>2, <3>2 DEF CommitCreate
    <3> QED
      BY <3>3, KeyParts
  <2>2. CASE j[1] # call[r].user
    BY <1>1, <1>2, <2>2 DEF CommitCreate
  <2> QED
    BY <2>1, <2>2
<1>3. ASSUME NEW r \in Request, CommitUpdate(r) PROVE j = k
  <2>1. pc[r] = "updating" /\ call[r] \in UpdateCall
    BY <1>3 DEF CommitUpdate, IInv, Sane
  <2>2. CASE j[1] # call[r].user
    BY <1>1, <1>3, <2>2, UpdateRights
  <2>3. CASE j[1] = call[r].user /\ Rebuild(r)
    <3>1. PICK role \in Role :
            \A i \in Key :
               /\ affectation'[i] # affectation[i] =>
                     i[1] = call[r].user /\ organisation[i[2]] = call[r].org
               /\ affectation'[i] # None =>
                     \/ i[1] = call[r].user /\ i[3] = role /\ organisation[i[2]] = call[r].org
                     \/ i \notin Keys(seen[r]) /\ affectation'[i] = affectation[i]
      BY <2>1, <2>3, RebuildRights
    <3>2. CASE organisation[j[2]] # call[r].org
      BY <1>1, <3>1, <3>2
    <3>3. CASE organisation[j[2]] = call[r].org
      <4>1. seen[r] = OrgAssignments(call[r].user, call[r].org)
        BY <2>1, <2>3 DEF ExclusiveInv
      <4>2. ASSUME NEW i \in {j, k} PROVE i[3] = role
        <5>1. i \in Key /\ i[1] = call[r].user /\ organisation[i[2]] = call[r].org
              /\ affectation'[i] # None
          BY <2>3, <3>3
        <5>2. affectation[i] # None => i \in Keys(seen[r])
          BY <4>1, <5>1 DEF Keys, OrgAssignments
        <5> QED
          BY <3>1, <5>1, <5>2
      <4> QED
        BY <4>2, KeyParts
    <3> QED
      BY <3>2, <3>3
  <2>4. CASE ~Rebuild(r)
    <3>1. \/ UNCHANGED affectation
          \/ call[r].active # None /\ Switch(r, call[r].active)
      BY <1>3, <2>4 DEF CommitUpdate, ChangeRights
    <3>2. call[r].active \in Flag /\ seen[r] \in [Key -> Flag]
      BY <2>1 DEF UpdateCall, IInv, Sane, LoadedFrom
    <3>3. affectation[j] # None /\ affectation[k] # None
      BY <3>1, <3>2, SwitchRights DEF Flag
    <3> QED
      BY <1>1, <3>3
  <2> QED
    BY <2>2, <2>3, <2>4
<1>4. ASSUME NEW r \in Request, CommitSoftDelete(r) PROVE j = k
  BY <1>1, <1>4, SoftDeleteRights
<1>5. ASSUME NEW r \in Request, CommitHardDelete(r) PROVE j = k
  BY <1>1, <1>5 DEF CommitHardDelete
<1>6. ASSUME NEW r \in Request, InsertAffect(r) \/ UpdateAffect(r) PROVE j = k
  BY <1>1, <1>6, AffectRights
<1> QED
  BY <1>1, <1>2, <1>3, <1>4, <1>5, <1>6, OthersKeepRows DEF vars, rows

\* A user whose rights are managed one request at a time never has two roles on
\* one site, so that the PIN check can answer.
THEOREM OneRolePerSiteCorrect == Spec => []OneRolePerSite
<1>1. Init => OneRolePerSite
  BY SeedAssumption DEF Init, OneRolePerSite, Keys
<1>2. IInv /\ ExclusiveInv /\ OneRolePerSite /\ [Next /\ NoOverlap']_vars => OneRolePerSite'
  BY NextOneRole
<1> QED
  BY <1>1, <1>2, Invariance, ExclusiveInvariance, PTL DEF Spec

\* How a site gets its second role for a user.
LEMMA SecondRole ==
    ASSUME IInv, Next, NEW u \in User, NEW s \in Site, ~SeveralRoles(u, s), SeveralRoles(u, s)'
    PROVE  \E r \in Request :
              /\ pc[r] \in {"affecting", "updating"} /\ pc'[r] = "ok"
              /\ call[r].user = u
              /\ pc[r] = "affecting" => call[r].site = s /\ Keys(seen[r]) = {}
              /\ pc[r] = "updating" => call[r].org = organisation[s] /\ Stale(r)
<1>1. PICK a \in Role, b \in Role :
        a # b /\ affectation'[<<u, s, a>>] # None /\ affectation'[<<u, s, b>>] # None
  BY DEF SeveralRoles, Keys
<1> DEFINE j == <<u, s, a>>
           k == <<u, s, b>>
<1>2. /\ j \in Key /\ j[1] = u /\ j[2] = s /\ j[3] = a
      /\ k \in Key /\ k[1] = u /\ k[2] = s /\ k[3] = b
  BY DEF Key
<1>3. /\ affectation'[j] # None /\ affectation'[k] # None
      /\ affectation[j] = None \/ affectation[k] = None
  BY <1>1, <1>2 DEF SeveralRoles, Keys
<1> HIDE DEF j, k
<1>4. ASSUME NEW r \in Request, CommitCreate(r) PROVE FALSE
  <2>1. CASE u = call[r].user
    <3>1. affectation[j] = None /\ affectation[k] = None
      BY <1>2, <1>4, <2>1 DEF CommitCreate, IInv, AssignedAreUsers, HasRow
    <3> QED
      BY <1>1, <1>2, <1>3, <1>4, <3>1 DEF CommitCreate
  <2>2. CASE u # call[r].user
    BY <1>2, <1>3, <1>4, <2>2 DEF CommitCreate
  <2> QED
    BY <2>1, <2>2
<1>5. ASSUME NEW r \in Request, CommitUpdate(r)
      PROVE  /\ pc[r] = "updating" /\ pc'[r] = "ok" /\ call[r].user = u
             /\ call[r].org = organisation[s] /\ Stale(r)
  <2>1. pc[r] = "updating" /\ call[r] \in UpdateCall /\ pc'[r] = "ok"
    BY <1>5 DEF CommitUpdate, Finish, IInv, TypeOK, Sane
  <2>2. call[r].user = u /\ call[r].org = organisation[s]
    BY <1>2, <1>3, <1>5, UpdateRights
  <2>3. CASE Rebuild(r)
    <3>1. PICK role \in Role :
            \A i \in Key :
               affectation'[i] # None =>
                  \/ i[1] = call[r].user /\ i[3] = role /\ organisation[i[2]] = call[r].org
                  \/ i \notin Keys(seen[r]) /\ affectation'[i] = affectation[i]
      BY <2>1, <2>3, RebuildRights
    <3>2. PICK i \in {j, k} : i \notin Keys(seen[r]) /\ affectation[i] # None
      BY <1>1, <1>2, <1>3, <3>1
    <3>3. i \in Key /\ i[1] = call[r].user /\ organisation[i[2]] = call[r].org
      BY <1>2, <2>2, <3>2
    <3>4. i \in Keys(OrgAssignments(call[r].user, call[r].org))
      BY <3>2, <3>3 DEF OrgAssignments, Keys
    <3> QED
      BY <2>1, <2>2, <3>2, <3>4 DEF Stale
  <2>4. CASE ~Rebuild(r)
    <3>1. \/ UNCHANGED affectation
          \/ call[r].active # None /\ Switch(r, call[r].active)
      BY <1>5, <2>4 DEF CommitUpdate, ChangeRights
    <3>2. call[r].active \in Flag /\ seen[r] \in [Key -> Flag]
      BY <2>1 DEF UpdateCall, IInv, Sane, LoadedFrom
    <3>3. affectation[j] # None /\ affectation[k] # None
      BY <1>2, <1>3, <3>1, <3>2, SwitchRights DEF Flag
    <3> QED
      BY <1>3, <3>3
  <2> QED
    BY <2>3, <2>4
<1>6. ASSUME NEW r \in Request, CommitSoftDelete(r) PROVE FALSE
  BY <1>2, <1>3, <1>6, SoftDeleteRights
<1>7. ASSUME NEW r \in Request, CommitHardDelete(r) PROVE FALSE
  BY <1>2, <1>3, <1>7 DEF CommitHardDelete
<1>8. ASSUME NEW r \in Request, InsertAffect(r)
      PROVE  /\ pc[r] = "affecting" /\ pc'[r] = "ok" /\ call[r].user = u
             /\ call[r].site = s /\ Keys(seen[r]) = {}
  <2>1. pc[r] = "affecting" /\ Keys(seen[r]) = {} /\ pc'[r] = "ok"
    BY <1>8 DEF InsertAffect, Finish, IInv, TypeOK
  <2>2. j = <<call[r].user, call[r].site, call[r].role>> \/ k = <<call[r].user, call[r].site, call[r].role>>
    BY <1>2, <1>3, <1>8 DEF InsertAffect, IInv, TypeOK
  <2> QED
    BY <1>2, <2>1, <2>2
<1>9. ASSUME NEW r \in Request, UpdateAffect(r) PROVE FALSE
  <2>1. seen[r] \in [Key -> Flag] /\ call[r].active \in BOOLEAN /\ Switch(r, call[r].active)
    BY <1>9 DEF UpdateAffect, IInv, Sane, LoadedOne, AffectCall
  <2> QED
    BY <1>2, <1>3, <2>1, SwitchRights
<1>10. ~UNCHANGED rows
  BY <1>3 DEF rows
<1> QED
  BY <1>4, <1>5, <1>6, <1>7, <1>8, <1>9, <1>10, OthersKeepRows

\* However requests interleave, a second role on a site comes from the assignment
\* endpoint or from a rebuild of rights that have changed since they were loaded.
THEOREM SecondRoleExplainedCorrect == Spec => SecondRoleExplained
<1> DEFINE Explained == \A u \in User, s \in Site : ~SeveralRoles(u, s) /\ SeveralRoles(u, s)' =>
              \E r \in Request :
                 /\ pc[r] \in {"affecting", "updating"} /\ pc'[r] = "ok"
                 /\ call[r].user = u
                 /\ pc[r] = "affecting" => call[r].site = s /\ Keys(seen[r]) = {}
                 /\ pc[r] = "updating" => call[r].org = organisation[s] /\ Stale(r)
<1>1. ASSUME IInv, Next PROVE Explained
  BY <1>1, SecondRole
<1>2. IInv /\ [Next /\ NoOverlap']_vars => [Explained]_vars
  BY <1>1
<1> HIDE DEF Explained
<1>3. Spec => [][Explained]_vars
  BY <1>2, Invariance, PTL DEF Spec
<1> QED
  BY <1>3 DEF SecondRoleExplained, Explained

-----------------------------------------------------------------------------
(* Rights after a deletion.                                                  *)

LEMMA NoneBack ==
    ASSUME IInv, ExclusiveInv, Next, NEW u \in Exclusive, account[u] = "deleted",
           NEW s \in Site, NEW role \in Role, affectation[<<u, s, role>>] # TRUE
    PROVE  affectation'[<<u, s, role>>] # TRUE
<1> SUFFICES ASSUME affectation'[<<u, s, role>>] = TRUE PROVE FALSE
  OBVIOUS
<1> DEFINE k == <<u, s, role>>
<1>1. k \in Key /\ k[1] = u /\ affectation'[k] # affectation[k] /\ affectation'[k] = TRUE
  BY ExclusiveAssumption DEF Key
<1> HIDE DEF k
<1>2. ASSUME NEW r \in Request, CommitCreate(r) PROVE FALSE
  BY <1>1, <1>2 DEF CommitCreate
<1>3. ASSUME NEW r \in Request, CommitUpdate(r) PROVE FALSE
  <2>1. call[r].user = u
    BY <1>1, <1>3, UpdateRights
  <2> QED
    BY <1>3, <2>1 DEF CommitUpdate, ExclusiveInv
<1>4. ASSUME NEW r \in Request, CommitSoftDelete(r) PROVE FALSE
  BY <1>1, <1>4, SoftDeleteRights
<1>5. ASSUME NEW r \in Request, CommitHardDelete(r) PROVE FALSE
  BY <1>1, <1>5 DEF CommitHardDelete
<1>6. ASSUME NEW r \in Request, InsertAffect(r) \/ UpdateAffect(r) PROVE FALSE
  BY <1>1, <1>6, AffectRights
<1> QED
  BY <1>1, <1>2, <1>3, <1>4, <1>5, <1>6, OthersKeepRows DEF rows

\* A soft delete leaves active, in its organisation, only what has changed since it
\* loaded it.
LEMMA SoftDeleteDisarms == ASSUME IInv, Next, NEW r \in Request PROVE Disarms(r)
<1> SUFFICES ASSUME pc[r] = "deleting", ~call[r].hard, pc'[r] = "ok",
                    NEW s \in OrgSites(call[r].org), NEW role \in Role,
                    affectation'[<<call[r].user, s, role>>] = TRUE,
                    affectation[<<call[r].user, s, role>>] = seen[r][<<call[r].user, s, role>>]
             PROVE  FALSE
  BY DEF Disarms
<1> DEFINE k == <<call[r].user, s, role>>
<1>1. /\ seen[r] \in [Key -> Flag] /\ call[r].user \in User
      /\ k \in Key
  BY DEF IInv, Sane, LoadedFrom, DeleteCall, Key, OrgSites
<1>2. Switch(r, FALSE)
  <2>1. CommitSoftDelete(r) \/ CommitHardDelete(r)
    BY CommitsItself
  <2> QED
    BY <2>1 DEF CommitSoftDelete, CommitHardDelete
<1> HIDE DEF k
<1>3. affectation'[k] = TRUE /\ affectation[k] = seen[r][k]
  BY DEF k
<1>4. CASE k \in Keys(seen[r])
  BY <1>1, <1>2, <1>3, <1>4, SwitchRights
<1>5. CASE k \notin Keys(seen[r])
  BY <1>1, <1>2, <1>3, <1>5, SwitchRights DEF Keys
<1> QED
  BY <1>4, <1>5

\* A soft delete ends all rights in its organisation that nobody gave meanwhile,
\* and a deleted user whose rights are managed one request at a time gets none back.
THEOREM RightsEndCorrect == Spec => RightsEnd
<1> DEFINE End == (\A r \in Request : Disarms(r)) /\ (\A u \in Exclusive : StaysDisarmed(u))
<1>1. ASSUME IInv, ExclusiveInv, Next PROVE End
  BY <1>1, SoftDeleteDisarms, NoneBack DEF StaysDisarmed
<1>2. IInv /\ ExclusiveInv /\ NoOverlap /\ [Next /\ NoOverlap']_vars => [End]_vars
  BY <1>1
<1> HIDE DEF End
<1>3. Spec => [][End]_vars
  BY <1>2, Invariance, ExclusiveInvariance, PTL DEF Spec
<1> QED
  BY <1>3 DEF RightsEnd, End

-----------------------------------------------------------------------------
(* Who an e-mail stands for.                                                 *)

LEMMA NextOneUserPerEmail ==
    ASSUME IInv, OneUserPerEmail, [Next /\ NoOverlap']_vars
    PROVE  OneUserPerEmail'
<1> SUFFICES ASSUME NEW u \in User, NEW v \in User, u # v, HasRow(u)', HasRow(v)',
                    email'[u] = email'[v]
             PROVE  FALSE
  BY DEF OneUserPerEmail
<1>1. ~(HasRow(u) /\ HasRow(v) /\ email[u] = email[v])
  BY DEF OneUserPerEmail
<1>2. ASSUME NEW r \in Request, CommitCreate(r) PROVE FALSE
  BY <1>1, <1>2 DEF CommitCreate, EmailFree, HasRow, IInv, TypeOK
<1>3. ASSUME NEW r \in Request, CommitUpdate(r) PROVE FALSE
  BY <1>1, <1>3 DEF CommitUpdate, EmailFree, HasRow, IInv, TypeOK
<1>4. ASSUME NEW r \in Request, CommitSoftDelete(r) PROVE FALSE
  BY <1>1, <1>4 DEF CommitSoftDelete, HasRow, IInv, TypeOK
<1>5. ASSUME NEW r \in Request, CommitHardDelete(r) PROVE FALSE
  BY <1>1, <1>5 DEF CommitHardDelete, HasRow, IInv, TypeOK
<1>6. ASSUME NEW r \in Request, InsertAffect(r) \/ UpdateAffect(r) PROVE FALSE
  BY <1>1, <1>6 DEF InsertAffect, UpdateAffect, HasRow
<1>7. ~UNCHANGED rows
  BY <1>1 DEF rows, HasRow
<1> QED
  BY <1>2, <1>3, <1>4, <1>5, <1>6, <1>7, OthersKeepRows DEF vars

\* However requests interleave, an e-mail finds one user at most.
THEOREM OneUserPerEmailCorrect == Spec => []OneUserPerEmail
<1>1. Init => OneUserPerEmail
  BY DEF Init, OneUserPerEmail, HasRow
<1>2. IInv /\ OneUserPerEmail /\ [Next /\ NoOverlap']_vars => OneUserPerEmail'
  BY NextOneUserPerEmail
<1> QED
  BY <1>1, <1>2, Invariance, PTL DEF Spec

-----------------------------------------------------------------------------
(* Rights in other organisations.                                            *)

\* The requests of one organisation leave a user's rights in another one alone: an
\* update and a soft delete in every interleaving, a hard delete without overlap.
THEOREM TenantsKeepRightsCorrect == Spec => TenantsKeepRights
<1> DEFINE Alone == \A r \in Request :
              /\ pc[r] \in {"updating", "deleting"} /\ pc'[r] = "ok"
              /\ pc[r] = "deleting" /\ call[r].hard => call[r].user \in Exclusive
              => \A s \in Site \ OrgSites(call[r].org), role \in Role :
                    affectation'[<<call[r].user, s, role>>] = affectation[<<call[r].user, s, role>>]
<1>1. ASSUME IInv, ExclusiveInv, Next PROVE Alone
  <2> SUFFICES ASSUME NEW r \in Request, pc[r] \in {"updating", "deleting"}, pc'[r] = "ok",
                      pc[r] = "deleting" /\ call[r].hard => call[r].user \in Exclusive,
                      NEW s \in Site \ OrgSites(call[r].org), NEW role \in Role,
                      affectation'[<<call[r].user, s, role>>] # affectation[<<call[r].user, s, role>>]
               PROVE  FALSE
    OBVIOUS
  <2> USE <1>1
  <2> DEFINE k == <<call[r].user, s, role>>
  <2>1. call[r].user \in User
    BY DEF IInv, Sane, UpdateCall, DeleteCall
  <2>2. k \in Key /\ k[1] = call[r].user /\ k[2] = s /\ affectation'[k] # affectation[k]
        /\ organisation[s] # call[r].org
    BY <2>1 DEF Key, OrgSites
  <2> HIDE DEF k
  <2>3. CASE CommitUpdate(r)
    BY <2>2, <2>3, UpdateRights
  <2>4. CASE CommitSoftDelete(r)
    BY <2>2, <2>4, SoftDeleteRights
  <2>5. CASE CommitHardDelete(r)
    <3>1. NotOutside(call[r].user, call[r].org)
      BY <2>5 DEF CommitHardDelete, ExclusiveInv
    <3> QED
      BY <2>2, <2>5, <3>1 DEF NotOutside, CommitHardDelete
  <2> QED
    BY <2>3, <2>4, <2>5, CommitsItself
<1>2. IInv /\ ExclusiveInv /\ NoOverlap /\ [Next /\ NoOverlap']_vars => [Alone]_vars
  BY <1>1
<1> HIDE DEF Alone
<1>3. Spec => [][Alone]_vars
  BY <1>2, Invariance, ExclusiveInvariance, PTL DEF Spec
<1> QED
  BY <1>3 DEF TenantsKeepRights, Alone

-----------------------------------------------------------------------------
(* Refinement.                                                               *)

signed == [u \in User |-> SignedBy(u)]

\* Only the commit of a record adds a signature, and none is withdrawn.
LEMMA SignedStays ==
    ASSUME IInv, Next, \A r \in Request : ~CommitRecord(r)
    PROVE  signed' = signed
<1>1. ASSUME NEW q \in records PROVE q \in Request /\ pc[q] = "ok"
  BY <1>1 DEF IInv, TypeOK, Sane
<1>2. ASSUME NEW q \in records, NEW r \in Request, NEW next, NEW c, NEW loaded,
             Begin(r, next, c, loaded), pc[r] = "new"
      PROVE  call'[q] = call[q]
  BY <1>1, <1>2 DEF Begin, IInv, TypeOK
<1>3. ASSUME NEW q \in records, NEW r \in Request, NEW answer, Finish(r, answer), pc[r] # "ok"
      PROVE  call'[q] = call[q]
  BY <1>1, <1>3 DEF Finish, IInv, TypeOK
<1>4. ASSUME NEW q \in records, NEW r \in Request,
             CheckCreate(r) \/ LoadUpdate(r) \/ LoadDelete(r) \/ LoadAffect(r)
             \/ CheckPassword(r) \/ CheckPin(r)
      PROVE  call'[q] = call[q]
  <2>1. PICK next, c, loaded : Begin(r, next, c, loaded) /\ pc[r] = "new"
    <3>1. CASE CheckCreate(r)
      BY <3>1 DEF CheckCreate
    <3>2. CASE LoadUpdate(r)
      BY <3>2 DEF LoadUpdate
    <3>3. CASE LoadDelete(r)
      BY <3>3 DEF LoadDelete
    <3>4. CASE LoadAffect(r)
      BY <3>4 DEF LoadAffect
    <3>5. CASE CheckPassword(r)
      BY <3>5 DEF CheckPassword
    <3>6. CASE CheckPin(r)
      BY <3>6 DEF CheckPin
    <3> QED
      BY <1>4, <3>1, <3>2, <3>3, <3>4, <3>5, <3>6
  <2> QED
    BY <1>2, <2>1
<1>5. ASSUME NEW q \in records, NEW r \in Request,
             CommitCreate(r) \/ CommitUpdate(r) \/ CommitSoftDelete(r) \/ CommitHardDelete(r)
             \/ InsertAffect(r) \/ UpdateAffect(r) \/ IssueToken(r) \/ RaiseMultiple(r) \/ Fail(r)
      PROVE  call'[q] = call[q]
  <2>1. (Finish(r, "ok") \/ Finish(r, "failed")) /\ pc[r] # "ok"
    BY <1>5 DEF CommitCreate, CommitUpdate, CommitSoftDelete, CommitHardDelete, InsertAffect,
                UpdateAffect, IssueToken, RaiseMultiple, Fail, InFlight
  <2> QED
    BY <1>3, <2>1
<1>6. \A q \in records : call'[q] = call[q]
  BY <1>4, <1>5 DEF Next
<1>7. records' = records
  BY DEF Next, CheckCreate, CommitCreate, LoadUpdate, CommitUpdate, LoadDelete, CommitSoftDelete,
         CommitHardDelete, LoadAffect, InsertAffect, UpdateAffect, CheckPassword, IssueToken,
         CheckPin, RaiseMultiple, Fail
<1> QED
  BY <1>6, <1>7 DEF signed, SignedBy

\* However requests interleave, the personnel service implements employment: hired
\* once, dismissed for good, erased only while nothing is signed.
THEOREM EmploymentImplemented == Spec => ImplementsEmployment
<1>1. Init => Staff!Init
  BY DEF Init, Staff!Init, SignedBy
<1>2. ASSUME IInv, ExclusiveInv, [Next]_vars PROVE [Staff!Next]_<<account, signed>>
  <2> USE <1>2
  <2>1. ASSUME NEW r \in Request, CommitRecord(r) PROVE Staff!Next
    <3> DEFINE u == call[r].user
    <3>1. /\ u \in User /\ HasRow(u) /\ r \notin records /\ records' = records \cup {r}
          /\ UNCHANGED <<account, call>>
          /\ u \in Exclusive => account[u] = "active"
      BY <2>1 DEF CommitRecord, IInv, Sane, SignCall, ExclusiveInv, rows
    <3>2. signed' = [signed EXCEPT ![u] = @ \cup {r}]
      BY <3>1 DEF signed, SignedBy
    <3>3. r \in Request \ signed[u]
      BY <3>1 DEF signed, SignedBy
    <3>4. account[u] \in IF u \in Exclusive THEN {"active"} ELSE {"active", "deleted"}
      BY <3>1 DEF HasRow
    <3> HIDE DEF u
    <3>5. Staff!Sign(u)
      BY <3>1, <3>2, <3>3, <3>4 DEF Staff!Sign, signed
    <3> QED
      BY <3>1, <3>5 DEF Staff!Next
  <2>2. CASE Next /\ \A r \in Request : ~CommitRecord(r)
    <3>1. UNCHANGED signed
      BY <2>2, SignedStays
    <3>2. ASSUME NEW r \in Request, CommitCreate(r) PROVE Staff!Next
      <4>1. call[r].user \in User
        BY <3>2 DEF CommitCreate, IInv, Sane, CreateCall
      <4>2. Staff!Hire(call[r].user)
        BY <3>1, <3>2 DEF CommitCreate, Staff!Hire, Staff!Move, signed
      <4> QED
        BY <4>1, <4>2 DEF Staff!Next
    <3>3. ASSUME NEW r \in Request, CommitSoftDelete(r) PROVE [Staff!Next]_<<account, signed>>
      <4>1. call[r].user \in User /\ account[call[r].user] \in {"active", "deleted"}
            /\ account' = [account EXCEPT ![call[r].user] = "deleted"]
        BY <3>3 DEF CommitSoftDelete, IInv, Sane, DeleteCall, HasRow
      <4>2. CASE account[call[r].user] = "deleted"
        BY <3>1, <4>1, <4>2 DEF IInv, TypeOK
      <4>3. CASE account[call[r].user] = "active"
        <5>1. Staff!Dismiss(call[r].user)
          BY <3>1, <4>1, <4>3 DEF Staff!Dismiss, Staff!Move, signed
        <5> QED
          BY <4>1, <5>1 DEF Staff!Next
      <4> QED
        BY <4>1, <4>2, <4>3
    <3>4. ASSUME NEW r \in Request, CommitHardDelete(r) PROVE [Staff!Next]_<<account, signed>>
      <4>1. /\ call[r].user \in User /\ account[call[r].user] \in {"active", "deleted", "gone"}
            /\ account' = [account EXCEPT ![call[r].user] = "gone"]
            /\ signed[call[r].user] = {}
        BY <3>4 DEF CommitHardDelete, IInv, TypeOK, Sane, DeleteCall, signed
      <4>2. CASE account[call[r].user] = "gone"
        BY <3>1, <4>1, <4>2 DEF IInv, TypeOK
      <4>3. CASE account[call[r].user] \in {"active", "deleted"}
        <5>1. Staff!Erase(call[r].user)
          BY <3>1, <4>1, <4>3 DEF Staff!Erase, Staff!Move, signed
        <5> QED
          BY <4>1, <5>1 DEF Staff!Next
      <4> QED
        BY <4>1, <4>2, <4>3
    <3>5. ASSUME \A r \in Request : ~CommitCreate(r) /\ ~CommitSoftDelete(r) /\ ~CommitHardDelete(r)
          PROVE  UNCHANGED account
      BY <2>2, <3>5 DEF Next, CheckCreate, LoadUpdate, CommitUpdate, LoadDelete, LoadAffect,
                  InsertAffect, UpdateAffect, CheckPassword, IssueToken, CheckPin, RaiseMultiple,
                  Fail, rows
    <3> QED
      BY <3>1, <3>2, <3>3, <3>4, <3>5
  <2>3. CASE UNCHANGED vars
    BY <2>3 DEF vars, rows, signed, SignedBy
  <2> QED
    BY <2>1, <2>2, <2>3
<1>3. IInv /\ ExclusiveInv /\ [Next /\ NoOverlap']_vars =>
          [Staff!Next]_<<account, [u \in User |-> SignedBy(u)]>>
  BY <1>2 DEF signed
<1> QED
  BY <1>1, <1>3, Invariance, ExclusiveInvariance, PTL DEF Spec, ImplementsEmployment, Staff!Spec

=============================================================================
