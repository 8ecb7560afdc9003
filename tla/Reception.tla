----------------------------- MODULE Reception -----------------------------
(***************************************************************************)
(* Deliveries (modules/receptions) and the catalog products they are       *)
(* scanned against (modules/catalog).                                      *)
(*                                                                         *)
(* add_item SELECTs the session, then the product, and commits the line    *)
(* (with its ticket, when it is not compliant) some awaits later; the      *)
(* session may be closed, and the product edited, in between.  The product *)
(* handlers are those of the catalog: its router is mounted before the one *)
(* of receptions and answers the same /products paths.                     *)
(*                                                                         *)
(* A line, and the ticket opened for it, are identified by the request     *)
(* that creates them.                                                      *)
(***************************************************************************)
EXTENDS Integers

CONSTANTS
    Session,    \* primary keys of reception_sessions
    Product,    \* primary keys of products
    Temp,       \* temperatures, in degrees
    Request,    \* HTTP requests; each one is served once
    Exclusive,  \* sessions and products whose requests happen never to overlap
    None,       \* SQL NULL
    Unset       \* a field the request leaves out

Bound == Temp \cup {None}
ProductRow == [active : BOOLEAN, control : BOOLEAN, min : Bound, max : Bound]

ASSUME TempAssumption == Temp \subseteq Int
ASSUME ExclusiveAssumption == Exclusive \subseteq Session \cup Product
ASSUME NoneAssumption ==
    /\ None \notin Int \cup Session \cup Product \cup Request \cup {"OPEN", "CLOSED"}
    /\ None \notin ProductRow
    /\ Unset \notin Int \cup BOOLEAN \cup {None}

VARIABLES
    status,     \* status column of each session; None: no such row yet
    opened,     \* the request that opened the session; its photo is bl_photo_s3_key
    closed_at,  \* closed_at column: the request that wrote it
    product,    \* row of each product; None: no such row yet
    items,      \* committed rows of reception_items
    tickets,    \* committed non-conformities, by the line they were opened for
    photos,     \* objects in the S3 bucket, one per uploading request
    pc,         \* where each request is
    call,       \* what each request that found its row asked for
    seen        \* the product each request loaded

sessions == <<status, opened, closed_at>>
history == <<items, tickets>>
vars == <<sessions, product, history, photos, pc, call, seen>>

OpenCall == [op : {"open"}, session : {None}, product : {None}, photo : BOOLEAN]
ItemCall == [op : {"item"}, session : Session, product : Product,
             measured : Bound, packaging_ok : BOOLEAN, is_compliant : BOOLEAN]
CloseCall == [op : {"close"}, session : Session, product : {None}]
PatchCall == [op : {"patch"}, session : {None}, product : Product,
              control : BOOLEAN \cup {Unset}, min : Bound \cup {Unset},
              max : Bound \cup {Unset}]
DeleteCall == [op : {"delete"}, session : {None}, product : Product]
Call == OpenCall \cup ItemCall \cup CloseCall \cup PatchCall \cup DeleteCall

InFlight == {"uploading", "opening", "scanning", "judged", "ticketed", "closing",
             "patching", "deleting"}
Answered == {"ok", "rejected", "failed"}

TypeOK ==
    /\ status \in [Session -> {None, "OPEN", "CLOSED"}]
    /\ opened \in [Session -> Request \cup {None}]
    /\ closed_at \in [Session -> Request \cup {None}]
    /\ product \in [Product -> ProductRow \cup {None}]
    /\ items \subseteq Request
    /\ tickets \subseteq Request
    /\ photos \subseteq Request
    /\ pc \in [Request -> {"new"} \cup InFlight \cup Answered]
    /\ call \in [Request -> Call \cup {None}]
    /\ seen \in [Request -> ProductRow \cup {None}]

Init ==
    /\ status = [s \in Session |-> None]
    /\ opened = [s \in Session |-> None]
    /\ closed_at = [s \in Session |-> None]
    /\ product = [p \in Product |-> None]
    /\ items = {}
    /\ tickets = {}
    /\ photos = {}
    /\ pc = [r \in Request |-> "new"]
    /\ call = [r \in Request |-> None]
    /\ seen = [r \in Request |-> None]

Goto(r, next) == pc' = [pc EXCEPT ![r] = next] /\ UNCHANGED <<call, seen>>

\* r is answered, and leaves no row behind that needs what it asked for.
Finish(r, answer) ==
    /\ pc' = [pc EXCEPT ![r] = answer]
    /\ call' = [call EXCEPT ![r] = None]
    /\ seen' = [seen EXCEPT ![r] = None]

-----------------------------------------------------------------------------
(* open_session.                                                            *)

\* Mutant: the key is stored without waiting for the upload.
Open_NoUpload(r) ==
    \E photo \in BOOLEAN :
        /\ pc[r] = "new"
        /\ call' = [call EXCEPT ![r] =
                      [op |-> "open", session |-> None, product |-> None, photo |-> photo]]
        /\ pc' = [pc EXCEPT ![r] = "opening"]
        /\ UNCHANGED <<sessions, product, history, photos, seen>>

Open(r) ==
    \E photo \in BOOLEAN :
        /\ pc[r] = "new"
        /\ call' = [call EXCEPT ![r] =
                      [op |-> "open", session |-> None, product |-> None, photo |-> photo]]
        /\ pc' = [pc EXCEPT ![r] = IF photo THEN "uploading" ELSE "opening"]
        /\ UNCHANGED <<sessions, product, history, photos, seen>>

UploadPhoto(r) ==
    /\ pc[r] = "uploading"
    /\ photos' = photos \cup {r}
    /\ Goto(r, "opening")
    /\ UNCHANGED <<sessions, product, history>>

\* Mutant: a column default the status check does not know.
CommitOpen_Draft(r) ==
    \E s \in Session :
        /\ pc[r] = "opening"
        /\ status[s] = None
        /\ status' = [status EXCEPT ![s] = "DRAFT"]
        /\ opened' = [opened EXCEPT ![s] = r]
        /\ Goto(r, "ok")
        /\ UNCHANGED <<closed_at, product, history, photos>>

CommitOpen(r) ==
    \E s \in Session :
        /\ pc[r] = "opening"
        /\ status[s] = None
        /\ status' = [status EXCEPT ![s] = "OPEN"]
        /\ opened' = [opened EXCEPT ![s] = r]
        /\ Goto(r, "ok")
        /\ UNCHANGED <<closed_at, product, history, photos>>

-----------------------------------------------------------------------------
(* add_item.                                                                *)

\* Mutant: the session only has to exist.
LoadSession_Any(r, c, next) ==
    /\ pc[r] = "new"
    /\ status[c.session] # None
    /\ call' = [call EXCEPT ![r] = c]
    /\ pc' = [pc EXCEPT ![r] = next]
    /\ UNCHANGED <<sessions, product, history, photos, seen>>

\* r arrives and loads its session: 404 if there is none, 409 if it is CLOSED.
LoadSession(r, c, next) ==
    /\ pc[r] = "new"
    /\ IF status[c.session] = "OPEN"
       THEN call' = [call EXCEPT ![r] = c] /\ pc' = [pc EXCEPT ![r] = next]
       ELSE pc' = [pc EXCEPT ![r] = "rejected"] /\ UNCHANGED call
    /\ UNCHANGED <<sessions, product, history, photos, seen>>

\* ReceptionItemCreate refuses a compliant line whose packaging is damaged.
AddItem(r) ==
    \E s \in Session, p \in Product, t \in Bound, packaging, claim \in BOOLEAN :
        /\ claim => packaging
        /\ LoadSession(r, [op |-> "item", session |-> s, product |-> p, measured |-> t,
                           packaging_ok |-> packaging, is_compliant |-> claim],
                       "scanning")

IsActive(p) == product[p] # None /\ product[p].active

\* A SELECT of its own: only an active product is found.
LoadProduct(r) ==
    LET p == call[r].product IN
    /\ pc[r] = "scanning"
    /\ IF IsActive(p)
       THEN /\ seen' = [seen EXCEPT ![r] = product[p]]
            /\ pc' = [pc EXCEPT ![r] = "judged"]
            /\ UNCHANGED call
       ELSE Finish(r, "rejected")
    /\ UNCHANGED <<sessions, product, history, photos>>

\* Mutant: the upper bound alone is checked.
InRange_UpperOnly(row, t) == row.control /\ t # None /\ row.max # None => t <= row.max

\* The cold-chain check; it passes when the reading or a bound is missing.
InRange(row, t) ==
    row.control /\ t # None /\ row.min # None /\ row.max # None =>
        row.min <= t /\ t <= row.max

\* is_compliant of the line of request r: the claim, unless the server knows better.
Compliant(r) ==
    /\ call[r].is_compliant
    /\ call[r].packaging_ok
    /\ InRange(seen[r], call[r].measured)

\* The ticket is flushed first, to have its key, in the transaction of the line.
FlushTicket(r) ==
    /\ pc[r] = "judged"
    /\ ~Compliant(r)
    /\ Goto(r, "ticketed")
    /\ UNCHANGED <<sessions, product, history, photos>>

\* Mutant: the ticket is left to a later transaction.
CommitItem_NoTicket(r) ==
    /\ pc[r] \in {"judged", "ticketed"}
    /\ pc[r] = "judged" => Compliant(r)
    /\ items' = items \cup {r}
    /\ Goto(r, "ok")
    /\ UNCHANGED <<sessions, product, tickets, photos>>

CommitItem(r) ==
    /\ pc[r] \in {"judged", "ticketed"}
    /\ pc[r] = "judged" => Compliant(r)
    /\ items' = items \cup {r}
    /\ tickets' = IF pc[r] = "ticketed" THEN tickets \cup {r} ELSE tickets
    /\ Goto(r, "ok")
    /\ UNCHANGED <<sessions, product, photos>>

-----------------------------------------------------------------------------
(* close_session.                                                           *)

Close(r) ==
    \E s \in Session :
        LoadSession(r, [op |-> "close", session |-> s, product |-> None], "closing")

CommitClose(r) ==
    LET s == call[r].session IN
    /\ pc[r] = "closing"
    /\ status' = [status EXCEPT ![s] = "CLOSED"]
    /\ closed_at' = [closed_at EXCEPT ![s] = r]
    /\ Finish(r, "ok")
    /\ UNCHANGED <<opened, product, history, photos>>

-----------------------------------------------------------------------------
(* Catalog products.                                                        *)

\* create_product: ProductBase requires both bounds with the cold-chain flag,
\* and clears them without it.
CreateProduct(p) ==
    \E control \in BOOLEAN, min, max \in Bound :
        /\ IF control THEN min # None /\ max # None /\ min <= max ELSE min = None /\ max = None
        /\ product[p] = None
        /\ product' = [product EXCEPT ![p] =
                         [active |-> TRUE, control |-> control, min |-> min, max |-> max]]
        /\ UNCHANGED <<sessions, history, photos, pc, call, seen>>

\* Mutant: the order of the bounds is not looked at.
ValidPatch_Unordered(c) ==
    /\ c.control = TRUE => c.min \in Temp /\ c.max \in Temp
    /\ c.control = FALSE => c.min = None /\ c.max = None

\* ProductUpdate validates the bounds only when the flag is given.
ValidPatch(c) ==
    /\ c.control = TRUE => c.min \in Temp /\ c.max \in Temp /\ c.min <= c.max
    /\ c.control = FALSE => c.min = None /\ c.max = None

\* r arrives and loads the product if it is active; otherwise it answers 404.
LoadActive(r, c, next) ==
    /\ pc[r] = "new"
    /\ IF IsActive(c.product)
       THEN /\ call' = [call EXCEPT ![r] = c]
            /\ seen' = [seen EXCEPT ![r] = product[c.product]]
            /\ pc' = [pc EXCEPT ![r] = next]
       ELSE /\ pc' = [pc EXCEPT ![r] = "rejected"]
            /\ UNCHANGED <<call, seen>>
    /\ UNCHANGED <<sessions, product, history, photos>>

PatchProduct(r) ==
    \E p \in Product, control \in BOOLEAN \cup {Unset}, min, max \in Bound \cup {Unset} :
        LET c == [op |-> "patch", session |-> None, product |-> p,
                  control |-> control, min |-> min, max |-> max] IN
        ValidPatch(c) /\ LoadActive(r, c, "patching")

\* The UPDATE writes the fields that were given and differ from the loaded ones.
Written(field, loaded, current) == IF field \in {Unset, loaded} THEN current ELSE field

CommitPatch(r) ==
    LET c == call[r] IN
    /\ pc[r] = "patching"
    /\ product' = [product EXCEPT ![c.product] =
                     [active |-> @.active,
                      control |-> Written(c.control, seen[r].control, @.control),
                      min |-> Written(c.min, seen[r].min, @.min),
                      max |-> Written(c.max, seen[r].max, @.max)]]
    /\ Finish(r, "ok")
    /\ UNCHANGED <<sessions, history, photos>>

\* soft_delete_product.
DeleteProduct(r) ==
    \E p \in Product :
        LoadActive(r, [op |-> "delete", session |-> None, product |-> p], "deleting")

CommitDelete(r) ==
    /\ pc[r] = "deleting"
    /\ product' = [product EXCEPT ![call[r].product].active = FALSE]
    /\ Finish(r, "ok")
    /\ UNCHANGED <<sessions, history, photos>>

-----------------------------------------------------------------------------
\* A request may die before its commit: the upload fails, a foreign key is not
\* there, the worker stops.  Its transaction rolls back; a photo stays.
Fail(r) ==
    /\ pc[r] \in InFlight
    /\ Finish(r, "failed")
    /\ UNCHANGED <<sessions, product, history, photos>>

Proceed(r) ==
    \/ UploadPhoto(r)
    \/ CommitOpen(r)
    \/ LoadProduct(r)
    \/ FlushTicket(r)
    \/ CommitItem(r)
    \/ CommitClose(r)
    \/ CommitPatch(r)
    \/ CommitDelete(r)

Next ==
    \/ \E p \in Product : CreateProduct(p)
    \/ \E r \in Request :
         \/ Open(r)
         \/ AddItem(r)
         \/ Close(r)
         \/ PatchProduct(r)
         \/ DeleteProduct(r)
         \/ Proceed(r)
         \/ Fail(r)

\* Nothing in the program keeps the requests for a session or a product apart.
\* Exclusive is there to state what holds for those where they happen to be.
Row(r) == {call[r].session, call[r].product} \ {None}

NoOverlap ==
    \A q, r \in Request :
        q # r /\ pc[q] \in InFlight /\ pc[r] \in InFlight =>
            Row(q) \cap Row(r) \cap Exclusive = {}

Spec == Init /\ [][Next /\ NoOverlap']_vars

-----------------------------------------------------------------------------
(* What the code keeps, however its requests interleave.                    *)

\* A line on record is refused if and only if it has its ticket: add_item
\* commits both together.
ItemHasTicket ==
    /\ tickets \subseteq items
    /\ \A r \in items : r \in tickets <=> ~Compliant(r)

\* The delivery note of a session is in the bucket (open_session uploads first).
DeliveryNoteOnFile ==
    \A s \in Session : opened[s] # None /\ call[opened[s]].photo => opened[s] \in photos

Scanning(s) ==
    {r \in Request : pc[r] \in {"scanning", "judged", "ticketed"} /\ call[r].session = s}

Lines(s) == {r \in items : call[r].session = s}

\* A closed session settles: only lines that were being scanned when it closed
\* can still be added to it, and once they are answered it never changes.
ClosingSettles ==
    [][\A s \in Session : status[s] = "CLOSED" =>
          /\ status'[s] = "CLOSED"
          /\ Scanning(s)' \subseteq Scanning(s)
          /\ Lines(s)' \subseteq Lines(s) \cup Scanning(s)]_vars

\* A product under cold-chain control has its bounds, in order.
HasRange(row) == row.control => row.min # None /\ row.max # None /\ row.min <= row.max

\* What a PATCH validates: a product's flag and bounds.
Scale(row) == <<row.control, row.min, row.max>>

\* A range is lost by two kinds of request only: a PATCH that leaves the flag out,
\* which is not validated, and one that overlaps another PATCH, which has changed what
\* this one loaded: its UPDATE leaves out the fields it gives as it had loaded them.
RangeLossExplained ==
    [][\A p \in Product :
          /\ product[p] # None => HasRange(product[p])
          /\ product'[p] # None /\ ~HasRange(product'[p])
          => \E r \in Request :
                /\ pc[r] = "patching" /\ pc'[r] = "ok" /\ call[r].product = p
                /\ \/ call[r].control = Unset
                   \/ p \notin Exclusive /\ Scale(seen[r]) # Scale(product[p])]_vars

-----------------------------------------------------------------------------
(* What it keeps for the sessions and products whose requests do not overlap.*)

OwnSession == Session \cap Exclusive
OwnProduct == Product \cap Exclusive

\* A line that is committed as compliant is within the range its product has
\* then, and its product is active.
CompliantInForce ==
    [][\A r \in items' \ items :
          call[r].product \in OwnProduct =>
          /\ IsActive(call[r].product)
          /\ Compliant(r) =>
                LET row == product[call[r].product] IN
                row.control /\ call[r].measured # None /\ row.min # None /\ row.max # None =>
                    call[r].measured \in row.min .. row.max]_vars

OnOwn(f) == [s \in OwnSession |-> f[s]]

Dossier == INSTANCE DeliveryDossier
    WITH Session <- OwnSession, Line <- Request,
         status <- OnOwn(status), closed_at <- OnOwn(closed_at),
         lines <- [s \in OwnSession |-> Lines(s)]

\* For these sessions the handlers implement the reception dossier: lines enter
\* an open one only, and it is closed once.
ImplementsDossier == Dossier!Spec

-----------------------------------------------------------------------------
(* What the documentation says.                                             *)

\* "When has_temperature_control is True, both min_temperature and
\* max_temperature are required and min must be <= max" (catalog/schemas.py).
ColdChainHasRange ==
    \A p \in Product : product[p] # None => HasRange(product[p])

=============================================================================
