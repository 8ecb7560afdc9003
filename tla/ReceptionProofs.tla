-------------------------- MODULE ReceptionProofs --------------------------
(***************************************************************************)
(* Proofs about Reception, for any set of sessions, products, temperatures *)
(* and requests.                                                           *)
(***************************************************************************)
EXTENDS Reception, TLAPS

USE TempAssumption, ExclusiveAssumption, NoneAssumption

-----------------------------------------------------------------------------
(* The inductive invariant: what each request may rely on, at each pc.       *)

ScanPc == {"scanning", "judged", "ticketed"}

Shape(r) ==
    /\ pc[r] \in {"uploading", "opening"} => call[r] \in OpenCall
    /\ pc[r] = "opening" /\ call[r].photo => r \in photos
    /\ pc[r] \in ScanPc =>
          call[r] \in ItemCall /\ status[call[r].session] \in {"OPEN", "CLOSED"}
    /\ pc[r] \in {"judged", "ticketed"} => seen[r] \in ProductRow
    /\ pc[r] = "ticketed" => ~Compliant(r)
    /\ pc[r] = "closing" =>
          call[r] \in CloseCall /\ status[call[r].session] \in {"OPEN", "CLOSED"}
    /\ pc[r] = "patching" =>
          /\ call[r] \in PatchCall /\ ValidPatch(call[r])
          /\ seen[r] \in ProductRow /\ product[call[r].product] \in ProductRow
    /\ pc[r] = "deleting" => call[r] \in DeleteCall /\ product[call[r].product] \in ProductRow
    /\ r \in items =>
          /\ pc[r] = "ok" /\ call[r] \in ItemCall
          /\ status[call[r].session] \in {"OPEN", "CLOSED"}

OpenerOf(s) ==
    LET r == opened[s] IN
    r # None => pc[r] = "ok" /\ call[r] \in OpenCall /\ (call[r].photo => r \in photos)

IInv ==
    /\ TypeOK
    /\ ItemHasTicket
    /\ \A r \in Request : Shape(r)
    /\ \A s \in Session : OpenerOf(s)

\* A request that does not move keeps what it relies on.
LEMMA ShapeKept ==
    ASSUME NEW q \in Request, Shape(q),
           pc'[q] = pc[q], call'[q] = call[q], seen'[q] = seen[q],
           photos \subseteq photos', q \in items' => q \in items,
           \A s \in Session : status[s] \in {"OPEN", "CLOSED"} => status'[s] \in {"OPEN", "CLOSED"},
           \A p \in Product : product[p] \in ProductRow => product'[p] \in ProductRow
    PROVE  Shape(q)'
<1>1. pc[q] = "opening" /\ call[q].photo => q \in photos'
  BY DEF Shape
<1>2. pc[q] \in ScanPc =>
        call[q] \in ItemCall /\ status'[call[q].session] \in {"OPEN", "CLOSED"}
  BY DEF Shape, ItemCall
<1>3. pc[q] = "ticketed" => ~Compliant(q)'
  BY DEF Shape, Compliant
<1>4. pc[q] = "closing" =>
        call[q] \in CloseCall /\ status'[call[q].session] \in {"OPEN", "CLOSED"}
  BY DEF Shape, CloseCall
<1>5. pc[q] = "patching" =>
        /\ call[q] \in PatchCall /\ ValidPatch(call[q])
        /\ seen[q] \in ProductRow /\ product'[call[q].product] \in ProductRow
  BY DEF Shape, PatchCall
<1>6. pc[q] = "deleting" => call[q] \in DeleteCall /\ product'[call[q].product] \in ProductRow
  BY DEF Shape, DeleteCall
<1>7. q \in items' =>
        /\ pc[q] = "ok" /\ call[q] \in ItemCall
        /\ status'[call[q].session] \in {"OPEN", "CLOSED"}
  BY DEF Shape, ItemCall
<1>8. pc[q] \in {"uploading", "opening"} => call[q] \in OpenCall
  BY DEF Shape
<1>9. pc[q] \in {"judged", "ticketed"} => seen[q] \in ProductRow
  BY DEF Shape
<1> QED
  BY <1>1, <1>2, <1>3, <1>4, <1>5, <1>6, <1>7, <1>8, <1>9 DEF Shape

\* The same for what a step of r leaves alone: the other requests, the rows of
\* sessions, the lines.
LEMMA FrameIInv ==
    ASSUME IInv, NEW r \in Request, TypeOK', Shape(r)',
           pc[r] # "ok" /\ r \notin items,
           \A q \in Request : q # r => pc'[q] = pc[q] /\ call'[q] = call[q] /\ seen'[q] = seen[q],
           photos \subseteq photos', UNCHANGED <<opened, history>>,
           \A s \in Session : status[s] \in {"OPEN", "CLOSED"} => status'[s] \in {"OPEN", "CLOSED"},
           \A p \in Product : product[p] \in ProductRow => product'[p] \in ProductRow
    PROVE  IInv'
<1>1. \A q \in Request : Shape(q)'
  <2> SUFFICES ASSUME NEW q \in Request, q # r PROVE Shape(q)'
    OBVIOUS
  <2> QED
    BY ShapeKept DEF IInv, history
<1>2. ItemHasTicket'
  <2>1. \A q \in items : q # r /\ q \in Request
    BY DEF IInv, TypeOK
  <2>2. \A q \in items : Compliant(q)' <=> Compliant(q)
    BY <2>1 DEF Compliant
  <2> QED
    BY <2>2 DEF IInv, ItemHasTicket, history
<1>3. ASSUME NEW s \in Session PROVE OpenerOf(s)'
  BY DEF IInv, OpenerOf, TypeOK
<1> QED
  BY <1>1, <1>2, <1>3 DEF IInv

LEMMA InitIInv == Init => IInv
BY DEF Init, IInv, TypeOK, ItemHasTicket, Shape, OpenerOf, ScanPc

LEMMA NotAnswered ==
    ASSUME IInv, NEW r \in Request, pc[r] \in {"new"} \cup InFlight
    PROVE  pc[r] # "ok" /\ r \notin items
BY DEF IInv, Shape, InFlight

LEMMA OpenIInv == ASSUME IInv, NEW r \in Request, Open(r) PROVE IInv'
<1>1. PICK photo \in BOOLEAN :
        /\ pc[r] = "new"
        /\ call' = [call EXCEPT ![r] =
                      [op |-> "open", session |-> None, product |-> None, photo |-> photo]]
        /\ pc' = [pc EXCEPT ![r] = IF photo THEN "uploading" ELSE "opening"]
        /\ UNCHANGED <<sessions, product, history, photos, seen>>
  BY DEF Open
<1>2. [op |-> "open", session |-> None, product |-> None, photo |-> photo] \in OpenCall
  BY DEF OpenCall
<1>3. pc[r] # "ok" /\ r \notin items
  BY <1>1, NotAnswered
<1>4. TypeOK'
  BY <1>1, <1>2 DEF IInv, TypeOK, sessions, history, Call, InFlight
<1>5. call'[r] = [op |-> "open", session |-> None, product |-> None, photo |-> photo]
      /\ pc'[r] = IF photo THEN "uploading" ELSE "opening"
  BY <1>1 DEF IInv, TypeOK
<1>6. call'[r].photo = photo /\ call'[r] \in OpenCall
  BY <1>2, <1>5
<1>7. Shape(r)'
  BY <1>1, <1>3, <1>5, <1>6 DEF Shape, ScanPc, history
<1> QED
  BY <1>1, <1>3, <1>4, <1>7, FrameIInv DEF IInv, TypeOK, sessions

LEMMA UploadIInv == ASSUME IInv, NEW r \in Request, UploadPhoto(r) PROVE IInv'
<1> USE DEF UploadPhoto, Goto
<1>1. pc[r] # "ok" /\ r \notin items
  BY NotAnswered DEF InFlight
<1>2. TypeOK'
  BY DEF IInv, TypeOK, sessions, history, InFlight
<1>3. pc'[r] = "opening" /\ call'[r] \in OpenCall /\ r \in photos'
  BY DEF IInv, TypeOK, Shape
<1>4. Shape(r)'
  BY <1>1, <1>3 DEF Shape, ScanPc, history
<1> QED
  BY <1>1, <1>2, <1>4, FrameIInv DEF IInv, TypeOK, sessions

LEMMA LoadSessionIInv ==
    ASSUME IInv, NEW r \in Request, NEW c, NEW next, LoadSession(r, c, next),
           \/ next = "scanning" /\ c \in ItemCall
           \/ next = "closing" /\ c \in CloseCall
    PROVE  IInv'
<1> USE DEF LoadSession
<1>1. pc[r] # "ok" /\ r \notin items
  BY NotAnswered
<1>2. TypeOK'
  BY DEF IInv, TypeOK, sessions, history, InFlight, Answered, Call
<1>3. \/ pc'[r] = "rejected"
      \/ pc'[r] = next /\ call'[r] = c /\ status[c.session] = "OPEN"
  BY DEF IInv, TypeOK
<1>4. Shape(r)'
  BY <1>1, <1>3 DEF Shape, ScanPc, history, sessions
<1> QED
  BY <1>1, <1>2, <1>4, FrameIInv DEF IInv, TypeOK, sessions

LEMMA LoadProductIInv == ASSUME IInv, NEW r \in Request, LoadProduct(r) PROVE IInv'
<1> USE DEF LoadProduct, Finish
<1>1. pc[r] # "ok" /\ r \notin items
  BY NotAnswered DEF InFlight
<1>2. call[r] \in ItemCall /\ status[call[r].session] \in {"OPEN", "CLOSED"}
  BY DEF IInv, Shape, ScanPc
<1>3. call[r].product \in Product
  BY <1>2 DEF ItemCall
<1>4. IsActive(call[r].product) => product[call[r].product] \in ProductRow
  BY <1>3 DEF IInv, TypeOK, IsActive
<1>5. TypeOK'
  BY <1>4 DEF IInv, TypeOK, sessions, history, InFlight, Answered
<1>6. \/ pc'[r] = "rejected"
      \/ pc'[r] = "judged" /\ seen'[r] \in ProductRow /\ call'[r] = call[r]
  BY <1>4 DEF IInv, TypeOK
<1>7. Shape(r)'
  BY <1>1, <1>2, <1>6 DEF Shape, ScanPc, history, sessions
<1> QED
  BY <1>1, <1>5, <1>7, FrameIInv DEF IInv, TypeOK, sessions

LEMMA FlushTicketIInv == ASSUME IInv, NEW r \in Request, FlushTicket(r) PROVE IInv'
<1> USE DEF FlushTicket, Goto
<1>1. pc[r] # "ok" /\ r \notin items
  BY NotAnswered DEF InFlight
<1>2. TypeOK'
  BY DEF IInv, TypeOK, sessions, history, InFlight
<1>3. pc'[r] = "ticketed" /\ ~Compliant(r)'
  BY DEF IInv, TypeOK, Compliant
<1>4. Shape(r) /\ UNCHANGED <<call, seen, status, items>>
  BY DEF IInv, sessions, history
<1>5. Shape(r)'
  BY <1>1, <1>3, <1>4 DEF Shape, ScanPc
<1> QED
  BY <1>1, <1>2, <1>5, FrameIInv DEF IInv, TypeOK, sessions

LEMMA CommitOpenIInv == ASSUME IInv, NEW r \in Request, CommitOpen(r) PROVE IInv'
<1>1. PICK s \in Session :
        /\ pc[r] = "opening"
        /\ status[s] = None
        /\ status' = [status EXCEPT ![s] = "OPEN"]
        /\ opened' = [opened EXCEPT ![s] = r]
        /\ pc' = [pc EXCEPT ![r] = "ok"]
        /\ UNCHANGED <<closed_at, product, history, photos, call, seen>>
  BY DEF CommitOpen, Goto
<1>2. r \notin items /\ call[r] \in OpenCall /\ (call[r].photo => r \in photos)
  BY <1>1, NotAnswered DEF IInv, Shape, InFlight
<1>3. TypeOK'
  BY <1>1 DEF IInv, TypeOK, history, InFlight, Answered
<1>4. \A t \in Session : status[t] \in {"OPEN", "CLOSED"} => status'[t] \in {"OPEN", "CLOSED"}
  BY <1>1 DEF IInv, TypeOK
<1>5. ASSUME NEW q \in Request, q # r PROVE Shape(q)'
  BY <1>1, <1>4, <1>5, ShapeKept DEF IInv, TypeOK, history
<1>6. Shape(r)'
  BY <1>1, <1>2 DEF IInv, TypeOK, Shape, ScanPc, history
<1>7. ItemHasTicket'
  BY <1>1 DEF IInv, ItemHasTicket, Compliant, history
<1>8. ASSUME NEW t \in Session PROVE OpenerOf(t)'
  BY <1>1, <1>2 DEF IInv, OpenerOf, TypeOK
<1> QED
  BY <1>3, <1>5, <1>6, <1>7, <1>8 DEF IInv

LEMMA CommitItemIInv == ASSUME IInv, NEW r \in Request, CommitItem(r) PROVE IInv'
<1> USE DEF CommitItem, Goto
<1>1. r \notin items /\ r \notin tickets
  BY NotAnswered DEF InFlight, IInv, ItemHasTicket
<1>2. call[r] \in ItemCall /\ status[call[r].session] \in {"OPEN", "CLOSED"}
      /\ (pc[r] = "judged" => Compliant(r)) /\ (pc[r] = "ticketed" => ~Compliant(r))
  BY DEF IInv, Shape, ScanPc
<1>3. TypeOK'
  BY DEF IInv, TypeOK, sessions, InFlight, Answered
<1>4. ASSUME NEW q \in Request, q # r PROVE Shape(q)'
  BY <1>4, ShapeKept DEF IInv, TypeOK, sessions
<1>5. Shape(r)'
  BY <1>2 DEF IInv, TypeOK, Shape, ScanPc, sessions
<1>6. ItemHasTicket'
  <2>1. \A q : Compliant(q)' <=> Compliant(q)
    BY DEF Compliant
  <2> QED
    BY <1>1, <1>2, <2>1 DEF IInv, ItemHasTicket
<1>7. ASSUME NEW t \in Session PROVE OpenerOf(t)'
  BY DEF IInv, OpenerOf, TypeOK, sessions
<1> QED
  BY <1>3, <1>4, <1>5, <1>6, <1>7 DEF IInv

\* An answer that leaves no line behind: it writes the status, a product or
\* nothing.
LEMMA FinishIInv ==
    ASSUME IInv, NEW r \in Request, pc[r] \in InFlight, NEW answer \in Answered,
           Finish(r, answer), TypeOK', UNCHANGED <<opened, history, photos>>,
           \A s \in Session : status[s] \in {"OPEN", "CLOSED"} => status'[s] \in {"OPEN", "CLOSED"},
           \A p \in Product : product[p] \in ProductRow => product'[p] \in ProductRow
    PROVE  IInv'
<1> USE DEF Finish
<1>1. pc[r] # "ok" /\ r \notin items
  BY NotAnswered
<1>2. pc'[r] = answer
  BY DEF IInv, TypeOK
<1>3. Shape(r)'
  BY <1>1, <1>2 DEF Shape, ScanPc, history, Answered
<1> QED
  BY <1>1, <1>3, FrameIInv DEF IInv, TypeOK

LEMMA CommitCloseIInv == ASSUME IInv, NEW r \in Request, CommitClose(r) PROVE IInv'
<1>1. call[r].session \in Session
  BY DEF CommitClose, IInv, Shape, CloseCall
<1>2. TypeOK'
  BY <1>1 DEF CommitClose, Finish, IInv, TypeOK, history, InFlight, Answered
<1>3. \A s \in Session : status[s] \in {"OPEN", "CLOSED"} => status'[s] \in {"OPEN", "CLOSED"}
  BY <1>1 DEF CommitClose, IInv, TypeOK
<1> QED
  BY <1>2, <1>3, FinishIInv DEF CommitClose, history, InFlight, Answered

LEMMA CommitPatchIInv == ASSUME IInv, NEW r \in Request, CommitPatch(r) PROVE IInv'
<1> DEFINE p == call[r].product
<1>1. /\ p \in Product /\ product[p] \in ProductRow
      /\ call[r].control \in BOOLEAN \cup {Unset}
      /\ call[r].min \in Bound \cup {Unset} /\ call[r].max \in Bound \cup {Unset}
  BY DEF CommitPatch, IInv, Shape, PatchCall, TypeOK
<1>2. /\ Written(call[r].control, seen[r].control, product[p].control) \in BOOLEAN
      /\ Written(call[r].min, seen[r].min, product[p].min) \in Bound
      /\ Written(call[r].max, seen[r].max, product[p].max) \in Bound
  BY <1>1 DEF Written, ProductRow
<1>3. product' = [product EXCEPT ![p] =
          [active |-> product[p].active,
           control |-> Written(call[r].control, seen[r].control, product[p].control),
           min |-> Written(call[r].min, seen[r].min, product[p].min),
           max |-> Written(call[r].max, seen[r].max, product[p].max)]]
  BY DEF CommitPatch
<1>4. product'[p] \in ProductRow
  BY <1>1, <1>2, <1>3 DEF ProductRow, IInv, TypeOK
<1>5. TypeOK'
  BY <1>1, <1>3, <1>4
  DEF CommitPatch, Finish, IInv, TypeOK, sessions, history, InFlight, Answered
<1>6. \A x \in Product : product[x] \in ProductRow => product'[x] \in ProductRow
  BY <1>3, <1>4 DEF IInv, TypeOK
<1> QED
  BY <1>5, <1>6, FinishIInv DEF CommitPatch, sessions, InFlight, Answered

LEMMA CommitDeleteIInv == ASSUME IInv, NEW r \in Request, CommitDelete(r) PROVE IInv'
<1> DEFINE p == call[r].product
<1>1. p \in Product /\ product[p] \in ProductRow
  BY DEF CommitDelete, IInv, Shape, DeleteCall
<1>2. product' = [product EXCEPT ![p] = [product[p] EXCEPT !.active = FALSE]]
  BY DEF CommitDelete
<1>3. [product[p] EXCEPT !.active = FALSE] \in ProductRow
  BY <1>1 DEF ProductRow
<1>4. TypeOK'
  BY <1>1, <1>2, <1>3
  DEF CommitDelete, Finish, IInv, TypeOK, sessions, history, InFlight, Answered
<1>5. \A x \in Product : product[x] \in ProductRow => product'[x] \in ProductRow
  BY <1>2, <1>3 DEF IInv, TypeOK
<1> QED
  BY <1>4, <1>5, FinishIInv DEF CommitDelete, sessions, InFlight, Answered

LEMMA FailIInv == ASSUME IInv, NEW r \in Request, Fail(r) PROVE IInv'
<1>1. TypeOK'
  BY DEF Fail, Finish, IInv, TypeOK, sessions, history, Answered
<1> QED
  BY <1>1, FinishIInv DEF Fail, sessions, Answered

\* A step that no request takes.
LEMMA CreateProductIInv == ASSUME IInv, NEW p \in Product, CreateProduct(p) PROVE IInv'
<1>1. PICK control \in BOOLEAN, min \in Bound, max \in Bound :
        /\ product' = [product EXCEPT ![p] =
                         [active |-> TRUE, control |-> control, min |-> min, max |-> max]]
        /\ UNCHANGED <<sessions, history, photos, pc, call, seen>>
  BY DEF CreateProduct
<1>2. [active |-> TRUE, control |-> control, min |-> min, max |-> max] \in ProductRow
  BY DEF ProductRow
<1>3. TypeOK'
  BY <1>1, <1>2 DEF IInv, TypeOK, sessions, history
<1>4. \A x \in Product : product[x] \in ProductRow => product'[x] \in ProductRow
  BY <1>1, <1>2 DEF IInv, TypeOK
<1>5. ASSUME NEW q \in Request PROVE Shape(q)'
  BY <1>1, <1>4, ShapeKept DEF IInv, sessions, history
<1>6. ItemHasTicket' /\ \A s \in Session : OpenerOf(s)'
  BY <1>1 DEF IInv, ItemHasTicket, Compliant, OpenerOf, sessions, history
<1> QED
  BY <1>3, <1>5, <1>6 DEF IInv

LEMMA StutterIInv == ASSUME IInv, UNCHANGED vars PROVE IInv'
BY DEF IInv, TypeOK, ItemHasTicket, Compliant, Shape, OpenerOf, vars, sessions, history

LEMMA LoadActiveIInv ==
    ASSUME IInv, NEW r \in Request, NEW c, NEW next, LoadActive(r, c, next),
           \/ next = "patching" /\ c \in PatchCall /\ ValidPatch(c)
           \/ next = "deleting" /\ c \in DeleteCall
    PROVE  IInv'
<1> USE DEF LoadActive
<1>1. pc[r] # "ok" /\ r \notin items
  BY NotAnswered
<1>2. c.product \in Product
  BY DEF PatchCall, DeleteCall
<1>3. IsActive(c.product) => product[c.product] \in ProductRow
  BY <1>2 DEF IInv, TypeOK, IsActive
<1>4. TypeOK'
  BY <1>3 DEF IInv, TypeOK, sessions, history, InFlight, Answered, Call
<1>5. \/ pc'[r] = "rejected"
      \/ /\ pc'[r] = next /\ call'[r] = c
         /\ seen'[r] \in ProductRow /\ product[c.product] \in ProductRow
  BY <1>3 DEF IInv, TypeOK
<1>6. Shape(r)'
  BY <1>1, <1>5 DEF Shape, ScanPc, history, sessions
<1> QED
  BY <1>1, <1>4, <1>6, FrameIInv DEF IInv, TypeOK, sessions

LEMMA AddItemLoads ==
    ASSUME NEW r \in Request, AddItem(r)
    PROVE  \E c \in ItemCall : LoadSession(r, c, "scanning")
<1>1. PICK s \in Session, p \in Product, t \in Bound, packaging \in BOOLEAN, claim \in BOOLEAN :
        LoadSession(r, [op |-> "item", session |-> s, product |-> p, measured |-> t,
                        packaging_ok |-> packaging, is_compliant |-> claim], "scanning")
  BY DEF AddItem
<1>2. [op |-> "item", session |-> s, product |-> p, measured |-> t,
       packaging_ok |-> packaging, is_compliant |-> claim] \in ItemCall
  BY DEF ItemCall
<1> QED
  BY <1>1, <1>2

LEMMA CloseLoads ==
    ASSUME NEW r \in Request, Close(r)
    PROVE  \E c \in CloseCall : LoadSession(r, c, "closing")
<1>1. PICK s \in Session :
        LoadSession(r, [op |-> "close", session |-> s, product |-> None], "closing")
  BY DEF Close
<1>2. [op |-> "close", session |-> s, product |-> None] \in CloseCall
  BY DEF CloseCall
<1> QED
  BY <1>1, <1>2

LEMMA PatchLoads ==
    ASSUME NEW r \in Request, PatchProduct(r)
    PROVE  \E c \in PatchCall : ValidPatch(c) /\ LoadActive(r, c, "patching")
<1>1. PICK p \in Product, control \in BOOLEAN \cup {Unset},
           min \in Bound \cup {Unset}, max \in Bound \cup {Unset} :
        LET c == [op |-> "patch", session |-> None, product |-> p,
                  control |-> control, min |-> min, max |-> max] IN
        ValidPatch(c) /\ LoadActive(r, c, "patching")
  BY DEF PatchProduct
<1>2. [op |-> "patch", session |-> None, product |-> p,
       control |-> control, min |-> min, max |-> max] \in PatchCall
  BY DEF PatchCall
<1> QED
  BY <1>1, <1>2

LEMMA DeleteLoads ==
    ASSUME NEW r \in Request, DeleteProduct(r)
    PROVE  \E c \in DeleteCall : LoadActive(r, c, "deleting")
<1>1. PICK p \in Product :
        LoadActive(r, [op |-> "delete", session |-> None, product |-> p], "deleting")
  BY DEF DeleteProduct
<1>2. [op |-> "delete", session |-> None, product |-> p] \in DeleteCall
  BY DEF DeleteCall
<1> QED
  BY <1>1, <1>2

LEMMA NextIInv == IInv /\ [Next]_vars => IInv'
<1> SUFFICES ASSUME IInv, [Next]_vars PROVE IInv'
  OBVIOUS
<1>1. CASE UNCHANGED vars
  BY <1>1, StutterIInv
<1>2. ASSUME NEW p \in Product, CreateProduct(p) PROVE IInv'
  BY <1>2, CreateProductIInv
<1>3. ASSUME NEW r \in Request, Open(r) PROVE IInv'
  BY <1>3, OpenIInv
<1>4. ASSUME NEW r \in Request, AddItem(r) PROVE IInv'
  BY <1>4, AddItemLoads, LoadSessionIInv
<1>5. ASSUME NEW r \in Request, Close(r) PROVE IInv'
  BY <1>5, CloseLoads, LoadSessionIInv
<1>6. ASSUME NEW r \in Request, PatchProduct(r) PROVE IInv'
  BY <1>6, PatchLoads, LoadActiveIInv
<1>7. ASSUME NEW r \in Request, DeleteProduct(r) PROVE IInv'
  BY <1>7, DeleteLoads, LoadActiveIInv
<1>8. ASSUME NEW r \in Request, Proceed(r) PROVE IInv'
  BY <1>8, UploadIInv, CommitOpenIInv, LoadProductIInv, FlushTicketIInv, CommitItemIInv,
     CommitCloseIInv, CommitPatchIInv, CommitDeleteIInv DEF Proceed
<1>9. ASSUME NEW r \in Request, Fail(r) PROVE IInv'
  BY <1>9, FailIInv
<1> QED
  BY <1>1, <1>2, <1>3, <1>4, <1>5, <1>6, <1>7, <1>8, <1>9 DEF Next

\* The inductive invariant holds, and with it the type invariant.
THEOREM Invariance == Spec => []IInv
<1>1. IInv /\ [Next /\ NoOverlap']_vars => IInv'
  BY NextIInv
<1> QED
  BY <1>1, InitIInv, PTL DEF Spec

\* Every variable keeps its type.
THEOREM TypeCorrect == Spec => []TypeOK
<1>1. IInv => TypeOK
  BY DEF IInv
<1> QED
  BY <1>1, Invariance, PTL

\* A delivery line is on record together with the ticket it calls for (add_item).
THEOREM ItemHasTicketCorrect == Spec => []ItemHasTicket
<1>1. IInv => ItemHasTicket
  BY DEF IInv
<1> QED
  BY <1>1, Invariance, PTL

\* The delivery note a session refers to is in the bucket (open_session).
THEOREM DeliveryNoteCorrect == Spec => []DeliveryNoteOnFile
<1>1. IInv => DeliveryNoteOnFile
  BY DEF IInv, OpenerOf, DeliveryNoteOnFile
<1> QED
  BY <1>1, Invariance, PTL

-----------------------------------------------------------------------------
(* What one step does to the sessions, the requests that scan and the lines. *)

Settles ==
    /\ \A s \in Session : status[s] = "CLOSED" => status'[s] = "CLOSED"
    /\ \A q \in Request : pc'[q] \in ScanPc =>
          \/ pc[q] \in ScanPc /\ call'[q] = call[q]
          \/ status[call'[q].session] = "OPEN"
    /\ \A q \in items' : (q \in items \/ pc[q] \in ScanPc) /\ call'[q] = call[q]

LEMMA QuietSettles ==
    ASSUME IInv, NEW r \in Request, UNCHANGED <<status, items>>,
           \A q \in Request : q # r => pc'[q] = pc[q] /\ call'[q] = call[q],
           r \notin items,
           pc'[r] \in ScanPc =>
              \/ pc[r] \in ScanPc /\ call'[r] = call[r]
              \/ status[call'[r].session] = "OPEN"
    PROVE  Settles
BY DEF Settles, IInv, TypeOK

LEMMA NextSettles == IInv /\ [Next]_vars => Settles
<1> SUFFICES ASSUME IInv, [Next]_vars PROVE Settles
  OBVIOUS
<1>1. ASSUME UNCHANGED <<sessions, items, pc, call>> PROVE Settles
  BY <1>1 DEF Settles, sessions, IInv, TypeOK
<1>2. ASSUME NEW r \in Request, pc[r] \in {"new"} \cup InFlight PROVE r \notin items
  BY <1>2, NotAnswered
<1>3. ASSUME NEW r \in Request, Open(r) PROVE Settles
  <2>1. pc[r] = "new" /\ UNCHANGED <<status, items>> /\ pc'[r] \notin ScanPc
    BY <1>3 DEF Open, sessions, history, ScanPc, IInv, TypeOK
  <2>2. \A q \in Request : q # r => pc'[q] = pc[q] /\ call'[q] = call[q]
    BY <1>3 DEF Open, IInv, TypeOK
  <2> QED
    BY <1>2, <2>1, <2>2, QuietSettles
<1>4. ASSUME NEW r \in Request, NEW c, NEW next, LoadSession(r, c, next) PROVE Settles
  <2>1. \/ pc'[r] = "rejected"
        \/ call'[r] = c /\ status[c.session] = "OPEN"
    BY <1>4 DEF LoadSession, IInv, TypeOK
  <2>2. /\ pc[r] = "new" /\ UNCHANGED <<status, items>>
        /\ \A q \in Request : q # r => pc'[q] = pc[q] /\ call'[q] = call[q]
    BY <1>4 DEF LoadSession, sessions, history, IInv, TypeOK
  <2> QED
    BY <1>2, <2>1, <2>2, QuietSettles DEF ScanPc
<1>5. ASSUME NEW r \in Request, NEW c, NEW next, LoadActive(r, c, next),
             next \in {"patching", "deleting"}
      PROVE Settles
  <2>1. pc'[r] \in {"rejected", next}
    BY <1>5 DEF LoadActive, IInv, TypeOK
  <2>2. /\ pc[r] = "new" /\ UNCHANGED <<status, items>>
        /\ \A q \in Request : q # r => pc'[q] = pc[q] /\ call'[q] = call[q]
    BY <1>5 DEF LoadActive, sessions, history, IInv, TypeOK
  <2> QED
    BY <1>2, <1>5, <2>1, <2>2, QuietSettles DEF ScanPc
<1>6. ASSUME NEW r \in Request, NEW next, Goto(r, next), pc[r] \in InFlight,
             UNCHANGED <<status, items>>, next \in ScanPc => pc[r] \in ScanPc
      PROVE Settles
  <2>1. pc'[r] = next /\ call' = call
    BY <1>6 DEF Goto, IInv, TypeOK
  <2>2. \A q \in Request : q # r => pc'[q] = pc[q]
    BY <1>6 DEF Goto, IInv, TypeOK
  <2> QED
    BY <1>2, <1>6, <2>1, <2>2, QuietSettles
<1>7. ASSUME NEW r \in Request, LoadProduct(r) PROVE Settles
  <2>1. /\ pc[r] = "scanning" /\ UNCHANGED <<status, items>>
        /\ \A q \in Request : q # r => pc'[q] = pc[q] /\ call'[q] = call[q]
        /\ call' = call \/ pc'[r] = "rejected"
    BY <1>7 DEF LoadProduct, Finish, sessions, history, IInv, TypeOK
  <2> QED
    BY <1>2, <2>1, QuietSettles DEF ScanPc, InFlight
<1>8. ASSUME NEW r \in Request, NEW answer \in Answered, Finish(r, answer),
              pc[r] \in InFlight, UNCHANGED <<status, items>>
       PROVE Settles
  <2>1. pc'[r] \notin ScanPc
    BY <1>8 DEF Finish, Answered, ScanPc, IInv, TypeOK
  <2>2. \A q \in Request : q # r => pc'[q] = pc[q] /\ call'[q] = call[q]
    BY <1>8 DEF Finish, IInv, TypeOK
  <2> QED
    BY <1>2, <1>8, <2>1, <2>2, QuietSettles
<1>9. ASSUME NEW r \in Request, CommitOpen(r) PROVE Settles
  <2>1. /\ \A s \in Session : status[s] = "CLOSED" => status'[s] = "CLOSED"
        /\ \A q \in Request : pc'[q] \in ScanPc => pc[q] \in ScanPc
        /\ UNCHANGED <<call, items>>
    <3>1. PICK s \in Session :
            status[s] = None /\ status' = [status EXCEPT ![s] = "OPEN"]
      BY <1>9 DEF CommitOpen
    <3>2. \A t \in Session : status[t] = "CLOSED" => status'[t] = "CLOSED"
      BY <3>1 DEF IInv, TypeOK
    <3> QED
      BY <1>9, <3>2 DEF CommitOpen, Goto, history, ScanPc, IInv, TypeOK
  <2> QED
    BY <2>1 DEF Settles
<1>10. ASSUME NEW r \in Request, CommitItem(r) PROVE Settles
  <2>1. pc[r] \in ScanPc /\ items' = items \cup {r} /\ UNCHANGED <<status, call>>
    BY <1>10 DEF CommitItem, Goto, sessions, ScanPc
  <2>2. \A q \in Request : pc'[q] \in ScanPc => pc[q] \in ScanPc
    BY <1>10 DEF CommitItem, Goto, ScanPc, IInv, TypeOK
  <2> QED
    BY <2>1, <2>2 DEF Settles
<1>11. ASSUME NEW r \in Request, CommitClose(r) PROVE Settles
  <2>1. \A s \in Session : status[s] = "CLOSED" => status'[s] = "CLOSED"
    BY <1>11 DEF CommitClose, IInv, TypeOK
  <2>2. /\ \A q \in Request : pc'[q] \in ScanPc => q # r /\ pc[q] \in ScanPc
        /\ \A q \in Request : q # r => call'[q] = call[q]
        /\ UNCHANGED items
    BY <1>11 DEF CommitClose, Finish, history, ScanPc, IInv, TypeOK
  <2>3. \A q \in items : q \in Request /\ q # r
    BY <1>2, <1>11 DEF CommitClose, InFlight, IInv, TypeOK
  <2> QED
    BY <2>1, <2>2, <2>3 DEF Settles
<1>12. ASSUME NEW r \in Request, Proceed(r) PROVE Settles
  <2>1. UploadPhoto(r) => Settles
    BY <1>6 DEF UploadPhoto, sessions, history, InFlight, ScanPc
  <2>2. FlushTicket(r) => Settles
    BY <1>6 DEF FlushTicket, sessions, history, InFlight, ScanPc
  <2>3. CommitPatch(r) => Settles
    BY <1>8 DEF CommitPatch, sessions, history, InFlight, Answered
  <2>4. CommitDelete(r) => Settles
    BY <1>8 DEF CommitDelete, sessions, history, InFlight, Answered
  <2> QED
    BY <1>7, <1>9, <1>10, <1>11, <1>12, <2>1, <2>2, <2>3, <2>4 DEF Proceed
<1>13. ASSUME NEW r \in Request, Fail(r) PROVE Settles
  BY <1>13, <1>8 DEF Fail, sessions, history, Answered
<1>14. ASSUME NEW r \in Request,
              AddItem(r) \/ Close(r) \/ PatchProduct(r) \/ DeleteProduct(r)
       PROVE Settles
  BY <1>4, <1>5, <1>14, AddItemLoads, CloseLoads, PatchLoads, DeleteLoads
<1> QED
  BY <1>1, <1>3, <1>12, <1>13, <1>14 DEF Next, vars, history, CreateProduct

\* What add_item does to a closed session is over once the requests that were
\* scanning when close_session committed are answered.
THEOREM ClosingSettlesCorrect == Spec => ClosingSettles
<1>1. ASSUME IInv, Settles, IInv'
      PROVE  \A s \in Session : status[s] = "CLOSED" =>
                /\ status'[s] = "CLOSED"
                /\ Scanning(s)' \subseteq Scanning(s)
                /\ Lines(s)' \subseteq Lines(s) \cup Scanning(s)
  <2> SUFFICES ASSUME NEW s \in Session, status[s] = "CLOSED"
               PROVE  /\ Scanning(s)' \subseteq Scanning(s)
                      /\ Lines(s)' \subseteq Lines(s) \cup Scanning(s)
    BY <1>1 DEF Settles
  <2>1. Scanning(s)' \subseteq Scanning(s)
    BY <1>1 DEF Settles, Scanning, ScanPc
  <2>2. items' \subseteq Request
    BY <1>1 DEF IInv, TypeOK
  <2>3. Lines(s)' \subseteq Lines(s) \cup Scanning(s)
    BY <1>1, <2>2 DEF Settles, Lines, Scanning, ScanPc
  <2> QED
    BY <2>1, <2>3
<1>2. IInv /\ [Next]_vars =>
        [\A s \in Session : status[s] = "CLOSED" =>
            /\ status'[s] = "CLOSED"
            /\ Scanning(s)' \subseteq Scanning(s)
            /\ Lines(s)' \subseteq Lines(s) \cup Scanning(s)]_vars
  BY <1>1, NextIInv, NextSettles
<1> QED
  BY <1>2, Invariance, PTL DEF Spec, ClosingSettles

-----------------------------------------------------------------------------
(* Sessions and products whose requests do not overlap: what a request in    *)
(* flight loaded is still what the row holds.                                *)

StillOpen ==
    \A r \in Request :
        pc[r] \in ScanPc \cup {"closing"} /\ call[r].session \in Exclusive =>
            status[call[r].session] = "OPEN"

\* Where a request relies on the product that it loaded.
Relying == {"judged", "ticketed", "patching"}

StillCurrent ==
    \A r \in Request :
        pc[r] \in Relying /\ call[r].product \in Exclusive =>
            /\ seen[r] = product[call[r].product]
            /\ IsActive(call[r].product)

ExclusiveInv == IInv /\ NoOverlap /\ StillOpen /\ StillCurrent

\* What a request in flight works on.
LEMMA RowInFlight ==
    ASSUME IInv, NEW r \in Request
    PROVE  /\ pc[r] \in ScanPc => call[r].session \in Session /\ call[r].product \in Product
           /\ pc[r] = "closing" => call[r].session \in Session
           /\ pc[r] \in {"patching", "deleting"} => call[r].product \in Product
<1>1. Shape(r)
  BY DEF IInv
<1> QED
  BY <1>1 DEF Shape, ScanPc, ItemCall, CloseCall, PatchCall, DeleteCall

LEMMA NoSharedRow ==
    ASSUME NoOverlap, NEW q \in Request, NEW r \in Request, q # r,
           pc[q] \in InFlight, pc[r] \in InFlight
    PROVE  /\ call[q].session \in Exclusive /\ call[q].session # None =>
                 call[q].session # call[r].session
           /\ call[q].product \in Exclusive /\ call[q].product # None =>
                 call[q].product # call[r].product
<1>1. Row(q) \cap Row(r) \cap Exclusive = {}
  BY DEF NoOverlap
<1> QED
  BY <1>1 DEF Row

\* A request other than the one that moves keeps its pc, its call and its seen.
LEMMA OthersStay ==
    ASSUME IInv, NEW r \in Request,
           \/ Open(r) \/ AddItem(r) \/ Close(r) \/ PatchProduct(r) \/ DeleteProduct(r)
           \/ Proceed(r) \/ Fail(r)
    PROVE  \A q \in Request : q # r => pc'[q] = pc[q] /\ call'[q] = call[q] /\ seen'[q] = seen[q]
<1> USE DEF IInv, TypeOK
<1>1. CASE Open(r)
  BY <1>1 DEF Open
<1>2. CASE AddItem(r) \/ Close(r)
  BY <1>2, AddItemLoads, CloseLoads DEF LoadSession
<1>3. CASE PatchProduct(r) \/ DeleteProduct(r)
  BY <1>3, PatchLoads, DeleteLoads DEF LoadActive
<1>4. CASE UploadPhoto(r) \/ FlushTicket(r) \/ CommitItem(r)
  BY <1>4 DEF UploadPhoto, FlushTicket, CommitItem, Goto
<1>5. CASE CommitOpen(r)
  BY <1>5 DEF CommitOpen, Goto
<1>6. CASE LoadProduct(r)
  BY <1>6 DEF LoadProduct, Finish
<1>7. CASE CommitClose(r) \/ CommitPatch(r) \/ CommitDelete(r) \/ Fail(r)
  BY <1>7 DEF CommitClose, CommitPatch, CommitDelete, Fail, Finish
<1> QED
  BY <1>1, <1>2, <1>3, <1>4, <1>5, <1>6, <1>7 DEF Proceed

\* The requests that act on a session arrive while it is open.
LEMMA WhoActs ==
    ASSUME IInv, Next, NEW q \in Request, pc'[q] \in ScanPc \cup {"closing"}
    PROVE  \/ pc[q] \in ScanPc \cup {"closing"} /\ call'[q] = call[q]
           \/ status[call'[q].session] = "OPEN" /\ status' = status
<1> USE DEF IInv, TypeOK, ScanPc
<1>1. ASSUME NEW p \in Product, CreateProduct(p)
      PROVE  pc[q] \in ScanPc \cup {"closing"} /\ call'[q] = call[q]
  BY <1>1 DEF CreateProduct
<1>2. SUFFICES ASSUME \/ Open(q) \/ AddItem(q) \/ Close(q) \/ PatchProduct(q)
                      \/ DeleteProduct(q) \/ Proceed(q) \/ Fail(q)
               PROVE  \/ pc[q] \in ScanPc \cup {"closing"} /\ call'[q] = call[q]
                      \/ status[call'[q].session] = "OPEN" /\ status' = status
  BY <1>1, OthersStay DEF Next
<1>3. CASE Open(q)
  BY <1>3 DEF Open
<1>4. CASE AddItem(q) \/ Close(q)
  BY <1>4, AddItemLoads, CloseLoads DEF LoadSession, sessions
<1>5. CASE PatchProduct(q) \/ DeleteProduct(q)
  BY <1>5, PatchLoads, DeleteLoads DEF LoadActive
<1>6. CASE UploadPhoto(q) \/ FlushTicket(q) \/ CommitItem(q)
  BY <1>6 DEF UploadPhoto, FlushTicket, CommitItem, Goto
<1>7. CASE CommitOpen(q)
  BY <1>7 DEF CommitOpen, Goto
<1>8. CASE LoadProduct(q)
  BY <1>8 DEF LoadProduct, Finish
<1>9. CASE CommitClose(q) \/ CommitPatch(q) \/ CommitDelete(q) \/ Fail(q)
  BY <1>9 DEF CommitClose, CommitPatch, CommitDelete, Fail, Finish
<1> QED
  BY <1>2, <1>3, <1>4, <1>5, <1>6, <1>7, <1>8, <1>9 DEF Proceed

\* A line is judged, and a PATCH validated, by the product as its SELECT found it.
LEMMA WhoJudges ==
    ASSUME IInv, Next, NEW q \in Request, pc'[q] \in Relying
    PROVE  \/ pc[q] \in Relying /\ call'[q] = call[q] /\ seen'[q] = seen[q]
           \/ /\ seen'[q] = product[call'[q].product] /\ product' = product
              /\ IsActive(call'[q].product)
<1> USE DEF IInv, TypeOK, Relying
<1>1. ASSUME NEW p \in Product, CreateProduct(p)
      PROVE  pc[q] \in Relying /\ call'[q] = call[q] /\ seen'[q] = seen[q]
  BY <1>1 DEF CreateProduct
<1>2. SUFFICES ASSUME \/ Open(q) \/ AddItem(q) \/ Close(q) \/ PatchProduct(q)
                      \/ DeleteProduct(q) \/ Proceed(q) \/ Fail(q)
               PROVE  \/ pc[q] \in Relying /\ call'[q] = call[q] /\ seen'[q] = seen[q]
                      \/ /\ seen'[q] = product[call'[q].product] /\ product' = product
                         /\ IsActive(call'[q].product)
  BY <1>1, OthersStay DEF Next
<1>3. CASE Open(q)
  BY <1>3 DEF Open
<1>4. CASE AddItem(q) \/ Close(q)
  BY <1>4, AddItemLoads, CloseLoads DEF LoadSession
<1>5. CASE PatchProduct(q) \/ DeleteProduct(q)
  BY <1>5, PatchLoads, DeleteLoads DEF LoadActive
<1>6. CASE UploadPhoto(q) \/ FlushTicket(q) \/ CommitItem(q)
  BY <1>6 DEF UploadPhoto, FlushTicket, CommitItem, Goto
<1>7. CASE CommitOpen(q)
  BY <1>7 DEF CommitOpen, Goto
<1>8. CASE LoadProduct(q)
  BY <1>8 DEF LoadProduct, Finish
<1>9. CASE CommitClose(q) \/ CommitPatch(q) \/ CommitDelete(q) \/ Fail(q)
  BY <1>9 DEF CommitClose, CommitPatch, CommitDelete, Fail, Finish
<1> QED
  BY <1>2, <1>3, <1>4, <1>5, <1>6, <1>7, <1>8, <1>9 DEF Proceed

\* Only close_session moves a session out of OPEN.
LEMMA WhoCloses ==
    ASSUME IInv, Next, NEW s \in Session, status[s] = "OPEN", status'[s] # "OPEN"
    PROVE  \E r \in Request : CommitClose(r) /\ call[r].session = s
<1> USE DEF IInv, TypeOK
<1>1. ASSUME NEW r \in Request,
             \/ Open(r) \/ AddItem(r) \/ Close(r) \/ PatchProduct(r) \/ DeleteProduct(r)
             \/ UploadPhoto(r) \/ FlushTicket(r) \/ CommitItem(r) \/ LoadProduct(r)
             \/ CommitPatch(r) \/ CommitDelete(r) \/ Fail(r)
      PROVE  status' = status
  BY <1>1, AddItemLoads, CloseLoads, PatchLoads, DeleteLoads
  DEF Open, LoadSession, LoadActive, UploadPhoto, FlushTicket, CommitItem, LoadProduct,
      CommitPatch, CommitDelete, Fail, sessions
<1>2. ASSUME NEW p \in Product, CreateProduct(p) PROVE status' = status
  BY <1>2 DEF CreateProduct, sessions
<1>3. ASSUME NEW r \in Request, CommitOpen(r) PROVE status'[s] = "OPEN"
  BY <1>3 DEF CommitOpen
<1>4. ASSUME NEW r \in Request, CommitClose(r) PROVE call[r].session = s
  BY <1>4 DEF CommitClose
<1> QED
  BY <1>1, <1>2, <1>3, <1>4 DEF Next, Proceed

\* Only a PATCH or a deletion changes a product.
LEMMA WhoEdits ==
    ASSUME IInv, Next, NEW p \in Product, IsActive(p), product'[p] # product[p]
    PROVE  \E r \in Request : pc[r] \in {"patching", "deleting"} /\ call[r].product = p
                              /\ (CommitPatch(r) \/ CommitDelete(r))
<1> USE DEF IInv, TypeOK
<1>1. ASSUME NEW r \in Request,
             \/ Open(r) \/ AddItem(r) \/ Close(r) \/ PatchProduct(r) \/ DeleteProduct(r)
             \/ UploadPhoto(r) \/ FlushTicket(r) \/ CommitItem(r) \/ LoadProduct(r)
             \/ CommitOpen(r) \/ CommitClose(r) \/ Fail(r)
      PROVE  product' = product
  BY <1>1, AddItemLoads, CloseLoads, PatchLoads, DeleteLoads
  DEF Open, LoadSession, LoadActive, UploadPhoto, FlushTicket, CommitItem, LoadProduct,
      CommitOpen, CommitClose, Fail
<1>2. ASSUME NEW x \in Product, CreateProduct(x) PROVE FALSE
  BY <1>2 DEF CreateProduct, IsActive
<1>3. ASSUME NEW r \in Request, CommitPatch(r)
      PROVE  pc[r] = "patching" /\ call[r].product = p
  BY <1>3 DEF CommitPatch
<1>4. ASSUME NEW r \in Request, CommitDelete(r)
      PROVE  pc[r] = "deleting" /\ call[r].product = p
  BY <1>4 DEF CommitDelete
<1> QED
  BY <1>1, <1>2, <1>3, <1>4 DEF Next, Proceed

LEMMA StillOpenStep == ASSUME ExclusiveInv, Next, IInv' PROVE StillOpen'
<1> SUFFICES ASSUME NEW q \in Request, pc'[q] \in ScanPc \cup {"closing"},
                    call'[q].session \in Exclusive
             PROVE  status'[call'[q].session] = "OPEN"
  BY DEF StillOpen
<1>1. CASE pc[q] \in ScanPc \cup {"closing"} /\ call'[q] = call[q]
  <2> DEFINE s == call[q].session
  <2>1. s \in Session /\ s # None
    BY <1>1, RowInFlight DEF ExclusiveInv
  <2>2. status[s] = "OPEN"
    BY <1>1 DEF ExclusiveInv, StillOpen
  <2>3. SUFFICES ASSUME status'[s] # "OPEN" PROVE FALSE
    BY <1>1
  <2>4. PICK r \in Request : CommitClose(r) /\ call[r].session = s
    BY <2>1, <2>2, <2>3, WhoCloses DEF ExclusiveInv
  <2>5. pc[r] = "closing" /\ pc'[r] = "ok"
    BY <2>4 DEF CommitClose, Finish, ExclusiveInv, IInv, TypeOK
  <2>6. q # r
    BY <2>5 DEF ScanPc
  <2> QED
    BY <1>1, <2>1, <2>4, <2>5, <2>6, NoSharedRow DEF ExclusiveInv, InFlight, ScanPc
<1>2. CASE status[call'[q].session] = "OPEN" /\ status' = status
  BY <1>2
<1> QED
  BY <1>1, <1>2, WhoActs DEF ExclusiveInv

LEMMA StillCurrentStep == ASSUME ExclusiveInv, Next PROVE StillCurrent'
<1> SUFFICES ASSUME NEW q \in Request, pc'[q] \in Relying, call'[q].product \in Exclusive
             PROVE  /\ seen'[q] = product'[call'[q].product]
                    /\ product'[call'[q].product] # None
                    /\ product'[call'[q].product].active
  BY DEF StillCurrent, IsActive
<1>1. CASE pc[q] \in Relying /\ call'[q] = call[q] /\ seen'[q] = seen[q]
  <2> DEFINE p == call[q].product
  <2>1. p \in Product /\ p # None /\ pc[q] \in InFlight
    BY <1>1, RowInFlight DEF ExclusiveInv, ScanPc, Relying, InFlight
  <2>2. seen[q] = product[p] /\ IsActive(p)
    BY <1>1 DEF ExclusiveInv, StillCurrent
  <2>3. product'[p] = product[p]
    <3> SUFFICES ASSUME product'[p] # product[p] PROVE FALSE
      OBVIOUS
    <3>1. PICK r \in Request :
            /\ pc[r] \in {"patching", "deleting"} /\ call[r].product = p
            /\ CommitPatch(r) \/ CommitDelete(r)
      BY <2>1, <2>2, WhoEdits DEF ExclusiveInv
    <3>2. pc'[r] = "ok"
      BY <3>1 DEF CommitPatch, CommitDelete, Finish, ExclusiveInv, IInv, TypeOK
    <3>3. q # r /\ pc[r] \in InFlight
      BY <3>1, <3>2 DEF Relying, InFlight
    <3>4. p \in Exclusive
      BY <1>1
    <3> QED
      BY <2>1, <3>1, <3>3, <3>4, NoSharedRow DEF ExclusiveInv
  <2> QED
    BY <1>1, <2>2, <2>3 DEF IsActive
<1>2. CASE /\ seen'[q] = product[call'[q].product] /\ product' = product
           /\ IsActive(call'[q].product)
  BY <1>2 DEF IsActive
<1> QED
  BY <1>1, <1>2, WhoJudges DEF ExclusiveInv

LEMMA ExclusiveInvariance == Spec => []ExclusiveInv
<1>1. Init => ExclusiveInv
  BY InitIInv DEF Init, ExclusiveInv, NoOverlap, StillOpen, StillCurrent, Relying, InFlight, ScanPc
<1>2. ExclusiveInv /\ [Next /\ NoOverlap']_vars => ExclusiveInv'
  <2> SUFFICES ASSUME ExclusiveInv, [Next /\ NoOverlap']_vars PROVE ExclusiveInv'
    OBVIOUS
  <2>1. CASE Next /\ NoOverlap'
    BY <2>1, NextIInv, StillOpenStep, StillCurrentStep DEF ExclusiveInv
  <2>2. CASE UNCHANGED vars
    <3>1. NoOverlap'
      BY <2>2 DEF ExclusiveInv, vars, NoOverlap, Row
    <3>2. StillOpen'
      BY <2>2 DEF ExclusiveInv, vars, sessions, StillOpen
    <3>3. StillCurrent'
      BY <2>2 DEF ExclusiveInv, vars, StillCurrent, IsActive
    <3> QED
      BY <2>2, <3>1, <3>2, <3>3, NextIInv DEF ExclusiveInv
  <2> QED
    BY <2>1, <2>2
<1> QED
  BY <1>1, <1>2, PTL DEF Spec

\* The lines that enter items in a step are the one add_item commits.
LEMMA ItemStep ==
    ASSUME Next, NEW q \in items' \ items
    PROVE  q \in Request /\ CommitItem(q)
<1>1. ASSUME NEW r \in Request,
             \/ Open(r) \/ AddItem(r) \/ Close(r) \/ PatchProduct(r) \/ DeleteProduct(r)
             \/ UploadPhoto(r) \/ FlushTicket(r) \/ LoadProduct(r) \/ CommitOpen(r)
             \/ CommitClose(r) \/ CommitPatch(r) \/ CommitDelete(r) \/ Fail(r)
      PROVE  items' = items
  BY <1>1, AddItemLoads, CloseLoads, PatchLoads, DeleteLoads
  DEF Open, LoadSession, LoadActive, UploadPhoto, FlushTicket, LoadProduct, CommitOpen,
      CommitClose, CommitPatch, CommitDelete, Fail, history
<1>2. ASSUME NEW p \in Product, CreateProduct(p) PROVE items' = items
  BY <1>2 DEF CreateProduct, history
<1>3. ASSUME NEW r \in Request, CommitItem(r) PROVE q = r
  BY <1>3 DEF CommitItem
<1> QED
  BY <1>1, <1>2, <1>3 DEF Next, Proceed

\* Where the requests for a product do not overlap, the verdict on a line is
\* by the range the product has when the line is committed, and it is active.
THEOREM CompliantInForceCorrect == Spec => CompliantInForce
<1>1. ASSUME ExclusiveInv, Next, NEW r \in items' \ items, call[r].product \in OwnProduct
      PROVE  /\ IsActive(call[r].product)
             /\ Compliant(r) =>
                   LET row == product[call[r].product] IN
                   row.control /\ call[r].measured # None /\ row.min # None /\ row.max # None =>
                       call[r].measured \in row.min .. row.max
  <2>1. r \in Request /\ pc[r] \in {"judged", "ticketed"}
    BY <1>1, ItemStep DEF CommitItem
  <2>2. seen[r] = product[call[r].product] /\ IsActive(call[r].product)
    BY <1>1, <2>1 DEF ExclusiveInv, StillCurrent, OwnProduct, Relying
  <2>3. call[r] \in ItemCall /\ seen[r] \in ProductRow
    BY <1>1, <2>1 DEF ExclusiveInv, IInv, Shape, ScanPc
  <2>4. call[r].measured \in Bound /\ seen[r].min \in Bound /\ seen[r].max \in Bound
    BY <2>3 DEF ItemCall, ProductRow
  <2>5. ASSUME Compliant(r), seen[r].control, call[r].measured # None,
               seen[r].min # None, seen[r].max # None
        PROVE  call[r].measured \in seen[r].min .. seen[r].max
    <3>1. call[r].measured \in Int /\ seen[r].min \in Int /\ seen[r].max \in Int
      BY <2>4, <2>5 DEF Bound
    <3>2. seen[r].min <= call[r].measured /\ call[r].measured <= seen[r].max
      BY <2>5 DEF Compliant, InRange
    <3> QED
      BY <3>1, <3>2
  <2> QED
    BY <2>2, <2>5
<1>2. ExclusiveInv /\ [Next /\ NoOverlap']_vars =>
        [\A r \in items' \ items :
          call[r].product \in OwnProduct =>
          /\ IsActive(call[r].product)
          /\ Compliant(r) =>
                LET row == product[call[r].product] IN
                row.control /\ call[r].measured # None /\ row.min # None /\ row.max # None =>
                    call[r].measured \in row.min .. row.max]_vars
  BY <1>1
<1> QED
  BY <1>2, ExclusiveInvariance, PTL DEF Spec, CompliantInForce

-----------------------------------------------------------------------------
(* How a product loses the range of its cold chain.                          *)

\* create_product writes a row that has its range.
LEMMA CreatedHasRange ==
    ASSUME IInv, NEW p \in Product, NEW x \in Product, CreateProduct(x), product'[p] # product[p]
    PROVE  HasRange(product'[p])
<1>1. PICK control \in BOOLEAN, min \in Bound, max \in Bound :
        /\ IF control THEN min # None /\ max # None /\ min <= max ELSE min = None /\ max = None
        /\ product' = [product EXCEPT ![x] =
                         [active |-> TRUE, control |-> control, min |-> min, max |-> max]]
  BY DEF CreateProduct
<1>2. product'[p] = [active |-> TRUE, control |-> control, min |-> min, max |-> max]
  BY <1>1 DEF IInv, TypeOK
<1> QED
  BY <1>1, <1>2 DEF HasRange

\* A PATCH of the range it loaded leaves the row the fields it gives and validated.
LEMMA FlaggedPatchHasRange ==
    ASSUME IInv, NEW p \in Product, NEW r \in Request, CommitPatch(r),
           call[r].product = p, call[r].control # Unset, Scale(seen[r]) = Scale(product[p])
    PROVE  HasRange(product'[p])
<1>1. /\ call[r] \in PatchCall /\ ValidPatch(call[r])
      /\ seen[r].control = product[p].control
      /\ seen[r].min = product[p].min /\ seen[r].max = product[p].max
  BY DEF CommitPatch, IInv, Shape, Scale
<1>2. product'[p] =
        [active |-> product[p].active,
         control |-> Written(call[r].control, seen[r].control, product[p].control),
         min |-> Written(call[r].min, seen[r].min, product[p].min),
         max |-> Written(call[r].max, seen[r].max, product[p].max)]
  BY DEF CommitPatch, IInv, TypeOK
<1>3. \A asked, current : asked # Unset => Written(asked, current, current) = asked
  BY DEF Written
<1>4. product'[p].control = call[r].control
  BY <1>1, <1>2, <1>3
<1>5. CASE call[r].control = TRUE
  <2>1. call[r].min \in Temp /\ call[r].max \in Temp /\ call[r].min <= call[r].max
    BY <1>1, <1>5 DEF ValidPatch
  <2>2. call[r].min # Unset /\ call[r].max # Unset
    BY <2>1
  <2>3. product'[p].min = call[r].min /\ product'[p].max = call[r].max
    BY <1>1, <1>2, <1>3, <2>2
  <2> QED
    BY <2>1, <2>3 DEF HasRange
<1>6. CASE call[r].control = FALSE
  BY <1>4, <1>6 DEF HasRange
<1> QED
  BY <1>1, <1>5, <1>6 DEF PatchCall

\* soft_delete_product leaves the range of the row as it is.
LEMMA DeleteKeepsRange ==
    ASSUME IInv, NEW p \in Product, NEW r \in Request, CommitDelete(r),
           product'[p] # product[p]
    PROVE  product[p] # None /\ (HasRange(product[p]) => HasRange(product'[p]))
<1>1. call[r].product = p /\ product'[p] = [product[p] EXCEPT !.active = FALSE]
  BY DEF CommitDelete, IInv, TypeOK
<1>2. product[p] \in ProductRow
  BY <1>1 DEF CommitDelete, IInv, Shape
<1>3. /\ product'[p].control = product[p].control
      /\ product'[p].min = product[p].min /\ product'[p].max = product[p].max
  BY <1>1, <1>2 DEF ProductRow
<1>4. product[p] # None
  BY <1>2
<1> QED
  BY <1>3, <1>4 DEF HasRange

LEMMA RangeStep ==
    ASSUME ExclusiveInv, Next, NEW p \in Product,
           product[p] # None => HasRange(product[p]),
           product'[p] # None, ~HasRange(product'[p])
    PROVE  \E r \in Request :
              /\ pc[r] = "patching" /\ pc'[r] = "ok" /\ call[r].product = p
              /\ \/ call[r].control = Unset
                 \/ p \notin Exclusive /\ Scale(seen[r]) # Scale(product[p])
<1>1. product'[p] # product[p]
  OBVIOUS
<1>2. ASSUME NEW r \in Request,
             \/ Open(r) \/ AddItem(r) \/ Close(r) \/ PatchProduct(r) \/ DeleteProduct(r)
             \/ UploadPhoto(r) \/ FlushTicket(r) \/ CommitItem(r) \/ LoadProduct(r)
             \/ CommitOpen(r) \/ CommitClose(r) \/ Fail(r)
      PROVE  product' = product
  BY <1>2, AddItemLoads, CloseLoads, PatchLoads, DeleteLoads
  DEF Open, LoadSession, LoadActive, UploadPhoto, FlushTicket, CommitItem, LoadProduct,
      CommitOpen, CommitClose, Fail
<1>3. ASSUME NEW x \in Product, CreateProduct(x) PROVE FALSE
  BY <1>1, <1>3, CreatedHasRange DEF ExclusiveInv
<1>4. ASSUME NEW r \in Request, CommitDelete(r) PROVE FALSE
  BY <1>1, <1>4, DeleteKeepsRange DEF ExclusiveInv
<1>5. ASSUME NEW r \in Request, CommitPatch(r)
      PROVE  /\ pc[r] = "patching" /\ pc'[r] = "ok" /\ call[r].product = p
             /\ \/ call[r].control = Unset
                \/ p \notin Exclusive /\ Scale(seen[r]) # Scale(product[p])
  <2>1. pc[r] = "patching" /\ pc'[r] = "ok" /\ call[r].product = p
    BY <1>1, <1>5 DEF CommitPatch, Finish, ExclusiveInv, IInv, TypeOK
  <2>2. p \in Exclusive => seen[r] = product[p]
    BY <1>5, <2>1 DEF ExclusiveInv, StillCurrent, Relying, OwnProduct
  <2> QED
    BY <1>5, <2>1, <2>2, FlaggedPatchHasRange DEF ExclusiveInv
<1> QED
  BY <1>1, <1>2, <1>3, <1>4, <1>5 DEF Next, Proceed

\* However requests interleave, the code breaks the rule of its schema by two paths
\* only: the PATCH without the flag, that is not validated, and two PATCHes at once.
THEOREM RangeLossExplainedCorrect == Spec => RangeLossExplained
<1>1. ExclusiveInv /\ [Next /\ NoOverlap']_vars =>
        [\A p \in Product :
          /\ product[p] # None => HasRange(product[p])
          /\ product'[p] # None /\ ~HasRange(product'[p])
          => \E r \in Request :
                /\ pc[r] = "patching" /\ pc'[r] = "ok" /\ call[r].product = p
                /\ \/ call[r].control = Unset
                   \/ p \notin Exclusive /\ Scale(seen[r]) # Scale(product[p])]_vars
  BY RangeStep DEF vars
<1> QED
  BY <1>1, ExclusiveInvariance, PTL DEF Spec, RangeLossExplained

-----------------------------------------------------------------------------
(* Sessions whose requests do not overlap implement the dossier.             *)

LEMMA SameLines ==
    ASSUME \A q \in items : call'[q] = call[q], items' = items
    PROVE  [s \in OwnSession |-> Lines(s)]' = [s \in OwnSession |-> Lines(s)]
<1>1. \A s \in OwnSession : Lines(s)' = Lines(s)
  BY DEF Lines
<1> QED
  BY <1>1

LEMMA DossierStep ==
    ASSUME ExclusiveInv, [Next]_vars PROVE [Dossier!Next]_(Dossier!dossier)
<1> USE DEF ExclusiveInv
<1>1. ASSUME UNCHANGED <<status, closed_at, items>>, \A q \in items : call'[q] = call[q]
      PROVE  UNCHANGED Dossier!dossier
  BY <1>1, SameLines DEF Dossier!dossier, OnOwn
<1>2. ASSUME NEW r \in Request,
             \/ Open(r) \/ AddItem(r) \/ Close(r) \/ PatchProduct(r) \/ DeleteProduct(r)
             \/ UploadPhoto(r) \/ FlushTicket(r) \/ LoadProduct(r)
             \/ CommitPatch(r) \/ CommitDelete(r) \/ Fail(r)
      PROVE  UNCHANGED Dossier!dossier
  <2>1. UNCHANGED <<status, closed_at, items>>
    BY <1>2, AddItemLoads, CloseLoads, PatchLoads, DeleteLoads
    DEF Open, LoadSession, LoadActive, UploadPhoto, FlushTicket, LoadProduct,
        CommitPatch, CommitDelete, Fail, sessions, history
  <2>2. pc[r] \in {"new"} \cup InFlight
    BY <1>2, AddItemLoads, CloseLoads, PatchLoads, DeleteLoads
    DEF Open, LoadSession, LoadActive, UploadPhoto, FlushTicket, LoadProduct,
        CommitPatch, CommitDelete, Fail, InFlight
  <2>3. \A q \in items : q \in Request /\ q # r
    BY <2>2, NotAnswered DEF IInv, TypeOK
  <2> QED
    BY <1>1, <1>2, <2>1, <2>3, OthersStay DEF Proceed
<1>3. ASSUME NEW p \in Product, CreateProduct(p) PROVE UNCHANGED Dossier!dossier
  BY <1>1, <1>3 DEF CreateProduct, sessions, history
<1>4. CASE UNCHANGED vars
  BY <1>1, <1>4 DEF vars, sessions, history
<1>5. ASSUME NEW r \in Request, CommitOpen(r) PROVE [Dossier!Next]_(Dossier!dossier)
  <2>1. PICK s \in Session :
          status[s] = None /\ status' = [status EXCEPT ![s] = "OPEN"]
    BY <1>5 DEF CommitOpen
  <2>2. UNCHANGED <<closed_at, items, call>>
    BY <1>5 DEF CommitOpen, Goto, history
  <2>3. UNCHANGED <<[x \in OwnSession |-> Lines(x)], OnOwn(closed_at)>>
    BY <2>2, SameLines DEF OnOwn
  <2>4. CASE s \in OwnSession
    <3>1. /\ OnOwn(status)[s] = None
          /\ OnOwn(status)' = [OnOwn(status) EXCEPT ![s] = "OPEN"]
      BY <2>1, <2>4 DEF OnOwn, OwnSession, IInv, TypeOK
    <3>2. Dossier!Open(s)
      BY <2>3, <3>1 DEF Dossier!Open
    <3> QED
      BY <2>4, <3>2 DEF Dossier!Next
  <2>5. CASE s \notin OwnSession
    <3>1. OnOwn(status)' = OnOwn(status)
      BY <2>1, <2>5 DEF OnOwn, OwnSession, IInv, TypeOK
    <3> QED
      BY <2>3, <3>1 DEF Dossier!dossier
  <2> QED
    BY <2>4, <2>5
<1>6. ASSUME NEW r \in Request, CommitItem(r) PROVE [Dossier!Next]_(Dossier!dossier)
  <2> DEFINE s == call[r].session
  <2>1. s \in Session /\ pc[r] \in ScanPc
    BY <1>6, RowInFlight DEF CommitItem, ScanPc
  <2>2. UNCHANGED <<OnOwn(status), OnOwn(closed_at)>>
    BY <1>6 DEF CommitItem, sessions, OnOwn
  <2>3. \A x \in Session : Lines(x)' = IF x = s THEN Lines(x) \cup {r} ELSE Lines(x)
    BY <1>6 DEF CommitItem, Goto, Lines
  <2>4. CASE s \in OwnSession
    <3>1. status[s] = "OPEN"
      BY <2>1, <2>4 DEF StillOpen, OwnSession
    <3>2. [x \in OwnSession |-> Lines(x)]'
            = [[x \in OwnSession |-> Lines(x)] EXCEPT ![s] = @ \cup {r}]
      BY <2>3, <2>4 DEF OwnSession
    <3>3. Dossier!Add(s, r)
      BY <2>2, <2>4, <3>1, <3>2 DEF Dossier!Add, OnOwn
    <3> QED
      BY <2>4, <3>3 DEF Dossier!Next
  <2>5. CASE s \notin OwnSession
    <3>1. UNCHANGED [x \in OwnSession |-> Lines(x)]
      BY <2>3, <2>5 DEF OwnSession
    <3> QED
      BY <2>2, <3>1 DEF Dossier!dossier
  <2> QED
    BY <2>4, <2>5
<1>7. ASSUME NEW r \in Request, CommitClose(r) PROVE [Dossier!Next]_(Dossier!dossier)
  <2> DEFINE s == call[r].session
  <2>1. s \in Session /\ pc[r] = "closing"
    BY <1>7, RowInFlight DEF CommitClose
  <2>2. \A q \in items : q \in Request /\ q # r
    BY <2>1, NotAnswered DEF InFlight, IInv, TypeOK
  <2>3. UNCHANGED [x \in OwnSession |-> Lines(x)]
    BY <1>7, <2>2, SameLines, OthersStay DEF CommitClose, history, Proceed
  <2>4. CASE s \in OwnSession
    <3>1. status[s] = "OPEN"
      BY <2>1, <2>4 DEF StillOpen, OwnSession
    <3>2. /\ OnOwn(status)' = [OnOwn(status) EXCEPT ![s] = "CLOSED"]
          /\ OnOwn(closed_at)' = [OnOwn(closed_at) EXCEPT ![s] = r]
      BY <1>7, <2>4 DEF CommitClose, OnOwn, OwnSession, IInv, TypeOK
    <3>3. Dossier!Close(s, r)
      BY <2>3, <2>4, <3>1, <3>2 DEF Dossier!Close, OnOwn
    <3> QED
      BY <2>4, <3>3 DEF Dossier!Next
  <2>5. CASE s \notin OwnSession
    <3>1. UNCHANGED <<OnOwn(status), OnOwn(closed_at)>>
      BY <1>7, <2>5 DEF CommitClose, OnOwn, OwnSession, IInv, TypeOK
    <3> QED
      BY <2>3, <3>1 DEF Dossier!dossier
  <2> QED
    BY <2>4, <2>5
<1> QED
  BY <1>2, <1>3, <1>4, <1>5, <1>6, <1>7 DEF Next, Proceed

\* Where the requests for a session do not overlap, the handlers implement the
\* dossier: its lines are frozen by its one closing.
THEOREM DossierImplemented == Spec => ImplementsDossier
<1>1. Init => Dossier!Init
  <2> SUFFICES ASSUME Init, NEW s \in OwnSession
               PROVE  status[s] = None /\ Lines(s) = {} /\ closed_at[s] = None
    BY DEF Dossier!Init, OnOwn
  <2> QED
    BY DEF Init, Lines, OwnSession
<1>2. ExclusiveInv /\ [Next /\ NoOverlap']_vars => [Dossier!Next]_(Dossier!dossier)
  BY DossierStep
<1> QED
  BY <1>1, <1>2, ExclusiveInvariance, PTL DEF Spec, ImplementsDossier, Dossier!Spec

=============================================================================
