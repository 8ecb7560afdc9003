--------------------------- MODULE RegistersProofs ---------------------------
(***************************************************************************)
(* Proofs about Registers, for any rows, sites and requests.               *)
(***************************************************************************)
EXTENDS Registers, TLAPS

USE RowAssumption, NoneAssumption

(* The inductive invariant: a request that has loaded a row keeps a call of  *)
(* its own kind, and a supplier that was found in scope stays of that site.  *)

Loaded == {"scoping", "linking", "approving", "signing on", "retiring"}

Sane(r) ==
    /\ pc[r] \in Loaded => seen[r] \in Columns /\ is_active[call[r].row] # None
    /\ pc[r] \in {"creating", "scoping", "linking"} => call[r] \in LinkCall
    /\ pc[r] \in {"creating", "scoping"} => call[r].supplier \in Supplier
    /\ pc[r] \in {"creating", "linking"} /\ call[r].supplier # Unset =>
          establishment[call[r].supplier] = establishment[call[r].row]
    /\ pc[r] = "approving" => call[r] \in SupplierCall
    /\ pc[r] = "signing on" => call[r] \in OperatorCall
    /\ pc[r] = "retiring" => call[r] \in RetireCall

IInv == TypeOK /\ \A r \in Request : Sane(r)

LEMMA InitIInv == Init => IInv
BY DEF Init, IInv, TypeOK, Sane, Loaded, Row

LEMMA CallRow ==
    ASSUME IInv, NEW r \in Request, pc[r] \in InFlight
    PROVE  /\ call[r].row \in Row
           /\ call[r].supplier \in Supplier \cup {Unset}
           /\ call[r] \in Call
<1>1. call[r] \in Call
  BY DEF IInv, Sane, InFlight, Call
<1> QED
  BY <1>1 DEF Call, LinkCall, SupplierCall, OperatorCall, RetireCall, Row

\* A request that is not the one that moves stays sane as long as no row
\* disappears.
LEMMA OthersSane ==
    ASSUME IInv, NEW q \in Request,
           pc'[q] = pc[q], call'[q] = call[q], seen'[q] = seen[q],
           \A x \in Row : is_active[x] # None => is_active'[x] # None
    PROVE  Sane(q)'
<1>1. Sane(q)
  BY DEF IInv
<1>2. pc[q] \in Loaded => call[q].row \in Row
  BY CallRow DEF Loaded, InFlight
<1> QED
  BY <1>1, <1>2 DEF Sane

LEMMA CreateIInv ==
    ASSUME IInv,
           \/ \E s \in Supplier : CreateSupplier(s)
           \/ \E o \in Operator : CreateOperator(o)
    PROVE  IInv'
<1>1. TypeOK'
  <2>1. ASSUME NEW s \in Supplier, CreateSupplier(s) PROVE TypeOK'
    BY <2>1 DEF IInv, CreateSupplier, TypeOK, Row
  <2>2. ASSUME NEW o \in Operator, CreateOperator(o) PROVE TypeOK'
    BY <2>2 DEF IInv, CreateOperator, TypeOK, Row
  <2> QED
    BY <2>1, <2>2
<1>2. \A x \in Row : is_active[x] # None => is_active'[x] # None
  BY DEF IInv, CreateSupplier, CreateOperator, TypeOK, Row
<1>3. UNCHANGED <<pc, call, seen>>
  BY DEF CreateSupplier, CreateOperator
<1> QED
  BY <1>1, <1>2, <1>3, OthersSane DEF IInv

LEMMA LoadIInv ==
    ASSUME IInv, NEW r \in Request, NEW c \in Call, NEW next, Load(r, c, next),
           is_active[c.row] # None,
           \/ next = "scoping" /\ c \in LinkCall /\ c.supplier # Unset
           \/ next = "linking" /\ c \in LinkCall /\ c.supplier = Unset
           \/ next = "approving" /\ c \in SupplierCall
           \/ next = "signing on" /\ c \in OperatorCall
           \/ next = "retiring" /\ c \in RetireCall
    PROVE  IInv'
<1> USE DEF Load, columns
<1>1. c.row \in Row
  BY DEF Call, LinkCall, SupplierCall, OperatorCall, RetireCall, Row
<1>2. Select(c.row) \in Columns
  BY <1>1 DEF IInv, TypeOK, Select, Columns
<1>3. TypeOK'
  BY <1>2 DEF IInv, TypeOK, InFlight
<1>4. ASSUME NEW q \in Request PROVE Sane(q)'
  <2>1. CASE q = r
    BY <1>2, <2>1 DEF IInv, TypeOK, Sane, Loaded, LinkCall
  <2>2. CASE q # r
    BY <2>2, OthersSane DEF IInv, TypeOK
  <2> QED
    BY <2>1, <2>2
<1> QED
  BY <1>3, <1>4 DEF IInv

LEMMA CheckCreateIInv == ASSUME IInv, NEW r \in Request, CheckCreate(r) PROVE IInv'
<1> USE DEF CheckCreate, columns
<1>1. PICK p \in Product, s \in Supplier :
        /\ InScope(s, p)
        /\ call' = [call EXCEPT ![r] = [op |-> "create", row |-> p, supplier |-> s]]
  OBVIOUS
<1>2. [op |-> "create", row |-> p, supplier |-> s] \in LinkCall
  BY DEF LinkCall
<1>3. TypeOK'
  BY <1>1, <1>2 DEF IInv, TypeOK, InFlight, Call
<1>4. ASSUME NEW q \in Request PROVE Sane(q)'
  <2>1. CASE q = r
    BY <1>1, <1>2, <2>1 DEF IInv, TypeOK, Sane, Loaded, InScope
  <2>2. CASE q # r
    BY <2>2, OthersSane DEF IInv, TypeOK
  <2> QED
    BY <2>1, <2>2
<1> QED
  BY <1>3, <1>4 DEF IInv

LEMMA CheckSupplierIInv == ASSUME IInv, NEW r \in Request, CheckSupplier(r) PROVE IInv'
<1> USE DEF CheckSupplier, columns
<1>1. TypeOK'
  BY DEF IInv, TypeOK, InFlight
<1>2. ASSUME NEW q \in Request PROVE Sane(q)'
  <2>1. CASE q = r
    BY <2>1 DEF IInv, TypeOK, Sane, Loaded, InScope
  <2>2. CASE q # r
    BY <2>2, OthersSane DEF IInv, TypeOK
  <2> QED
    BY <2>1, <2>2
<1> QED
  BY <1>1, <1>2 DEF IInv

\* A step that answers r, whatever it writes, as long as no row disappears.
LEMMA FinishIInv ==
    ASSUME IInv, NEW r \in Request, NEW answer \in Answered, Finish(r, answer),
           \A x \in Row : is_active[x] # None => is_active'[x] # None,
           is_active' \in [Row -> BOOLEAN \cup {None}],
           status' \in [Supplier -> SupplierStatus \cup {None}],
           supplier' \in [Product -> Supplier \cup {None}],
           role' \in [Operator -> OperatorRole \cup {None}],
           pin' \in [Operator -> Request \cup Operator \cup {None}]
    PROVE  IInv'
<1> USE DEF Finish
<1>1. TypeOK'
  BY DEF IInv, TypeOK
<1>2. ASSUME NEW q \in Request PROVE Sane(q)'
  <2>1. CASE q = r
    <3>1. pc'[r] \in Answered
      BY DEF IInv, TypeOK
    <3> QED
      BY <2>1, <3>1 DEF Sane, Loaded, Answered
  <2>2. CASE q # r
    BY <2>2, OthersSane DEF IInv, TypeOK
  <2> QED
    BY <2>1, <2>2
<1> QED
  BY <1>1, <1>2 DEF IInv

LEMMA CommitSupplierIInv == ASSUME IInv, NEW r \in Request, CommitSupplier(r) PROVE IInv'
<1> USE DEF CommitSupplier
<1>1. call[r] \in SupplierCall /\ seen[r] \in Columns
  BY DEF IInv, Sane, Loaded
<1>2. call[r].row \in Supplier
  BY <1>1 DEF SupplierCall
<1>3. status' \in [Supplier -> SupplierStatus \cup {None}]
  BY <1>1, <1>2 DEF IInv, TypeOK, SupplierCall, Written
<1>4. is_active' \in [Row -> BOOLEAN \cup {None}]
  BY <1>1, <1>2 DEF IInv, TypeOK, SupplierCall, Written, Row
<1>5. \A x \in Row : is_active[x] # None => is_active'[x] # None
  BY <1>1, <1>2 DEF IInv, TypeOK, SupplierCall, Written, Row
<1>6. UNCHANGED <<supplier, role, pin>> /\ Finish(r, "ok") /\ "ok" \in Answered
  BY DEF Answered
<1> QED
  BY <1>3, <1>4, <1>5, <1>6, FinishIInv DEF IInv, TypeOK

LEMMA CommitProductIInv ==
    ASSUME IInv, NEW r \in Request, CommitCreate(r) \/ CommitProduct(r) PROVE IInv'
<1> USE DEF CommitCreate, CommitProduct
<1>1. call[r] \in LinkCall
  BY DEF IInv, Sane
<1>2. call[r].row \in Product /\ call[r].row \in Row
  BY <1>1 DEF LinkCall, Row
<1>3. supplier' \in [Product -> Supplier \cup {None}]
  <2>1. CASE CommitCreate(r)
    BY <1>2, <2>1 DEF IInv, TypeOK, Sane
  <2>2. CASE CommitProduct(r)
    BY <1>1, <1>2, <2>2 DEF IInv, TypeOK, LinkCall, Written
  <2> QED
    BY <2>1, <2>2
<1>4. is_active' \in [Row -> BOOLEAN \cup {None}]
  BY <1>2 DEF IInv, TypeOK
<1>5. \A x \in Row : is_active[x] # None => is_active'[x] # None
  BY <1>2 DEF IInv, TypeOK
<1>6. UNCHANGED <<status, role, pin>> /\ Finish(r, "ok") /\ "ok" \in Answered
  BY DEF Answered
<1> QED
  BY <1>3, <1>4, <1>5, <1>6, FinishIInv DEF IInv, TypeOK

LEMMA CommitOperatorIInv == ASSUME IInv, NEW r \in Request, CommitOperator(r) PROVE IInv'
<1> USE DEF CommitOperator
<1>1. call[r] \in OperatorCall
  BY DEF IInv, Sane
<1>2. role' \in [Operator -> OperatorRole \cup {None}]
  BY <1>1 DEF IInv, TypeOK, OperatorCall, Written
<1>3. pin' \in [Operator -> Request \cup Operator \cup {None}]
  BY <1>1 DEF IInv, TypeOK, OperatorCall
<1>4. UNCHANGED <<is_active, status, supplier>> /\ Finish(r, "ok") /\ "ok" \in Answered
  BY DEF Answered
<1>5. /\ is_active' \in [Row -> BOOLEAN \cup {None}]
      /\ status' \in [Supplier -> SupplierStatus \cup {None}]
      /\ supplier' \in [Product -> Supplier \cup {None}]
  BY <1>4 DEF IInv, TypeOK
<1> HIDE DEF CommitOperator
<1> QED
  BY <1>2, <1>3, <1>4, <1>5, FinishIInv

LEMMA CommitRetireIInv == ASSUME IInv, NEW r \in Request, CommitRetire(r) PROVE IInv'
<1> USE DEF CommitRetire, columns
<1>1. call[r].row \in Row
  BY CallRow DEF InFlight
<1>2. is_active' \in [Row -> BOOLEAN \cup {None}]
  BY <1>1 DEF IInv, TypeOK
<1>3. \A x \in Row : is_active[x] # None => is_active'[x] # None
  BY <1>1 DEF IInv, TypeOK
<1>4. UNCHANGED columns /\ Finish(r, "ok") /\ "ok" \in Answered
  BY DEF Answered
<1> QED
  BY <1>2, <1>3, <1>4, FinishIInv DEF IInv, TypeOK

LEMMA FailIInv == ASSUME IInv, NEW r \in Request, Fail(r) PROVE IInv'
<1>1. Finish(r, "failed") /\ "failed" \in Answered /\ UNCHANGED <<is_active, columns>>
  BY DEF Fail, Answered
<1> QED
  BY <1>1, FinishIInv DEF IInv, TypeOK, columns

LEMMA NextIInv == IInv /\ [Next]_vars => IInv'
<1> SUFFICES ASSUME IInv, [Next]_vars PROVE IInv'
  OBVIOUS
<1>1. ASSUME NEW r \in Request, LoadSupplier(r) PROVE IInv'
  <2>1. PICK c \in SupplierCall : is_active[c.row] # None /\ Load(r, c, "approving")
    BY <1>1 DEF LoadSupplier, SupplierCall
  <2> QED
    BY <2>1, LoadIInv DEF Call
<1>2. ASSUME NEW r \in Request, LoadProduct(r) PROVE IInv'
  <2>1. PICK p \in Product, s \in Supplier \cup {Unset} :
          /\ is_active[p] = TRUE
          /\ Load(r, [op |-> "product", row |-> p, supplier |-> s],
                  IF s = Unset THEN "linking" ELSE "scoping")
    BY <1>2 DEF LoadProduct
  <2> DEFINE c == [op |-> "product", row |-> p, supplier |-> s]
  <2>2. c \in LinkCall /\ c \in Call /\ c.row = p /\ c.supplier = s
    BY DEF LinkCall, Call
  <2>3. is_active[c.row] # None
    BY <2>1, <2>2
  <2>4. CASE s = Unset
    <3>1. Load(r, c, "linking")
      BY <2>1, <2>4
    <3> HIDE DEF c
    <3> QED
      BY <2>2, <2>3, <2>4, <3>1, LoadIInv
  <2>5. CASE s # Unset
    <3>1. Load(r, c, "scoping")
      BY <2>1, <2>5
    <3> HIDE DEF c
    <3> QED
      BY <2>2, <2>3, <2>5, <3>1, LoadIInv
  <2> QED
    BY <2>4, <2>5
<1>3. ASSUME NEW r \in Request, LoadOperator(r) PROVE IInv'
  <2>1. PICK c \in OperatorCall : is_active[c.row] # None /\ Load(r, c, "signing on")
    BY <1>3 DEF LoadOperator, OperatorCall
  <2> QED
    BY <2>1, LoadIInv DEF Call
<1>4. ASSUME NEW r \in Request, LoadRetire(r) PROVE IInv'
  <2>1. PICK c \in RetireCall : is_active[c.row] # None /\ Load(r, c, "retiring")
    BY <1>4 DEF LoadRetire, RetireCall
  <2> QED
    BY <2>1, LoadIInv DEF Call
<1>5. CASE UNCHANGED vars
  BY <1>5 DEF IInv, vars, columns, TypeOK, Sane
<1> QED
  BY <1>1, <1>2, <1>3, <1>4, <1>5, CreateIInv, CheckCreateIInv, CheckSupplierIInv,
     CommitSupplierIInv, CommitProductIInv, CommitOperatorIInv, CommitRetireIInv, FailIInv
     DEF Next

\* The inductive invariant holds in every behaviour.
THEOREM Invariance == Spec => []IInv
<1>1. Init => IInv
  BY InitIInv
<1>2. IInv /\ [Next /\ NoOverlap']_vars => IInv'
  BY NextIInv
<1> QED
  BY <1>1, <1>2, PTL DEF Spec

\* Every column and every request keeps its type.
THEOREM TypeCorrect == Spec => []TypeOK
<1>1. IInv => TypeOK
  BY DEF IInv
<1> QED
  BY <1>1, Invariance, PTL

-----------------------------------------------------------------------------
(* The supplier of a product, in every interleaving.  A request that is about *)
(* to link one has found it on file, and no handler deletes a row.           *)

LinkInv ==
    /\ IInv
    /\ \A r \in Request :
          pc[r] \in {"creating", "linking"} /\ call[r].supplier # Unset =>
              is_active[call[r].supplier] # None
    /\ SupplierOnFile

LEMMA RowsRemain ==
    ASSUME IInv, Next, NEW x \in Row, is_active[x] # None
    PROVE  is_active'[x] # None
<1> USE DEF IInv, TypeOK
<1>1. ASSUME NEW r \in Request, CommitSupplier(r) PROVE is_active'[x] # None
  <2>1. call[r] \in SupplierCall
    BY <1>1 DEF CommitSupplier, Sane
  <2> QED
    BY <1>1, <2>1 DEF CommitSupplier, SupplierCall, Written
<1>2. ASSUME NEW r \in Request, CommitCreate(r) \/ CommitRetire(r) PROVE is_active'[x] # None
  BY <1>2 DEF CommitCreate, CommitRetire
<1>3. ASSUME \/ \E y \in Supplier : CreateSupplier(y)
             \/ \E y \in Operator : CreateOperator(y)
      PROVE  is_active'[x] # None
  BY <1>3 DEF CreateSupplier, CreateOperator
<1>4. ASSUME NEW r \in Request,
             \/ LoadSupplier(r) \/ CheckCreate(r) \/ LoadProduct(r) \/ CheckSupplier(r)
             \/ CommitProduct(r) \/ LoadOperator(r) \/ CommitOperator(r) \/ LoadRetire(r)
             \/ Fail(r)
      PROVE  UNCHANGED is_active
  BY <1>4 DEF LoadSupplier, CheckCreate, LoadProduct, CheckSupplier, CommitProduct,
              LoadOperator, CommitOperator, LoadRetire, Fail, Load
<1> QED
  BY <1>1, <1>2, <1>3, <1>4 DEF Next

\* A supplier that a request is about to link is on file.
LEMMA LinkingOnFile ==
    ASSUME LinkInv, Next, NEW q \in Request, pc'[q] \in {"creating", "linking"},
           call'[q].supplier # Unset
    PROVE  is_active'[call'[q].supplier] # None
<1> USE DEF LinkInv, IInv, TypeOK
<1>1. CASE pc'[q] = pc[q] /\ call'[q] = call[q]
  <2>1. call[q].supplier \in Row
    BY <1>1, CallRow DEF InFlight, Row
  <2> QED
    BY <1>1, <2>1, RowsRemain
<1>2. CASE pc'[q] # pc[q] \/ call'[q] # call[q]
  <2>1. ASSUME \/ \E y \in Supplier : CreateSupplier(y)
               \/ \E y \in Operator : CreateOperator(y)
        PROVE  FALSE
    BY <1>2, <2>1 DEF CreateSupplier, CreateOperator
  <2>2. ASSUME NEW p \in Request,
               \/ LoadSupplier(p) \/ LoadOperator(p) \/ LoadRetire(p) \/ Fail(p)
               \/ CommitSupplier(p) \/ CommitRetire(p) \/ CommitCreate(p) \/ CommitProduct(p)
               \/ CommitOperator(p)
        PROVE  FALSE
    <3>1. ASSUME NEW next \in {"approving", "signing on", "retiring", "ok", "failed"},
                 pc' = [pc EXCEPT ![p] = next],
                 \A x \in Request : x # p => call'[x] = call[x]
          PROVE  FALSE
      BY <1>2, <3>1
    <3>2. ASSUME NEW c, NEW next \in {"approving", "signing on", "retiring"}, Load(p, c, next)
          PROVE  FALSE
      BY <3>1, <3>2 DEF Load
    <3>3. ASSUME NEW answer \in Answered, Finish(p, answer) PROVE FALSE
      BY <3>1, <3>3 DEF Finish, Answered
    <3>4. CASE LoadSupplier(p) \/ LoadOperator(p) \/ LoadRetire(p)
      BY <3>2, <3>4 DEF LoadSupplier, LoadOperator, LoadRetire
    <3> QED
      BY <2>2, <3>3, <3>4 DEF Fail, CommitSupplier, CommitRetire, CommitCreate, CommitProduct,
                              CommitOperator, Answered
  <2>3. ASSUME NEW p \in Request, CheckCreate(p) \/ CheckSupplier(p)
        PROVE  is_active'[call'[q].supplier] # None
    <3>1. q = p
      BY <1>2, <2>3 DEF CheckCreate, CheckSupplier
    <3>2. is_active[call'[p].supplier] = TRUE /\ UNCHANGED is_active
      BY <2>3 DEF CheckCreate, CheckSupplier, InScope
    <3> QED
      BY <3>1, <3>2
  <2>4. ASSUME NEW p \in Request, LoadProduct(p) PROVE FALSE
    BY <1>2, <2>4 DEF LoadProduct, Load
  <2> QED
    BY <2>1, <2>2, <2>3, <2>4 DEF Next
<1> QED
  BY <1>1, <1>2

LEMMA OnFileStep == ASSUME LinkInv, Next PROVE SupplierOnFile'
<1> USE DEF LinkInv, IInv, TypeOK
<1> SUFFICES ASSUME NEW p \in Product, is_active'[p] # None
             PROVE  /\ supplier'[p] \in Supplier
                    /\ is_active'[supplier'[p]] # None
                    /\ establishment[supplier'[p]] = establishment[p]
  BY DEF SupplierOnFile
<1>1. CASE is_active[p] # None /\ supplier'[p] = supplier[p]
  BY <1>1, RowsRemain DEF SupplierOnFile, Row
<1>2. ASSUME NEW r \in Request, CommitCreate(r), call[r].row = p
      PROVE  supplier'[p] = call[r].supplier /\ call[r].supplier \in Supplier
             /\ is_active[call[r].supplier] # None
             /\ establishment[call[r].supplier] = establishment[p]
  <2>1. call[r].supplier \in Supplier
    BY <1>2 DEF CommitCreate, Sane
  <2>2. call[r].supplier # Unset
    BY <2>1 DEF Row
  <2> QED
    BY <1>2, <2>1, <2>2 DEF CommitCreate, Sane
<1>3. ASSUME NEW r \in Request, CommitProduct(r), call[r].row = p, supplier'[p] # supplier[p]
      PROVE  supplier'[p] = call[r].supplier /\ call[r].supplier \in Supplier
             /\ is_active[call[r].supplier] # None
             /\ establishment[call[r].supplier] = establishment[p]
  <2>1. call[r] \in LinkCall
    BY <1>3 DEF CommitProduct, Sane
  <2>2. supplier'[p] = call[r].supplier /\ call[r].supplier # Unset
    BY <1>3 DEF CommitProduct, Written
  <2> QED
    BY <1>3, <2>1, <2>2 DEF CommitProduct, Sane, LinkCall
<1>4. ASSUME is_active[p] = None \/ supplier'[p] # supplier[p]
      PROVE  \E r \in Request :
                call[r].row = p /\ (CommitCreate(r) \/ (CommitProduct(r) /\ is_active[p] # None))
  <2>1. ASSUME NEW r \in Request, CommitCreate(r) PROVE call[r].row = p
    BY <1>4, <2>1 DEF CommitCreate, Row
  <2>2. ASSUME NEW r \in Request, CommitProduct(r)
        PROVE  call[r].row = p /\ is_active[p] # None
    <3>1. is_active[call[r].row] # None /\ UNCHANGED is_active
      BY <2>2 DEF CommitProduct, Sane, Loaded
    <3> QED
      BY <1>4, <2>2, <3>1 DEF CommitProduct
  <2>3. ASSUME NEW r \in Request,
               \/ LoadSupplier(r) \/ CheckCreate(r) \/ LoadProduct(r) \/ CheckSupplier(r)
               \/ LoadOperator(r) \/ CommitOperator(r) \/ LoadRetire(r) \/ Fail(r)
        PROVE  FALSE
    BY <1>4, <2>3 DEF LoadSupplier, CheckCreate, LoadProduct, CheckSupplier, LoadOperator,
                      CommitOperator, LoadRetire, Fail, Load, columns
  <2>4. ASSUME \/ \E y \in Supplier : CreateSupplier(y)
               \/ \E y \in Operator : CreateOperator(y)
        PROVE  FALSE
    BY <1>4, <2>4 DEF CreateSupplier, CreateOperator, Row
  <2>5. ASSUME NEW r \in Request, CommitSupplier(r) PROVE FALSE
    <3>1. call[r].row \in Supplier
      BY <2>5 DEF CommitSupplier, Sane, SupplierCall
    <3> QED
      BY <1>4, <2>5, <3>1 DEF CommitSupplier, Row
  <2>6. ASSUME NEW r \in Request, CommitRetire(r) PROVE FALSE
    <3>1. is_active[call[r].row] # None
      BY <2>6 DEF CommitRetire, Sane, Loaded
    <3> QED
      BY <1>4, <2>6, <3>1 DEF CommitRetire, columns, Row
  <2> QED
    BY <2>1, <2>2, <2>3, <2>4, <2>5, <2>6 DEF Next
<1> QED
  BY <1>1, <1>2, <1>3, <1>4, RowsRemain DEF Row

LEMMA LinkInvariance == Spec => []LinkInv
<1>1. Init => LinkInv
  BY InitIInv DEF LinkInv, Init, SupplierOnFile, Row
<1>2. LinkInv /\ [Next /\ NoOverlap']_vars => LinkInv'
  <2> SUFFICES ASSUME LinkInv, [Next]_vars PROVE LinkInv'
    OBVIOUS
  <2>1. CASE Next
    BY <2>1, NextIInv, LinkingOnFile, OnFileStep DEF LinkInv
  <2>2. CASE UNCHANGED vars
    BY <2>2, NextIInv DEF LinkInv, SupplierOnFile, vars, columns
  <2> QED
    BY <2>1, <2>2
<1> QED
  BY <1>1, <1>2, PTL DEF Spec

\* Whatever interleaves with create_product, update_product and the retirements,
\* a product has a supplier, on file and of its own site.
THEOREM SupplierOnFileCorrect == Spec => []SupplierOnFile
<1>1. LinkInv => SupplierOnFile
  BY DEF LinkInv
<1> QED
  BY <1>1, LinkInvariance, PTL

-----------------------------------------------------------------------------
(* What a request has seen of an exclusive row is still so when it commits:  *)
(* only a request in flight on the row retires it.                           *)

ExclusiveInv ==
    \A r \in Request :
        /\ pc[r] \in {"scoping", "linking", "signing on"} /\ call[r].row \in Exclusive =>
              is_active[call[r].row] = TRUE
        /\ pc[r] \in {"creating", "linking"} /\ call[r].supplier \in Exclusive =>
              is_active[call[r].supplier] = TRUE

LEMMA InitExclusive == Init => ExclusiveInv /\ NoOverlap
BY DEF Init, ExclusiveInv, NoOverlap, InFlight

\* A row ceases to be active only by the commit of a request on that very row.
LEMMA ActiveUntilRetired ==
    ASSUME IInv, Next, NEW x \in Row, is_active[x] = TRUE, is_active'[x] # TRUE
    PROVE  \E r \in Request :
              /\ pc[r] \in {"approving", "retiring"} /\ call[r].row = x
              /\ pc'[r] = "ok"
              /\ \A q \in Request \ {r} : pc'[q] = pc[q] /\ call'[q] = call[q]
<1>1. ASSUME NEW s \in Supplier, CreateSupplier(s) PROVE FALSE
  BY <1>1 DEF CreateSupplier, IInv, TypeOK
<1>2. ASSUME NEW o \in Operator, CreateOperator(o) PROVE FALSE
  BY <1>2 DEF CreateOperator, IInv, TypeOK
<1>3. ASSUME NEW r \in Request, CommitSupplier(r) \/ CommitRetire(r)
      PROVE  /\ pc[r] \in {"approving", "retiring"} /\ call[r].row = x
             /\ pc'[r] = "ok"
             /\ \A q \in Request \ {r} : pc'[q] = pc[q] /\ call'[q] = call[q]
  <2>1. pc[r] \in {"approving", "retiring"}
    BY <1>3 DEF CommitSupplier, CommitRetire
  <2>2. call[r].row = x
    <3>1. \A y \in Row : y # call[r].row => is_active'[y] = is_active[y]
      BY <1>3 DEF CommitSupplier, CommitRetire, IInv, TypeOK
    <3> QED
      BY <3>1
  <2>3. /\ pc'[r] = "ok"
        /\ \A q \in Request \ {r} : pc'[q] = pc[q] /\ call'[q] = call[q]
    BY <1>3 DEF CommitSupplier, CommitRetire, Finish, IInv, TypeOK
  <2> QED
    BY <2>1, <2>2, <2>3
<1>4. ASSUME NEW r \in Request, CommitCreate(r) PROVE FALSE
  BY <1>4 DEF CommitCreate, IInv, TypeOK
<1>5. ASSUME NEW r \in Request,
             \/ LoadSupplier(r) \/ CheckCreate(r) \/ LoadProduct(r) \/ CheckSupplier(r)
             \/ CommitProduct(r) \/ LoadOperator(r) \/ CommitOperator(r) \/ LoadRetire(r)
             \/ Fail(r)
      PROVE  FALSE
  <2>1. UNCHANGED is_active
    BY <1>5 DEF LoadSupplier, CheckCreate, LoadProduct, CheckSupplier, CommitProduct,
                LoadOperator, CommitOperator, LoadRetire, Fail, Load
  <2> QED
    BY <2>1
<1> QED
  BY <1>1, <1>2, <1>3, <1>4, <1>5 DEF Next

\* What a request relies on as it goes on, it or an earlier step of it has seen.
LEMMA Arriving ==
    ASSUME IInv, ExclusiveInv, Next, NEW q \in Request,
           pc'[q] # pc[q] \/ call'[q] # call[q]
    PROVE  /\ pc'[q] \in {"scoping", "linking", "signing on"} =>
                 is_active'[call'[q].row] = TRUE \/ call'[q].row \notin Exclusive
           /\ pc'[q] \in {"creating", "linking"} /\ call'[q].supplier \in Exclusive =>
                 is_active'[call'[q].supplier] = TRUE
<1>1. ASSUME NEW s \in Supplier, CreateSupplier(s) PROVE FALSE
  BY <1>1 DEF CreateSupplier
<1>2. ASSUME NEW o \in Operator, CreateOperator(o) PROVE FALSE
  BY <1>2 DEF CreateOperator
<1>3. ASSUME NEW p \in Request,
             \/ LoadSupplier(p) \/ LoadRetire(p) \/ Fail(p) \/ CommitSupplier(p)
             \/ CommitRetire(p) \/ CommitCreate(p) \/ CommitProduct(p) \/ CommitOperator(p)
      PROVE  pc'[q] \notin {"scoping", "linking", "signing on", "creating"}
  BY <1>3 DEF LoadSupplier, LoadRetire, Fail, CommitSupplier, CommitRetire, CommitCreate,
              CommitProduct, CommitOperator, Load, Finish, IInv, TypeOK
<1>4. ASSUME NEW p \in Request, CheckCreate(p)
      PROVE  /\ pc'[q] = "creating"
             /\ is_active'[call'[q].supplier] = TRUE
  BY <1>4 DEF CheckCreate, InScope, IInv, TypeOK
<1>5. ASSUME NEW p \in Request, CheckSupplier(p)
      PROVE  /\ pc'[q] = "linking"
             /\ is_active'[call'[q].supplier] = TRUE
             /\ call'[q].row \in Exclusive => is_active'[call'[q].row] = TRUE
  BY <1>5 DEF CheckSupplier, InScope, ExclusiveInv, IInv, TypeOK
<1>6. ASSUME NEW p \in Request, LoadProduct(p)
      PROVE  /\ pc'[q] \in {"scoping", "linking"}
             /\ is_active'[call'[q].row] = TRUE
             /\ pc'[q] = "linking" => call'[q].supplier = Unset
  BY <1>6 DEF LoadProduct, Load, IInv, TypeOK
<1>7. ASSUME NEW p \in Request, LoadOperator(p)
      PROVE  /\ pc'[q] = "signing on"
             /\ is_active'[call'[q].row] = TRUE
  <2>1. PICK c \in OperatorCall : is_active[c.row] = TRUE /\ Load(p, c, "signing on")
    BY <1>7 DEF LoadOperator, OperatorCall
  <2> QED
    BY <2>1 DEF Load, IInv, TypeOK
<1>8. Unset \notin Exclusive
  BY DEF Row
<1> QED
  BY <1>1, <1>2, <1>3, <1>4, <1>5, <1>6, <1>7, <1>8 DEF Next

LEMMA NextExclusive ==
    ASSUME IInv, NoOverlap, ExclusiveInv, [Next /\ NoOverlap']_vars
    PROVE  ExclusiveInv' /\ NoOverlap'
<1>1. CASE UNCHANGED vars
  BY <1>1 DEF ExclusiveInv, NoOverlap, Rows, vars
<1>2. CASE Next /\ NoOverlap'
  <2> USE <1>2
  <2> SUFFICES ASSUME NEW q \in Request
               PROVE  /\ pc'[q] \in {"scoping", "linking", "signing on"}
                         /\ call'[q].row \in Exclusive => is_active'[call'[q].row] = TRUE
                      /\ pc'[q] \in {"creating", "linking"}
                         /\ call'[q].supplier \in Exclusive => is_active'[call'[q].supplier] = TRUE
    BY DEF ExclusiveInv
  <2>1. CASE pc'[q] # pc[q] \/ call'[q] # call[q]
    BY <2>1, Arriving
  <2>2. CASE pc'[q] = pc[q] /\ call'[q] = call[q]
    <3>1. ASSUME NEW x \in Exclusive, pc[q] \in {"creating", "scoping", "linking", "signing on"},
                 x = call[q].row \/ x = call[q].supplier, is_active[x] = TRUE
          PROVE  is_active'[x] = TRUE
      <4> SUFFICES ASSUME is_active'[x] # TRUE PROVE FALSE
        OBVIOUS
      <4>1. x \in Row /\ x # Unset
        BY DEF Row
      <4>2. PICK r \in Request :
              /\ pc[r] \in {"approving", "retiring"} /\ call[r].row = x
              /\ pc'[r] = "ok"
        BY <3>1, <4>1, ActiveUntilRetired
      <4>3. q # r /\ pc[q] \in InFlight /\ pc[r] \in InFlight
        BY <3>1, <4>2 DEF InFlight
      <4>4. x \in Rows(q) /\ x \in Rows(r)
        BY <3>1, <4>1, <4>2 DEF Rows
      <4> QED
        BY <3>1, <4>3, <4>4 DEF NoOverlap
    <3> QED
      BY <2>2, <3>1 DEF ExclusiveInv
  <2> QED
    BY <2>1, <2>2
<1> QED
  BY <1>1, <1>2

LEMMA ExclusiveInvariance == Spec => [](ExclusiveInv /\ NoOverlap)
<1>1. Init => ExclusiveInv /\ NoOverlap
  BY InitExclusive
<1>2. IInv /\ (ExclusiveInv /\ NoOverlap) /\ [Next /\ NoOverlap']_vars
        => (ExclusiveInv /\ NoOverlap)'
  BY NextExclusive
<1> QED
  BY <1>1, <1>2, Invariance, PTL DEF Spec

-----------------------------------------------------------------------------
(* The two properties.                                                       *)

\* However requests interleave, what is retired comes back only where somebody
\* who saw it retired asked for it; an exclusive product or operator stays as it
\* was when it was retired.
THEOREM RetirementHoldsCorrect == Spec => RetirementHolds
<1> DEFINE Back ==
        \A x \in Row : is_active[x] = FALSE /\ is_active'[x] # FALSE =>
            \E r \in Request :
                /\ pc[r] = "approving" /\ call[r].row = x
                /\ seen[r].is_active = FALSE /\ call[r].is_active = TRUE
<1> DEFINE Still ==
        \A x \in Exclusive : is_active[x] = FALSE =>
            /\ x \in Product => supplier'[x] = supplier[x]
            /\ x \in Operator => role'[x] = role[x] /\ pin'[x] = pin[x]
<1>1. ASSUME IInv, ExclusiveInv, [Next]_vars PROVE Back /\ Still
  <2> USE <1>1
  <2>1. ASSUME NEW s \in Supplier, CreateSupplier(s) PROVE Back /\ Still
    BY <2>1 DEF CreateSupplier, IInv, TypeOK
  <2>2. ASSUME NEW o \in Operator, CreateOperator(o) PROVE Back /\ Still
    BY <2>2 DEF CreateOperator, IInv, TypeOK
  <2>3. ASSUME NEW r \in Request, CommitSupplier(r) PROVE Back /\ Still
    <3>1. call[r] \in SupplierCall /\ seen[r] \in Columns
      BY <2>3 DEF CommitSupplier, IInv, Sane, Loaded
    <3>2. call[r].row \in Row
      BY <2>3, CallRow DEF CommitSupplier, InFlight
    <3>3. Still
      BY <2>3 DEF CommitSupplier
    <3>4. ASSUME NEW x \in Row, is_active[x] = FALSE, is_active'[x] # FALSE
          PROVE  /\ pc[r] = "approving" /\ call[r].row = x
                 /\ seen[r].is_active = FALSE /\ call[r].is_active = TRUE
      <4>1. call[r].row = x
        BY <2>3, <3>4 DEF CommitSupplier, IInv, TypeOK
      <4>2. is_active'[x] = Written(call[r].is_active, seen[r].is_active, is_active[x])
        BY <2>3, <4>1 DEF CommitSupplier, IInv, TypeOK
      <4> QED
        BY <2>3, <3>1, <3>4, <4>1, <4>2 DEF CommitSupplier, Written, SupplierCall, Columns
    <3> QED
      BY <3>3, <3>4
  <2>4. ASSUME NEW r \in Request, CommitCreate(r) PROVE Back /\ Still
    BY <2>4 DEF CommitCreate, IInv, TypeOK, Sane
  <2>5. ASSUME NEW r \in Request, CommitProduct(r) PROVE Back /\ Still
    BY <2>5 DEF CommitProduct, ExclusiveInv, IInv, TypeOK
  <2>6. ASSUME NEW r \in Request, CommitOperator(r) PROVE Back /\ Still
    BY <2>6 DEF CommitOperator, ExclusiveInv, IInv, TypeOK
  <2>7. ASSUME NEW r \in Request, CommitRetire(r) PROVE Back /\ Still
    <3>1. call[r].row \in Row
      BY <2>7, CallRow DEF CommitRetire, InFlight
    <3> QED
      BY <2>7, <3>1 DEF CommitRetire, columns, IInv, TypeOK
  <2>8. ASSUME NEW r \in Request,
               \/ LoadSupplier(r) \/ CheckCreate(r) \/ LoadProduct(r) \/ CheckSupplier(r)
               \/ LoadOperator(r) \/ LoadRetire(r) \/ Fail(r)
        PROVE  Back /\ Still
    <3>1. UNCHANGED <<is_active, columns>>
      BY <2>8 DEF LoadSupplier, CheckCreate, LoadProduct, CheckSupplier, LoadOperator,
                  LoadRetire, Fail, Load
    <3> QED
      BY <3>1 DEF columns
  <2>9. CASE UNCHANGED vars
    BY <2>9 DEF vars, columns
  <2> HIDE DEF Back, Still
  <2> QED
    BY <2>1, <2>2, <2>3, <2>4, <2>5, <2>6, <2>7, <2>8, <2>9 DEF Next
<1>2. IInv /\ ExclusiveInv /\ [Next /\ NoOverlap']_vars => [Back /\ Still]_vars
  BY <1>1
<1> QED
  BY <1>2, Invariance, ExclusiveInvariance, PTL DEF Spec, RetirementHolds

\* A product gets a supplier of its own site, and one that is in force at that
\* moment when the supplier's requests do not overlap.
THEOREM LinkInForceCorrect == Spec => LinkInForce
<1> DEFINE Linked ==
        \A p \in Product : supplier'[p] # supplier[p] =>
            /\ establishment[supplier'[p]] = establishment[p]
            /\ supplier'[p] \in Exclusive => is_active[supplier'[p]] = TRUE
<1>1. ASSUME IInv, ExclusiveInv, [Next]_vars PROVE Linked
  <2> USE <1>1
  <2>1. ASSUME NEW r \in Request, CommitCreate(r) PROVE Linked
    <3>1. call[r] \in LinkCall /\ call[r].supplier # Unset
      BY <2>1 DEF CommitCreate, IInv, Sane, Row
    <3> QED
      BY <2>1, <3>1 DEF CommitCreate, ExclusiveInv, IInv, TypeOK, Sane
  <2>2. ASSUME NEW r \in Request, CommitProduct(r) PROVE Linked
    <3>1. ASSUME NEW p \in Product, supplier'[p] # supplier[p]
          PROVE  p = call[r].row /\ supplier'[p] = call[r].supplier /\ call[r].supplier # Unset
      BY <2>2, <3>1 DEF CommitProduct, Written, IInv, TypeOK
    <3> QED
      BY <2>2, <3>1 DEF CommitProduct, ExclusiveInv, IInv, Sane
  <2>3. CASE UNCHANGED supplier
    BY <2>3
  <2>4. ASSUME Next, \A r \in Request : ~CommitCreate(r) /\ ~CommitProduct(r)
        PROVE  UNCHANGED supplier
    BY <2>4 DEF Next, CreateSupplier, CreateOperator, LoadSupplier, CommitSupplier, CheckCreate,
                LoadProduct, CheckSupplier, LoadOperator, CommitOperator, LoadRetire,
                CommitRetire, Fail, Load, columns
  <2> HIDE DEF Linked
  <2> QED
    BY <2>1, <2>2, <2>3, <2>4 DEF vars, columns
<1>2. IInv /\ ExclusiveInv /\ [Next /\ NoOverlap']_vars => [Linked]_vars
  BY <1>1
<1> QED
  BY <1>2, Invariance, ExclusiveInvariance, PTL DEF Spec, LinkInForce

=============================================================================
