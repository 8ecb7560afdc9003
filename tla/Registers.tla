------------------------------ MODULE Registers ------------------------------
(***************************************************************************)
(* The registers a site keeps: its suppliers and the products they deliver *)
(* (modules/catalog), and the operators of its tablet (modules/personnel). *)
(* A row is never deleted, only retired, by its is_active column.          *)
(*                                                                         *)
(* Every handler SELECTs its row and UPDATEs it some awaits later, by its  *)
(* primary key and in the columns it changed; a product's supplier is      *)
(* checked by a SELECT of its own.  A request that is refused at its first *)
(* SELECT changes nothing, and is left out.                                *)
(***************************************************************************)
CONSTANTS
    Supplier,       \* primary keys of suppliers
    Product,        \* primary keys of products
    Operator,       \* primary keys of operators
    establishment,  \* the site of each row
    SupplierStatus, \* members of the SupplierStatus enumeration
    OperatorRole,   \* members of the OperatorRole enumeration
    Request,        \* HTTP requests; each one is served once
    Exclusive,      \* rows whose requests happen never to overlap
    None,           \* no row
    Unset           \* a field the request leaves out

Row == Supplier \cup Product \cup Operator

ASSUME RowAssumption ==
    /\ Supplier \cap Product = {} /\ Supplier \cap Operator = {} /\ Product \cap Operator = {}
    /\ Exclusive \subseteq Row
ASSUME NoneAssumption ==
    /\ None \notin BOOLEAN \cup Row \cup SupplierStatus \cup OperatorRole \cup Request
    /\ Unset \notin BOOLEAN \cup Row \cup SupplierStatus \cup OperatorRole \cup {None}

VARIABLES
    is_active,  \* is_active of each row; None: no such row yet
    status,     \* each supplier's approval
    supplier,   \* supplier_id of each product
    role,       \* each operator's role
    pin,        \* the request that set each operator's PIN, or who created it with one
    pc,         \* where each request is
    call,       \* what each request asked for
    seen        \* the columns each request loaded of its row

columns == <<status, supplier, role, pin>>
vars == <<is_active, columns, pc, call, seen>>

LinkCall == [op : {"create", "product"}, row : Product, supplier : Supplier \cup {Unset}]
SupplierCall == [op : {"supplier"}, row : Supplier, supplier : {Unset},
                 is_active : BOOLEAN \cup {Unset}, status : SupplierStatus \cup {Unset}]
OperatorCall == [op : {"operator"}, row : Operator, supplier : {Unset},
                 role : OperatorRole \cup {Unset}, pin : BOOLEAN]
RetireCall == [op : {"retire"}, row : Row, supplier : {Unset}]
Call == LinkCall \cup SupplierCall \cup OperatorCall \cup RetireCall

Columns == [is_active : BOOLEAN, status : SupplierStatus \cup {None},
            supplier : Supplier \cup {None}, role : OperatorRole \cup {None}]

InFlight == {"creating", "scoping", "linking", "approving", "signing on", "retiring"}
Answered == {"ok", "failed"}

TypeOK ==
    /\ is_active \in [Row -> BOOLEAN \cup {None}]
    /\ status \in [Supplier -> SupplierStatus \cup {None}]
    /\ supplier \in [Product -> Supplier \cup {None}]
    /\ role \in [Operator -> OperatorRole \cup {None}]
    /\ pin \in [Operator -> Request \cup Operator \cup {None}]
    /\ pc \in [Request -> {"new"} \cup InFlight \cup Answered]
    /\ call \in [Request -> Call \cup {None}]
    /\ seen \in [Request -> Columns \cup {None}]

Init ==
    /\ is_active = [x \in Row |-> None]
    /\ status = [s \in Supplier |-> None]
    /\ supplier = [p \in Product |-> None]
    /\ role = [o \in Operator |-> None]
    /\ pin = [o \in Operator |-> None]
    /\ pc = [r \in Request |-> "new"]
    /\ call = [r \in Request |-> None]
    /\ seen = [r \in Request |-> None]

Finish(r, answer) ==
    /\ pc' = [pc EXCEPT ![r] = answer]
    /\ call' = [call EXCEPT ![r] = None]
    /\ seen' = [seen EXCEPT ![r] = None]

\* The columns of the row x that a SELECT returns.
Select(x) ==
    [is_active |-> is_active[x],
     status |-> IF x \in Supplier THEN status[x] ELSE None,
     supplier |-> IF x \in Product THEN supplier[x] ELSE None,
     role |-> IF x \in Operator THEN role[x] ELSE None]

\* r arrives and loads its row.
Load(r, c, next) ==
    /\ pc[r] = "new"
    /\ pc' = [pc EXCEPT ![r] = next]
    /\ call' = [call EXCEPT ![r] = c]
    /\ seen' = [seen EXCEPT ![r] = Select(c.row)]
    /\ UNCHANGED <<is_active, columns>>

\* Mutant: the ORM writes every field of the row back as it was loaded.
Written_Whole(field, loaded, current) == IF field = Unset THEN loaded ELSE field

\* The UPDATE writes the fields that were given and differ from the loaded ones.
Written(field, loaded, current) == IF field \in {Unset, loaded} THEN current ELSE field

-----------------------------------------------------------------------------
(* Suppliers.  Creation is one INSERT.                                      *)

CreateSupplier(s) ==
    \E approval \in SupplierStatus :
        /\ is_active[s] = None
        /\ is_active' = [is_active EXCEPT ![s] = TRUE]
        /\ status' = [status EXCEPT ![s] = approval]
        /\ UNCHANGED <<supplier, role, pin, pc, call, seen>>

\* update_supplier finds retired suppliers too, and may bring one back.
LoadSupplier(r) ==
    \E s \in Supplier, active \in BOOLEAN \cup {Unset}, approval \in SupplierStatus \cup {Unset} :
        /\ is_active[s] # None
        /\ Load(r, [op |-> "supplier", row |-> s, supplier |-> Unset,
                    is_active |-> active, status |-> approval], "approving")

CommitSupplier(r) ==
    LET c == call[r]
    IN  /\ pc[r] = "approving"
        /\ is_active' = [is_active EXCEPT ![c.row] = Written(c.is_active, seen[r].is_active, @)]
        /\ status' = [status EXCEPT ![c.row] = Written(c.status, seen[r].status, @)]
        /\ Finish(r, "ok")
        /\ UNCHANGED <<supplier, role, pin>>

-----------------------------------------------------------------------------
(* Products.                                                                *)

\* Mutant: any supplier will do, as long as it is active.
InScope_AnySite(s, p) == is_active[s] = TRUE

\* _assert_supplier_in_scope.
InScope(s, p) == is_active[s] = TRUE /\ establishment[s] = establishment[p]

CheckCreate(r) ==
    \E p \in Product, s \in Supplier :
        /\ pc[r] = "new"
        /\ is_active[p] = None
        /\ InScope(s, p)
        /\ pc' = [pc EXCEPT ![r] = "creating"]
        /\ call' = [call EXCEPT ![r] = [op |-> "create", row |-> p, supplier |-> s]]
        /\ UNCHANGED <<is_active, columns, seen>>

\* Mutant: the supplier is left out of the row.
CommitCreate_NoLink(r) ==
    LET p == call[r].row
    IN  /\ pc[r] = "creating"
        /\ is_active[p] = None
        /\ is_active' = [is_active EXCEPT ![p] = TRUE]
        /\ supplier' = [supplier EXCEPT ![p] = Unset]
        /\ Finish(r, "ok")
        /\ UNCHANGED <<status, role, pin>>

CommitCreate(r) ==
    LET p == call[r].row
    IN  /\ pc[r] = "creating"
        /\ is_active[p] = None
        /\ is_active' = [is_active EXCEPT ![p] = TRUE]
        /\ supplier' = [supplier EXCEPT ![p] = call[r].supplier]
        /\ Finish(r, "ok")
        /\ UNCHANGED <<status, role, pin>>

LoadProduct(r) ==
    \E p \in Product, s \in Supplier \cup {Unset} :
        /\ is_active[p] = TRUE
        /\ Load(r, [op |-> "product", row |-> p, supplier |-> s],
                IF s = Unset THEN "linking" ELSE "scoping")

CheckSupplier(r) ==
    /\ pc[r] = "scoping"
    /\ InScope(call[r].supplier, call[r].row)
    /\ pc' = [pc EXCEPT ![r] = "linking"]
    /\ UNCHANGED <<is_active, columns, call, seen>>

CommitProduct(r) ==
    LET c == call[r]
    IN  /\ pc[r] = "linking"
        /\ supplier' = [supplier EXCEPT ![c.row] = Written(c.supplier, seen[r].supplier, @)]
        /\ Finish(r, "ok")
        /\ UNCHANGED <<is_active, status, role, pin>>

-----------------------------------------------------------------------------
(* Operators.                                                               *)

CreateOperator(o) ==
    \E post \in OperatorRole :
        /\ is_active[o] = None
        /\ is_active' = [is_active EXCEPT ![o] = TRUE]
        /\ role' = [role EXCEPT ![o] = post]
        /\ pin' = [pin EXCEPT ![o] = o]
        /\ UNCHANGED <<status, supplier, pc, call, seen>>

\* update_operator, and reset_pin, which gives nothing but a PIN.
LoadOperator(r) ==
    \E o \in Operator, post \in OperatorRole \cup {Unset}, code \in BOOLEAN :
        /\ is_active[o] = TRUE
        /\ Load(r, [op |-> "operator", row |-> o, supplier |-> Unset,
                    role |-> post, pin |-> code], "signing on")

\* A PIN is hashed with a salt of its own: its hash always differs.
CommitOperator(r) ==
    LET c == call[r]
    IN  /\ pc[r] = "signing on"
        /\ role' = [role EXCEPT ![c.row] = Written(c.role, seen[r].role, @)]
        /\ pin' = [pin EXCEPT ![c.row] = IF c.pin THEN r ELSE @]
        /\ Finish(r, "ok")
        /\ UNCHANGED <<is_active, status, supplier>>

-----------------------------------------------------------------------------
(* soft_delete_supplier, soft_delete_product and soft_delete_operator.      *)

LoadRetire(r) ==
    \E x \in Row :
        /\ is_active[x] = TRUE
        /\ Load(r, [op |-> "retire", row |-> x, supplier |-> Unset], "retiring")

CommitRetire(r) ==
    /\ pc[r] = "retiring"
    /\ is_active' = [is_active EXCEPT ![call[r].row] = FALSE]
    /\ Finish(r, "ok")
    /\ UNCHANGED columns

-----------------------------------------------------------------------------

\* A request may die before its commit, or find its supplier out of scope.
Fail(r) ==
    /\ pc[r] \in InFlight
    /\ Finish(r, "failed")
    /\ UNCHANGED <<is_active, columns>>

Next ==
    \/ \E s \in Supplier : CreateSupplier(s)
    \/ \E o \in Operator : CreateOperator(o)
    \/ \E r \in Request :
         \/ LoadSupplier(r) \/ CommitSupplier(r)
         \/ CheckCreate(r) \/ CommitCreate(r)
         \/ LoadProduct(r) \/ CheckSupplier(r) \/ CommitProduct(r)
         \/ LoadOperator(r) \/ CommitOperator(r)
         \/ LoadRetire(r) \/ CommitRetire(r)
         \/ Fail(r)

Rows(r) == {call[r].row, call[r].supplier} \ {Unset}

NoOverlap ==
    \A q, r \in Request :
        q # r /\ pc[q] \in InFlight /\ pc[r] \in InFlight =>
            Rows(q) \cap Rows(r) \cap Exclusive = {}

Spec == Init /\ [][Next /\ NoOverlap']_vars

-----------------------------------------------------------------------------
(* What the kitchen and the inspector rely on.                              *)

\* However requests interleave, what is retired comes back only where somebody
\* who saw it retired asked for it: an edit under way never brings it back.  When
\* its requests do not overlap, a retired product or operator stays as it was.
RetirementHolds ==
    [][/\ \A x \in Row : is_active[x] = FALSE /\ is_active'[x] # FALSE =>
             \E r \in Request :
                 /\ pc[r] = "approving" /\ call[r].row = x
                 /\ seen[r].is_active = FALSE /\ call[r].is_active = TRUE
       /\ \A x \in Exclusive : is_active[x] = FALSE =>
             /\ x \in Product => supplier'[x] = supplier[x]
             /\ x \in Operator => role'[x] = role[x] /\ pin'[x] = pin[x]]_vars

\* In every interleaving, the supplier of a product is on file and of its site: the
\* one that is relinked while it is being retired is retired, and never dangling.
SupplierOnFile ==
    \A p \in Product : is_active[p] # None =>
        /\ supplier[p] \in Supplier
        /\ is_active[supplier[p]] # None
        /\ establishment[supplier[p]] = establishment[p]

\* A product gets a supplier of its own site, and one that is not retired at that
\* moment when the supplier's requests do not overlap, although create_product and
\* update_product look at the supplier before they write.
LinkInForce ==
    [][\A p \in Product : supplier'[p] # supplier[p] =>
          /\ establishment[supplier'[p]] = establishment[p]
          /\ supplier'[p] \in Exclusive => is_active[supplier'[p]] = TRUE]_vars

=============================================================================
