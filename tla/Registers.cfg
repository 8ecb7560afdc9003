\* A kitchen with two suppliers, s2 one request at a time, two products, p2 one
\* request at a time, and an operator, one request at a time; a bar with a
\* supplier; three requests.
SPECIFICATION Spec
CONSTANTS
    kitchen = kitchen
    bar = bar
    s3 = s3
    Supplier = {s1, s2, s3}
    Product = {p1, p2}
    Operator = {o1}
    establishment <- Where
    SupplierStatus = {pending, approved}
    OperatorRole = {cook}
    Request = {q1, q2, q3}
    Exclusive = {s2, p2, o1}
    None = None
    Unset = Unset
SYMMETRY Symmetry
INVARIANTS TypeOK
PROPERTIES RetirementHolds LinkInForce
CHECK_DEADLOCK FALSE
