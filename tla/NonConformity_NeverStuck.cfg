\* Four requests on one ticket: a late acknowledgement.
SPECIFICATION Spec
CONSTANTS
    Ticket = {t1}
    Operator = {o1}
    Manager = {m1, m2}
    Request = {r1, r2, r3, r4}
    Exclusive = {}
    None = None
INVARIANTS
    NeverStuck
CHECK_DEADLOCK FALSE
