\* Two tickets, t1 in any interleaving and t2 one request at a time.
SPECIFICATION Spec
CONSTANTS
    Ticket = {t1, t2}
    Operator = {o1}
    Manager = {m1, m2}
    Request = {r1, r2, r3, r4}
    Exclusive = {t2}
    None = None
SYMMETRY Symmetry
INVARIANTS TypeOK Evidence PhotoOnFile AcceptedIsRecorded
PROPERTIES ImplementsTrail ImplementsLifecycle
CHECK_DEADLOCK FALSE
