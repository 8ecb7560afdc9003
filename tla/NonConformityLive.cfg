\* Four requests on one ticket, served fairly.
SPECIFICATION FairSpec
CONSTANTS
    Ticket = {t1}
    Operator = {o1}
    Manager = {m1}
    Request = {r1, r2, r3, r4}
    Exclusive = {}
    None = None
PROPERTIES
    RequestsAreAnswered
CHECK_DEADLOCK FALSE
