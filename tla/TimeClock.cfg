\* Ana's events in any interleaving, Ben's one at a time; four events, a whole
\* shift.
SPECIFICATION Spec
CONSTANTS
    Operator = {ana, ben}
    Request = {q1, q2, q3, q4}
    Exclusive = {ben}
    None = None
SYMMETRY Symmetry
INVARIANTS TypeOK Licensed LegalLog
CHECK_DEADLOCK FALSE
