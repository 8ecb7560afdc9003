\* e1 in any interleaving, e2 one request at a time; 0 is a temperature.
SPECIFICATION Spec
CONSTANTS
    Equipment = {e1, e2}
    Temp <- AroundZero
    Request = {r1, r2, r3}
    Exclusive = {e2}
    None = None
SYMMETRY Symmetry
INVARIANTS
    TypeOK
    RecordHasTicket
    RecordsKeepEquipment
PROPERTIES
    RangeLossExplained
    VerdictInForce
CHECK_DEADLOCK FALSE
