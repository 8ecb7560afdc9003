\* Two sessions and a product, three requests: those of s2 one at a time, the
\* others in any interleaving.
SPECIFICATION Spec
CONSTANTS
    Session = {s1, s2}
    Product = {p1}
    Temp <- TwoDegrees
    Request = {q1, q2, q3}
    Exclusive = {s2}
    None = None
    Unset = Unset
SYMMETRY Symmetry
INVARIANTS TypeOK ItemHasTicket DeliveryNoteOnFile
PROPERTIES ClosingSettles RangeLossExplained ImplementsDossier
CHECK_DEADLOCK FALSE
