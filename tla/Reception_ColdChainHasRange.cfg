\* One PATCH of a product; no two requests overlap.
SPECIFICATION Spec
CONSTANTS
    Session = {s1}
    Product = {p1}
    Temp <- TwoDegrees
    Request = {q1, q2, q3}
    Exclusive = {s1, p1}
    None = None
    Unset = Unset
SYMMETRY Symmetry
INVARIANTS ColdChainHasRange
CHECK_DEADLOCK FALSE
