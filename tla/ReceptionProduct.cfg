\* A session and a product, three requests: those for the product one at a time.
SPECIFICATION Spec
CONSTANTS
    Session = {s1}
    Product = {p1}
    Temp <- TwoDegrees
    Request = {q1, q2, q3}
    Exclusive = {p1}
    None = None
    Unset = Unset
SYMMETRY Symmetry
PROPERTIES CompliantInForce
CHECK_DEADLOCK FALSE
