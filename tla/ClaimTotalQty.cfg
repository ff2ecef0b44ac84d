\* A word of two bits, so that two orders at one price wrap its total.
SPECIFICATION Spec
CONSTANTS
    None = None
    OrderId = {o1, o2, o3}
    NodeId = {n1, n2, n3}
    Price = {1, 2}
    Qty = {1, 3}
    Timestamp = {1}
    WordSize = 4
SYMMETRY Symmetry
CHECK_DEADLOCK FALSE
INVARIANT
    TotalQtyExact
