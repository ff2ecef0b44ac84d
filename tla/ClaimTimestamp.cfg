\* Two timestamps, chosen by the caller.
SPECIFICATION Spec
CONSTANTS
    None = None
    OrderId = {o1, o2, o3}
    NodeId = {n1, n2, n3}
    Price = {1, 2}
    Qty = {1}
    Timestamp = {1, 2}
    WordSize = 16
SYMMETRY Symmetry
INVARIANT
    OldestTimestampFirst
