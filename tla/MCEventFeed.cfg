\* Three orders of up to three units at two prices.
SPECIFICATION FeedSpec
CONSTANTS
    None = None
    OrderId = {o1, o2, o3}
    NodeId = {n1, n2, n3}
    Price = {1, 2}
    Qty = {1, 2, 3}
    Timestamp = {1}
    WordSize = 16
SYMMETRY Symmetry
INVARIANTS
    FeedTypeOK
    FeedReconstructsBook
    TradesNameKnownMakers
