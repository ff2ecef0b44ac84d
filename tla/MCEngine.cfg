\* Four orders, so that three can queue at one price while a fourth trades;
\* no quantity near the word size.
SPECIFICATION Spec
CONSTANTS
    None = None
    OrderId = {o1, o2, o3, o4}
    NodeId = {n1, n2, n3, n4}
    Price = {1, 2}
    Qty = {0, 1, 2}
    Timestamp = {1}
    WordSize = 16
SYMMETRY Symmetry
INVARIANTS
    TypeOK
    IndexExact
    LevelsExact
    Uncrossed
    NoPanic
    QueueExact
    TotalQtyExact
    FokAllOrNothing
    ReplyAccountsForOrder
    OnlyGtcLimitRests
PROPERTIES
    ImplementsPriceTime
