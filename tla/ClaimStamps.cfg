\* The units of main.rs: a channel that receives a trade.
SPECIFICATION Spec
CONSTANTS
    None = None
    Garbled = Garbled
    Price = {1, 2, 3, 4, 5}
    Qty = {1, 2}
    Scale = 3
    NanosPerMilli = 1000000
    MinBackoff = 200
    MaxBackoff = 5000
    Multiplier = 2
    Capacity = 2
    BookAt <- Books
    TradeBatches <- Batches
    MaxTime = 2
    MaxWire = 1
    ViewDepth = 2
    BarWidth = 3
    LeastDepth = 1
    MaxFaults = 2
INVARIANTS
    StampsAreNanos
