\* A channel of one message between a connection of one and the receive task,
\* two books, and up to two failing calls of the terminal.
SPECIFICATION FairSpec
CONSTANTS
    None = None
    Garbled = Garbled
    Price = {1, 2, 3, 4, 5}
    Qty = {1, 2}
    Scale = 3
    NanosPerMilli = 2
    MinBackoff = 1
    MaxBackoff = 3
    Multiplier = 2
    Capacity = 1
    BookAt <- Books
    TradeBatches <- Batches
    MaxTime = 2
    MaxWire = 1
    ViewDepth = 2
    BarWidth = 3
    LeastDepth = 1
    MaxFaults = 2
INVARIANTS
    TerminalTypeOK
    DelayFits
    NothingDropped
    Restored
    ShownAsSent
    TableReadsTrue
PROPERTIES
    ImplementsDisplay
    ReceivedIsShown
    OutagesEnd
    OutagesSlowRetries
