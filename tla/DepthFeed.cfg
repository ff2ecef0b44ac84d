\* Four updates of one bid and one ask level, in up to three buffered diffs.
SPECIFICATION Spec
CONSTANTS
    None = None
    Price = {1}
    Qty = {0, 1, 2}
    MaxUpdate = 4
    MaxBuffer = 3
INVARIANTS
    FeedTypeOK
    MirrorsExchange
    StandsAtTail
    ErrorsStartAfresh
