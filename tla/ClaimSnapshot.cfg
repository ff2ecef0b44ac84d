\* A snapshot may be of any update.
SPECIFICATION Spec
CONSTANTS
    None = None
    Price = {1}
    Qty = {0, 1}
    MaxUpdate = 3
    MaxBuffer = 2
PROPERTY
    RefusedSnapshotsAreOld
