\* A store in any starting state with failing sled calls: open, read the
\* identity, then a crash, or a close and an open whose read fails, and
\* read it again.
CONSTANTS
    PrekeyIds = {1}
    PrekeyVals = {v1}
    NoRecord = NoRecord
    Garbled = Garbled
    Closed = Closed
    Faults = TRUE
    MaxOps = 5
    MaxCrashes = 1
SPECIFICATION Spec
INVARIANT SingleIdentity
