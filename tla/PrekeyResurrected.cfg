\* A Rust caller opens the store with no sled failures: save a one-time
\* prekey, remove it, with a background flush and a crash in between.
CONSTANTS
    PrekeyIds = {1}
    PrekeyVals = {v1}
    NoRecord = NoRecord
    Garbled = Garbled
    Closed = Closed
    Faults = FALSE
    MaxOps = 4
    MaxCrashes = 1
SPECIFICATION Spec
INVARIANT RemovedPrekeyStaysRemoved
