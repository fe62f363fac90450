\* Opens, identity reads, prekey saves and removes over a store in any
\* starting state, with failing sled calls, background flushes and a crash.
CONSTANTS
    PrekeyIds = {1}
    PrekeyVals = {v1, v2}
    NoRecord = NoRecord
    Garbled = Garbled
    Closed = Closed
    Faults = TRUE
    MaxOps = 6
    MaxCrashes = 1
SPECIFICATION Spec
INVARIANT TypeOK
