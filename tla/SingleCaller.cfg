\* One application thread, a fresh database, every context call, a crash
\* and failing sled inserts/flushes.
CONSTANTS
    Threads = {t1}
    Peers = {p1}
    NoRecord = NoRecord
    NoThread = NoThread
    NoKey = NoKey
    rk1 = rk1
    rk2 = rk2
    RemoteKeys <- MCRemoteKeys
    Msgs <- MCMsgs
    MaxOps = 6
    MaxCrashes = 1
    CtxOps = {"create", "import", "encrypt", "decrypt", "handshake"}
    HandleOps = {}
    StorageFaults = TRUE
    Start = "fresh"
SPECIFICATION Spec
INVARIANT TypeOK
PROPERTY DecryptDurable
PROPERTY EveryCallReturns
