\* Two threads on a running process (the session created and cached, its
\* handle kept): context encrypt/decrypt/import and handle calls
\* interleave on the same session, more than either the FFI or a Rust
\* program alone can do.  No crash and no create_session: those are the
\* runs ColdCacheRace and CreateDuringDecrypt.
CONSTANTS
    Threads = {t1, t2}
    Peers = {p1}
    NoRecord = NoRecord
    NoThread = NoThread
    NoKey = NoKey
    rk1 = rk1
    rk2 = rk2
    RemoteKeys <- MCRemoteKeys
    Msgs <- MCMsgs
    MaxOps = 5
    MaxCrashes = 0
    CtxOps = {"import", "encrypt", "decrypt"}
    HandleOps = {"encrypt", "decrypt", "free"}
    StorageFaults = TRUE
    Start = "warm"
SPECIFICATION Spec
PROPERTY DecryptDurable
PROPERTY EveryCallReturns
\* A call that never returns is reported by EveryCallReturns, which also
\* catches a thread blocked for good while the other one goes on; the run
\* ends in Terminated once every budgeted call has returned.
CHECK_DEADLOCK FALSE
