\* One thread decrypts while another creates a session (a writer on the
\* `sessions` lock) and the decrypting thread takes a second read guard.
CONSTANTS
    Threads = {t1, t2}
    Peers = {p1}
    NoRecord = NoRecord
    NoThread = NoThread
    NoKey = NoKey
    rk1 = rk1
    rk2 = rk2
    RemoteKeys <- MCRemoteKeys
    Msgs <- MCMsgs
    MaxOps = 2
    MaxCrashes = 0
    CtxOps = {"create", "decrypt"}
    HandleOps = {}
    StorageFaults = FALSE
    Start = "warm"
SPECIFICATION Spec
PROPERTY EveryCallReturns
\* A blocked call is the failure this run looks for, reported through the
\* liveness property rather than as a deadlock.
CHECK_DEADLOCK FALSE
