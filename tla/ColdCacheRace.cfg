\* Two threads call decrypt_message on the same peer right after a restart,
\* when the session is on disk and not yet in the cache.
CONSTANTS
    Threads = {t1, t2}
    Peers = {p1}
    NoRecord = NoRecord
    NoThread = NoThread
    NoKey = NoKey
    rk1 = rk1
    rk2 = rk2
    RemoteKeys <- MCRemoteKeys
    Msgs <- MCMsgs
    MaxOps = 2
    MaxCrashes = 0
    CtxOps = {"decrypt"}
    HandleOps = {}
    StorageFaults = FALSE
    Start = "restarted"
SPECIFICATION Spec
PROPERTY DecryptDurable
