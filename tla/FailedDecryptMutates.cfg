\* Alice and Bob after from_shared_secret; checks FailedDecryptKeepsState alone.
CONSTANTS
    NoKey = NoKey
    RemoteKeys <- MCRemoteKeys
    MaxOps = 4
    Forgery = TRUE
    SealFaults = TRUE
SPECIFICATION Spec
PROPERTY FailedDecryptKeepsState
