\* Alice and Bob after from_shared_secret; Alice keeps her state's bytes,
\* restores them and encrypts.  Checks EncryptNeverPanics alone.
CONSTANTS
    NoKey = NoKey
    RemoteKeys <- MCRemoteKeys
    MaxOps = 4
    Forgery = FALSE
    SealFaults = TRUE
SPECIFICATION Spec
INVARIANT EncryptNeverPanics
