\* Alice and Bob after from_shared_secret, each encrypting and decrypting
\* (no forger, no faults): the two sending chains hand out the same keys.
CONSTANTS
    NoKey = NoKey
    RemoteKeys <- MCRemoteKeys
    MaxOps = 3
    Forgery = FALSE
    SealFaults = FALSE
SPECIFICATION Spec
PROPERTY KeyLedgerSpec
