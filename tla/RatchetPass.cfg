\* Alice and Bob after from_shared_secret, each encrypting, decrypting,
\* serializing and restoring, with replays and attacker-injected messages.
CONSTANTS
    NoKey = NoKey
    RemoteKeys <- MCRemoteKeys
    MaxOps = 6
    Forgery = TRUE
    SealFaults = TRUE
SPECIFICATION Spec
INVARIANT TypeOK

