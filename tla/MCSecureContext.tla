--------------------------- MODULE MCSecureContext ---------------------------
(* Instantiation of SecureContext for TLC: the inputs the runs offer.      *)
EXTENDS SecureContext

CONSTANTS rk1, rk2

\* Peer ratchet keys: two, so that a header can match dh_remote or not.
MCRemoteKeys == {rk1, rk2}

\* Inbound messages: a genuine full message under the current remote key,
\* a full message under a new key sealed with decrypt's fixed key, and a
\* truncated one.
MCMsgs == {[dh |-> rk1, len |-> "full", key |-> <<1, 0>>],
           [dh |-> rk2, len |-> "full", key |-> DecryptKey],
           [dh |-> rk2, len |-> "nobody", key |-> <<1, 0>>]}

=============================================================================
