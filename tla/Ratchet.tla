------------------------------- MODULE Ratchet -------------------------------
(***************************************************************************)
(* The state of one Double Ratchet session (ratchet/state.rs) and the      *)
(* algorithm the code runs on it (ratchet/session.rs, ratchet/chain.rs),   *)
(* written as pure operators so that the component modules can apply them  *)
(* to a session object inside one atomic step, as the code does while it   *)
(* holds the session's write lock.                                         *)
(*                                                                         *)
(* Data abstraction.  A chain key is named by its seed (the number of the  *)
(* handshake or import that created it, 1, 2, ...) and its index; the      *)
(* message key it yields at index i is <<seed, i>>, so two message keys    *)
(* are equal exactly when the HMAC ladder would produce equal bytes.  A    *)
(* local ratchet key (x25519 StaticSecret) is a number 1, 2, ... drawn     *)
(* fresh from OsRng; 0 stands for None.  A peer ratchet public key is a    *)
(* model value of RemoteKeys, NoKey stands for None.  The root key, the    *)
(* skipped-key map and max_skip are left out: no code path reads or        *)
(* writes them after construction.  hm says whether the sending chain's   *)
(* HMAC instance is present: ChainKey::new and ChainKey::clone build it,  *)
(* but it is #[serde(skip)] (chain.rs 11-13), so a chain restored by      *)
(* deserialize_state has none.                                             *)
(***************************************************************************)
EXTENDS Naturals

CONSTANTS
    RemoteKeys,     \* ratchet public keys a peer may put in a header
    NoKey           \* dh_remote = None

\* The fixed key decrypt uses (session.rs: `let message_key = [1u8; 32]`).
\* Seeds are numbered from 1, so it is never a message key of a chain.
DecryptKey == <<0, 0>>

\* Results of a session operation (error.rs ProtocolError, plus a panic).
Ok == "Ok"
Results == {Ok, "InvalidState", "InvalidMessage", "InvalidCiphertext",
            "DecryptionFailed", "EncryptionFailed", "RandomFailed", "Panic"}

\* DoubleRatchetState held in memory.  dh_local and dh_local_bytes always
\* hold the same key in memory, so one field stands for both.
State(Seeds, Idx, DH) ==
    [send: {0} \cup Seeds, sidx: Idx, hm: BOOLEAN, recv: BOOLEAN,
     dhl: {0} \cup DH, dhr: RemoteKeys \cup {NoKey}, pn: Idx]

\* The serialized form: `dh_local` is #[serde(skip)] and only its bytes
\* are written (state.rs).
Serialized(Seeds, Idx, DH) ==
    [send: {0} \cup Seeds, sidx: Idx, recv: BOOLEAN,
     dhlBytes: {0} \cup DH, dhr: RemoteKeys \cup {NoKey}, pn: Idx]

\* DoubleRatchetSession::new: a fresh dh_local, every chain absent.
New(k) == [send |-> 0, sidx |-> 0, hm |-> FALSE, recv |-> FALSE, dhl |-> k,
           dhr |-> NoKey, pn |-> 0]

\* ChainKey::new: a chain on a fresh key starts at index 0 and builds its
\* HMAC from the key (the only constructor that does; serde does not).
ChainKeyNew(seed) == [key |-> seed, index |-> 0, hmac |-> TRUE]

\* ChainKey::next_message_key: the key at the current index, then index+1.
MessageKey(seed, i) == <<seed, i>>
\* Fault-injection variant: the index stepped twice.
NextIndexSkip(i) == i + 2
NextIndex(i) == i + 1

\* DoubleRatchetSession::encrypt.  next_message_key panics on a chain
\* without its HMAC (`self.hmac.clone().expect(..)`) before it changes
\* anything.  The chain advances before dh_local is checked, so the second
\* InvalidState return leaves an advanced chain.  The header carries
\* index - 1 after the advance, and previous_counter.
Encrypt(st) ==
    LET adv == [st EXCEPT !.sidx = NextIndex(st.sidx)]
        hdr == [dh |-> st.dhl, n |-> adv.sidx - 1, pn |-> st.pn,
                key |-> MessageKey(st.send, adv.sidx - 1)]
    IN  IF st.send = 0 THEN [st |-> st, err |-> "InvalidState", msg |-> hdr]
        ELSE IF ~st.hm THEN [st |-> st, err |-> "Panic", msg |-> hdr]
        ELSE IF st.dhl = 0 THEN [st |-> adv, err |-> "InvalidState", msg |-> hdr]
        ELSE [st |-> adv, err |-> Ok, msg |-> hdr]

\* The outcomes of encrypt once its chain has advanced (session.rs 108-114):
\* Encryptor::new, then encrypt_message, whose timestamp read (a clock
\* before the epoch: EncryptionFailed), SecureRandom::new (RandomFailed)
\* or cipher may fail when faults are allowed; the chain stays advanced.
EncryptResults(st, faults) ==
    LET r == Encrypt(st) IN
    {r} \cup {[r EXCEPT !.err = e] :
                 e \in IF faults /\ r.err = Ok
                       THEN {"EncryptionFailed", "RandomFailed"} ELSE {}}

\* Whether decrypt takes the DH-ratchet branch for a header key.
NeedsRatchet(st, m) == st.dhr = NoKey \/ st.dhr # m.dh

\* Whether decrypt draws a new dh_local from OsRng.
Draws(st, m) == m.len # "short" /\ NeedsRatchet(st, m) /\ st.dhl # 0

\* Encryptor::decrypt_message: a body shorter than the nonce is refused
\* before the cipher is reached.
BodyTooShort(m) == m.len = "nobody"

\* CryptoHandler::decrypt: ChaCha20-Poly1305 opens the body only under the
\* key it was sealed with.  The associated data (the header included) is
\* never passed to the cipher, so nothing binds the header to the body.
Open(m, key) == m.key = key

\* DoubleRatchetSession::decrypt, k being the StaticSecret drawn from
\* OsRng should the ratchet branch run.  The branch takes the receiving
\* chain, unwraps dh_local (a panic when it is None), installs a new
\* dh_local and the header key, and none of it is undone when the AEAD
\* step then fails.  The chain is never stepped: the body is opened with
\* DecryptKey, and the AEAD accepts only what was sealed with that key.
Decrypt(st, m, k) ==
    LET rat == NeedsRatchet(st, m)
        st1 == IF rat THEN [st EXCEPT !.recv = FALSE, !.dhl = k, !.dhr = m.dh]
                      ELSE st
    IN  IF m.len = "short" THEN [st |-> st, err |-> "InvalidMessage"]
        ELSE IF rat /\ st.dhl = 0 THEN [st |-> [st EXCEPT !.recv = FALSE],
                                        err |-> "Panic"]
        ELSE IF ~st1.recv /\ ~rat THEN [st |-> st1, err |-> "InvalidState"]
        ELSE IF BodyTooShort(m) THEN [st |-> st1, err |-> "InvalidCiphertext"]
        ELSE IF Open(m, DecryptKey) THEN [st |-> st1, err |-> Ok]
        ELSE [st |-> st1, err |-> "DecryptionFailed"]

\* serialize_state: every field but dh_local, which goes as its bytes.
Serialize(st) ==
    [send |-> st.send, sidx |-> st.sidx, recv |-> st.recv,
     dhlBytes |-> st.dhl, dhr |-> st.dhr, pn |-> st.pn]

\* deserialize_state: dh_local comes back from non-empty bytes, else it
\* stays None (serde's default for a skipped field); the chains come back
\* without their HMAC, which nothing rebuilds.
Deserialize(b) ==
    [send |-> b.send, sidx |-> b.sidx, hm |-> FALSE, recv |-> b.recv,
     dhl |-> IF b.dhlBytes # 0 THEN b.dhlBytes ELSE 0,
     dhr |-> b.dhr, pn |-> b.pn]

=============================================================================
