---------------------------- MODULE RatchetSession ----------------------------
(***************************************************************************)
(* Two DoubleRatchetSession objects, Alice's and Bob's, each built by      *)
(* from_shared_secret from the handshake's shared secret and its own      *)
(* ratchet key, exchanging messages (ratchet/session.rs).  The network    *)
(* keeps every message, so any may be delivered late, again or never; an  *)
(* attacker who knows the public ratchet keys may inject messages sealed  *)
(* with any key it knows.  Each call runs under the session's write lock, *)
(* so a step is a whole encrypt or decrypt.  The application may also     *)
(* keep the bytes serialize_state returns and later put them back with    *)
(* deserialize_state, as a restart of the process does.                   *)
(***************************************************************************)
EXTENDS Ratchet, Naturals, Sequences

CONSTANTS
    MaxOps,     \* bound: encrypt and decrypt calls together
    Forgery,    \* whether the attacker injects messages
    SealFaults  \* whether encrypt's clock, random source or cipher may fail

Parties == {"A", "B"}
Peer(p) == IF p = "A" THEN "B" ELSE "A"

\* Ratchet keys: 1 and 2 from the handshake, then one per DH ratchet step.
MaxDH == 2 + MaxOps

VARIABLES
    st,         \* each party's DoubleRatchetState
    saved,      \* the bytes each party's application last kept, or NoKey
    net,        \* messages ever sent (the network may deliver any of them)
    nDH,        \* ratchet keys drawn so far
    nOps,
    log,        \* history: messages in the order encrypt returned them
    result      \* history: the last call, its party and its result

vars == <<st, saved, net, nDH, nOps, log, result>>

Wire == [from: Parties \cup {"X"}, dh: 1..MaxDH, n: 0..MaxOps, pn: 0..MaxOps,
         key: ({1} \X (0..MaxOps)) \cup {DecryptKey}, len: {"full"}]

TypeOK ==
    /\ st \in [Parties -> State({1}, 0..MaxOps, 1..MaxDH)]
    /\ saved \in [Parties -> Serialized({1}, 0..MaxOps, 1..MaxDH) \cup {NoKey}]
    /\ net \subseteq Wire
    /\ nDH \in 2..MaxDH /\ nOps \in 0..MaxOps
    /\ log \in Seq(Wire)
    /\ result \in [party: Parties \cup {"none"},
                   op: {"none", "encrypt", "decrypt", "serialize", "deserialize"},
                   err: Results]

\* from_shared_secret (session.rs 41-75): HKDF of the secret with info
\* "sending_chain" gives the sending chain (ChainKey::new, so with its
\* HMAC), the same on both sides since both expand the same secret with
\* the same info; no receiving chain.
FromSharedSecret(local, remote) ==
    LET c == ChainKeyNew(1) IN
    [send |-> c.key, sidx |-> c.index, hm |-> c.hmac, recv |-> FALSE,
     dhl |-> local, dhr |-> remote, pn |-> 0]

Init ==
    /\ st = [p \in Parties |-> IF p = "A" THEN FromSharedSecret(1, 2)
                                          ELSE FromSharedSecret(2, 1)]
    /\ saved = [p \in Parties |-> NoKey]
    /\ net = {} /\ nDH = 2 /\ nOps = 0 /\ log = <<>>
    /\ result = [party |-> "none", op |-> "none", err |-> Ok]

Call(p, o, e) == /\ nOps < MaxOps /\ nOps' = nOps + 1
                 /\ result' = [party |-> p, op |-> o, err |-> e]

\* encrypt (session.rs 77-122); the bytes returned go on the network.
SessionEncrypt(p) ==
    \E r \in EncryptResults(st[p], SealFaults) :
        LET w == [from |-> p, dh |-> r.msg.dh, n |-> r.msg.n, pn |-> r.msg.pn,
                  key |-> r.msg.key, len |-> "full"]
        IN  /\ Call(p, "encrypt", r.err)
            /\ st' = [st EXCEPT ![p] = r.st]
            /\ IF r.err = Ok THEN net' = net \cup {w} /\ log' = Append(log, w)
                             ELSE UNCHANGED <<net, log>>
            /\ UNCHANGED <<saved, nDH>>

\* decrypt (session.rs 124-192) of bytes m; a DH ratchet step draws the
\* next ratchet key.
SessionDecrypt(p, m) ==
    LET r == Decrypt(st[p], m, nDH + 1) IN
    /\ Call(p, "decrypt", r.err)
    /\ st' = [st EXCEPT ![p] = r.st]
    /\ nDH' = IF Draws(st[p], m) THEN nDH + 1 ELSE nDH
    /\ UNCHANGED <<saved, net, log>>

\* serialize_state (session.rs 194-197): the application keeps the bytes.
SerializeState(p) ==
    /\ Call(p, "serialize", Ok)
    /\ saved' = [saved EXCEPT ![p] = Serialize(st[p])]
    /\ UNCHANGED <<st, net, nDH, log>>

\* deserialize_state (session.rs 199-213) of the bytes kept: the state is
\* replaced by what they hold.
DeserializeState(p) ==
    /\ saved[p] # NoKey
    /\ Call(p, "deserialize", Ok)
    /\ st' = [st EXCEPT ![p] = Deserialize(saved[p])]
    /\ UNCHANGED <<saved, net, nDH, log>>

\* Bytes the attacker can build: any ratchet key in use as the header key,
\* sealed with decrypt's fixed key, which is in the source.
Forged == {[from |-> "X", dh |-> k, n |-> 0, pn |-> 0, key |-> DecryptKey,
            len |-> "full"] : k \in 1..nDH}

Deliver(p) == \E m \in net : m.from = Peer(p) /\ SessionDecrypt(p, m)
Inject(p) == Forgery /\ \E m \in Forged : SessionDecrypt(p, m)

Terminated == nOps = MaxOps /\ UNCHANGED vars

Next == \/ \E p \in Parties :
              \/ SessionEncrypt(p) \/ Deliver(p) \/ Inject(p)
              \/ SerializeState(p) \/ DeserializeState(p)
        \/ Terminated

Spec == Init /\ [][Next]_vars

-----------------------------------------------------------------------------
(* Properties.                                                             *)

\* The ledger of message keys the returned ciphertexts were sealed under.
Ledger == INSTANCE KeyLedger
    WITH Keys <- {1} \X (0..MaxOps),
         handed <- [i \in DOMAIN log |-> log[i].key]

\* Every ciphertext encrypt returns, by either party, is sealed under a
\* message key no earlier one used (spec sections 1, 3 and 4.7): the log
\* of returned messages implements the KeyLedger.  Both sessions derive
\* their sending chain from the same secret with the same HKDF info
\* (from_shared_secret), so Alice's and Bob's first messages share a key.
KeyLedgerSpec == Ledger!Spec

\* encrypt returns Ok or a ProtocolError and never panics, also on a
\* session whose state deserialize_state restored from serialize_state's
\* bytes (spec: the state is "later restored exactly", and "HMAC
\* instances derived from chain keys are rebuilt on deserialization").
EncryptNeverPanics == ~(result.op = "encrypt" /\ result.err = "Panic")

\* A decrypt that fails with DecryptionFailed leaves the session as it was,
\* DH ratchet step included (spec 4.8 step 6 and section 7).
FailedDecryptKeepsState ==
    [][ result'.op = "decrypt" /\ result'.err = "DecryptionFailed"
        => st'[result'.party] = st[result'.party] ]_vars

=============================================================================
