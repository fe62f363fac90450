------------------------------ MODULE Encryptor ------------------------------
(***************************************************************************)
(* One Encryptor (crypto/encryptor.rs) shared by several threads, each     *)
(* calling encrypt_message.  The message counter is an AtomicU64 of width  *)
(* W: fetch_add reserves a number and wraps at 2^W, as the 64-bit counter  *)
(* wraps at 2^64.  A reserved number is checked against max_message_count  *)
(* and then goes into the associated data of one AEAD seal, which can      *)
(* still fail (the clock read, SecureRandom::new, the cipher).  Plaintext,  *)
(* key and AD bytes are left out: only the message numbers matter here.    *)
(***************************************************************************)
EXTENDS Naturals, Bags

CONSTANTS
    Threads,
    W,              \* counter width in bits
    MaxCount,       \* max_message_count given to Encryptor::new
    MaxCalls,       \* bound: encrypt_message calls
    SealFaults,     \* whether a step after the reservation may fail
    MaxResets       \* bound: reset_counter calls

Modulus == 2 ^ W

VARIABLES
    counter,        \* message_counter
    pc,             \* each thread's place in encrypt_message
    num,            \* each thread's message_num
    nCalls,
    nResets,        \* reset_counter calls so far
    sealed          \* bag of the message numbers of successful seals

vars == <<counter, pc, num, nCalls, nResets, sealed>>

TypeOK ==
    /\ counter \in 0..(Modulus - 1)
    /\ pc \in [Threads -> {"idle", "check", "seal"}]
    /\ num \in [Threads -> 0..(Modulus - 1)]
    /\ nCalls \in 0..MaxCalls
    /\ nResets \in 0..MaxResets
    /\ IsABag(sealed) /\ BagToSet(sealed) \subseteq 0..(Modulus - 1)

\* Encryptor::new: the counter starts at 0.
Init ==
    /\ counter = 0
    /\ pc = [t \in Threads |-> "idle"] /\ num = [t \in Threads |-> 0]
    /\ nCalls = 0 /\ nResets = 0 /\ sealed = EmptyBag

\* Fault-injection variant: the counter grows past its width.
ReserveNoWrap(t) ==
    /\ pc[t] = "idle" /\ nCalls < MaxCalls /\ nCalls' = nCalls + 1
    /\ num' = [num EXCEPT ![t] = counter]
    /\ counter' = counter + 1
    /\ pc' = [pc EXCEPT ![t] = "check"]
    /\ UNCHANGED <<nResets, sealed>>

\* `self.message_counter.fetch_add(1, Ordering::SeqCst)`: one atomic step.
Reserve(t) ==
    /\ pc[t] = "idle" /\ nCalls < MaxCalls /\ nCalls' = nCalls + 1
    /\ num' = [num EXCEPT ![t] = counter]
    /\ counter' = (counter + 1) % Modulus
    /\ pc' = [pc EXCEPT ![t] = "check"]
    /\ UNCHANGED <<nResets, sealed>>

\* `if message_num >= self.max_message_count { return Err(..) }`.
Check(t) ==
    /\ pc[t] = "check"
    /\ pc' = [pc EXCEPT ![t] = IF num[t] >= MaxCount THEN "idle" ELSE "seal"]
    /\ UNCHANGED <<counter, num, nCalls, nResets, sealed>>

\* SecureRandom::new: 24 bytes from OsRng and the clock's nanoseconds as
\* the seed; RandomFailed when the clock reads before the epoch.  The
\* generator is fresh (counter 0), so its one fill_bytes reseeds first.
RandomNew == {"Ok"} \cup (IF SealFaults THEN {"RandomFailed"} ELSE {})

\* CryptoHandler::encrypt: SecureRandom::new, a nonce, encrypt_with_nonce
\* (the cipher may fail).  The associated data is not passed to the cipher.
HandlerEncrypt(n) ==
    \E r \in RandomNew :
        \/ r = "Ok" /\ sealed' = sealed (+) SetToBag({n})
        \/ r = "Ok" /\ SealFaults /\ UNCHANGED sealed
        \/ r = "RandomFailed" /\ UNCHANGED sealed

\* The AD is built from the number and the time (whose read may fail, the
\* number being consumed), then handler.encrypt.
Seal(t) ==
    /\ pc[t] = "seal"
    /\ HandlerEncrypt(num[t])
    /\ pc' = [pc EXCEPT ![t] = "idle"]
    /\ UNCHANGED <<counter, num, nCalls, nResets>>

\* reset_counter: `self.message_counter.store(0, Ordering::SeqCst)`, while
\* other threads may be between their fetch_add and their seal.
ResetCounter ==
    /\ nResets < MaxResets /\ nResets' = nResets + 1
    /\ counter' = 0
    /\ UNCHANGED <<pc, num, nCalls, sealed>>

Terminated ==
    /\ nCalls = MaxCalls /\ \A t \in Threads : pc[t] = "idle"
    /\ UNCHANGED vars

Next ==
    \/ \E t \in Threads : Reserve(t) \/ Check(t) \/ Seal(t)
    \/ ResetCounter
    \/ Terminated

Spec == Init /\ [][Next]_vars

=============================================================================
