---------------------------- MODULE SecureContext ----------------------------
(***************************************************************************)
(* SecureContext (lib.rs) driving SessionManager and the sled "sessions"   *)
(* tree, called by several application threads at once, plus the session  *)
(* handles the FFI hands out (ffi/context.rs, ffi/session.rs), and crashes *)
(* of the process.                                                         *)
(*                                                                         *)
(* Locks.  `sessions` is a parking_lot RwLock<SessionManager>: a writer   *)
(* first sets the writer bit, which blocks every new reader, recursive    *)
(* ones included, and then waits for the readers to leave.  rd[t] counts  *)
(* the read guards thread t holds on it and wr is the thread that set the *)
(* writer bit.  Each cached session is an Arc<RwLock<DoubleRatchetSession>>*)
(* whose write holder across several steps is sw[o].  A guard that is    *)
(* taken and dropped within one step of the model is not recorded.  The   *)
(* inner lock around the cache map only guards single map operations,     *)
(* each of which is one step here.                                        *)
(*                                                                         *)
(* Storage.  db is what sled returns to reads (inserts are visible at     *)
(* once), disk what survives a crash: flush() makes db durable, and sled's *)
(* background flusher may do so at any time.                              *)
(*                                                                         *)
(* Sessions.  create_session builds a session with no sending chain, and  *)
(* every chain the context holds comes from deserialize_state (an import  *)
(* or a cache load), which leaves the chain without its HMAC: encrypt      *)
(* through the context or a handle returns InvalidState or panics, never   *)
(* Ok (Ratchet's Encrypt).  Only decrypt can succeed and save.             *)
(*                                                                         *)
(* Programs.  The FFI reaches the context only through                     *)
(* secure_session_create and the handle calls; a Rust program calls the   *)
(* context's methods and holds no handle.  A run that offers both kinds   *)
(* of call to one context explores more than either program can do.      *)
(***************************************************************************)
EXTENDS Ratchet, Naturals, FiniteSets, Bags, Functions

CONSTANTS
    Threads,        \* application threads calling the context
    Peers,          \* peer identifiers (session ids)
    NoRecord,       \* absent key in the sled tree
    NoThread,
    MaxOps,         \* bound: calls made by all threads together
    MaxCrashes,     \* bound: process crashes
    CtxOps,         \* SecureContext calls the application makes
    HandleOps,      \* session-handle (FFI) calls the application makes
    StorageFaults,  \* whether sled insert/flush may fail
    Msgs,           \* inbound messages offered to decrypt
    Start           \* "fresh", "warm" or "restarted": the initial state

VARIABLES
    cache, objs, nObjs, db, disk, handles,      \* memory and storage
    rd, wr, sw,                             \* locks
    pc, op, peer, obj, msg, bytes,              \* threads
    ok,                                         \* decrypt's flush succeeded
    nDH, nSeeds, nOps, nCrashes                 \* counters

vars == <<cache, objs, nObjs, db, disk, handles, rd, wr, sw,
          pc, op, peer, obj, msg, bytes, ok, nDH, nSeeds, nOps, nCrashes>>

N == Cardinality(Peers)
\* A call allocates at most one session object, draws at most one ratchet
\* key, imports at most one chain and advances one chain by at most one,
\* so these bounds, derived from MaxOps, are never reached.
MaxObjs == MaxOps
MaxDH == 2 * N + MaxOps
MaxSeeds == N + MaxOps
MaxIndex == 1 + MaxOps

Objs == 1..MaxObjs
Seeds == 1..MaxSeeds
DHs == 1..MaxDH
Idx == 0..MaxIndex
Unused == New(0)
\* Bytes an application passes to deserialize_session_state: a state a
\* handshake produced, bytes that do not parse, or a state whose
\* dh_local_bytes is empty (serde accepts it; dh_local stays None).
ImportBytes == {"valid", "malformed", "nodh"}

TypeOK ==
    /\ cache \in [Peers -> {0} \cup Objs]
    /\ objs \in [Objs -> State(Seeds, Idx, DHs)]
    /\ nObjs \in 0..MaxObjs
    /\ db \in [Peers -> Serialized(Seeds, Idx, DHs) \cup {NoRecord}]
    /\ disk \in [Peers -> Serialized(Seeds, Idx, DHs) \cup {NoRecord}]
    /\ handles \subseteq Objs
    /\ rd \in [Threads -> 0..2]
    /\ wr \in Threads \cup {NoThread}
    /\ sw \in [Objs -> Threads \cup {NoThread}]
    /\ pc \in [Threads -> {"idle", "get", "get_load", "get_insert", "enc",
                           "dec", "dec_lock2", "dec_save", "dec_flush",
                           "imp", "hs", "create"}]
    /\ op \in [Threads -> {"encrypt", "decrypt", "import", "handshake", "create"}]
    /\ peer \in [Threads -> Peers]
    /\ obj \in [Threads -> {0} \cup Objs]
    /\ msg \in [Threads -> Msgs]
    /\ bytes \in [Threads -> ImportBytes]
    /\ ok \in [Threads -> BOOLEAN]
    /\ nDH \in 0..MaxDH /\ nSeeds \in 0..MaxSeeds
    /\ nOps \in 0..MaxOps /\ nCrashes \in 0..MaxCrashes

-----------------------------------------------------------------------------
(* Initial states.                                                         *)
(*  fresh:     SecureContext::new on an empty database.                    *)
(*  warm:      every peer's session was created by create_session, its    *)
(*             state made durable by the background flush and held by the *)
(*             cache; an FFI caller keeps the handle secure_session_create *)
(*             returned for it.                                           *)
(*  restarted: the process had created and imported each peer's session *)
(*             and decrypted a message, which saved the imported chain;   *)
(*             it has just been started again.                            *)

PeerNo == CHOOSE f \in [Peers -> 1..N] : IsInjective(f)
\* The state deserialize_session_state installed for peer p: chain seed
\* PeerNo[p], the handshake's ratchet key PeerNo[p], at index i.
Chained(p, i) == [New(PeerNo[p]) EXCEPT !.send = PeerNo[p], !.sidx = i,
                                        !.dhr = CHOOSE k \in RemoteKeys : TRUE]
\* The state create_session persisted, its key drawn after the handshake's.
Created(p) == New(N + PeerNo[p])

ThreadsInit ==
    /\ rd = [t \in Threads |-> 0] /\ wr = NoThread
    /\ sw = [o \in Objs |-> NoThread]
    /\ pc = [t \in Threads |-> "idle"] /\ op = [t \in Threads |-> "encrypt"]
    /\ peer = [t \in Threads |-> CHOOSE p \in Peers : TRUE]
    /\ obj = [t \in Threads |-> 0]
    /\ msg = [t \in Threads |-> CHOOSE m \in Msgs : TRUE]
    /\ bytes = [t \in Threads |-> "valid"] /\ ok = [t \in Threads |-> TRUE]
    /\ nOps = 0 /\ nCrashes = 0

InitFresh ==
    /\ cache = [p \in Peers |-> 0] /\ objs = [o \in Objs |-> Unused]
    /\ nObjs = 0 /\ handles = {}
    /\ db = [p \in Peers |-> NoRecord] /\ disk = db
    /\ nDH = 0 /\ nSeeds = 0

InitWarm ==
    /\ cache = PeerNo
    /\ objs = [o \in Objs |-> IF \E p \in Peers : PeerNo[p] = o
                              THEN Created(CHOOSE p \in Peers : PeerNo[p] = o)
                              ELSE Unused]
    /\ nObjs = N /\ handles = 1..N
    /\ db = [p \in Peers |-> Serialize(Created(p))] /\ disk = db
    /\ nDH = 2 * N /\ nSeeds = 0

InitRestarted ==
    /\ cache = [p \in Peers |-> 0] /\ objs = [o \in Objs |-> Unused]
    /\ nObjs = 0 /\ handles = {}
    /\ db = [p \in Peers |-> Serialize(Chained(p, 0))] /\ disk = db
    /\ nDH = 2 * N /\ nSeeds = N

Init ==
    /\ ThreadsInit
    /\ CASE Start = "fresh" -> InitFresh
          [] Start = "warm" -> InitWarm
          [] Start = "restarted" -> InitRestarted

-----------------------------------------------------------------------------
memVars == <<cache, objs, nObjs, handles>>
lockVars == <<rd, wr, sw>>
localVars == <<pc, op, peer, obj, msg, bytes, ok>>
cntVars == <<nDH, nSeeds, nOps, nCrashes>>

Goto(t, l) == pc' = [pc EXCEPT ![t] = l]
\* Fault-injection variant: a return that leaves the read guards held.
ReturnKeepGuards(t) == Goto(t, "idle") /\ UNCHANGED rd
\* Leaving a call: pc back to idle and every read guard on `sessions` dropped.
Return(t) == Goto(t, "idle") /\ rd' = [rd EXCEPT ![t] = 0]
\* parking_lot grants a new read guard only while no writer has set its bit.
ReadFree == wr = NoThread
SessionFree(o) == sw[o] = NoThread
AfterGet == [encrypt |-> "enc", decrypt |-> "dec", import |-> "imp",
             handshake |-> "hs"]

\* The call encrypt_message, decrypt_message or deserialize_session_state
\* and its first statement, `let sessions = self.sessions.read()`.
BeginRead(t, o, p) ==
    /\ pc[t] = "idle" /\ nOps < MaxOps /\ o \in CtxOps /\ ReadFree
    /\ rd' = [rd EXCEPT ![t] = @ + 1]
    /\ Goto(t, "get")
    /\ op' = [op EXCEPT ![t] = o] /\ peer' = [peer EXCEPT ![t] = p]
    /\ nOps' = nOps + 1

EncryptMessage(t, p) ==
    /\ BeginRead(t, "encrypt", p)
    /\ UNCHANGED <<memVars, db, disk, wr, sw, obj, msg, bytes, ok,
                   nDH, nSeeds, nCrashes>>

DecryptMessage(t, p, m) ==
    /\ BeginRead(t, "decrypt", p) /\ msg' = [msg EXCEPT ![t] = m]
    /\ UNCHANGED <<memVars, db, disk, wr, sw, obj, bytes, ok,
                   nDH, nSeeds, nCrashes>>

DeserializeSessionState(t, p, b) ==
    /\ BeginRead(t, "import", p) /\ bytes' = [bytes EXCEPT ![t] = b]
    /\ UNCHANGED <<memVars, db, disk, wr, sw, obj, msg, ok,
                   nDH, nSeeds, nCrashes>>

\* perform_handshake's `self.sessions.read()`.
PerformHandshake(t, p) ==
    /\ BeginRead(t, "handshake", p)
    /\ UNCHANGED <<memVars, db, disk, wr, sw, obj, msg, bytes, ok,
                   nDH, nSeeds, nCrashes>>

\* SecureContext::create_session: `self.sessions.write()` sets the writer bit.
CreateSession(t, p) ==
    /\ pc[t] = "idle" /\ nOps < MaxOps /\ "create" \in CtxOps /\ wr = NoThread
    /\ wr' = t /\ Goto(t, "create")
    /\ op' = [op EXCEPT ![t] = "create"] /\ peer' = [peer EXCEPT ![t] = p]
    /\ nOps' = nOps + 1
    /\ UNCHANGED <<memVars, db, disk, rd, sw, obj, msg, bytes, ok,
                   nDH, nSeeds, nCrashes>>

\* secure_session_create keeps the Arc create_session returns as a handle
\* (`Arc::into_raw`); a Rust caller of create_session drops its handle.
NewHandles(o) == IF HandleOps = {} THEN {handles} ELSE {handles, handles \cup {o}}

\* SessionManager::create_session, once every reader has left: a new
\* session, its state inserted in sled (no flush), the cache entry
\* replaced, the handle returned and the write guard dropped.
CreateBody(t) ==
    LET p == peer[t]  o == nObjs + 1  st == New(nDH + 1) IN
    /\ pc[t] = "create" /\ \A u \in Threads : rd[u] = 0
    /\ nDH' = nDH + 1 /\ wr' = NoThread /\ Goto(t, "idle")
    /\ \/ /\ db' = [db EXCEPT ![p] = Serialize(st)]
          /\ objs' = [objs EXCEPT ![o] = st] /\ nObjs' = o
          /\ cache' = [cache EXCEPT ![p] = o]
          /\ handles' \in NewHandles(o)
       \/ /\ StorageFaults
          /\ UNCHANGED <<memVars, db>>
    /\ UNCHANGED <<disk, rd, sw, op, peer, obj, msg, bytes, ok,
                   nSeeds, nOps, nCrashes>>

\* SessionManager::get_session, cache lookup under the map's read lock.
GetHit(t) ==
    /\ pc[t] = "get" /\ cache[peer[t]] # 0
    /\ obj' = [obj EXCEPT ![t] = cache[peer[t]]]
    /\ Goto(t, AfterGet[op[t]])
    /\ UNCHANGED <<memVars, db, disk, lockVars, op, peer, msg, bytes, ok,
                   cntVars>>

GetMiss(t) ==
    /\ pc[t] = "get" /\ cache[peer[t]] = 0
    /\ Goto(t, "get_load")
    /\ UNCHANGED <<memVars, db, disk, lockVars, op, peer, obj, msg,
                   bytes, ok, cntVars>>

\* The miss path: read sled, build a session and deserialize into it.
GetLoad(t) ==
    LET o == nObjs + 1 IN
    /\ pc[t] = "get_load" /\ db[peer[t]] # NoRecord
    /\ objs' = [objs EXCEPT ![o] = Deserialize(db[peer[t]])] /\ nObjs' = o
    /\ obj' = [obj EXCEPT ![t] = o]
    /\ Goto(t, "get_insert")
    /\ UNCHANGED <<cache, handles, db, disk, lockVars, op, peer, msg,
                   bytes, ok, cntVars>>

GetNotFound(t) ==
    /\ pc[t] = "get_load" /\ db[peer[t]] = NoRecord
    /\ Return(t)
    /\ UNCHANGED <<memVars, db, disk, wr, sw, op, peer, obj, msg,
                   bytes, ok, cntVars>>

\* ... and install it in the cache under the map's write lock, replacing
\* whatever another thread may have installed meanwhile.
GetInsert(t) ==
    /\ pc[t] = "get_insert"
    /\ cache' = [cache EXCEPT ![peer[t]] = obj[t]]
    /\ Goto(t, AfterGet[op[t]])
    /\ UNCHANGED <<objs, nObjs, handles, db, disk, lockVars, op, peer, obj, msg, bytes, ok, cntVars>>

-----------------------------------------------------------------------------
(* encrypt_message after get_session.                                      *)

\* `session.write()`, `session.encrypt(..)?`.  The sessions the context
\* holds have no sending chain or a chain without its HMAC, so encrypt
\* fails or panics (unwinding out of encrypt_message with the guards) and
\* the reread, save and flush after it are never reached.  Were Ok
\* possible, this thread would stay at "enc" and EveryCallReturns would
\* report it.
SessionEncrypt(t) ==
    LET o == obj[t]  r == Encrypt(objs[o]) IN
    /\ pc[t] = "enc" /\ SessionFree(o) /\ r.err # Ok
    /\ objs' = [objs EXCEPT ![o] = r.st]
    /\ Return(t)
    /\ UNCHANGED <<cache, nObjs, handles, db, disk, wr, sw, op, peer, obj, msg, bytes, ok, cntVars>>

-----------------------------------------------------------------------------
(* decrypt_message after get_session.                                      *)

\* `session.write()`, `session.decrypt(..)?`: on an error (or a panic)
\* the guards are dropped and the mutated state stays in memory.
SessionDecrypt(t) ==
    LET o == obj[t]  r == Decrypt(objs[o], msg[t], nDH + 1) IN
    /\ pc[t] = "dec" /\ SessionFree(o)
    /\ objs' = [objs EXCEPT ![o] = r.st]
    /\ nDH' = IF Draws(objs[o], msg[t]) THEN nDH + 1 ELSE nDH
    /\ \/ /\ r.err = Ok
          /\ sw' = [sw EXCEPT ![o] = t] /\ Goto(t, "dec_lock2") /\ UNCHANGED rd
       \/ /\ r.err # Ok
          /\ Return(t) /\ UNCHANGED sw
    /\ UNCHANGED <<cache, nObjs, handles, db, disk, wr, op, peer, obj, msg, bytes, ok, nSeeds, nOps, nCrashes>>

\* `self.sessions.read()` again, holding `sessions` and the session's
\* write guard.
DecryptReadAgain(t) ==
    /\ pc[t] = "dec_lock2" /\ ReadFree
    /\ rd' = [rd EXCEPT ![t] = @ + 1] /\ Goto(t, "dec_save")
    /\ UNCHANGED <<memVars, db, disk, wr, sw, op, peer, obj, msg,
                   bytes, ok, cntVars>>

\* Fault-injection variant: the save goes through
\* `get_session(..)?.read()` as encrypt_message's does, while this thread
\* still holds the session's write guard.
DecryptSaveRelock(t) ==
    /\ pc[t] = "dec_save" /\ sw[obj[t]] = NoThread
    /\ db' = [db EXCEPT ![peer[t]] = Serialize(objs[obj[t]])]
    /\ Goto(t, "dec_flush")
    /\ UNCHANGED <<memVars, disk, lockVars, op, peer, obj, msg, bytes, ok,
                   cntVars>>

\* `.save_session(session_id, &*session)`: the insert.
DecryptSave(t) ==
    /\ pc[t] = "dec_save"
    /\ \/ /\ db' = [db EXCEPT ![peer[t]] = Serialize(objs[obj[t]])]
          /\ Goto(t, "dec_flush") /\ UNCHANGED <<rd, sw>>
       \/ /\ StorageFaults
          /\ sw' = [sw EXCEPT ![obj[t]] = NoThread] /\ Return(t)
          /\ UNCHANGED db
    /\ UNCHANGED <<memVars, disk, wr, op, peer, obj, msg, bytes, ok,
                   cntVars>>

\* Fault-injection variant: save_session returns after the insert without
\* `self.db.flush()`.
DecryptFlushNoDurable(t) ==
    /\ pc[t] = "dec_flush"
    /\ sw' = [sw EXCEPT ![obj[t]] = NoThread] /\ Return(t)
    /\ ok' = [ok EXCEPT ![t] = TRUE]
    /\ UNCHANGED <<memVars, db, disk, wr, op, peer, obj, msg, bytes,
                   cntVars>>

\* The flush; then the guards go and the plaintext is returned, or the
\* flush error is.  ok[t] records which.
DecryptFlush(t) ==
    /\ pc[t] = "dec_flush"
    /\ sw' = [sw EXCEPT ![obj[t]] = NoThread] /\ Return(t)
    /\ \/ disk' = db /\ ok' = [ok EXCEPT ![t] = TRUE]
       \/ StorageFaults /\ ok' = [ok EXCEPT ![t] = FALSE] /\ UNCHANGED disk
    /\ UNCHANGED <<memVars, db, wr, op, peer, obj, msg, bytes,
                   cntVars>>

-----------------------------------------------------------------------------
(* deserialize_session_state after get_session: the state is replaced in  *)
(* memory and nothing is saved.  Valid bytes carry a chain fresh from a   *)
(* handshake: a new seed, a new local ratchet key, a peer key; "nodh"     *)
(* bytes carry the chain with no local ratchet key.                       *)
SessionImport(t) ==
    LET o == obj[t] IN
    /\ pc[t] = "imp" /\ SessionFree(o)
    /\ \/ /\ bytes[t] = "malformed"
          /\ UNCHANGED <<objs, nDH, nSeeds>>
       \/ /\ bytes[t] \in {"valid", "nodh"}
          /\ LET dh == IF bytes[t] = "valid" THEN nDH + 1 ELSE 0 IN
             /\ \E rk \in RemoteKeys :
                   objs' = [objs EXCEPT ![o] = Deserialize(
                              [send |-> nSeeds + 1, sidx |-> 0, recv |-> FALSE,
                               dhlBytes |-> dh, dhr |-> rk, pn |-> 0])]
             /\ nDH' = IF dh = 0 THEN nDH ELSE dh
          /\ nSeeds' = nSeeds + 1
    /\ Return(t)
    /\ UNCHANGED <<cache, nObjs, handles, db, disk, wr, sw, op, peer, obj, msg, bytes, ok, nOps, nCrashes>>

-----------------------------------------------------------------------------
(* perform_handshake after get_session: the key store and random read     *)
(* guards, the builder (InvalidKeyLength on a peer key that is not 32      *)
(* bytes) and the mock handshake message.  The session is held and never  *)
(* used, and nothing changes but the cache get_session may have filled.    *)
HandshakeBody(t) ==
    /\ pc[t] = "hs"
    /\ Return(t)
    /\ UNCHANGED <<memVars, db, disk, wr, sw, op, peer, obj, msg, bytes, ok,
                   cntVars>>

-----------------------------------------------------------------------------
(* Calls on a session handle (ffi/session.rs): `Arc::from_raw`, the      *)
(* session's write lock, the session operation, `Arc::into_raw`, and the  *)
(* result handed back; nothing is saved.  A handle's session is the one   *)
(* create_session built, with no sending chain and a dh_local: encrypt    *)
(* returns InvalidState and decrypt cannot reach a panic, so the strong   *)
(* count from_raw takes always goes back through into_raw.                *)

HandleEncrypt(t, h) ==
    LET r == Encrypt(objs[h]) IN
    /\ pc[t] = "idle" /\ nOps < MaxOps /\ "encrypt" \in HandleOps
    /\ h \in handles /\ SessionFree(h)
    /\ objs' = [objs EXCEPT ![h] = r.st]
    /\ nOps' = nOps + 1
    /\ UNCHANGED <<cache, nObjs, handles, db, disk, lockVars, localVars,
                   nDH, nSeeds, nCrashes>>

HandleDecrypt(t, h, m) ==
    LET r == Decrypt(objs[h], m, nDH + 1) IN
    /\ pc[t] = "idle" /\ nOps < MaxOps /\ "decrypt" \in HandleOps
    /\ h \in handles /\ SessionFree(h)
    /\ objs' = [objs EXCEPT ![h] = r.st]
    /\ nDH' = IF Draws(objs[h], m) THEN nDH + 1 ELSE nDH
    /\ nOps' = nOps + 1
    /\ UNCHANGED <<cache, nObjs, handles, db, disk, lockVars, localVars,
                   nSeeds, nCrashes>>

\* secure_session_free: the handle's Arc is dropped.
HandleFree(t, h) ==
    /\ pc[t] = "idle" /\ nOps < MaxOps /\ "free" \in HandleOps /\ h \in handles
    /\ handles' = handles \ {h} /\ nOps' = nOps + 1
    /\ UNCHANGED <<cache, objs, nObjs, db, disk, lockVars, localVars,
                   nDH, nSeeds, nCrashes>>

-----------------------------------------------------------------------------
(* The environment.                                                        *)

\* The process dies: memory, locks, calls in progress and handles are
\* gone, and sled reopens with what was flushed.
Crash ==
    /\ nCrashes < MaxCrashes /\ nCrashes' = nCrashes + 1
    /\ cache' = [p \in Peers |-> 0] /\ objs' = [o \in Objs |-> Unused]
    /\ nObjs' = 0 /\ handles' = {} /\ db' = disk
    /\ rd' = [t \in Threads |-> 0] /\ wr' = NoThread
    /\ sw' = [o \in Objs |-> NoThread]
    /\ pc' = [t \in Threads |-> "idle"]
    /\ UNCHANGED <<disk, op, peer, obj, msg, bytes, ok,
                   nDH, nSeeds, nOps>>

\* sled's background flusher makes every insert so far durable.
SledFlush ==
    /\ disk # db /\ disk' = db
    /\ UNCHANGED <<memVars, db, lockVars, localVars, cntVars>>

\* Every call budgeted has been made and has returned.
Terminated ==
    /\ nOps = MaxOps /\ \A t \in Threads : pc[t] = "idle"
    /\ UNCHANGED vars

\* The steps of a call in progress on thread t.
Step(t) ==
    \/ CreateBody(t) \/ GetHit(t) \/ GetMiss(t) \/ GetLoad(t)
    \/ GetNotFound(t) \/ GetInsert(t)
    \/ SessionEncrypt(t)
    \/ SessionDecrypt(t) \/ DecryptReadAgain(t) \/ DecryptSave(t)
    \/ DecryptFlush(t) \/ SessionImport(t) \/ HandshakeBody(t)

\* A call starting on thread t.
Call(t) ==
    \E p \in Peers :
        \/ EncryptMessage(t, p)
        \/ \E m \in Msgs : DecryptMessage(t, p, m)
        \/ \E b \in ImportBytes : DeserializeSessionState(t, p, b)
        \/ CreateSession(t, p)
        \/ PerformHandshake(t, p)
        \/ \E h \in handles :
             \/ HandleEncrypt(t, h) \/ HandleFree(t, h)
             \/ \E m \in Msgs : HandleDecrypt(t, h, m)

Next ==
    \/ \E t \in Threads : Call(t) \/ Step(t)
    \/ Crash \/ SledFlush \/ Terminated

\* parking_lot locks are eventually fair and a started call runs to its
\* end unless the process crashes; nothing forces a crash or a new call.
Spec == Init /\ [][Next]_vars /\ \A t \in Threads : WF_vars(Step(t))

-----------------------------------------------------------------------------
(* Properties.                                                             *)

\* Every call into the context returns: no interleaving of callers, the
\* recursive `self.sessions.read()` in encrypt/decrypt, the session locks
\* and create_session's write lock leaves a thread blocked for good.
EveryCallReturns == \A t \in Threads : pc[t] # "idle" ~> pc[t] = "idle"

\* decrypt_message's durability: when it returns the plaintext, the state
\* its session holds is the one on disk for that peer, so a crash right
\* after cannot bring back a state that would accept the message again
\* (spec section 8, "Persistence durability").  Two cold-cache callers
\* each load their own copy of the session, and one's flush may make the
\* other's save durable instead.
DecryptDurable ==
    [][\A t \in Threads :
         (pc[t] = "dec_flush" /\ pc'[t] = "idle" /\ ok'[t]
          /\ nCrashes' = nCrashes)
            => disk'[peer[t]] = Serialize(objs[obj[t]])]_vars

=============================================================================
