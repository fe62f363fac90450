------------------------------- MODULE KeyStore -------------------------------
(***************************************************************************)
(* The key store (keystore/store.rs) over its sled tree "keystore", across *)
(* process restarts, and the two ways a process opens it: the C entry      *)
(* point secure_context_create (ffi/context.rs, SecureContext::new in      *)
(* lib.rs), or a Rust caller that opens sled and calls KeyStore::new       *)
(* itself, which is the only way to reach the prekey methods: the context  *)
(* keeps its KeyStore private.  sled allows one open database per path at  *)
(* a time (a file lock); `lock` is held while some Db of this process is   *)
(* alive.  As in SecureContext, `tree` is what reads see and `disk` what a *)
(* crash leaves; an insert or remove is durable once sled flushes, and no  *)
(* key store call flushes.  An identity key pair is a number drawn fresh   *)
(* by IdentityKeyPair::generate; a record that does not parse is Garbled.  *)
(* Prekey pairs are model values, each generated once by the application.  *)
(***************************************************************************)
EXTENDS Naturals, FiniteSets

CONSTANTS
    PrekeyIds,      \* prekey ids the application uses
    PrekeyVals,     \* (signed) prekey pairs it generates
    NoRecord, Garbled, Closed,
    Faults,         \* whether sled calls and the clock read may fail
    MaxOps,         \* bound: calls, opens and frees included
    MaxCrashes

\* Each open generates at most one identity, after the one Init may hold.
Ids == 1..(MaxOps + 1)

\* Record keys of the tree: "identity", "prekey:{id}", "signed_prekey:{id}".
IdKey == <<"identity", 0>>
PrekeyKey(i) == <<"prekey", i>>
SignedKey(i) == <<"signed_prekey", i>>
Keys == {IdKey} \cup {PrekeyKey(i) : i \in PrekeyIds} \cup {SignedKey(i) : i \in PrekeyIds}

VARIABLES
    tree, disk,     \* the "keystore" tree: what reads see, what is durable
    lock,           \* sled's lock on the database, held by a live Db
    open,           \* who holds the store: "none", "context" (a C handle), "store"
    mem,            \* the open KeyStore's identity_key, Closed when none is open
    nGen,           \* identities generated so far
    nOps, nCrashes,
    given,          \* history: identities get_identity_keypair returned
    used,           \* history: prekey pairs ever saved
    retired         \* history: prekey pairs remove_prekey removed

vars == <<tree, disk, lock, open, mem, nGen, nOps, nCrashes, given, used, retired>>

Record == Ids \cup PrekeyVals \cup {NoRecord, Garbled}

TypeOK ==
    /\ tree \in [Keys -> Record] /\ disk \in [Keys -> Record]
    /\ lock \in BOOLEAN /\ open \in {"none", "context", "store"}
    /\ mem \in Ids \cup {Closed}
    /\ nGen \in 0..(MaxOps + 1) /\ nOps \in 0..MaxOps /\ nCrashes \in 0..MaxCrashes
    /\ given \subseteq Ids /\ used \subseteq PrekeyVals /\ retired \subseteq used

\* A store on disk as some earlier run of the program, or another build of
\* it, left it: no identity, a valid one, or one that does not parse.
Init ==
    /\ \E r \in {NoRecord, Garbled, 1} :
          tree = [k \in Keys |-> IF k = IdKey THEN r ELSE NoRecord]
    /\ disk = tree
    /\ lock = FALSE /\ open = "none" /\ mem = Closed
    /\ nGen = IF tree[IdKey] = 1 THEN 1 ELSE 0
    /\ nOps = 0 /\ nCrashes = 0 /\ given = {} /\ used = {} /\ retired = {}

Call == nOps < MaxOps /\ nOps' = nOps + 1

\* Outcomes of KeyStore::new: the tree after it, the identity it holds
\* (Closed when new returns Err) and the identities generated.
Outcome(t, id, g) == [t |-> t, id |-> id, gen |-> g]

\* IdentityKeyPair::generate: a StaticSecret from OsRng and its public key,
\* an identity no earlier call produced.
IdentityGenerate == nGen + 1

\* KeyStore::new, generating: IdentityKeyPair::generate, then the insert;
\* an insert error makes new fail.
Generate ==
    LET k == IdentityGenerate IN
    {Outcome([tree EXCEPT ![IdKey] = k], k, k)}
      \cup (IF Faults THEN {Outcome(tree, Closed, k)} ELSE {})

\* Fault-injection variant: any identity record present is loaded as it
\* is, without the serde_json parse that can fail.
NewNoParse ==
    LET r == tree[IdKey] IN
    (IF r # NoRecord THEN {Outcome(tree, r, nGen)} ELSE {})
      \cup (IF r = NoRecord \/ Faults THEN Generate ELSE {})
      \cup (IF Faults THEN {Outcome(tree, Closed, nGen)} ELSE {})

\* KeyStore::new: open_tree (may fail), then `if let Ok(Some(ivec)) =
\* tree.get(b"identity")` and a record that parses is loaded; a missing
\* record, one that does not parse, or a failed read all fall through to
\* generating a new identity.
New ==
    LET r == tree[IdKey] IN
    (IF r \in Ids THEN {Outcome(tree, r, nGen)} ELSE {})
      \cup (IF r \notin Ids \/ Faults THEN Generate ELSE {})
      \cup (IF Faults THEN {Outcome(tree, Closed, nGen)} ELSE {})

\* The last Db handle of the process is dropped: sled either writes what
\* was not yet flushed, or it is gone; either way the file lock is released.
DropDb(t) == \E s \in {t, disk} : tree' = s /\ disk' = s /\ lock' = FALSE

\* SecureContext::new after sled::open, KeyStore::new having given o:
\* SessionManager::new (whose open_tree(..).expect panics) and
\* SecureRandom::new (an Err if the clock reads before the epoch) may still
\* fail.  A failure drops the Db.
ContextNew(o) ==
    /\ nGen' = o.gen
    /\ \/ o.id # Closed /\ tree' = o.t /\ lock' = TRUE
          /\ open' = "context" /\ mem' = o.id /\ UNCHANGED disk
       \/ (o.id = Closed \/ Faults) /\ DropDb(o.t) /\ UNCHANGED <<open, mem>>

\* secure_context_create: SecureContext::new, whose sled::open fails while
\* the lock is held; any Err or caught panic returns NULL.
SecureContextCreate ==
    /\ open # "context" /\ Call
    /\ \/ lock /\ UNCHANGED <<tree, disk, lock, open, mem, nGen>>
       \/ ~lock /\ \E o \in New : ContextNew(o)
    /\ UNCHANGED <<nCrashes, given, used, retired>>

\* secure_context_free: drops the SecureContextHandle box; its `context`
\* field is a raw pointer, so the SecureContext, its Db and the lock stay.
SecureContextFree ==
    /\ open = "context" /\ Call
    /\ open' = "none" /\ mem' = Closed
    /\ UNCHANGED <<tree, disk, lock, nGen, nCrashes, given, used, retired>>

\* A Rust caller opens sled and calls KeyStore::new.
OpenStore ==
    /\ open = "none" /\ ~lock /\ Call
    /\ \E o \in New :
          /\ nGen' = o.gen
          /\ \/ o.id # Closed /\ tree' = o.t /\ lock' = TRUE
                /\ open' = "store" /\ mem' = o.id /\ UNCHANGED disk
             \/ o.id = Closed /\ DropDb(o.t) /\ UNCHANGED <<open, mem>>
    /\ UNCHANGED <<nCrashes, given, used, retired>>

\* It drops the KeyStore and its Db.
CloseStore ==
    /\ open = "store" /\ Call
    /\ DropDb(tree) /\ open' = "none" /\ mem' = Closed
    /\ UNCHANGED <<nGen, nCrashes, given, used, retired>>

\* get_identity_keypair: a copy of the identity in memory.
GetIdentityKeypair ==
    /\ open = "store" /\ Call
    /\ given' = given \cup {mem}
    /\ UNCHANGED <<tree, disk, lock, open, mem, nGen, nCrashes, used, retired>>

\* save_prekey / save_signed_prekey: serialize, insert under the record key.
Save(k, v) ==
    /\ open = "store" /\ v \notin used /\ Call
    /\ used' = used \cup {v}
    /\ \/ tree' = [tree EXCEPT ![k] = v]
       \/ Faults /\ UNCHANGED tree
    /\ UNCHANGED <<disk, lock, open, mem, nGen, nCrashes, given, retired>>

SavePrekey(i, v) == Save(PrekeyKey(i), v)
SaveSignedPrekey(i, v) == Save(SignedKey(i), v)

\* get_prekey / get_signed_prekey: the record, or KeyNotFound.
GetPrekey(i) == IF tree[PrekeyKey(i)] = NoRecord THEN "KeyNotFound" ELSE tree[PrekeyKey(i)]
GetSignedPrekey(i) == IF tree[SignedKey(i)] = NoRecord THEN "KeyNotFound" ELSE tree[SignedKey(i)]

\* remove_prekey: remove "prekey:{id}"; removing an absent id succeeds.
RemovePrekey(i) ==
    /\ open = "store" /\ Call
    /\ \/ /\ tree' = [tree EXCEPT ![PrekeyKey(i)] = NoRecord]
          /\ retired' = retired \cup ({tree[PrekeyKey(i)]} \ {NoRecord})
       \/ Faults /\ UNCHANGED <<tree, retired>>
    /\ UNCHANGED <<disk, lock, open, mem, nGen, nCrashes, given, used>>

\* sled's background flusher, while a Db is alive.
SledFlush ==
    /\ lock /\ disk # tree /\ disk' = tree
    /\ UNCHANGED <<tree, lock, open, mem, nGen, nOps, nCrashes, given, used, retired>>

\* The process dies; sled reopens with what was flushed.
Crash ==
    /\ nCrashes < MaxCrashes /\ nCrashes' = nCrashes + 1
    /\ tree' = disk /\ lock' = FALSE /\ open' = "none" /\ mem' = Closed
    /\ UNCHANGED <<disk, nGen, nOps, given, used, retired>>

Terminated == nOps = MaxOps /\ UNCHANGED vars

Next ==
    \/ SecureContextCreate \/ SecureContextFree \/ OpenStore \/ CloseStore
    \/ GetIdentityKeypair
    \/ \E i \in PrekeyIds :
          \/ RemovePrekey(i)
          \/ \E v \in PrekeyVals : SavePrekey(i, v) \/ SaveSignedPrekey(i, v)
    \/ SledFlush \/ Crash \/ Terminated

Spec == Init /\ [][Next]_vars

-----------------------------------------------------------------------------
(* Properties.                                                             *)

\* The store has one identity for its whole life: get_identity_keypair
\* never returns two different identities, across restarts (spec 4.10:
\* "exactly one identity per store", generated on first open only).
SingleIdentity == Cardinality(given) <= 1

\* A one-time prekey that remove_prekey removed is never returned by
\* get_prekey again, across restarts (spec 2: a prekey is consumed once).
RemovedPrekeyStaysRemoved ==
    open = "store" => \A i \in PrekeyIds : GetPrekey(i) \notin retired

=============================================================================
