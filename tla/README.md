# TLA+ models of secure_protocol (sibnav5_pro)

These modules model the Rust core under `src/core/src`: the Double Ratchet
session, the session manager with its sled store, the `SecureContext` façade,
the C context and session handles, the counter-bounded `Encryptor` and the
key store. They are checked with TLC. `PROJECT.json` lists
every component, run, mutant, source mapping, finding and hazard.

## 1. The system

| Part | Source | State | Operations |
|---|---|---|---|
| Ratchet session | `ratchet/session.rs`, `chain.rs`, `state.rs` | `DoubleRatchetState`: sending and receiving `ChainKey` (key and index), `dh_local` and its bytes, `dh_remote`, `previous_counter`, root key, skipped keys | `new`, `from_shared_secret`, `encrypt`, `decrypt`, `serialize_state`, `deserialize_state` |
| Session manager | `lib.rs` `SessionManager` | cache `HashMap<peer, Arc<RwLock<session>>>` behind a parking_lot RwLock; sled tree `sessions` | `create_session`, `get_session`, `save_session` (insert, then flush), `remove_session` |
| Context | `lib.rs` `SecureContext` | `RwLock<SessionManager>`, `RwLock<KeyStore>`, `RwLock<SecureRandom>` | `create_session`, `encrypt_message`, `decrypt_message`, `deserialize_session_state`, `load_identity`, `perform_handshake` |
| FFI | `ffi/*.rs` | raw `Arc` pointers held by C handles | `secure_session_create`, `secure_session_encrypt`, `secure_session_decrypt`, `secure_session_free`, … |
| Crypto | `crypto/*.rs` | `Encryptor`'s `AtomicU64` counter; `SecureRandom`'s reseed counter | AEAD seal and open, `encrypt_message`, `fill_bytes`, HKDF |
| Key store | `keystore/store.rs` | identity in memory; sled tree `keystore` | `new` (load or generate), `get_identity_keypair`, prekey and signed-prekey save/get, `remove_prekey` |
| C context | `ffi/context.rs` | a `SecureContextHandle` box holding a raw `SecureContext` pointer | `secure_context_create`, `secure_context_free` |
| Handshake | `handshake/builder.rs` | none | a mock `perform()` |

How the parts interact:
- `encrypt_message` takes the `sessions` read guard and `get_session`s the session. On a cache miss it reads sled, deserializes and inserts the session.
- It then takes the session's write lock and encrypts. On success it would take `self.sessions.read()` a second time and `save_session` the session the cache holds now. That path is never reached: every session the context holds is either new, with no sending chain, or deserialized, with a chain whose HMAC serde skipped (finding 11).
- `decrypt_message` does the same steps, saving (insert, then flush) the session it still holds locked after a second `self.sessions.read()`.
- `create_session` holds the `sessions` write lock. It inserts the new state in sled without a flush and replaces the cached entry.
- The C handle functions take the handle's `Arc` with `Arc::from_raw`, lock the session's own RwLock, give the `Arc` back with `Arc::into_raw`, and never save.

What makes this hard:
- several threads share the two lock levels;
- a parking_lot RwLock blocks new readers once a writer is waiting;
- sled makes an insert durable only at a flush;
- crashes;
- save failures after the state has already advanced;
- a network that loses, replays and forges messages.

The properties that make the system correct:
- a plaintext is returned only once the state after it is on disk (the spec's durability contract, §4.11 and §8);
- every call returns (§5 lock order);
- headers carry increasing indices within a chain (§8), also across serialization;
- a restored session works like the one saved (§4.9);
- a session is never freed while the cache or a handle still uses it (§6);
- a one-time prekey, once removed, is never handed out again (§2);
- a store has exactly one identity (§4.10);
- a failed decrypt leaves the state unchanged (§4.8 step 6, §7).

## 2. Modules

- **`Ratchet.tla`** holds pure operators for one session's state and algorithm (`New`, `Encrypt`, `Decrypt`, `Serialize`, `Deserialize`, `NextIndex`, `MessageKey`). The data is abstracted:
  - a chain key is `<<seed, index>>`, so two message keys are equal exactly when the HMAC ladder yields equal bytes;
  - a local ratchet key is a number drawn fresh, with 0 standing for `None`;
  - a peer key is a model value, with `NoKey` standing for `None`;
  - decrypt's constant key `[1u8;32]` is `DecryptKey`.

  - `hm` records whether the sending chain has its HMAC: `from_shared_secret` builds its chain with `ChainKey::new` (`ChainKeyNew`), the only constructor that builds it; `Deserialize` leaves it out (`#[serde(skip)]`), and nothing rebuilds it.

  `Encrypt` keeps the code's order: the HMAC `expect` panics before anything changes, and otherwise the chain advances before the `dh_local` check. `EncryptResults` adds what can fail after the advance (`session.rs` 108-114): the `Encryptor`'s clock read (`EncryptionFailed`) or `SecureRandom::new` (`RandomFailed`), with the chain left advanced. `Decrypt` keeps the DH-branch mutations, the `unwrap` panic and the fixed key. `Open` is `CryptoHandler::decrypt` (a body opens only under the key that sealed it; the associated data never reaches the cipher), and `BodyTooShort` is `Encryptor::decrypt_message`'s length check.
- **`SecureContext.tla`** (EXTENDS Ratchet) models the context, the session manager and the handles, with one action per step between lock operations.

  | Part | Variables |
  |---|---|
  | Memory | `cache`, `objs` (session objects), `handles` |
  | sled | `db` (what reads see), `disk` (what a crash leaves) |
  | Locks | `rd[t]` (read guards on `sessions`), `wr` (its writer), `sw` (each session's writer) |
  | Thread-local | `pc`, `op`, `peer`, `obj`, `ok` (whether decrypt's flush succeeded), … |

  `PerformHandshake` and `HandshakeBody` are `perform_handshake`: a reader of `sessions` whose `get_session` may load the session into the cache, and which then returns. `NewHandles` is the choice between `secure_session_create`, which keeps the `Arc` as a handle, and a Rust caller, which drops it.

  `SessionEncrypt` only returns: its result is never `Ok` (finding 11), so the save after it is not modelled.

  `DeserializeSessionState` takes one of three kinds of bytes (`ImportBytes`): a state from a handshake, bytes that do not parse, or a state with an empty `dh_local_bytes`. serde accepts the last, and the next DH-branch decrypt then panics on `dh_local.unwrap()`.

  The two programs: an FFI program reaches the context only through `secure_session_create` and the handle calls, and a Rust program calls the `SecureContext` methods and never holds a handle. A handle's session is therefore the chainless one `create_session` built: handle encrypt returns `InvalidState`, and no handle call panics between `Arc::from_raw` and `Arc::into_raw`. The warm start is such a state. `two_callers` offers both kinds of call to one context, which adds behaviours no single program has; for a run that passes, that is harmless.

  `Crash` resets memory and locks and sets `db` to `disk`. `SledFlush` is sled's background flusher.
- **`MCSecureContext.tla`** gives model values for peer keys and three messages:
  - a full one under a chain key;
  - one under `DecryptKey`;
  - a body too short to open.
- **`RatchetSession.tla`** (EXTENDS Ratchet) models two sessions built by `from_shared_secret`. They exchange messages over a network that keeps every message, so any may be delivered late, twice or never. A forger can seal messages under `DecryptKey` with any ratchet key in use. The application may keep a party's `serialize_state` bytes (`saved`) and later restore them with `deserialize_state` (`SerializeState`, `DeserializeState`). `MCRatchetSession.tla` sets the peer keys to the numbers `1..MaxDH`.
- **`Encryptor.tla`** models one `Encryptor` shared by several threads.
  - Each `encrypt_message` is three steps: `Reserve`, `Check` and `Seal`.
  - `Reserve` is the atomic `fetch_add`, wrapping at `2^W`.
  - `Check` is the `max_message_count` test.
  - `Seal` builds the AD and calls `CryptoHandler::encrypt`. Its clock read, `SecureRandom::new` (`RandomNew`: `RandomFailed` when the clock reads before the epoch) or cipher may fail after the number is consumed.
  - `ResetCounter` is `reset_counter`'s `store(0)`, which may run while other threads are between their reservation and their seal. `sealed` is the bag of message numbers that were sealed.
  - `Encryptor` is a pub type, so a library user may share one between threads. This repository never does: `encrypt` builds one per call with `u64::MAX` and uses it once (`session.rs` 108). For that reason only its type invariant is checked.
  - `MCEncryptor.tla` adds thread symmetry.
- **`KeyStore.tla`** models the key store over its sled tree.
  - Variables: the identity record and the prekey records, each both visible and durable; the identity in memory, which is `Closed` while no store is open.
  - The store is opened in one of two ways. `SecureContextCreate` is `secure_context_create`: `sled::open`, `KeyStore::new`, then the steps of `SecureContext::new` that may still fail (`ContextNew`). `OpenStore` is a Rust caller calling `KeyStore::new` itself; it is the only way to reach the prekey methods, since the context keeps its `KeyStore` private.
  - `lock` is sled's file lock: one live `Db` per path. `SecureContextFree` is `secure_context_free`. It frees only the handle box, so the context, its `Db` and the lock stay.
  - Other actions: `GetIdentityKeypair`, `SavePrekey`, `SaveSignedPrekey`, `RemovePrekey`, `CloseStore`, `SledFlush` and `Crash`. `GetPrekey` and `GetSignedPrekey` are read-only operators.
  - `KeyStore::new` generates through `IdentityGenerate` (`IdentityKeyPair::generate`: a fresh key pair from OsRng).
  - `Init` allows any store an earlier run could leave: empty, valid, or unparsable.

- **`KeyLedger.tla`** is the abstract specification of what the session layer promises the callers of encrypt. Spec §4.7 says each call takes "a fresh message key", §3 says "no message key is ever produced twice", and §1 says no sequence of events may "cause key reuse". The specification is a ledger of handed-out keys: a returned ciphertext appends a key not already in it. `RatchetSession` instantiates it as `Ledger`, mapping `handed` to the keys of the messages in `log`, the ciphertexts encrypt returned from both parties in order. `KeyLedgerSpec == Ledger!Spec` is the property of `shared_sending_chain`.

Fairness: `SecureContext` assumes weak fairness on each thread's in-call `Step`. parking_lot's locks are eventually fair, and the spec (§5) says a started call runs to completion. Starting a new call, `Crash` and `SledFlush` get no fairness, because nothing forces them. `RatchetSession` checks only safety.

## 3. Runs

| Run | Cfg | Expect | Bounds | What it shows |
|---|---|---|---|---|
| single_caller | SingleCaller.cfg | pass | 1 thread, 1 peer, 6 calls, 1 crash, storage faults, fresh store | Create, import, encrypt, decrypt and handshake, with failing inserts and flushes, a background flush and a crash: a plaintext is returned only with its state on disk (`DecryptDurable`), every call returns (`EveryCallReturns`), and `TypeOK` holds. |
| two_callers | TwoCallers.cfg | pass | 2 threads, 1 peer, 5 calls, warm cache and handles | Interleaved context and handle calls on one cached session: the session lock keeps decrypt's save and flush together (`DecryptDurable`), and every call returns. |
| cold_cache_race | ColdCacheRace.cfg | violation | 2 threads, restarted | Two cache misses deserialize two copies; each decrypt saves its own, and one returns with the other's state on disk (`DecryptDurable`). |
| create_during_decrypt | CreateDuringDecrypt.cfg | violation | 2 threads | The recursive read guard in `decrypt_message`, behind `create_session`'s writer, deadlocks (`EveryCallReturns`). |
| ratchet_pair | RatchetPass.cfg | pass | 6 calls, forger on, seal faults | Both session states stay well formed (`TypeOK`) through losses, replays, forgeries, failed encrypts and restores. |
| restored_chain_panics | RestoredChainPanics.cfg | violation | 4 calls | `serialize_state`, `deserialize_state`, then `encrypt` panics (`EncryptNeverPanics`). |
| shared_sending_chain | SharedSendingChain.cfg | violation | 3 calls, no forger, no faults | Alice's and Bob's first ciphertexts are sealed under the same message key, so the returned ciphertexts do not implement `KeyLedger` (`KeyLedgerSpec`). |
| failed_decrypt_mutates | FailedDecryptMutates.cfg | violation | 4 calls, forger | A `DecryptionFailed` keeps new `dh_local` and `dh_remote`. |
| encryptor_threads | EncryptorPass.cfg | pass | 3 threads, W = 3, max 3, 8 calls, 1 reset | With interleaved reservations, failing seals and a racing `reset_counter`, the counter wraps within its W bits (`TypeOK`). |
| keystore_restarts | KeyStorePass.cfg | pass | 6 calls, 1 crash, faults, any start, 1 prekey id, 2 pairs | Through context creates and frees (with the leaked lock), Rust opens and closes, prekey and signed-prekey saves and removes, the identity an open store holds is always a parsed key pair, never a garbled record (`TypeOK`). |
| identity_lost | IdentityLost.cfg | violation | 5 calls, 1 crash, faults, any start | A generated identity that was never flushed is lost in a crash, or a failed read regenerates over a valid one, and the store hands out a second identity (`SingleIdentity`). |
| prekey_resurrected | PrekeyResurrected.cfg | violation | 4 calls, 1 crash | A removed one-time prekey comes back after a crash, and `get_prekey` returns it again (`RemovedPrekeyStaysRemoved`). |

Why these bounds are enough:
- Every hazard above needs at most two threads and one peer: the races are on one session, and different peers share nothing but the locks.
- A call uses at most one new object, seed, ratchet key and index. The ranges are therefore derived from `MaxOps`, and no bound is hit in the middle of a call.
- Four to six calls are enough to combine a crash or failed save with a reload and a second decrypt, or a serialization with a restore and an encrypt.

Each property of a passing run has a mutant in `PROJECT.json`, a plausible bug of the code that TLC catches:
- `NextIndex` skipping an index;
- the flush dropped from `save_session`;
- a return that keeps its read guards on `sessions`;
- the decrypt save re-locking the session;
- the counter not wrapping;
- `KeyStore::new` loading an identity record without parsing it (`TypeOK` catches the garbled record in memory).

## 4. Findings

1. **The cache miss in `get_session` is not atomic** (`lib.rs` 250-268). After a restart, concurrent callers each load their own copy of the session. Each `decrypt_message` saves its own copy, and one of them returns its plaintext while disk holds the other's state (`cold_cache_race`).
2. **`decrypt_message` takes a recursive read guard** (`lib.rs` 186). With `create_session` waiting for the write lock, both threads block forever (`create_during_decrypt`). `encrypt_message` has the same pattern at line 165, behind an encrypt that never succeeds (finding 11).
3. **Handle decrypt never saves** (`ffi/session.rs` 107). The session advances and the plaintext is returned with nothing persisted, against the durability contract. `HandleDecrypt` has no save; no run states it, since a property would only restate the absence.
4. **`from_shared_secret` gives both directions one chain** (`session.rs` 53). `RatchetSession` keeps it: both parties start on seed 1. `shared_sending_chain` shows that Alice's and Bob's first messages are sealed under the same key, `<<1, 0>>`, which breaks the `KeyLedger` refinement.
5. **`decrypt` uses the placeholder key** (`session.rs` 184). A forgery is accepted, and a genuine message never opens. The spec lists this as open question (a), and `Ratchet` still models the fixed key (`DecryptKey`). It has no run of its own, so that the runs can cover prekey resurrection.
6. **A failed `decrypt` keeps its DH-step mutations.**
7. **`KeyStore::new` does not flush the identity it generates** (`store.rs` 82-85). It also regenerates when a read fails, so one store can get two identities.
8. **`SecureContext::load_identity` calls `set_identity`, which no type defines** (`lib.rs` 99). As written, the crate does not compile there. `load_identity` is therefore not modelled.
9. **`remove_prekey` is not flushed** (`store.rs` 125). A prekey flushed earlier by sled's background flusher is back after a crash, and `get_prekey` hands it out a second time (`prekey_resurrected`).
10. **`secure_context_free` leaks the context** (`ffi/context.rs` 57). It drops the `SecureContextHandle` box, whose `context` field is a raw pointer, so the `SecureContext`, its sled `Db` and sled's file lock stay. Every later `secure_context_create` in the process fails on the lock and returns NULL. `KeyStore` models this (`SecureContextFree` keeps `lock`), and the states where a create fails on the held lock are reached in `keystore_restarts`. No property states it, so it has no run.
11. **A restored session cannot encrypt** (`chain.rs` 12, 53). `ChainKey`'s `hmac` is `#[serde(skip)]`, `deserialize_state` leaves it `None`, and the first `next_message_key` panics on `expect`. The spec (§4.9) says the HMACs are rebuilt. Every session the context loads from sled or imports is such a state, so `encrypt_message` and `secure_session_encrypt` never succeed (`restored_chain_panics`).

A panic inside a handle call would drop the handle's `Arc` strong count (`ffi/session.rs` 57-63, 105-110): `Arc::from_raw` takes it, and the unwind skips the `Arc::into_raw` that gives it back. No modelled handle call panics, because a handle's session is the chainless one `create_session` built. Only an OsRng failure in decrypt could panic there, so this is recorded as a latent defect, not as a finding.

The DH branch of `decrypt` takes the receiving chain and installs none (`session.rs` 147), so after one message under a new remote ratchet key every further message under it gets `InvalidState`. `Ratchet`'s `Decrypt` has it (`recv` becomes `FALSE`), but only forged messages open at all (finding 5), so it is listed as a hazard without a run.

## 5. Not modelled

- the mock handshake (`handshake/builder.rs`);
- the pyo3 wrappers, `secure_free_buffer`, `secure_generate_keypair` and the error conversion, which add no state;
- the HKDF helpers, which are pure;
- `build.rs`;
- `SecureRandom::fill_bytes` and `reseed` (`random.rs`; `new` is `Encryptor`'s `RandomNew`): `CryptoHandler::encrypt` builds a fresh generator per call, whose counter starts at 0, so it always reseeds before its one fill. The one a `SecureContext` holds is never filled. The reseed-at-threshold path cannot be reached, and randomness is modelled as fresh values;
- `SessionManager::remove_session`: neither `SecureContext` nor the FFI exposes it, so no caller can reach it;
- `SecureContext::load_identity` (finding 8). `perform_handshake` is modelled only as far as it touches state: its read guard and `get_session` (`PerformHandshake`, then the get steps) and a return (`HandshakeBody`); the builder and the mock message change nothing.

The root key and the skipped-key map are left out of the session state, because no code path uses them after construction.
