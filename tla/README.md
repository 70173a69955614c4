# TLA+ models of the nox particle executor and Kademlia record store

This directory holds TLA+ specifications of the stateful parts of the
repository and of the CLI's code uploader, the TLC configurations that model-check them, and TLAPS proofs.

## The system and its parts

| Part | Source | Status | Module |
|---|---|---|---|
| Plumber: the particle executor core | `src/aquamarine/src/plumber.rs` | modelled | `Plumber`, `MC_Plumber`, `PlumberProofs` |
| Actor, VmPool, Deadline, ParticleDataStore | not in this repository | modelled from `spec.md` §3–4, only as far as the plumber observes them | `Plumber` |
| Kademlia `MemoryStore` | `src/janus/server/src/kademlia/memory_store.rs` | modelled | `MemoryStore`, `MC_MemoryStore`, `MemoryStoreProofs`; abstract `ProviderStore` |
| Router network behaviour | `src/janus/server/src/function/router_behaviour.rs` | not modelled: libp2p wiring, and its state lives in libp2p | – |
| CLI storage uploader | `src/cli/src/storage.rs` | modelled: one call, I/O abstracted to its outcome | `StorageUpload`, `MC_StorageUpload`, `StorageUploadProofs` |
| CLI contract status | `src/cli/src/contract_status/status.rs` | not modelled: a data type and its formatting | – |
| Core-manager types, chain-listener root | `src/crates/...` | not modelled: type definitions and re-exports | – |

**The plumber.** The plumber owns four things:

- the host's actor map;
- one actor map per worker (a *bucket*);
- the host VM pool and one VM pool per worker;
- a queue of events for the node.

An actor runs the particles of one signature, one at a time, on a VM it borrows from its scope's pool.

The plumber is a polled state machine. `ingest` admits a particle, creating the actor if needed. `poll` does the following, in order:

1. Polls the pools.
2. Returns one queued event, if there is one.
3. Otherwise, takes the results of finished AVM calls. It returns their VMs, or recreates lost ones, and collects their next peers.
4. Removes expired idle actors, passing their keys to an asynchronous batch cleanup. At most one cleanup runs at a time, with at most `MAX_CLEANUP_KEYS_SIZE` keys.
5. Starts the next particle of every idle actor while its pool has VMs.
6. Re-ingests the particle for each local next peer.
7. Queues one event per remote effect.

The node also calls `create_worker_pool` and `remove_worker_pool`.

**The store.** The `MemoryStore` keeps records per key and provider records per key. A key's provider list is sorted by XOR distance to the key and capped at `max_providers_per_key`. `provided` is a cache of the local peer's provider records, which the code says "must be kept in sync with providers".

## How the modules correspond to the code

### `Plumber.tla`

**Constants.** `Host`, the `Workers` and the particle signatures `Sigs` are model values. Each signature carries a `Deadline` (ms), may fail verification (`Verified`), and may come from a manager or the host (`Privileged`). `ActiveWorkers` and `Provisioned` describe the workers: active, and with a deal id and a runtime handle.

**State.** Each variable corresponds to a field of the code:

| Variable | Corresponds to |
|---|---|
| `events` | a bag of events (kind, signature, scope) |
| `actors[s]` | the keys of the scope's actor map |
| `buckets` | the keys of `worker_actors` |
| `mailbox[s][k]` | a mailbox length |
| `exec[s][k]` | the actor's AVM future: `idle`, `running`, `done` or `lost` |
| `vm[s][k]` | the VM id the actor holds |
| `peers[s][k]` | the next peers of a finished call |
| `free`, `pending`, `built` | per pool: the free list, the ids being created, and the creations that finished |
| `pooled` | the keys of `worker_vm_pools` |
| `cleanupFuture` | the batch cleanup future: `none`, `created` (built, not yet polled: the future is lazy), `running` or `ready` |
| `started` | the scopes whose current `VmPool` has been polled once; a new pool builds its VMs only after that |
| `woken` | whether the waker registered by `poll` has fired since poll last returned |
| `submitted[s][k]` | how often that actor's key went to cleanup |

`clock` is the wall clock in ms. `NowMs` is what `real_time::now_ms` makes of it: whole seconds, with `Granularity` ms standing for one second.

**Actions.** Each method of the code is one action:

| Action | Models |
|---|---|
| `Ingest` | `Plumber::ingest`, including all its early returns (`Admission`) and `get_or_create_actor`/`create_actor` |
| `CreateWorkerPool`, `RemoveWorkerPool` | the two pool methods |
| `PollEvent` | `poll` up to its early return |
| `PollTick` | the whole rest of `poll` in one step |

`PollTick` covers these parts of the code, each modelled by the operators listed:

- `poll_pools`: `PolledFree`, `PolledPending`.
- `poll_host_actors`/`poll_workers_actors`/`poll_actors`: `Harvested`, `Returned`, `Recreated`, `RemoteEffects`, `LocalEffects`.
- `cleanup`/`cleanup_*_actors`: `CleanupPolled` (a finished future is taken, a created one is polled for the first time), `Eligible`, `CleanupSelection`, `CleanedBuckets`.
- `poll_next_*_messages`: `Starts`, `StartOptions`.
- The local re-ingest, through the same `AdmitX` operators as `Ingest`, and the wake it causes (`LocalWake`).

`Wakes` says which calls of `ingest` reach its `self.wake()`: the accepted and the rejected ones. The expired, unsigned and inactive-worker returns come first and do not wake. `create_worker_pool`, `remove_worker_pool` and the remote events buffered at the end of `poll` do not wake either.

The hash-map iteration order is left open: it decides which actors start and which keys cleanup takes when the limit bites.

Three environment steps resolve the futures the plumber polls:

| Step | Future |
|---|---|
| `AvmComplete` | an AVM call finishes, with next peers or with its VM lost |
| `VmBuilt` | a VM creation finishes |
| `CleanupDone` | the batch cleanup finishes |

`Tick` advances the clock.

**Left out.** The following are left out:

- metrics, tracing and `add_service`/`remove_service`, which change no plumber state;
- particle contents and call results;
- key-pair and particle-token failures in `create_actor`, which are assumed to succeed.

### `MemoryStore.tla`

**State.**

| Variable | Corresponds to |
|---|---|
| `recKeys`, `records[k]` | the record map |
| `providers[k]` | the provider list (`<<>>` when the key is absent) |
| `provided` | the `provided` set |

**Data.**

- A provider record is a key, a peer and a `ver`. The `ver` stands for the expiry and addresses that make two records of one provider unequal.
- XOR distance is a constant `Dist`, assumed injective per key, as XOR is.
- `expand_record_set` lives in `record.rs`, which is not in the repository. It is modelled as a choice of its three outcomes (`Expansions`).

**Actions.** `Put`, `Remove`, `Retain`, `AddProvider` and `RemoveProvider` are one action per method. `AddProvider` has one disjunct per branch: in-place update, insert with excess pop, and push. `retain` is marked `#[allow(dead_code)]` but is public; `Retain` lets its predicate keep any subset of each record set, and leaves every key in the map, as `set.retain` does.

### `ProviderStore.tla` and the refinement

`ProviderStore` says what the provider half of the store promises, without lists or positions. Each key has a set of provider records, one per provider, at most `MaxProvidersPerKey` of them. The set is not "the closest of all providers added and not removed": a provider evicted by a closer one is gone for good, so after a `Remove` the set can hold fewer records than the bound although evicted providers were never removed. The steps are:

- `Add` replaces the record of a provider already stored; otherwise it keeps the `Closest` of the old set and the new record.
- A key without providers takes one only while fewer than `MaxProvidedKeys` keys have providers.
- `Remove` drops a provider's record.

`MemoryStore` instantiates it as `ProviderSet` with `provSet <- [k \in Keys |-> Range(providers[k])]`. `ProviderSetRefinement == ProviderSet!Spec` is checked as a PROPERTY in store_safety, and proved for every value of the constants in `MemoryStoreRefinementProofs` (see Proofs). Under this mapping every `add_provider` and `remove_provider` is a `ProviderStore` step, and `put`, `remove` and `retain` stutter. An `add_provider` of a provider farther than a full list's last entry also stutters. The refinement breaks if the list is trimmed at the bound rather than past it, or if an insert drops the wrong record.

### `StorageUpload.tla`

One CLI call is one step. Its input is:

- the storage byte;
- whether the file, URL or HTTP part fails;
- Swarm's answer: a hex hash, or text that does not parse;
- IPFS's answer: bad JSON, bad base58, or the decoded bytes.

The result is `Ok(hash)`, `Err` or a panic. `From` and `ToU8` are `Storage::from` and `Storage::to_u8` over all 256 bytes.

`UploadCodeToIpfs` models `bytes.as_slice()[2..].into()` by what it does:

- the slice panics below two bytes (`DropPrefix`);
- the H256 conversion (`IntoH256`, fixed-hash's `From<&[u8]>`) copies the first `HashBytes` (32) bytes that remain and pads a shorter rest with zeros; it never panics.

A hash is a sequence of `HashBytes` values from `Bytes`. The CLI exits after its one call, so the run does not check deadlock.

## Runs

| Run | cfg | Expect | What it shows |
|---|---|---|---|
| plumber_safety | `MC_Plumber.cfg` | pass | `TypeOK`, `VmConservation` (each VM id of a live pool is in exactly one of free, pending, held by one actor: spec §3), `CleanupKeyOnce` (no actor's data is cleaned twice) |
| plumber_expired_admitted | `MC_Plumber_expired.cfg` | violation | `ExpiredNeverAdmitted`: an actor is created for a particle that is already expired |
| plumber_pool_recreate | `MC_Plumber_recreate.cfg` | violation | `VmConservation` when `create_worker_pool` may be called twice for a worker |
| plumber_mailbox_served | `MC_Plumber_live.cfg` | pass | `MailboxServed`: polled only when woken, every particle queued for an actor whose pool has been polled is eventually executed or dropped |
| plumber_held_work | `MC_Plumber_retired.cfg` | violation | `HeldWorkDone` (`EventsDelivered /\ ActorsRetired`): a remote event buffered at the end of `poll`, or an idle actor whose deadline passes, waits for ever, because `poll` returns `Pending` without a wake and there is no timer |
| plumber_pool_no_wake | `MC_Plumber_newpool.cfg` | violation | `MailboxServedNewPool`: a particle waiting for a pool that `create_worker_pool` just installed is never executed |
| plumber_actor_leak | `MC_Plumber_leak.cfg` | violation | `ActorsRetiredEverywhere`: even under eager polling, an actor of a worker whose pool was removed mid-call is never removed |
| store_safety | `MC_MemoryStore.cfg` | pass | `ProvidersOrdered` (sorted by distance, one entry per provider, at most `max_providers_per_key`), `StoreBounds`, `LocalProvidersProvided`, `ProviderSetRefinement` (the lists implement `ProviderStore`) |
| store_provided_sync | `MC_MemoryStore_ProvidedInSync.cfg` | violation | `ProvidedInSync`: `provided` does not stay in sync with `providers` |
| store_records_bound | `MC_MemoryStore_RecordsBounded.cfg` | violation | `RecordsBounded`: more records than `max_records` |
| storage_upload | `MC_StorageUpload.cfg` | pass | `StorageByteRoundTrip`: the byte round-trips and only SWARM/IPFS succeed |
| storage_ipfs_result | `MC_StorageUpload_Ipfs.cfg` | violation | `IpfsErrOrDigest`: the IPFS branch ends in a panic (decoded hash under 2 bytes) or in an Ok that is not the multihash's digest, where it should give Err or the digest |

### Findings

The violation runs are findings; `PROJECT.json` gives the trace of each:

1. **Seconds-granularity clock (`plumber.rs:629`).** `now_ms` drops the milliseconds. A particle up to 999 ms past its deadline is therefore admitted and executed.
2. **Pool re-creation (`plumber.rs:190`).** `create_worker_pool` replaces an existing pool. When an actor then returns a VM from the old pool, that id is free twice, or free and pending.
3. **Actor leak after pool removal (`plumber.rs:407`).** After `remove_worker_pool`, an actor that was executing is never polled to completion. It therefore stays executing and is never cleaned up. `spec.md` §4.1 expects such actors to go once they expire.
4. **Stale `provided` records (`memory_store.rs:221`).** An in-place provider update leaves the old record in `provided`. A later `remove_provider` misses it, so stale records accumulate.
5. **`max_records` counts keys (`memory_store.rs:174`).** The limit counts keys, not records. A put to an existing key is never limited.
6. **IPFS hash slicing panics (`storage.rs:148`).** `upload_code_to_ipfs` returns a `Result` but slices the decoded hash from byte 2 without a length check. A hash shorter than 2 bytes panics the CLI instead of returning `Err`.
7. **IPFS hash silently padded or truncated (`storage.rs:148`).** The comment at line 147 says the prefix is dropped to get the hash. The H256 conversion copies at most 32 bytes and zero-pads, so a multihash of any other length gives `Ok` of a hash that is not the digest.
8. **No timer (`plumber.rs:370`).** `poll` returns `Pending` and nothing wakes it when a deadline passes. An idle actor that expires stays, with its data, until unrelated traffic arrives. A cleanup future built at line 522 is not even polled until then. `spec.md` §5 says such an actor is removed "within O(ticks)".
9. **Buffered events without a wake (`plumber.rs:368`).** The remote effects of a tick are buffered and `poll` returns `Pending` without waking. `spec.md` line 63 says the waker is woken whenever new work appears. The next hop of a particle can wait for ever.
10. **`create_worker_pool` does not wake (`plumber.rs:189`).** The new `VmPool` builds its VMs only once polled (`spec.md` line 124). A particle already queued for that worker waits for an unrelated wake.

### Bounds

**`MC_Plumber.cfg`.**

| Element | Size |
|---|---|
| Host | 1 |
| Workers | 2: `w1` active and provisioned, `w2` neither |
| Signatures | 3: `k1` verified and privileged with deadline 3; `k2` verified, deadline 4; `k3` unverified |
| Pools | one VM each |
| Clock | 0..4 ms, with a 2 ms "second" |
| Other bounds | 2 ingests, 1 local hop, 1 cleanup key |

With these bounds the following cases all occur:

- every early return of `ingest`, including an expired particle inside a "second";
- a rejected bucket, and re-ingest into the host and a worker;
- a remote event;
- a lost VM;
- VM exhaustion (two actors, one VM);
- the cleanup limit, and a cleanup in flight across ticks;
- pool creation and removal.

**`MC_Plumber_live.cfg`.** The passing liveness run uses the host alone, two signatures, three external ingests and one local hop, about 7,200 states. Two signatures compete for the host's single VM. A VM can be lost and rebuilt. An actor can expire while another waits. Workers are left out there, because a worker's new pool is never woken (finding 10).

The violation runs `MC_Plumber_retired`, `_newpool` and `_leak` use one active, provisioned worker and one external ingest. That is enough for each counterexample, and it keeps each fair-cycle search under a minute.

**`MC_MemoryStore.cfg`.** Two keys and three peers (`p1` local), with the peers ordered differently for each key, so that inserts land at the front, middle and end of a list. Each key holds at most 2 providers, so the excess pop happens. There are two versions, so updates happen in place. `max_provided_keys = 1` and `max_records = 1`, so both limits are hit.

**`MC_StorageUpload.cfg`.** All 256 storage bytes, `HashBytes = 2`, `Bytes = {0, 1}`, and decoded IPFS hashes of 0 to 4 bytes. Lengths 0 and 1 make the slice panic, 2 and 3 give a zero-padded hash, and 4 gives the digest. A 2-byte hash stands for the 32-byte one: the code's behaviour depends only on the length compared with the prefix plus `HashBytes`.

### Fairness

The executor polls the plumber again only after the waker that `poll` registered has fired, or after `poll` returned an event. `FairSpec` therefore assumes weak fairness of:

- `woken /\ Poll`: a woken plumber is polled. The following set `woken`:
  - `ingest` on its accepted and rejected paths (`Wakes`);
  - the local re-ingest inside a tick (`LocalWake`);
  - an AVM call finishing, a VM being built, a polled cleanup future finishing (spec lines 147 and 154);
  - `PollEvent`, since a `Ready` result makes the caller poll again.
- each `AvmComplete`, each pool's `VmBuilt` and `CleanupDone`: these futures run on runtimes of their own.
- `Tick`: time passes.

There is no timer, so the passing of a deadline wakes nothing. That is what findings 8 to 10 show.

`Ingest`, `CreateWorkerPool` and `RemoveWorkerPool` are the node's choices and get no fairness.

`EagerSpec` assumes weak fairness of `Poll` itself: an executor that polls whenever it can. That is more than the code asks for. It is used only for plumber_actor_leak, to show a leak that no amount of polling cures.

## Proofs (TLAPS)

`PlumberProofs.tla` proves `THEOREM TypeCorrect == Spec => []TypeOK` for every value of the constants that satisfies `ConstantsAssumption`. It rests on one lemma per action (`IngestTypeOK`, ..., `PollTickTypeOK`) and on lemmas about the operators:

- `AdmitTypes`: the four `AdmitX` preserve their types;
- `HarvestTypes`, `CleanedTypes`, `StartedFacts`: an actor that is started had a non-empty mailbox and got a VM id, so the mailbox decrement stays in `Nat`; the cleanup future polled in a tick is in one of its four states;
- `ScopeCount`: a subset of the finite `Scopes` has a natural cardinality.

`TypeOK` is inductive by itself.

`MemoryStoreProofs.tla` proves, for every value of the constants that satisfies `StoreAssumption`:

- `THEOREM ProvidersOrderedInvariant == Spec => []ProvidersOrdered`;
- `THEOREM StoreTypeCorrect == Spec => []TypeOK`.

The store_safety run checks `ProvidersOrdered` on one small instance; the theorem covers every key set, peer set, injective distance and limit.

`ProvidersOrdered` is not inductive by itself: the list operations need to know that every list holds provider records. The inductive invariant is `IInv == TypeOK /\ ProvidersOrdered`. The argument has three layers:

1. Lemmas about the `Vec` operations, from `SequenceTheorems`. `VecInsertFacts`/`VecInsertAt`, `VecRemoveFacts` and `VecPopFacts` state what `insert`, `remove` and `pop` build, element by element.
2. Lemmas about the two searches. `FirstOfLeast` shows that `FirstOf` picks the least index; it uses the well-foundedness of `<` on `Nat`. `ProviderPosFacts` and `CloserPosFacts` then say what `position` returns.
3. One lemma per branch of the code, each showing that a sorted list stays sorted:
   - `UpdateSorted`: the in-place update keeps the provider, and so the distance.
   - `InsertSorted`: every provider before the insertion point is closer, because distances are injective (`DistFacts`), and every one after it is farther. The pop then drops only the last element.
   - `PushSorted`: a push happens only when no stored provider is farther and there is room.
   - `RemoveSorted`: a removal keeps the relative order.

`ReplaceList` turns any of these into `IInv'`. `NextIInv` has one case per disjunct of `Next`.

`StorageUploadProofs.tla` proves `THEOREM ByteRoundTrip == Spec => []StorageByteRoundTrip` for every `HashBytes`, `Bytes` and `MaxDecoded` that satisfy `StorageAssumption`. The inductive invariant `IInv` says that `result` is `None` or the outcome `UploadToStorage(call)` of the recorded call. It rests on two lemmas:

- `FromToU8`: `to_u8` undoes `from` on every byte;
- `OkOnlyKnown`: only bytes 0 and 1 can give an Ok.

`THEOREM IpfsDigestTailIgnored` states what the IPFS branch returns when the decoded hash has at least `HashBytes + 2` bytes. It returns `Ok` of bytes 3 to `HashBytes + 2`, and any bytes appended to the decoded hash leave that result unchanged. So a longer multihash is truncated without an error. `SliceAt` and `ConcatAt` give the elements of the slice and of a concatenation, from `SubSeqProperties` and `ConcatProperties` of `SequenceTheorems`. The run storage_ipfs_result shows the shorter lengths.

### Further invariants of the store

All of these hold for every value of the constants that satisfies `StoreAssumption`. Each inductive invariant below was first checked by TLC as an invariant of the store_safety or plumber_safety instance, and only then proved.

`MemoryStoreBoundsProofs.tla` proves `THEOREM StoreBoundsInvariant == Spec => []StoreBounds`.

- The inductive invariant `BInv` adds `IInv` and the finiteness of `recKeys` and `ProviderKeys`; finiteness is what makes the cardinalities meaningful.
- `ProviderKeysAdd` and `ProviderKeysShrink` relate `ProviderKeys` before and after a step:
  - `add_provider` adds at most its own key, and only when the guard allows it;
  - `remove_provider` can only remove a key.
- `put` adds a key only under its `max_records` check.

`MemoryStoreProvidedProofs.tla` proves `THEOREM LocalProvidersProvidedInvariant == Spec => []LocalProvidersProvided`.

- The inductive invariant is `LInv == IInv /\ LocalProvidersProvided`.
- Sortedness is needed through `SortedUnique`: a sorted list holds each provider at most once, because distances are injective.
- So the record that the excess pop (`InsertCovered`) or `remove_provider` takes out of `provided` never stands for a local record that is still in the list.

`MemoryStoreRefinementProofs.tla` proves `THEOREM ProviderSetRefinementHolds == Spec => ProviderSetRefinement`: `MemoryStore` implements `ProviderStore` under the mapping `PS == [k \in Keys |-> Range(providers[k])]`. The proof is step by step:

- `InitRefines`: the empty store maps to the empty `ProviderStore`.
- `NextRefines` has one case per disjunct of `Next`:
  - `put`, `remove` and `retain` leave the lists alone and map to stutters (`ListsUnchanged`).
  - `UpdateRefines`, `PushRefines` and `InsertRefines` show that each branch of `add_provider` is an `Add`.
  - `RemoveRefines` shows that `remove_provider` is a `Remove`.
- The invariant used is `IInv` from `MemoryStoreProofs`.

The key lemmas concern `Closest`:

- `CloserCount`: in a list ordered strictly by distance, the j-th record has exactly j - 1 records of the list closer to the key. The closer records are the image of `1..j-1`, an injective image, and `FS_Bijection`/`FS_Interval` from `FiniteSetTheorems` count it (`ImageCard`).
- `ClosestOrdered`: `Closest` of the records of an ordered list is its first `MaxProvidersPerKey` records. `ClosestAll` and `ClosestPop` specialise this to the push, the insert without overflow, and the insert followed by the pop of the last record.
- `KeysWithProvidersMap`: `ProviderStore`'s guard on `MaxProvidedKeys` is `add_provider`'s, since a list holds no record exactly when it is empty.

`InsertPairOrdered` in `MemoryStoreProofs` states that any two records of the list that `Vec::insert` builds are in distance order. `InsertOrdered` collects this, with the length and the element formula, for `InsertSorted`. The refinement cites the pair lemma directly.

### Further invariants of the plumber

`PlumberCleanupProofs.tla` proves `THEOREM CleanupKeyOnceInvariant == Spec => []CleanupKeyOnce`.

- The inductive invariant `KInv` adds `SubmittedRetired`: a submitted cleanup key belongs to an actor that is gone from its map and whose particle is expired.
- `NowMsMonotone` shows that `now_ms` (the clock rounded down to the granularity) never decreases, so an expired particle stays expired. This rests on the model's clock, which only moves forward. `real_time::now_ms` reads the wall clock (`Utc::now`), which NTP or an operator can step back. After such a step, an expired and cleaned-up particle can look alive again, so the theorem covers only a monotone clock.
- `ExpiredNotAdmitted` shows that neither ingest nor a local next peer admits an expired particle again (the admission check returns "expired" first).
- `PollTickKInv` covers the poll tick, whatever VMs `poll_next` hands out. Cleanup takes only actors that are in the map and expired (`EligibleFacts`), and removes them in the same poll.

`PlumberPoolProofs.tla` proves `THEOREM VmConservationInvariant == ASSUME ~PoolRecreation PROVE Spec => []VmConservation`. The hypothesis is needed: the violation run plumber_pool_recreate shows `VmConservation` failing when `create_worker_pool` is called again for a worker whose actor holds a VM. The inductive invariant `PoolInv` is the conjunction of:

- `TypeOK`;
- `pooled ⊆ everPooled`;
- no actor of a never-pooled worker holds a VM;
- `built[s] ⊆ pending[s]`;
- the four conjuncts of `VmConservation` per pool (`Conserved`).

The poll tick is the hard step. `PoolAfterTick` writes down the pool's free, pending and busy sets after a tick in set algebra:

- VMs handed to started actors leave `free`;
- VMs of actors that finished return to `free`, or go to `pending` when a VM was lost;
- built VMs move from `pending` to `free`.

`ConservedStep` shows that this algebra keeps the three sets disjoint and their union equal to the pool's VMs.

### What stays with TLC

- Liveness (`MailboxServed`) and anything about `ENABLED`: TLAPS's backends handle neither under fairness.
- `HeldWorkDone`, `ActorsRetiredEverywhere`, `MailboxServedNewPool`, `ProvidedInSync`, `RecordsBounded`, `IpfsErrOrDigest` and `ExpiredNeverAdmitted`: the model-checked runs show each of these violated by the code (see Findings), so there is nothing to prove.

## Not modelled

- `router_behaviour.rs` only wires libp2p's `NetworkBehaviour` to the router. Its state, connections and dial results live in libp2p, which is not in this repository.
- `status.rs`, core-manager `types.rs` and chain-listener `lib.rs` hold data types, formatting and re-exports, with no operation that changes state.
- `add_service`/`remove_service` forward to the builtins and change no plumber state.
- The metrics of `poll_actors` and `meter` are left out.

## Plan for later work

1. An abstract specification of the plumber (one actor per signature, particles run to completion one at a time), with `Plumber` shown to refine it.
2. Prove `VmConservation` for a model in which pool recreation waits for the old pool's actors, if the code gains such a guard.
