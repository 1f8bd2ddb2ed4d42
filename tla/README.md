# Formal models of the pool loader / state synchronisation engine

This directory holds TLA+ models of `src/loom-rewrite/step1-pool-loader-v2`, with
TLC configurations that model-check them and TLAPS proofs of their central
invariant. `PROJECT.json` maps every modelled definition to the source lines it
translates. It also lists the runs, the mutants that show each checked property
can fail, the findings and the hazards.

## 1. The system

The program keeps a local copy of part of a remote chain's contract storage. It
tells consumers which tracked pools each new block touched. Its parts are as follows.

| Part | Source | What it does |
|---|---|---|
| LocalDB | `market_state.rs` 9-89 | Storage, balance and nonce maps; `apply_state_update(_vec)` overlays deltas |
| Diff model | `state_update.rs` | `AccountState` (optional fields, sparse storage), `StateUpdate`, `StateUpdateVec`, `BlockStateUpdate`, `merge_state_updates` |
| MarketState | `market_state.rs` 91-181 | LocalDB plus the pool registry and `current_block`; `get_affected_pools(_vec)` |
| Bus | `messages.rs`, `broadcast::channel(1000)` in `main.rs` | One tokio broadcast channel shared by every actor |
| BlockStateActor | `actors/block_state_actor.rs` | Polls the block number, then for each new block fetches the diff, applies it under the write lock and publishes `BlockStateUpdate` |
| StateUpdateProcessor | `actors/state_update_processor.rs` | Receives updates, recomputes the affected pools, keeps statistics, stops on `Stop` |
| HistoryPoolLoaderActor | `actors/history_loader_actor.rs` | Scans logs backwards in batches and sends `FetchPools` |
| PoolLoaderActor | `actors/pool_loader_actor.rs` | Dedups addresses, spawns one fetch task per new address behind a semaphore, sends `PoolLoaded` |
| Pool loaders | `pool_loaders.rs`, `uniswap_v*_loader.rs`, `pool_loader_trait.rs` | Decode logs into pool ids; fetch pool data by contract calls |
| main | `main.rs` | Starts the actors in order, runs the collector task (`PoolLoaded` → `add_pool`), waits for the history loader, sleeps, sends `Stop`, joins |

The parts interact through two shared things:

- the single `Arc<RwLock<MarketState>>`;
- the broadcast bus.

No critical section on MarketState contains an `.await`, so each one is a single
atomic step of the models. Tasks interleave between those steps:

- between BlockStateActor's apply and its publish;
- between a `recv` and the handling of what it returned;
- between a task's permit acquisition, its fetch and its send.

## 2. Modules

| Module | Models | State | Actions |
|---|---|---|---|
| `LocalDB` | LocalDB and the diff model, as pure operators | none (operators) | `ApplyStateUpdate`, `ApplyStateUpdateVec` (a recursive function), `MergeStateUpdates` (a fold), `GetAffectedPools(Vec)` |
| `MarketState` | MarketState driven by an environment calling its mutating methods in any order | `db`, `pools`, `current_block`, ghost `applied` | `AddPool`, `ApplyUpdate`, `ApplyUpdateVec`, `UpdateBlock` |
| `Bus` | tokio broadcast channel (spec-modelled: tokio is not code of this repository) | `sent` (the whole send history), `rx` (each receiver's cursor), `subs` (live receivers) | `Subscribe`, `Send`, `RecvStep`, with `IsLagged`, `Delivered` |
| `Pipeline` | the whole running system of `main.rs`: all five tasks, every fetch task, the shared MarketState and the bus | see below | one action per handler arm or step (below) |
| `PipelineProofs` | TLAPS proofs of the block cursor and processor statistics invariants | | |
| `MarketWatermark` | the abstract promise of Market State (spec 3, 4.3, 4.4): a cache changed only by whole DiffBatches, each advancing the watermark; a registry that only grows | `cache`, `registry`, `watermark` | `Register`, `ApplyBatch(d)` |
| `MarketRefinement` | the refinement mapping from `Pipeline` to `MarketWatermark`, its TLAPS proof, and the proof that every published update names the watermark's block | | |
| `LoaderProofs` | TLAPS proofs of the pool loader's deduplication and of the collector registering only loaded pools | | |
| `LocalDBProofs` | TLAPS lemmas on LocalDB: what the recursive `ApplyStateUpdateVec` and `MergeStateUpdates` compute, their types, and that merging then applying equals applying in order | | |
| `MarketStateProofs` | TLAPS proofs of MarketState's type, last-writer-wins and merge invariants | | |
| `PipelineTypeProofs` | TLAPS proof of the pipeline's type invariant | | |
| `MC_MarketState`, `MC_Pipeline` | model values and small constant sets for TLC; they extend `MarketStateProofs`, and `MarketRefinement`, `LoaderProofs` and `PipelineTypeProofs`, so every run evaluates the assumptions and definitions the proofs use | | |

How the state and actions of `Pipeline` correspond to the code:

- **HistoryPoolLoaderActor**
  - `histPc`, `histBlock` (its local `current_block`) and `batchIdx`.
  - `HistStart` covers the start block (lines 54-58), and `HistStartFailed` the `get_block_number()?` error path.
  - `HistGenesis` is the genesis test (64-67).
  - `HistScan(P)` is one batch plus `process_logs`. `P` is the deduplicated set of pools identified in the logs. It is empty when `get_logs` fails or nothing is recognised. A non-empty `P` is sent as `FetchPools`. A send error makes `process_logs` return `Err` through `?` (line 126), which `run_worker` only logs (lines 90-92), so the scan continues.
  - `HistFinish` is the end of the loop.
- **PoolLoaderActor**
  - `plPc`, `processed` (the keys of `processed_pools`) and `taskPc[a]` (none / waiting / fetching / loaded / failed).
  - `PlRecvFetch` is the `FetchPools` arm. Its insert-as-dedup-test is line 71, and it spawns one task per new address.
  - `PlRecvStop` and `PlSkip` are the other arms.
  - The spawned task is `TaskAcquire` (a permit of `Semaphore::new(max_concurrent)`), then `TaskLoaded` (send `PoolLoaded`, ignoring errors) or `TaskFailed`.
- **BlockStateActor**
  - `bsaPc`, `last_processed_block`, `latest_block` and `pending` (the update being sent).
  - `BsaPoll` reads the height and applies the first-run rule `last_processed_block == 0` (56-73). A failed `get_block_number` only sleeps and is a stutter.
  - `BsaFetchFailed` covers every error of `process_block` (block not found, RPC or `fetch_state_update` error, lines 109-120). The error is logged and the cursor still advances (93-97). The ghost set `gaps` records the block.
  - `BsaEmptyBlock` is the early return on an empty vector (122-124), taken before `update_block`. The cursor advances (line 91).
  - `BsaApply(d)` is the write-locked apply, `update_block` and affected pools (127-134).
  - `BsaPublish` is the send and the cursor advance.
  - `BsaSleep` is the end of the while loop and the sleep.
- **StateUpdateProcessor**
  - `procPc` and `stats`.
  - `ProcRecvUpdate` is the arm plus `process_state_update`: a read-locked recomputation, the early return when nothing is affected, and the stats update.
  - `ProcRecvStop` and `ProcSkip` (other messages, `Lagged`) are the other arms.
- **Collector** (`main.rs` 120-159)
  - `collPc` and `collected`.
  - `CollPoolLoaded` does `add_pool` under the write lock.
  - `CollExit` handles `Stop` and, as line 142 does, any `Err` including `Lagged`.
  - `CollIgnore` handles everything else.
- **main**
  - `mainPc` and `joinIdx`.
  - Start-up order: the pool loader subscribes and starts, then the history loader starts (both in `Init`). Then come `MainSpawnBlockState`, `MainSpawnProcessor` (subscribe, spawn) and `MainSpawnCollector` (subscribe, spawn).
  - `MainAwaitHistory` is `history_loader_handle.await??`.
  - `MainStop` is the 10-second sleep then `send(Stop)?`.
  - `MainJoin` is the four joins in order.
  - When main returns, the runtime is dropped and every action is disabled (`Running`). `Terminated` is the stutter of the exited process.
- **Environment**
  - `ChainGrows`: the remote chain produces blocks up to `MaxHeight`.
  - `fetch_state_update` is a stub returning an empty vector (block_state_actor.rs 156-175). The model lets it return any vector in `Diffs`, as the intended `debug_traceBlock` call would. The empty vector is always included, which is what the stub returns.
- **Ghost variables** record history that no code variable keeps: `startHeight`, `attempted`, `procSeen`, `loadedOk`, `scanFrom`, `scanned` and `gaps`.

`MarketWatermark` is written from the spec, not from the code. It takes the cache's initial value and the apply operation as constant parameters, so it says nothing about how the cache is represented. `MarketRefinement` instantiates it with `cache <- db`, `registry <- pools`, `watermark <- current_block`, `EmptyCache <- EmptyDB` and `Apply <- ApplyStateUpdateVec`.

Data abstraction:

- Addresses, slots and values are model values.
- `None` and an absent map entry are both `NoValue`.
- PoolData and PoolId are reduced to the pool address. PoolClass is not distinguished.
- The `code` field of a delta is dropped, because LocalDB never stores it.
- Message payloads are records with the fields a property reads. `BlockStateUpdate` carries the affected set the publisher computed as a ghost field.

## 3. Runs

| Run | cfg | Expect | Checks | Shows |
|---|---|---|---|---|
| marketstate | `MC_MarketState.cfg` | pass | `TypeOK`, `CacheIsLastWriterWins` | After any sequence of apply calls, the cache is the last-writer-wins overlay of all deltas. Absent fields never clobber, and unknown slots stay absent, never zero. |
| marketstate_merge | `MC_MarketState_merge.cfg` | pass | `MergeMatchesSequentialApply` | `merge_state_updates` of two updates equals applying them in order, from every reachable cache |
| pipeline | `MC_Pipeline.cfg` | pass | `TypeOK`, `NoBlockSkippedOrRepeated`, `ProcessorStatsExact`, `MarketRefinesAbstract`, `PublishedAtWatermark` | The cursor visits every block once, in order. The processor's stats match exactly the updates it got, despite lag on a 2-slot bus and a MarketState that changes between publish and consume. On `db`, `pools` and `current_block`, the whole pipeline is a behaviour of `MarketWatermark`: only `BsaApply` touches the cache, and it moves the watermark forward in the same step. Only the collector's `add_pool` touches the registry. Every `BlockStateUpdate` is sent while `current_block` is its block: nothing moves the watermark between `update_block` and the publish. |
| pipeline_stop | `MC_Pipeline_stop.cfg` | pass | `StopReachesProcessor` | With a bus large enough, `Stop` always stops the processor |
| pipeline_loader | `MC_Pipeline_loader.cfg` | pass | `TasksComplete`, `DiscoveredPoolsDispatched`, `LoadedOnce`, `RegisteredPoolsLoaded` | With one permit and two pools discovered at once, every fetch task ends. Every pool a `FetchPools` announces gets a fetch task, because main awaits the history loader before it sends `Stop` and the ring is large enough for one run. Two history batches both discover the pools, and still no pool is announced loaded twice; a pool whose fetch fails never reaches the registry. |
| pipeline_genesis | `MC_Pipeline_genesis.cfg` | violation | `NoBlockSkippedOrRepeated` | Started at height 0, block 1 is skipped (finding 1) |
| pipeline_shutdown | `MC_Pipeline_shutdown.cfg` | violation | `MainTerminates` | main hangs joining BlockStateActor (finding 2) |
| pipeline_registration | `MC_Pipeline_registration.cfg` | violation | `LoadedPoolsRegistered` | A loaded pool can miss the registry (finding 3) |
| pipeline_stoplag | `MC_Pipeline_stoplag.cfg` | violation | `StopReachesProcessor` | `Stop` lost to overflow (finding 4) |
| pipeline_retry | `MC_Pipeline_retry.cfg` | violation | `FailedPoolRetried` | A failed pool is never retried (finding 5) |
| pipeline_scan | `MC_Pipeline_scan.cfg` | violation | `HistoryScanComplete` | Blocks below the last full batch are never scanned (finding 6) |
| pipeline_watermark | `MC_Pipeline_watermark.cfg` | violation | `WatermarkAtCursor` | After an empty block is handled, the watermark still names an older block (finding 7) |

Findings:

1. `block_state_actor.rs:70` uses `last_processed_block == 0` as the first-run test. When the chain is at height 0 at start, the next poll resynchronises to the latest height, and the blocks in between are never processed.
2. BlockStateActor never reads the bus, so it never sees `Stop`. `block_state_handle.await??` (`main.rs:174`) never returns.
3. A pool's `PoolLoaded` can be sent at any of these times, and is then never added to MarketState:
   - before the collector subscribes (`main.rs:120`, after the loaders started);
   - after the collector left on `Stop` (sent after a fixed sleep while tasks still run, `main.rs:167-170`);
   - after the collector broke on `Lagged` (`Err(_) => break`, `main.rs:142`).
4. `Stop` shares the bounded ring with data. If it is overwritten before the processor reads it, the processor logs `Lagged` and runs on.
5. `processed_pools` is written before the fetch and never cleared on failure (`pool_loader_actor.rs:71`). The spec (4.7, 7) says a failed load is eligible for retry by a later discovery pass.
6. `current_block < block_batch_size + 1` (`history_loader_actor.rs:64`) stops before a final partial batch. Blocks `1 .. start mod batch_size` are never scanned, and none of `1 .. start-1` when start ≤ batch size, although the log says the scan reached genesis.
7. `process_block` returns early on an empty `StateUpdateVec` (`block_state_actor.rs:122`), before `update_block`, so `current_block` lags the cursor. `fetch_state_update` is a stub that always returns an empty vector, so `current_block` never moves at all. Spec 4.4 says Applying calls `applyBatch` and then `advanceWatermark`. The glossary defines the watermark as the highest block whose DiffBatch has been fully applied, and an empty batch is trivially fully applied. Blocks skipped on a fetch error are gaps and are not counted by the property.

### Bounds and why they are enough

- **Two addresses, one slot, one value (Pipeline).** Two addresses are needed to have a touched address that is not a pool, and a block with two transactions on different addresses. The diffs `<<>>`, `<<Touch(a1)>>` and `<<Touch(a2),Touch(a1)>>` give empty blocks (the stub), blocks affecting a pool, and blocks that do not.
- **MaxHeight 3 with start height 1.** BlockStateActor handles two blocks, possibly across two polls, which exercises the resync rule.
- **Bus capacity 2 in `pipeline`.** Lag happens with a handful of messages, so the lag paths of every receiver fire.
- **Bus capacity 8 in the liveness runs.** No lag, so the property is about the protocol and not overflow. `pipeline_stoplag` uses capacity 2 to show the overflow case.
- **History loader, BatchSize 1.** In `pipeline`, StartBlock 2 with 3 batches gives one scanned batch and then the genesis break (and the third batch is what an unguarded subtraction would take below 0). In `pipeline_loader`, StartBlock 0 (read from the chain at height 3, failure possible) and two batches end through `HistFinish`; two batches are what it takes for the same pool to be discovered twice, so the `processed_pools` test is exercised. Every branch of the actor fires in some passing run.
- **MaxConcurrent 1 and up to two pools per batch.** Tasks really queue on the semaphore.
- **MarketState: block numbers up to `MaxBlock`.** `update_block` takes a `u64` in the code. `MaxBlock` is a model bound, so the `TypeOK` conjunct `current_block \in 0..MaxBlock` and its off-by-one `update_block` mutant say something only about the model, not about the code.
- **MarketState: two addresses, two slots, two values.** Four deltas that set or leave out each field. Sequences of up to 3 updates, because order effects need two writes to one key plus one other.

Every passing run finishes in under a minute (the largest, `pipeline_loader`, checks 116,543 distinct states). Between them, the passing runs fire every action.

### Fairness

The liveness properties assume weak fairness of each actor, of each fetch task, and of the chain. This is justified as follows:

- tokio's scheduler polls every ready task again (it is work-conserving);
- its semaphore grants permits in FIFO order, so a waiting task is not passed over forever;
- the chain keeps producing blocks.

No strong fairness is needed. A waiting task's permit is taken only by tasks that end, and there are finitely many of them.

## 4. Proofs

Every safety property a passing run checks is also a TLAPS theorem, proved for all values of the constants:

- `PipelineProofs.tla` proves two theorems.
- `MarketRefinement.tla` proves two more: the refinement and `WatermarkBeforePublish`.
- `LoaderProofs.tla` proves two about the pool loader.
- `PipelineTypeProofs.tla` proves the pipeline's `TypeOK`.
- `LocalDBProofs.tla` and `MarketStateProofs.tla` prove what the cache computes.

`MC_Pipeline` and `MC_MarketState` extend these modules, so TLC parses and evaluates their definitions. The inductive invariants `CursorInv`, `StatsInv`, `MarketInv` and `LoaderInv` were checked with TLC as invariants of the `pipeline` and `pipeline_loader` instances before they were proved. They are not kept as runs, because the theorems establish them for every instance.

### Block cursor

```
THEOREM CursorCorrect ==
  ASSUME 0 \notin StartHeights
  PROVE  Spec => []NoBlockSkippedOrRepeated
```

`NoBlockSkippedOrRepeated` says BlockStateActor handed process_block exactly the blocks `startHeight+1, startHeight+2, ...`, in order. It also says the cursor is the last of them, or one behind while an update is being sent. The assumption is the one finding 1 shows necessary.

The invariant is not inductive by itself. Its strengthening `CursorInv` adds:

- the types of the cursor variables;
- that while an update is being sent, its block is the one after the cursor;
- that before the first poll nothing was attempted and the cursor is 0;
- that after the first poll the start height is at least 1 (from the assumption), which makes the `== 0` sentinel test false for good;
- that BlockStateActor is unspawned until main spawns it.

The proof shows `Init => CursorInv`, then that every action preserves it (one step per action), then `CursorInv => NoBlockSkippedOrRepeated`. The lemma `AppendConsecutive` gives the sequence fact used by both cursor-advancing actions.

### Processor statistics

```
THEOREM StatsCorrect == Spec => []ProcessorStatsExact
```

`ProcessorStatsExact` says that `blocks_processed` is the number of BlockStateUpdates the processor received, and that `last_block` is the block of the newest one. It also says they arrived in increasing block order, and that each one's published affected set is still inside the set recomputed against the current MarketState. So the processor's "no affected pools" early return is never taken. The theorem has no assumption on the start height.

The strengthening `StatsInv` describes the bus contents. `BlockIdx` is the set of positions of BlockStateUpdates in `sent`. `StatsInv` says:

- `PendingOk`: while publishing, the pending update is the block after the cursor, and it is *justified* (`Justified`): its affected set is non-empty and inside `GetAffectedPoolsVec(pools, diff)`.
- `SentOk`: every BlockStateUpdate on the channel is justified and has a block in `1..cursor`.
- `SentOrdered`: their blocks increase with their positions.
- `UnreadAbove`: the ones at or after the processor's read position are above the last block it read. Under the broadcast semantics, a Lagged skip only moves the read position forward, so this survives lag.
- What the processor has read is justified (`SeenOk`), and the last block it read is at most the cursor. Together with the types of `sent`, `rx` and `procSeen`, this gives `ProcessorStatsExact`.

Two lemmas carry the data facts:

- `AffectedInPools`: `get_affected_pools_vec` returns registered pools.
- `JustifiedMono`: adding pools, as the collector's `add_pool` does, keeps a justified update justified. This is exactly the stale-state hazard: the processor recomputes against a later, larger registry.

The step proof first proves two generic cases:

- `<2>u`: the channel only grows at its end by non-block messages, and the cursor moves forward.
- `<2>a`: a `Send` of a non-block message.

Most actions reduce to these cases through `Quiet`: the channel is unchanged, pools only grow, the processor's position moves forward within bounds, and the cursor does not move back. `BsaApply`, `BsaPublish` and `ProcRecvUpdate` get their own steps:

- `BsaApply` creates a justified pending update.
- `BsaPublish` appends it above every block already sent.
- `ProcRecvUpdate` reads an update above the last one read, with a non-empty recomputed affected set.

### Refinement of Market State

```
THEOREM Refinement == Spec => MarketRefinesAbstract
```

`MarketRefinesAbstract` is `MW!MWSpec`, where `MW` is `MarketWatermark` instantiated with the mapping of section 2. The proof in `MarketRefinement.tla` has three parts.

- **Initial states.** `Init` maps to `MWInit`: an empty cache, no pools and watermark 0.
- **Steps.** Every step maps to a step of `MarketWatermark` or to a stutter.
  - `BsaApply(d)` maps to `ApplyBatch(d)`.
  - `CollPoolLoaded` maps to `Register`.
  - Every other action leaves `db`, `pools` and `current_block` unchanged (lemma `OthersQuiet`).
- **The invariant behind the steps.** `BsaApply` sets `current_block` to `last_processed_block + 1`. It is a forward move only if the watermark is never ahead of the cursor. That fact is the lemma `MarketInvariant == Spec => []MarketInv`, where `MarketInv` holds when:
  - `current_block <= last_processed_block`, plus 1 while the update awaits publication;
  - a pending update names block `last_processed_block + 1`;
  - main's spawn of BlockStateActor finds it unspawned.

  The last conjunct is what makes `MarketInv` inductive: without it, `MainSpawnBlockState` could move the actor from "publish" to "poll".

The theorem has no assumption on the start height. The `pipeline` run checks the same property on the small instance.

### Watermark at publication

```
THEOREM WatermarkBeforePublish == Spec => PublishedAtWatermark
```

`PublishedAtWatermark` is an action property: a step that appends a `BlockStateUpdate` to the bus appends one whose block is `current_block`. In the code, `process_block` calls `update_block` under the write lock and publishes after the lock is dropped (`block_state_actor.rs:127-144`); a watermark moved in between would publish an update for a block MarketState is no longer at. The proof is a lemma `Inv /\ [Next]_vars => [A]_vars` with one case per action that can send. `BsaPublish` sends `pending`, and `MarketInv` says that while the actor is in "publish" the watermark is the pending block. `HistScan`, `TaskLoaded` and `MainStop` send other kinds. Every other action leaves `sent` unchanged (lemma `SendAppends` gives the shape of a `Send`). `StatsInv` supplies the typing of `sent`.

### Pool loader

```
THEOREM LoadedAtMostOnce == Spec => []LoadedOnce
THEOREM RegisteredOnlyLoaded == Spec => []RegisteredPoolsLoaded
```

`LoadedOnce`: no pool has two `PoolLoaded` messages on the bus, however many history batches rediscover it. `RegisteredPoolsLoaded`: every pool in MarketState's registry had a fetch task that ended "loaded". Both follow from `LoaderInv`, whose conjuncts are:

- `taskPc` is a function into the five task states;
- every address with a task is in `processed_pools`. This is what makes deduplication inductive: `PlRecvFetch` spawns tasks only for addresses not yet in the set (`pool_loader_actor.rs:71`), so it never spawns a second task for an address;
- every `PoolLoaded` on the bus is for an address whose task is "loaded". `TaskLoaded` is the only sender, and it moves the task out of "fetching", so it cannot send twice;
- `LoadedOnce` itself and `RegisteredPoolsLoaded`;
- the collector's receive position is at least 1. The collector registers the pool of `sent[rx["collector"]]`; this conjunct and the previous ones give that the message is a `PoolLoaded` of a loaded task.

The step proof has generic cases (actions that leave `sent`, `taskPc`, `processed_pools` and `pools` alone, and sends of other kinds) and one case per loader, task and collector action.

### The cache: induction without an operator parameter

```
THEOREM MergeIsSequentialApply ==            \* LocalDBProofs
  ASSUME NEW db \in DB, NEW v \in Seq(StateUpdate)
  PROVE  ApplyStateUpdate(db, MergeStateUpdates(v)) = ApplyStateUpdateVec(db, v)
THEOREM TypeCorrect  == Spec => []TypeOK                          \* MarketStateProofs
THEOREM CacheCorrect == Spec => []CacheIsLastWriterWins
THEOREM MergeCorrect == Spec => []MergeMatchesSequentialApply
```

`ApplyStateUpdateVec` and `MergeStateUpdates` are recursive functions (`step[i \in 0..Len(v)]`) defined by `CHOOSE`. The library's induction theorems take the property as an operator parameter, which the installed provers cannot instantiate. The proofs use first-order induction instead.

- `LeastNat` states that a non-empty set of naturals has a least element. It follows from `WFMin` and `NatLessThanWellFounded`.
- `StepsExist` shows that a function satisfying the recursion exists for every prefix length. The argument takes the least length without one and extends the solution for the length before it. `VecStepsDef` concludes that the `CHOOSE` satisfies the recursion.
- `MergeStepsExist` and `MergeStepsDef` do the same for the fold of `merge_state_updates`.

Each theorem about what a fold computes for every vector is then a least counterexample that cannot exist.

- **`MergeIsSequentialApply`** rests on two lemmas. `ApplyMergeInto` says that applying `MergeInto(m, u)` is applying `m` then `u`; storage is compared slot by slot. `ApplyEmptyUpdate` says that applying the empty update changes nothing. The theorem holds for vectors of any length, while the `marketstate_merge` run checks pairs.
- **`CacheCorrect`** compares the cache with `RefDB(applied)`: every slot, balance and nonce is the value of the last write in the history of applied updates. The lemmas are:
  - `LastOfAppend`: appending an update changes the last write to the update's value if it writes the field, and leaves it unchanged otherwise. This is one step of `ApplyStateUpdate`.
  - `RefDBAppend` lifts that to the whole record.
  - `RefDBVec` does the same for a vector, by induction: `ApplyStateUpdateVec(RefDB(h), v) = RefDB(h \o v)`.

  The invariant is inductive as it stands, given `TypeCorrect`.
- **`MergeCorrect`** follows from `MergeIsSequentialApply` and `TypeCorrect`.

### Type of the pipeline

```
THEOREM TypeCorrectness == Spec => []TypeOK                       \* PipelineTypeProofs
```

`TypeOK` alone is not inductive. The strengthening `TypeInv` adds four facts:

- **The registry `pools` is finite.** The processor adds `Cardinality(affected)` to `total_affected_pools`, and a cardinality is a natural only for a finite set. `FS_AddElement` carries finiteness through `add_pool`.
- **`latest_block <= chain`.** Needed for the next fact.
- **`last_processed_block <= latest_block`.** `BsaFetchFailed`, `BsaEmptyBlock` and `BsaApply` move the cursor to `last_processed_block + 1`. That is a height (`<= MaxHeight`) only because the loop runs while the cursor is below the latest block read, which is at most the chain's height.
- **While publishing, `pending` is a `BlockStateUpdate` whose block is at most `latest_block`.** `BsaPublish` sets the cursor to that block, so it must be a height. The initial `pending` is a `Stop`, which has no block.

TLC checked `TypeInv` as an invariant of the `pipeline`, `pipeline_loader` and `pipeline_stop` instances before it was proved. The proof has one step per action. Three lemmas carry the shared parts:

- `RecvKeepsPositions`: a receive keeps every cursor within `1..Len(sent)+1`, because a lagged receiver resumes at `Oldest`.
- `SendKeepsChannel`: a send keeps the channel's type.
- `AffectedFinite`: an affected set is a finite subset of the registry.

`BsaApply` uses `ApplyStateUpdateVecType` from `LocalDBProofs` for the type of `db`.

### What is only model-checked, and why

- **Liveness** (`StopReachesProcessor`, `TasksComplete`, `DiscoveredPoolsDispatched`, and the violated `MainTerminates` and `LoadedPoolsRegistered`). These need fairness and ENABLED reasoning, which TLAPS does not support here.
- **The violated properties** (the violation runs). They are false, and TLC's counterexamples are the evidence.

## 5. Not modelled

- **Log decoding and contract calls of the pool loaders.** These are pure I/O with no shared state. Their effect is the nondeterministic set `Found` of identified pools per batch, and the success or failure of a fetch task.
- **`analyze_pool_changes`.** It only reads MarketState and logs.
- **`MarketState::stats`, `get_pool`, and the LocalDB getters.** These are reads.
- **Provider construction, logging, the `pools.json` write, and the example program.** These are not part of the concurrent behaviour.
- **Timing.** The poll interval and the 10-second sleep are nondeterministic delays: any interleaving is allowed.

## 6. Open directions

- Add an abstract FIFO-with-loss bus that `Bus` implements, and prove the refinement.
- State a property for the history loader's `get_block_number` failure (`history_loader_actor.rs:55`), once the spec names an obligation for it.
- Liveness stays with TLC for as long as the prover has no ENABLED and fairness reasoning.
