------------------------------ MODULE Pipeline ------------------------------
(***************************************************************************)
(* The running system of main.rs: HistoryPoolLoaderActor (backward log    *)
(* scan), PoolLoaderActor (deduplicated, semaphore-bounded fetch tasks),  *)
(* BlockStateActor (block ingestion), StateUpdateProcessor (change        *)
(* consumer), the pool collector task and main's start-up and shutdown    *)
(* sequence, sharing one MarketState behind a RwLock and one broadcast    *)
(* bus.                                                                    *)
(*                                                                         *)
(* Every MarketState critical section in the code is free of .await while *)
(* the lock is held, so each is one atomic step; the steps between them   *)
(* (apply, then publish; recv, then handle; acquire, fetch, send) are     *)
(* where tasks interleave.  Remote calls (get_block_number, get_logs,     *)
(* fetch_pool_data, fetch_state_update) are external collaborators: each  *)
(* may succeed with any of a small set of results, or fail.               *)
(***************************************************************************)
EXTENDS LocalDB, Bus, FiniteSets

CONSTANTS
  Diffs,         \* StateUpdateVecs a block may carry (fetch_state_update)
  MaxHeight,     \* the chain grows up to this height
  StartHeights,  \* heights the chain may be at when the system starts
  StartBlock,    \* LoaderConfig.start_block (0: the chain's latest block)
  BatchSize,     \* LoaderConfig.block_batch_size
  NumBatches,    \* LoaderConfig.num_batches
  MaxConcurrent, \* LoaderConfig.max_concurrent_tasks
  Found          \* pool sets process_logs may identify in one batch

ASSUME PipelineAssumption ==
  /\ Diffs \subseteq Seq(StateUpdate)
  /\ <<>> \in Diffs
  /\ MaxHeight \in Nat
  /\ StartHeights \subseteq 0..MaxHeight
  /\ NoValue \notin Nat
  /\ Receivers = {"poolLoader", "processor", "collector"}
  /\ StartBlock \in 0..MaxHeight
  /\ BatchSize \in Nat \ {0}
  /\ NumBatches \in Nat
  /\ MaxConcurrent \in Nat
  /\ Found \subseteq SUBSET Addr

Heights == 0..MaxHeight

(* Message (messages.rs).  A BlockStateUpdate also carries, as a ghost    *)
(* field, the affected pools the publisher computed.                      *)
BlockMsg == [kind : {"BlockStateUpdate"}, block_number : Heights,
             state_update : Diffs, affected : SUBSET Addr]
FetchMsg == [kind : {"FetchPools"}, pools : (SUBSET Addr) \ {{}}]
PoolMsg == [kind : {"PoolLoaded"}, pool : Addr]
StopMsg == [kind : {"Stop"}]
Message == BlockMsg \cup FetchMsg \cup PoolMsg \cup StopMsg

(* The life of one fetch task spawned by PoolLoaderActor.                 *)
TaskStates == {"none", "waiting", "fetching", "loaded", "failed"}

VARIABLES
  chain,            \* the remote node's block number
  db, pools, current_block,   \* the shared MarketState
  histPc,           \* HistoryPoolLoaderActor: "start", "scan", "done", "error"
  histBlock,        \* its local current_block
  batchIdx,         \* its loop index batch_idx
  plPc,             \* PoolLoaderActor's receive loop: "run", "done"
  processed,        \* its processed_pools (the keys)
  taskPc,           \* taskPc[a]: the state of the fetch task for a
  bsaPc,            \* BlockStateActor: "unspawned", "poll", "loop", "publish"
  last_processed_block, latest_block,  \* its run_worker's locals
  pending,          \* the BlockStateUpdate process_block is about to send
  procPc,           \* StateUpdateProcessor: "unspawned", "run", "done"
  stats,            \* ProcessorStats
  collPc,           \* collector task: "unspawned", "run", "done"
  collected,        \* the collector's local `pools` map (its keys)
  mainPc,           \* main: see MainSteps
  joinIdx,          \* main: the index in JoinOrder of the handle awaited
  startHeight,      \* ghost: the height BlockStateActor started from
  attempted,        \* ghost: heights handed to process_block, in order
  procSeen,         \* ghost: BlockStateUpdates the processor received
  loadedOk,         \* ghost: addresses whose fetch task sent PoolLoaded
  scanFrom,         \* ghost: the block the history scan started below
  scanned,          \* ghost: the blocks get_logs was asked for
  gaps              \* ghost: blocks skipped because process_block failed

msVars == <<db, pools, current_block>>
histVars == <<histPc, histBlock, batchIdx>>
plVars == <<plPc, processed, taskPc>>
bsaVars == <<bsaPc, last_processed_block, latest_block, pending>>
procVars == <<procPc, stats>>
collVars == <<collPc, collected>>
mainVars == <<mainPc, joinIdx>>
ghostVars == <<startHeight, attempted, procSeen, loadedOk, scanFrom, scanned,
               gaps>>
vars == <<chain, msVars, busVars, histVars, plVars, bsaVars, procVars,
          collVars, mainVars, ghostVars>>

(* main's steps after start-up: join the actors in the order of lines     *)
(* 173-176; BlockStateActor is never told to stop.                        *)
JoinOrder == <<"poolLoader", "blockState", "processor", "collector">>

ActorDone(x) ==
  CASE x = "poolLoader" -> plPc = "done"
    [] x = "blockState" -> bsaPc = "done"
    [] x = "processor"  -> procPc = "done"
    [] x = "collector"  -> collPc = "done"

MainSteps == {"spawnBlockState", "spawnProcessor", "spawnCollector",
              "awaitHistory", "stop", "join", "error", "done"}

(* Once main returns, the runtime and with it every task is dropped.      *)
Running == mainPc \notin {"error", "done"}

Init ==
  /\ chain \in StartHeights
  /\ db = EmptyDB /\ pools = {} /\ current_block = 0
  \* PoolLoaderActor subscribed (line 81) and started, then the history
  \* loader started (line 97), before the others.
  /\ sent = <<>>
  /\ rx = [r \in Receivers |-> 1]
  /\ subs = {"poolLoader"}
  /\ histPc = "start" /\ histBlock = 0 /\ batchIdx = 0
  /\ plPc = "run" /\ processed = {} /\ taskPc = [a \in Addr |-> "none"]
  /\ bsaPc = "unspawned"
  /\ last_processed_block = 0 /\ latest_block = 0
  /\ pending = [kind |-> "Stop"]
  /\ procPc = "unspawned"
  /\ stats = [blocks_processed |-> 0, total_affected_pools |-> 0, last_block |-> 0]
  /\ collPc = "unspawned" /\ collected = {}
  /\ mainPc = "spawnBlockState" /\ joinIdx = 1
  /\ startHeight = NoValue /\ attempted = <<>> /\ procSeen = <<>>
  /\ loadedOk = {} /\ scanFrom = NoValue /\ scanned = {} /\ gaps = {}

-----------------------------------------------------------------------------
(* The remote chain produces a block.                                     *)
ChainGrows ==
  /\ chain < MaxHeight
  /\ chain' = chain + 1
  /\ UNCHANGED <<msVars, busVars, histVars, plVars, bsaVars, procVars,
                 collVars, mainVars, ghostVars>>

-----------------------------------------------------------------------------
(* HistoryPoolLoaderActor::run_worker (history_loader_actor.rs 50-102).   *)
HistUnchangedOthers ==
  UNCHANGED <<chain, msVars, plVars, bsaVars, procVars, collVars, mainVars,
              startHeight, attempted, procSeen, loadedOk, gaps>>

(* Lines 54-58: start from config.start_block, or from the latest block   *)
(* when it is 0 ...                                                       *)
HistStart ==
  /\ Running
  /\ histPc = "start"
  /\ histBlock' = IF StartBlock = 0 THEN chain ELSE StartBlock
  /\ scanFrom' = histBlock'
  /\ histPc' = "scan"
  /\ UNCHANGED <<busVars, batchIdx, scanned>>
  /\ HistUnchangedOthers

(* ... where a failed get_block_number returns Err through `?` (line 55). *)
HistStartFailed ==
  /\ Running
  /\ histPc = "start"
  /\ StartBlock = 0
  /\ histPc' = "error"
  /\ UNCHANGED <<busVars, histBlock, batchIdx, scanFrom, scanned>>
  /\ HistUnchangedOthers

(* Lines 64-67: stop at genesis.                                           *)
HistGenesis ==
  /\ Running
  /\ histPc = "scan"
  /\ batchIdx < NumBatches
  /\ histBlock < BatchSize + 1
  /\ histPc' = "done"
  /\ UNCHANGED <<busVars, histBlock, batchIdx, scanFrom, scanned>>
  /\ HistUnchangedOthers

(* Mutation: the genesis test dropped, so the u64 subtraction runs below  *)
(* zero.                                                                   *)
HistScanUnguarded(P) ==
  LET lo == histBlock - BatchSize IN
  /\ Running
  /\ histPc = "scan"
  /\ batchIdx < NumBatches
  /\ histBlock' = lo
  /\ batchIdx' = batchIdx + 1
  /\ scanned' = scanned \cup lo..(lo + BatchSize - 1)
  /\ IF P = {}
     THEN UNCHANGED busVars
     ELSE Send([kind |-> "FetchPools", pools |-> P])
  /\ UNCHANGED histPc
  /\ UNCHANGED scanFrom
  /\ HistUnchangedOthers

(* Lines 69-97 and process_logs (105-130): step back one batch and ask    *)
(* get_logs for it.  P is the set of pools identified in the logs,        *)
(* already deduplicated by address (lines 112-120); it is empty when      *)
(* get_logs fails (logged, lines 94-96) or nothing is recognised.  A      *)
(* non-empty set is sent as FetchPools; a send error returns Err from     *)
(* process_logs (line 126), which run_worker only logs (lines 90-92), so  *)
(* the scan goes on either way.                                           *)
HistScan(P) ==
  LET lo == histBlock - BatchSize IN
  /\ Running
  /\ histPc = "scan"
  /\ batchIdx < NumBatches
  /\ histBlock >= BatchSize + 1
  /\ histBlock' = lo
  /\ batchIdx' = batchIdx + 1
  /\ scanned' = scanned \cup lo..(lo + BatchSize - 1)
  /\ IF P = {}
     THEN UNCHANGED busVars
     ELSE Send([kind |-> "FetchPools", pools |-> P])
  /\ UNCHANGED histPc
  /\ UNCHANGED scanFrom
  /\ HistUnchangedOthers

(* Lines 98-101: all num_batches batches scanned.                         *)
HistFinish ==
  /\ Running
  /\ histPc = "scan"
  /\ batchIdx = NumBatches
  /\ histPc' = "done"
  /\ UNCHANGED <<busVars, histBlock, batchIdx, scanFrom, scanned>>
  /\ HistUnchangedOthers

History ==
  \/ HistStart \/ HistStartFailed \/ HistGenesis \/ HistFinish
  \/ \E P \in Found : HistScan(P)

-----------------------------------------------------------------------------
(* PoolLoaderActor::run_worker (pool_loader_actor.rs 54-137) and the      *)
(* fetch tasks it spawns (lines 83-115).                                  *)
PlUnchangedOthers ==
  UNCHANGED <<chain, msVars, histVars, bsaVars, procVars, collVars,
              mainVars, ghostVars>>

(* Mutation: spawn a task for every announced address, not only for the   *)
(* ones the processed_pools insert reports as new.                         *)
PlRecvFetchNoDedup ==
  LET m == Delivered("poolLoader") IN
  /\ Running
  /\ plPc = "run"
  /\ CanRecv("poolLoader")
  /\ ~IsLagged("poolLoader")
  /\ m.kind = "FetchPools"
  /\ RecvStep("poolLoader")
  /\ processed' = processed \cup m.pools
  /\ taskPc' = [a \in Addr |-> IF a \in m.pools THEN "waiting" ELSE taskPc[a]]
  /\ UNCHANGED <<plPc, sent, subs>>
  /\ PlUnchangedOthers

(* Ok(FetchPools): every address not yet in processed_pools is inserted   *)
(* (the insert is the dedup test, line 71) and gets a task of its own,    *)
(* which first waits for a semaphore permit (lines 69-85).                *)
PlRecvFetch ==
  LET m == Delivered("poolLoader") IN
  /\ Running
  /\ plPc = "run"
  /\ CanRecv("poolLoader")
  /\ ~IsLagged("poolLoader")
  /\ m.kind = "FetchPools"
  /\ RecvStep("poolLoader")
  /\ processed' = processed \cup m.pools
  /\ taskPc' = [a \in Addr |->
                  IF a \in m.pools \ processed THEN "waiting" ELSE taskPc[a]]
  /\ UNCHANGED <<plPc, sent, subs>>
  /\ PlUnchangedOthers

(* Ok(Stop): break; the actor returns and drops its receiver (lines       *)
(* 118-121).  The tasks it spawned keep running.                          *)
PlRecvStop ==
  /\ Running
  /\ plPc = "run"
  /\ CanRecv("poolLoader")
  /\ ~IsLagged("poolLoader")
  /\ Delivered("poolLoader").kind = "Stop"
  /\ RecvStep("poolLoader")
  /\ plPc' = "done"
  /\ subs' = subs \ {"poolLoader"}
  /\ UNCHANGED <<sent, processed, taskPc>>
  /\ PlUnchangedOthers

(* Lagged is logged, other messages ignored (lines 122-127).              *)
PlSkip ==
  /\ Running
  /\ plPc = "run"
  /\ CanRecv("poolLoader")
  /\ \/ IsLagged("poolLoader")
     \/ Delivered("poolLoader").kind \in {"BlockStateUpdate", "PoolLoaded"}
  /\ RecvStep("poolLoader")
  /\ UNCHANGED <<plPc, sent, subs, processed, taskPc>>
  /\ PlUnchangedOthers

PoolLoader == PlRecvFetch \/ PlRecvStop \/ PlSkip

(* Mutation: the semaphore created with one permit too few.              *)
PermitsOffByOne == MaxConcurrent - 1

(* The permits of Semaphore::new(self.max_concurrent) (line 61).          *)
Permits == MaxConcurrent

Fetching == {a \in Addr : taskPc[a] = "fetching"}

(* Line 85: acquire a permit, held until the task ends.                   *)
TaskAcquire(a) ==
  /\ Running
  /\ taskPc[a] = "waiting"
  /\ Cardinality(Fetching) < Permits
  /\ taskPc' = [taskPc EXCEPT ![a] = "fetching"]
  /\ UNCHANGED <<busVars, plPc, processed>>
  /\ PlUnchangedOthers

(* fetch_pool succeeds and the task sends PoolLoaded, ignoring a send     *)
(* error (lines 88-103) ...                                               *)
TaskLoaded(a) ==
  /\ Running
  /\ taskPc[a] = "fetching"
  /\ Send([kind |-> "PoolLoaded", pool |-> a])
  /\ taskPc' = [taskPc EXCEPT ![a] = "loaded"]
  /\ loadedOk' = IF SendOk THEN loadedOk \cup {a} ELSE loadedOk
  /\ UNCHANGED <<plPc, processed, chain, msVars, histVars, bsaVars,
                 procVars, collVars, mainVars, startHeight, attempted,
                 procSeen, scanFrom, scanned, gaps>>

(* Mutation: the failure path also announces the pool as loaded.         *)
TaskFailedAnnounces(a) ==
  /\ Running
  /\ taskPc[a] = "fetching"
  /\ Send([kind |-> "PoolLoaded", pool |-> a])
  /\ taskPc' = [taskPc EXCEPT ![a] = "failed"]
  /\ UNCHANGED <<plPc, processed, chain, msVars, histVars, bsaVars,
                 procVars, collVars, mainVars, ghostVars>>

(* ... or fails (no loader for the class, or an RPC error) and only logs  *)
(* (lines 104-111).  Either way the permit is released.                   *)
TaskFailed(a) ==
  /\ Running
  /\ taskPc[a] = "fetching"
  /\ taskPc' = [taskPc EXCEPT ![a] = "failed"]
  /\ UNCHANGED <<busVars, plPc, processed>>
  /\ PlUnchangedOthers

Task(a) == TaskAcquire(a) \/ TaskLoaded(a) \/ TaskFailed(a)

-----------------------------------------------------------------------------
(* BlockStateActor::run_worker.  A failed get_block_number only sleeps    *)
(* and retries (lines 62-65), changing nothing: it is a stuttering step.  *)
BsaUnchangedOthers ==
  UNCHANGED <<chain, histVars, plVars, procVars, collVars, mainVars,
              procSeen, loadedOk, scanFrom, scanned, gaps>>

(* Mutation: resynchronise to the latest block on every poll, not only   *)
(* on the first one.                                                       *)
BsaPollAlwaysResync ==
  /\ Running
  /\ bsaPc = "poll"
  /\ latest_block' = chain
  /\ last_processed_block' = chain
  /\ startHeight' = IF startHeight = NoValue THEN chain ELSE startHeight
  /\ bsaPc' = "loop"
  /\ UNCHANGED <<msVars, busVars, pending, attempted>>
  /\ BsaUnchangedOthers

(* Lines 60-73: read the latest block; on the first run (cursor still 0)  *)
(* start from it.                                                          *)
BsaPoll ==
  /\ Running
  /\ bsaPc = "poll"
  /\ latest_block' = chain
  /\ last_processed_block' = IF last_processed_block = 0 THEN chain
                             ELSE last_processed_block
  /\ startHeight' = IF startHeight = NoValue THEN chain ELSE startHeight
  /\ bsaPc' = "loop"
  /\ UNCHANGED <<msVars, busVars, pending, attempted>>
  /\ BsaUnchangedOthers

(* Lines 76 and 102: no block left, sleep until the next poll.            *)
BsaSleep ==
  /\ Running
  /\ bsaPc = "loop"
  /\ ~(last_processed_block < latest_block)
  /\ bsaPc' = "poll"
  /\ UNCHANGED <<msVars, busVars, last_processed_block, latest_block, pending,
                 startHeight, attempted>>
  /\ BsaUnchangedOthers

NextBlock == last_processed_block + 1

(* process_block fails (block not found, RPC error or fetch_state_update *)
(* error, lines 109-120): the error is logged and the cursor still moves  *)
(* on (lines 93-97), leaving a gap.                                        *)
BsaFetchFailed ==
  /\ Running
  /\ bsaPc = "loop"
  /\ last_processed_block < latest_block
  /\ last_processed_block' = NextBlock
  /\ attempted' = Append(attempted, NextBlock)
  /\ gaps' = gaps \cup {NextBlock}
  /\ UNCHANGED <<msVars, busVars, bsaPc, latest_block, pending, startHeight>>
  /\ UNCHANGED <<chain, histVars, plVars, procVars, collVars, mainVars,
                 procSeen, loadedOk, scanFrom, scanned>>

(* fetch_state_update returns an empty StateUpdateVec: process_block      *)
(* returns early (lines 122-124), before apply and update_block, and the  *)
(* cursor moves on (line 91).                                              *)
BsaEmptyBlock ==
  /\ Running
  /\ bsaPc = "loop"
  /\ last_processed_block < latest_block
  /\ last_processed_block' = NextBlock
  /\ attempted' = Append(attempted, NextBlock)
  /\ UNCHANGED <<msVars, busVars, bsaPc, latest_block, pending, startHeight>>
  /\ BsaUnchangedOthers

(* Mutation: publish the BlockStateUpdate even when no pool is affected  *)
(* (line 137's test dropped).                                              *)
BsaApplyAlwaysPublish(d) ==
  LET h == NextBlock IN
  /\ Running
  /\ bsaPc = "loop"
  /\ last_processed_block < latest_block
  /\ d # <<>>
  /\ db' = ApplyStateUpdateVec(db, d)
  /\ current_block' = h
  /\ attempted' = Append(attempted, h)
  /\ pending' = [kind |-> "BlockStateUpdate", block_number |-> h,
                  state_update |-> d,
                  affected |-> GetAffectedPoolsVec(pools, d)]
  /\ bsaPc' = "publish"
  /\ UNCHANGED <<last_processed_block, pools, busVars, latest_block,
                 startHeight>>
  /\ BsaUnchangedOthers

(* Mutation: the diff is applied but update_block (line 129) is skipped, *)
(* so the cache changes while the watermark stays behind.                 *)
BsaApplyNoUpdateBlock(d) ==
  LET h == NextBlock
      affected == GetAffectedPoolsVec(pools, d)
  IN
  /\ Running
  /\ bsaPc = "loop"
  /\ last_processed_block < latest_block
  /\ d # <<>>
  /\ db' = ApplyStateUpdateVec(db, d)
  /\ attempted' = Append(attempted, h)
  /\ IF affected = {}
     THEN /\ last_processed_block' = h
          /\ UNCHANGED <<bsaPc, pending>>
     ELSE /\ pending' = [kind |-> "BlockStateUpdate", block_number |-> h,
                         state_update |-> d, affected |-> affected]
          /\ bsaPc' = "publish"
          /\ UNCHANGED last_processed_block
  /\ UNCHANGED <<pools, current_block, busVars, latest_block, startHeight>>
  /\ BsaUnchangedOthers

(* Mutation: update_block(block_number - 1), one block behind.          *)
BsaApplyWatermarkBehind(d) ==
  LET h == NextBlock
      affected == GetAffectedPoolsVec(pools, d)
  IN
  /\ Running
  /\ bsaPc = "loop"
  /\ last_processed_block < latest_block
  /\ d # <<>>
  /\ db' = ApplyStateUpdateVec(db, d)
  /\ current_block' = h - 1
  /\ attempted' = Append(attempted, h)
  /\ IF affected = {}
     THEN /\ last_processed_block' = h
          /\ UNCHANGED <<bsaPc, pending>>
     ELSE /\ pending' = [kind |-> "BlockStateUpdate", block_number |-> h,
                         state_update |-> d, affected |-> affected]
          /\ bsaPc' = "publish"
          /\ UNCHANGED last_processed_block
  /\ UNCHANGED <<pools, busVars, latest_block, startHeight>>
  /\ BsaUnchangedOthers

(* Lines 127-134, under the write lock: apply the vector, update_block,   *)
(* compute the affected pools.  With none affected process_block returns  *)
(* and the loop moves on; otherwise the BlockStateUpdate is sent next.    *)
BsaApply(d) ==
  LET h == NextBlock
      affected == GetAffectedPoolsVec(pools, d)
  IN
  /\ Running
  /\ bsaPc = "loop"
  /\ last_processed_block < latest_block
  /\ d # <<>>
  /\ db' = ApplyStateUpdateVec(db, d)
  /\ current_block' = h
  /\ attempted' = Append(attempted, h)
  /\ IF affected = {}
     THEN /\ last_processed_block' = h
          /\ UNCHANGED <<bsaPc, pending>>
     ELSE /\ pending' = [kind |-> "BlockStateUpdate", block_number |-> h,
                         state_update |-> d, affected |-> affected]
          /\ bsaPc' = "publish"
          /\ UNCHANGED last_processed_block
  /\ UNCHANGED <<pools, busVars, latest_block, startHeight>>
  /\ BsaUnchangedOthers

(* Lines 137-147 and 91: send the update (an Err for want of receivers is *)
(* only logged), then advance the cursor.                                 *)
BsaPublish ==
  /\ Running
  /\ bsaPc = "publish"
  /\ Send(pending)
  /\ last_processed_block' = pending.block_number
  /\ bsaPc' = "loop"
  /\ UNCHANGED <<msVars, latest_block, pending, startHeight, attempted>>
  /\ BsaUnchangedOthers

BlockStateActor ==
  \/ BsaPoll \/ BsaSleep \/ BsaFetchFailed \/ BsaEmptyBlock \/ BsaPublish
  \/ \E d \in Diffs : BsaApply(d)
-----------------------------------------------------------------------------
(* StateUpdateProcessor::run_worker and process_state_update.  Each recv  *)
(* result is handled in one step: the read-locked recomputation of the    *)
(* affected pools and the stats update hold no lock across an .await on   *)
(* MarketState.  analyze_pool_changes only reads and is left out.         *)
ProcUnchangedOthers ==
  UNCHANGED <<chain, msVars, sent, histVars, plVars, bsaVars, collVars,
              mainVars, startHeight, attempted, loadedOk, scanFrom, scanned,
              gaps>>

ProcRecvUpdate ==
  LET m == Delivered("processor")
      affected == GetAffectedPoolsVec(pools, m.state_update)
  IN
  /\ Running
  /\ procPc = "run"
  /\ CanRecv("processor")
  /\ ~IsLagged("processor")
  /\ m.kind = "BlockStateUpdate"
  /\ RecvStep("processor")
  /\ procSeen' = Append(procSeen, m)
  /\ stats' = IF affected = {} THEN stats
              ELSE [blocks_processed |-> stats.blocks_processed + 1,
                    total_affected_pools |->
                      stats.total_affected_pools + Cardinality(affected),
                    last_block |-> m.block_number]
  /\ UNCHANGED <<procPc, subs>>
  /\ ProcUnchangedOthers

(* Ok(Stop): break, print the stats, return; the receiver is dropped.     *)
ProcRecvStop ==
  /\ Running
  /\ procPc = "run"
  /\ CanRecv("processor")
  /\ ~IsLagged("processor")
  /\ Delivered("processor").kind = "Stop"
  /\ RecvStep("processor")
  /\ procPc' = "done"
  /\ subs' = subs \ {"processor"}
  /\ UNCHANGED <<stats, procSeen>>
  /\ ProcUnchangedOthers

(* Mutation: the catch-all `Ok(_)` arm matched before `Ok(Stop)`.        *)
ProcSkipStopToo ==
  /\ Running
  /\ procPc = "run"
  /\ CanRecv("processor")
  /\ \/ IsLagged("processor")
     \/ Delivered("processor").kind \in {"FetchPools", "PoolLoaded", "Stop"}
  /\ RecvStep("processor")
  /\ UNCHANGED <<procPc, subs, stats, procSeen>>
  /\ ProcUnchangedOthers

(* Err(Lagged(n)) is logged and the loop continues; Ok of any other       *)
(* message is ignored.                                                     *)
ProcSkip ==
  /\ Running
  /\ procPc = "run"
  /\ CanRecv("processor")
  /\ \/ IsLagged("processor")
     \/ Delivered("processor").kind \in {"FetchPools", "PoolLoaded"}
  /\ RecvStep("processor")
  /\ UNCHANGED <<procPc, subs, stats, procSeen>>
  /\ ProcUnchangedOthers

Processor == ProcRecvUpdate \/ ProcRecvStop \/ ProcSkip
-----------------------------------------------------------------------------
(* The collector task of main.rs (lines 120-159).                        *)
CollUnchangedOthers ==
  UNCHANGED <<chain, db, current_block, sent, histVars, plVars, bsaVars,
              procVars, mainVars, ghostVars>>

(* Ok(PoolLoaded): remember the pool and add_pool it to MarketState under *)
(* the write lock (lines 127-132).                                         *)
CollPoolLoaded ==
  LET m == Delivered("collector") IN
  /\ Running
  /\ collPc = "run"
  /\ CanRecv("collector")
  /\ ~IsLagged("collector")
  /\ m.kind = "PoolLoaded"
  /\ RecvStep("collector")
  /\ collected' = collected \cup {m.pool}
  /\ pools' = pools \cup {m.pool}
  /\ UNCHANGED <<collPc, subs>>
  /\ CollUnchangedOthers

(* Ok(Stop) breaks, and so does ANY Err, Lagged included (line 142); the  *)
(* task then reads the stats, writes pools.json and drops its receiver.   *)
CollExit ==
  /\ Running
  /\ collPc = "run"
  /\ CanRecv("collector")
  /\ \/ IsLagged("collector")
     \/ Delivered("collector").kind = "Stop"
  /\ RecvStep("collector")
  /\ collPc' = "done"
  /\ subs' = subs \ {"collector"}
  /\ UNCHANGED <<pools, collected>>
  /\ CollUnchangedOthers

CollIgnore ==
  /\ Running
  /\ collPc = "run"
  /\ CanRecv("collector")
  /\ ~IsLagged("collector")
  /\ Delivered("collector").kind \in {"BlockStateUpdate", "FetchPools"}
  /\ RecvStep("collector")
  /\ UNCHANGED <<pools, collected, collPc, subs>>
  /\ CollUnchangedOthers

Collector == CollPoolLoaded \/ CollExit \/ CollIgnore

-----------------------------------------------------------------------------
(* main (lines 86-176) after the pool loader and history loader started.  *)
MainUnchangedOthers ==
  UNCHANGED <<chain, msVars, histVars, plVars, pending, last_processed_block,
              latest_block, stats, collected, ghostVars>>

MainSpawnBlockState ==
  /\ Running
  /\ mainPc = "spawnBlockState"
  /\ bsaPc' = "poll"
  /\ mainPc' = "spawnProcessor"
  /\ UNCHANGED <<busVars, procPc, collPc, joinIdx>>
  /\ MainUnchangedOthers

(* Lines 111-117: subscribe, then spawn the processor.                    *)
MainSpawnProcessor ==
  /\ Running
  /\ mainPc = "spawnProcessor"
  /\ Subscribe("processor")
  /\ procPc' = "run"
  /\ mainPc' = "spawnCollector"
  /\ UNCHANGED <<bsaPc, collPc, joinIdx>>
  /\ MainUnchangedOthers

(* Lines 120-122: subscribe, then spawn the collector.                    *)
MainSpawnCollector ==
  /\ Running
  /\ mainPc = "spawnCollector"
  /\ Subscribe("collector")
  /\ collPc' = "run"
  /\ mainPc' = "awaitHistory"
  /\ UNCHANGED <<bsaPc, procPc, joinIdx>>
  /\ MainUnchangedOthers

(* Mutation: send Stop without awaiting the history loader (line 163     *)
(* dropped).                                                               *)
MainAwaitHistoryNoWait ==
  /\ Running
  /\ mainPc = "awaitHistory"
  /\ mainPc' = "stop"
  /\ UNCHANGED <<busVars, bsaPc, procPc, collPc, joinIdx>>
  /\ MainUnchangedOthers

(* Line 163: history_loader_handle.await?? returns from main with the     *)
(* history loader's Err.                                                   *)
MainAwaitHistory ==
  /\ Running
  /\ mainPc = "awaitHistory"
  /\ histPc \in {"done", "error"}
  /\ mainPc' = IF histPc = "done" THEN "stop" ELSE "error"
  /\ UNCHANGED <<busVars, bsaPc, procPc, collPc, joinIdx>>
  /\ MainUnchangedOthers

(* Lines 167-170: after 10 s (any time, to the model) send Stop; a send   *)
(* error returns from main with Err.                                       *)
MainStop ==
  /\ Running
  /\ mainPc = "stop"
  /\ Send([kind |-> "Stop"])
  /\ mainPc' = IF SendOk THEN "join" ELSE "error"
  /\ UNCHANGED <<bsaPc, procPc, collPc, joinIdx>>
  /\ MainUnchangedOthers

(* Lines 173-176: await the handles in turn.                              *)
MainJoin ==
  /\ Running
  /\ mainPc = "join"
  /\ ActorDone(JoinOrder[joinIdx])
  /\ IF joinIdx = Len(JoinOrder)
     THEN mainPc' = "done" /\ UNCHANGED joinIdx
     ELSE joinIdx' = joinIdx + 1 /\ UNCHANGED mainPc
  /\ UNCHANGED <<busVars, bsaPc, procPc, collPc>>
  /\ MainUnchangedOthers

Main ==
  \/ MainSpawnBlockState \/ MainSpawnProcessor \/ MainSpawnCollector
  \/ MainAwaitHistory \/ MainStop \/ MainJoin

(* The process has exited: nothing changes any more.                      *)
Terminated == ~Running /\ UNCHANGED vars

Next ==
  \/ ChainGrows
  \/ History
  \/ PoolLoader
  \/ \E a \in Addr : Task(a)
  \/ BlockStateActor
  \/ Processor
  \/ Collector
  \/ Main
  \/ Terminated

(* Tokio polls every ready task again (the runtime is work-conserving,    *)
(* and its semaphore hands permits out in FIFO order), and the chain      *)
(* keeps producing blocks.                                                 *)
Fairness ==
  /\ WF_vars(ChainGrows)
  /\ WF_vars(History)
  /\ WF_vars(PoolLoader)
  /\ \A a \in Addr : WF_vars(Task(a))
  /\ WF_vars(BlockStateActor)
  /\ WF_vars(Processor)
  /\ WF_vars(Collector)
  /\ WF_vars(Main)

Spec == Init /\ [][Next]_vars /\ Fairness
-----------------------------------------------------------------------------
TypeOK ==
  /\ chain \in Heights
  /\ db \in DB /\ pools \subseteq Addr /\ current_block \in Heights
  /\ sent \in Seq(Message)
  /\ rx \in [Receivers -> 1..(Len(sent) + 1)]
  /\ subs \subseteq Receivers
  /\ histPc \in {"start", "scan", "done", "error"}
  /\ histBlock \in Heights /\ batchIdx \in 0..NumBatches
  /\ plPc \in {"run", "done"} /\ processed \subseteq Addr
  /\ taskPc \in [Addr -> TaskStates]
  /\ bsaPc \in {"unspawned", "poll", "loop", "publish"}
  /\ last_processed_block \in Heights /\ latest_block \in Heights
  /\ pending \in BlockMsg \cup StopMsg
  /\ procPc \in {"unspawned", "run", "done"}
  /\ stats \in [blocks_processed : Nat, total_affected_pools : Nat,
                last_block : Heights]
  /\ collPc \in {"unspawned", "run", "done"} /\ collected \subseteq Addr
  /\ mainPc \in MainSteps /\ joinIdx \in 1..Len(JoinOrder)
  /\ startHeight \in Heights \cup {NoValue}
  /\ attempted \in Seq(Heights) /\ procSeen \in Seq(BlockMsg)
  /\ loadedOk \subseteq Addr
  /\ scanFrom \in Heights \cup {NoValue} /\ scanned \subseteq Heights
  /\ gaps \subseteq Heights

(* BlockStateActor hands process_block every block after the height it    *)
(* started from, exactly once and in increasing order, and its cursor     *)
(* last_processed_block is the last block it handled (one behind while    *)
(* the BlockStateUpdate of the next is being sent).  This is about the    *)
(* cursor loop of run_worker: the first-run test `last_processed_block == *)
(* 0`, the advance on success and on error, and the early return of      *)
(* process_block.                                                          *)
NoBlockSkippedOrRepeated ==
  startHeight # NoValue =>
    /\ attempted = [i \in 1..Len(attempted) |-> startHeight + i]
    /\ startHeight + Len(attempted)
         = last_processed_block + (IF bsaPc = "publish" THEN 1 ELSE 0)

(* The StateUpdateProcessor's statistics account exactly for the block    *)
(* updates it received: every one counts as a processed block (the pools  *)
(* the publisher found affected are still pools when the processor        *)
(* recomputes, so the early return for "no affected pools" is never      *)
(* taken), they arrive in increasing block order although the bus may     *)
(* drop some, and last_block is the newest.  Concerns process_block's     *)
(* "publish only if affected" test, the bus FIFO order, and               *)
(* process_state_update's recomputation against a MarketState that may   *)
(* have changed since the publish.                                        *)
ProcessorStatsExact ==
  /\ stats.blocks_processed = Len(procSeen)
  /\ stats.last_block = IF procSeen = <<>> THEN 0
                        ELSE procSeen[Len(procSeen)].block_number
  /\ \A i \in 1..(Len(procSeen) - 1) :
       procSeen[i].block_number < procSeen[i + 1].block_number
  /\ \A i \in 1..Len(procSeen) :
       procSeen[i].affected \subseteq
         GetAffectedPoolsVec(pools, procSeen[i].state_update)

(* A BlockStateUpdate for block h goes on the bus only when MarketState's  *)
(* watermark current_block is h: process_block applies the diff and calls *)
(* update_block under the write lock (lines 127-129) before it sends      *)
(* (line 138), so a consumer never hears of a block the state has not     *)
(* reached (spec 4.3).                                                    *)
PublishedAtWatermark ==
  [][ Len(sent') > Len(sent) /\ sent'[Len(sent')].kind = "BlockStateUpdate"
        => sent'[Len(sent')].block_number = current_block ]_vars

(* No pool is announced as loaded twice: PoolLoaderActor inserts every     *)
(* address into processed_pools before it spawns its fetch (line 71), so   *)
(* a pool found again by a later history batch gets no second task.       *)
LoadedOnce ==
  \A i, j \in 1..Len(sent) :
    /\ sent[i].kind = "PoolLoaded"
    /\ sent[j].kind = "PoolLoaded"
    /\ sent[i].pool = sent[j].pool
    => i = j

(* Every pool in MarketState's registry was fetched successfully: the     *)
(* collector add_pools only what a PoolLoaded names (main.rs 127-132), and *)
(* a fetch task sends PoolLoaded only when fetch_pool returned Ok          *)
(* (pool_loader_actor.rs 88-103), never on the failure path.              *)
RegisteredPoolsLoaded == \A a \in pools : taskPc[a] = "loaded"

(* Once BlockStateActor has handled a block whose diff it fetched, the    *)
(* MarketState watermark current_block is that block (spec 4.4: Applying  *)
(* calls applyBatch then advanceWatermark; glossary: the watermark is the  *)
(* highest block whose DiffBatch has been fully applied).  Blocks skipped *)
(* on a fetch error are gaps and excepted.  Concerns process_block's      *)
(* early return on an empty vector (lines 122-124), taken before          *)
(* update_block.                                                           *)
WatermarkAtCursor ==
  (/\ bsaPc = "loop" /\ startHeight # NoValue
   /\ last_processed_block > startHeight
   /\ last_processed_block \notin gaps)
  => current_block = last_processed_block

(* Every fetch task PoolLoaderActor spawns eventually gets a semaphore    *)
(* permit and ends, loaded or failed (spec scenario C: all dispatched     *)
(* addresses eventually complete or fail).  Concerns the permit count of  *)
(* Semaphore::new and the release of the permit when a task ends.         *)
TasksComplete ==
  \A a \in Addr : (taskPc[a] = "waiting") ~> (taskPc[a] \in {"loaded", "failed"})

(* Every pool the history loader announces in a FetchPools is eventually  *)
(* dispatched to a fetch task by PoolLoaderActor.  It takes main awaiting  *)
(* the history loader before it sends Stop (line 163), the bus keeping    *)
(* one sender's messages in order, and the pool loader reading FetchPools *)
(* before the Stop behind it; a ring overwritten before the pool loader   *)
(* reads it loses the announcement (pool_loader_actor.rs 125).            *)
DiscoveredPoolsDispatched ==
  \A a \in Addr :
    (\E i \in 1..Len(sent) : sent[i].kind = "FetchPools" /\ a \in sent[i].pools)
      ~> taskPc[a] # "none"

(* A pool whose fetch failed is fetched again when a later discovery pass *)
(* announces it (spec 4.7: "entity left unregistered, eligible for future *)
(* retry").  Concerns PoolLoaderActor's processed_pools insert, done      *)
(* before the fetch and never undone on failure.                          *)
FailedPoolRetried ==
  [][\A a \in Addr :
       (/\ plPc = "run" /\ CanRecv("poolLoader") /\ ~IsLagged("poolLoader")
        /\ Delivered("poolLoader").kind = "FetchPools"
        /\ a \in Delivered("poolLoader").pools
        /\ taskPc[a] = "failed"
        /\ rx'["poolLoader"] = rx["poolLoader"] + 1)
       => taskPc'[a] = "waiting"]_vars

(* When the history scan ends, it has asked get_logs for every block from *)
(* num_batches * block_batch_size below its start height, or from block 1 *)
(* if that is nearer, up to the block before it (the loop of run_worker   *)
(* and its "reached genesis" test, history_loader_actor.rs 63-98).        *)
HistoryScanComplete ==
  histPc = "done" =>
    scanned = (IF scanFrom > BatchSize * NumBatches
               THEN scanFrom - BatchSize * NumBatches ELSE 1)..(scanFrom - 1)

(* Once main has sent Stop, the StateUpdateProcessor eventually stops     *)
(* (run_worker breaks on Ok(Stop)); main joins it at line 175.             *)
StopReachesProcessor == (mainPc = "join") ~> (procPc = "done")

(* Every pool a fetch task loaded and announced with PoolLoaded ends up    *)
(* in MarketState.pools, where the block actor and processor look for it  *)
(* (spec 3: a loaded entity is registered into the registry).             *)
LoadedPoolsRegistered == <>[](loadedOk \subseteq pools)

(* main runs to completion: after sending Stop it joins every actor       *)
(* (lines 170-178; spec 4.4: actors stop cleanly on Stop).                *)
MainTerminates == <>(mainPc = "done")
==============================================================================
