-------------------------- MODULE MarketRefinement --------------------------
(***************************************************************************)
(* The pipeline implements the Market State promise of MarketWatermark:   *)
(* the cache is the LocalDB of MarketState (db), the registry its pool     *)
(* set (pools) and the watermark its current_block.  Only two steps touch *)
(* them: BlockStateActor's process_block, which applies a StateUpdateVec  *)
(* and calls update_block under one write lock, and the collector's       *)
(* add_pool.                                                               *)
(***************************************************************************)
EXTENDS PipelineProofs

MW == INSTANCE MarketWatermark
        WITH cache <- db, registry <- pools, watermark <- current_block,
             EmptyCache <- EmptyDB, Apply <- ApplyStateUpdateVec

(* Every behaviour of the pipeline is, on MarketState's variables, a       *)
(* behaviour of MarketWatermark: block_state_actor.rs process_block only  *)
(* ever moves current_block forward past the block it just applied, and   *)
(* nothing else writes the cache or removes a pool.                       *)
MarketRefinesAbstract == MW!MWSpec

(* The watermark never runs ahead of BlockStateActor's cursor: it equals  *)
(* the block being published at most, and names it while the update     *)
(* waits to be sent.                                                      *)
MarketInv ==
  /\ last_processed_block \in Nat
  /\ current_block \in Nat
  /\ chain \in Nat
  /\ bsaPc = "publish" => pending.block_number = last_processed_block + 1
  /\ bsaPc = "publish" => current_block = pending.block_number
  /\ current_block
       <= last_processed_block + (IF bsaPc = "publish" THEN 1 ELSE 0)
  /\ mainPc = "spawnBlockState" => bsaPc = "unspawned"
-----------------------------------------------------------------------------
(* The steps of every actor other than BlockStateActor and the collector   *)
(* leave MarketState alone.                                               *)
LEMMA OthersQuiet ==
  ASSUME [Next]_vars,
         ~\E d \in Diffs : BsaApply(d),
         ~CollPoolLoaded
  PROVE  UNCHANGED msVars
<1>1. CASE ChainGrows
  BY <1>1 DEF ChainGrows
<1>2. CASE History
  BY <1>2 DEF History, HistStart, HistStartFailed, HistGenesis, HistFinish,
              HistScan, HistUnchangedOthers
<1>3. CASE PoolLoader
  BY <1>3 DEF PoolLoader, PlRecvFetch, PlRecvStop, PlSkip, PlUnchangedOthers
<1>4. CASE \E a \in Addr : Task(a)
  BY <1>4 DEF Task, TaskAcquire, TaskLoaded, TaskFailed, PlUnchangedOthers
<1>5. CASE BlockStateActor
  BY <1>5 DEF BlockStateActor, BsaPoll, BsaSleep, BsaFetchFailed, BsaEmptyBlock,
              BsaPublish
<1>6. CASE Processor
  BY <1>6 DEF Processor, ProcRecvUpdate, ProcRecvStop, ProcSkip,
              ProcUnchangedOthers
<1>7. CASE Collector
  BY <1>7 DEF Collector, CollExit, CollIgnore, CollUnchangedOthers, msVars
<1>8. CASE Main
  BY <1>8 DEF Main, MainSpawnBlockState, MainSpawnProcessor, MainSpawnCollector,
              MainAwaitHistory, MainStop, MainJoin, MainUnchangedOthers
<1>9. CASE Terminated \/ UNCHANGED vars
  BY <1>9 DEF Terminated, vars
<1>10. QED
  BY <1>1, <1>2, <1>3, <1>4, <1>5, <1>6, <1>7, <1>8, <1>9 DEF Next
-----------------------------------------------------------------------------
(* BlockStateActor's cursor and the watermark never move backwards, and    *)
(* the watermark stays at most one block ahead of the cursor, only while  *)
(* the update for that block waits to be published (block_state_actor.rs *)
(* lines 91-97 and 122-147).                                              *)
LEMMA MarketInvariant == Spec => []MarketInv
<1> USE PipelineAssumption
<1>1. Init => MarketInv
  BY DEF Init, MarketInv
<1>2. MarketInv /\ [Next]_vars => MarketInv'
  <2> SUFFICES ASSUME MarketInv, [Next]_vars PROVE MarketInv'
    OBVIOUS
  <2>1. CASE ChainGrows
    BY <2>1 DEF ChainGrows, MarketInv, msVars, bsaVars, mainVars
  <2>2. CASE BsaPoll
    BY <2>2 DEF BsaPoll, BsaUnchangedOthers, MarketInv, msVars, mainVars
  <2>3. CASE BsaSleep
    BY <2>3 DEF BsaSleep, BsaUnchangedOthers, MarketInv, msVars, mainVars
  <2>4. CASE BsaFetchFailed
    BY <2>4 DEF BsaFetchFailed, MarketInv, msVars, mainVars, NextBlock
  <2>5. CASE BsaEmptyBlock
    BY <2>5 DEF BsaEmptyBlock, BsaUnchangedOthers, MarketInv, msVars, mainVars,
                NextBlock
  <2>6. CASE \E d \in Diffs : BsaApply(d)
    <3>1. PICK d \in Diffs : BsaApply(d)
      BY <2>6
    <3>2. CASE GetAffectedPoolsVec(pools, d) = {}
      BY <3>1, <3>2 DEF BsaApply, BsaUnchangedOthers, MarketInv, mainVars,
                       NextBlock
    <3>3. CASE GetAffectedPoolsVec(pools, d) # {}
      BY <3>1, <3>3 DEF BsaApply, BsaUnchangedOthers, MarketInv, mainVars,
                       NextBlock
    <3>4. QED
      BY <3>2, <3>3
  <2>7. CASE BsaPublish
    BY <2>7 DEF BsaPublish, BsaUnchangedOthers, MarketInv, msVars, mainVars
  <2>8. CASE MainSpawnBlockState
    BY <2>8 DEF MainSpawnBlockState, MainUnchangedOthers, MarketInv, msVars
  <2>9. CASE Main /\ ~MainSpawnBlockState
    <3>1. UNCHANGED <<chain, msVars, bsaVars>> /\ mainPc' # "spawnBlockState"
      BY <2>9 DEF Main, MainSpawnProcessor, MainSpawnCollector,
         MainAwaitHistory, MainStop, MainJoin, MainUnchangedOthers, bsaVars
    <3>2. QED
      BY <3>1 DEF MarketInv, msVars, bsaVars
  <2>10. CASE History \/ PoolLoader \/ \E a \in Addr : Task(a)
    <3>1. UNCHANGED <<chain, msVars, bsaVars, mainVars>>
      BY <2>10 DEF History, HistStart, HistStartFailed, HistGenesis,
         HistFinish, HistScan, HistUnchangedOthers, PoolLoader, PlRecvFetch,
         PlRecvStop, PlSkip, PlUnchangedOthers, Task, TaskAcquire, TaskLoaded,
         TaskFailed
    <3>2. QED
      BY <3>1 DEF MarketInv, msVars, bsaVars, mainVars
  <2>11. CASE Processor \/ Collector \/ Terminated \/ UNCHANGED vars
    <3>1. UNCHANGED <<chain, db, current_block, bsaVars, mainVars>>
      BY <2>11 DEF vars, msVars, Processor, ProcRecvUpdate, ProcRecvStop, ProcSkip,
         ProcUnchangedOthers, Collector, CollPoolLoaded, CollExit, CollIgnore,
         CollUnchangedOthers, Terminated
    <3>2. QED
      BY <3>1 DEF MarketInv, msVars, bsaVars, mainVars
  <2>12. QED
    BY <2>1, <2>2, <2>3, <2>4, <2>5, <2>6, <2>7, <2>8, <2>9, <2>10, <2>11
    DEF Next, BlockStateActor
<1>3. QED
  BY <1>1, <1>2, PTL DEF Spec
-----------------------------------------------------------------------------
(* The pipeline refines MarketWatermark (block_state_actor.rs process_block *)
(* lines 122-135 and main.rs add_pool lines 127-132 are its only writers of *)
(* MarketState, market_state.rs update_block its only watermark write).   *)
THEOREM Refinement == Spec => MarketRefinesAbstract
<1> USE PipelineAssumption
<1>1. Init => MW!MWInit
  BY DEF Init, MW!MWInit
<1>2. MarketInv /\ [Next]_vars => [MW!MWNext]_MW!mwVars
  <2> SUFFICES ASSUME MarketInv, [Next]_vars PROVE [MW!MWNext]_MW!mwVars
    OBVIOUS
  <2>1. CASE \E d \in Diffs : BsaApply(d)
    <3>1. PICK d \in Diffs : BsaApply(d)
      BY <2>1
    <3>2. bsaPc = "loop"
      BY <3>1 DEF BsaApply
    <3>3. current_block < current_block' /\ current_block' \in Nat
      BY <3>1, <3>2 DEF BsaApply, MarketInv, NextBlock
    <3>4. MW!ApplyBatch(d)
      BY <3>1, <3>3 DEF BsaApply, MW!ApplyBatch
    <3>5. QED
      BY <3>4 DEF MW!MWNext
  <2>2. CASE CollPoolLoaded
    BY <2>2 DEF CollPoolLoaded, CollUnchangedOthers, MW!MWNext, MW!Register
  <2>3. CASE ~(\E d \in Diffs : BsaApply(d)) /\ ~CollPoolLoaded
    BY <2>3, OthersQuiet DEF msVars, MW!mwVars
  <2>4. QED
    BY <2>1, <2>2, <2>3
<1>3. QED
  BY <1>1, <1>2, MarketInvariant, PTL DEF Spec, MarketRefinesAbstract, MW!MWSpec
-----------------------------------------------------------------------------
(* Sender::send appends its message to the channel history, or leaves it  *)
(* unchanged when there is no receiver.                                   *)
LEMMA SendAppends ==
  ASSUME NEW S, NEW m, sent \in Seq(S), Send(m)
  PROVE  \/ sent' = sent
         \/ /\ Len(sent') = Len(sent) + 1
            /\ sent'[Len(sent')] = m
  BY DEF Send

(* BlockStateActor sends a BlockStateUpdate only for the block MarketState *)
(* has reached: process_block calls update_block (line 129) before the     *)
(* send (line 138), and nothing moves the watermark in between.           *)
THEOREM WatermarkBeforePublish == Spec => PublishedAtWatermark
<1> DEFINE A == Len(sent') > Len(sent)
                  /\ sent'[Len(sent')].kind = "BlockStateUpdate"
                => sent'[Len(sent')].block_number = current_block
<1>1. StatsInv /\ MarketInv /\ [Next]_vars => [A]_vars
  <2> SUFFICES ASSUME StatsInv, MarketInv, [Next]_vars PROVE A
    OBVIOUS
  <2>1. sent \in Seq(ProofMsg)
    BY DEF StatsInv
  <2>2. ASSUME NEW m, m.kind # "BlockStateUpdate", Send(m) PROVE A
    BY <2>1, <2>2, SendAppends
  <2>3. CASE UNCHANGED sent
    BY <2>3
  <2>4. CASE BsaPublish
    <3>1. bsaPc = "publish" /\ Send(pending)
      BY <2>4 DEF BsaPublish
    <3>2. current_block = pending.block_number
      BY <3>1 DEF MarketInv
    <3>3. QED
      BY <2>1, <3>1, <3>2, SendAppends
  <2>5. CASE \E P \in Found : HistScan(P)
    <3>1. PICK P \in Found : HistScan(P)
      BY <2>5
    <3>2. CASE P = {}
      BY <3>1, <3>2 DEF HistScan, busVars
    <3>3. CASE P # {}
      <4>1. Send([kind |-> "FetchPools", pools |-> P])
        BY <3>1, <3>3 DEF HistScan
      <4>2. QED
        BY <4>1, <2>2
    <3>4. QED
      BY <3>2, <3>3
  <2>6. CASE \E a \in Addr : TaskLoaded(a)
    <3>1. PICK a \in Addr : TaskLoaded(a)
      BY <2>6
    <3>2. Send([kind |-> "PoolLoaded", pool |-> a])
      BY <3>1 DEF TaskLoaded
    <3>3. QED
      BY <3>2, <2>2
  <2>7. CASE MainStop
    <3>1. Send([kind |-> "Stop"])
      BY <2>7 DEF MainStop
    <3>2. QED
      BY <3>1, <2>2
  <2>8. CASE History /\ ~\E P \in Found : HistScan(P)
    BY <2>8 DEF History, HistStart, HistStartFailed, HistGenesis, HistFinish,
                busVars
  <2>9. CASE PoolLoader \/ \E a \in Addr : TaskAcquire(a) \/ TaskFailed(a)
    BY <2>9 DEF PoolLoader, PlRecvFetch, PlRecvStop, PlSkip, TaskAcquire,
                TaskFailed, busVars
  <2>10. CASE BlockStateActor /\ ~BsaPublish
    BY <2>10 DEF BlockStateActor, BsaPoll, BsaSleep, BsaFetchFailed,
                 BsaEmptyBlock, BsaApply, busVars
  <2>11. CASE Processor \/ Collector
    BY SMTT(30), <2>11 DEF Processor, ProcRecvUpdate, ProcRecvStop, ProcSkip,
                 ProcUnchangedOthers, Collector, CollPoolLoaded, CollExit,
                 CollIgnore, CollUnchangedOthers
  <2>12. CASE Main /\ ~MainStop
    BY <2>12 DEF Main, MainSpawnBlockState, MainSpawnProcessor,
                 MainSpawnCollector, MainAwaitHistory, MainJoin, busVars,
                 Subscribe
  <2>13. CASE ChainGrows \/ Terminated \/ UNCHANGED vars
    <3>1. sent' = sent
      BY <2>13, Zenon DEF ChainGrows, Terminated, vars, busVars
    <3>2. QED BY <3>1
  <2>14. QED
    BY <2>3, <2>4, <2>5, <2>6, <2>7, <2>8, <2>9, <2>10, <2>11, <2>12, <2>13
    DEF Next, Task
<1>2. QED
  BY <1>1, StatsInvariant, MarketInvariant, PTL DEF Spec, PublishedAtWatermark
=============================================================================
