-------------------------- MODULE PipelineTypeProofs --------------------------
(***************************************************************************)
(* The type invariant of the Pipeline specification, proved for every     *)
(* instance.  Beyond the types it bounds every block number by the        *)
(* chain's height: the history loader's `current_block - batch_size`      *)
(* never goes below zero, BlockStateActor's cursor never passes the       *)
(* latest block it read, and the processor's running total stays a        *)
(* natural because the registry of pools is finite.                       *)
(***************************************************************************)
EXTENDS Pipeline, LocalDBProofs, FiniteSetTheorems, TLAPS

(* The strengthening: the block numbers BlockStateActor works on stay at   *)
(* or below the latest block it read, which stays at or below the chain's *)
(* height, and the update waiting to be sent is a BlockStateUpdate; and   *)
(* only finitely many pools are ever registered.                          *)
TypeInv ==
  /\ TypeOK
  /\ IsFiniteSet(pools)
  /\ latest_block <= chain
  /\ last_processed_block <= latest_block
  /\ bsaPc = "publish" => /\ pending \in BlockMsg
                          /\ pending.block_number <= latest_block

-----------------------------------------------------------------------------
(* A receive keeps every receiver's position within the channel: recv is  *)
(* only called with a message there, and a lagged receiver resumes at the *)
(* oldest retained one.                                                   *)
LEMMA RecvKeepsPositions ==
  ASSUME NEW r \in Receivers, sent \in Seq(Message),
         rx \in [Receivers -> 1..(Len(sent) + 1)],
         CanRecv(r), RecvStep(r)
  PROVE  /\ rx' \in [Receivers -> 1..(Len(sent) + 1)]
         /\ Delivered(r) \in Message
<1> USE BusAssumption
<1>1. rx[r] \in 1..Len(sent)
  BY DEF CanRecv
<1>2. Oldest \in 1..(Len(sent) + 1)
  BY DEF Oldest
<1>3. QED BY <1>1, <1>2 DEF RecvStep, Delivered

(* A send keeps the channel a sequence of messages and every position     *)
(* within it.                                                             *)
LEMMA SendKeepsChannel ==
  ASSUME sent \in Seq(Message), rx \in [Receivers -> 1..(Len(sent) + 1)],
         NEW m \in Message, Send(m)
  PROVE  /\ sent' \in Seq(Message)
         /\ rx' \in [Receivers -> 1..(Len(sent') + 1)]
         /\ subs' = subs
BY DEF Send

(* A set of pools computed from the registry is a finite set of addresses. *)
LEMMA AffectedFinite ==
  ASSUME NEW P, IsFiniteSet(P), P \subseteq Addr, NEW v
  PROVE  /\ GetAffectedPoolsVec(P, v) \subseteq Addr
         /\ Cardinality(GetAffectedPoolsVec(P, v)) \in Nat
<1>1. GetAffectedPoolsVec(P, v) \subseteq P
  BY DEF GetAffectedPoolsVec, GetAffectedPools
<1>2. IsFiniteSet(GetAffectedPoolsVec(P, v))
  BY <1>1, FS_Subset
<1>3. QED BY <1>1, <1>2, FS_CardinalityType

(* Every reachable state is well typed and its block numbers are heights *)
(* of the chain.                                                          *)
LEMMA TypeInvariant == Spec => []TypeInv
<1> USE PipelineAssumption, BusAssumption, LocalDBAssumption
<1>1. Init => TypeInv
  <2>1. EmptyDB \in DB
    BY DEF EmptyDB, DB, OptVal
  <2>2. IsFiniteSet({})
    BY FS_EmptySet
  <2>3. QED BY <2>1, <2>2 DEF Init, TypeInv, TypeOK, Heights, StopMsg, MainSteps,
                          JoinOrder, TaskStates
<1>2. TypeInv /\ [Next]_vars => TypeInv'
  <2> SUFFICES ASSUME TypeInv, [Next]_vars PROVE TypeInv'
    OBVIOUS
  <2> USE DEF TypeInv, TypeOK
  <2>1. CASE ChainGrows
    BY SMTT(30), <2>1 DEF ChainGrows, Heights, msVars, busVars, histVars, plVars, bsaVars,
                procVars, collVars, mainVars, ghostVars
  <2>2. CASE HistStart \/ HistStartFailed \/ HistGenesis \/ HistFinish
    <3>1. CASE HistStart
      BY SMTT(30), <3>1 DEF HistStart, HistUnchangedOthers, Heights, msVars, busVars, plVars,
                 bsaVars, procVars, collVars, mainVars
    <3>2. CASE HistStartFailed
      BY SMTT(30), <3>2 DEF HistStartFailed, HistUnchangedOthers, Heights, msVars, busVars, plVars,
                 bsaVars, procVars, collVars, mainVars
    <3>3. CASE HistGenesis
      BY SMTT(30), <3>3 DEF HistGenesis, HistUnchangedOthers, Heights, msVars, busVars, plVars,
                 bsaVars, procVars, collVars, mainVars
    <3>4. CASE HistFinish
      BY SMTT(30), <3>4 DEF HistFinish, HistUnchangedOthers, Heights, msVars, busVars, plVars,
                 bsaVars, procVars, collVars, mainVars
    <3>5. QED BY <2>2, <3>1, <3>2, <3>3, <3>4
  <2>3. ASSUME NEW P \in Found, HistScan(P) PROVE TypeInv'
    <3>1. histBlock - BatchSize \in Heights /\ batchIdx + 1 \in 0..NumBatches
      BY <2>3 DEF HistScan, Heights
    <3>2. scanned' \subseteq Heights
      BY <2>3, <3>1 DEF HistScan, Heights
    <3>3. sent' \in Seq(Message) /\ rx' \in [Receivers -> 1..(Len(sent') + 1)]
          /\ subs' = subs
      <4>1. CASE P = {}
        BY <2>3, <4>1 DEF HistScan, busVars
      <4>2. CASE P # {}
        <5>1. [kind |-> "FetchPools", pools |-> P] \in Message
          BY <4>2 DEF Message, FetchMsg
        <5>2. QED BY <2>3, <4>2, <5>1, SendKeepsChannel DEF HistScan
      <4>3. QED BY <4>1, <4>2, Zenon
    <3>4. histPc' \in {"start", "scan", "done", "error"}
      BY <2>3 DEF HistScan, busVars
    <3>5. QED BY SMTT(30), <2>3, <3>1, <3>2, <3>3, <3>4 DEF HistScan, HistUnchangedOthers,
                 msVars, plVars, bsaVars, procVars, collVars, mainVars
  <2>4. CASE PoolLoader
    <3>1. CanRecv("poolLoader") /\ RecvStep("poolLoader")
      BY <2>4 DEF PoolLoader, PlRecvFetch, PlRecvStop, PlSkip
    <3>2. rx' \in [Receivers -> 1..(Len(sent) + 1)]
          /\ Delivered("poolLoader") \in Message
      BY <3>1, RecvKeepsPositions
    <3>3. CASE PlRecvFetch
      <4>1. Delivered("poolLoader").pools \subseteq Addr
        BY <3>2, <3>3 DEF PlRecvFetch, Message, BlockMsg, FetchMsg, PoolMsg, StopMsg
      <4>2. QED BY <3>2, <3>3, <4>1 DEF PlRecvFetch, PlUnchangedOthers, TaskStates,
                   msVars, histVars, bsaVars, procVars, collVars, mainVars, ghostVars
    <3>4. CASE PlRecvStop
      BY <3>2, <3>4 DEF PlRecvStop, PlUnchangedOthers,
         msVars, histVars, bsaVars, procVars, collVars, mainVars, ghostVars
    <3>5. CASE PlSkip
      BY <3>2, <3>5 DEF PlSkip, PlUnchangedOthers,
         msVars, histVars, bsaVars, procVars, collVars, mainVars, ghostVars
    <3>6. QED BY <2>4, <3>3, <3>4, <3>5 DEF PoolLoader
  <2>5. ASSUME NEW a \in Addr, Task(a) PROVE TypeInv'
    <3>1. CASE TaskAcquire(a)
      BY <3>1 DEF TaskAcquire, PlUnchangedOthers, TaskStates, busVars,
         msVars, histVars, bsaVars, procVars, collVars, mainVars, ghostVars
    <3>2. CASE TaskLoaded(a)
      <4>1. [kind |-> "PoolLoaded", pool |-> a] \in Message
        BY DEF Message, PoolMsg
      <4>2. sent' \in Seq(Message) /\ rx' \in [Receivers -> 1..(Len(sent') + 1)]
            /\ subs' = subs
        BY <3>2, <4>1, SendKeepsChannel DEF TaskLoaded
      <4>3. QED BY <3>2, <4>2 DEF TaskLoaded, TaskStates, msVars, histVars, bsaVars,
                   procVars, collVars, mainVars
    <3>3. CASE TaskFailed(a)
      BY <3>3 DEF TaskFailed, PlUnchangedOthers, TaskStates, busVars,
         msVars, histVars, bsaVars, procVars, collVars, mainVars, ghostVars
    <3>4. QED BY <2>5, <3>1, <3>2, <3>3 DEF Task
  <2>6. CASE BsaPoll \/ BsaSleep \/ BsaFetchFailed \/ BsaEmptyBlock
    <3>1. CASE BsaPoll
      <4>1. /\ latest_block' = chain /\ bsaPc' = "loop"
            /\ latest_block' \in Heights /\ latest_block' <= chain
            /\ last_processed_block' \in Heights
            /\ last_processed_block' <= latest_block'
            /\ startHeight' \in Heights \cup {NoValue}
        BY <3>1, SMTT(60) DEF BsaPoll, Heights
      <4>2. /\ UNCHANGED <<chain, db, pools, current_block, sent, rx, subs>>
            /\ UNCHANGED <<histPc, histBlock, batchIdx, plPc, processed, taskPc>>
            /\ UNCHANGED <<procPc, stats, collPc, collected, mainPc, joinIdx>>
            /\ UNCHANGED <<pending, attempted, procSeen, loadedOk, scanFrom,
                           scanned, gaps>>
        BY <3>1 DEF BsaPoll, BsaUnchangedOthers, histVars, plVars,
                    procVars, collVars, mainVars, msVars, busVars
      <4>3. QED BY <4>1, <4>2, ZenonT(40)
    <3>2. CASE BsaSleep
      BY <3>2 DEF BsaSleep, BsaUnchangedOthers, histVars, plVars, procVars, collVars,
                  mainVars, msVars, busVars
    <3>3. CASE BsaFetchFailed
      <4>1. NextBlock \in Heights /\ NextBlock <= latest_block
        BY <3>3 DEF BsaFetchFailed, NextBlock, Heights
      <4>2. attempted' \in Seq(Heights) /\ gaps' \subseteq Heights
        BY <3>3, <4>1 DEF BsaFetchFailed
      <4>3. QED BY SMTT(30), <3>3, <4>1, <4>2 DEF BsaFetchFailed, BsaUnchangedOthers, histVars, plVars,
                   procVars, collVars, mainVars, msVars, busVars
    <3>4. CASE BsaEmptyBlock
      <4>1. NextBlock \in Heights /\ NextBlock <= latest_block
        BY <3>4 DEF BsaEmptyBlock, NextBlock, Heights
      <4>2. attempted' \in Seq(Heights) /\ gaps' \subseteq Heights
        BY <3>4, <4>1 DEF BsaEmptyBlock, BsaUnchangedOthers
      <4>3. QED BY <3>4, <4>1, <4>2 DEF BsaEmptyBlock, BsaUnchangedOthers, histVars, plVars,
                   procVars, collVars, mainVars, msVars, busVars
    <3>5. QED BY <2>6, <3>1, <3>2, <3>3, <3>4
  <2>7. ASSUME NEW d \in Diffs, BsaApply(d) PROVE TypeInv'
    <3> DEFINE aff == GetAffectedPoolsVec(pools, d)
    <3>1. db' \in DB
      BY <2>7, ApplyStateUpdateVecType DEF BsaApply
    <3>2. aff \subseteq Addr
      BY SMTT(30), AffectedFinite
    <3>3. NextBlock \in Heights /\ NextBlock <= latest_block
      BY <2>7 DEF BsaApply, NextBlock, Heights
    <3>4. CASE aff = {}
      BY SMTT(30), <2>7, <3>1, <3>3, <3>4 DEF BsaApply, BsaUnchangedOthers, histVars, plVars, procVars, collVars,
                  mainVars, busVars
    <3>5. CASE aff # {}
      <4>1. pending' \in BlockMsg /\ pending'.block_number <= latest_block
        BY SMTT(30), <2>7, <3>2, <3>3, <3>5 DEF BsaApply, BlockMsg
      <4>2. QED BY SMTT(30), <2>7, <3>1, <3>3, <3>5, <4>1 DEF BsaApply, BsaUnchangedOthers, histVars, plVars, procVars, collVars,
                  mainVars,
                   busVars
    <3>6. QED BY <3>4, <3>5
  <2>8. CASE BsaPublish
    <3>1. pending \in Message
      BY DEF Message
    <3>2. sent' \in Seq(Message) /\ rx' \in [Receivers -> 1..(Len(sent') + 1)]
          /\ subs' = subs
      BY <2>8, <3>1, SendKeepsChannel DEF BsaPublish
    <3>3. pending.block_number \in Heights
      BY SMTT(30), <2>8 DEF BsaPublish, BlockMsg
    <3>4. QED BY SMTT(30), <2>8, <3>2, <3>3 DEF BsaPublish, BsaUnchangedOthers, histVars, plVars, procVars, collVars,
                  mainVars, msVars
  <2>10. CASE Processor
    <3>1. CanRecv("processor") /\ RecvStep("processor")
      BY <2>10 DEF Processor, ProcRecvUpdate, ProcRecvStop, ProcSkip
    <3>2. rx' \in [Receivers -> 1..(Len(sent) + 1)]
          /\ Delivered("processor") \in Message
      BY SMTT(30), <3>1, RecvKeepsPositions
    <3>3. CASE ProcRecvUpdate
      <4> DEFINE m == Delivered("processor")
                 aff == GetAffectedPoolsVec(pools, m.state_update)
      <4>1. m \in BlockMsg
        <5>1. m.kind = "BlockStateUpdate"
          BY <3>3 DEF ProcRecvUpdate
        <5>2. QED BY <3>2, <5>1 DEF Message, BlockMsg, FetchMsg, PoolMsg, StopMsg
      <4>2. Cardinality(aff) \in Nat
        BY ZenonT(40), AffectedFinite
      <4>3. stats' \in [blocks_processed : Nat, total_affected_pools : Nat,
                        last_block : Heights]
        <5>1. m.block_number \in Heights
          BY <4>1 DEF BlockMsg
        <5>2. CASE aff = {}
          BY <3>3, <5>2 DEF ProcRecvUpdate
        <5>3. CASE aff # {}
          BY SMTT(30), <3>3, <4>2, <5>1, <5>3 DEF ProcRecvUpdate
        <5>4. QED BY <5>2, <5>3
      <4>5. procSeen' \in Seq(BlockMsg)
        BY SMTT(30), <3>3, <4>1 DEF ProcRecvUpdate, m
      <4>4. QED BY SMTT(30), <3>2, <3>3, <4>3, <4>5 DEF ProcRecvUpdate, ProcUnchangedOthers,
                   msVars, histVars, plVars, bsaVars, collVars, mainVars
    <3>4. CASE ProcRecvStop
      BY SMTT(30), <3>2, <3>4 DEF ProcRecvStop, ProcUnchangedOthers,
         msVars, histVars, plVars, bsaVars, collVars, mainVars
    <3>5. CASE ProcSkip
      BY SMTT(30), <3>2, <3>5 DEF ProcSkip, ProcUnchangedOthers,
         msVars, histVars, plVars, bsaVars, collVars, mainVars
    <3>6. QED BY <2>10, <3>3, <3>4, <3>5 DEF Processor
  <2>11. CASE Collector
    <3>1. CanRecv("collector") /\ RecvStep("collector")
      BY <2>11 DEF Collector, CollPoolLoaded, CollExit, CollIgnore
    <3>2. rx' \in [Receivers -> 1..(Len(sent) + 1)]
          /\ Delivered("collector") \in Message
      BY <3>1, RecvKeepsPositions
    <3>3. CASE CollPoolLoaded
      <4> DEFINE m == Delivered("collector")
      <4>1. m.pool \in Addr
        BY <3>2, <3>3 DEF CollPoolLoaded, Message, BlockMsg, FetchMsg, PoolMsg,
                          StopMsg
      <4>2. IsFiniteSet(pools')
        BY <3>3, FS_AddElement DEF CollPoolLoaded
      <4>3. QED BY <3>2, <3>3, <4>1, <4>2 DEF CollPoolLoaded, CollUnchangedOthers,
                   histVars, plVars, bsaVars, procVars, mainVars, ghostVars
    <3>4. CASE CollExit
      BY <3>2, <3>4 DEF CollExit, CollUnchangedOthers,
         histVars, plVars, bsaVars, procVars, mainVars, ghostVars
    <3>5. CASE CollIgnore
      BY SMTT(30), <3>2, <3>5 DEF CollIgnore, CollUnchangedOthers,
         histVars, plVars, bsaVars, procVars, mainVars, ghostVars
    <3>6. QED BY <2>11, <3>3, <3>4, <3>5 DEF Collector
  <2>12. CASE Main
    <3>1. CASE MainSpawnBlockState
      BY <3>1 DEF MainSpawnBlockState, MainUnchangedOthers, MainSteps, busVars,
         msVars, histVars, plVars, ghostVars
    <3>5. CASE MainAwaitHistory
      BY SMTT(30), <3>5 DEF MainAwaitHistory, MainUnchangedOthers, MainSteps, busVars,
         msVars, histVars, plVars, ghostVars
    <3>6. CASE MainJoin
      <4>1. joinIdx' \in 1..Len(JoinOrder) /\ mainPc' \in MainSteps
        BY SMTT(30), <3>6 DEF MainJoin, JoinOrder, MainSteps
      <4>2. QED BY <3>6, <4>1 DEF MainJoin, MainUnchangedOthers, busVars,
                   msVars, histVars, plVars, ghostVars
    <3>2. CASE MainSpawnProcessor
      BY SMTT(30), <3>2 DEF MainSpawnProcessor, Subscribe,
         MainUnchangedOthers, MainSteps, msVars, histVars, plVars, ghostVars
    <3>7. CASE MainSpawnCollector
      BY <3>7 DEF MainSpawnCollector, Subscribe,
         MainUnchangedOthers, MainSteps, msVars, histVars, plVars, ghostVars
    <3>3. CASE MainStop
      <4>1. [kind |-> "Stop"] \in Message
        BY DEF Message, StopMsg
      <4>2. sent' \in Seq(Message) /\ rx' \in [Receivers -> 1..(Len(sent') + 1)]
            /\ subs' = subs
        BY <3>3, <4>1, SendKeepsChannel DEF MainStop
      <4>3. QED BY SMTT(30), <3>3, <4>2 DEF MainStop, MainUnchangedOthers, MainSteps,
                   msVars, histVars, plVars, ghostVars
    <3>4. QED BY ZenonT(40), <2>12, <3>1, <3>2, <3>3, <3>5, <3>6, <3>7 DEF Main
  <2>9. CASE Terminated \/ UNCHANGED vars
    <3>1. UNCHANGED vars
      BY <2>9 DEF Terminated
    <3>2. /\ UNCHANGED <<chain, db, pools, current_block, sent, rx, subs>>
          /\ UNCHANGED <<histPc, histBlock, batchIdx, plPc, processed, taskPc>>
          /\ UNCHANGED <<bsaPc, last_processed_block, latest_block, pending>>
          /\ UNCHANGED <<procPc, stats, collPc, collected, mainPc, joinIdx>>
          /\ UNCHANGED <<startHeight, attempted, procSeen, loadedOk, scanFrom,
                         scanned, gaps>>
      BY <3>1 DEF vars, msVars, busVars, histVars, plVars, bsaVars,
                  procVars, collVars, mainVars, ghostVars
    <3>3. QED BY <3>2
  <2>13. QED BY <2>1, <2>2, <2>3, <2>4, <2>5, <2>6, <2>7, <2>8, <2>9, <2>10,
                <2>11, <2>12, ZenonT(60) DEF Next, History, BlockStateActor
<1>3. QED BY <1>1, <1>2, PTL DEF Spec

(* Pipeline.TypeOK holds in every reachable state: every actor's state,   *)
(* the broadcast channel's cursors, the BlockStateActor's cursor and the  *)
(* processor's counters keep their types whatever the interleaving.       *)
THEOREM TypeCorrectness == Spec => []TypeOK
BY TypeInvariant, PTL DEF TypeInv
==============================================================================
