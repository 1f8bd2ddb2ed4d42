---------------------------- MODULE PipelineProofs ----------------------------
(***************************************************************************)
(* Proofs about the Pipeline specification.                              *)
(***************************************************************************)
EXTENDS Pipeline, SequenceTheorems, TLAPS

(* The part of BlockStateActor's state the cursor argument needs: the     *)
(* cursor and the block being published are consistent with the ghost    *)
(* record of handled blocks, and before the first poll nothing has been   *)
(* handled.                                                                *)
CursorInv ==
  /\ last_processed_block \in Nat
  /\ latest_block \in Nat
  /\ chain \in 1..MaxHeight
  /\ attempted \in Seq(Nat)
  /\ startHeight \in Nat \cup {NoValue}
  /\ bsaPc \in {"unspawned", "poll", "loop", "publish"}
  /\ bsaPc = "publish" => pending.block_number = last_processed_block + 1
  /\ startHeight = NoValue =>
       /\ attempted = <<>>
       /\ last_processed_block = 0
       /\ bsaPc \in {"unspawned", "poll"}
  /\ startHeight # NoValue => startHeight \in 1..MaxHeight
  /\ mainPc = "spawnBlockState" => bsaPc = "unspawned"
  /\ NoBlockSkippedOrRepeated

-----------------------------------------------------------------------------
(* Appending the next block number to an initial segment of consecutive   *)
(* block numbers gives the next segment.                                  *)
LEMMA AppendConsecutive ==
  ASSUME NEW s \in Nat, NEW n \in Nat,
         NEW q, q = [i \in 1..n |-> s + i]
  PROVE  Append(q, s + n + 1) = [i \in 1..(n + 1) |-> s + i]
  OBVIOUS
-----------------------------------------------------------------------------
(* BlockStateActor hands every block after its starting height to         *)
(* process_block exactly once and in order, provided the chain is past    *)
(* genesis when the actor starts (the run MC_Pipeline_genesis shows the   *)
(* block skipped otherwise).  The cursor argument needs the strengthening *)
(* CursorInv: before the first poll nothing was handled, and while a      *)
(* BlockStateUpdate is being sent its block is the one after the cursor.  *)
THEOREM CursorCorrect ==
  ASSUME 0 \notin StartHeights
  PROVE  Spec => []NoBlockSkippedOrRepeated
<1> USE PipelineAssumption
<1>1. Init => CursorInv
  BY DEF Init, CursorInv, NoBlockSkippedOrRepeated
<1>2. CursorInv /\ [Next]_vars => CursorInv'
  <2> SUFFICES ASSUME CursorInv, [Next]_vars PROVE CursorInv'
    OBVIOUS
  <2> DEFINE n == Len(attempted)
  <2>1. startHeight # NoValue =>
          /\ attempted = [i \in 1..n |-> startHeight + i]
          /\ startHeight + n
               = last_processed_block + (IF bsaPc = "publish" THEN 1 ELSE 0)
    BY DEF CursorInv, NoBlockSkippedOrRepeated
  <2>a. ASSUME startHeight # NoValue, bsaPc = "loop",
              attempted' = Append(attempted, last_processed_block + 1)
       PROVE  /\ attempted' = [i \in 1..(n + 1) |-> startHeight + i]
              /\ attempted' \in Seq(Nat)
              /\ Len(attempted') = n + 1
    <3>0. (IF bsaPc = "publish" THEN 1 ELSE 0) = 0
      BY <2>a
    <3>1. attempted = [i \in 1..n |-> startHeight + i]
          /\ startHeight + n = last_processed_block
      BY <2>1, <2>a, <3>0 DEF CursorInv
    <3>2. startHeight \in Nat /\ n \in Nat
      BY <2>a DEF CursorInv
    <3>3. attempted' = [i \in 1..(n + 1) |-> startHeight + i]
      BY <2>a, <3>1, <3>2, AppendConsecutive
    <3>4. QED
      BY <3>2, <3>3
  <2>2. CASE ChainGrows
    BY <2>2 DEF ChainGrows, CursorInv, NoBlockSkippedOrRepeated, bsaVars,
                ghostVars, mainVars
  <2>3. CASE BsaPoll
    <3>1. CASE startHeight = NoValue
      BY <2>3, <3>1 DEF BsaPoll, BsaUnchangedOthers, mainVars, CursorInv, NoBlockSkippedOrRepeated
    <3>2. CASE startHeight # NoValue
      <4>1. last_processed_block # 0
        BY <2>1, <2>3, <3>2 DEF BsaPoll, BsaUnchangedOthers, mainVars, CursorInv
      <4>2. QED
        BY <2>1, <2>3, <3>2, <4>1 DEF BsaPoll, BsaUnchangedOthers, mainVars, CursorInv,
           NoBlockSkippedOrRepeated
    <3>3. QED
      BY <3>1, <3>2
  <2>4. CASE BsaSleep
    BY <2>1, <2>4 DEF BsaSleep, BsaUnchangedOthers, mainVars, CursorInv, NoBlockSkippedOrRepeated
  <2>5. CASE BsaFetchFailed \/ BsaEmptyBlock
    <3>1. startHeight # NoValue /\ bsaPc = "loop"
      BY <2>5 DEF BsaFetchFailed, BsaEmptyBlock, BsaUnchangedOthers, mainVars, CursorInv
    <3>2. /\ attempted' = [i \in 1..(n + 1) |-> startHeight + i]
          /\ attempted' \in Seq(Nat)
          /\ Len(attempted') = n + 1
      BY <2>5, <3>1, <2>a DEF BsaFetchFailed, BsaEmptyBlock, NextBlock
    <3>3. CASE BsaFetchFailed
      BY <2>1, <3>3, <3>1, <3>2 DEF BsaFetchFailed, mainVars, NextBlock, CursorInv,
         NoBlockSkippedOrRepeated
    <3>4. CASE BsaEmptyBlock
      BY <2>1, <3>4, <3>1, <3>2 DEF BsaEmptyBlock, BsaUnchangedOthers, mainVars, NextBlock, CursorInv,
         NoBlockSkippedOrRepeated
    <3>5. QED
      BY <2>5, <3>3, <3>4
  <2>6. CASE \E d \in Diffs : BsaApply(d)
    <3>1. PICK d \in Diffs : BsaApply(d)
      BY <2>6
    <3>2. startHeight # NoValue /\ bsaPc = "loop"
      BY <3>1 DEF BsaApply, BsaUnchangedOthers, mainVars, CursorInv
    <3>3. /\ attempted' = [i \in 1..(n + 1) |-> startHeight + i]
          /\ attempted' \in Seq(Nat)
          /\ Len(attempted') = n + 1
      BY <3>1, <3>2, <2>a DEF BsaApply, NextBlock
    <3>4. QED
      <4>1. CASE GetAffectedPoolsVec(pools, d) = {}
        BY SMTT(30), <2>1, <3>1, <3>2, <3>3, <4>1 DEF BsaApply, BsaUnchangedOthers, mainVars,
           NextBlock, CursorInv, NoBlockSkippedOrRepeated
      <4>2. CASE GetAffectedPoolsVec(pools, d) # {}
        <5>1. /\ bsaPc' = "publish"
              /\ pending'.block_number = last_processed_block + 1
              /\ UNCHANGED <<last_processed_block, latest_block, chain,
                             startHeight, mainPc>>
          BY <3>1, <4>2 DEF BsaApply, BsaUnchangedOthers, mainVars, NextBlock
        <5>2. n \in Nat /\ startHeight \in Nat
          BY <3>2 DEF CursorInv
        <5>3. startHeight + n = last_processed_block
          BY <2>1, <3>2 DEF CursorInv
        <5>4. NoBlockSkippedOrRepeated'
          BY <3>3, <5>1, <5>2, <5>3 DEF NoBlockSkippedOrRepeated
        <5>5. mainPc' # "spawnBlockState"
          BY <3>2, <5>1 DEF CursorInv
        <5>6. QED
          BY <3>2, <3>3, <5>1, <5>2, <5>4, <5>5 DEF CursorInv
      <4>3. QED
        BY <4>1, <4>2
  <2>7. CASE BsaPublish
    BY <2>1, <2>7 DEF BsaPublish, BsaUnchangedOthers, mainVars, CursorInv, NoBlockSkippedOrRepeated
  <2>8. CASE Processor
    BY <2>8 DEF Processor, ProcRecvUpdate, ProcRecvStop, ProcSkip,
       ProcUnchangedOthers, mainVars, CursorInv, NoBlockSkippedOrRepeated, bsaVars
  <2>9. CASE Collector
    BY <2>9 DEF Collector, CollPoolLoaded, CollExit, CollIgnore,
       CollUnchangedOthers, mainVars, CursorInv, NoBlockSkippedOrRepeated, bsaVars,
       ghostVars
  <2>10. CASE PoolLoader
    BY SMTT(30), <2>10 DEF PoolLoader, PlRecvFetch, PlRecvStop, PlSkip,
       PlUnchangedOthers, CursorInv, NoBlockSkippedOrRepeated, bsaVars,
       ghostVars, mainVars
  <2>11. CASE \E a \in Addr : Task(a)
    BY SMTT(30), <2>11 DEF Task, TaskAcquire, TaskLoaded, TaskFailed,
       PlUnchangedOthers, CursorInv, NoBlockSkippedOrRepeated, bsaVars,
       ghostVars, mainVars
  <2>12. CASE History
    BY <2>12 DEF History, HistStart, HistStartFailed, HistGenesis, HistScan,
       HistFinish, HistUnchangedOthers, CursorInv, NoBlockSkippedOrRepeated,
       bsaVars, mainVars
  <2>13. CASE Main
    BY <2>13 DEF Main, MainSpawnBlockState, MainSpawnProcessor,
       MainSpawnCollector, MainAwaitHistory, MainStop, MainJoin,
       MainUnchangedOthers, CursorInv, NoBlockSkippedOrRepeated, ghostVars
  <2>14. CASE Terminated
    BY <2>14 DEF Terminated, vars, CursorInv, NoBlockSkippedOrRepeated,
       bsaVars, ghostVars, mainVars
  <2>15. CASE UNCHANGED vars
    BY <2>15 DEF vars, CursorInv, NoBlockSkippedOrRepeated, bsaVars,
       ghostVars, mainVars
  <2>16. QED
    BY <2>2, <2>3, <2>4, <2>5, <2>6, <2>7, <2>8, <2>9, <2>10, <2>11, <2>12,
       <2>13, <2>14, <2>15 DEF Next, BlockStateActor
<1>3. CursorInv => NoBlockSkippedOrRepeated
  BY DEF CursorInv
<1>4. QED
  BY <1>1, <1>2, <1>3, PTL DEF Spec
-----------------------------------------------------------------------------
(* The strengthening behind ProcessorStatsExact.  BlockIdx are the        *)
(* positions of BlockStateUpdates on the channel; Justified(m) says the   *)
(* pools BlockStateActor found affected by m are non-empty and still      *)
(* affected by m's diff under the current pool registry.                  *)
ProofMsg == [kind : {"BlockStateUpdate"}, block_number : Nat,
             state_update : Diffs, affected : SUBSET Addr]
            \cup FetchMsg \cup PoolMsg \cup StopMsg

BlockIdx == {i \in 1..Len(sent) : sent[i].kind = "BlockStateUpdate"}

JustifiedIn(P, m) ==
  /\ m.affected # {}
  /\ m.affected \subseteq GetAffectedPoolsVec(P, m.state_update)

Justified(m) == JustifiedIn(pools, m)

LastSeen == IF procSeen = <<>> THEN 0 ELSE procSeen[Len(procSeen)].block_number

(* While publishing, the pending BlockStateUpdate is justified and is the *)
(* block after the cursor.                                                 *)
PendingOk ==
  bsaPc = "publish" =>
    /\ pending \in ProofMsg
    /\ pending.kind = "BlockStateUpdate"
    /\ pending.block_number = last_processed_block + 1
    /\ Justified(pending)

(* Every BlockStateUpdate on the channel is justified and numbered above  *)
(* zero and at most the cursor, in increasing order.                      *)
SentOk ==
  \A i \in BlockIdx :
    /\ Justified(sent[i])
    /\ sent[i].block_number \in 1..last_processed_block

SentOrdered ==
  \A i, j \in BlockIdx : i < j => sent[i].block_number < sent[j].block_number

(* The ones the processor has not read yet are above the last one it read. *)
UnreadAbove ==
  \A i \in BlockIdx : i >= rx["processor"] => LastSeen < sent[i].block_number

(* What the processor read was justified.                                  *)
SeenOk ==
  \A i \in 1..Len(procSeen) :
    procSeen[i].kind = "BlockStateUpdate" /\ Justified(procSeen[i])

StatsInv ==
  /\ sent \in Seq(ProofMsg)
  /\ chain \in Nat
  /\ rx \in [Receivers -> Nat]
  /\ rx["processor"] \in 1..(Len(sent) + 1)
  /\ pools \subseteq Addr
  /\ last_processed_block \in Nat
  /\ procSeen \in Seq(ProofMsg)
  /\ PendingOk
  /\ SentOk
  /\ SentOrdered
  /\ UnreadAbove
  /\ LastSeen =< last_processed_block
  /\ SeenOk
  /\ ProcessorStatsExact

-----------------------------------------------------------------------------
(* The pools get_affected_pools_vec reports are registered pools, and     *)
(* registering more pools never removes one from its result.              *)
LEMMA AffectedInPools ==
  ASSUME NEW P, NEW v
  PROVE  GetAffectedPoolsVec(P, v) \subseteq P
  BY DEF GetAffectedPoolsVec, GetAffectedPools

LEMMA JustifiedMono ==
  ASSUME NEW P, NEW Q, P \subseteq Q, NEW m, JustifiedIn(P, m)
  PROVE  JustifiedIn(Q, m)
  BY DEF JustifiedIn, GetAffectedPoolsVec, GetAffectedPools

(* StatsInv holds in every reachable state: the channel history is well *)
(* typed and every BlockStateUpdate on it is justified and in order.       *)
LEMMA StatsInvariant == Spec => []StatsInv
<1> USE PipelineAssumption, BusAssumption
<1>1. Init => StatsInv
  BY DEF Init, StatsInv, BlockIdx, LastSeen, ProcessorStatsExact, PendingOk,
         SentOk, SentOrdered, UnreadAbove, SeenOk
<1>2. StatsInv /\ [Next]_vars => StatsInv'
  <2> SUFFICES ASSUME StatsInv, [Next]_vars PROVE StatsInv'
    OBVIOUS
  <2>ls. LastSeen \in Nat
    <3>1. CASE procSeen # <<>>
      <4>1. procSeen[Len(procSeen)] \in ProofMsg
            /\ procSeen[Len(procSeen)].kind = "BlockStateUpdate"
        BY <3>1 DEF StatsInv, SeenOk
      <4>2. QED
        BY <3>1, <4>1 DEF LastSeen, ProofMsg, FetchMsg, PoolMsg, StopMsg
    <3>2. QED
      BY <3>1 DEF LastSeen
  <2>u. ASSUME sent' \in Seq(ProofMsg), Len(sent) =< Len(sent'),
               BlockIdx' = BlockIdx, \A i \in BlockIdx : sent'[i] = sent[i],
               chain' \in Nat,
               pools \subseteq pools', pools' \subseteq Addr,
               rx' \in [Receivers -> Nat],
               rx'["processor"] \in rx["processor"]..(Len(sent') + 1),
               last_processed_block' \in Nat,
               last_processed_block =< last_processed_block',
               PendingOk',
               UNCHANGED <<procSeen, stats>>
        PROVE  StatsInv'
    <3>1. BlockIdx' = BlockIdx
      BY <2>u
    <3>2. LastSeen' = LastSeen
      BY <2>u DEF LastSeen
    <3>3. ASSUME NEW m, Justified(m) PROVE Justified(m)'
      BY <2>u, <3>3, JustifiedMono DEF Justified
    <3>4. PendingOk'
      BY <2>u
    <3>5. SentOk'
      <4>1. SUFFICES ASSUME NEW i \in BlockIdx
                     PROVE  /\ JustifiedIn(pools', sent'[i])
                            /\ sent'[i].block_number \in 1..last_processed_block'
        BY <3>1 DEF SentOk, Justified
      <4>2. JustifiedIn(pools, sent[i]) /\ sent[i].block_number \in 1..last_processed_block
        BY DEF StatsInv, SentOk, Justified
      <4>3. JustifiedIn(pools', sent[i])
        <5>1. pools \subseteq pools'
          BY <2>u
        <5>2. JustifiedIn(pools, sent[i])
          BY <4>2
        <5>3. QED
          BY <5>1, <5>2, JustifiedMono
      <4>4. sent'[i] = sent[i]
        BY <2>u
      <4>5. sent[i].block_number \in 1..last_processed_block'
        <5>1. last_processed_block \in Nat
          BY DEF StatsInv
        <5>2. QED
          BY <2>u, <4>2, <5>1
      <4>6. QED
        BY <4>3, <4>4, <4>5
    <3>6. SeenOk'
      BY SMTT(30), <2>u, <3>3 DEF StatsInv, SeenOk
    <3>7. ProcessorStatsExact'
      <4>1. \A i \in 1..Len(procSeen') :
              procSeen'[i].affected \subseteq
                GetAffectedPoolsVec(pools', procSeen'[i].state_update)
        BY <3>6 DEF SeenOk, Justified, JustifiedIn
      <4>2. QED
        BY <2>u, <4>1 DEF StatsInv, ProcessorStatsExact
    <3>8. SentOrdered'
      BY <2>u, <3>1 DEF StatsInv, SentOrdered
    <3>12. UnreadAbove'
      <4>1. \A i \in BlockIdx : i \in Nat
        BY DEF BlockIdx
      <4>2. SUFFICES ASSUME NEW i \in BlockIdx, i >= rx'["processor"]
                     PROVE  LastSeen < sent[i].block_number
        BY <2>u, <3>1, <3>2 DEF UnreadAbove
      <4>3. i >= rx["processor"]
        BY <2>u, <4>1, <4>2 DEF StatsInv
      <4>4. QED
        BY <4>2, <4>3 DEF StatsInv, UnreadAbove
    <3>9. rx'["processor"] \in 1..(Len(sent') + 1)
      BY SMTT(30), <2>u DEF StatsInv
    <3>10. LastSeen' =< last_processed_block'
      BY <2>u, <2>ls, <3>2 DEF StatsInv
    <3>11. QED
      BY <2>u, <3>4, <3>5, <3>6, <3>7, <3>8, <3>9, <3>10, <3>12 DEF StatsInv
  <2>a. ASSUME NEW m \in ProofMsg, m.kind # "BlockStateUpdate",
               sent' = IF SendOk THEN Append(sent, m) ELSE sent,
               chain' \in Nat, rx' = rx,
               UNCHANGED <<pools, last_processed_block, bsaPc, pending,
                           procSeen, stats>>
        PROVE  StatsInv'
    <3>1. /\ sent' \in Seq(ProofMsg)
          /\ Len(sent) =< Len(sent')
          /\ \A i \in 1..Len(sent) : sent'[i] = sent[i]
          /\ \A i \in (Len(sent) + 1)..Len(sent') : sent'[i] = m
      BY <2>a, AppendProperties DEF StatsInv
    <3>2. BlockIdx' = BlockIdx
      BY <2>a, <3>1 DEF BlockIdx
    <3>3. \A i \in BlockIdx : sent'[i] = sent[i]
      BY <3>1 DEF BlockIdx
    <3>4. rx'["processor"] \in rx["processor"]..(Len(sent') + 1)
      BY <2>a, <3>1 DEF StatsInv
    <3>5. rx' \in [Receivers -> Nat] /\ pools' \subseteq Addr
      BY <2>a DEF StatsInv
    <3>6. /\ last_processed_block' \in Nat
          /\ last_processed_block =< last_processed_block'
          /\ PendingOk'
          /\ pools \subseteq pools'
          /\ UNCHANGED <<procSeen, stats>>
      BY <2>a DEF StatsInv, PendingOk, Justified
    <3>7. QED
      BY <2>a, <2>u, <3>1, <3>2, <3>3, <3>4, <3>5, <3>6
  <2> DEFINE Quiet ==
         /\ sent' = sent
         /\ chain' \in Nat
         /\ pools \subseteq pools' /\ pools' \subseteq Addr
         /\ rx' \in [Receivers -> Nat]
         /\ rx'["processor"] \in rx["processor"]..(Len(sent) + 1)
         /\ last_processed_block' \in Nat
         /\ last_processed_block =< last_processed_block'
         /\ bsaPc' = "publish" =>
              bsaPc = "publish" /\ last_processed_block' = last_processed_block
         /\ UNCHANGED <<pending, procSeen, stats>>
  <2>v. ASSUME Quiet PROVE StatsInv'
    <3>0. PendingOk'
      <4>1. SUFFICES ASSUME bsaPc' = "publish"
                     PROVE  /\ pending \in ProofMsg
                            /\ pending.kind = "BlockStateUpdate"
                            /\ pending.block_number = last_processed_block + 1
                            /\ JustifiedIn(pools', pending)
        BY <2>v DEF PendingOk, Justified
      <4>2. /\ pending \in ProofMsg
            /\ pending.kind = "BlockStateUpdate"
            /\ pending.block_number = last_processed_block + 1
            /\ JustifiedIn(pools, pending)
        BY <2>v, <4>1 DEF StatsInv, PendingOk, Justified
      <4>3. QED
        BY <2>v, <4>2, JustifiedMono
    <3>1. sent' \in Seq(ProofMsg) /\ Len(sent) =< Len(sent')
      BY <2>v DEF StatsInv
    <3>2. BlockIdx' = BlockIdx
      BY <2>v DEF BlockIdx
    <3>3. QED
      BY <2>v, <2>u, <3>0, <3>1, <3>2
  <2>r. ASSUME NEW r \in Receivers, r # "processor", RecvStep(r)
        PROVE  rx' \in [Receivers -> Nat] /\ rx'["processor"] = rx["processor"]
    BY <2>r DEF RecvStep, StatsInv, Oldest, IsLagged
  <2>p. ASSUME CanRecv("processor"), RecvStep("processor")
        PROVE  /\ rx' \in [Receivers -> Nat]
               /\ rx'["processor"] \in rx["processor"]..(Len(sent) + 1)
    BY SMTT(30), <2>p DEF RecvStep, StatsInv, Oldest, IsLagged, CanRecv
  <2>1. CASE ChainGrows
    <3>1. Quiet
      BY <2>1 DEF ChainGrows, StatsInv, msVars, busVars, bsaVars, procVars,
                  ghostVars
    <3>2. QED
      BY <3>1, <2>v
  <2>2. CASE History
    <3>1. CASE HistStart \/ HistStartFailed \/ HistGenesis \/ HistFinish
      <4>1. Quiet
        BY <3>1 DEF HistStart, HistStartFailed, HistGenesis, HistFinish,
                    HistUnchangedOthers, StatsInv, msVars, busVars, bsaVars,
                    procVars
      <4>2. QED
        BY <4>1, <2>v
    <3>2. ASSUME NEW P \in Found, HistScan(P)
          PROVE  StatsInv'
      <4>1. CASE P = {}
        <5>1. Quiet
          BY <3>2, <4>1 DEF HistScan, HistUnchangedOthers, StatsInv, msVars,
                            busVars, bsaVars, procVars
        <5>2. QED
          BY <5>1, <2>v
      <4>2. CASE P # {}
        <5> DEFINE m == [kind |-> "FetchPools", pools |-> P]
        <5>1. m \in ProofMsg /\ m.kind # "BlockStateUpdate"
          BY <4>2 DEF ProofMsg, FetchMsg
        <5>2. /\ sent' = IF SendOk THEN Append(sent, m) ELSE sent
              /\ chain' \in Nat /\ rx' = rx
              /\ UNCHANGED <<pools, last_processed_block, bsaPc, pending,
                             procSeen, stats>>
          BY <3>2, <4>2 DEF HistScan, Send, HistUnchangedOthers, StatsInv,
                            msVars, bsaVars, procVars
        <5>3. QED
          BY <5>1, <5>2, <2>a
      <4>3. QED
        BY <4>1, <4>2
    <3>3. QED
      BY SMTT(30), <2>2, <3>1, <3>2 DEF History
  <2>3. CASE PoolLoader
    <3>1. rx' \in [Receivers -> Nat] /\ rx'["processor"] = rx["processor"]
      BY SMTT(30), <2>3, <2>r DEF PoolLoader, PlRecvFetch, PlRecvStop, PlSkip
    <3>2. Quiet
      BY <2>3, <3>1 DEF PoolLoader, PlRecvFetch, PlRecvStop, PlSkip,
                       PlUnchangedOthers, StatsInv, msVars, bsaVars, procVars,
                       ghostVars
    <3>3. QED
      BY <3>2, <2>v
  <2>4. ASSUME NEW a \in Addr, Task(a) PROVE StatsInv'
    <3>1. CASE TaskAcquire(a) \/ TaskFailed(a)
      <4>1. Quiet
        BY <3>1 DEF TaskAcquire, TaskFailed, PlUnchangedOthers, StatsInv,
                    msVars, busVars, bsaVars, procVars, ghostVars
      <4>2. QED
        BY <4>1, <2>v
    <3>2. CASE TaskLoaded(a)
      <4> DEFINE m == [kind |-> "PoolLoaded", pool |-> a]
      <4>1. m \in ProofMsg /\ m.kind # "BlockStateUpdate"
        BY DEF ProofMsg, PoolMsg
      <4>2. /\ sent' = IF SendOk THEN Append(sent, m) ELSE sent
            /\ chain' \in Nat /\ rx' = rx
            /\ UNCHANGED <<pools, last_processed_block, bsaPc, pending,
                           procSeen, stats>>
        BY <3>2 DEF TaskLoaded, Send, StatsInv, msVars, bsaVars, procVars
      <4>3. QED
        BY <4>1, <4>2, <2>a
    <3>3. QED
      BY <2>4, <3>1, <3>2 DEF Task
  <2>5. CASE Collector
    <3>1. rx' \in [Receivers -> Nat] /\ rx'["processor"] = rx["processor"]
      BY <2>5, <2>r DEF Collector, CollPoolLoaded, CollExit, CollIgnore
    <3>2. CASE CollPoolLoaded
      <4> DEFINE m == Delivered("collector")
      <4>1. rx["collector"] \in 1..Len(sent)
        BY <3>2 DEF CollPoolLoaded, CanRecv, IsLagged, Oldest, StatsInv
      <4>2. m \in ProofMsg /\ m.kind = "PoolLoaded"
        BY <3>2, <4>1 DEF CollPoolLoaded, Delivered, StatsInv
      <4>3. m.pool \in Addr
        BY <4>2 DEF ProofMsg, FetchMsg, PoolMsg, StopMsg
      <4>4. Quiet
        BY SMTT(30), <3>1, <3>2, <4>3 DEF CollPoolLoaded, CollUnchangedOthers, StatsInv,
                               bsaVars, procVars, ghostVars
      <4>5. QED
        BY <4>4, <2>v
    <3>3. CASE CollExit \/ CollIgnore
      <4>1. Quiet
        BY <3>1, <3>3 DEF CollExit, CollIgnore, CollUnchangedOthers, StatsInv,
                         bsaVars, procVars, ghostVars
      <4>2. QED
        BY <4>1, <2>v
    <3>4. QED
      BY <2>5, <3>2, <3>3 DEF Collector
  <2>6. CASE Main
    <3>1. CASE MainSpawnBlockState \/ MainAwaitHistory \/ MainJoin
      <4>1. Quiet
        BY <3>1 DEF MainSpawnBlockState, MainAwaitHistory, MainJoin,
                    MainUnchangedOthers, StatsInv, msVars, busVars, ghostVars
      <4>2. QED
        BY <4>1, <2>v
    <3>2. CASE MainSpawnProcessor \/ MainSpawnCollector
      <4>1. Quiet
        BY <3>2 DEF MainSpawnProcessor, MainSpawnCollector, Subscribe,
                    MainUnchangedOthers, StatsInv, msVars, ghostVars
      <4>2. QED
        BY <4>1, <2>v
    <3>3. CASE MainStop
      <4> DEFINE m == [kind |-> "Stop"]
      <4>1. m \in ProofMsg /\ m.kind # "BlockStateUpdate"
        BY DEF ProofMsg, StopMsg
      <4>2. /\ sent' = IF SendOk THEN Append(sent, m) ELSE sent
            /\ chain' \in Nat /\ rx' = rx
            /\ UNCHANGED <<pools, last_processed_block, bsaPc, pending,
                           procSeen, stats>>
        BY <3>3 DEF MainStop, Send, MainUnchangedOthers, StatsInv, msVars,
                    ghostVars
      <4>3. QED
        BY <4>1, <4>2, <2>a
    <3>4. QED
      BY SMTT(30), <2>6, <3>1, <3>2, <3>3 DEF Main
  <2>7. CASE Terminated \/ UNCHANGED vars
    <3>1. Quiet
      BY <2>7 DEF Terminated, vars, StatsInv, msVars, busVars, histVars,
                  plVars, bsaVars, procVars, collVars, mainVars, ghostVars
    <3>2. QED
      BY <3>1, <2>v
  <2>8. CASE BsaPoll \/ BsaSleep \/ BsaFetchFailed \/ BsaEmptyBlock
    <3>1. Quiet
      BY SMTT(30), <2>8 DEF BsaPoll, BsaSleep, BsaFetchFailed, BsaEmptyBlock, BsaUnchangedOthers,
                  NextBlock, StatsInv, msVars, busVars, procVars
    <3>2. QED
      BY <3>1, <2>v
  <2>9. CASE ProcRecvStop \/ ProcSkip
    <3>1. rx' \in [Receivers -> Nat]
          /\ rx'["processor"] \in rx["processor"]..(Len(sent) + 1)
      BY <2>9, <2>p DEF ProcRecvStop, ProcSkip
    <3>2. Quiet
      BY <2>9, <3>1 DEF ProcRecvStop, ProcSkip, ProcUnchangedOthers,
                       StatsInv, msVars, bsaVars
    <3>3. QED
      BY <3>2, <2>v
  <2>10. ASSUME NEW d \in Diffs, BsaApply(d) PROVE StatsInv'
    <3> DEFINE affected == GetAffectedPoolsVec(pools, d)
    <3>1. CASE affected = {}
      <4>1. Quiet
        BY SMTT(30), <2>10, <3>1 DEF BsaApply, BsaUnchangedOthers, NextBlock, StatsInv,
                          busVars, procVars
      <4>2. QED
        BY <4>1, <2>v
    <3>2. CASE affected # {}
      <4>1. /\ pending' = [kind |-> "BlockStateUpdate",
                           block_number |-> last_processed_block + 1,
                           state_update |-> d, affected |-> affected]
            /\ bsaPc' = "publish"
            /\ UNCHANGED <<sent, chain, pools, rx, last_processed_block,
                           procSeen, stats>>
        BY <2>10, <3>2 DEF BsaApply, BsaUnchangedOthers, NextBlock, busVars,
                          procVars
      <4>2. affected \subseteq Addr
        BY AffectedInPools DEF StatsInv
      <4>3. PendingOk'
        BY SMTT(30), <4>1, <4>2, <3>2 DEF PendingOk, Justified, JustifiedIn, ProofMsg,
                               StatsInv
      <4>4. BlockIdx' = BlockIdx
        BY <4>1 DEF BlockIdx
      <4>5. QED
        BY <4>1, <4>3, <4>4, <2>u DEF StatsInv
    <3>3. QED
      BY <3>1, <3>2
  <2>11. CASE BsaPublish
    <3>1. /\ pending \in ProofMsg
          /\ pending.kind = "BlockStateUpdate"
          /\ pending.block_number = last_processed_block + 1
          /\ Justified(pending)
      BY <2>11 DEF BsaPublish, StatsInv, PendingOk
    <3>2. /\ last_processed_block' = last_processed_block + 1
          /\ bsaPc' = "loop"
          /\ UNCHANGED <<chain, pools, rx, pending, procSeen, stats>>
      BY <2>11, <3>1 DEF BsaPublish, Send, BsaUnchangedOthers, msVars,
                         procVars, ghostVars
    <3>3. CASE ~SendOk
      <4>1. Quiet
        BY <2>11, <3>1, <3>2, <3>3 DEF BsaPublish, Send, StatsInv
      <4>2. QED
        BY <4>1, <2>v
    <3>4. CASE SendOk
      <4> DEFINE n == Len(sent)
      <4>1. /\ sent' \in Seq(ProofMsg)
            /\ Len(sent') = n + 1
            /\ \A i \in 1..n : sent'[i] = sent[i]
            /\ sent'[n + 1] = pending
        BY <2>11, <3>1, <3>4, AppendProperties DEF BsaPublish, Send, StatsInv
      <4>2. BlockIdx' = BlockIdx \cup {n + 1}
        BY <4>1, <3>1 DEF BlockIdx
      <4>3. BlockIdx \subseteq 1..n
        BY DEF BlockIdx
      <4>4. LastSeen' = LastSeen
        BY <3>2 DEF LastSeen
      <4>5. SentOk'
        <5>1. SUFFICES ASSUME NEW i \in BlockIdx'
                       PROVE  /\ JustifiedIn(pools', sent'[i])
                              /\ sent'[i].block_number \in 1..last_processed_block'
          BY DEF SentOk, Justified
        <5>2. CASE i \in BlockIdx
          <6>1. sent'[i] = sent[i]
            BY <5>2, <4>1, <4>3
          <6>2. JustifiedIn(pools, sent[i])
                /\ sent[i].block_number \in 1..last_processed_block
            BY <5>2 DEF StatsInv, SentOk, Justified
          <6>3. QED
            BY <6>1, <6>2, <3>2 DEF StatsInv
        <5>3. CASE i = n + 1
          BY <5>3, <3>1, <3>2, <4>1 DEF Justified, StatsInv
        <5>4. QED
          BY <5>1, <5>2, <5>3, <4>2
      <4>6. SentOrdered'
        <5>1. SUFFICES ASSUME NEW i \in BlockIdx', NEW j \in BlockIdx', i < j
                       PROVE  sent'[i].block_number < sent'[j].block_number
          BY DEF SentOrdered
        <5>2. i \in BlockIdx /\ sent'[i] = sent[i]
          BY <5>1, <4>1, <4>2, <4>3
        <5>3. sent[i].block_number \in 1..last_processed_block
          BY <5>2 DEF StatsInv, SentOk
        <5>4. CASE j \in BlockIdx
          <6>1. sent'[j] = sent[j]
            BY <5>4, <4>1, <4>3
          <6>2. QED
            BY <5>1, <5>2, <5>4, <6>1 DEF StatsInv, SentOrdered
        <5>5. CASE j = n + 1
          BY SMTT(30), <5>2, <5>3, <5>5, <3>1, <4>1 DEF StatsInv
        <5>6. QED
          BY <5>1, <5>4, <5>5, <4>2
      <4>7. UnreadAbove'
        <5>1. SUFFICES ASSUME NEW i \in BlockIdx', i >= rx'["processor"]
                       PROVE  LastSeen' < sent'[i].block_number
          BY DEF UnreadAbove
        <5>2. CASE i \in BlockIdx
          <6>1. sent'[i] = sent[i]
            BY <5>2, <4>1, <4>3
          <6>2. i >= rx["processor"]
            BY <5>1, <3>2
          <6>3. QED
            BY <5>2, <6>1, <6>2, <4>4 DEF StatsInv, UnreadAbove
        <5>3. CASE i = n + 1
          BY <5>3, <2>ls, <3>1, <4>1, <4>4 DEF StatsInv
        <5>4. QED
          BY <5>1, <5>2, <5>3, <4>2
      <4>8. PendingOk' /\ SeenOk' /\ ProcessorStatsExact'
        <5>1. PendingOk'
          BY SMTT(30), <3>2 DEF PendingOk
        <5>2. SeenOk'
          BY <3>2 DEF StatsInv, SeenOk, Justified
        <5>3. ProcessorStatsExact'
          BY <3>2 DEF StatsInv, ProcessorStatsExact
        <5>4. QED
          BY <5>1, <5>2, <5>3
      <4>9. rx'["processor"] \in 1..(Len(sent') + 1)
        BY <3>2, <4>1 DEF StatsInv
      <4>10. LastSeen' =< last_processed_block'
        BY <2>ls, <3>2, <4>4 DEF StatsInv
      <4>11. QED
        BY <3>2, <4>1, <4>5, <4>6, <4>7, <4>8, <4>9, <4>10 DEF StatsInv
    <3>5. QED
      BY <3>3, <3>4
  <2>12. CASE ProcRecvUpdate
    <3> DEFINE k == rx["processor"]
               m == sent[k]
               L == Len(procSeen)
    <3>1. k \in BlockIdx
      BY SMTT(30), <2>12 DEF ProcRecvUpdate, CanRecv, IsLagged, Oldest, Delivered,
                   StatsInv, BlockIdx
    <3>2. m \in ProofMsg /\ m.kind = "BlockStateUpdate" /\ Justified(m)
          /\ m.block_number \in 1..last_processed_block
      BY SMTT(30), <3>1 DEF StatsInv, SentOk, BlockIdx
    <3>3. GetAffectedPoolsVec(pools, m.state_update) # {}
      BY SMTT(30), <3>2 DEF Justified, JustifiedIn
    <3>4. /\ rx' = [rx EXCEPT !["processor"] = k + 1]
          /\ procSeen' = Append(procSeen, m)
          /\ stats'.blocks_processed = stats.blocks_processed + 1
          /\ stats'.last_block = m.block_number
          /\ UNCHANGED <<sent, chain, pools, last_processed_block, bsaPc,
                         pending>>
      BY SMTT(30), <2>12, <3>3 DEF ProcRecvUpdate, RecvStep, Delivered,
                         ProcUnchangedOthers, msVars, bsaVars
    <3>5. LastSeen < m.block_number
      BY SMTT(30), <3>1 DEF StatsInv, UnreadAbove
    <3>6. /\ procSeen' \in Seq(ProofMsg)
          /\ Len(procSeen') = L + 1
          /\ \A i \in 1..L : procSeen'[i] = procSeen[i]
          /\ procSeen'[L + 1] = m
      <4>1. procSeen \in Seq(ProofMsg)
        BY SMTT(30) DEF StatsInv
      <4>2. m \in ProofMsg
        BY <3>2
      <4>3. /\ Append(procSeen, m) \in Seq(ProofMsg)
            /\ Len(Append(procSeen, m)) = Len(procSeen) + 1
            /\ \A i \in 1..Len(procSeen) : Append(procSeen, m)[i] = procSeen[i]
            /\ Append(procSeen, m)[Len(procSeen) + 1] = m
        BY <4>1, <4>2, AppendProperties
      <4>4. QED BY <3>4, <4>3
    <3>7. LastSeen' = m.block_number
      <4>1. procSeen' # <<>> /\ Len(procSeen') = L + 1 /\ procSeen'[L + 1] = m
        BY <3>6
      <4>2. QED BY <4>1 DEF LastSeen
    <3>8. BlockIdx' = BlockIdx
      BY <3>4 DEF BlockIdx
    <3>9. UnreadAbove'
      <4>0. rx'["processor"] = k + 1
        BY <3>4 DEF StatsInv
      <4>1. SUFFICES ASSUME NEW i \in BlockIdx, i >= k + 1
                     PROVE  m.block_number < sent[i].block_number
        BY <3>4, <3>7, <3>8, <4>0 DEF UnreadAbove
      <4>2. k < i
        BY <4>1, <3>1 DEF BlockIdx
      <4>3. QED
        BY <4>1, <4>2, <3>1 DEF StatsInv, SentOrdered
    <3>10. SeenOk'
      <4>1. SUFFICES ASSUME NEW i \in 1..(L + 1)
                     PROVE  /\ procSeen'[i].kind = "BlockStateUpdate"
                            /\ JustifiedIn(pools, procSeen'[i])
        BY <3>4, <3>6 DEF SeenOk, Justified
      <4>2. CASE i \in 1..L
        BY SMTT(30), <4>2, <3>6 DEF StatsInv, SeenOk, Justified
      <4>3. CASE i = L + 1
        BY <4>3, <3>2, <3>6 DEF Justified
      <4>4. QED
        BY <4>2, <4>3
    <3>11. ProcessorStatsExact'
      <4>1. stats'.blocks_processed = Len(procSeen')
        BY <3>4, <3>6 DEF StatsInv, ProcessorStatsExact
      <4>2. stats'.last_block = IF procSeen' = <<>> THEN 0
                                ELSE procSeen'[Len(procSeen')].block_number
        BY <3>4, <3>6, <3>7 DEF LastSeen
      <4>3. \A i \in 1..(Len(procSeen') - 1) :
              procSeen'[i].block_number < procSeen'[i + 1].block_number
        <5>1. SUFFICES ASSUME NEW i \in 1..L
                       PROVE  procSeen'[i].block_number < procSeen'[i + 1].block_number
          BY SMTT(30), <3>6
        <5>2. CASE i < L
          <6>1. L \in Nat
            BY DEF StatsInv
          <6>2. procSeen'[i] = procSeen[i] /\ procSeen'[i + 1] = procSeen[i + 1]
            BY <5>2, <6>1, <3>6
          <6>3. i \in 1..(L - 1)
            BY <5>2, <6>1
          <6>4. QED
            BY <6>2, <6>3 DEF StatsInv, ProcessorStatsExact
        <5>3. CASE i = L
          BY SMTT(30), <5>3, <3>5, <3>6 DEF LastSeen
        <5>4. QED
          BY <5>2, <5>3
      <4>4. \A i \in 1..Len(procSeen') :
              procSeen'[i].affected \subseteq
                GetAffectedPoolsVec(pools', procSeen'[i].state_update)
        BY SMTT(30), <3>4, <3>10 DEF SeenOk, Justified, JustifiedIn
      <4>5. QED
        BY <4>1, <4>2, <4>3, <4>4 DEF ProcessorStatsExact
    <3>12. PendingOk' /\ SentOk' /\ SentOrdered'
      BY SMTT(30), <3>4, <3>8 DEF StatsInv, PendingOk, SentOk, SentOrdered, Justified
    <3>13. rx' \in [Receivers -> Nat] /\ rx'["processor"] \in 1..(Len(sent') + 1)
      BY SMTT(30), <3>1, <3>4 DEF StatsInv, BlockIdx
    <3>14. QED
      BY SMTT(30), <3>2, <3>4, <3>6, <3>7, <3>9, <3>10, <3>11, <3>12, <3>13
      DEF StatsInv
  <2>13. QED
    BY <2>1, <2>2, <2>3, <2>4, <2>5, <2>6, <2>7, <2>8, <2>9, <2>10, <2>11,
       <2>12 DEF Next, BlockStateActor, Processor
<1>3. QED
  BY <1>1, <1>2, PTL DEF Spec

(* StateUpdateProcessor's statistics count exactly the BlockStateUpdates  *)
(* it received, each with a non-empty recomputed set of affected pools,   *)
(* and last_block is the block of the latest one, received in increasing  *)
(* block order.  The argument is StatsInv: BlockStateActor publishes only *)
(* updates with affected pools (process_block line 137), in cursor order, *)
(* the pool registry only grows (the collector's add_pool), and the       *)
(* broadcast channel delivers to the processor a subsequence of what was  *)
(* sent, in order, even across a Lagged skip.                             *)
THEOREM StatsCorrect == Spec => []ProcessorStatsExact
<1>1. StatsInv => ProcessorStatsExact
  BY DEF StatsInv
<1>2. QED
  BY <1>1, StatsInvariant, PTL
==============================================================================
