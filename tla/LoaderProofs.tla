---------------------------- MODULE LoaderProofs ----------------------------
(***************************************************************************)
(* Proofs about PoolLoaderActor and its fetch tasks (pool_loader_actor.rs) *)
(* within the whole pipeline.                                              *)
(***************************************************************************)
EXTENDS PipelineProofs

TaskState == {"none", "waiting", "fetching", "loaded", "failed"}

(* The strengthening behind LoadedOnce and RegisteredPoolsLoaded: every   *)
(* address with a task is in processed_pools, every PoolLoaded on the      *)
(* channel comes from a task that has finished loading, and the           *)
(* collector's receive position is a channel position.                    *)
LoaderInv ==
  /\ taskPc \in [Addr -> TaskState]
  /\ \A a \in Addr : taskPc[a] # "none" => a \in processed
  /\ \A i \in 1..Len(sent) :
       sent[i].kind = "PoolLoaded" => taskPc[sent[i].pool] = "loaded"
  /\ LoadedOnce
  /\ rx["collector"] \in Nat \ {0}
  /\ RegisteredPoolsLoaded
-----------------------------------------------------------------------------
(* LoaderInv holds in every reachable state.                              *)
LEMMA LoaderInvariant == Spec => []LoaderInv
<1> USE PipelineAssumption, BusAssumption
<1>1. Init => LoaderInv
  BY DEF Init, LoaderInv, LoadedOnce, TaskState, RegisteredPoolsLoaded
<1>2. StatsInv /\ StatsInv' /\ LoaderInv /\ [Next]_vars => LoaderInv'
  <2> SUFFICES ASSUME StatsInv, StatsInv', LoaderInv, [Next]_vars
               PROVE  LoaderInv'
    OBVIOUS
  <2>1. sent \in Seq(ProofMsg) /\ sent' \in Seq(ProofMsg)
    BY DEF StatsInv
  <2>c. rx'["collector"] \in Nat \ {0}
    <3>1. rx \in [Receivers -> Nat] /\ rx["collector"] \in Nat \ {0}
      BY DEF StatsInv, LoaderInv
    <3>2. ASSUME NEW r \in Receivers, RecvStep(r) PROVE rx'["collector"] \in Nat \ {0}
      BY <3>1, <3>2, <2>1 DEF RecvStep, IsLagged, Oldest
    <3>3. ASSUME NEW r \in Receivers, Subscribe(r) PROVE rx'["collector"] \in Nat \ {0}
      BY <3>1, <3>3, <2>1 DEF Subscribe
    <3>4. CASE UNCHANGED rx
      BY <3>1, <3>4
    <3>5. CASE PoolLoader
      BY <3>2, <3>5 DEF PoolLoader, PlRecvFetch, PlRecvStop, PlSkip
    <3>6. CASE Processor
      BY <3>2, <3>6 DEF Processor, ProcRecvUpdate, ProcRecvStop, ProcSkip
    <3>7. CASE Collector
      BY <3>2, <3>7 DEF Collector, CollPoolLoaded, CollExit, CollIgnore
    <3>8. CASE MainSpawnProcessor \/ MainSpawnCollector
      BY <3>3, <3>8 DEF MainSpawnProcessor, MainSpawnCollector
    <3>9. CASE ~PoolLoader /\ ~Processor /\ ~Collector
               /\ ~MainSpawnProcessor /\ ~MainSpawnCollector
      <4>1. UNCHANGED rx
        BY <3>9 DEF Next, vars, busVars, ChainGrows, History, HistStart,
           HistStartFailed, HistGenesis, HistScan, HistFinish, Task,
           TaskAcquire, TaskLoaded, TaskFailed, BlockStateActor, BsaPoll,
           BsaSleep, BsaFetchFailed, BsaEmptyBlock, BsaApply, BsaPublish,
           Main, MainSpawnBlockState, MainAwaitHistory, MainStop, MainJoin,
           Terminated, Send
      <4>2. QED
        BY SMTT(30), <3>4, <4>1
    <3>10. QED
      BY <3>5, <3>6, <3>7, <3>8, <3>9
  <2>u. ASSUME UNCHANGED <<sent, taskPc, processed, pools>> PROVE LoaderInv'
    BY <2>u, <2>c DEF LoaderInv, LoadedOnce, RegisteredPoolsLoaded
  <2>g. ASSUME NEW m, m.kind # "PoolLoaded", Send(m),
               UNCHANGED <<taskPc, processed, pools>>
        PROVE  LoaderInv'
    <3>1. CASE sent' = sent
      BY <3>1, <2>g, <2>u
    <3>2. CASE sent' = Append(sent, m)
      <4>1. /\ Len(sent') = Len(sent) + 1
            /\ sent'[Len(sent')] = m
            /\ \A i \in 1..Len(sent) : sent'[i] = sent[i]
        BY <3>2, <2>1
      <4>2. QED
        BY <4>1, <2>g, <2>c DEF LoaderInv, LoadedOnce, RegisteredPoolsLoaded
    <3>3. QED
      BY <3>1, <3>2, <2>g DEF Send
  <2>2. CASE PlRecvFetch
    <3> DEFINE m == Delivered("poolLoader")
    <3>1. /\ processed' = processed \cup m.pools
          /\ taskPc' = [a \in Addr |->
                          IF a \in m.pools \ processed THEN "waiting"
                          ELSE taskPc[a]]
          /\ UNCHANGED <<sent, pools>>
      BY <2>2 DEF PlRecvFetch, PlUnchangedOthers, msVars
    <3>2. \A i \in 1..Len(sent) :
            sent[i].kind = "PoolLoaded" => sent[i].pool \in Addr
      BY <2>1 DEF ProofMsg, FetchMsg, PoolMsg, StopMsg
    <3>3. \A i \in 1..Len(sent) :
            sent[i].kind = "PoolLoaded" => sent[i].pool \in processed
      BY <3>2 DEF LoaderInv, TaskState
    <3>4. \A a \in pools : a \in Addr /\ a \in processed
      BY SMTT(30) DEF StatsInv, LoaderInv, RegisteredPoolsLoaded
    <3>5. taskPc' \in [Addr -> TaskState]
      BY <3>1 DEF LoaderInv, TaskState
    <3>6. \A a \in Addr : taskPc'[a] # "none" => a \in processed'
      BY <3>1 DEF LoaderInv
    <3>7. \A i \in 1..Len(sent') :
            sent'[i].kind = "PoolLoaded" => taskPc'[sent'[i].pool] = "loaded"
      BY <3>1, <3>2, <3>3 DEF LoaderInv
    <3>8. RegisteredPoolsLoaded'
      BY <3>1, <3>4 DEF LoaderInv, RegisteredPoolsLoaded
    <3>9. LoadedOnce'
      BY <3>1 DEF LoaderInv, LoadedOnce
    <3>10. QED
      BY <3>5, <3>6, <3>7, <3>8, <3>9, <2>c DEF LoaderInv
  <2>3. CASE PlRecvStop \/ PlSkip
    BY <2>3, <2>u DEF PlRecvStop, PlSkip, PlUnchangedOthers, msVars
  <2>4. CASE \E a \in Addr : TaskAcquire(a) \/ TaskFailed(a)
    <3>1. PICK a \in Addr : TaskAcquire(a) \/ TaskFailed(a)
      BY <2>4
    <3>2. \A i \in 1..Len(sent) :
            sent[i].kind = "PoolLoaded" => sent[i].pool \in Addr
      BY <2>1 DEF ProofMsg, FetchMsg, PoolMsg, StopMsg
    <3>3. CASE TaskAcquire(a)
      <4>1. /\ taskPc[a] = "waiting"
            /\ taskPc' = [taskPc EXCEPT ![a] = "fetching"]
            /\ UNCHANGED <<sent, processed, pools>>
        BY <3>3 DEF TaskAcquire, busVars, PlUnchangedOthers, msVars
      <4>2. QED
        BY <3>2, <4>1, <2>c DEF LoaderInv, LoadedOnce, TaskState,
           RegisteredPoolsLoaded
    <3>4. CASE TaskFailed(a)
      <4>1. /\ taskPc[a] = "fetching"
            /\ taskPc' = [taskPc EXCEPT ![a] = "failed"]
            /\ UNCHANGED <<sent, processed, pools>>
        BY <3>4 DEF TaskFailed, busVars, PlUnchangedOthers, msVars
      <4>2. QED
        BY <3>2, <4>1, <2>c DEF LoaderInv, LoadedOnce, TaskState,
           RegisteredPoolsLoaded
    <3>5. QED
      BY <3>1, <3>3, <3>4
  <2>5. CASE \E a \in Addr : TaskLoaded(a)
    <3>1. PICK a \in Addr : TaskLoaded(a)
      BY <2>5
    <3>2. /\ taskPc[a] = "fetching"
          /\ taskPc' = [taskPc EXCEPT ![a] = "loaded"]
          /\ UNCHANGED <<processed, pools>>
          /\ Send([kind |-> "PoolLoaded", pool |-> a])
      BY <3>1 DEF TaskLoaded, msVars
    <3>3. \A i \in 1..Len(sent) :
            sent[i].kind = "PoolLoaded" => sent[i].pool \in Addr
      BY <2>1 DEF ProofMsg, FetchMsg, PoolMsg, StopMsg
    <3>4. \A i \in 1..Len(sent) :
            sent[i].kind = "PoolLoaded" => sent[i].pool # a
      BY <3>2, <3>3 DEF LoaderInv
    <3>5. CASE sent' = sent
      BY <3>2, <3>3, <3>5, <2>c DEF LoaderInv, LoadedOnce, TaskState,
         RegisteredPoolsLoaded
    <3>6. CASE sent' = Append(sent, [kind |-> "PoolLoaded", pool |-> a])
      <4>1. /\ Len(sent') = Len(sent) + 1
            /\ sent'[Len(sent')] = [kind |-> "PoolLoaded", pool |-> a]
            /\ \A i \in 1..Len(sent) : sent'[i] = sent[i]
        BY <3>6, <2>1
      <4>2. QED
        BY SMTT(30), <3>2, <3>3, <3>4, <4>1, <2>c DEF LoaderInv, LoadedOnce, TaskState,
           RegisteredPoolsLoaded
    <3>7. QED
      BY <3>2, <3>5, <3>6 DEF Send
  <2>6. CASE \E P \in Found : HistScan(P)
    <3>1. PICK P \in Found : HistScan(P)
      BY <2>6
    <3>2. CASE P = {}
      BY <3>1, <3>2, <2>u DEF HistScan, HistUnchangedOthers, busVars, plVars,
         msVars
    <3>3. CASE P # {}
      BY <3>1, <3>3, <2>g DEF HistScan, HistUnchangedOthers, plVars, msVars
    <3>4. QED
      BY <3>2, <3>3
  <2>7. CASE BsaPublish
    <3>1. pending.kind = "BlockStateUpdate"
      BY <2>7 DEF BsaPublish, StatsInv, PendingOk
    <3>2. QED
      BY <2>7, <3>1, <2>g DEF BsaPublish, BsaUnchangedOthers, plVars, msVars
  <2>8. CASE MainStop
    BY <2>8, <2>g DEF MainStop, MainUnchangedOthers, plVars, msVars
  <2>9. CASE History /\ ~\E P \in Found : HistScan(P)
    BY SMTT(30), <2>9, <2>u DEF History, HistStart, HistStartFailed, HistGenesis,
                      HistFinish, HistUnchangedOthers, busVars, plVars,
                      msVars
  <2>10. CASE BlockStateActor /\ ~BsaPublish
    BY <2>10, <2>u DEF BlockStateActor, BsaPoll, BsaSleep, BsaFetchFailed,
                       BsaEmptyBlock, BsaApply, BsaUnchangedOthers, busVars,
                       plVars, msVars
  <2>11. CASE Processor \/ CollExit \/ CollIgnore
    BY SMTT(30), <2>11, <2>u DEF Processor, ProcRecvUpdate, ProcRecvStop, ProcSkip,
                       ProcUnchangedOthers, CollExit, CollIgnore,
                       CollUnchangedOthers, plVars, msVars
  <2>15. CASE CollPoolLoaded
    <3> DEFINE k == rx["collector"]
    <3>1. /\ k \in 1..Len(sent)
          /\ sent[k].kind = "PoolLoaded"
          /\ pools' = pools \cup {sent[k].pool}
          /\ UNCHANGED <<sent, taskPc, processed>>
      BY <2>15 DEF CollPoolLoaded, Delivered, CanRecv, CollUnchangedOthers,
         plVars, LoaderInv
    <3>2. taskPc[sent[k].pool] = "loaded"
      BY <3>1 DEF LoaderInv
    <3>3. QED
      BY <3>1, <3>2, <2>c DEF LoaderInv, LoadedOnce, RegisteredPoolsLoaded
  <2>12. CASE Main /\ ~MainStop
    BY <2>12, <2>u DEF Main, MainSpawnBlockState, MainSpawnProcessor,
                       MainSpawnCollector, MainAwaitHistory, MainJoin,
                       MainUnchangedOthers, busVars, plVars, Subscribe, msVars
  <2>13. CASE ChainGrows \/ Terminated \/ UNCHANGED vars
    BY <2>13, <2>u DEF ChainGrows, Terminated, vars, busVars, plVars, msVars
  <2>14. QED
    BY <2>2, <2>3, <2>4, <2>5, <2>6, <2>7, <2>8, <2>9, <2>10, <2>11, <2>12,
       <2>13, <2>15 DEF Next, Task, PoolLoader, Collector
<1>3. QED
  BY <1>1, <1>2, StatsInvariant, PTL DEF Spec

(* PoolLoaderActor announces every pool as loaded at most once: the        *)
(* processed_pools insert of line 71 happens before the task is spawned, *)
(* and a task sends PoolLoaded once, when its fetch_pool succeeds.        *)
THEOREM LoadedAtMostOnce == Spec => []LoadedOnce
<1>1. LoaderInv => LoadedOnce
  BY DEF LoaderInv
<1>2. QED
  BY <1>1, LoaderInvariant, PTL

(* Only pools whose fetch succeeded reach MarketState: the collector       *)
(* add_pools what a PoolLoaded names (main.rs 127-132), and only           *)
(* fetch_pool's Ok path sends one (pool_loader_actor.rs 88-103).          *)
THEOREM RegisteredOnlyLoaded == Spec => []RegisteredPoolsLoaded
<1>1. LoaderInv => RegisteredPoolsLoaded
  BY DEF LoaderInv
<1>2. QED
  BY <1>1, LoaderInvariant, PTL
=============================================================================
