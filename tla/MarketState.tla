----------------------------- MODULE MarketState -----------------------------
(***************************************************************************)
(* MarketState (market_state.rs): the LocalDB cache, the set of loaded    *)
(* pools and the current block number, driven by an environment that      *)
(* calls its mutating methods in any order.  The ghost variable `applied`  *)
(* records every StateUpdate the cache has been given, in the order it was *)
(* applied, so that the cache can be compared with a reference definition. *)
(***************************************************************************)
EXTENDS LocalDB

CONSTANTS
  Updates,     \* the StateUpdates the environment may apply
  MaxApplied,  \* bound on the number of StateUpdates applied in a run
  MaxBlock     \* bound on block numbers given to update_block

ASSUME MarketStateAssumption ==
  /\ Updates \subseteq StateUpdate
  /\ MaxApplied \in Nat
  /\ MaxBlock \in Nat

VARIABLES
  db,             \* MarketState.db
  pools,          \* DOMAIN of MarketState.pools (the PoolData is not read)
  current_block,  \* MarketState.current_block
  applied         \* ghost: the StateUpdates applied so far, in order

vars == <<db, pools, current_block, applied>>

(* The StateUpdateVecs the environment may apply from state `h`.          *)
VecsFrom(h) == UNION {[1..k -> Updates] : k \in 0..(MaxApplied - Len(h))}

Init ==
  /\ db = EmptyDB
  /\ pools = {}
  /\ current_block = 0
  /\ applied = <<>>

(* MarketState::add_pool: insert (or overwrite) the pool's address.       *)
AddPool(a) ==
  /\ pools' = pools \cup {a}
  /\ UNCHANGED <<db, current_block, applied>>

(* MarketState::apply_state_update.                                        *)
ApplyUpdate(u) ==
  /\ Len(applied) < MaxApplied
  /\ db' = ApplyStateUpdate(db, u)
  /\ applied' = Append(applied, u)
  /\ UNCHANGED <<pools, current_block>>

(* MarketState::apply_state_update_vec.                                    *)
ApplyUpdateVec(v) ==
  /\ db' = ApplyStateUpdateVec(db, v)
  /\ applied' = applied \o v
  /\ UNCHANGED <<pools, current_block>>

(* Mutation: update_block stores the next block number.                 *)
UpdateBlockOffByOne(b) ==
  /\ current_block' = b + 1
  /\ UNCHANGED <<db, pools, applied>>

(* MarketState::update_block: an unconditional assignment.                *)
UpdateBlock(b) ==
  /\ current_block' = b
  /\ UNCHANGED <<db, pools, applied>>

Next ==
  \/ \E a \in Addr : AddPool(a)
  \/ \E u \in Updates : ApplyUpdate(u)
  \/ \E v \in VecsFrom(applied) : ApplyUpdateVec(v)
  \/ \E b \in 0..MaxBlock : UpdateBlock(b)

Spec == Init /\ [][Next]_vars

-----------------------------------------------------------------------------
TypeOK ==
  /\ db \in DB
  /\ pools \subseteq Addr
  /\ current_block \in 0..MaxBlock
  /\ applied \in Seq(Updates)

(* Reference semantics of the cache: an entry holds the value written by  *)
(* the LAST applied update that sets it, and is absent (NoValue) when no   *)
(* update ever set it.  Field(x) picks the optional field out of a delta. *)
LastIndex(W) == CHOOSE i \in W : \A j \in W : j <= i

LastWrite(h, a, Field(_)) ==
  LET W == {i \in 1..Len(h) : a \in DOMAIN h[i] /\ Field(h[i][a]) # NoValue}
  IN IF W = {} THEN NoValue ELSE Field(h[LastIndex(W)][a])

RefDB(h) ==
  [storage |-> [a \in Addr |-> [s \in Slot |->
                  LastWrite(h, a, LAMBDA x : x.storage[s])]],
   balances |-> [a \in Addr |-> LastWrite(h, a, LAMBDA x : x.balance)],
   nonces |-> [a \in Addr |-> LastWrite(h, a, LAMBDA x : x.nonce)]]

(* The cache after any sequence of apply_state_update and                 *)
(* apply_state_update_vec calls is the last-writer-wins overlay of every   *)
(* delta applied: later transactions win over earlier ones in a block, a   *)
(* field a delta leaves out is never touched, and a slot no delta set is   *)
(* reported absent, never zero (spec 8: order sensitivity, partial-update *)
(* preservation, idempotence, scenario A).                                 *)
CacheIsLastWriterWins == db = RefDB(applied)

(* merge_state_updates folds a block's per-transaction updates into one   *)
(* that has the same effect on the cache as applying them in order        *)
(* (checked for every pair of updates, from every reachable cache).       *)
MergeMatchesSequentialApply ==
  \A u1, u2 \in Updates :
    ApplyStateUpdate(db, MergeStateUpdates(<<u1, u2>>))
      = ApplyStateUpdateVec(db, <<u1, u2>>)
==============================================================================
