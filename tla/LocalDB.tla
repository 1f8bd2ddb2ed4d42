------------------------------- MODULE LocalDB -------------------------------
(***************************************************************************)
(* The replicated storage cache (LocalDB in market_state.rs) and the diff  *)
(* model it consumes (AccountState, StateUpdate, StateUpdateVec in         *)
(* state_update.rs), as pure operators.                                    *)
(*                                                                         *)
(* Data abstraction: addresses, storage slots and 256-bit values are       *)
(* model values.  An absent HashMap entry, and a None optional field, are  *)
(* both the model value NoValue: the cache distinguishes "unknown" from    *)
(* any stored value, never confusing it with zero.  The delta's code field *)
(* is not stored by LocalDB and is left out.                               *)
(***************************************************************************)
EXTENDS Naturals, Sequences

CONSTANTS
  Addr,     \* contract addresses
  Slot,     \* storage slots (B256 keys of a delta, U256 keys of the cache)
  Val,      \* values of storage slots, balances and nonces
  NoValue   \* None / absent map entry

ASSUME LocalDBAssumption == NoValue \notin Val

OptVal == Val \cup {NoValue}

(* AccountState: each optional field NoValue means "unchanged"; storage is *)
(* a sparse overlay, NoValue on a slot meaning the slot is not in the map. *)
AccountState == [nonce : OptVal, balance : OptVal, storage : [Slot -> OptVal]]

(* StateUpdate = BTreeMap<Address, AccountState>: a function on the set   *)
(* of touched addresses.                                                   *)
StateUpdate == UNION {[D -> AccountState] : D \in SUBSET Addr}

(* LocalDB: storage, balances and nonces; NoValue = no entry.              *)
DB == [storage : [Addr -> [Slot -> OptVal]],
       balances : [Addr -> OptVal],
       nonces : [Addr -> OptVal]]

EmptyDB == [storage |-> [a \in Addr |-> [s \in Slot |-> NoValue]],
            balances |-> [a \in Addr |-> NoValue],
            nonces |-> [a \in Addr |-> NoValue]]

(* Mutation: a None field written over the stored one (an absent field  *)
(* read as "set to nothing").                                             *)
OverlayNoneClobbers(old, new) == new

(* `if let Some(x) = field { set(x) }`: a present field overwrites, an     *)
(* absent one leaves the stored entry alone.                               *)
Overlay(old, new) == IF new = NoValue THEN old ELSE new

(* LocalDB::apply_state_update: for every touched address, set the nonce   *)
(* and balance when present, and upsert every slot of the delta.           *)
ApplyStateUpdate(db, u) ==
  LET T == DOMAIN u IN
  [storage |-> [a \in Addr |->
                  IF a \in T
                  THEN [s \in Slot |-> Overlay(db.storage[a][s], u[a].storage[s])]
                  ELSE db.storage[a]],
   balances |-> [a \in Addr |->
                  IF a \in T THEN Overlay(db.balances[a], u[a].balance)
                  ELSE db.balances[a]],
   nonces |-> [a \in Addr |->
                  IF a \in T THEN Overlay(db.nonces[a], u[a].nonce)
                  ELSE db.nonces[a]]]

(* LocalDB::apply_state_update_vec: the updates in vector order.  Written  *)
(* as a recursive function, not a RECURSIVE operator, so that it can be    *)
(* reasoned about with TLAPS.                                              *)
ApplyStateUpdateVec(db, v) ==
  LET step[i \in 0..Len(v)] ==
        IF i = 0 THEN db ELSE ApplyStateUpdate(step[i - 1], v[i])
  IN step[Len(v)]

(* state_update::merge_state_updates: fold the vector into one           *)
(* StateUpdate; every address of any element gets an entry, whose nonce,  *)
(* balance and slots are overlaid in vector order.                        *)
(* Mutation: a later delta's storage map replaces the merged one.       *)
MergeAccountReplaceStorage(old, new) ==
  [nonce |-> Overlay(old.nonce, new.nonce),
   balance |-> Overlay(old.balance, new.balance),
   storage |-> new.storage]

MergeAccount(old, new) ==
  [nonce |-> Overlay(old.nonce, new.nonce),
   balance |-> Overlay(old.balance, new.balance),
   storage |-> [s \in Slot |-> Overlay(old.storage[s], new.storage[s])]]

DefaultAccount == [nonce |-> NoValue, balance |-> NoValue,
                   storage |-> [s \in Slot |-> NoValue]]

MergeInto(m, u) ==
  [a \in DOMAIN m \cup DOMAIN u |->
     LET old == IF a \in DOMAIN m THEN m[a] ELSE DefaultAccount IN
     IF a \in DOMAIN u THEN MergeAccount(old, u[a]) ELSE old]

MergeStateUpdates(v) ==
  LET step[i \in 0..Len(v)] ==
        IF i = 0 THEN [a \in {} |-> DefaultAccount]
        ELSE MergeInto(step[i - 1], v[i])
  IN step[Len(v)]

(* MarketState::get_affected_pools: the touched addresses that are pools.  *)
(* The code returns them in BTreeMap (address) order without repeats.      *)
GetAffectedPools(pools, u) == {a \in DOMAIN u : a \in pools}

(* MarketState::get_affected_pools_vec: union over the vector; the code's  *)
(* sort + dedup makes the result the sorted list of this set.              *)
GetAffectedPoolsVec(pools, v) ==
  UNION {GetAffectedPools(pools, v[i]) : i \in 1..Len(v)}
==============================================================================
