---------------------------- MODULE LocalDBProofs ----------------------------
(***************************************************************************)
(* Lemmas about the LocalDB operators (market_state.rs, state_update.rs): *)
(* the recursive definitions of apply_state_update_vec and                *)
(* merge_state_updates are well defined, keep the cache typed, and merging *)
(* a vector is the same as applying it in order.  Induction over the      *)
(* vector is carried out as a least counterexample (LeastNat), from the   *)
(* well-foundedness of < on Nat.                                           *)
(***************************************************************************)
EXTENDS LocalDB, WellFoundedInduction, TLAPS

(* Every non-empty set of naturals has a least element. *)
LEMMA LeastNat ==
  ASSUME NEW T \in SUBSET Nat, T # {}
  PROVE  \E m \in T : \A k \in T : m <= k
<1>1. PICK m \in T : \A y \in T : ~(<<y, m>> \in OpToRel(<, Nat))
  BY WFMin, NatLessThanWellFounded
<1>2. ASSUME NEW y \in T, y < m
      PROVE  <<y, m>> \in OpToRel(<, Nat)
  BY <1>2, Zenon DEF OpToRel
<1>3. \A y \in T : ~(y < m)
  BY <1>1, <1>2, Zenon
<1>4. QED
  BY <1>3

(* g is the table of intermediate caches of apply_state_update_vec on  *)
(* the first k updates of v, starting from db.                            *)
StepsOK(g, db, v, k) ==
  g = [i \in 0..k |-> IF i = 0 THEN db ELSE ApplyStateUpdate(g[i - 1], v[i])]

(* The step function ApplyStateUpdateVec is defined with, named so that  *)
(* proofs can speak of its intermediate caches.                           *)
VecSteps(db, v) ==
  LET step[i \in 0..Len(v)] ==
        IF i = 0 THEN db ELSE ApplyStateUpdate(step[i - 1], v[i])
  IN step

(* For every prefix of the vector there is such a table: the recursive   *)
(* definition of apply_state_update_vec has a solution (by induction on  *)
(* the prefix length, as a least counterexample).                         *)
LEMMA StepsExist ==
  ASSUME NEW db, NEW v, NEW n \in Nat
  PROVE  \A k \in 0..n : \E g : StepsOK(g, db, v, k)
<1> DEFINE T == {k \in 0..n : ~\E g : StepsOK(g, db, v, k)}
<1> SUFFICES ASSUME T # {} PROVE FALSE
  OBVIOUS
<1>0. T \in SUBSET Nat
  OBVIOUS
<1>1. PICK k \in T : \A j \in T : k <= j
  BY <1>0, LeastNat
<1>2. CASE k = 0
  <2>1. StepsOK([i \in 0..0 |-> db], db, v, 0)
    BY DEF StepsOK
  <2>2. QED BY <2>1, <1>1, <1>2
<1>3. CASE k # 0
  <2>1. k - 1 \notin T
    BY <1>1, <1>3
  <2>2. PICK g : StepsOK(g, db, v, k - 1)
    BY <2>1, <1>3
  <2> DEFINE h == [i \in 0..k |-> IF i = k THEN ApplyStateUpdate(g[k - 1], v[k]) ELSE g[i]]
  <2>3. StepsOK(h, db, v, k)
    BY <2>2, <1>3 DEF StepsOK
  <2>4. QED BY <2>3, <1>1
<1>4. QED BY <1>2, <1>3

(* The step function behind apply_state_update_vec is well defined.  *)
LEMMA VecStepsDef ==
  ASSUME NEW db, NEW v \in Seq(StateUpdate)
  PROVE  /\ StepsOK(VecSteps(db, v), db, v, Len(v))
         /\ ApplyStateUpdateVec(db, v) = VecSteps(db, v)[Len(v)]
<1>0. Len(v) \in Nat /\ Len(v) \in 0..Len(v)
  OBVIOUS
<1>1. \E g : StepsOK(g, db, v, Len(v))
  BY <1>0, StepsExist
<1>2. StepsOK(VecSteps(db, v), db, v, Len(v))
  BY SMTT(30), <1>1 DEF VecSteps, StepsOK
<1>3. QED BY <1>2 DEF ApplyStateUpdateVec, VecSteps

(* A StateUpdate maps touched addresses to AccountStates.                 *)
LEMMA StateUpdateParts ==
  ASSUME NEW u \in StateUpdate
  PROVE  /\ DOMAIN u \subseteq Addr
         /\ \A a \in DOMAIN u : u[a] \in AccountState
<1>1. PICK D \in SUBSET Addr : u \in [D -> AccountState]
  BY DEF StateUpdate
<1>2. QED BY <1>1

(* apply_state_update keeps the cache a LocalDB.                          *)
LEMMA ApplyStateUpdateType ==
  ASSUME NEW db \in DB, NEW u \in StateUpdate
  PROVE  ApplyStateUpdate(db, u) \in DB
<1>1. /\ DOMAIN u \subseteq Addr
      /\ \A a \in DOMAIN u : u[a] \in AccountState
  BY StateUpdateParts
<1>2. \A x \in OptVal, y \in OptVal : Overlay(x, y) \in OptVal
  BY DEF Overlay
<1>3. QED
  BY <1>1, <1>2 DEF ApplyStateUpdate, DB, AccountState

(* apply_state_update_vec keeps the cache a LocalDB, for a vector of any  *)
(* length.                                                                *)
LEMMA ApplyStateUpdateVecType ==
  ASSUME NEW db \in DB, NEW v \in Seq(StateUpdate)
  PROVE  ApplyStateUpdateVec(db, v) \in DB
<1> DEFINE g == VecSteps(db, v)
<1>1. /\ StepsOK(g, db, v, Len(v))
      /\ ApplyStateUpdateVec(db, v) = g[Len(v)]
  BY VecStepsDef
<1> DEFINE T == {i \in 0..Len(v) : g[i] \notin DB}
<1>2. SUFFICES ASSUME T # {} PROVE FALSE
  BY <1>1
<1>3. PICK k \in T : \A j \in T : k <= j
  <2>1. T \in SUBSET Nat
    OBVIOUS
  <2>2. QED BY <2>1, <1>2, LeastNat
<1>4. CASE k = 0
  BY <1>1, <1>3, <1>4 DEF StepsOK
<1>5. CASE k # 0
  <2>1. g[k - 1] \in DB
    BY <1>3, <1>5
  <2>2. g[k] = ApplyStateUpdate(g[k - 1], v[k])
    BY <1>1, <1>3, <1>5 DEF StepsOK
  <2>3. v[k] \in StateUpdate
    BY <1>3, <1>5
  <2>4. QED BY <2>1, <2>2, <2>3, <1>3, ApplyStateUpdateType
<1>6. QED BY <1>4, <1>5

(* The empty BTreeMap merge_state_updates starts from.                    *)
EmptyUpdate == [a \in {} |-> DefaultAccount]

(* g is the table of partial merges of the first k updates of v.          *)
MergeStepsOK(g, v, k) ==
  g = [i \in 0..k |-> IF i = 0 THEN EmptyUpdate ELSE MergeInto(g[i - 1], v[i])]

(* The step function MergeStateUpdates is defined with.                   *)
MergeSteps(v) ==
  LET step[i \in 0..Len(v)] ==
        IF i = 0 THEN [a \in {} |-> DefaultAccount]
        ELSE MergeInto(step[i - 1], v[i])
  IN step

(* The recursive definition of merge_state_updates has a solution on     *)
(* every prefix.                                                          *)
LEMMA MergeStepsExist ==
  ASSUME NEW v, NEW n \in Nat
  PROVE  \A k \in 0..n : \E g : MergeStepsOK(g, v, k)
<1> DEFINE T == {k \in 0..n : ~\E g : MergeStepsOK(g, v, k)}
<1> SUFFICES ASSUME T # {} PROVE FALSE
  OBVIOUS
<1>0. T \in SUBSET Nat
  OBVIOUS
<1>1. PICK k \in T : \A j \in T : k <= j
  BY <1>0, LeastNat
<1>2. CASE k = 0
  <2>1. MergeStepsOK([i \in 0..0 |-> EmptyUpdate], v, 0)
    BY DEF MergeStepsOK
  <2>2. QED BY <2>1, <1>1, <1>2
<1>3. CASE k # 0
  <2>1. k - 1 \notin T
    BY <1>1, <1>3
  <2>2. PICK g : MergeStepsOK(g, v, k - 1)
    BY <2>1, <1>3
  <2> DEFINE h == [i \in 0..k |-> IF i = k THEN MergeInto(g[k - 1], v[k]) ELSE g[i]]
  <2>3. MergeStepsOK(h, v, k)
    BY <2>2, <1>3 DEF MergeStepsOK
  <2>4. QED BY <2>3, <1>1
<1>4. QED BY <1>2, <1>3

(* The step function behind merge_state_updates is well defined.  *)
LEMMA MergeStepsDef ==
  ASSUME NEW v \in Seq(StateUpdate)
  PROVE  /\ MergeStepsOK(MergeSteps(v), v, Len(v))
         /\ MergeStateUpdates(v) = MergeSteps(v)[Len(v)]
<1>0. Len(v) \in Nat /\ Len(v) \in 0..Len(v)
  OBVIOUS
<1>1. \E g : MergeStepsOK(g, v, Len(v))
  BY <1>0, MergeStepsExist
<1>2. MergeStepsOK(MergeSteps(v), v, Len(v))
  BY <1>1 DEF MergeSteps, MergeStepsOK, EmptyUpdate
<1>3. QED BY <1>2 DEF MergeStateUpdates, MergeSteps

(* Overlaying y then z equals overlaying the overlay of y and z: the      *)
(* `if let Some` rule is associative.                                     *)
LEMMA OverlayAssoc ==
  ASSUME NEW x, NEW y, NEW z
  PROVE  Overlay(x, Overlay(y, z)) = Overlay(Overlay(x, y), z)
BY DEF Overlay

(* Merging one update into another yields a StateUpdate.                  *)
LEMMA MergeIntoType ==
  ASSUME NEW m \in StateUpdate, NEW u \in StateUpdate
  PROVE  MergeInto(m, u) \in StateUpdate
<1>1. /\ DOMAIN m \subseteq Addr /\ \A a \in DOMAIN m : m[a] \in AccountState
      /\ DOMAIN u \subseteq Addr /\ \A a \in DOMAIN u : u[a] \in AccountState
  BY StateUpdateParts
<1>2. \A x \in OptVal, y \in OptVal : Overlay(x, y) \in OptVal
  BY DEF Overlay
<1>3. DefaultAccount \in AccountState
  BY DEF DefaultAccount, AccountState, OptVal
<1>4. MergeInto(m, u) \in [DOMAIN m \cup DOMAIN u -> AccountState]
  BY <1>1, <1>2, <1>3 DEF MergeInto, MergeAccount, AccountState
<1>5. QED
  BY <1>1, <1>4 DEF StateUpdate

(* Folding one more update into a merged update has the same effect on   *)
(* the cache as applying it after the merged one.                         *)
LEMMA ApplyMergeInto ==
  ASSUME NEW db \in DB, NEW m \in StateUpdate, NEW u \in StateUpdate
  PROVE  ApplyStateUpdate(db, MergeInto(m, u))
           = ApplyStateUpdate(ApplyStateUpdate(db, m), u)
<1>1. /\ DOMAIN m \subseteq Addr /\ \A a \in DOMAIN m : m[a] \in AccountState
      /\ DOMAIN u \subseteq Addr /\ \A a \in DOMAIN u : u[a] \in AccountState
  BY StateUpdateParts
<1> DEFINE mu == MergeInto(m, u)
           d1 == ApplyStateUpdate(db, m)
<1>2. DOMAIN mu = DOMAIN m \cup DOMAIN u
  BY SMTT(30) DEF MergeInto
<1>3. \A a \in DOMAIN mu :
        /\ mu[a].nonce = IF a \in DOMAIN u
                         THEN Overlay(IF a \in DOMAIN m THEN m[a].nonce ELSE NoValue, u[a].nonce)
                         ELSE m[a].nonce
        /\ mu[a].balance = IF a \in DOMAIN u
                         THEN Overlay(IF a \in DOMAIN m THEN m[a].balance ELSE NoValue, u[a].balance)
                         ELSE m[a].balance
        /\ \A s \in Slot :
             mu[a].storage[s] = IF a \in DOMAIN u
                         THEN Overlay(IF a \in DOMAIN m THEN m[a].storage[s] ELSE NoValue, u[a].storage[s])
                         ELSE m[a].storage[s]
  BY SMTT(30), <1>2 DEF MergeInto, MergeAccount, DefaultAccount
<1>4. ApplyStateUpdate(db, mu).storage = ApplyStateUpdate(d1, u).storage
  <2>1. ASSUME NEW a \in Addr, NEW s \in Slot
        PROVE  ApplyStateUpdate(db, mu).storage[a][s] = ApplyStateUpdate(d1, u).storage[a][s]
    <3>1. CASE a \in DOMAIN u
      BY <1>1, <1>2, <1>3, <3>1 DEF ApplyStateUpdate, Overlay, DB
    <3>2. CASE a \in DOMAIN m \ DOMAIN u
      BY SMTT(30), <1>1, <1>2, <1>3, <3>2 DEF ApplyStateUpdate, Overlay, DB
    <3>3. CASE a \notin DOMAIN m \cup DOMAIN u
      BY <1>2, <3>3 DEF ApplyStateUpdate, DB
    <3>4. QED BY <3>1, <3>2, <3>3
  <2>2. /\ ApplyStateUpdate(db, mu).storage \in [Addr -> [Slot -> OptVal]]
        /\ ApplyStateUpdate(d1, u).storage \in [Addr -> [Slot -> OptVal]]
    <3>1. mu \in StateUpdate
      BY MergeIntoType
    <3>2. d1 \in DB
      BY ApplyStateUpdateType
    <3>3. QED BY <3>1, <3>2, ApplyStateUpdateType DEF DB
  <2>3. QED BY <2>1, <2>2
<1>5. ApplyStateUpdate(db, mu).balances = ApplyStateUpdate(d1, u).balances
  BY ZenonT(40), <1>1, <1>2, <1>3 DEF ApplyStateUpdate, Overlay, DB
<1>6. ApplyStateUpdate(db, mu).nonces = ApplyStateUpdate(d1, u).nonces
  BY SMTT(30), <1>1, <1>2, <1>3 DEF ApplyStateUpdate, Overlay, DB
<1>7. QED
  BY <1>4, <1>5, <1>6 DEF ApplyStateUpdate

(* The empty update is a StateUpdate and leaves the cache unchanged.      *)
LEMMA ApplyEmptyUpdate ==
  ASSUME NEW db \in DB
  PROVE  /\ EmptyUpdate \in StateUpdate
         /\ ApplyStateUpdate(db, EmptyUpdate) = db
<1>1. EmptyUpdate \in StateUpdate
  <2>1. EmptyUpdate \in [{} -> AccountState]
    BY DEF EmptyUpdate
  <2>2. QED BY <2>1 DEF StateUpdate
<1>2. ApplyStateUpdate(db, EmptyUpdate) = db
  BY DEF ApplyStateUpdate, EmptyUpdate, DB
<1>3. QED BY <1>1, <1>2

(* merge_state_updates of any StateUpdateVec has the same effect on the  *)
(* cache as applying the vector's updates one after the other.            *)
THEOREM MergeIsSequentialApply ==
  ASSUME NEW db \in DB, NEW v \in Seq(StateUpdate)
  PROVE  ApplyStateUpdate(db, MergeStateUpdates(v)) = ApplyStateUpdateVec(db, v)
<1> DEFINE ms == MergeSteps(v)
           vs == VecSteps(db, v)
<1>1. /\ MergeStepsOK(ms, v, Len(v))
      /\ MergeStateUpdates(v) = ms[Len(v)]
  BY MergeStepsDef
<1>2. /\ StepsOK(vs, db, v, Len(v))
      /\ ApplyStateUpdateVec(db, v) = vs[Len(v)]
  BY VecStepsDef
<1> DEFINE Good(i) == ms[i] \in StateUpdate /\ ApplyStateUpdate(db, ms[i]) = vs[i]
<1> DEFINE T == {i \in 0..Len(v) : ~Good(i)}
<1>3. SUFFICES ASSUME T # {} PROVE FALSE
  BY <1>1, <1>2
<1>4. PICK k \in T : \A j \in T : k <= j
  <2>1. T \in SUBSET Nat
    OBVIOUS
  <2>2. QED BY <2>1, <1>3, LeastNat
<1>5. CASE k = 0
  <2>1. ms[0] = EmptyUpdate /\ vs[0] = db
    BY <1>1, <1>2 DEF MergeStepsOK, StepsOK
  <2>2. QED BY <2>1, <1>4, <1>5, ApplyEmptyUpdate
<1>6. CASE k # 0
  <2>1. k \in 1..Len(v) /\ k - 1 \in 0..Len(v)
    BY <1>4, <1>6
  <2>2. Good(k - 1)
    BY <2>1, <1>4
  <2>3. ms[k] = MergeInto(ms[k - 1], v[k]) /\ vs[k] = ApplyStateUpdate(vs[k - 1], v[k])
    <3>1. ms[k] = MergeInto(ms[k - 1], v[k])
      BY <2>1, <1>1, <1>6 DEF MergeStepsOK
    <3>2. vs[k] = ApplyStateUpdate(vs[k - 1], v[k])
      BY <2>1, <1>2, <1>6 DEF StepsOK
    <3>3. QED BY <3>1, <3>2
  <2>4. v[k] \in StateUpdate
    BY <2>1
  <2>5. ms[k] \in StateUpdate
    BY <2>2, <2>3, <2>4, MergeIntoType
  <2>6. ApplyStateUpdate(db, ms[k]) = vs[k]
    BY <2>2, <2>3, <2>4, ApplyMergeInto
  <2>7. QED BY <2>5, <2>6, <1>4
<1>7. QED BY <1>5, <1>6
==============================================================================
