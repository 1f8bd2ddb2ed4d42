--------------------------- MODULE MarketStateProofs ---------------------------
(***************************************************************************)
(* Proofs about MarketState (market_state.rs): the cache stays a LocalDB, *)
(* it is always the last-writer-wins overlay RefDB of the updates applied, *)
(* and merge_state_updates agrees with applying in order.  RefDB is       *)
(* rephrased field by field as the last write of a value sequence, so     *)
(* that one lemma (LastOfAppend) covers nonces, balances and every slot.  *)
(***************************************************************************)
EXTENDS MarketState, LocalDBProofs

(* The positions of a value sequence that write a value (the applied     *)
(* updates give each field such a sequence, NoValue where they leave the  *)
(* field out).                                                            *)
Writes(s) == {i \in 1..Len(s) : s[i] # NoValue}

(* The last value written, NoValue when nothing was written.              *)
LastOf(s) == IF Writes(s) = {} THEN NoValue ELSE s[LastIndex(Writes(s))]

(* LastIndex picks the largest index of a non-empty set of positions.     *)
LEMMA LastIndexIsMax ==
  ASSUME NEW n \in Nat, NEW W \in SUBSET (1..n), W # {}
  PROVE  LastIndex(W) \in W /\ \A j \in W : j <= LastIndex(W)
<1> DEFINE U == {m \in Nat : \A j \in W : j <= m}
<1>1. n \in U
  OBVIOUS
<1>2. PICK m \in U : \A k \in U : m <= k
  BY <1>1, LeastNat
<1>3. m \in W
  <2> SUFFICES ASSUME m \notin W PROVE FALSE
    OBVIOUS
  <2>1. PICK w \in W : TRUE
    OBVIOUS
  <2>2. m - 1 \in U
    BY <2>1, <1>2
  <2>3. QED BY <2>2, <1>2
<1>4. \E i \in W : \A j \in W : j <= i
  BY <1>2, <1>3
<1>5. QED BY <1>4 DEF LastIndex

(* One more value in the sequence overlays the last write: a present     *)
(* value wins, an absent one leaves the last write in place.              *)
LEMMA LastOfAppend ==
  ASSUME NEW s \in Seq(OptVal), NEW x \in OptVal
  PROVE  LastOf(Append(s, x)) = Overlay(LastOf(s), x)
<1> DEFINE n == Len(s)
           t == Append(s, x)
<1>1. /\ Len(t) = n + 1
      /\ \A i \in 1..n : t[i] = s[i]
      /\ t[n + 1] = x
  OBVIOUS
<1>2. CASE x # NoValue
  <2>1. Writes(t) = Writes(s) \cup {n + 1}
    BY <1>1, <1>2 DEF Writes
  <2>2. Writes(t) \in SUBSET (1..(n + 1)) /\ Writes(t) # {}
    BY <2>1 DEF Writes
  <2>3. LastIndex(Writes(t)) = n + 1
    <3>1. n + 1 \in Nat
      OBVIOUS
    <3>2. LastIndex(Writes(t)) \in Writes(t) /\ \A j \in Writes(t) : j <= LastIndex(Writes(t))
      BY <3>1, <2>2, LastIndexIsMax
    <3>3. n + 1 \in Writes(t) /\ Writes(t) \subseteq 1..(n + 1)
      BY <2>1, <2>2
    <3>4. QED BY <3>2, <3>3
  <2>4. QED BY <1>1, <1>2, <2>2, <2>3 DEF LastOf, Overlay
<1>3. CASE x = NoValue
  <2>1. Writes(t) = Writes(s)
    BY <1>1, <1>3 DEF Writes
  <2>2. CASE Writes(s) = {}
    BY <2>1, <2>2, <1>3 DEF LastOf, Overlay
  <2>3. CASE Writes(s) # {}
    <3>1. LastIndex(Writes(s)) \in 1..n
      <4>1. n \in Nat /\ Writes(s) \in SUBSET (1..n)
        BY DEF Writes
      <4>2. LastIndex(Writes(s)) \in Writes(s)
        BY <4>1, <2>3, LastIndexIsMax
      <4>3. QED BY <4>1, <4>2
    <3>2. QED BY <1>1, <1>3, <2>1, <2>3, <3>1 DEF LastOf, Overlay
  <2>4. QED BY <2>2, <2>3
<1>4. QED BY <1>2, <1>3

(* The values the updates of h give one field of address a.              *)
NonceSeq(h, a) == [i \in 1..Len(h) |-> IF a \in DOMAIN h[i] THEN h[i][a].nonce ELSE NoValue]
BalanceSeq(h, a) == [i \in 1..Len(h) |-> IF a \in DOMAIN h[i] THEN h[i][a].balance ELSE NoValue]
SlotSeq(h, a, s) == [i \in 1..Len(h) |-> IF a \in DOMAIN h[i] THEN h[i][a].storage[s] ELSE NoValue]

(* The reference cache, field by field, is the last write of each field's *)
(* value sequence.                                                        *)
LEMMA RefDBFields ==
  ASSUME NEW h \in Seq(StateUpdate)
  PROVE  RefDB(h) =
           [storage |-> [a \in Addr |-> [s \in Slot |-> LastOf(SlotSeq(h, a, s))]],
            balances |-> [a \in Addr |-> LastOf(BalanceSeq(h, a))],
            nonces |-> [a \in Addr |-> LastOf(NonceSeq(h, a))]]
<1>0. Len(h) \in Nat
  OBVIOUS
<1>1. ASSUME NEW a \in Addr, NEW s \in Slot
      PROVE  LastWrite(h, a, LAMBDA x : x.storage[s]) = LastOf(SlotSeq(h, a, s))
  <2> DEFINE W == {i \in 1..Len(h) : a \in DOMAIN h[i] /\ h[i][a].storage[s] # NoValue}
  <2>1. Writes(SlotSeq(h, a, s)) = W
    BY DEF Writes, SlotSeq
  <2>2. W # {} => LastIndex(W) \in W
    BY <1>0, LastIndexIsMax
  <2>3. QED BY <2>1, <2>2 DEF LastWrite, LastOf, SlotSeq
<1>2. ASSUME NEW a \in Addr
      PROVE  LastWrite(h, a, LAMBDA x : x.balance) = LastOf(BalanceSeq(h, a))
  <2> DEFINE W == {i \in 1..Len(h) : a \in DOMAIN h[i] /\ h[i][a].balance # NoValue}
  <2>1. Writes(BalanceSeq(h, a)) = W
    BY DEF Writes, BalanceSeq
  <2>2. W # {} => LastIndex(W) \in W
    BY <1>0, LastIndexIsMax
  <2>3. QED BY <2>1, <2>2 DEF LastWrite, LastOf, BalanceSeq
<1>3. ASSUME NEW a \in Addr
      PROVE  LastWrite(h, a, LAMBDA x : x.nonce) = LastOf(NonceSeq(h, a))
  <2> DEFINE W == {i \in 1..Len(h) : a \in DOMAIN h[i] /\ h[i][a].nonce # NoValue}
  <2>1. Writes(NonceSeq(h, a)) = W
    BY DEF Writes, NonceSeq
  <2>2. W # {} => LastIndex(W) \in W
    BY <1>0, LastIndexIsMax
  <2>3. QED BY <2>1, <2>2 DEF LastWrite, LastOf, NonceSeq
<1>4. QED BY ZenonT(40), <1>1, <1>2, <1>3 DEF RefDB

(* Appending an update appends its value to each field's sequence.        *)
LEMMA FieldSeqsAppend ==
  ASSUME NEW h \in Seq(StateUpdate), NEW u \in StateUpdate, NEW a \in Addr, NEW s \in Slot
  PROVE  /\ NonceSeq(Append(h, u), a)
              = Append(NonceSeq(h, a), IF a \in DOMAIN u THEN u[a].nonce ELSE NoValue)
         /\ BalanceSeq(Append(h, u), a)
              = Append(BalanceSeq(h, a), IF a \in DOMAIN u THEN u[a].balance ELSE NoValue)
         /\ SlotSeq(Append(h, u), a, s)
              = Append(SlotSeq(h, a, s), IF a \in DOMAIN u THEN u[a].storage[s] ELSE NoValue)
BY DEF NonceSeq, BalanceSeq, SlotSeq

(* The field sequences of a history hold optional values.                *)
LEMMA FieldSeqsType ==
  ASSUME NEW h \in Seq(StateUpdate), NEW a \in Addr
  PROVE  /\ NonceSeq(h, a) \in Seq(OptVal)
         /\ BalanceSeq(h, a) \in Seq(OptVal)
         /\ \A s \in Slot : SlotSeq(h, a, s) \in Seq(OptVal)
<1>1. ASSUME NEW i \in 1..Len(h), a \in DOMAIN h[i]
      PROVE  h[i][a] \in AccountState
  <2>1. h[i] \in StateUpdate
    OBVIOUS
  <2>2. QED BY <2>1, <1>1, StateUpdateParts
<1>2. \A i \in 1..Len(h) :
        a \in DOMAIN h[i] =>
          /\ h[i][a].nonce \in OptVal
          /\ h[i][a].balance \in OptVal
          /\ \A s \in Slot : h[i][a].storage[s] \in OptVal
  BY <1>1 DEF AccountState
<1>3. NoValue \in OptVal
  BY DEF OptVal
<1>4. QED BY <1>2, <1>3 DEF NonceSeq, BalanceSeq, SlotSeq

(* Applying one more update to the reference cache of h gives the        *)
(* reference cache of h extended by that update.                          *)
LEMMA RefDBAppend ==
  ASSUME NEW h \in Seq(StateUpdate), NEW u \in StateUpdate
  PROVE  RefDB(Append(h, u)) = ApplyStateUpdate(RefDB(h), u)
<1>1. DOMAIN u \subseteq Addr /\ \A a \in DOMAIN u : u[a] \in AccountState
  BY StateUpdateParts
<1>2. Append(h, u) \in Seq(StateUpdate)
  OBVIOUS
<1>3. ASSUME NEW a \in Addr
      PROVE  /\ LastOf(NonceSeq(Append(h, u), a))
                  = IF a \in DOMAIN u THEN Overlay(LastOf(NonceSeq(h, a)), u[a].nonce)
                    ELSE LastOf(NonceSeq(h, a))
             /\ LastOf(BalanceSeq(Append(h, u), a))
                  = IF a \in DOMAIN u THEN Overlay(LastOf(BalanceSeq(h, a)), u[a].balance)
                    ELSE LastOf(BalanceSeq(h, a))
             /\ \A s \in Slot :
                  LastOf(SlotSeq(Append(h, u), a, s))
                    = IF a \in DOMAIN u THEN Overlay(LastOf(SlotSeq(h, a, s)), u[a].storage[s])
                      ELSE LastOf(SlotSeq(h, a, s))
  <2> DEFINE xn == IF a \in DOMAIN u THEN u[a].nonce ELSE NoValue
             xb == IF a \in DOMAIN u THEN u[a].balance ELSE NoValue
  <2>1. /\ NonceSeq(Append(h, u), a) = Append(NonceSeq(h, a), xn)
        /\ BalanceSeq(Append(h, u), a) = Append(BalanceSeq(h, a), xb)
    BY DEF NonceSeq, BalanceSeq
  <2>2. NonceSeq(h, a) \in Seq(OptVal) /\ BalanceSeq(h, a) \in Seq(OptVal)
    BY FieldSeqsType
  <2>3. xn \in OptVal /\ xb \in OptVal
    BY <1>1 DEF AccountState, OptVal
  <2>4. \A x : Overlay(x, NoValue) = x
    BY DEF Overlay
  <2>5. LastOf(Append(NonceSeq(h, a), xn)) = Overlay(LastOf(NonceSeq(h, a)), xn)
    BY <2>2, <2>3, LastOfAppend
  <2>6. LastOf(Append(BalanceSeq(h, a), xb)) = Overlay(LastOf(BalanceSeq(h, a)), xb)
    BY <2>2, <2>3, LastOfAppend
  <2>7. ASSUME NEW s \in Slot
        PROVE  LastOf(SlotSeq(Append(h, u), a, s))
                 = IF a \in DOMAIN u THEN Overlay(LastOf(SlotSeq(h, a, s)), u[a].storage[s])
                   ELSE LastOf(SlotSeq(h, a, s))
    <3> DEFINE xs == IF a \in DOMAIN u THEN u[a].storage[s] ELSE NoValue
    <3>1. SlotSeq(Append(h, u), a, s) = Append(SlotSeq(h, a, s), xs)
      BY FieldSeqsAppend
    <3>2. SlotSeq(h, a, s) \in Seq(OptVal) /\ xs \in OptVal
      BY <1>1, FieldSeqsType DEF AccountState, OptVal
    <3>3. QED BY <3>1, <3>2, <2>4, LastOfAppend
  <2>8. QED BY <2>1, <2>4, <2>5, <2>6, <2>7
<1>4. RefDB(Append(h, u)) =
        [storage |-> [a \in Addr |-> [s \in Slot |-> LastOf(SlotSeq(Append(h, u), a, s))]],
         balances |-> [a \in Addr |-> LastOf(BalanceSeq(Append(h, u), a))],
         nonces |-> [a \in Addr |-> LastOf(NonceSeq(Append(h, u), a))]]
  BY <1>2, RefDBFields
<1>5. RefDB(h) =
        [storage |-> [a \in Addr |-> [s \in Slot |-> LastOf(SlotSeq(h, a, s))]],
         balances |-> [a \in Addr |-> LastOf(BalanceSeq(h, a))],
         nonces |-> [a \in Addr |-> LastOf(NonceSeq(h, a))]]
  BY RefDBFields
<1> DEFINE R == RefDB(h)
           R2 == RefDB(Append(h, u))
           A == ApplyStateUpdate(R, u)
<1>6. /\ R.storage = [a \in Addr |-> [s \in Slot |-> LastOf(SlotSeq(h, a, s))]]
      /\ R.balances = [a \in Addr |-> LastOf(BalanceSeq(h, a))]
      /\ R.nonces = [a \in Addr |-> LastOf(NonceSeq(h, a))]
  BY <1>5
<1>7. /\ R2.storage = [a \in Addr |-> [s \in Slot |-> LastOf(SlotSeq(Append(h, u), a, s))]]
      /\ R2.balances = [a \in Addr |-> LastOf(BalanceSeq(Append(h, u), a))]
      /\ R2.nonces = [a \in Addr |-> LastOf(NonceSeq(Append(h, u), a))]
  BY <1>4
<1> HIDE DEF R, R2
<1>8. A.storage = R2.storage
  <2>1. A.storage = [a \in Addr |-> IF a \in DOMAIN u
                       THEN [s \in Slot |-> Overlay(R.storage[a][s], u[a].storage[s])]
                       ELSE R.storage[a]]
    BY DEF ApplyStateUpdate
  <2>2. QED BY <2>1, <1>3, <1>6, <1>7
<1>9. A.balances = R2.balances
  <2>1. A.balances = [a \in Addr |-> IF a \in DOMAIN u
                       THEN Overlay(R.balances[a], u[a].balance) ELSE R.balances[a]]
    BY DEF ApplyStateUpdate
  <2>2. QED BY <2>1, <1>3, <1>6, <1>7
<1>10. A.nonces = R2.nonces
  <2>1. A.nonces = [a \in Addr |-> IF a \in DOMAIN u
                       THEN Overlay(R.nonces[a], u[a].nonce) ELSE R.nonces[a]]
    BY DEF ApplyStateUpdate
  <2>2. QED BY <2>1, <1>3, <1>6, <1>7
<1>11. QED
  <2>1. A = [storage |-> A.storage, balances |-> A.balances, nonces |-> A.nonces]
    BY DEF ApplyStateUpdate
  <2>2. R2 = [storage |-> R2.storage, balances |-> R2.balances, nonces |-> R2.nonces]
    BY <1>4 DEF R2
  <2>3. QED BY <1>8, <1>9, <1>10, <2>1, <2>2 DEF R, R2

(* Applying a vector to the reference cache of h gives the reference     *)
(* cache of h followed by the vector's updates.                           *)
LEMMA RefDBVec ==
  ASSUME NEW h \in Seq(StateUpdate), NEW v \in Seq(StateUpdate)
  PROVE  ApplyStateUpdateVec(RefDB(h), v) = RefDB(h \o v)
<1> DEFINE g == VecSteps(RefDB(h), v)
           Pre(i) == h \o SubSeq(v, 1, i)
<1>1. /\ StepsOK(g, RefDB(h), v, Len(v))
      /\ ApplyStateUpdateVec(RefDB(h), v) = g[Len(v)]
  BY VecStepsDef
<1> DEFINE T == {i \in 0..Len(v) : g[i] # RefDB(Pre(i))}
<1>2. SUFFICES ASSUME T # {} PROVE FALSE
  <2>1. Pre(Len(v)) = h \o v
    OBVIOUS
  <2>2. Len(v) \in 0..Len(v)
    OBVIOUS
  <2>3. T = {} => g[Len(v)] = RefDB(Pre(Len(v)))
    BY <2>2, Zenon
  <2>4. QED BY <1>1, <2>1, <2>3
<1>3. PICK k \in T : \A j \in T : k <= j
  <2>1. T \in SUBSET Nat
    OBVIOUS
  <2>2. QED BY <2>1, <1>2, LeastNat
<1>4. CASE k = 0
  <2>1. g[0] = RefDB(h)
    BY <1>1 DEF StepsOK
  <2>2. Pre(0) = h
    OBVIOUS
  <2>3. QED BY <2>1, <2>2, <1>3, <1>4
<1>5. CASE k # 0
  <2>1. k \in 1..Len(v) /\ k - 1 \in 0..Len(v)
    BY <1>3, <1>5
  <2>2. g[k - 1] = RefDB(Pre(k - 1))
    BY <2>1, <1>3
  <2>3. g[k] = ApplyStateUpdate(g[k - 1], v[k])
    BY <2>1, <1>1, <1>5 DEF StepsOK
  <2>4. Pre(k) = Append(Pre(k - 1), v[k]) /\ Pre(k - 1) \in Seq(StateUpdate) /\ v[k] \in StateUpdate
    BY <2>1
  <2>5. RefDB(Pre(k)) = ApplyStateUpdate(RefDB(Pre(k - 1)), v[k])
    BY <2>4, RefDBAppend
  <2>6. QED BY <2>2, <2>3, <2>5, <1>3
<1>6. QED BY <1>4, <1>5
-----------------------------------------------------------------------------
(* The vectors the environment passes to apply_state_update_vec are       *)
(* sequences of the given updates.                                        *)
LEMMA VecsFromType ==
  ASSUME NEW h, NEW v \in VecsFrom(h)
  PROVE  v \in Seq(Updates)
BY DEF VecsFrom

(* Every state MarketState's methods can reach is well typed: in         *)
(* particular apply_state_update_vec keeps the cache a LocalDB, whatever  *)
(* the length of the vector.                                              *)
THEOREM TypeCorrect == Spec => []TypeOK
<1>1. Init => TypeOK
  <2>1. EmptyDB \in DB
    BY DEF EmptyDB, DB, OptVal
  <2>2. QED BY <2>1, MarketStateAssumption DEF Init, TypeOK
<1>2. TypeOK /\ [Next]_vars => TypeOK'
  <2> SUFFICES ASSUME TypeOK, [Next]_vars PROVE TypeOK'
    OBVIOUS
  <2>0. Updates \subseteq StateUpdate
    BY MarketStateAssumption
  <2>1. ASSUME NEW a \in Addr, AddPool(a) PROVE TypeOK'
    BY <2>1 DEF AddPool, TypeOK
  <2>2. ASSUME NEW u \in Updates, ApplyUpdate(u) PROVE TypeOK'
    <3>1. db' \in DB
      BY <2>0, <2>2, ApplyStateUpdateType DEF ApplyUpdate, TypeOK
    <3>2. QED BY <3>1, <2>2 DEF ApplyUpdate, TypeOK
  <2>3. ASSUME NEW v \in VecsFrom(applied), ApplyUpdateVec(v) PROVE TypeOK'
    <3>1. v \in Seq(Updates) /\ v \in Seq(StateUpdate)
      BY <2>0, VecsFromType
    <3>2. db' \in DB
      BY <3>1, <2>3, ApplyStateUpdateVecType DEF ApplyUpdateVec, TypeOK
    <3>3. QED BY <3>1, <3>2, <2>3 DEF ApplyUpdateVec, TypeOK
  <2>4. ASSUME NEW b \in 0..MaxBlock, UpdateBlock(b) PROVE TypeOK'
    BY <2>4 DEF UpdateBlock, TypeOK
  <2>5. CASE UNCHANGED vars
    BY <2>5 DEF vars, TypeOK
  <2>6. QED BY <2>1, <2>2, <2>3, <2>4, <2>5 DEF Next
<1>3. QED BY <1>1, <1>2, PTL DEF Spec

(* The cache is always the last-writer-wins overlay of every delta       *)
(* applied through apply_state_update and apply_state_update_vec, for    *)
(* every number of addresses, slots and updates.                          *)
THEOREM CacheCorrect == Spec => []CacheIsLastWriterWins
<1> DEFINE Inv == TypeOK /\ CacheIsLastWriterWins
<1>0. Updates \subseteq StateUpdate
  BY MarketStateAssumption
<1>1. Init => CacheIsLastWriterWins
  <2> SUFFICES ASSUME Init PROVE RefDB(<<>>) = EmptyDB
    BY DEF Init, CacheIsLastWriterWins
  <2>1. \A a \in Addr : /\ LastOf(NonceSeq(<<>>, a)) = NoValue
                        /\ LastOf(BalanceSeq(<<>>, a)) = NoValue
                        /\ \A s \in Slot : LastOf(SlotSeq(<<>>, a, s)) = NoValue
    BY DEF LastOf, Writes, NonceSeq, BalanceSeq, SlotSeq
  <2>2. <<>> \in Seq(StateUpdate)
    OBVIOUS
  <2>3. QED BY <2>1, <2>2, RefDBFields DEF EmptyDB
<1>2. Inv /\ [Next]_vars => CacheIsLastWriterWins'
  <2> SUFFICES ASSUME TypeOK, CacheIsLastWriterWins, [Next]_vars
               PROVE  CacheIsLastWriterWins'
    OBVIOUS
  <2>1. ASSUME NEW a \in Addr, AddPool(a) PROVE CacheIsLastWriterWins'
    BY <2>1 DEF AddPool, CacheIsLastWriterWins
  <2>2. ASSUME NEW u \in Updates, ApplyUpdate(u) PROVE CacheIsLastWriterWins'
    <3>1. applied \in Seq(StateUpdate) /\ u \in StateUpdate
      BY <1>0 DEF TypeOK
    <3>2. QED BY <3>1, <2>2, RefDBAppend DEF ApplyUpdate, CacheIsLastWriterWins
  <2>3. ASSUME NEW v \in VecsFrom(applied), ApplyUpdateVec(v) PROVE CacheIsLastWriterWins'
    <3>1. applied \in Seq(StateUpdate) /\ v \in Seq(StateUpdate)
      BY <1>0, VecsFromType DEF TypeOK
    <3>2. QED BY <3>1, <2>3, RefDBVec DEF ApplyUpdateVec, CacheIsLastWriterWins
  <2>4. ASSUME NEW b \in 0..MaxBlock, UpdateBlock(b) PROVE CacheIsLastWriterWins'
    BY <2>4 DEF UpdateBlock, CacheIsLastWriterWins
  <2>5. CASE UNCHANGED vars
    BY <2>5 DEF vars, CacheIsLastWriterWins
  <2>6. QED BY <2>1, <2>2, <2>3, <2>4, <2>5 DEF Next
<1>3. QED BY <1>1, <1>2, TypeCorrect, PTL DEF Spec

(* In every reachable state, merging any two updates with                *)
(* merge_state_updates and applying the result changes the cache exactly *)
(* as applying them in order does (lemma MergeIsSequentialApply states it *)
(* for vectors of any length).                                            *)
THEOREM MergeCorrect == Spec => []MergeMatchesSequentialApply
<1>1. TypeOK => MergeMatchesSequentialApply
  <2> SUFFICES ASSUME TypeOK, NEW u1 \in Updates, NEW u2 \in Updates
               PROVE  ApplyStateUpdate(db, MergeStateUpdates(<<u1, u2>>))
                        = ApplyStateUpdateVec(db, <<u1, u2>>)
    BY DEF MergeMatchesSequentialApply
  <2>1. db \in DB /\ <<u1, u2>> \in Seq(StateUpdate)
    BY MarketStateAssumption DEF TypeOK
  <2>2. QED BY <2>1, MergeIsSequentialApply
<1>2. QED BY <1>1, TypeCorrect, PTL
==============================================================================
