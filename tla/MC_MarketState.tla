---------------------------- MODULE MC_MarketState ----------------------------
(* Model-checking instance of MarketState: two addresses, two slots, two  *)
(* values, and a handful of deltas that set one field or one slot each,   *)
(* or several at once, so that overlays and overwrites both occur.        *)
EXTENDS MarketStateProofs

CONSTANTS a1, a2, s1, s2, v1, v2

MCAddr == {a1, a2}
MCSlot == {s1, s2}
MCVal == {v1, v2}

NoSlots == [s \in Slot |-> NoValue]

(* The deltas an address may receive.                                     *)
MCDeltas ==
  { [nonce |-> NoValue, balance |-> v1, storage |-> NoSlots],
    [nonce |-> v2, balance |-> NoValue, storage |-> [NoSlots EXCEPT ![s1] = v2]],
    [nonce |-> NoValue, balance |-> NoValue, storage |-> [NoSlots EXCEPT ![s1] = v1]],
    [nonce |-> v1, balance |-> v2, storage |-> [NoSlots EXCEPT ![s2] = v2]] }

(* StateUpdates touching one address, or both.                            *)
MCUpdates == UNION {[D -> MCDeltas] : D \in {{a1}, {a2}, {a1, a2}}}
==============================================================================
