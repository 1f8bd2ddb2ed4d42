----------------------------- MODULE MC_Pipeline -----------------------------
(* Model-checking instance of Pipeline: two addresses, one slot, one      *)
(* value; blocks carry no diff, one transaction touching a1, or two       *)
(* transactions touching a2 then a1.                                      *)
EXTENDS MarketRefinement, LoaderProofs, PipelineTypeProofs

CONSTANTS a1, a2, s1, v1

MCAddr == {a1, a2}
MCSlot == {s1}
MCVal == {v1}
MCReceivers == {"poolLoader", "processor", "collector"}

Touch(a) == [x \in {a} |-> [nonce |-> NoValue, balance |-> NoValue,
                            storage |-> [s \in MCSlot |-> v1]]]

MCDiffs == {<<>>, <<Touch(a1)>>, <<Touch(a2), Touch(a1)>>}

(* A batch's logs name a1, or (get_logs failed) nothing.                  *)
MCFound == {{}, {a1}}

(* ... or both pools, a1 and a2, together.                                *)
MCFoundBoth == {{}, {a1}, {a1, a2}}

(* a1 is found in every batch, or nothing is found in any.              *)
MCFoundOne == {{a1}}
MCFoundNone == {{}}
==============================================================================
