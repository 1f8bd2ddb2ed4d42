--------------------------- MODULE MarketWatermark ---------------------------
(***************************************************************************)
(* What the Market State component promises its readers (spec sections    *)
(* 3, 4.3 and 4.4), independent of the actors that drive it: the storage  *)
(* cache changes only by applying one whole DiffBatch (StateUpdateVec),    *)
(* and every such application moves the watermark strictly forward, in    *)
(* the same critical section; the pool registry only grows.  A failed or  *)
(* empty block is a gap ("liveness over completeness"), so the watermark  *)
(* may jump by more than one.                                              *)
(***************************************************************************)
EXTENDS Naturals

CONSTANTS
  Diffs,        \* the DiffBatches a block can carry
  EmptyCache,   \* the cache a fresh MarketState starts with
  Apply(_, _)   \* Apply(c, d): the cache c with the DiffBatch d applied

VARIABLES
  cache,      \* the LocalDB storage cache
  registry,   \* the set of tracked pools
  watermark   \* the current block of the state view

mwVars == <<cache, registry, watermark>>

MWInit ==
  /\ cache = EmptyCache
  /\ registry = {}
  /\ watermark = 0

(* A pool is registered; nothing is ever unregistered. *)
Register ==
  /\ registry \subseteq registry'
  /\ UNCHANGED <<cache, watermark>>

(* One DiffBatch is applied whole and the watermark advances past it. *)
ApplyBatch(d) ==
  /\ cache' = Apply(cache, d)
  /\ watermark' \in Nat
  /\ watermark < watermark'
  /\ UNCHANGED registry

MWNext == Register \/ \E d \in Diffs : ApplyBatch(d)

MWSpec == MWInit /\ [][MWNext]_mwVars
=============================================================================
