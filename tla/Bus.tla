--------------------------------- MODULE Bus ---------------------------------
(***************************************************************************)
(* The change-propagation bus: the tokio broadcast channel that main.rs    *)
(* creates with broadcast::channel(1000) and every actor shares.  Not code *)
(* of this repository: modelled from spec section 4.5 and the documented   *)
(* behaviour of tokio::sync::broadcast.                                    *)
(*                                                                         *)
(* `sent` is the whole history of sent messages (an immutable queue); the  *)
(* ring buffer holds its last Capacity entries.  rx[r] is the position of  *)
(* the next message receiver r reads.  A send never blocks: it overwrites  *)
(* the oldest slot, and a receiver that fell behind it gets Lagged(n) and  *)
(* resumes at the oldest retained message.                                 *)
(***************************************************************************)
EXTENDS Naturals, Sequences

CONSTANTS
  Receivers,  \* the receivers that may subscribe
  Capacity    \* ring capacity (tokio rounds the requested one up to 2^k)

ASSUME BusAssumption == Capacity \in Nat \ {0}

VARIABLES
  sent,  \* every message sent on the channel, in send order
  rx,    \* rx[r]: index in `sent` of the next message receiver r reads
  subs   \* the receivers currently alive (receiver_count)

busVars == <<sent, rx, subs>>

(* Sender::subscribe: the new receiver sees only later messages.          *)
Subscribe(r) ==
  /\ subs' = subs \cup {r}
  /\ rx' = [rx EXCEPT ![r] = Len(sent) + 1]
  /\ UNCHANGED sent

(* Sender::send succeeds iff some receiver is alive; otherwise it returns  *)
(* Err(SendError) and the message is not retained.                         *)
SendOk == subs # {}

Send(m) ==
  /\ sent' = IF SendOk THEN Append(sent, m) ELSE sent
  /\ UNCHANGED <<rx, subs>>

(* Position of the oldest message still in the ring.                       *)
Oldest == IF Len(sent) > Capacity THEN Len(sent) - Capacity + 1 ELSE 1

(* Receiver::recv returns (rather than awaiting) when a message is there.  *)
CanRecv(r) == r \in subs /\ rx[r] =< Len(sent)

(* recv returns Err(Lagged(n)) when r's next message has been overwritten *)
(* (n, the number lost, is only logged by every receiver) ...              *)
IsLagged(r) == rx[r] < Oldest

(* ... and Ok(Delivered(r)) otherwise.                                     *)
Delivered(r) == sent[rx[r]]

(* The cursor move of one recv call, whichever its result.                *)
RecvStep(r) ==
  rx' = [rx EXCEPT ![r] = IF IsLagged(r) THEN Oldest ELSE rx[r] + 1]
==============================================================================
