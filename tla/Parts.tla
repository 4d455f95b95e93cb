------------------------------- MODULE Parts -------------------------------
(***************************************************************************)
(* The parts that keep a state of their own and share none, side by side,  *)
(* for model checking: a behaviour is a behaviour of one part, chosen at   *)
(* the start, while the others rest in their initial state.                *)
(***************************************************************************)
EXTENDS AckTracker, UnreliableChannel, SendGuard, Congestion, WindowHelpers, Codec, Bitwise

(* The XorByte of the codec *)
BitXor(a, b) == a ^^ b

VARIABLE part    (* the part whose behaviour this is                       *)

vars == <<part, trackerVars, unreliableVars, guardVars, controller, helperVars, codecVars>>

(* One packet is enough for the parts that do not use the codec. *)
Init ==
  /\ TrackerInit
  /\ UnreliableInit
  /\ GuardInit
  /\ CongestionInit
  /\ HelpersInit
  /\ CodecInit
  /\ part \in {"tracker", "unreliable", "guard", "congestion", "helpers", "codec"}
  /\ part # "guard" => ~onStrand
  /\ part # "congestion" => controller.kind = "Null"
  /\ part # "codec" => packet = CHOOSE p \in Packets : TRUE
  /\ part # "codec" => frame = <<>>

TrackerStep ==
  /\ part = "tracker"
  /\ TrackerNext
  /\ UNCHANGED <<part, unreliableVars, guardVars, controller, helperVars, codecVars>>

UnreliableStep ==
  /\ part = "unreliable"
  /\ UnreliableNext
  /\ UNCHANGED <<part, trackerVars, guardVars, controller, helperVars, codecVars>>

GuardStep ==
  /\ part = "guard"
  /\ GuardNext
  /\ UNCHANGED <<part, trackerVars, unreliableVars, controller, helperVars, codecVars>>

CongestionStep ==
  /\ part = "congestion"
  /\ CongestionNext
  /\ UNCHANGED <<part, trackerVars, unreliableVars, guardVars, helperVars, codecVars>>

HelpersStep ==
  /\ part = "helpers"
  /\ HelpersNext
  /\ UNCHANGED <<part, trackerVars, unreliableVars, guardVars, controller, codecVars>>

CodecStep ==
  /\ part = "codec"
  /\ CodecNext
  /\ UNCHANGED <<part, trackerVars, unreliableVars, guardVars, controller, helperVars>>

Next ==
  TrackerStep \/ UnreliableStep \/ GuardStep \/ CongestionStep \/ HelpersStep \/ CodecStep

(* Packets that were not retransmitted keep being acknowledged. *)
Spec ==
  /\ Init
  /\ [][Next]_vars
  /\ WF_vars(CongestionStep /\ \E rtt \in Rtts \ {0} : OnAck(rtt, 1))
=============================================================================
