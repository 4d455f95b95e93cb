----------------------------- MODULE FifoStream -----------------------------
(***************************************************************************)
(* What a reliable ordered channel promises, with no protocol in it:       *)
(* messages are numbered as they are issued, and the receiver is given a   *)
(* growing prefix of them.  session/ChannelConfig.hpp: "Packets are        *)
(* retransmitted until acknowledged and delivered to receivers in sequence *)
(* order."                                                                 *)
(***************************************************************************)
EXTENDS Integers, Sequences

VARIABLES
  issued,     (* number of messages issued                                 *)
  delivered   (* the messages delivered, in order                          *)

vars == <<issued, delivered>>

Init == issued = 0 /\ delivered = <<>>

Issue ==
  /\ issued' = issued + 1
  /\ UNCHANGED delivered

(* One arrival may complete a run of messages that were waiting for it. *)
Deliver ==
  /\ \E n \in 1 .. issued - Len(delivered) :
       delivered' = delivered \o [i \in 1 .. n |-> Len(delivered) + i - 1]
  /\ UNCHANGED issued

Next == Issue \/ Deliver

Spec == Init /\ [][Next]_vars

(* Nothing issued waits for ever. *)
FairSpec == Spec /\ WF_vars(Deliver)
=============================================================================
