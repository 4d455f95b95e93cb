----------------------------- MODULE AckTracker -----------------------------
(***************************************************************************)
(* ReceiveAckTracker against the set it stands for: datagram i of the      *)
(* stream carries sequence number i % SeqMod, and the tracker must tell    *)
(* exactly which of the last AckHistory + 1 datagrams have been received.  *)
(* Datagrams arrive in any order, with repetitions: one of the distances  *)
(* in Jumps ahead of the newest one so far (those in between are lost or   *)
(* late), or less than half of the sequence space behind it.               *)
(***************************************************************************)
EXTENDS ChannelCommon

CONSTANTS
  MaxIndex,   (* bound: number of the last datagram of the stream          *)
  Jumps       (* how far beyond the newest datagram the next one may be    *)

ASSUME BoundsAssumption == MaxIndex \in Nat /\ Jumps \subseteq 1 .. HalfSpace - 1

VARIABLES
  tracker,    (* the ReceiveAckTracker                                     *)
  newest,     (* number of the newest datagram received, -1 before any     *)
  seen        (* numbers of all datagrams received                         *)

trackerVars == <<tracker, newest, seen>>

TrackerInit ==
  /\ tracker = NoneReceived
  /\ newest = -1
  /\ seen = {}

MarkReceived(i) ==
  /\ i > newest => i - newest \in Jumps
  /\ newest - i < HalfSpace
  /\ tracker' \in markReceived(tracker, i % SeqMod)
  /\ newest' = IF i > newest THEN i ELSE newest
  /\ seen' = seen \cup {i}

TrackerNext == \E i \in 0 .. MaxIndex : MarkReceived(i)

TrackerSpec == TrackerInit /\ [][TrackerNext]_trackerVars

-----------------------------------------------------------------------------
Acked(i) == isAcknowledged(i % SeqMod, tracker.latest, tracker.bits)

(* protocol/Packet.hpp says of ackBits_: "bit N set -> seq - N - 1          *)
(* received".  Nothing that has not been received is reported as received, *)
(* whatever the order of arrival and across the wrap of the sequence       *)
(* numbers: a false report makes the peer forget a packet that never came. *)
BitsSound ==
  tracker.has => \A i \in newest - AckHistory .. newest : Acked(i) => i \in seen

(* Everything received among the newest AckHistory + 1 datagrams is         *)
(* reported: a late arrival sets its bit, and an advance shifts every bit  *)
(* by the right amount.                                                    *)
BitsComplete ==
  \A i \in seen : newest - i <= AckHistory => Acked(i)
=============================================================================
