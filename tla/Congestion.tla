----------------------------- MODULE Congestion -----------------------------
(***************************************************************************)
(* The congestion controllers (detail/congestion/*.hpp) as a reliable      *)
(* channel drives them: onAck, onLoss and sendWindow, in any order, and    *)
(* reset, which the concept demands and no channel calls yet.              *)
(*                                                                         *)
(* Rates and tokens are doubles in the code.  Here a rate is a multiple of *)
(* 1/100 packet per unit of time and tokens are multiples of 1/100, both   *)
(* rounded down.  BbrLite's bandwidth is 1/r for the smallest round trip   *)
(* r > 0 sampled, so r itself is kept, and its pacing gain is a multiple   *)
(* of 1/4.  SIZE_MAX and Micros::max() are Unlimited.                      *)
(***************************************************************************)
EXTENDS Integers, FiniteSetsExt

CONSTANTS
  PeakRate, FloorRate,   (* rate of the constructor, 10 packets per second *)
  Burst,                 (* burst of the constructor                       *)
  Rtts,                  (* round trips onAck may report: 0 after a        *)
                         (* retransmission                                 *)
  Expiry,                (* 10 seconds                                     *)
  kProbeRttInterval,     (* 200 ACKs                                       *)
  Unlimited              (* larger than any window or round trip           *)

ASSUME CongestionAssumption ==
  /\ PeakRate \in Nat /\ FloorRate \in Nat
  /\ Burst \in Nat \ {0}
  /\ Rtts \subseteq Nat
  /\ Expiry \in Nat /\ kProbeRttInterval \in Nat \ {0}
  /\ Unlimited \in Nat /\ Unlimited > 4

VARIABLE controller      (* the controller of one channel                  *)

-----------------------------------------------------------------------------
(* LeakyBucket, elapsed units after lastTick_.  Nothing takes a token away. *)

NewBucket == [kind |-> "LeakyBucket", rate |-> PeakRate, tokens |-> 100 * Burst]

Refill(b, elapsed) ==
  [b EXCEPT !.tokens = Min({100 * Burst, @ + b.rate * elapsed})]

BucketAck(b, elapsed) ==
  LET r == Refill(b, elapsed) IN [r EXCEPT !.rate = Min({PeakRate, (@ * 101) \div 100})]

BucketLoss(b) == [b EXCEPT !.rate = Max({@ \div 2, FloorRate})]

BucketReset(b) == [b EXCEPT !.rate = PeakRate, !.tokens = 100 * Burst]

BucketWindow(b) == b.tokens \div 100

-----------------------------------------------------------------------------
(* BbrLite.  minRtt = 0 stands for btlBw_ = 0; age is the time since       *)
(* rtPropStamp_, counted up to one more than Expiry.                       *)

NewBbr == [kind |-> "BbrLite", phase |-> "startup", minRtt |-> 0, rtProp |-> Unlimited,
           age |-> 0, inflightCap |-> Unlimited, ackCount |-> 0, paceGain |-> 8]

(* A mutant: the cap is not lifted when the round trip has been probed. *)
AdvanceKeepsCap(b) ==
  CASE b.phase = "startup"  -> IF b.minRtt = 0 THEN b
                               ELSE [b EXCEPT !.phase = "drain", !.paceGain = 3]
    [] b.phase = "drain"    -> [b EXCEPT !.phase = "probeBw", !.paceGain = 5]
    [] b.phase = "probeBw"  -> IF b.ackCount # 0 THEN b
                               ELSE [b EXCEPT !.phase = "probeRtt", !.paceGain = 4,
                                              !.inflightCap = 4]
    [] b.phase = "probeRtt" -> [b EXCEPT !.phase = "probeBw", !.paceGain = 5]

(* advancePhase *)
Advance(b) ==
  CASE b.phase = "startup"  -> IF b.minRtt = 0 THEN b
                               ELSE [b EXCEPT !.phase = "drain", !.paceGain = 3]
    [] b.phase = "probeBw"  -> IF b.ackCount # 0 THEN b
                               ELSE [b EXCEPT !.phase = "probeRtt", !.paceGain = 4,
                                              !.inflightCap = 4]
    [] OTHER                -> [b EXCEPT !.phase = "probeBw", !.paceGain = 5,
                                         !.inflightCap = Unlimited]

(* The sample updates rtProp_ and btlBw_; ackCount_ is kept modulo the      *)
(* probing interval.                                                       *)
BbrAck(b, elapsed, rtt) ==
  LET aged == Min({Expiry + 1, b.age + elapsed})
      fresh == rtt < b.rtProp \/ aged > Expiry
  IN  Advance([b EXCEPT !.rtProp = IF fresh THEN rtt ELSE @,
                        !.age = IF fresh THEN 0 ELSE aged,
                        !.minRtt = CASE rtt = 0 -> @
                                     [] @ = 0   -> rtt
                                     [] OTHER   -> Min({@, rtt}),
                        !.ackCount = (@ + 1) % kProbeRttInterval])

(* A mutant: no floor under the halved cap. *)
BbrLossNoFloor(b) == [b EXCEPT !.inflightCap = @ \div 2]

BbrLoss(b) == [b EXCEPT !.inflightCap = Max({4, @ \div 2})]

(* bdp * paceGain_ + 4, under the cap *)
BbrWindow(b) ==
  LET bdp == IF b.minRtt = 0 THEN 0 ELSE (b.rtProp * b.paceGain) \div (4 * b.minRtt)
  IN  Min({bdp + 4, b.inflightCap})

-----------------------------------------------------------------------------
CongestionInit ==
  controller \in {NewBucket, NewBbr, [kind |-> "Null"]}

(* An ACK of a packet whose round trip was rtt (0 after a retransmission), *)
(* elapsed units after the previous call                                   *)
OnAck(rtt, elapsed) ==
  controller' = CASE controller.kind = "LeakyBucket" -> BucketAck(controller, elapsed)
                  [] controller.kind = "BbrLite"     -> BbrAck(controller, elapsed, rtt)
                  [] controller.kind = "Null"        -> controller

OnLoss ==
  controller' = CASE controller.kind = "LeakyBucket" -> BucketLoss(controller)
                  [] controller.kind = "BbrLite"     -> BbrLoss(controller)
                  [] controller.kind = "Null"        -> controller

(* sendWindow refills the bucket. *)
QueryWindow(elapsed) ==
  IF controller.kind = "LeakyBucket"
    THEN controller' = Refill(controller, elapsed)
    ELSE UNCHANGED controller

Reset ==
  controller' = CASE controller.kind = "LeakyBucket" -> BucketReset(controller)
                  [] controller.kind = "BbrLite"     -> NewBbr
                  [] controller.kind = "Null"        -> controller

sendWindow ==
  CASE controller.kind = "LeakyBucket" -> BucketWindow(controller)
    [] controller.kind = "BbrLite"     -> BbrWindow(controller)
    [] controller.kind = "Null"        -> Unlimited

CongestionNext ==
  \/ \E rtt \in Rtts, elapsed \in {0, 1} : OnAck(rtt, elapsed)
  \/ OnLoss
  \/ \E elapsed \in {0, 1} : QueryWindow(elapsed)
  \/ Reset

CongestionSpec == CongestionInit /\ [][CongestionNext]_controller

-----------------------------------------------------------------------------
(* effectiveSendWindow lifts a window of 0 to 1, which is stop-and-wait:   *)
(* every loss then costs a retransmission timeout.  BbrLite never goes     *)
(* below four packets, whatever the losses and although the round trips of *)
(* 0 that retransmitted packets report become the minimum.                 *)
BbrFloor == controller.kind = "BbrLite" => sendWindow >= 4

(* BbrLite.hpp: "We do briefly halve the inflight cap".  The cap that      *)
(* losses or the probing of the round trip have lowered is lifted again.   *)
CapRestored ==
  controller.kind = "BbrLite" ~> controller.kind = "BbrLite" /\ controller.inflightCap = Unlimited
=============================================================================
