------------------------- MODULE UnreliableChannel -------------------------
(***************************************************************************)
(* One direction of an unreliable sequenced channel                        *)
(* (detail/channel/UnreliableChannel.hpp): the sender numbers its messages *)
(* and sends each of them once; the receiver drops what is not newer than  *)
(* the last message it delivered.  The path loses, duplicates and reorders *)
(* datagrams.  onTick, flush and buildAck do nothing in this class.        *)
(*                                                                         *)
(* Message m carries sequence number m % SeqMod.                           *)
(***************************************************************************)
EXTENDS ChannelCommon, Sequences, FiniteSets

CONSTANTS
  EncodeCanFail,   (* may codec.encode answer 0?                           *)
  MaxMsgs,         (* bound: sequence numbers handed out                   *)
  NetCapacity,     (* bound: datagrams in transit                          *)
  Lifetime,        (* a datagram is not delivered once more than this many *)
                   (* further sequence numbers have been handed out        *)
  MaxOutage        (* how many messages in a row may fail to arrive        *)

ASSUME UnreliableAssumption ==
  /\ EncodeCanFail \in BOOLEAN
  /\ MaxMsgs \in Nat
  /\ NetCapacity \in Nat
  /\ Lifetime \in Nat
  /\ MaxOutage \in Nat

VARIABLES
  nextSeq,        (* nextSeq_                                              *)
  lastSeq,        (* lastSeq_                                              *)
  hasDelivered,   (* hasDelivered_                                         *)
  delivered,      (* messages given to recvQueue_.deliver, in order        *)
  net,            (* messages in transit                                   *)
  nextMsg,        (* history: number of the next message                   *)
  newestArrived   (* history: newest message that arrived, -1 before any   *)

unreliableVars == <<nextSeq, lastSeq, hasDelivered, delivered, net, nextMsg, newestArrived>>

UnreliableInit ==
  /\ nextSeq = 0
  /\ lastSeq = 0
  /\ hasDelivered = FALSE
  /\ delivered = <<>>
  /\ net = {}
  /\ nextMsg = 0
  /\ newestArrived = -1

TakeSequenceNumber ==
  /\ nextMsg < MaxMsgs
  /\ nextMsg - newestArrived <= MaxOutage
  /\ nextSeq' = Succ(nextSeq)
  /\ nextMsg' = nextMsg + 1

(* asyncSend.  A full path loses the datagram, as it may any other. *)
AsyncSend ==
  /\ TakeSequenceNumber
  /\ net' = IF Cardinality(net) < NetCapacity
              THEN net \cup {[seq |-> nextSeq, msg |-> nextMsg]} ELSE net
  /\ UNCHANGED <<lastSeq, hasDelivered, delivered, newestArrived>>

(* codec.encode answers 0: BadPacket, with the number gone. *)
AsyncSendEncodeFails ==
  /\ EncodeCanFail
  /\ TakeSequenceNumber
  /\ UNCHANGED <<lastSeq, hasDelivered, delivered, net, newestArrived>>

Arrives(p) ==
  /\ nextMsg - p.msg - 1 <= Lifetime
  /\ newestArrived' = IF p.msg > newestArrived THEN p.msg ELSE newestArrived
  /\ UNCHANGED <<nextSeq, net, nextMsg>>

(* A mutant: only a repetition of the last number is dropped. *)
DropsDuplicateOnly(p) == hasDelivered /\ p.seq = lastSeq

(* onRecv's early return *)
Drops(p) == hasDelivered /\ isStaleOrDuplicate(p.seq, lastSeq)

OnRecvStale(p) ==
  /\ Arrives(p)
  /\ Drops(p)
  /\ UNCHANGED <<lastSeq, hasDelivered, delivered>>

OnRecvNewer(p) ==
  /\ Arrives(p)
  /\ ~Drops(p)
  /\ hasDelivered' = TRUE
  /\ lastSeq' = p.seq
  /\ delivered' = Append(delivered, p.msg)

Lose(p) ==
  /\ net' = net \ {p}
  /\ UNCHANGED <<nextSeq, lastSeq, hasDelivered, delivered, nextMsg, newestArrived>>

UnreliableNext ==
  \/ AsyncSend
  \/ AsyncSendEncodeFails
  \/ \E p \in net : OnRecvStale(p) \/ OnRecvNewer(p) \/ Lose(p)

UnreliableSpec == UnreliableInit /\ [][UnreliableNext]_unreliableVars

-----------------------------------------------------------------------------
(* UnreliableChannel.hpp: "delivers only packets newer than the last       *)
(* delivered packet".  Deliveries go forward only, in the order in which   *)
(* the messages were sent, across the wrap of the sequence numbers.        *)
Sequenced ==
  \A i \in 1 .. Len(delivered) - 1 : delivered[i] < delivered[i + 1]

(* ChannelConfig.hpp: "Receivers deliver newer sequence numbers".  The     *)
(* newest message that ever arrived is the last one delivered: nothing new *)
(* is mistaken for something old.                                          *)
NewestDelivered ==
  newestArrived >= 0 => delivered # <<>> /\ delivered[Len(delivered)] = newestArrived
=============================================================================
