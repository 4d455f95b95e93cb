-------------------------- MODULE ReliableChannel --------------------------
(***************************************************************************)
(* One direction of a reliable channel (detail/channel/ReliableChannel.hpp)*)
(* between two sessions: the sending half on one peer, the receiving half  *)
(* on the other, and the UDP path between them, which loses, duplicates,   *)
(* delays and reorders datagrams.  The two directions of a channel do not  *)
(* influence each other: onRecv reads the ACK fields of ACK packets only,  *)
(* so the ones attachAck puts on DATA packets have no effect and are left  *)
(* out.                                                                    *)
(*                                                                         *)
(* A message is known by its number: message m is the one that the (m+1)st *)
(* call of asyncSend to be given a sequence number tried to send, and that *)
(* number is m % SeqMod.  Deadlines are abstracted: onTick finds any set   *)
(* of unacknowledged packets expired.  Every action is one handler run on  *)
(* the session's strand, or one event of the network.                      *)
(***************************************************************************)
EXTENDS ChannelCommon, FiniteSets, Sequences

CONSTANTS
  Ordered,            (* the template parameter of ReliableChannel         *)
  ConfiguredWindow,   (* ReliableChannelConfig::sendWindow_                *)
  CongestionWindows,  (* what cc_.sendWindow() may answer                  *)
  EncodeCanFail,      (* may codec.encode answer 0?  DefaultCodec does not *)
  SendCanFail,        (* may the socket report an error for a send?        *)
  NoPacket,           (* std::nullopt in a slot                            *)
  MaxMsgs,            (* bound: sequence numbers handed out                *)
  NetCapacity,        (* bound: datagrams in transit in each direction     *)
  Lifetime            (* a datagram is not delivered once more than this   *)
                      (* many further sequence numbers have been handed out*)

(* kMaxWindowSize, 32768 *)
MaxWindowSize == HalfSpace

normalizeWindow(w) ==
  IF w = 0 THEN 1 ELSE IF w < MaxWindowSize THEN w ELSE MaxWindowSize

Window == normalizeWindow(ConfiguredWindow)

Slots == 0 .. Window - 1

Packets == [seq : Seqs, msg : Nat]

ASSUME ChannelAssumption ==
  /\ Ordered \in BOOLEAN
  /\ ConfiguredWindow \in Seqs
  /\ CongestionWindows \subseteq Nat
  /\ EncodeCanFail \in BOOLEAN
  /\ SendCanFail \in BOOLEAN
  /\ NoPacket \notin Packets
  /\ MaxMsgs \in Nat
  /\ NetCapacity \in Nat
  /\ Lifetime \in Nat

VARIABLES
  nextSeq,            (* nextSeq_                                          *)
  sentPackets,        (* sentPackets_: slot -> packet or NoPacket          *)
  inFlightCount,      (* inFlightCount_                                    *)
  sendOps,            (* packets whose first send has not completed        *)
  expectedRecvSeq,    (* expectedRecvSeq_                                  *)
  receiveBuffer,      (* receiveBuffer_: slot -> packet or NoPacket        *)
  tracker,            (* recvAckTracker_                                   *)
  delivered,          (* messages given to recvQueue_.deliver, in order    *)
  net,                (* DATA datagrams in transit                         *)
  acks,               (* ACK datagrams in transit                          *)
  nextMsg,            (* history: number of the next message               *)
  acked,              (* history: messages released by processAck          *)
  holes               (* history: numbers used up with no packet kept      *)

senderVars   == <<nextSeq, sentPackets, inFlightCount, sendOps, nextMsg, acked, holes>>
receiverVars == <<expectedRecvSeq, receiveBuffer, tracker, delivered>>
vars == <<senderVars, receiverVars, net, acks>>

-----------------------------------------------------------------------------
slotIndex(seq) == seq % Window

(* effectiveSendWindow() when cc_.sendWindow() answers cw *)
effectiveSendWindow(cw) ==
  LET w == IF cw < Window THEN cw ELSE Window
  IN  IF w < 1 THEN 1 ELSE w

Occupied == {i \in Slots : sentPackets[i] # NoPacket}

Emptied(slots, is) == [i \in Slots |-> IF i \in is THEN NoPacket ELSE slots[i]]

(***************************************************************************)
(* The path.  A datagram carries the number of sequence numbers handed out *)
(* when its send was started, from which its age is told; the stamp is     *)
(* dropped when no datagram of the run can grow too old.  A full path      *)
(* loses what is sent into it.                                             *)
(***************************************************************************)
Stamp(now) == IF MaxMsgs <= Lifetime THEN 0 ELSE now

Fresh(d) == nextMsg - d.born <= Lifetime

Into(path, ds) ==
  IF Cardinality(path \cup ds) <= NetCapacity THEN path \cup ds ELSE path

(* sendEncoded for a set of packets, started when now numbers had been     *)
(* handed out: their datagrams enter the path.                             *)
Transmit(ps, now) ==
  net' = Into(net, {[seq |-> p.seq, msg |-> p.msg, born |-> Stamp(now)] : p \in ps})

Init ==
  /\ nextSeq = 0
  /\ sentPackets = [i \in Slots |-> NoPacket]
  /\ inFlightCount = 0
  /\ sendOps = {}
  /\ expectedRecvSeq = 0
  /\ receiveBuffer = [i \in Slots |-> NoPacket]
  /\ tracker = NoneReceived
  /\ delivered = <<>>
  /\ net = {}
  /\ acks = {}
  /\ nextMsg = 0
  /\ acked = {}
  /\ holes = {}

-----------------------------------------------------------------------------
(* asyncSend.  A call that finds the window full answers SendWindowFull    *)
(* and changes nothing; every other one uses up a sequence number first.   *)

TakeSequenceNumber(cw) ==
  /\ inFlightCount < effectiveSendWindow(cw)
  /\ nextMsg < MaxMsgs
  /\ nextSeq' = Succ(nextSeq)
  /\ nextMsg' = nextMsg + 1

(* A mutant: ++nextSeq_ instead of nextSeq_++ numbers the packet. *)
storeSentPacketPreIncrement ==
  LET packet == [seq |-> Succ(nextSeq), msg |-> nextMsg]
  IN  /\ sentPackets[slotIndex(Succ(nextSeq))] = NoPacket
      /\ sentPackets' = [sentPackets EXCEPT ![slotIndex(Succ(nextSeq))] = packet]
      /\ inFlightCount' = inFlightCount + 1
      /\ sendOps' = sendOps \cup {packet}

(* storeSentPacket and the start of the first send *)
storeSentPacket ==
  LET packet == [seq |-> nextSeq, msg |-> nextMsg]
  IN  /\ sentPackets[slotIndex(nextSeq)] = NoPacket
      /\ sentPackets' = [sentPackets EXCEPT ![slotIndex(nextSeq)] = packet]
      /\ inFlightCount' = inFlightCount + 1
      /\ sendOps' = sendOps \cup {packet}

AsyncSend(cw) ==
  /\ TakeSequenceNumber(cw)
  /\ storeSentPacket
  /\ UNCHANGED <<acked, holes, receiverVars, net, acks>>

(* The slot of the new number is still occupied: SendWindowFull, with the  *)
(* number gone.                                                            *)
AsyncSendSlotTaken(cw) ==
  /\ TakeSequenceNumber(cw)
  /\ sentPackets[slotIndex(nextSeq)] # NoPacket
  /\ holes' = holes \cup {nextMsg}
  /\ UNCHANGED <<sentPackets, inFlightCount, sendOps, acked, receiverVars, net, acks>>

(* codec.encode answers 0: BadPacket, with the number gone. *)
AsyncSendEncodeFails(cw) ==
  /\ EncodeCanFail
  /\ TakeSequenceNumber(cw)
  /\ holes' = holes \cup {nextMsg}
  /\ UNCHANGED <<sentPackets, inFlightCount, sendOps, acked, receiverVars, net, acks>>

(* The socket completes the first send of p: its datagram is on its way. *)
SendSucceeds(p) ==
  /\ sendOps' = sendOps \ {p}
  /\ Transmit({p}, p.msg + 1)
  /\ UNCHANGED <<nextSeq, sentPackets, inFlightCount, nextMsg, acked, holes,
                 receiverVars, acks>>

(* A mutant: the slot is cleared whatever packet it holds by now. *)
HoldsAnything(i, seq) == sentPackets[i] # NoPacket

(* eraseSentPacket's test that the slot still holds the packet *)
Holds(i, seq) == sentPackets[i] # NoPacket /\ sentPackets[i].seq = seq

(* The socket reports an error for the first send of p: eraseSentPacket    *)
(* forgets the packet, unless its slot has been released meanwhile.        *)
SendFails(p) ==
  LET i     == slotIndex(p.seq)
      found == Holds(i, p.seq)
  IN  /\ SendCanFail
      /\ sendOps' = sendOps \ {p}
      /\ sentPackets' = IF found THEN Emptied(sentPackets, {i}) ELSE sentPackets
      /\ inFlightCount' = IF found THEN inFlightCount - 1 ELSE inFlightCount
      /\ holes' = IF found THEN holes \cup {p.msg} ELSE holes
      /\ UNCHANGED <<nextSeq, nextMsg, acked, receiverVars, net, acks>>

(* A mutant: expired packets are counted but not sent. *)
OnTickSilent(due) ==
  /\ due # {}
  /\ UNCHANGED <<senderVars, receiverVars, net, acks>>

(* onTick: every packet whose deadline has passed is sent again. *)
OnTick(due) ==
  /\ due # {}
  /\ Transmit({sentPackets[i] : i \in due}, nextMsg)
  /\ UNCHANGED <<senderVars, receiverVars, acks>>

(* flush: every unacknowledged packet is sent again. *)
Flush ==
  /\ Transmit({sentPackets[i] : i \in Occupied}, nextMsg)
  /\ UNCHANGED <<senderVars, receiverVars, acks>>

(* A mutant: the counter is decremented once for the whole ACK. *)
ReleasedCountOne(is) == IF is = {} THEN 0 ELSE 1

(* A mutant: the counter is decremented once per ACK, covering or not. *)
ReleasedCountPerAck(is) == 1

(* how often processAck executes --inFlightCount_ *)
ReleasedCount(is) == Cardinality(is)

(* processAck: every packet that the ACK covers is released. *)
RecvAck(a) ==
  LET covered == {i \in Occupied : isAcknowledged(sentPackets[i].seq, a.ack, a.bits)}
  IN  /\ Fresh(a)
      /\ sentPackets' = Emptied(sentPackets, covered)
      /\ inFlightCount' = inFlightCount - ReleasedCount(covered)
      /\ acked' = acked \cup {sentPackets[i].msg : i \in covered}
      /\ UNCHANGED <<nextSeq, sendOps, nextMsg, holes, receiverVars, net, acks>>

-----------------------------------------------------------------------------
(* handlePacket for a DATA datagram: onRecv, then an ACK built from the     *)
(* tracker that onRecv left, if it has received anything.                  *)

buildAck(t) ==
  IF t.has THEN {[ack |-> t.latest, bits |-> t.bits, born |-> Stamp(nextMsg)]} ELSE {}

SendAck(t) == acks' = Into(acks, buildAck(t))

isInOrderedReceiveWindow(seq) ==
  Delta(seq, expectedRecvSeq) < Window /\ Delta(seq, expectedRecvSeq) < HalfSpace

(* A mutant: a duplicate is dropped without an ACK. *)
RecvOrderedOutsideSilent(p) ==
  /\ Ordered
  /\ ~isInOrderedReceiveWindow(p.seq)
  /\ UNCHANGED <<senderVars, receiverVars, net, acks>>

(* receiveOrdered, outside the window: old duplicates end here. *)
RecvOrderedOutside(p) ==
  /\ Ordered
  /\ Fresh(p)
  /\ ~isInOrderedReceiveWindow(p.seq)
  /\ SendAck(tracker)
  /\ UNCHANGED <<senderVars, receiverVars, net>>

(* receiveOrdered, slot occupied: the datagram is dropped, but it has been *)
(* marked as received and the ACK covers it.                               *)
RecvOrderedSlotTaken(p) ==
  /\ Ordered
  /\ Fresh(p)
  /\ isInOrderedReceiveWindow(p.seq)
  /\ receiveBuffer[slotIndex(p.seq)] # NoPacket
  /\ tracker' \in markReceived(tracker, p.seq)
  /\ SendAck(tracker')
  /\ UNCHANGED <<senderVars, expectedRecvSeq, receiveBuffer, delivered, net>>

(* the sequence number i places beyond the expected one *)
Upcoming(i) == (expectedRecvSeq + i) % SeqMod

(* drainReadyPackets' test, made for the i-th round of its loop *)
Ready(buffer, i) ==
  /\ buffer[slotIndex(Upcoming(i))] # NoPacket
  /\ buffer[slotIndex(Upcoming(i))].seq = Upcoming(i)

(* drainReadyPackets delivers n packets: as many as are ready in a row. *)
Drains(buffer, n) ==
  /\ \A i \in 0 .. n - 1 : Ready(buffer, i)
  /\ n < Window => ~Ready(buffer, n)

(* A mutant: a gap is skipped instead of waited for. *)
drainReadyPacketsSkipping(buffer) ==
  \E i \in Slots :
    /\ buffer[i] # NoPacket
    /\ delivered' = Append(delivered, buffer[i].msg)
    /\ receiveBuffer' = Emptied(buffer, {i})
    /\ expectedRecvSeq' = Succ(buffer[i].seq)

drainReadyPackets(buffer) ==
  \E n \in 0 .. Window :
    /\ Drains(buffer, n)
    /\ delivered' = delivered \o [i \in 1 .. n |-> buffer[slotIndex(Upcoming(i - 1))].msg]
    /\ receiveBuffer' = Emptied(buffer, {slotIndex(Upcoming(i)) : i \in 0 .. n - 1})
    /\ expectedRecvSeq' = Upcoming(n)

(* receiveOrdered, slot free: the packet is buffered and what has become   *)
(* ready is delivered.                                                     *)
RecvOrderedStore(p) ==
  /\ Ordered
  /\ Fresh(p)
  /\ isInOrderedReceiveWindow(p.seq)
  /\ receiveBuffer[slotIndex(p.seq)] = NoPacket
  /\ tracker' \in markReceived(tracker, p.seq)
  /\ drainReadyPackets([receiveBuffer EXCEPT ![slotIndex(p.seq)] =
                          [seq |-> p.seq, msg |-> p.msg]])
  /\ SendAck(tracker')
  /\ UNCHANGED <<senderVars, net>>

(* A mutant: a late packet is always taken for a new one. *)
isDuplicateOrStaleNever(seq) == tracker.has /\ seq = tracker.latest

(* A mutant: every packet older than the latest is taken for a duplicate. *)
isDuplicateOrStaleAllLate(seq) == tracker.has /\ ~isNewerSequence(seq, tracker.latest)

isDuplicateOrStaleUnordered(seq) ==
  /\ tracker.has
  /\ ~isNewerSequence(seq, tracker.latest)
  /\ \/ Delta(tracker.latest, seq) > AckHistory
     \/ isAcknowledged(seq, tracker.latest, tracker.bits)

(* A mutant: a duplicate is dropped without an ACK. *)
RecvUnorderedDuplicateSilent(p) ==
  /\ ~Ordered
  /\ isDuplicateOrStaleUnordered(p.seq)
  /\ UNCHANGED <<senderVars, receiverVars, net, acks>>

RecvUnorderedDuplicate(p) ==
  /\ ~Ordered
  /\ Fresh(p)
  /\ isDuplicateOrStaleUnordered(p.seq)
  /\ SendAck(tracker)
  /\ UNCHANGED <<senderVars, receiverVars, net>>

RecvUnorderedNew(p) ==
  /\ ~Ordered
  /\ Fresh(p)
  /\ ~isDuplicateOrStaleUnordered(p.seq)
  /\ tracker' \in markReceived(tracker, p.seq)
  /\ delivered' = Append(delivered, p.msg)
  /\ SendAck(tracker')
  /\ UNCHANGED <<senderVars, expectedRecvSeq, receiveBuffer, net>>

RecvData(p) ==
  \/ RecvOrderedOutside(p)
  \/ RecvOrderedSlotTaken(p)
  \/ RecvOrderedStore(p)
  \/ RecvUnorderedDuplicate(p)
  \/ RecvUnorderedNew(p)

-----------------------------------------------------------------------------
(* The path delivers a datagram any number of times before it loses it. *)

Lose(p) ==
  /\ net' = net \ {p}
  /\ UNCHANGED <<senderVars, receiverVars, acks>>

LoseAck(a) ==
  /\ acks' = acks \ {a}
  /\ UNCHANGED <<senderVars, receiverVars, net>>

Next ==
  \/ \E cw \in CongestionWindows :
       AsyncSend(cw) \/ AsyncSendSlotTaken(cw) \/ AsyncSendEncodeFails(cw)
  \/ \E p \in sendOps : SendSucceeds(p) \/ SendFails(p)
  \/ \E due \in SUBSET Occupied : OnTick(due)
  \/ Flush
  \/ \E p \in net : RecvData(p) \/ Lose(p)
  \/ \E a \in acks : RecvAck(a) \/ LoseAck(a)

Spec == Init /\ [][Next]_vars

(***************************************************************************)
(* Fairness.  The socket completes every send; the retransmit timer keeps  *)
(* firing and no deadline is infinite; and a path over which a datagram is *)
(* sent again and again delivers it again and again, in both directions.   *)
(***************************************************************************)
MsgBound == 0 .. MaxMsgs - 1

CoversMsg(a, m) ==
  \E i \in Occupied :
    sentPackets[i].msg = m /\ isAcknowledged(sentPackets[i].seq, a.ack, a.bits)

Fairness ==
  /\ WF_vars(\E p \in sendOps : SendSucceeds(p))
  /\ \A i \in Slots : WF_vars(i \in Occupied /\ OnTick({i}))
  /\ \A m \in MsgBound :
       /\ SF_vars(\E p \in net : p.msg = m /\ RecvData(p))
       /\ SF_vars(\E a \in acks : CoversMsg(a, m) /\ RecvAck(a))

FairSpec == Spec /\ Fairness

-----------------------------------------------------------------------------
SlotContents == Packets \cup {NoPacket}

Datagrams == [seq : Seqs, msg : Nat, born : Nat]

AckDatagrams == [ack : Seqs, bits : AckBits, born : Nat]

(* Every variable has its type; the counters are not negative.             *)
TypeOK ==
  /\ nextSeq \in Seqs
  /\ sentPackets \in [Slots -> SlotContents]
  /\ inFlightCount \in Nat
  /\ sendOps \subseteq Packets
  /\ expectedRecvSeq \in Seqs
  /\ receiveBuffer \in [Slots -> SlotContents]
  /\ tracker \in Trackers
  /\ delivered \in Seq(Nat)
  /\ net \subseteq Datagrams
  /\ acks \subseteq AckDatagrams
  /\ nextMsg \in Nat
  /\ acked \subseteq Nat
  /\ holes \subseteq Nat

(* inFlightCount_ is a counter kept apart from the slots: it is decremented *)
(* by processAck and by a failed send's completion, in whatever order they *)
(* come, and always equals the number of occupied slots.  It is what       *)
(* asyncSend compares with the window: an excess blocks the channel, a     *)
(* deficit (or an underflow of the unsigned counter) overruns it.          *)
InFlightExact == inFlightCount = Cardinality(Occupied)

(* p carries the sequence number of its message, one of the first n. *)
Numbered(p, n) == p.seq = p.msg % SeqMod /\ p.msg < n

(* A ring holds numbered packets only, each in the slot of its number. *)
RingSound(ring, n) ==
  \A i \in Slots :
    ring[i] # NoPacket => Numbered(ring[i], n) /\ slotIndex(ring[i].seq) = i

(* Every copy of a message, in the send ring, in a pending send, on the    *)
(* path or in the receive buffer, carries the number that was handed out   *)
(* for it, and no slot holds a packet of another slot.                     *)
NumbersSound ==
  /\ nextSeq = nextMsg % SeqMod
  /\ \A p \in sendOps \cup net : Numbered(p, nextMsg)
  /\ RingSound(sentPackets, nextMsg)
  /\ RingSound(receiveBuffer, nextMsg)

InWindow == {sentPackets[i].msg : i \in Occupied}

(* No message is forgotten: one that was given a sequence number has been  *)
(* acknowledged, or its sender has been told that it failed, or it still   *)
(* holds a slot and will be sent again.  The completion of a failed send   *)
(* that comes after an ACK released the slot, when the next packet may     *)
(* already be in it, must leave that packet alone.                         *)
Accounted == \A m \in 0 .. nextMsg - 1 : m \in acked \cup holes \cup InWindow

(* A reliable ordered channel is a FIFO stream: it delivers messages 0, 1, *)
(* 2, ... in order, with nothing skipped and nothing repeated, whatever    *)
(* the path duplicates, reorders or loses.                                 *)
Stream == INSTANCE FifoStream WITH issued <- nextMsg

StreamSpec == Stream!Spec

(* ... and every message issued is delivered in the end. *)
FairStreamSpec == Stream!FairSpec

(* The same as an invariant: message i is delivered as the i-th one, across *)
(* the wrap of the sequence numbers.                                       *)
OrderedPrefix == \A i \in 1 .. Len(delivered) : delivered[i] = i - 1

(* A reliable unordered channel delivers no message twice. *)
AtMostOnce ==
  \A i, j \in 1 .. Len(delivered) : delivered[i] = delivered[j] => i = j

Buffered == {receiveBuffer[i].msg : i \in {j \in Slots : receiveBuffer[j] # NoPacket}}

DeliveredMsgs == {delivered[i] : i \in 1 .. Len(delivered)}

(* What the sender has forgotten because of an ACK has been delivered on   *)
(* the other side, or waits in its receive buffer: an ACK is a promise.    *)
AckSound == acked \subseteq DeliveredMsgs \cup Buffered

(* ChannelConfig.hpp: "Packets are retransmitted until acknowledged and     *)
(* delivered to receivers".  In the end, every message that asyncSend      *)
(* accepted, and whose send did not fail, has been delivered.              *)
EventuallyDelivered == <>[](0 .. nextMsg - 1 \subseteq DeliveredMsgs \cup holes)

(* In the end, every accepted message has left the send window because an  *)
(* ACK for it came, or its send failed.                                    *)
EventuallyReleased == <>[](0 .. nextMsg - 1 \subseteq acked \cup holes)
=============================================================================
