----------------------- MODULE ReliableChannelProofs -----------------------
(***************************************************************************)
(* Theorems about ReliableChannel, for every number of sequence numbers,   *)
(* every width of the ACK word, every window and every bound.              *)
(***************************************************************************)
EXTENDS ReliableChannel, ChannelCommonProofs, FiniteSetTheorems, TLAPS

-----------------------------------------------------------------------------
(* Slots and upcoming numbers. *)

(* The window that normalizeWindow leaves is not empty. *)
LEMMA WindowRange == Window \in Nat /\ Window >= 1
  BY SeqModAssumption, ChannelAssumption
     DEF Window, normalizeWindow, MaxWindowSize, HalfSpace, Seqs

(* slotIndex never leaves the ring. *)
LEMMA SlotIndexRange ==
  ASSUME NEW s \in Nat
  PROVE  slotIndex(s) \in Slots
<1>1. s % Window \in 0 .. Window - 1
  BY WindowRange, ModRange
<1>2. QED
  BY <1>1 DEF slotIndex, Slots

(* The i-th upcoming number is a sequence number. *)
LEMMA UpcomingRange ==
  ASSUME expectedRecvSeq \in Seqs, NEW i \in Nat
  PROVE  Upcoming(i) \in Seqs
  BY SeqModAssumption, ModRange DEF Upcoming, Seqs

-----------------------------------------------------------------------------
(* Slots of the rings. *)

(* The ring is finite, and so is every part of it. *)
LEMMA SlotsFinite ==
  ASSUME NEW S \in SUBSET Slots
  PROVE  IsFiniteSet(S) /\ Cardinality(S) \in Nat
<1>1. IsFiniteSet(Slots)
  BY WindowRange, FS_Interval DEF Slots
<1>2. QED
  BY <1>1, FS_Subset, FS_CardinalityType

(* Clearing slots of a ring leaves a ring. *)
LEMMA EmptiedType ==
  ASSUME NEW ring \in [Slots -> SlotContents], NEW S
  PROVE  Emptied(ring, S) \in [Slots -> SlotContents]
  BY DEF Emptied, SlotContents

(* What is not NoPacket in a slot is a packet. *)
LEMMA SlotPacket ==
  ASSUME NEW ring \in [Slots -> SlotContents], NEW i \in Slots, ring[i] # NoPacket
  PROVE  ring[i] \in Packets
  BY DEF SlotContents

(* Clearing slots empties exactly those. *)
LEMMA OccupiedAfterEmptied ==
  ASSUME NEW S \in SUBSET Slots, sentPackets' = Emptied(sentPackets, S)
  PROVE  Occupied' = Occupied \ S
  BY DEF Occupied, Emptied

(* Filling a slot occupies it and no other. *)
LEMMA OccupiedAfterStore ==
  ASSUME NEW i \in Slots, NEW packet, packet # NoPacket,
         sentPackets \in [Slots -> SlotContents],
         sentPackets' = [sentPackets EXCEPT ![i] = packet]
  PROVE  Occupied' = Occupied \cup {i}
  BY DEF Occupied

(* Releasing occupied slots lowers their number by as many. *)
LEMMA CardinalityRelease ==
  ASSUME NEW S \in SUBSET Occupied
  PROVE  /\ Cardinality(S) \in Nat
         /\ Cardinality(Occupied) - Cardinality(S) \in Nat
         /\ Cardinality(Occupied \ S) = Cardinality(Occupied) - Cardinality(S)
<1>1. IsFiniteSet(Occupied) /\ Cardinality(Occupied) \in Nat
  BY SlotsFinite DEF Occupied
<1>2. IsFiniteSet(S) /\ Cardinality(S) \in Nat
  BY SlotsFinite DEF Occupied
<1>3. Cardinality(S) <= Cardinality(Occupied)
  BY <1>1, FS_Subset
<1>4. Occupied \cap S = S
  OBVIOUS
<1>5. Cardinality(Occupied \ S) = Cardinality(Occupied) - Cardinality(S)
  BY <1>1, <1>4, FS_Difference
<1>6. QED
  BY <1>1, <1>2, <1>3, <1>5

(* Path operations add only what is sent. *)
LEMMA IntoSubset ==
  ASSUME NEW path, NEW ds
  PROVE  Into(path, ds) \subseteq path \cup ds
  BY DEF Into

(* Datagrams made from packets are datagrams. *)
LEMMA TransmitType ==
  ASSUME NEW ps \in SUBSET Packets, NEW now \in Nat, Transmit(ps, now),
         net \subseteq Datagrams
  PROVE  net' \subseteq Datagrams
<1>1. Stamp(now) \in Nat
  BY DEF Stamp
<1>2. {[seq |-> p.seq, msg |-> p.msg, born |-> Stamp(now)] : p \in ps} \subseteq Datagrams
  BY <1>1 DEF Packets, Datagrams
<1>3. QED
  BY <1>2, IntoSubset DEF Transmit

(* ACKs made from a tracker are ACKs. *)
LEMMA SendAckType ==
  ASSUME NEW t \in Trackers, nextMsg \in Nat, acks \subseteq AckDatagrams, SendAck(t)
  PROVE  acks' \subseteq AckDatagrams
<1>1. Stamp(nextMsg) \in Nat
  BY DEF Stamp
<1>2. buildAck(t) \subseteq AckDatagrams
  BY <1>1 DEF buildAck, AckDatagrams, Trackers
<1>3. QED
  BY <1>2, IntoSubset DEF SendAck

-----------------------------------------------------------------------------
(* Types and the in-flight counter, together: that processAck leaves a      *)
(* counter that is not negative follows from the counter being exact.      *)

CountInv == TypeOK /\ InFlightExact

LEMMA CountInit == Init => CountInv
<1> SUFFICES ASSUME Init PROVE CountInv
  OBVIOUS
<1>1. TypeOK
  BY SeqModAssumption
     DEF Init, TypeOK, Seqs, SlotContents, Trackers, NoneReceived, AckBits
<1>2. Occupied = {}
  BY DEF Init, Occupied
<1>3. InFlightExact
  BY <1>2, FS_EmptySet DEF Init, InFlightExact
<1>4. QED
  BY <1>1, <1>3 DEF CountInv

(* The sender: asyncSend, the completion of its send, onTick, flush and     *)
(* processAck.                                                             *)
LEMMA CountTakesNumber ==
  ASSUME CountInv, NEW cw \in CongestionWindows, TakeSequenceNumber(cw)
  PROVE  nextSeq' \in Seqs /\ nextMsg' \in Nat
  BY SuccRange DEF CountInv, TypeOK, TakeSequenceNumber

LEMMA CountAsyncSend ==
  ASSUME CountInv, NEW cw \in CongestionWindows, AsyncSend(cw)
  PROVE  CountInv'
<1> DEFINE packet == [seq |-> nextSeq, msg |-> nextMsg]
           slot   == slotIndex(nextSeq)
<1>1. slot \in Slots
  BY SlotIndexRange, SeqModAssumption DEF CountInv, TypeOK, Seqs
<1>2. packet \in Packets /\ packet # NoPacket
  BY ChannelAssumption DEF CountInv, TypeOK, Packets
<1>3. /\ sentPackets[slot] = NoPacket
      /\ sentPackets' = [sentPackets EXCEPT ![slot] = packet]
      /\ inFlightCount' = inFlightCount + 1
      /\ sendOps' = sendOps \cup {packet}
  BY DEF AsyncSend, storeSentPacket
<1>4. TypeOK'
  <2>1. sentPackets' \in [Slots -> SlotContents]
    BY <1>1, <1>2, <1>3 DEF CountInv, TypeOK, SlotContents
  <2>2. sendOps' \subseteq Packets
    BY <1>2, <1>3 DEF CountInv, TypeOK
  <2>3. nextSeq' \in Seqs /\ nextMsg' \in Nat
    BY CountTakesNumber DEF AsyncSend
  <2>4. QED
    BY <1>3, <2>1, <2>2, <2>3 DEF CountInv, TypeOK, AsyncSend, receiverVars
<1>5. Occupied' = Occupied \cup {slot}
  BY <1>1, <1>2, <1>3, OccupiedAfterStore DEF CountInv, TypeOK
<1>6. slot \notin Occupied
  BY <1>3 DEF Occupied
<1>7. IsFiniteSet(Occupied)
  BY SlotsFinite DEF Occupied
<1>8. Cardinality(Occupied') = Cardinality(Occupied) + 1
  BY <1>5, <1>6, <1>7, FS_AddElement
<1>9. InFlightExact'
  BY <1>3, <1>8 DEF CountInv, InFlightExact
<1>10. QED
  BY <1>4, <1>9 DEF CountInv

(* A refused send leaves the ring alone. *)
LEMMA CountRefusedSend ==
  ASSUME CountInv, NEW cw \in CongestionWindows,
         AsyncSendSlotTaken(cw) \/ AsyncSendEncodeFails(cw)
  PROVE  CountInv'
<1>1. nextSeq' \in Seqs /\ nextMsg' \in Nat
  BY CountTakesNumber DEF AsyncSendSlotTaken, AsyncSendEncodeFails
<1>2. TypeOK'
  BY <1>1 DEF CountInv, TypeOK, AsyncSendSlotTaken, AsyncSendEncodeFails, receiverVars
<1>3. InFlightExact'
  BY DEF CountInv, InFlightExact, Occupied, AsyncSendSlotTaken, AsyncSendEncodeFails
<1>4. QED
  BY <1>2, <1>3 DEF CountInv

LEMMA CountSendSucceeds ==
  ASSUME CountInv, NEW p \in sendOps, SendSucceeds(p)
  PROVE  CountInv'
<1>1. p \in Packets /\ p.msg + 1 \in Nat
  BY DEF CountInv, TypeOK, Packets
<1>2. net' \subseteq Datagrams
  BY <1>1, TransmitType DEF CountInv, TypeOK, SendSucceeds
<1>3. TypeOK'
  BY <1>2 DEF CountInv, TypeOK, SendSucceeds, receiverVars
<1>4. InFlightExact'
  BY DEF CountInv, InFlightExact, Occupied, SendSucceeds
<1>5. QED
  BY <1>3, <1>4 DEF CountInv

LEMMA CountSendFails ==
  ASSUME CountInv, NEW p \in sendOps, SendFails(p)
  PROVE  CountInv'
<1> DEFINE i == slotIndex(p.seq)
<1>1. p \in Packets /\ p.seq \in Nat /\ p.msg \in Nat
  BY SeqModAssumption DEF CountInv, TypeOK, Packets, Seqs
<1>2. i \in Slots
  BY <1>1, SlotIndexRange
<1>3. CASE Holds(i, p.seq)
  <2>1. /\ sentPackets' = Emptied(sentPackets, {i})
        /\ inFlightCount' = inFlightCount - 1
        /\ holes' = holes \cup {p.msg}
    BY <1>3 DEF SendFails
  <2>2. {i} \in SUBSET Occupied
    BY <1>2, <1>3 DEF Holds, Occupied
  <2>3. Cardinality({i}) = 1
    BY FS_Singleton
  <2>4. Occupied' = Occupied \ {i}
    BY <1>2, <2>1, OccupiedAfterEmptied
  <2>5. InFlightExact' /\ inFlightCount' \in Nat
    BY <2>1, <2>2, <2>3, <2>4, CardinalityRelease DEF CountInv, InFlightExact
  <2>6. sentPackets' \in [Slots -> SlotContents]
    BY <2>1, EmptiedType DEF CountInv, TypeOK
  <2>7. TypeOK'
    BY <1>1, <2>1, <2>5, <2>6 DEF CountInv, TypeOK, SendFails, receiverVars
  <2>8. QED
    BY <2>5, <2>7 DEF CountInv
<1>4. CASE ~Holds(i, p.seq)
  <2>1. UNCHANGED <<sentPackets, inFlightCount, holes>>
    BY <1>4 DEF SendFails
  <2>2. TypeOK'
    BY <2>1 DEF CountInv, TypeOK, SendFails, receiverVars
  <2>3. InFlightExact'
    BY <2>1 DEF CountInv, InFlightExact, Occupied
  <2>4. QED
    BY <2>2, <2>3 DEF CountInv
<1>5. QED
  BY <1>3, <1>4

(* onTick and flush only send copies of what the ring holds. *)
LEMMA CountResend ==
  ASSUME CountInv, NEW due \in SUBSET Occupied,
         Transmit({sentPackets[i] : i \in due}, nextMsg),
         UNCHANGED <<senderVars, receiverVars, acks>>
  PROVE  CountInv'
<1>1. {sentPackets[i] : i \in due} \subseteq Packets
  BY SlotPacket DEF CountInv, TypeOK, Occupied
<1>2. net' \subseteq Datagrams
  BY <1>1, TransmitType DEF CountInv, TypeOK
<1>3. TypeOK'
  BY <1>2 DEF CountInv, TypeOK, senderVars, receiverVars
<1>4. InFlightExact'
  BY DEF CountInv, InFlightExact, Occupied, senderVars
<1>5. QED
  BY <1>3, <1>4 DEF CountInv

LEMMA CountRecvAck ==
  ASSUME CountInv, NEW a \in acks, RecvAck(a)
  PROVE  CountInv'
<1> DEFINE covered == {i \in Occupied : isAcknowledged(sentPackets[i].seq, a.ack, a.bits)}
<1>1. covered \in SUBSET Occupied /\ covered \in SUBSET Slots
  BY DEF Occupied
<1>2. /\ sentPackets' = Emptied(sentPackets, covered)
      /\ inFlightCount' = inFlightCount - Cardinality(covered)
      /\ acked' = acked \cup {sentPackets[i].msg : i \in covered}
  BY DEF RecvAck, ReleasedCount
<1>3. Occupied' = Occupied \ covered
  BY <1>1, <1>2, OccupiedAfterEmptied
<1>4. InFlightExact' /\ inFlightCount' \in Nat
  BY <1>1, <1>2, <1>3, CardinalityRelease DEF CountInv, InFlightExact
<1>5. sentPackets' \in [Slots -> SlotContents]
  BY <1>2, EmptiedType DEF CountInv, TypeOK
<1>6. \A i \in covered : sentPackets[i].msg \in Nat
  BY <1>1, SlotPacket DEF CountInv, TypeOK, Occupied, Packets
<1>7. TypeOK'
  BY <1>2, <1>4, <1>5, <1>6 DEF CountInv, TypeOK, RecvAck, receiverVars
<1>8. QED
  BY <1>4, <1>7 DEF CountInv

(* The receiver. *)

(* Draining the receive buffer keeps the receiver's types. *)
LEMMA DrainType ==
  ASSUME NEW buffer \in [Slots -> SlotContents], drainReadyPackets(buffer),
         expectedRecvSeq \in Seqs, delivered \in Seq(Nat)
  PROVE  /\ delivered' \in Seq(Nat)
         /\ receiveBuffer' \in [Slots -> SlotContents]
         /\ expectedRecvSeq' \in Seqs
<1>1. PICK n \in 0 .. Window :
        /\ Drains(buffer, n)
        /\ delivered' = delivered \o [i \in 1 .. n |-> buffer[slotIndex(Upcoming(i - 1))].msg]
        /\ receiveBuffer' = Emptied(buffer, {slotIndex(Upcoming(i)) : i \in 0 .. n - 1})
        /\ expectedRecvSeq' = Upcoming(n)
  BY DEF drainReadyPackets
<1>2. n \in Nat
  BY WindowRange
<1>3. ASSUME NEW i \in 0 .. n - 1
      PROVE  buffer[slotIndex(Upcoming(i))].msg \in Nat
  <2>1. i \in Nat
    BY <1>2
  <2>2. Upcoming(i) \in Seqs
    BY <2>1, UpcomingRange
  <2>3. Upcoming(i) \in Nat
    BY <2>2, SeqModAssumption DEF Seqs
  <2>4. slotIndex(Upcoming(i)) \in Slots
    BY <2>3, SlotIndexRange
  <2>5. buffer[slotIndex(Upcoming(i))] # NoPacket
    BY <1>1 DEF Drains, Ready
  <2>6. QED
    BY <2>4, <2>5, SlotPacket DEF Packets
<1>4. [i \in 1 .. n |-> buffer[slotIndex(Upcoming(i - 1))].msg] \in Seq(Nat)
  <2>1. \A i \in 1 .. n : buffer[slotIndex(Upcoming(i - 1))].msg \in Nat
    BY <1>2, <1>3
  <2>2. QED
    BY <1>2, <2>1
<1>5. delivered' \in Seq(Nat)
  BY <1>1, <1>4
<1>6. receiveBuffer' \in [Slots -> SlotContents]
  BY <1>1, EmptiedType
<1>7. expectedRecvSeq' \in Seqs
  BY <1>1, <1>2, UpcomingRange
<1>8. QED
  BY <1>5, <1>6, <1>7

(* A step of the receiver leaves the sender's ring and counter alone. *)
LEMMA CountReceiverStep ==
  ASSUME CountInv, TypeOK', UNCHANGED senderVars
  PROVE  CountInv'
  BY DEF CountInv, InFlightExact, Occupied, senderVars

LEMMA CountRecvOrderedStore ==
  ASSUME CountInv, NEW p \in net, RecvOrderedStore(p)
  PROVE  CountInv'
<1> DEFINE packet == [seq |-> p.seq, msg |-> p.msg]
           buffer == [receiveBuffer EXCEPT ![slotIndex(p.seq)] = packet]
<1>1. p.seq \in Seqs /\ p.msg \in Nat /\ packet \in Packets
  BY DEF CountInv, TypeOK, Datagrams, Packets
<1>2. buffer \in [Slots -> SlotContents]
  BY <1>1 DEF CountInv, TypeOK, SlotContents
<1>3. tracker' \in Trackers
  BY <1>1, MarkReceivedType DEF CountInv, TypeOK, RecvOrderedStore
<1>4. acks' \subseteq AckDatagrams
  BY <1>3, SendAckType DEF CountInv, TypeOK, RecvOrderedStore
<1>5. /\ delivered' \in Seq(Nat)
      /\ receiveBuffer' \in [Slots -> SlotContents]
      /\ expectedRecvSeq' \in Seqs
  BY <1>2, DrainType DEF CountInv, TypeOK, RecvOrderedStore
<1>6. TypeOK'
  BY <1>3, <1>4, <1>5 DEF CountInv, TypeOK, RecvOrderedStore, senderVars
<1>7. QED
  BY <1>6, CountReceiverStep DEF RecvOrderedStore

(* A datagram that is dropped changes at most the tracker and the ACKs. *)
LEMMA CountRecvDropped ==
  ASSUME CountInv, NEW p \in net,
         RecvOrderedOutside(p) \/ RecvOrderedSlotTaken(p) \/ RecvUnorderedDuplicate(p)
  PROVE  CountInv'
<1>1. p.seq \in Seqs
  BY DEF CountInv, TypeOK, Datagrams
<1>2. tracker' \in Trackers
  BY <1>1, MarkReceivedType DEF CountInv, TypeOK, RecvOrderedOutside, RecvOrderedSlotTaken,
     RecvUnorderedDuplicate, receiverVars
<1>3. SendAck(tracker')
  BY DEF RecvOrderedOutside, RecvOrderedSlotTaken, RecvUnorderedDuplicate, receiverVars
<1>4. acks' \subseteq AckDatagrams
  BY <1>2, <1>3, SendAckType DEF CountInv, TypeOK
<1>5. TypeOK'
  BY <1>2, <1>4 DEF CountInv, TypeOK, RecvOrderedOutside, RecvOrderedSlotTaken,
     RecvUnorderedDuplicate, receiverVars, senderVars
<1>6. QED
  BY <1>5, CountReceiverStep DEF RecvOrderedOutside, RecvOrderedSlotTaken,
     RecvUnorderedDuplicate

LEMMA CountRecvUnorderedNew ==
  ASSUME CountInv, NEW p \in net, RecvUnorderedNew(p)
  PROVE  CountInv'
<1>1. p.seq \in Seqs /\ p.msg \in Nat
  BY DEF CountInv, TypeOK, Datagrams
<1>2. tracker' \in Trackers
  BY <1>1, MarkReceivedType DEF CountInv, TypeOK, RecvUnorderedNew
<1>3. acks' \subseteq AckDatagrams
  BY <1>2, SendAckType DEF CountInv, TypeOK, RecvUnorderedNew
<1>4. TypeOK'
  BY <1>1, <1>2, <1>3 DEF CountInv, TypeOK, RecvUnorderedNew, senderVars
<1>5. QED
  BY <1>4, CountReceiverStep DEF RecvUnorderedNew

(* Losing a datagram disturbs nobody. *)
LEMMA CountLose ==
  ASSUME CountInv,
         \/ \E p \in net : Lose(p)
         \/ \E a \in acks : LoseAck(a)
         \/ UNCHANGED vars
  PROVE  CountInv'
<1>1. TypeOK'
  BY DEF CountInv, TypeOK, Lose, LoseAck, vars, senderVars, receiverVars
<1>2. QED
  BY <1>1, CountReceiverStep DEF Lose, LoseAck, vars

LEMMA CountStep == CountInv /\ [Next]_vars => CountInv'
<1> SUFFICES ASSUME CountInv, [Next]_vars PROVE CountInv'
  OBVIOUS
<1>1. ASSUME NEW cw \in CongestionWindows,
             AsyncSend(cw) \/ AsyncSendSlotTaken(cw) \/ AsyncSendEncodeFails(cw)
      PROVE  CountInv'
  BY <1>1, CountAsyncSend, CountRefusedSend
<1>2. ASSUME NEW p \in sendOps, SendSucceeds(p) \/ SendFails(p)
      PROVE  CountInv'
  BY <1>2, CountSendSucceeds, CountSendFails
<1>3. ASSUME NEW due \in SUBSET Occupied, OnTick(due)
      PROVE  CountInv'
  BY <1>3, CountResend DEF OnTick
<1>4. CASE Flush
  BY <1>4, CountResend DEF Flush
<1>5. ASSUME NEW p \in net, RecvData(p)
      PROVE  CountInv'
  BY <1>5, CountRecvOrderedStore, CountRecvDropped, CountRecvUnorderedNew DEF RecvData
<1>6. ASSUME NEW a \in acks, RecvAck(a)
      PROVE  CountInv'
  BY <1>6, CountRecvAck
<1>7. CASE \/ \E p \in net : Lose(p)
           \/ \E a \in acks : LoseAck(a)
           \/ UNCHANGED vars
  BY <1>7, CountLose
<1>8. QED
  BY <1>1, <1>2, <1>3, <1>4, <1>5, <1>6, <1>7 DEF Next

(* Every state of the channel is well typed, whatever the constants: no    *)
(* index leaves a ring, no sequence number leaves its 16 bits, and the     *)
(* unsigned in-flight counter never underflows.                            *)
THEOREM TypeCorrect == Spec => []TypeOK
<1>1. CountInv => TypeOK
  BY DEF CountInv
<1>2. QED
  BY CountInit, CountStep, <1>1, PTL DEF Spec

(* inFlightCount_ equals the number of occupied slots in every state, for  *)
(* every window and every interleaving of sends, ACKs, failed sends and    *)
(* retransmissions.                                                        *)
THEOREM InFlightCorrect == Spec => []InFlightExact
<1>1. CountInv => InFlightExact
  BY DEF CountInv
<1>2. QED
  BY CountInit, CountStep, <1>1, PTL DEF Spec

-----------------------------------------------------------------------------
(* Copies keep their numbers. *)

NumberInv == TypeOK /\ NumbersSound

LEMMA NumberInit == Init => NumberInv
<1> SUFFICES ASSUME Init PROVE NumberInv
  OBVIOUS
<1>1. TypeOK
  BY CountInit DEF CountInv
<1>2. 0 % SeqMod = 0
  BY SeqModAssumption, ModSmall
<1>3. NumbersSound
  BY <1>2 DEF Init, NumbersSound, RingSound
<1>4. QED
  BY <1>1, <1>3 DEF NumberInv

(* Clearing slots of a sound ring leaves a sound ring. *)
LEMMA RingSoundEmptied ==
  ASSUME NEW ring \in [Slots -> SlotContents], NEW n, RingSound(ring, n), NEW S
  PROVE  RingSound(Emptied(ring, S), n)
  BY DEF RingSound, Emptied

(* Putting a numbered packet into its slot leaves a sound ring. *)
LEMMA RingSoundStore ==
  ASSUME NEW ring \in [Slots -> SlotContents], NEW n, RingSound(ring, n),
         NEW packet, Numbered(packet, n)
  PROVE  RingSound([ring EXCEPT ![slotIndex(packet.seq)] = packet], n)
  BY DEF RingSound

(* A number handed out stays handed out. *)
LEMMA RingSoundStable ==
  ASSUME NEW ring \in [Slots -> SlotContents], NEW n \in Nat, RingSound(ring, n)
  PROVE  RingSound(ring, n + 1)
<1> SUFFICES ASSUME NEW i \in Slots, ring[i] # NoPacket
             PROVE  Numbered(ring[i], n + 1) /\ slotIndex(ring[i].seq) = i
  BY DEF RingSound
<1>1. ring[i].msg \in Nat
  BY SlotPacket DEF Packets
<1>2. Numbered(ring[i], n) /\ slotIndex(ring[i].seq) = i
  BY DEF RingSound
<1>3. QED
  BY <1>1, <1>2 DEF Numbered

(* What was numbered before a call of asyncSend is numbered after it, and  *)
(* the call takes the next number.                                         *)
LEMMA NumberTaken ==
  ASSUME NumberInv, NEW cw, TakeSequenceNumber(cw)
  PROVE  /\ nextMsg \in Nat /\ nextMsg' = nextMsg + 1
         /\ nextSeq' = nextMsg' % SeqMod
         /\ \A p \in sendOps \cup net : Numbered(p, nextMsg')
         /\ RingSound(sentPackets, nextMsg')
         /\ RingSound(receiveBuffer, nextMsg')
<1>1. nextMsg \in Nat /\ nextMsg' = nextMsg + 1 /\ nextSeq' = Succ(nextSeq)
  BY DEF NumberInv, TypeOK, TakeSequenceNumber
<1>2. nextSeq' = nextMsg' % SeqMod
  <2>1. SeqMod \in Nat /\ SeqMod >= 1
    BY SeqModAssumption
  <2>2. ((nextMsg % SeqMod) + 1) % SeqMod = (nextMsg + 1) % SeqMod
    BY <1>1, <2>1, ModSucc
  <2>3. QED
    BY <1>1, <2>2 DEF NumberInv, NumbersSound, Succ
<1>3. \A p \in sendOps \cup net : p.msg \in Nat /\ Numbered(p, nextMsg)
  BY DEF NumberInv, TypeOK, NumbersSound, Packets, Datagrams
<1>4. \A p \in sendOps \cup net : Numbered(p, nextMsg')
  BY <1>1, <1>3 DEF Numbered
<1>5. RingSound(sentPackets, nextMsg') /\ RingSound(receiveBuffer, nextMsg')
  BY <1>1, RingSoundStable DEF NumberInv, TypeOK, NumbersSound
<1>6. QED
  BY <1>1, <1>2, <1>4, <1>5

LEMMA NumberAsyncSend ==
  ASSUME NumberInv, NEW cw, AsyncSend(cw)
  PROVE  NumbersSound'
<1> DEFINE packet == [seq |-> nextSeq, msg |-> nextMsg]
<1>1. TakeSequenceNumber(cw)
  BY DEF AsyncSend
<1>2. Numbered(packet, nextMsg')
  BY <1>1, NumberTaken DEF NumberInv, NumbersSound, Numbered
<1>3. /\ sentPackets' = [sentPackets EXCEPT ![slotIndex(packet.seq)] = packet]
      /\ sendOps' = sendOps \cup {packet}
      /\ UNCHANGED <<net, receiveBuffer>>
  BY DEF AsyncSend, storeSentPacket, receiverVars
<1>4. RingSound(sentPackets', nextMsg')
  BY <1>1, <1>2, <1>3, NumberTaken, RingSoundStore DEF NumberInv, TypeOK
<1>5. \A p \in (sendOps \cup net)' : Numbered(p, nextMsg')
  BY <1>1, <1>2, <1>3, NumberTaken
<1>6. QED
  BY <1>1, <1>3, <1>4, <1>5, NumberTaken DEF NumbersSound

LEMMA NumberRefusedSend ==
  ASSUME NumberInv, NEW cw, AsyncSendSlotTaken(cw) \/ AsyncSendEncodeFails(cw)
  PROVE  NumbersSound'
<1>1. /\ TakeSequenceNumber(cw)
      /\ UNCHANGED <<sentPackets, sendOps, net, receiveBuffer>>
  BY DEF AsyncSendSlotTaken, AsyncSendEncodeFails, receiverVars
<1>2. QED
  BY <1>1, NumberTaken DEF NumbersSound

(* Sending copies of numbered packets puts numbered datagrams on the path. *)
LEMMA TransmitNumbered ==
  ASSUME NEW ps, NEW now, NEW n, Transmit(ps, now),
         \A p \in ps \cup net : Numbered(p, n)
  PROVE  \A p \in net' : Numbered(p, n)
<1>1. net' \subseteq net \cup {[seq |-> p.seq, msg |-> p.msg, born |-> Stamp(now)] : p \in ps}
  BY IntoSubset DEF Transmit
<1>2. QED
  BY <1>1 DEF Numbered

LEMMA NumberSendCompletes ==
  ASSUME NumberInv, NEW p \in sendOps, SendSucceeds(p) \/ SendFails(p)
  PROVE  NumbersSound'
<1>1. CASE SendSucceeds(p)
  <2>1. \A d \in net' : Numbered(d, nextMsg)
    BY <1>1, TransmitNumbered DEF NumberInv, NumbersSound, SendSucceeds
  <2>2. QED
    BY <1>1, <2>1 DEF NumberInv, NumbersSound, SendSucceeds, receiverVars
<1>2. CASE SendFails(p)
  <2>1. \/ sentPackets' = sentPackets
        \/ sentPackets' = Emptied(sentPackets, {slotIndex(p.seq)})
    BY <1>2 DEF SendFails
  <2>2. RingSound(sentPackets', nextMsg)
    BY <2>1, RingSoundEmptied DEF NumberInv, TypeOK, NumbersSound
  <2>3. QED
    BY <1>2, <2>2 DEF NumberInv, NumbersSound, SendFails, receiverVars
<1>3. QED
  BY <1>1, <1>2

LEMMA NumberResend ==
  ASSUME NumberInv, NEW due \in SUBSET Occupied,
         Transmit({sentPackets[i] : i \in due}, nextMsg),
         UNCHANGED <<senderVars, receiverVars>>
  PROVE  NumbersSound'
<1>1. \A i \in due : Numbered(sentPackets[i], nextMsg)
  BY DEF NumberInv, NumbersSound, RingSound, Occupied
<1>2. \A d \in net' : Numbered(d, nextMsg)
  BY <1>1, TransmitNumbered DEF NumberInv, NumbersSound
<1>3. QED
  BY <1>2 DEF NumberInv, NumbersSound, senderVars, receiverVars

LEMMA NumberRecvAck ==
  ASSUME NumberInv, NEW a, RecvAck(a)
  PROVE  NumbersSound'
<1>1. PICK S : sentPackets' = Emptied(sentPackets, S)
  BY DEF RecvAck
<1>2. RingSound(sentPackets', nextMsg)
  BY <1>1, RingSoundEmptied DEF NumberInv, TypeOK, NumbersSound
<1>3. QED
  BY <1>2 DEF NumberInv, NumbersSound, RecvAck, receiverVars

(* Of the receiver's steps only a store touches the receive buffer. *)
LEMMA NumberRecvOrderedStore ==
  ASSUME NumberInv, NEW p \in net, RecvOrderedStore(p)
  PROVE  NumbersSound'
<1> DEFINE packet == [seq |-> p.seq, msg |-> p.msg]
           buffer == [receiveBuffer EXCEPT ![slotIndex(packet.seq)] = packet]
<1>1. Numbered(packet, nextMsg)
  BY DEF NumberInv, NumbersSound, Numbered
<1>2. RingSound(buffer, nextMsg)
  BY <1>1, RingSoundStore DEF NumberInv, TypeOK, NumbersSound
<1>3. buffer \in [Slots -> SlotContents]
  BY DEF NumberInv, TypeOK, SlotContents, Datagrams, Packets
<1>4. PICK S : receiveBuffer' = Emptied(buffer, S)
  BY DEF RecvOrderedStore, drainReadyPackets
<1>5. RingSound(receiveBuffer', nextMsg)
  BY <1>2, <1>3, <1>4, RingSoundEmptied
<1>6. QED
  BY <1>5 DEF NumberInv, NumbersSound, RecvOrderedStore, senderVars

LEMMA NumberStep == NumberInv /\ TypeOK' /\ [Next]_vars => NumberInv'
<1> SUFFICES ASSUME NumberInv, [Next]_vars PROVE NumbersSound'
  BY DEF NumberInv
<1>1. ASSUME NEW cw \in CongestionWindows,
             AsyncSend(cw) \/ AsyncSendSlotTaken(cw) \/ AsyncSendEncodeFails(cw)
      PROVE  NumbersSound'
  BY <1>1, NumberAsyncSend, NumberRefusedSend
<1>2. ASSUME NEW p \in sendOps, SendSucceeds(p) \/ SendFails(p)
      PROVE  NumbersSound'
  BY <1>2, NumberSendCompletes
<1>3. ASSUME NEW due \in SUBSET Occupied, OnTick(due)
      PROVE  NumbersSound'
  BY <1>3, NumberResend DEF OnTick
<1>4. CASE Flush
  BY <1>4, NumberResend DEF Flush
<1>5. ASSUME NEW p \in net, RecvOrderedStore(p)
      PROVE  NumbersSound'
  BY <1>5, NumberRecvOrderedStore
<1>6. ASSUME NEW a \in acks, RecvAck(a)
      PROVE  NumbersSound'
  BY <1>6, NumberRecvAck
<1>7. ASSUME UNCHANGED <<nextSeq, nextMsg, sendOps, sentPackets, receiveBuffer>>,
             net' \subseteq net
      PROVE  NumbersSound'
  BY <1>7 DEF NumberInv, NumbersSound
<1>8. ASSUME NEW p \in net,
             \/ RecvOrderedOutside(p) \/ RecvOrderedSlotTaken(p)
             \/ RecvUnorderedDuplicate(p) \/ RecvUnorderedNew(p) \/ Lose(p)
      PROVE  NumbersSound'
  BY <1>7, <1>8 DEF RecvOrderedOutside, RecvOrderedSlotTaken, RecvUnorderedDuplicate,
     RecvUnorderedNew, Lose, senderVars, receiverVars
<1>9. ASSUME NEW a \in acks, LoseAck(a)
      PROVE  NumbersSound'
  BY <1>7, <1>9 DEF LoseAck, senderVars, receiverVars
<1>10. CASE UNCHANGED vars
  BY <1>7, <1>10 DEF vars, senderVars, receiverVars
<1>11. QED
  BY <1>1, <1>2, <1>3, <1>4, <1>5, <1>6, <1>8, <1>9, <1>10 DEF Next, RecvData

(* Whatever is lost, repeated or reordered, and however often the numbers  *)
(* wrap, every copy of a message carries the number handed out for it, and *)
(* sits in the slot of that number.                                        *)
THEOREM NumbersCorrect == Spec => []NumbersSound
<1>1. NumberInv => NumbersSound
  BY DEF NumberInv
<1>2. QED
  BY NumberInit, NumberStep, TypeCorrect, <1>1, PTL DEF Spec

-----------------------------------------------------------------------------
(* No message is forgotten, as long as no completion stays pending while   *)
(* all 65536 numbers are used again: it could not tell its packet from the *)
(* one that reuses the number.                                             *)

Timely == \A p \in sendOps : nextMsg - p.msg <= SeqMod

(* A slot never goes back to a packet older than one sent from it before. *)
SlotsAdvance ==
  \A p \in sendOps :
    sentPackets[slotIndex(p.seq)] # NoPacket => p.msg <= sentPackets[slotIndex(p.seq)].msg

LEMMA AdvanceStep == NumberInv /\ SlotsAdvance /\ [Next]_vars => SlotsAdvance'
<1> SUFFICES ASSUME NumberInv, SlotsAdvance, [Next]_vars, NEW p \in sendOps',
                    sentPackets'[slotIndex(p.seq)] # NoPacket
             PROVE  p.msg <= sentPackets'[slotIndex(p.seq)].msg
  BY DEF SlotsAdvance
<1>1. ASSUME NEW cw \in CongestionWindows, AsyncSend(cw)
      PROVE  p.msg <= sentPackets'[slotIndex(p.seq)].msg
  <2> DEFINE packet == [seq |-> nextSeq, msg |-> nextMsg]
  <2>1. /\ sendOps' = sendOps \cup {packet}
        /\ sentPackets' = [sentPackets EXCEPT ![slotIndex(nextSeq)] = packet]
        /\ nextMsg \in Nat /\ slotIndex(nextSeq) \in Slots
        /\ sentPackets \in [Slots -> SlotContents]
    BY <1>1, SlotIndexRange, SeqModAssumption
       DEF AsyncSend, storeSentPacket, NumberInv, TypeOK, Seqs
  <2>2. p.msg \in Nat /\ p.msg <= nextMsg /\ slotIndex(p.seq) \in Slots
    <3>1. CASE p \in sendOps
      BY <2>1, <3>1, SlotIndexRange, SeqModAssumption
         DEF NumberInv, TypeOK, NumbersSound, Numbered, Packets, Seqs
    <3>2. CASE p = packet
      BY <2>1, <3>2
    <3>3. QED
      BY <2>1, <3>1, <3>2
  <2>3. CASE slotIndex(p.seq) = slotIndex(nextSeq)
    BY <2>1, <2>2, <2>3
  <2>4. CASE slotIndex(p.seq) # slotIndex(nextSeq)
    <3>1. p \in sendOps
      BY <2>1, <2>4
    <3>2. sentPackets'[slotIndex(p.seq)] = sentPackets[slotIndex(p.seq)]
      BY <2>1, <2>2, <2>4
    <3>3. QED
      BY <3>1, <3>2 DEF SlotsAdvance
  <2>5. QED
    BY <2>3, <2>4
<1>2. ASSUME sendOps' \subseteq sendOps, NEW is, sentPackets' = Emptied(sentPackets, is)
      PROVE  p.msg <= sentPackets'[slotIndex(p.seq)].msg
  <2>1. p \in sendOps /\ slotIndex(p.seq) \in Slots
    BY <1>2, SlotIndexRange, SeqModAssumption DEF NumberInv, TypeOK, Packets, Seqs
  <2>2. sentPackets'[slotIndex(p.seq)] = sentPackets[slotIndex(p.seq)]
    BY <1>2, <2>1 DEF Emptied
  <2>3. QED
    BY <2>1, <2>2 DEF SlotsAdvance
<1>3. ASSUME sendOps' \subseteq sendOps, sentPackets' = sentPackets
      PROVE  p.msg <= sentPackets'[slotIndex(p.seq)].msg
  BY <1>3 DEF SlotsAdvance
<1>4. ASSUME NEW q \in sendOps, SendFails(q)
      PROVE  p.msg <= sentPackets'[slotIndex(p.seq)].msg
  <2>1. /\ sendOps' \subseteq sendOps
        /\ \/ sentPackets' = Emptied(sentPackets, {slotIndex(q.seq)})
           \/ sentPackets' = sentPackets
    BY <1>4 DEF SendFails
  <2>2. QED
    BY <1>2, <1>3, <2>1
<1>5. ASSUME NEW a \in acks, RecvAck(a)
      PROVE  p.msg <= sentPackets'[slotIndex(p.seq)].msg
  <2>1. PICK is : sentPackets' = Emptied(sentPackets, is)
    BY <1>5 DEF RecvAck
  <2>2. sendOps' = sendOps
    BY <1>5 DEF RecvAck
  <2>3. QED
    BY <1>2, <2>1, <2>2
<1>6. ASSUME NEW cw \in CongestionWindows, AsyncSendSlotTaken(cw) \/ AsyncSendEncodeFails(cw)
      PROVE  sendOps' = sendOps /\ sentPackets' = sentPackets
  BY <1>6 DEF AsyncSendSlotTaken, AsyncSendEncodeFails
<1>7. ASSUME NEW q \in sendOps, SendSucceeds(q)
      PROVE  sendOps' \subseteq sendOps /\ sentPackets' = sentPackets
  BY <1>7 DEF SendSucceeds
<1>8. CASE \/ \E due \in SUBSET Occupied : OnTick(due)
           \/ Flush
           \/ \E q \in net : RecvData(q) \/ Lose(q)
           \/ \E a \in acks : LoseAck(a)
           \/ UNCHANGED vars
  <2>1. sendOps' = sendOps /\ sentPackets' = sentPackets
    BY <1>8 DEF OnTick, Flush, RecvData, RecvOrderedOutside, RecvOrderedSlotTaken,
       RecvOrderedStore, RecvUnorderedDuplicate, RecvUnorderedNew, Lose, LoseAck, vars,
       senderVars
  <2>2. QED
    BY <1>3, <2>1
<1>9. QED
  BY <1>1, <1>3, <1>4, <1>5, <1>6, <1>7, <1>8 DEF Next

AccountInv == Accounted /\ nextMsg <= MaxMsgs

(* Below SeqMod a sequence number identifies its message. *)
LEMMA NumberIdentifies ==
  ASSUME MaxMsgs <= SeqMod, nextMsg \in Nat, nextMsg <= MaxMsgs,
         NEW p, p.msg \in Nat, Numbered(p, nextMsg)
  PROVE  p.seq = p.msg
<1>1. SeqMod \in Nat /\ MaxMsgs \in Nat
  BY SeqModAssumption, ChannelAssumption
<1>2. p.msg < SeqMod
  BY <1>1 DEF Numbered
<1>3. p.msg % SeqMod = p.msg
  BY <1>1, <1>2, ModSmall
<1>4. QED
  BY <1>3 DEF Numbered

LEMMA AccountAsyncSend ==
  ASSUME NumberInv, AccountInv, NEW cw, AsyncSend(cw)
  PROVE  AccountInv'
<1> DEFINE packet == [seq |-> nextSeq, msg |-> nextMsg]
           slot   == slotIndex(nextSeq)
<1>1. /\ nextMsg \in Nat /\ MaxMsgs \in Nat
      /\ nextMsg' = nextMsg + 1
      /\ nextMsg < MaxMsgs
      /\ sentPackets[slot] = NoPacket
      /\ sentPackets' = [sentPackets EXCEPT ![slot] = packet]
      /\ UNCHANGED <<acked, holes>>
  BY ChannelAssumption
     DEF NumberInv, TypeOK, AsyncSend, TakeSequenceNumber, storeSentPacket
<1>2. slot \in Slots
  BY SlotIndexRange, SeqModAssumption DEF NumberInv, TypeOK, Seqs
<1>3. packet # NoPacket
  BY ChannelAssumption DEF NumberInv, TypeOK, Packets
<1>4. nextMsg \in InWindow'
  <2>1. slot \in Occupied' /\ sentPackets'[slot].msg = nextMsg
    BY <1>1, <1>2, <1>3 DEF NumberInv, TypeOK, Occupied
  <2>2. QED
    BY <2>1 DEF InWindow
<1>5. ASSUME NEW i \in Occupied
      PROVE  i \in Occupied' /\ sentPackets'[i] = sentPackets[i]
  BY <1>1, <1>2 DEF NumberInv, TypeOK, Occupied
<1>6. InWindow \subseteq InWindow'
  BY <1>5 DEF InWindow
<1>7. \A m \in 0 .. nextMsg' - 1 : m = nextMsg \/ m \in 0 .. nextMsg - 1
  BY <1>1
<1>8. Accounted'
  BY <1>1, <1>4, <1>6, <1>7 DEF AccountInv, Accounted
<1>9. QED
  BY <1>1, <1>8 DEF AccountInv

LEMMA AccountRefusedSend ==
  ASSUME NumberInv, AccountInv, NEW cw,
         AsyncSendSlotTaken(cw) \/ AsyncSendEncodeFails(cw)
  PROVE  AccountInv'
<1>1. /\ nextMsg \in Nat /\ MaxMsgs \in Nat
      /\ nextMsg' = nextMsg + 1
      /\ nextMsg < MaxMsgs
      /\ holes' = holes \cup {nextMsg}
      /\ UNCHANGED <<acked, sentPackets>>
  BY ChannelAssumption
     DEF NumberInv, TypeOK, AsyncSendSlotTaken, AsyncSendEncodeFails, TakeSequenceNumber
<1>2. InWindow' = InWindow
  BY <1>1 DEF InWindow, Occupied
<1>3. \A m \in 0 .. nextMsg' - 1 : m = nextMsg \/ m \in 0 .. nextMsg - 1
  BY <1>1
<1>4. Accounted'
  BY <1>1, <1>2, <1>3 DEF AccountInv, Accounted
<1>5. QED
  BY <1>1, <1>4 DEF AccountInv

(* A failed send gives up its own message and no other. *)
LEMMA AccountSendFails ==
  ASSUME NumberInv, AccountInv, (Timely /\ SlotsAdvance) \/ holes' = {},
         NEW p \in sendOps, SendFails(p)
  PROVE  AccountInv'
<1> DEFINE i == slotIndex(p.seq)
<1>1. /\ nextMsg \in Nat /\ UNCHANGED <<nextMsg, acked>>
      /\ nextMsg <= MaxMsgs
  BY DEF NumberInv, TypeOK, SendFails, AccountInv
<1>2. CASE Holds(i, p.seq)
  <2>1. /\ sentPackets' = Emptied(sentPackets, {i})
        /\ holes' = holes \cup {p.msg}
    BY <1>2 DEF SendFails
  <2>2. i \in Slots
    BY SlotIndexRange, SeqModAssumption DEF NumberInv, TypeOK, Packets, Seqs
  <2>3. p.msg \in Nat /\ Numbered(p, nextMsg)
    BY DEF NumberInv, TypeOK, NumbersSound, Packets
  <2>4. sentPackets[i].msg \in Nat /\ Numbered(sentPackets[i], nextMsg)
    BY <1>2, <2>2, SlotPacket DEF NumberInv, TypeOK, NumbersSound, RingSound, Holds, Packets
  <2>5. sentPackets[i].msg = p.msg
    <3>1. Timely /\ SlotsAdvance
      BY <2>1
    <3>2. PICK x \in Nat, m \in Nat : x = sentPackets[i].msg /\ m = p.msg
      BY <2>3, <2>4
    <3>3. x < nextMsg /\ m <= x /\ nextMsg - m <= SeqMod /\ SeqMod \in Nat
      BY <1>2, <2>4, <3>1, <3>2, SeqModAssumption DEF Timely, SlotsAdvance, Holds, Numbered
    <3>4. m % SeqMod = x % SeqMod
      BY <1>2, <2>3, <2>4, <3>2 DEF Holds, Numbered
    <3>5. x - m < SeqMod /\ x \in Int /\ m \in Int
      BY <1>1, <3>3
    <3>6. m = x
      BY <3>3, <3>4, <3>5, NumbersDiffer
    <3>7. QED
      BY <3>2, <3>6
  <2>6. ASSUME NEW j \in Occupied
        PROVE  sentPackets[j].msg \in InWindow' \cup {p.msg}
    <3>1. CASE j = i
      BY <3>1, <2>5
    <3>2. CASE j # i
      BY <2>1, <3>2 DEF InWindow, Occupied, Emptied
    <3>3. QED
      BY <3>1, <3>2
  <2>7. InWindow \subseteq InWindow' \cup {p.msg}
    BY <2>6 DEF InWindow
  <2>8. Accounted'
    BY <1>1, <2>1, <2>7 DEF AccountInv, Accounted
  <2>9. QED
    BY <1>1, <2>8 DEF AccountInv
<1>3. CASE ~Holds(i, p.seq)
  <2>1. UNCHANGED <<sentPackets, holes>>
    BY <1>3 DEF SendFails
  <2>2. InWindow' = InWindow
    BY <2>1 DEF InWindow, Occupied
  <2>3. QED
    BY <1>1, <2>1, <2>2 DEF AccountInv, Accounted
<1>4. QED
  BY <1>2, <1>3

LEMMA AccountRecvAck ==
  ASSUME NumberInv, AccountInv, NEW a, RecvAck(a)
  PROVE  AccountInv'
<1> DEFINE covered == {i \in Occupied : isAcknowledged(sentPackets[i].seq, a.ack, a.bits)}
<1>1. /\ sentPackets' = Emptied(sentPackets, covered)
      /\ acked' = acked \cup {sentPackets[i].msg : i \in covered}
      /\ UNCHANGED <<nextMsg, holes>>
  BY DEF RecvAck
<1>2. ASSUME NEW j \in Occupied
      PROVE  sentPackets[j].msg \in InWindow' \cup acked'
  <2>1. CASE j \in covered
    BY <1>1, <2>1
  <2>2. CASE j \notin covered
    BY <1>1, <2>2 DEF InWindow, Occupied, Emptied
  <2>3. QED
    BY <2>1, <2>2
<1>3. InWindow \subseteq InWindow' \cup acked'
  BY <1>2 DEF InWindow
<1>4. QED
  BY <1>1, <1>3 DEF AccountInv, Accounted

LEMMA AccountStep ==
  NumberInv /\ AccountInv /\ [Next]_vars /\ ((Timely /\ SlotsAdvance) \/ holes' = {})
    => AccountInv'
<1> SUFFICES ASSUME NumberInv, AccountInv, [Next]_vars,
                    (Timely /\ SlotsAdvance) \/ holes' = {}
             PROVE  AccountInv'
  OBVIOUS
<1>1. ASSUME NEW cw \in CongestionWindows,
             AsyncSend(cw) \/ AsyncSendSlotTaken(cw) \/ AsyncSendEncodeFails(cw)
      PROVE  AccountInv'
  BY <1>1, AccountAsyncSend, AccountRefusedSend
<1>2. ASSUME NEW p \in sendOps, SendFails(p)
      PROVE  AccountInv'
  BY <1>2, AccountSendFails
<1>3. ASSUME NEW a \in acks, RecvAck(a)
      PROVE  AccountInv'
  BY <1>3, AccountRecvAck
<1>4. ASSUME UNCHANGED <<nextMsg, sentPackets, acked, holes>>
      PROVE  AccountInv'
  BY <1>4 DEF AccountInv, Accounted, InWindow, Occupied
<1>5. ASSUME NEW p \in sendOps, SendSucceeds(p)
      PROVE  AccountInv'
  BY <1>4, <1>5 DEF SendSucceeds
<1>6. CASE \/ \E due \in SUBSET Occupied : OnTick(due)
           \/ Flush
           \/ \E p \in net : RecvData(p) \/ Lose(p)
           \/ \E a \in acks : LoseAck(a)
           \/ UNCHANGED vars
  BY <1>4, <1>6 DEF OnTick, Flush, RecvData, RecvOrderedOutside, RecvOrderedSlotTaken,
     RecvOrderedStore, RecvUnorderedDuplicate, RecvUnorderedNew, Lose, LoseAck, vars, senderVars
<1>7. QED
  BY <1>1, <1>2, <1>3, <1>5, <1>6 DEF Next

LEMMA AccountInit == Init => AccountInv /\ SlotsAdvance
  BY ChannelAssumption DEF Init, AccountInv, Accounted, SlotsAdvance

(* Every message given a number has been acknowledged, or reported as      *)
(* failed, or is still in the window, where onTick will send it again,     *)
(* over any number of wraps, in every run in which no first send stays     *)
(* incomplete while all the numbers are used again.                        *)
THEOREM AccountedWhileTimely == Spec /\ []Timely => []Accounted
<1>1. AccountInv => Accounted
  BY DEF AccountInv
<1>2. NumberInv /\ AccountInv /\ SlotsAdvance /\ Timely /\ [Next]_vars => AccountInv'
  BY AccountStep
<1>3. QED
  BY <1>1, <1>2, AccountInit, AdvanceStep, NumberInit, NumberStep, TypeCorrect, PTL DEF Spec

(* Until the numbers wrap, every run is such a run. *)
THEOREM AccountedCorrect ==
  ASSUME MaxMsgs <= SeqMod
  PROVE  Spec => []Accounted
<1>1. NumberInv /\ AccountInv => Timely
  <2>1. SUFFICES ASSUME NumberInv, AccountInv, NEW p \in sendOps PROVE nextMsg - p.msg <= SeqMod
    BY DEF Timely
  <2>2. /\ p.msg \in Nat /\ nextMsg \in Nat /\ nextMsg <= MaxMsgs
        /\ MaxMsgs \in Nat /\ SeqMod \in Nat
    BY <2>1, ChannelAssumption, SeqModAssumption DEF NumberInv, TypeOK, Packets, AccountInv
  <2>3. QED
    BY <2>2
<1>2. NumberInv /\ AccountInv /\ SlotsAdvance /\ [Next]_vars => AccountInv'
  BY <1>1, AccountStep
<1>3. AccountInv => Accounted
  BY DEF AccountInv
<1>4. QED
  BY <1>2, <1>3, AccountInit, AdvanceStep, NumberInit, NumberStep, TypeCorrect, PTL DEF Spec
=============================================================================
