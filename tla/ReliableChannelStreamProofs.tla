-------------------- MODULE ReliableChannelStreamProofs --------------------
(***************************************************************************)
(* What the two kinds of reliable channel deliver, and what an ACK says    *)
(* about it, for every window and every ACK width:                         *)
(*                                                                         *)
(*   - an ordered channel implements a FIFO stream.  The argument needs    *)
(*     nothing of the ACKs: whatever the sender releases or burns, the     *)
(*     receive buffer only ever holds numbered packets, and                *)
(*     drainReadyPackets delivers the ones whose number is the expected    *)
(*     one;                                                                *)
(*   - an unordered channel delivers no message twice;                     *)
(*   - what an ACK covers has been delivered or is buffered.               *)
(*                                                                         *)
(* Each theorem says how far the sequence numbers may go: the wrapping     *)
(* comparison tells old from new only within half of their space.          *)
(***************************************************************************)
EXTENDS ReliableChannelProofs

(* The receiver has delivered the first expectedRecvSeq_ messages. *)
StreamInv ==
  /\ nextMsg <= MaxMsgs
  /\ expectedRecvSeq = Len(delivered)
  /\ Len(delivered) <= nextMsg
  /\ OrderedPrefix

LEMMA StreamInit == Init => StreamInv /\ Stream!Init
  BY ChannelAssumption DEF Init, StreamInv, OrderedPrefix, Stream!Init

(* Far enough from the wrap the i-th upcoming number is expected + i. *)
LEMMA UpcomingNoWrap ==
  ASSUME MaxMsgs + Window <= SeqMod, NumberInv, StreamInv,
         NEW i \in Nat, i < Window
  PROVE  Upcoming(i) = Len(delivered) + i
<1>1. /\ SeqMod \in Nat /\ MaxMsgs \in Nat /\ Window \in Nat
      /\ nextMsg \in Nat /\ Len(delivered) \in Nat
  BY SeqModAssumption, ChannelAssumption, WindowRange DEF NumberInv, TypeOK
<1>2. Len(delivered) + i \in Nat /\ Len(delivered) + i < SeqMod
  BY <1>1 DEF StreamInv
<1>3. (Len(delivered) + i) % SeqMod = Len(delivered) + i
  BY <1>1, <1>2, ModSmall
<1>4. QED
  BY <1>3 DEF Upcoming, StreamInv

(* What is ready in a sound buffer is the message that is due. *)
LEMMA ReadyIsDue ==
  ASSUME MaxMsgs + Window <= SeqMod, NumberInv, StreamInv,
         NEW buffer \in [Slots -> SlotContents], RingSound(buffer, nextMsg),
         NEW i \in Nat, i < Window, Ready(buffer, i)
  PROVE  /\ buffer[slotIndex(Upcoming(i))].msg = Len(delivered) + i
         /\ Len(delivered) + i < nextMsg
<1> DEFINE slot == slotIndex(Upcoming(i))
<1>1. Upcoming(i) = Len(delivered) + i
  BY UpcomingNoWrap
<1>2. Len(delivered) + i \in Nat
  BY DEF NumberInv, TypeOK
<1>3. slot \in Slots
  BY <1>1, <1>2, SlotIndexRange
<1>4. buffer[slot] # NoPacket /\ buffer[slot].seq = Upcoming(i)
  BY DEF Ready
<1>5. buffer[slot].msg \in Nat /\ Numbered(buffer[slot], nextMsg)
  BY <1>3, <1>4, SlotPacket DEF RingSound, Packets
<1>6. MaxMsgs <= SeqMod
  BY WindowRange, SeqModAssumption, ChannelAssumption
<1>7. nextMsg \in Nat /\ nextMsg <= MaxMsgs
  BY DEF NumberInv, TypeOK, StreamInv
<1>8. buffer[slot].seq = buffer[slot].msg
  BY <1>5, <1>6, <1>7, NumberIdentifies
<1>9. QED
  BY <1>1, <1>4, <1>5, <1>8 DEF Numbered

(* The receive buffer with p in its slot *)
Stored(p) ==
  [receiveBuffer EXCEPT ![slotIndex(p.seq)] = [seq |-> p.seq, msg |-> p.msg]]

(* A store delivers a run of the messages that are due, possibly none, and *)
(* empties their slots.                                                    *)
LEMMA StreamRecvOrderedStore ==
  ASSUME MaxMsgs + Window <= SeqMod, NumberInv, StreamInv,
         NEW p \in net, RecvOrderedStore(p)
  PROVE  /\ StreamInv' /\ (Stream!Deliver \/ UNCHANGED <<nextMsg, delivered>>)
         /\ \E n \in 0 .. Window :
              /\ Len(delivered') = Len(delivered) + n
              /\ \A i \in 0 .. n - 1 :
                   Ready(Stored(p), i) /\ Len(delivered) + i < nextMsg
              /\ receiveBuffer' =
                   Emptied(Stored(p), {slotIndex(Upcoming(i)) : i \in 0 .. n - 1})
<1> DEFINE packet == [seq |-> p.seq, msg |-> p.msg]
           buffer == [receiveBuffer EXCEPT ![slotIndex(packet.seq)] = packet]
           L      == Len(delivered)
<1>1. buffer \in [Slots -> SlotContents]
  BY DEF NumberInv, TypeOK, SlotContents, Datagrams, Packets
<1>2. Numbered(packet, nextMsg)
  BY DEF NumberInv, NumbersSound, Numbered
<1>3. RingSound(buffer, nextMsg)
  BY <1>2, RingSoundStore DEF NumberInv, TypeOK, NumbersSound
<1>4a. drainReadyPackets(buffer)
  BY DEF RecvOrderedStore
<1>4. PICK n \in 0 .. Window :
        /\ Drains(buffer, n)
        /\ delivered' = delivered \o [i \in 1 .. n |-> buffer[slotIndex(Upcoming(i - 1))].msg]
        /\ receiveBuffer' = Emptied(buffer, {slotIndex(Upcoming(i)) : i \in 0 .. n - 1})
        /\ expectedRecvSeq' = Upcoming(n)
  <2> HIDE DEF buffer
  <2>1. QED
    BY <1>4a, Zenon DEF drainReadyPackets
<1>5. /\ n \in Nat /\ n <= Window /\ L \in Nat /\ nextMsg \in Nat
      /\ delivered \in Seq(Nat) /\ nextMsg' = nextMsg
      /\ L <= nextMsg /\ nextMsg <= MaxMsgs
  BY WindowRange DEF NumberInv, TypeOK, StreamInv, RecvOrderedStore, senderVars
<1>6. ASSUME NEW i \in 0 .. n - 1
      PROVE  buffer[slotIndex(Upcoming(i))].msg = L + i /\ L + i < nextMsg
  <2>1. i \in Nat /\ i < Window
    BY <1>5, WindowRange
  <2>2. Ready(buffer, i)
    BY <1>4 DEF Drains
  <2>3. QED
    BY <1>1, <1>3, <2>1, <2>2, ReadyIsDue
<1> DEFINE run == [i \in 1 .. n |-> L + i - 1]
<1>7. [i \in 1 .. n |-> buffer[slotIndex(Upcoming(i - 1))].msg] = run
  <2>1. ASSUME NEW i \in 1 .. n
        PROVE  buffer[slotIndex(Upcoming(i - 1))].msg = L + i - 1
    <3>1. i - 1 \in 0 .. n - 1
      BY <1>5
    <3>2. buffer[slotIndex(Upcoming(i - 1))].msg = L + (i - 1)
      BY <1>6, <3>1
    <3>3. QED
      BY <1>5, <3>2
  <2>2. QED
    BY <2>1
<1>8. delivered' = delivered \o run
  BY <1>4, <1>7
<1>9. L + n <= nextMsg
  <2>1. CASE n = 0
    BY <1>5, <2>1
  <2>2. CASE n > 0
    <3>1. n - 1 \in 0 .. n - 1
      BY <1>5, <2>2
    <3>2. L + (n - 1) < nextMsg
      BY <1>6, <3>1
    <3>3. QED
      BY <1>5, <3>2
  <2>3. QED
    BY <1>5, <2>1, <2>2
<1>10. run \in Seq(Nat) /\ Len(run) = n
  BY <1>5
<1>11. Len(delivered') = L + n
  BY <1>5, <1>8, <1>10
<1>12. \A i \in 1 .. L + n : delivered'[i] = i - 1
  <2>1. ASSUME NEW i \in 1 .. L
        PROVE  delivered'[i] = i - 1
    BY <1>5, <1>8, <1>10 DEF StreamInv, OrderedPrefix
  <2>2. ASSUME NEW i \in 1 .. L + n, i > L
        PROVE  delivered'[i] = i - 1
    <3>1. i - L \in 1 .. n
      BY <1>5, <2>2
    <3>2. delivered'[i] = run[i - L]
      BY <1>5, <1>8, <1>10, <2>2
    <3>3. run[i - L] = L + (i - L) - 1
      BY <3>1
    <3>4. QED
      BY <1>5, <3>2, <3>3
  <2>3. QED
    BY <1>5, <2>1, <2>2
<1>13. expectedRecvSeq' = L + n
  <2>1. /\ SeqMod \in Nat /\ MaxMsgs \in Nat /\ Window \in Nat /\ Window >= 1
    BY SeqModAssumption, ChannelAssumption, WindowRange
  <2>2. L + n \in Nat /\ L + n < SeqMod
    BY <1>5, <1>9, <2>1
  <2>3. (L + n) % SeqMod = L + n
    BY <2>1, <2>2, ModSmall
  <2>4. QED
    BY <1>4, <2>3 DEF Upcoming, StreamInv
<1>14. StreamInv'
  BY <1>5, <1>9, <1>11, <1>12, <1>13 DEF StreamInv, OrderedPrefix
<1>15. Stream!Deliver \/ UNCHANGED <<nextMsg, delivered>>
  <2>1. CASE n = 0
    BY <1>5, <1>8, <2>1
  <2>2. CASE n # 0
    <3>1. n \in 1 .. nextMsg - L
      BY <1>5, <1>9, <2>2
    <3>2. QED
      BY <1>5, <1>8, <3>1 DEF Stream!Deliver
  <2>3. QED
    BY <2>1, <2>2
<1>16. buffer = Stored(p)
  BY DEF Stored
<1>17. \A i \in 0 .. n - 1 : Ready(buffer, i) /\ L + i < nextMsg
  BY <1>4, <1>6 DEF Drains
<1> HIDE DEF buffer
<1>18. QED
  BY <1>4, <1>11, <1>14, <1>15, <1>16, <1>17

(* Every step of an ordered channel is a step of the stream, or none. *)
LEMMA StreamStep ==
  ASSUME Ordered, MaxMsgs + Window <= SeqMod
  PROVE  NumberInv /\ StreamInv /\ [Next]_vars => StreamInv' /\ [Stream!Next]_(Stream!vars)
<1> SUFFICES ASSUME NumberInv, StreamInv, [Next]_vars
             PROVE  StreamInv' /\ (Stream!Next \/ UNCHANGED <<nextMsg, delivered>>)
  BY DEF Stream!vars
<1>1. ASSUME NEW cw \in CongestionWindows,
             AsyncSend(cw) \/ AsyncSendSlotTaken(cw) \/ AsyncSendEncodeFails(cw)
      PROVE  StreamInv' /\ Stream!Issue
  <2>1. /\ nextMsg \in Nat /\ Len(delivered) \in Nat /\ MaxMsgs \in Nat
        /\ nextMsg' = nextMsg + 1 /\ nextMsg < MaxMsgs
        /\ UNCHANGED <<expectedRecvSeq, delivered>>
    BY <1>1, ChannelAssumption DEF NumberInv, TypeOK, AsyncSend, AsyncSendSlotTaken,
       AsyncSendEncodeFails, TakeSequenceNumber, receiverVars
  <2>2. QED
    BY <2>1 DEF StreamInv, OrderedPrefix, Stream!Issue
<1>2. ASSUME UNCHANGED <<nextMsg, expectedRecvSeq, delivered>>
      PROVE  StreamInv' /\ UNCHANGED <<nextMsg, delivered>>
  BY <1>2 DEF StreamInv, OrderedPrefix
<1>3. ASSUME NEW p \in sendOps, SendSucceeds(p) \/ SendFails(p)
      PROVE  StreamInv' /\ UNCHANGED <<nextMsg, delivered>>
  BY <1>2, <1>3 DEF SendSucceeds, SendFails, receiverVars
<1>4. ASSUME NEW p \in net, RecvOrderedStore(p)
      PROVE  StreamInv' /\ (Stream!Deliver \/ UNCHANGED <<nextMsg, delivered>>)
  BY <1>4, StreamRecvOrderedStore
<1>5. ASSUME NEW p \in net, RecvOrderedOutside(p) \/ RecvOrderedSlotTaken(p) \/ Lose(p)
      PROVE  StreamInv' /\ UNCHANGED <<nextMsg, delivered>>
  BY <1>2, <1>5 DEF RecvOrderedOutside, RecvOrderedSlotTaken, Lose, senderVars, receiverVars
<1>6. ASSUME NEW a \in acks, RecvAck(a) \/ LoseAck(a)
      PROVE  StreamInv' /\ UNCHANGED <<nextMsg, delivered>>
  BY <1>2, <1>6 DEF RecvAck, LoseAck, senderVars, receiverVars
<1>7. CASE (\E due \in SUBSET Occupied : OnTick(due)) \/ Flush \/ UNCHANGED vars
  BY <1>2, <1>7 DEF OnTick, Flush, vars, senderVars, receiverVars
<1>8. ASSUME NEW p \in net
      PROVE  ~RecvUnorderedDuplicate(p) /\ ~RecvUnorderedNew(p)
  BY DEF RecvUnorderedDuplicate, RecvUnorderedNew
<1>9. QED
  BY <1>1, <1>3, <1>4, <1>5, <1>6, <1>7, <1>8 DEF Next, RecvData, Stream!Next

(* A reliable ordered channel delivers the messages in the order in which  *)
(* they were numbered, none skipped and none repeated: it implements the   *)
(* FIFO stream, whatever the path does and whichever sends fail, until the *)
(* numbers come within a window of wrapping.                               *)
THEOREM OrderedImplementsStream ==
  ASSUME Ordered, MaxMsgs + Window <= SeqMod
  PROVE  Spec => StreamSpec
<1>1. NumberInv /\ StreamInv /\ [Next]_vars => StreamInv' /\ [Stream!Next]_(Stream!vars)
  BY StreamStep
<1>2. QED
  BY <1>1, StreamInit, NumberInit, NumberStep, TypeCorrect, PTL
     DEF Spec, StreamSpec, Stream!Spec

(* The i-th message delivered is the i-th one issued. *)
THEOREM OrderedPrefixCorrect ==
  ASSUME Ordered, MaxMsgs + Window <= SeqMod
  PROVE  Spec => []OrderedPrefix
<1>1. NumberInv /\ StreamInv /\ [Next]_vars => StreamInv'
  BY StreamStep
<1>2. StreamInv => OrderedPrefix
  BY DEF StreamInv
<1>3. QED
  BY <1>1, <1>2, StreamInit, NumberInit, NumberStep, TypeCorrect, PTL DEF Spec

-----------------------------------------------------------------------------
(* Messages below half of the sequence space *)

(* A datagram on the path carries the number of its message. *)
LEMMA DatagramNumber ==
  ASSUME MaxMsgs <= HalfSpace, NumberInv, nextMsg <= MaxMsgs, NEW p \in net
  PROVE  p.seq = p.msg /\ p.msg \in Nat /\ p.msg < MaxMsgs
<1>1. p.msg \in Nat /\ nextMsg \in Nat /\ Numbered(p, nextMsg)
  BY DEF NumberInv, TypeOK, NumbersSound, Datagrams
<1>2. MaxMsgs \in Nat /\ MaxMsgs <= SeqMod
  BY HalfSpaceRange, ChannelAssumption
<1>3. p.seq = p.msg
  BY <1>1, <1>2, NumberIdentifies
<1>4. QED
  BY <1>1, <1>2, <1>3 DEF Numbered

(* What markReceived does when no number has wrapped *)
LEMMA MarkNoWrap ==
  ASSUME NEW t \in Trackers, t.has => t.latest < HalfSpace,
         NEW m \in Nat, m < HalfSpace, NEW u \in markReceived(t, m)
  PROVE  /\ u \in Trackers /\ u.has
         /\ \/ ~t.has /\ u.latest = m /\ u.bits = {}
            \/ /\ t.has /\ t.latest < m /\ u.latest = m
               /\ u.bits \in AdvancedBits(t.bits, m - t.latest)
            \/ /\ t.has /\ m <= t.latest /\ u.latest = t.latest
               /\ u.bits = LateBits(t.bits, t.latest - m)
<1>1. SeqMod \in Nat /\ HalfSpace \in Nat /\ m < SeqMod
  BY HalfSpaceRange
<1>2. m % SeqMod = m /\ m \in Int
  BY <1>1, ModSmall
<1>3. m \in Seqs
  BY <1>1 DEF Seqs
<1>4. u \in Trackers
  BY <1>3, MarkReceivedType
<1>5. CASE ~t.has
  <2>1. u = [has |-> TRUE, latest |-> m, bits |-> {}]
    BY <1>5, MarkFirst
  <2>2. QED
    BY <1>4, <1>5, <2>1
<1>6. CASE t.has
  <2>1. PICK n \in Nat : n = t.latest /\ n < HalfSpace
    BY <1>6 DEF Trackers, Seqs
  <2>2. n \in Int /\ n < SeqMod
    BY <2>1, HalfSpaceRange
  <2>3. n % SeqMod = n
    BY <1>1, <2>2, ModSmall
  <2>4. t.latest = n % SeqMod /\ u \in markReceived(t, m % SeqMod)
    BY <1>2, <2>1, <2>3
  <2>5. CASE n < m
    <3>1. m - n < HalfSpace
      BY <1>1
    <3>2. u.has /\ u.latest = m % SeqMod /\ u.bits \in AdvancedBits(t.bits, m - n)
      BY <1>2, <1>6, <2>2, <2>4, <2>5, <3>1, MarkAhead
    <3>3. QED
      BY <1>2, <1>4, <1>6, <2>1, <2>5, <3>2
  <2>6. CASE m <= n
    <3>1. n - m < HalfSpace
      BY <1>1, <2>1
    <3>2. u.has /\ u.latest = n % SeqMod /\ u.bits = LateBits(t.bits, n - m)
      BY <1>2, <1>6, <2>2, <2>4, <2>6, <3>1, MarkBehind
    <3>3. QED
      BY <1>4, <1>6, <2>1, <2>3, <2>6, <3>2
  <2>7. QED
    BY <2>5, <2>6
<1>7. QED
  BY <1>5, <1>6

(* The ACK word covers message x just when it is the latest one or its bit *)
(* is set.                                                                 *)
LEMMA CoversNoWrap ==
  ASSUME NEW n \in Nat, n < HalfSpace, NEW x \in Nat, x < HalfSpace, NEW bits \in AckBits
  PROVE  isAcknowledged(x, n, bits) <=> x <= n /\ (x = n \/ n - x - 1 \in bits)
<1>1. SeqMod \in Nat /\ HalfSpace \in Nat /\ x < SeqMod /\ n < SeqMod /\ x \in Int /\ n \in Int
  BY HalfSpaceRange
<1>2. x % SeqMod = x /\ n % SeqMod = n
  BY <1>1, ModSmall
<1>3. CASE x <= n
  <2>1. n - x < HalfSpace
    BY <1>1
  <2>2. isAcknowledged(x % SeqMod, n % SeqMod, bits) <=> x = n \/ n - x - 1 \in bits
    BY <1>1, <1>3, <2>1, AcknowledgedMeans
  <2>3. QED
    BY <1>2, <1>3, <2>2
<1>4. CASE n < x
  <2>1. x - n < HalfSpace
    BY <1>1
  <2>2. ~isAcknowledged(x % SeqMod, n % SeqMod, bits)
    BY <1>1, <1>4, <2>1, NothingAhead
  <2>3. QED
    BY <1>2, <1>4, <2>2
<1>5. QED
  BY <1>3, <1>4

-----------------------------------------------------------------------------
(* An unordered channel delivers a message once.  The ACK word remembers    *)
(* what was delivered among the latest messages, and whatever lies before  *)
(* it is dropped: nothing that is forgotten can come back.                 *)

OnceInv ==
  /\ nextMsg <= MaxMsgs
  /\ tracker.has => tracker.latest < MaxMsgs
  /\ IF tracker.has THEN WordComplete(tracker.bits, tracker.latest, DeliveredMsgs)
                    ELSE delivered = <<>>
  /\ AtMostOnce

(* What is not taken for a duplicate has not been delivered. *)
LEMMA NewIsNew ==
  ASSUME MaxMsgs <= HalfSpace, NumberInv, OnceInv, tracker.has,
         NEW m \in Nat, m < MaxMsgs, ~isDuplicateOrStaleUnordered(m)
  PROVE  m \notin DeliveredMsgs
<1>1. PICK n \in Nat : n = tracker.latest /\ n < HalfSpace
  BY HalfSpaceRange, ChannelAssumption DEF OnceInv, NumberInv, TypeOK, Trackers, Seqs
<1>2. /\ MaxMsgs \in Nat /\ HalfSpace \in Nat /\ m < HalfSpace /\ AckHistory \in Nat
      /\ tracker.bits \in AckBits /\ SeqMod \in Nat
      /\ m < SeqMod /\ n < SeqMod /\ n \in Int /\ m \in Int
  BY <1>1, HalfSpaceRange, ChannelAssumption DEF NumberInv, TypeOK, Trackers
<1>3. m % SeqMod = m /\ n % SeqMod = n
  BY <1>2, ModSmall
<1>4. WordComplete(tracker.bits, n, DeliveredMsgs)
  BY <1>1 DEF OnceInv
<1>5. CASE n < m
  BY <1>2, <1>4, <1>5 DEF WordComplete
<1>6. CASE m <= n
  <2>1. n - m <= HalfSpace /\ n - m < SeqMod
    BY <1>1, <1>2
  <2>2. ~isNewerSequence(m % SeqMod, n % SeqMod)
    BY <1>2, <1>6, <2>1, NotNewerBehind
  <2>3. Delta(n % SeqMod, m % SeqMod) = n - m
    BY <1>2, <1>6, <2>1, DeltaAhead
  <2>4. ~(n - m > AckHistory) /\ ~isAcknowledged(m, n, tracker.bits)
    BY <1>1, <1>3, <2>2, <2>3 DEF isDuplicateOrStaleUnordered
  <2>5. m # n /\ n - m - 1 \notin tracker.bits
    BY <1>1, <1>2, <1>6, <2>4, CoversNoWrap
  <2>6. QED
    BY <1>4, <2>4, <2>5 DEF WordComplete
<1>7. QED
  BY <1>2, <1>5, <1>6

LEMMA OnceDelivers ==
  ASSUME MaxMsgs <= HalfSpace, NumberInv, OnceInv, NEW p \in net, RecvUnorderedNew(p)
  PROVE  OnceInv'
<1>1. PICK m \in Nat : m = p.msg /\ m = p.seq /\ m < MaxMsgs
  BY DatagramNumber DEF OnceInv
<1>2. /\ tracker' \in markReceived(tracker, m) /\ delivered' = Append(delivered, m)
      /\ ~isDuplicateOrStaleUnordered(m) /\ nextMsg' = nextMsg
  BY <1>1 DEF RecvUnorderedNew, senderVars
<1>3. /\ delivered \in Seq(Nat) /\ Len(delivered) \in Nat /\ tracker \in Trackers
      /\ MaxMsgs \in Nat /\ HalfSpace \in Nat /\ m < HalfSpace
  BY <1>1, HalfSpaceRange, ChannelAssumption DEF NumberInv, TypeOK
<1>4. /\ Len(delivered') = Len(delivered) + 1 /\ delivered'[Len(delivered) + 1] = m
      /\ \A i \in 1 .. Len(delivered) : delivered'[i] = delivered[i]
  BY <1>2, <1>3
<1>5. DeliveredMsgs' = DeliveredMsgs \cup {m}
  <2>1. 1 .. Len(delivered') = 1 .. Len(delivered) \cup {Len(delivered) + 1}
    BY <1>3, <1>4
  <2>2. QED
    BY <1>4, <2>1 DEF DeliveredMsgs
<1>6. m \notin DeliveredMsgs
  <2>1. CASE tracker.has
    BY <1>1, <1>2, <2>1, NewIsNew
  <2>2. CASE ~tracker.has
    <3>1. Len(delivered) = 0
      BY <2>2 DEF OnceInv
    <3>2. QED
      BY <3>1 DEF DeliveredMsgs
  <2>3. QED
    BY <2>1, <2>2
<1>7. AtMostOnce'
  <2>1. ASSUME NEW i \in 1 .. Len(delivered'), NEW j \in 1 .. Len(delivered'),
               delivered'[i] = delivered'[j]
        PROVE  i = j
    <3>1. i \in 1 .. Len(delivered) \/ i = Len(delivered) + 1
      BY <1>3, <1>4
    <3>2. j \in 1 .. Len(delivered) \/ j = Len(delivered) + 1
      BY <1>3, <1>4
    <3>3. \A k \in 1 .. Len(delivered) : delivered[k] # m
      BY <1>6 DEF DeliveredMsgs
    <3>4. QED
      BY <1>4, <2>1, <3>1, <3>2, <3>3 DEF OnceInv, AtMostOnce
  <2>2. QED
    BY <2>1 DEF AtMostOnce
<1>8. tracker.has => tracker.latest < HalfSpace
  BY <1>3 DEF OnceInv, Trackers, Seqs
<1>9. /\ tracker' \in Trackers /\ tracker'.has
      /\ \/ ~tracker.has /\ tracker'.latest = m /\ tracker'.bits = {}
         \/ /\ tracker.has /\ tracker.latest < m /\ tracker'.latest = m
            /\ tracker'.bits \in AdvancedBits(tracker.bits, m - tracker.latest)
         \/ /\ tracker.has /\ m <= tracker.latest /\ tracker'.latest = tracker.latest
            /\ tracker'.bits = LateBits(tracker.bits, tracker.latest - m)
  BY <1>2, <1>3, <1>8, MarkNoWrap
<1>10. tracker'.latest < MaxMsgs
  BY <1>1, <1>9 DEF OnceInv
<1>11. WordComplete(tracker'.bits, tracker'.latest, DeliveredMsgs')
  <2>1. tracker.latest \in Int /\ m \in Int /\ tracker.bits \in AckBits
    BY <1>3, HalfSpaceRange DEF Trackers, Seqs
  <2>2. DeliveredMsgs \in SUBSET Int
    BY <1>3 DEF DeliveredMsgs
  <2>3. CASE ~tracker.has /\ tracker'.latest = m /\ tracker'.bits = {}
    <3>1. Len(delivered) = 0
      BY <2>3 DEF OnceInv
    <3>2. DeliveredMsgs = {}
      BY <3>1 DEF DeliveredMsgs
    <3>3. DeliveredMsgs' = {m} /\ m <= m
      BY <1>5, <3>2
    <3>4. QED
      BY <2>3, <3>3 DEF WordComplete
  <2>4. CASE /\ tracker.has /\ tracker.latest < m /\ tracker'.latest = m
             /\ tracker'.bits \in AdvancedBits(tracker.bits, m - tracker.latest)
    <3>1. WordComplete(tracker.bits, tracker.latest, DeliveredMsgs)
      BY <2>4 DEF OnceInv
    <3>2. WordComplete(tracker'.bits, m, DeliveredMsgs \cup {m})
      BY <2>1, <2>2, <2>4, <3>1, CompleteAhead
    <3>3. QED
      BY <1>5, <2>4, <3>2
  <2>5. CASE /\ tracker.has /\ m <= tracker.latest /\ tracker'.latest = tracker.latest
             /\ tracker'.bits = LateBits(tracker.bits, tracker.latest - m)
    <3>1. WordComplete(tracker.bits, tracker.latest, DeliveredMsgs)
      BY <2>5 DEF OnceInv
    <3>2. WordComplete(tracker'.bits, tracker.latest, DeliveredMsgs \cup {m})
      BY <2>1, <2>2, <2>5, <3>1, CompleteBehind
    <3>3. QED
      BY <1>5, <2>5, <3>2
  <2>6. QED
    BY <1>9, <2>3, <2>4, <2>5
<1>12. QED
  BY <1>2, <1>7, <1>9, <1>10, <1>11 DEF OnceInv

(* Whatever the channel does, no more numbers are handed out than MaxMsgs. *)
LEMMA Bounded ==
  ASSUME NumberInv, nextMsg <= MaxMsgs, [Next]_vars
  PROVE  nextMsg' <= MaxMsgs
<1>1. nextMsg \in Nat /\ MaxMsgs \in Nat
  BY ChannelAssumption DEF NumberInv, TypeOK
<1>2. nextMsg' = nextMsg \/ (nextMsg < MaxMsgs /\ nextMsg' = nextMsg + 1)
  BY DEF Next, AsyncSend, AsyncSendSlotTaken, AsyncSendEncodeFails, TakeSequenceNumber,
     SendSucceeds, SendFails, OnTick, Flush, RecvAck, RecvData, RecvOrderedOutside,
     RecvOrderedSlotTaken, RecvOrderedStore, RecvUnorderedDuplicate, RecvUnorderedNew,
     Lose, LoseAck, vars, senderVars
<1>3. QED
  BY <1>1, <1>2

LEMMA OnceStep ==
  ASSUME ~Ordered, MaxMsgs <= HalfSpace
  PROVE  NumberInv /\ OnceInv /\ [Next]_vars => OnceInv'
<1> SUFFICES ASSUME NumberInv, OnceInv, [Next]_vars PROVE OnceInv'
  OBVIOUS
<1>1. nextMsg' <= MaxMsgs
  BY Bounded DEF OnceInv
<1>2. ASSUME UNCHANGED <<tracker, delivered>> PROVE OnceInv'
  <2>1. DeliveredMsgs' = DeliveredMsgs /\ (AtMostOnce <=> AtMostOnce')
    BY <1>2 DEF DeliveredMsgs, AtMostOnce
  <2>2. QED
    BY <1>1, <1>2, <2>1 DEF OnceInv
<1>3. ASSUME NEW p \in net, RecvData(p) PROVE OnceInv'
  <2>1. CASE RecvUnorderedNew(p)
    BY <2>1, OnceDelivers
  <2>2. CASE RecvUnorderedDuplicate(p)
    BY <1>2, <2>2 DEF RecvUnorderedDuplicate, receiverVars
  <2>3. QED
    BY <1>3, <2>1, <2>2 DEF RecvData, RecvOrderedOutside, RecvOrderedSlotTaken, RecvOrderedStore
<1>4. CASE \/ \E cw \in CongestionWindows :
                AsyncSend(cw) \/ AsyncSendSlotTaken(cw) \/ AsyncSendEncodeFails(cw)
           \/ \E p \in sendOps : SendSucceeds(p) \/ SendFails(p)
           \/ \E due \in SUBSET Occupied : OnTick(due)
           \/ Flush
           \/ \E p \in net : Lose(p)
           \/ \E a \in acks : RecvAck(a) \/ LoseAck(a)
           \/ UNCHANGED vars
  <2>1. UNCHANGED <<tracker, delivered>>
    BY <1>4 DEF AsyncSend, AsyncSendSlotTaken, AsyncSendEncodeFails, SendSucceeds, SendFails,
       OnTick, Flush, Lose, RecvAck, LoseAck, vars, receiverVars
  <2>2. QED
    BY <1>2, <2>1
<1>5. QED
  BY <1>3, <1>4 DEF Next

(* A reliable unordered channel delivers no message twice, whatever the    *)
(* path duplicates and reorders, however far behind a copy comes, and      *)
(* whatever a shift by the full width of the ACK word leaves, as long as   *)
(* fewer numbers than half of the sequence space have been used.           *)
THEOREM AtMostOnceCorrect ==
  ASSUME ~Ordered, MaxMsgs <= HalfSpace
  PROVE  Spec => []AtMostOnce
<1>1. Init => OnceInv
  BY ChannelAssumption DEF Init, OnceInv, AtMostOnce, NoneReceived
<1>2. NumberInv /\ OnceInv /\ [Next]_vars => OnceInv'
  BY OnceStep
<1>3. OnceInv => AtMostOnce
  BY DEF OnceInv
<1>4. QED
  BY <1>1, <1>2, <1>3, NumberInit, NumberStep, TypeCorrect, PTL DEF Spec

-----------------------------------------------------------------------------
(* An ACK is a promise: what it covers has been delivered or is buffered.   *)

Got == DeliveredMsgs \cup Buffered

PromiseInv ==
  /\ nextMsg <= MaxMsgs
  /\ tracker.has => tracker.latest < MaxMsgs /\ WordSound(tracker.bits, tracker.latest, Got)
  /\ \A a \in acks : a.ack < MaxMsgs /\ WordSound(a.bits, a.ack, Got)
  /\ acked \subseteq Got

(* A word that is sound stays sound when more is received. *)
LEMMA SoundGrows ==
  ASSUME NEW bits, NEW n, NEW S, NEW T, WordSound(bits, n, S), S \subseteq T
  PROVE  WordSound(bits, n, T)
  BY DEF WordSound

(* The receiver answers with the ACK of tracker t. *)
LEMMA PromiseSent ==
  ASSUME PromiseInv, Got \subseteq Got', nextMsg' <= MaxMsgs, acked' = acked,
         tracker'.has => /\ tracker'.latest < MaxMsgs
                         /\ WordSound(tracker'.bits, tracker'.latest, Got'),
         SendAck(tracker') \/ acks' \subseteq acks
  PROVE  PromiseInv'
<1>1. acks' \subseteq acks \cup buildAck(tracker')
  BY IntoSubset DEF SendAck
<1>2. ASSUME NEW a \in acks' PROVE a.ack < MaxMsgs /\ WordSound(a.bits, a.ack, Got')
  <2>1. CASE a \in acks
    BY <2>1, SoundGrows DEF PromiseInv
  <2>2. CASE a \in buildAck(tracker')
    <3>1. tracker'.has /\ a.ack = tracker'.latest /\ a.bits = tracker'.bits
      BY <2>2 DEF buildAck
    <3>2. QED
      BY <3>1
  <2>3. QED
    BY <1>1, <2>1, <2>2
<1>3. acked' \subseteq Got'
  BY DEF PromiseInv
<1>4. QED
  BY <1>2, <1>3 DEF PromiseInv

(* Message m is received, and marked.  It is not exactly as far ahead of   *)
(* the latest one as the ACK word is wide.                                 *)
LEMMA PromiseMarked ==
  ASSUME MaxMsgs <= HalfSpace, NumberInv, PromiseInv, NEW m \in Nat, m < MaxMsgs,
         tracker.has /\ tracker.latest < m => m - tracker.latest # AckHistory,
         tracker' \in markReceived(tracker, m), SendAck(tracker'),
         Got \cup {m} \subseteq Got', nextMsg' <= MaxMsgs, acked' = acked
  PROVE  /\ PromiseInv' /\ tracker'.has /\ m <= tracker'.latest
         /\ tracker.has => tracker.latest <= tracker'.latest
<1>1. /\ tracker \in Trackers /\ MaxMsgs \in Nat /\ HalfSpace \in Nat /\ m < HalfSpace
      /\ m \in Int /\ tracker.bits \in AckBits /\ tracker.latest \in Int
  BY HalfSpaceRange, ChannelAssumption DEF NumberInv, TypeOK, Trackers, Seqs
<1>2. tracker.has => tracker.latest < HalfSpace
  BY <1>1 DEF PromiseInv
<1>3. /\ tracker' \in Trackers /\ tracker'.has
      /\ \/ ~tracker.has /\ tracker'.latest = m /\ tracker'.bits = {}
         \/ /\ tracker.has /\ tracker.latest < m /\ tracker'.latest = m
            /\ tracker'.bits \in AdvancedBits(tracker.bits, m - tracker.latest)
         \/ /\ tracker.has /\ m <= tracker.latest /\ tracker'.latest = tracker.latest
            /\ tracker'.bits = LateBits(tracker.bits, tracker.latest - m)
  BY <1>1, <1>2, MarkNoWrap
<1>4. m <= tracker'.latest /\ (tracker.has => tracker.latest <= tracker'.latest)
  BY <1>1, <1>3
<1>5. tracker'.latest < MaxMsgs
  BY <1>3 DEF PromiseInv
<1>6. WordSound(tracker'.bits, tracker'.latest, Got \cup {m})
  <2>1. CASE ~tracker.has /\ tracker'.latest = m /\ tracker'.bits = {}
    BY <2>1 DEF WordSound
  <2>2. CASE /\ tracker.has /\ tracker.latest < m /\ tracker'.latest = m
             /\ tracker'.bits \in AdvancedBits(tracker.bits, m - tracker.latest)
    <3>1. WordSound(tracker.bits, tracker.latest, Got)
      BY <2>2 DEF PromiseInv
    <3>2. WordSound(tracker'.bits, m, Got \cup {m})
      BY <1>1, <2>2, <3>1, SoundAhead
    <3>3. QED
      BY <2>2, <3>2
  <2>3. CASE /\ tracker.has /\ m <= tracker.latest /\ tracker'.latest = tracker.latest
             /\ tracker'.bits = LateBits(tracker.bits, tracker.latest - m)
    <3>1. WordSound(tracker.bits, tracker.latest, Got)
      BY <2>3 DEF PromiseInv
    <3>2. WordSound(tracker'.bits, tracker.latest, Got \cup {m})
      BY <1>1, <2>3, <3>1, SoundBehind
    <3>3. QED
      BY <2>3, <3>2
  <2>4. QED
    BY <1>3, <2>1, <2>2, <2>3
<1>7. WordSound(tracker'.bits, tracker'.latest, Got')
  BY <1>6, SoundGrows
<1>8. Got \subseteq Got'
  OBVIOUS
<1>9. PromiseInv'
  BY <1>5, <1>7, <1>8, PromiseSent
<1>10. QED
  BY <1>3, <1>4, <1>9

(* processAck releases nothing that has not been received. *)
LEMMA PromiseKept ==
  ASSUME MaxMsgs <= HalfSpace, NumberInv, PromiseInv, NEW a \in acks, RecvAck(a)
  PROVE  PromiseInv'
<1> DEFINE covered == {i \in Occupied : isAcknowledged(sentPackets[i].seq, a.ack, a.bits)}
<1>1. /\ acked' = acked \cup {sentPackets[i].msg : i \in covered}
      /\ nextMsg' = nextMsg /\ acks' = acks /\ tracker' = tracker
      /\ delivered' = delivered /\ receiveBuffer' = receiveBuffer
  BY DEF RecvAck, receiverVars
<1>2. Got' = Got
  BY <1>1 DEF Got, DeliveredMsgs, Buffered
<1>3. ASSUME NEW i \in covered PROVE sentPackets[i].msg \in Got
  <2>1. i \in Slots /\ sentPackets[i] # NoPacket /\ isAcknowledged(sentPackets[i].seq, a.ack, a.bits)
    BY DEF Occupied
  <2>2. PICK x : x = sentPackets[i].msg
    OBVIOUS
  <2>3. x \in Nat /\ Numbered(sentPackets[i], nextMsg) /\ nextMsg \in Nat
    BY <2>1, <2>2, SlotPacket DEF NumberInv, TypeOK, NumbersSound, RingSound, Packets
  <2>4. /\ MaxMsgs \in Nat /\ HalfSpace \in Nat /\ MaxMsgs <= SeqMod /\ nextMsg <= MaxMsgs
        /\ a.ack \in Nat /\ a.ack < MaxMsgs /\ a.bits \in AckBits
    BY HalfSpaceRange, ChannelAssumption DEF NumberInv, TypeOK, AckDatagrams, Seqs, PromiseInv
  <2>5. sentPackets[i].seq = x
    BY <2>2, <2>3, <2>4, NumberIdentifies
  <2>6. x < HalfSpace /\ a.ack < HalfSpace
    BY <2>2, <2>3, <2>4 DEF Numbered
  <2>7. x <= a.ack /\ (x = a.ack \/ a.ack - x - 1 \in a.bits)
    BY <2>1, <2>3, <2>4, <2>5, <2>6, CoversNoWrap
  <2>8. a.ack - (a.ack - x - 1) - 1 = x
    BY <2>3, <2>4
  <2>9. WordSound(a.bits, a.ack, Got)
    BY DEF PromiseInv
  <2>10. QED
    BY <2>2, <2>7, <2>8, <2>9 DEF WordSound
<1> HIDE DEF covered
<1>4. acked' \subseteq Got
  BY <1>1, <1>3 DEF PromiseInv
<1>5. QED
  BY <1>1, <1>2, <1>4 DEF PromiseInv

(***************************************************************************)
(* In an ordered channel the buffer holds messages of the receive window   *)
(* only, so that a message finds its slot taken by none but a copy of its  *)
(* own.  Nothing that was received lies beyond the latest number marked.   *)
(***************************************************************************)
ReceiveWindow ==
  /\ \A x \in Buffered : Len(delivered) <= x /\ x < Len(delivered) + Window
  /\ \A x \in Got : tracker.has /\ x <= tracker.latest

(* No window is wider than half of the sequence space. *)
LEMMA WindowFits == Window <= HalfSpace /\ 2 * HalfSpace <= SeqMod
  BY SeqModAssumption, ChannelAssumption, HalfSpaceRange
     DEF Window, normalizeWindow, MaxWindowSize, Seqs

(* The buffer with p in it is sound. *)
LEMMA StoredSound ==
  ASSUME NumberInv, NEW p \in net
  PROVE  Stored(p) \in [Slots -> SlotContents] /\ RingSound(Stored(p), nextMsg)
<1> DEFINE packet == [seq |-> p.seq, msg |-> p.msg]
<1>1. packet \in Packets /\ packet \in SlotContents
  BY DEF NumberInv, TypeOK, SlotContents, Datagrams, Packets
<1>2. Numbered(packet, nextMsg)
  BY DEF NumberInv, NumbersSound, Numbered
<1>3. RingSound([receiveBuffer EXCEPT ![slotIndex(packet.seq)] = packet], nextMsg)
  BY <1>2, RingSoundStore DEF NumberInv, TypeOK, NumbersSound
<1>4. QED
  BY <1>1, <1>3 DEF Stored, NumberInv, TypeOK

(* A sound ring has every message in the slot of its number. *)
LEMMA RingHolds ==
  ASSUME MaxMsgs <= SeqMod, nextMsg \in Nat, nextMsg <= MaxMsgs,
         NEW ring \in [Slots -> SlotContents], RingSound(ring, nextMsg),
         NEW i \in Slots, ring[i] # NoPacket
  PROVE  /\ ring[i].msg \in Nat /\ ring[i].msg < nextMsg
         /\ slotIndex(ring[i].msg) = i
<1>1. ring[i].msg \in Nat /\ Numbered(ring[i], nextMsg) /\ slotIndex(ring[i].seq) = i
  BY SlotPacket DEF RingSound, Packets
<1>2. ring[i].seq = ring[i].msg
  BY <1>1, NumberIdentifies
<1>3. QED
  BY <1>1, <1>2 DEF Numbered

(* Two messages of one window that share a slot are one. *)
LEMMA OneWindow ==
  ASSUME NEW low \in Nat, NEW x \in Nat, NEW y \in Nat,
         low <= x, x < low + Window, low <= y, y < low + Window,
         slotIndex(x) = slotIndex(y)
  PROVE  x = y
<1>1. /\ Window \in Nat /\ Window >= 1 /\ x \in Int /\ y \in Int
      /\ x % Window = y % Window
  BY WindowRange DEF slotIndex
<1>2. CASE x <= y
  <2>1. y - x < Window
    BY <1>1
  <2>2. QED
    BY <1>1, <1>2, <2>1, SameRemainder
<1>3. CASE y <= x
  <2>1. x - y < Window
    BY <1>1
  <2>2. QED
    BY <1>1, <1>3, <2>1, SameRemainder
<1>4. QED
  BY <1>1, <1>2, <1>3

(* The window test admits the messages of the window. *)
LEMMA AdmittedInWindow ==
  ASSUME MaxMsgs <= HalfSpace, NumberInv, StreamInv, NEW p \in net,
         isInOrderedReceiveWindow(p.seq)
  PROVE  Len(delivered) <= p.msg /\ p.msg < Len(delivered) + Window
<1>1. PICK m \in Nat : m = p.msg /\ m = p.seq /\ m < MaxMsgs
  BY DatagramNumber DEF StreamInv
<1>2. PICK n \in Nat : n = Len(delivered) /\ n = expectedRecvSeq /\ n <= MaxMsgs
  BY ChannelAssumption DEF StreamInv, NumberInv, TypeOK
<1>3. /\ SeqMod \in Nat /\ HalfSpace \in Nat /\ m < SeqMod /\ n < SeqMod
      /\ m < HalfSpace /\ n <= HalfSpace /\ m \in Int /\ n \in Int /\ MaxMsgs \in Nat
      /\ Window \in Nat /\ 2 * HalfSpace <= SeqMod
  BY <1>1, <1>2, HalfSpaceRange, ChannelAssumption, WindowRange
<1>4. m % SeqMod = m /\ n % SeqMod = n
  BY <1>3, ModSmall
<1>5. Delta(m, n) < Window /\ Delta(m, n) < HalfSpace
  BY <1>1, <1>2 DEF isInOrderedReceiveWindow
<1>6. CASE n <= m
  <2>1. m - n < SeqMod
    BY <1>3
  <2>2. Delta(m % SeqMod, n % SeqMod) = m - n
    BY <1>3, <1>6, <2>1, DeltaAhead
  <2>3. QED
    BY <1>1, <1>2, <1>3, <1>4, <1>5, <1>6, <2>2
<1>7. CASE m < n
  <2>1. n - m < SeqMod
    BY <1>3
  <2>2. Delta(m % SeqMod, n % SeqMod) = SeqMod - (n - m)
    BY <1>3, <1>7, <2>1, DeltaBehind
  <2>3. QED
    BY <1>3, <1>4, <1>5, <1>7, <2>2
<1>8. QED
  BY <1>6, <1>7

(* A message that finds its slot taken is in it already. *)
LEMMA TakenByItself ==
  ASSUME MaxMsgs <= HalfSpace, NumberInv, StreamInv, ReceiveWindow, NEW p \in net,
         isInOrderedReceiveWindow(p.seq), receiveBuffer[slotIndex(p.seq)] # NoPacket
  PROVE  p.msg \in Buffered
<1>1. PICK m \in Nat : m = p.msg /\ m = p.seq
  BY DatagramNumber DEF StreamInv
<1>2. slotIndex(m) \in Slots
  BY SlotIndexRange
<1>3. PICK x : x = receiveBuffer[slotIndex(m)].msg
  OBVIOUS
<1>4. /\ MaxMsgs <= SeqMod /\ nextMsg \in Nat /\ nextMsg <= MaxMsgs
      /\ receiveBuffer \in [Slots -> SlotContents] /\ RingSound(receiveBuffer, nextMsg)
      /\ Len(delivered) \in Nat
  BY HalfSpaceRange, ChannelAssumption DEF NumberInv, TypeOK, NumbersSound, StreamInv
<1>5. x \in Nat /\ slotIndex(x) = slotIndex(m)
  BY <1>1, <1>2, <1>3, <1>4, RingHolds
<1>6. x \in Buffered
  BY <1>1, <1>2, <1>3 DEF Buffered
<1>7. Len(delivered) <= x /\ x < Len(delivered) + Window
  BY <1>6 DEF ReceiveWindow
<1>8. Len(delivered) <= m /\ m < Len(delivered) + Window
  BY <1>1, AdmittedInWindow
<1>9. x = m
  BY <1>4, <1>5, <1>7, <1>8, OneWindow
<1>10. QED
  BY <1>1, <1>6, <1>9

(* An ordered stream of length n has delivered the first n messages. *)
LEMMA PrefixDelivers ==
  delivered \in Seq(Nat) /\ OrderedPrefix => DeliveredMsgs = 0 .. Len(delivered) - 1
<1> SUFFICES ASSUME delivered \in Seq(Nat), OrderedPrefix
             PROVE  DeliveredMsgs = 0 .. Len(delivered) - 1
  OBVIOUS
<1>1. Len(delivered) \in Nat /\ \A i \in 1 .. Len(delivered) : delivered[i] = i - 1
  BY DEF OrderedPrefix
<1>2. ASSUME NEW x \in 0 .. Len(delivered) - 1 PROVE x \in DeliveredMsgs
  <2>1. x + 1 \in 1 .. Len(delivered) /\ (x + 1) - 1 = x
    BY <1>1
  <2>2. QED
    BY <1>1, <2>1 DEF DeliveredMsgs
<1>3. ASSUME NEW x \in DeliveredMsgs PROVE x \in 0 .. Len(delivered) - 1
  BY <1>1 DEF DeliveredMsgs
<1>4. QED
  BY <1>2, <1>3

LEMMA DeliveredAre ==
  NumberInv /\ StreamInv => DeliveredMsgs = 0 .. Len(delivered) - 1
  BY PrefixDelivers DEF NumberInv, TypeOK, StreamInv

(* What the buffer holds once p has been put in its free slot *)
LEMMA StoredHolds ==
  ASSUME MaxMsgs <= HalfSpace, NumberInv, StreamInv, ReceiveWindow, NEW p \in net,
         isInOrderedReceiveWindow(p.seq), receiveBuffer[slotIndex(p.seq)] = NoPacket
  PROVE  /\ \A i \in Slots : Stored(p)[i] # NoPacket =>
              /\ Stored(p)[i].msg \in Buffered \cup {p.msg}
              /\ slotIndex(Stored(p)[i].msg) = i
         /\ \A x \in Buffered \cup {p.msg} :
              /\ x \in Nat /\ Len(delivered) <= x /\ x < Len(delivered) + Window
              /\ slotIndex(x) \in Slots
              /\ Stored(p)[slotIndex(x)] # NoPacket /\ Stored(p)[slotIndex(x)].msg = x
<1>1. PICK m \in Nat : m = p.msg /\ m = p.seq
  BY DatagramNumber DEF StreamInv
<1>2. slotIndex(m) \in Slots
  BY SlotIndexRange
<1>3. /\ MaxMsgs <= SeqMod /\ nextMsg \in Nat /\ nextMsg <= MaxMsgs
      /\ receiveBuffer \in [Slots -> SlotContents] /\ RingSound(receiveBuffer, nextMsg)
  BY HalfSpaceRange, ChannelAssumption DEF NumberInv, TypeOK, NumbersSound, StreamInv
<1>4. [seq |-> p.seq, msg |-> p.msg] # NoPacket
  BY ChannelAssumption DEF NumberInv, TypeOK, Datagrams, Packets
<1>5. PICK ring : ring = Stored(p)
  OBVIOUS
<1>6. /\ ring[slotIndex(m)] # NoPacket /\ ring[slotIndex(m)].msg = m
      /\ \A i \in Slots : i # slotIndex(m) => ring[i] = receiveBuffer[i]
  BY <1>1, <1>2, <1>3, <1>4, <1>5 DEF Stored
<1>7. ASSUME NEW i \in Slots, ring[i] # NoPacket
      PROVE  ring[i].msg \in Buffered \cup {m} /\ slotIndex(ring[i].msg) = i
  <2>1. CASE i = slotIndex(m)
    BY <1>6, <2>1
  <2>2. CASE i # slotIndex(m)
    <3>1. ring[i] = receiveBuffer[i]
      BY <1>6, <2>2
    <3>2. slotIndex(receiveBuffer[i].msg) = i
      BY <1>3, <1>7, <3>1, RingHolds
    <3>3. receiveBuffer[i].msg \in Buffered
      BY <1>7, <3>1 DEF Buffered
    <3>4. QED
      BY <3>1, <3>2, <3>3
  <2>3. QED
    BY <2>1, <2>2
<1>8. ASSUME NEW x \in Buffered \cup {m}
      PROVE  /\ x \in Nat /\ Len(delivered) <= x /\ x < Len(delivered) + Window
             /\ slotIndex(x) \in Slots
             /\ ring[slotIndex(x)] # NoPacket /\ ring[slotIndex(x)].msg = x
  <2>1. CASE x = m
    <3>1. Len(delivered) <= m /\ m < Len(delivered) + Window
      BY <1>1, AdmittedInWindow
    <3>2. QED
      BY <1>2, <1>6, <2>1, <3>1
  <2>2. CASE x \in Buffered
    <3>1. PICK i \in Slots : receiveBuffer[i] # NoPacket /\ x = receiveBuffer[i].msg
      BY <2>2 DEF Buffered
    <3>2. x \in Nat /\ slotIndex(x) = i
      BY <1>3, <3>1, RingHolds
    <3>3. i # slotIndex(m)
      BY <1>1, <3>1
    <3>4. ring[i] = receiveBuffer[i]
      BY <1>6, <3>3
    <3>5. Len(delivered) <= x /\ x < Len(delivered) + Window
      BY <2>2 DEF ReceiveWindow
    <3>6. QED
      BY <3>1, <3>2, <3>4, <3>5
  <2>3. QED
    BY <2>1, <2>2
<1>9. QED
  BY <1>1, <1>5, <1>7, <1>8

(* A store loses nothing of what was received, and keeps in the buffer     *)
(* what the window has not passed.                                         *)
LEMMA StoreKeeps ==
  ASSUME MaxMsgs <= HalfSpace, NumberInv, NumberInv', StreamInv, ReceiveWindow,
         NEW p \in net, RecvOrderedStore(p)
  PROVE  /\ Got' = Got \cup {p.msg}
         /\ \A x \in Buffered' : Len(delivered') <= x /\ x < Len(delivered') + Window
<1> DEFINE L == Len(delivered)
<1>1. isInOrderedReceiveWindow(p.seq) /\ receiveBuffer[slotIndex(p.seq)] = NoPacket
  BY DEF RecvOrderedStore
<1>2. MaxMsgs + Window <= SeqMod
  BY HalfSpaceRange, ChannelAssumption, WindowFits, WindowRange
<1>3. StreamInv'
  BY <1>2, StreamRecvOrderedStore
<1>4. PICK n \in 0 .. Window :
        /\ Len(delivered') = L + n
        /\ \A i \in 0 .. n - 1 : Ready(Stored(p), i) /\ L + i < nextMsg
        /\ receiveBuffer' = Emptied(Stored(p), {slotIndex(Upcoming(i)) : i \in 0 .. n - 1})
  BY <1>2, StreamRecvOrderedStore
<1>5. PICK ring : ring = Stored(p)
  OBVIOUS
<1>6. PICK R : R = Buffered \cup {p.msg}
  OBVIOUS
<1>7. \A i \in Slots : ring[i] # NoPacket => ring[i].msg \in R /\ slotIndex(ring[i].msg) = i
  BY <1>1, <1>5, <1>6, StoredHolds
<1>8. \A x \in R : /\ x \in Nat /\ L <= x /\ x < L + Window /\ slotIndex(x) \in Slots
                   /\ ring[slotIndex(x)] # NoPacket /\ ring[slotIndex(x)].msg = x
  BY <1>1, <1>5, <1>6, StoredHolds
<1>9. L \in Nat /\ n \in Nat /\ n <= Window /\ Window \in Nat
  BY WindowRange DEF NumberInv, TypeOK
<1>10. \A i \in 0 .. n - 1 : Upcoming(i) = L + i
  <2>1. TAKE i \in 0 .. n - 1
  <2>2. i \in Nat /\ i < Window
    BY <1>9
  <2>3. QED
    BY <1>2, <2>2, UpcomingNoWrap
(* the messages delivered were in the ring *)
<1>11. ASSUME NEW i \in 0 .. n - 1 PROVE L + i \in R
  <2>1. i \in Nat /\ i < Window
    BY <1>9
  <2>2. Ready(ring, i)
    BY <1>4, <1>5
  <2>3. ring \in [Slots -> SlotContents] /\ RingSound(ring, nextMsg)
    BY <1>5, StoredSound
  <2>4. ring[slotIndex(Upcoming(i))].msg = L + i
    BY <1>2, <2>1, <2>2, <2>3, ReadyIsDue
  <2>5. slotIndex(Upcoming(i)) \in Slots /\ ring[slotIndex(Upcoming(i))] # NoPacket
    <3>1. L + i \in Nat
      BY <1>9, <2>1
    <3>2. slotIndex(L + i) \in Slots
      BY <3>1, SlotIndexRange
    <3>3. QED
      BY <1>10, <2>2, <3>2 DEF Ready
  <2>6. QED
    BY <1>7, <2>4, <2>5
<1>12. PICK emptied : emptied = {slotIndex(L + i) : i \in 0 .. n - 1}
  OBVIOUS
<1>13. receiveBuffer' = Emptied(ring, emptied)
  BY <1>4, <1>5, <1>10, <1>12
(* what leaves the ring has been delivered, and the rest is beyond it *)
<1>14. ASSUME NEW x \in R
       PROVE  slotIndex(x) \in emptied <=> x < L + n
  <2>1. x \in Nat /\ L <= x /\ x < L + Window
    BY <1>8
  <2>2. ASSUME x < L + n PROVE slotIndex(x) \in emptied
    <3>1. x - L \in 0 .. n - 1 /\ L + (x - L) = x
      BY <1>9, <2>1, <2>2
    <3>2. QED
      BY <1>12, <3>1
  <2>3. ASSUME slotIndex(x) \in emptied PROVE x < L + n
    <3>1. PICK i \in 0 .. n - 1 : slotIndex(x) = slotIndex(L + i)
      BY <1>12, <2>3
    <3>2. L + i \in Nat /\ L <= L + i /\ L + i < L + Window /\ L + i < L + n
      BY <1>9
    <3>3. x = L + i
      BY <1>9, <2>1, <3>1, <3>2, OneWindow
    <3>4. QED
      BY <3>2, <3>3
  <2>4. QED
    BY <2>2, <2>3
<1>15. Buffered' = {x \in R : ~(x < L + n)}
  <2>1. \A i \in Slots : receiveBuffer'[i] = IF i \in emptied THEN NoPacket ELSE ring[i]
    BY <1>13 DEF Emptied
  <2>2. ASSUME NEW x \in Buffered' PROVE x \in R /\ ~(x < L + n)
    <3>1. PICK i \in Slots : receiveBuffer'[i] # NoPacket /\ x = receiveBuffer'[i].msg
      BY <2>2 DEF Buffered
    <3>2. i \notin emptied /\ ring[i] # NoPacket /\ x = ring[i].msg
      BY <2>1, <3>1
    <3>3. x \in R /\ slotIndex(x) = i
      BY <1>7, <3>2
    <3>4. QED
      BY <1>14, <3>2, <3>3
  <2>3. ASSUME NEW x \in R, ~(x < L + n) PROVE x \in Buffered'
    <3>1. slotIndex(x) \notin emptied
      BY <1>14, <2>3
    <3>2. slotIndex(x) \in Slots /\ receiveBuffer'[slotIndex(x)] = ring[slotIndex(x)]
      BY <1>8, <2>1, <3>1
    <3>3. receiveBuffer'[slotIndex(x)] # NoPacket /\ receiveBuffer'[slotIndex(x)].msg = x
      BY <1>8, <3>2
    <3>4. QED
      BY <3>2, <3>3 DEF Buffered
  <2>4. QED
    BY <2>2, <2>3
<1>16. DeliveredMsgs = 0 .. L - 1 /\ DeliveredMsgs' = 0 .. L + n - 1
  <2>1. DeliveredMsgs = 0 .. L - 1
    BY DeliveredAre
  <2>2. (DeliveredMsgs = 0 .. Len(delivered) - 1)'
    BY <1>3, DeliveredAre, PTL
  <2>3. QED
    BY <1>4, <2>1, <2>2
<1>17. Got' = Got \cup {p.msg}
  <2>1. Got' = 0 .. L + n - 1 \cup {x \in R : ~(x < L + n)}
    BY <1>15, <1>16 DEF Got
  <2>2. Got \cup {p.msg} = 0 .. L - 1 \cup R
    BY <1>6, <1>16 DEF Got
  <2>3. ASSUME NEW x \in 0 .. L + n - 1 PROVE x \in 0 .. L - 1 \cup R
    <3>1. CASE x < L
      BY <1>9, <3>1
    <3>2. CASE L <= x
      <4>1. x - L \in 0 .. n - 1 /\ L + (x - L) = x
        BY <1>9, <3>2
      <4>2. QED
        BY <1>11, <4>1
    <3>3. QED
      BY <1>9, <3>1, <3>2
  <2>4. ASSUME NEW x \in R PROVE x \in 0 .. L + n - 1 \/ ~(x < L + n)
    BY <1>8, <1>9
  <2>5. 0 .. L - 1 \subseteq 0 .. L + n - 1
    BY <1>9
  <2>6. QED
    BY <2>1, <2>2, <2>3, <2>4, <2>5
<1>18. \A x \in Buffered' : L + n <= x /\ x < L + n + Window
  BY <1>8, <1>9, <1>15
<1>19. QED
  BY <1>4, <1>17, <1>18

AckInv == PromiseInv /\ (Ordered => StreamInv /\ ReceiveWindow)

(* The step does not advance the latest number received by exactly the     *)
(* width of the ACK word, the one shift that markReceived leaves undefined.*)
NoFullShift == tracker.has => Delta(tracker'.latest, tracker.latest) # AckHistory

(* Where markReceived moves the latest number to *)
LEMMA MarkMoves ==
  ASSUME MaxMsgs <= HalfSpace, NumberInv, PromiseInv, tracker.has,
         NEW m \in Nat, m < MaxMsgs, tracker' \in markReceived(tracker, m)
  PROVE  Delta(tracker'.latest, tracker.latest) =
           IF tracker.latest < m THEN m - tracker.latest ELSE 0
<1>1. PICK n \in Nat : n = tracker.latest /\ n < MaxMsgs
  BY DEF PromiseInv, NumberInv, TypeOK, Trackers, Seqs
<1>2. /\ tracker \in Trackers /\ MaxMsgs \in Nat /\ SeqMod \in Nat /\ HalfSpace \in Nat
      /\ m < HalfSpace /\ n < HalfSpace /\ m < SeqMod /\ n < SeqMod /\ m \in Int /\ n \in Int
  BY <1>1, HalfSpaceRange, ChannelAssumption DEF NumberInv, TypeOK
<1>3. m % SeqMod = m /\ n % SeqMod = n
  BY <1>2, ModSmall
<1>4. tracker.latest < HalfSpace
  BY <1>1, <1>2
<1>5. tracker'.latest = IF n < m THEN m ELSE n
  <2>1. \/ tracker.latest < m /\ tracker'.latest = m
        \/ m <= tracker.latest /\ tracker'.latest = tracker.latest
    BY <1>2, <1>4, MarkNoWrap
  <2>2. QED
    BY <1>1, <2>1
<1>6. CASE n < m
  <2>1. n <= m /\ m - n < SeqMod
    BY <1>2, <1>6
  <2>2. Delta(m % SeqMod, n % SeqMod) = m - n
    BY <1>2, <2>1, DeltaAhead
  <2>3. QED
    BY <1>1, <1>3, <1>5, <1>6, <2>2
<1>7. CASE ~(n < m)
  <2>1. n <= n /\ n - n < SeqMod /\ n - n = 0
    BY <1>2, HalfSpaceRange
  <2>2. Delta(n % SeqMod, n % SeqMod) = 0
    BY <1>2, <2>1, DeltaAhead
  <2>3. QED
    BY <1>1, <1>3, <1>5, <1>7, <2>2
<1>8. QED
  BY <1>6, <1>7

(* A step that leaves the receiver's state alone keeps every promise. *)
LEMMA AckIdle ==
  ASSUME PromiseInv, Ordered => ReceiveWindow, nextMsg' <= MaxMsgs, acked' = acked,
         UNCHANGED <<tracker, delivered, receiveBuffer>>,
         SendAck(tracker) \/ acks' \subseteq acks
  PROVE  PromiseInv' /\ (Ordered => ReceiveWindow')
<1>1. Got' = Got /\ Buffered' = Buffered
  BY DEF Got, DeliveredMsgs, Buffered
<1>2. SendAck(tracker') \/ acks' \subseteq acks
  OBVIOUS
<1>3. tracker'.has => /\ tracker'.latest < MaxMsgs
                      /\ WordSound(tracker'.bits, tracker'.latest, Got')
  BY <1>1 DEF PromiseInv
<1>4. PromiseInv'
  BY <1>1, <1>2, <1>3, PromiseSent
<1>5. ReceiveWindow => ReceiveWindow'
  BY <1>1 DEF ReceiveWindow
<1>6. QED
  BY <1>4, <1>5

(* A message is received and marked. *)
LEMMA AckMarked ==
  ASSUME MaxMsgs <= HalfSpace, NumberInv, PromiseInv, Ordered => ReceiveWindow,
         NoFullShift, NEW m \in Nat, m < MaxMsgs,
         tracker' \in markReceived(tracker, m), SendAck(tracker'),
         Got' = Got \cup {m}, nextMsg' <= MaxMsgs, acked' = acked,
         Ordered => \A x \in Buffered' : Len(delivered') <= x /\ x < Len(delivered') + Window
  PROVE  PromiseInv' /\ (Ordered => ReceiveWindow')
<1>1. tracker.has /\ tracker.latest < m => m - tracker.latest # AckHistory
  BY MarkMoves DEF NoFullShift
<1>2. Got \cup {m} \subseteq Got'
  OBVIOUS
<1>3. /\ PromiseInv' /\ tracker'.has /\ m <= tracker'.latest
      /\ tracker.has => tracker.latest <= tracker'.latest
  BY <1>1, <1>2, PromiseMarked
<1>4. ASSUME Ordered PROVE ReceiveWindow'
  <2>1. ASSUME NEW x \in Got' PROVE x <= tracker'.latest
    <3>1. CASE x = m
      BY <1>3, <3>1
    <3>2. CASE x \in Got
      <4>1. tracker.has /\ x <= tracker.latest
        BY <1>4, <3>2 DEF ReceiveWindow
      <4>2. tracker.latest <= tracker'.latest
        BY <1>3, <4>1
      <4>3. x \in Nat /\ tracker.latest \in Nat /\ tracker'.latest \in Nat
        <5>1. tracker \in Trackers /\ m \in Seqs
          BY HalfSpaceRange, ChannelAssumption DEF NumberInv, TypeOK, Seqs
        <5>2. tracker' \in Trackers
          BY <5>1, MarkReceivedType
        <5>3. x \in Nat
          BY <3>2, SlotPacket DEF Got, DeliveredMsgs, Buffered, NumberInv, TypeOK, Packets
        <5>4. QED
          BY <5>1, <5>2, <5>3 DEF Trackers, Seqs
      <4>4. QED
        BY <4>1, <4>2, <4>3
    <3>3. QED
      BY <3>1, <3>2
  <2>2. QED
    BY <1>3, <1>4, <2>1 DEF ReceiveWindow
<1>5. QED
  BY <1>3, <1>4

(* A datagram arrives. *)
LEMMA AckRecvData ==
  ASSUME MaxMsgs <= HalfSpace, NumberInv, NumberInv', AckInv, NoFullShift,
         NEW p \in net, RecvData(p)
  PROVE  PromiseInv' /\ (Ordered => ReceiveWindow')
<1>1. PromiseInv /\ (Ordered => ReceiveWindow)
  BY DEF AckInv
<1>2. nextMsg' <= MaxMsgs /\ acked' = acked
  BY DEF AckInv, PromiseInv, RecvData, RecvOrderedOutside, RecvOrderedSlotTaken,
     RecvOrderedStore, RecvUnorderedDuplicate, RecvUnorderedNew, senderVars
<1>3. PICK m \in Nat : m = p.msg /\ m = p.seq /\ m < MaxMsgs
  BY DatagramNumber DEF AckInv, PromiseInv
<1>4. CASE RecvOrderedOutside(p) \/ RecvUnorderedDuplicate(p)
  <2>1. UNCHANGED <<tracker, delivered, receiveBuffer>> /\ SendAck(tracker)
    BY <1>4 DEF RecvOrderedOutside, RecvUnorderedDuplicate, receiverVars
  <2>2. QED
    BY <1>1, <1>2, <2>1, AckIdle
<1>5. CASE RecvOrderedSlotTaken(p)
  <2>1. /\ Ordered /\ tracker' \in markReceived(tracker, m) /\ SendAck(tracker')
        /\ UNCHANGED <<delivered, receiveBuffer>>
        /\ isInOrderedReceiveWindow(p.seq) /\ receiveBuffer[slotIndex(p.seq)] # NoPacket
    BY <1>3, <1>5 DEF RecvOrderedSlotTaken
  <2>2. StreamInv /\ ReceiveWindow
    BY <2>1 DEF AckInv
  <2>3. m \in Buffered
    BY <1>3, <2>1, <2>2, TakenByItself
  <2>4. Got' = Got \cup {m} /\ Buffered' = Buffered
    BY <2>1, <2>3 DEF Got, DeliveredMsgs, Buffered
  <2>5. \A x \in Buffered' : Len(delivered') <= x /\ x < Len(delivered') + Window
    BY <2>1, <2>2, <2>4 DEF ReceiveWindow
  <2>6. QED
    BY <1>1, <1>2, <1>3, <2>1, <2>4, <2>5, AckMarked
<1>6. CASE RecvOrderedStore(p)
  <2>1. Ordered /\ tracker' \in markReceived(tracker, m) /\ SendAck(tracker')
    BY <1>3, <1>6 DEF RecvOrderedStore
  <2>2. StreamInv /\ ReceiveWindow
    BY <2>1 DEF AckInv
  <2>3. /\ Got' = Got \cup {m}
        /\ \A x \in Buffered' : Len(delivered') <= x /\ x < Len(delivered') + Window
    BY <1>3, <1>6, <2>2, StoreKeeps
  <2>4. QED
    BY <1>1, <1>2, <1>3, <2>1, <2>3, AckMarked
<1>7. CASE RecvUnorderedNew(p)
  <2>1. /\ ~Ordered /\ tracker' \in markReceived(tracker, m) /\ SendAck(tracker')
        /\ delivered' = Append(delivered, m) /\ receiveBuffer' = receiveBuffer
    BY <1>3, <1>7 DEF RecvUnorderedNew
  <2>2. delivered \in Seq(Nat) /\ Len(delivered) \in Nat
    BY DEF NumberInv, TypeOK
  <2>3. /\ Len(delivered') = Len(delivered) + 1 /\ delivered'[Len(delivered) + 1] = m
        /\ \A i \in 1 .. Len(delivered) : delivered'[i] = delivered[i]
    BY <2>1, <2>2
  <2>4. 1 .. Len(delivered') = 1 .. Len(delivered) \cup {Len(delivered) + 1}
    BY <2>2, <2>3
  <2>5. DeliveredMsgs' = DeliveredMsgs \cup {m}
    BY <2>3, <2>4 DEF DeliveredMsgs
  <2>6. Got' = Got \cup {m}
    BY <2>1, <2>5 DEF Got, Buffered
  <2>7. QED
    BY <1>1, <1>2, <1>3, <2>1, <2>6, AckMarked
<1>8. QED
  BY <1>4, <1>5, <1>6, <1>7 DEF RecvData

LEMMA AckStep ==
  ASSUME MaxMsgs <= HalfSpace
  PROVE  NumberInv /\ NumberInv' /\ AckInv /\ [Next]_vars /\ NoFullShift => AckInv'
<1> SUFFICES ASSUME NumberInv, NumberInv', AckInv, [Next]_vars, NoFullShift PROVE AckInv'
  OBVIOUS
<1>1. nextMsg' <= MaxMsgs /\ PromiseInv /\ (Ordered => ReceiveWindow)
  BY Bounded DEF AckInv, PromiseInv
<1>2. Ordered => StreamInv'
  <2>1. MaxMsgs + Window <= SeqMod
    BY HalfSpaceRange, ChannelAssumption, WindowFits, WindowRange
  <2>2. QED
    BY <2>1, StreamStep DEF AckInv
<1>3. ASSUME NEW p \in net, RecvData(p) PROVE PromiseInv' /\ (Ordered => ReceiveWindow')
  BY <1>3, AckRecvData
<1>4. ASSUME NEW a \in acks, RecvAck(a) PROVE PromiseInv' /\ (Ordered => ReceiveWindow')
  <2>1. PromiseInv'
    BY <1>1, <1>4, PromiseKept
  <2>2. UNCHANGED <<tracker, delivered, receiveBuffer>>
    BY <1>4 DEF RecvAck, receiverVars
  <2>3. Got' = Got /\ Buffered' = Buffered
    BY <2>2 DEF Got, DeliveredMsgs, Buffered
  <2>4. QED
    BY <1>1, <2>1, <2>2, <2>3 DEF ReceiveWindow
<1>5. CASE \/ \E cw \in CongestionWindows :
                AsyncSend(cw) \/ AsyncSendSlotTaken(cw) \/ AsyncSendEncodeFails(cw)
           \/ \E p \in sendOps : SendSucceeds(p) \/ SendFails(p)
           \/ \E due \in SUBSET Occupied : OnTick(due)
           \/ Flush
           \/ \E p \in net : Lose(p)
           \/ \E a \in acks : LoseAck(a)
           \/ UNCHANGED vars
  <2>1. UNCHANGED <<tracker, delivered, receiveBuffer, acked>> /\ acks' \subseteq acks
    BY <1>5 DEF AsyncSend, AsyncSendSlotTaken, AsyncSendEncodeFails, SendSucceeds, SendFails,
       OnTick, Flush, Lose, LoseAck, vars, senderVars, receiverVars
  <2>2. PromiseInv' /\ (Ordered => ReceiveWindow')
    BY <1>1, <2>1, AckIdle
  <2>3. QED
    BY <1>2, <2>2 DEF AckInv
<1>6. QED
  BY <1>2, <1>3, <1>4, <1>5 DEF Next, AckInv

LEMMA AckInit == Init => AckInv
<1> SUFFICES ASSUME Init PROVE AckInv
  OBVIOUS
<1>1. Got = {} /\ Buffered = {}
  BY DEF Init, Got, DeliveredMsgs, Buffered
<1>2. StreamInv
  BY StreamInit
<1>3. QED
  BY <1>1, <1>2, ChannelAssumption
     DEF Init, AckInv, PromiseInv, ReceiveWindow, NoneReceived

(* Neither a stream no longer than the ACK word nor an ordered channel     *)
(* whose window is narrower than it can make the full shift.               *)
LEMMA NeverFullShift ==
  ASSUME MaxMsgs <= HalfSpace, MaxMsgs <= AckHistory \/ (Ordered /\ Window < AckHistory),
         NumberInv, AckInv, [Next]_vars
  PROVE  NoFullShift
<1> SUFFICES ASSUME tracker.has PROVE Delta(tracker'.latest, tracker.latest) # AckHistory
  BY DEF NoFullShift
<1>1. PICK n \in Nat : n = tracker.latest /\ n < MaxMsgs
  BY DEF AckInv, PromiseInv, NumberInv, TypeOK, Trackers, Seqs
<1>2. /\ MaxMsgs \in Nat /\ AckHistory \in Nat /\ AckHistory >= 1 /\ SeqMod \in Nat
      /\ n < SeqMod /\ n \in Int /\ n - n = 0 /\ SeqMod >= 1
      /\ Window \in Nat /\ Len(delivered) \in Nat
  BY <1>1, HalfSpaceRange, ChannelAssumption, WindowRange DEF NumberInv, TypeOK
<1>3. CASE tracker' = tracker
  <2>1. n % SeqMod = n
    BY <1>2, ModSmall
  <2>2. n <= n /\ n - n < SeqMod
    BY <1>2
  <2>3. Delta(n % SeqMod, n % SeqMod) = 0
    BY <1>2, <2>2, DeltaAhead
  <2>4. QED
    BY <1>1, <1>2, <1>3, <2>1, <2>3
<1>4. ASSUME NEW p \in net,
             RecvOrderedSlotTaken(p) \/ RecvOrderedStore(p) \/ RecvUnorderedNew(p)
      PROVE  Delta(tracker'.latest, tracker.latest) # AckHistory
  <2>1. PICK m \in Nat : m = p.msg /\ m = p.seq /\ m < MaxMsgs
    BY DatagramNumber DEF AckInv, PromiseInv
  <2>2. tracker' \in markReceived(tracker, m)
    BY <1>4, <2>1 DEF RecvOrderedSlotTaken, RecvOrderedStore, RecvUnorderedNew
  <2>3. Delta(tracker'.latest, n) = IF n < m THEN m - n ELSE 0
    BY <1>1, <2>1, <2>2, MarkMoves DEF AckInv
  <2>4. n < m => m - n < AckHistory
    <3>1. CASE MaxMsgs <= AckHistory
      BY <1>2, <2>1, <3>1
    <3>2. CASE Ordered /\ Window < AckHistory
      <4>1. isInOrderedReceiveWindow(p.seq) /\ StreamInv /\ ReceiveWindow
        BY <1>4, <3>2 DEF RecvOrderedSlotTaken, RecvOrderedStore, RecvUnorderedNew, AckInv
      <4>2. m < Len(delivered) + Window
        BY <2>1, <4>1, AdmittedInWindow
      <4>3. Len(delivered) <= n + 1
        <5>1. CASE Len(delivered) = 0
          BY <1>2, <5>1
        <5>2. CASE Len(delivered) > 0
          <6>1. Len(delivered) - 1 \in 0 .. Len(delivered) - 1
            BY <1>2, <5>2
          <6>2. Len(delivered) - 1 \in Got
            BY <4>1, <6>1, DeliveredAre DEF Got
          <6>3. Len(delivered) - 1 <= n
            BY <1>1, <4>1, <6>2 DEF ReceiveWindow
          <6>4. QED
            BY <1>2, <6>3
        <5>3. QED
          BY <1>2, <5>1, <5>2
      <4>4. QED
        BY <1>2, <2>1, <3>2, <4>2, <4>3
    <3>3. QED
      BY <3>1, <3>2
  <2>5. QED
    BY <1>1, <1>2, <2>1, <2>3, <2>4
<1>5. ASSUME ~(\E p \in net :
                 RecvOrderedSlotTaken(p) \/ RecvOrderedStore(p) \/ RecvUnorderedNew(p))
      PROVE  tracker' = tracker
  BY <1>5 DEF Next, AsyncSend, AsyncSendSlotTaken, AsyncSendEncodeFails, SendSucceeds,
     SendFails, OnTick, Flush, RecvAck, RecvData, RecvOrderedOutside,
     RecvUnorderedDuplicate, Lose, LoseAck, vars, receiverVars
<1>6. QED
  BY <1>3, <1>4, <1>5

(* An ACK is a promise: what the sender forgets because of one has been    *)
(* delivered or waits in the receive buffer, on both kinds of channel and  *)
(* whatever the path does, in every run that makes no shift by the full    *)
(* width of the ACK word and that uses no more than half of the numbers.   *)
THEOREM AckSoundUnlessFullShift ==
  ASSUME MaxMsgs <= HalfSpace
  PROVE  Spec /\ [][NoFullShift]_vars => []AckSound
<1>1. NumberInv /\ NumberInv' /\ AckInv /\ [Next]_vars /\ [NoFullShift]_vars => AckInv'
  <2>1. NumberInv /\ NumberInv' /\ AckInv /\ [Next]_vars /\ NoFullShift => AckInv'
    BY AckStep
  <2>2. AckInv /\ UNCHANGED vars => AckInv'
    BY DEF AckInv, PromiseInv, StreamInv, ReceiveWindow, OrderedPrefix, Got, DeliveredMsgs,
       Buffered, vars, senderVars, receiverVars
  <2>3. QED
    BY <2>1, <2>2
<1>2. AckInv => AckSound
  BY DEF AckInv, PromiseInv, AckSound, Got
<1>3. QED
  BY <1>1, <1>2, AckInit, NumberInit, NumberStep, TypeCorrect, PTL DEF Spec

(* The same without a condition on the run: on a stream no longer than the *)
(* ACK word, and on an ordered channel whose window is narrower than it.   *)
THEOREM AckSoundCorrect ==
  ASSUME MaxMsgs <= HalfSpace, MaxMsgs <= AckHistory \/ (Ordered /\ Window < AckHistory)
  PROVE  Spec => []AckSound
<1>1. NumberInv /\ NumberInv' /\ AckInv /\ [Next]_vars => AckInv'
  BY AckStep, NeverFullShift
<1>2. AckInv => AckSound
  BY DEF AckInv, PromiseInv, AckSound, Got
<1>3. QED
  BY <1>1, <1>2, AckInit, NumberInit, NumberStep, TypeCorrect, PTL DEF Spec
=============================================================================
