--------------------- MODULE ReliableChannelWrapProofs ---------------------
(***************************************************************************)
(* The reliable channel past the wrap of its sequence numbers, for streams *)
(* of any length.  A number then no longer identifies a message; what does *)
(* is the number together with a bound on how far apart the two sides can  *)
(* be.  Two such bounds carry the proofs: the sender is at most R numbers  *)
(* ahead of the receiver, and nothing in the send window is more than K    *)
(* numbers old.  The second follows from what asyncSend does with a number *)
(* whose slot is taken: it gives it to no packet.  The first is a          *)
(* condition on the run, until it too is derived: for the runs in which no *)
(* number is used up without a packet, and for a channel that has one      *)
(* packet in flight.                                                       *)
(***************************************************************************)
EXTENDS ReliableChannelStreamProofs

(* The sender is at most R numbers ahead of what has been delivered. *)
Ahead(R) == nextMsg <= Len(delivered) + R

(* What is in the send window is at most K numbers old. *)
Recent(K) == \A x \in InWindow : nextMsg <= x + K

(* The receiver of an ordered channel: what is buffered lies in the window *)
(* and waits for the message that is due, and no datagram is older than    *)
(* the send window was when it was sent.                                   *)
LapInv(K) ==
  /\ expectedRecvSeq = Len(delivered) % SeqMod
  /\ Len(delivered) <= nextMsg
  /\ OrderedPrefix
  /\ \A x \in Buffered : Len(delivered) < x /\ x < Len(delivered) + Window
  /\ \A p \in net : p.born <= p.msg + K

(* A number that found its slot taken has no packet, anywhere. *)
Handed == InWindow \cup {p.msg : p \in sendOps \cup net} \cup Got

Skipped == \A x \in InWindow : x + Window \notin Handed

(* t is the newest message received. *)
Newest(t) == t \in Got /\ \A x \in Got : x <= t

(* The ACK word knows everything received that is not too old for it. *)
Complete == \A t \in Got : Newest(t) => WordComplete(tracker.bits, t, Got)

(* The tracker and every ACK on the path have a sound word for a message   *)
(* that is not far behind the sender.                                      *)
LapPromise(R) ==
  /\ ~tracker.has => Got = {}
  /\ tracker.has => \E t \in Got :
       Newest(t) /\ tracker.latest = t % SeqMod /\ WordSound(tracker.bits, t, Got)
  /\ \A a \in acks : \E t \in Got :
       a.ack = t % SeqMod /\ WordSound(a.bits, t, Got) /\ a.born <= t + R + 1
  /\ acked \subseteq Got

(* What the constants must leave room for *)
Reach(R, K) ==
  /\ R \in Nat /\ K \in Nat /\ K >= 1 /\ SeqMod % Window = 0
  /\ R <= SeqMod /\ Lifetime + K + Window <= SeqMod

-----------------------------------------------------------------------------
(* Slots and numbers *)

LEMMA LapSlot ==
  ASSUME SeqMod % Window = 0, NEW x \in Nat
  PROVE  slotIndex(x % SeqMod) = slotIndex(x) /\ slotIndex(x) \in Slots
<1>1. Window \in Nat /\ Window >= 1 /\ x \in Int
  BY WindowRange
<1>2. (x % SeqMod) % Window = x % Window
  BY <1>1, RingAcrossWrap
<1>3. QED
  BY <1>2, SlotIndexRange DEF slotIndex

(* Messages a window apart share a slot. *)
LEMMA SlotPeriod ==
  ASSUME NEW x \in Nat
  PROVE  slotIndex(x + Window) = slotIndex(x)
<1>1. /\ Window \in Nat /\ Window >= 1 /\ x \in Int
      /\ x \div Window \in Int /\ x % Window \in 0 .. Window - 1
      /\ x = Window * (x \div Window) + (x % Window)
  BY WindowRange, ModDiv
<1>2. PICK q \in Int, r \in 0 .. Window - 1 : x = Window * q + r /\ r = x % Window
  BY <1>1
<1>3. x + Window = Window * (q + 1) + r /\ q + 1 \in Int
  BY <1>1, <1>2
<1>4. (Window * (q + 1) + r) % Window = r
  BY <1>1, <1>3, ModUnique
<1>5. QED
  BY <1>2, <1>3, <1>4 DEF slotIndex

(* A sound ring has every message in the slot of its true index. *)
LEMMA LapRing ==
  ASSUME SeqMod % Window = 0,
         NEW ring \in [Slots -> SlotContents], NEW n \in Nat, RingSound(ring, n),
         NEW i \in Slots, ring[i] # NoPacket
  PROVE  /\ ring[i].msg \in Nat /\ ring[i].msg < n
         /\ ring[i].seq = ring[i].msg % SeqMod /\ slotIndex(ring[i].msg) = i
<1>1. ring[i].msg \in Nat /\ Numbered(ring[i], n) /\ slotIndex(ring[i].seq) = i
  BY SlotPacket DEF RingSound, Packets
<1>2. slotIndex(ring[i].msg % SeqMod) = slotIndex(ring[i].msg)
  BY <1>1, LapSlot
<1>3. QED
  BY <1>1, <1>2 DEF Numbered

(* The i-th upcoming number is that of message Len(delivered) + i. *)
LEMMA LapUpcoming ==
  ASSUME SeqMod % Window = 0, NumberInv, expectedRecvSeq = Len(delivered) % SeqMod,
         NEW i \in Nat
  PROVE  /\ Upcoming(i) = (Len(delivered) + i) % SeqMod
         /\ slotIndex(Upcoming(i)) = slotIndex(Len(delivered) + i)
         /\ Len(delivered) + i \in Nat
<1>1. PICK n \in Nat : n = Len(delivered)
  BY DEF NumberInv, TypeOK
<1>2. SeqMod \in Nat /\ SeqMod >= 1 /\ n \in Int /\ i \in Int /\ n + i \in Nat
  BY HalfSpaceRange
<1>3. ((n % SeqMod) + i) % SeqMod = (n + i) % SeqMod
  BY <1>2, ModAdd
<1>4. slotIndex((n + i) % SeqMod) = slotIndex(n + i)
  BY <1>2, LapSlot
<1>5. QED
  BY <1>1, <1>2, <1>3, <1>4 DEF Upcoming

(* What the path and the rings hold has been given a number. *)
LEMMA LapKnown ==
  ASSUME NumberInv
  PROVE  /\ nextMsg \in Nat /\ Len(delivered) \in Nat /\ delivered \in Seq(Nat)
         /\ \A p \in net : /\ p.msg \in Nat /\ p.born \in Nat /\ p.msg < nextMsg
                           /\ p.seq = p.msg % SeqMod
         /\ \A x \in Buffered : x \in Nat /\ x < nextMsg
<1>1. nextMsg \in Nat /\ Len(delivered) \in Nat /\ delivered \in Seq(Nat)
  BY DEF NumberInv, TypeOK
<1>2. ASSUME NEW p \in net
      PROVE  p.msg \in Nat /\ p.born \in Nat /\ p.msg < nextMsg /\ p.seq = p.msg % SeqMod
  BY DEF NumberInv, TypeOK, NumbersSound, Numbered, Datagrams
<1>3. ASSUME NEW x \in Buffered PROVE x \in Nat /\ x < nextMsg
  <2>1. PICK i \in Slots : receiveBuffer[i] # NoPacket /\ x = receiveBuffer[i].msg
    BY DEF Buffered
  <2>2. receiveBuffer[i].msg \in Nat /\ Numbered(receiveBuffer[i], nextMsg)
    BY <2>1, SlotPacket DEF NumberInv, TypeOK, NumbersSound, RingSound, Packets
  <2>3. QED
    BY <2>1, <2>2 DEF Numbered
<1>4. QED
  BY <1>1, <1>2, <1>3

(* A datagram that still arrives is no older than its lifetime and what    *)
(* the send window held when it was sent.                                  *)
LEMMA LapFresh ==
  ASSUME NumberInv, NEW K \in Nat, NEW p \in net, p.born <= p.msg + K, Fresh(p)
  PROVE  nextMsg <= p.msg + K + Lifetime
<1>1. /\ nextMsg \in Nat /\ p.msg \in Nat /\ p.born \in Nat /\ Lifetime \in Nat
      /\ nextMsg - p.born <= Lifetime
  BY LapKnown, ChannelAssumption DEF Fresh
<1>2. QED
  BY <1>1

(* The window test admits the messages of the window. *)
LEMMA LapAdmitted ==
  ASSUME NEW R, NEW K, Reach(R, K), NumberInv, LapInv(K), Ahead(R),
         NEW p \in net, Fresh(p), isInOrderedReceiveWindow(p.seq)
  PROVE  Len(delivered) <= p.msg /\ p.msg < Len(delivered) + Window
<1>1. PICK m \in Nat : m = p.msg /\ m < nextMsg /\ p.seq = m % SeqMod
  BY LapKnown
<1>2. PICK n \in Nat : n = Len(delivered) /\ expectedRecvSeq = n % SeqMod /\ n <= nextMsg
  BY LapKnown DEF LapInv
<1>3. /\ R \in Nat /\ K \in Nat /\ R <= SeqMod /\ Lifetime + K + Window <= SeqMod
      /\ SeqMod \in Nat /\ Window \in Nat /\ Lifetime \in Nat /\ nextMsg \in Nat
      /\ m \in Int /\ n \in Int
  BY HalfSpaceRange, WindowRange, ChannelAssumption, LapKnown DEF Reach
<1>4. nextMsg <= m + K + Lifetime
  BY <1>1, <1>3, LapFresh DEF LapInv
<1>5. nextMsg <= n + R
  BY <1>2 DEF Ahead
<1>6. Delta(m % SeqMod, n % SeqMod) < Window
  BY <1>1, <1>2 DEF isInOrderedReceiveWindow
<1>7. CASE n <= m
  <2>1. m - n < SeqMod
    BY <1>1, <1>3, <1>5
  <2>2. Delta(m % SeqMod, n % SeqMod) = m - n
    BY <1>3, <1>7, <2>1, DeltaAhead
  <2>3. QED
    BY <1>1, <1>2, <1>3, <1>6, <1>7, <2>2
<1>8. CASE m < n
  <2>1. n - m <= Lifetime + K
    BY <1>2, <1>3, <1>4
  <2>2. n - m < SeqMod
    BY <1>3, <2>1, WindowRange
  <2>3. Delta(m % SeqMod, n % SeqMod) = SeqMod - (n - m)
    BY <1>3, <1>8, <2>2, DeltaBehind
  <2>4. QED
    BY <1>3, <1>6, <2>1, <2>3
<1>9. QED
  BY <1>3, <1>7, <1>8

(* What the buffer holds is in the slot of its true index. *)
LEMMA LapBuffer ==
  ASSUME NEW K, SeqMod % Window = 0, NumberInv, LapInv(K), NEW i \in Slots, receiveBuffer[i] # NoPacket
  PROVE  /\ receiveBuffer[i].msg \in Buffered /\ slotIndex(receiveBuffer[i].msg) = i
         /\ receiveBuffer[i].seq = receiveBuffer[i].msg % SeqMod
<1>1. /\ receiveBuffer \in [Slots -> SlotContents] /\ RingSound(receiveBuffer, nextMsg)
      /\ nextMsg \in Nat
  BY DEF NumberInv, TypeOK, NumbersSound
<1>2. QED
  BY <1>1, LapRing DEF Buffered

(* A message that finds its slot taken is in it already. *)
LEMMA LapTaken ==
  ASSUME NEW R, NEW K, Reach(R, K), NumberInv, LapInv(K), Ahead(R),
         NEW p \in net, Fresh(p), isInOrderedReceiveWindow(p.seq),
         receiveBuffer[slotIndex(p.seq)] # NoPacket
  PROVE  p.msg \in Buffered
<1>1. PICK m \in Nat : m = p.msg /\ p.seq = m % SeqMod
  BY LapKnown
<1>2. slotIndex(p.seq) = slotIndex(m) /\ slotIndex(m) \in Slots
  BY <1>1, LapSlot DEF Reach
<1>3. PICK x : x = receiveBuffer[slotIndex(m)].msg
  OBVIOUS
<1>4. x \in Buffered /\ slotIndex(x) = slotIndex(m)
  BY <1>2, <1>3, LapBuffer DEF Reach
<1>5. x \in Nat /\ Len(delivered) \in Nat
  BY <1>4, LapKnown
<1>6. Len(delivered) <= x /\ x < Len(delivered) + Window
  BY <1>4, <1>5 DEF LapInv
<1>7. Len(delivered) <= m /\ m < Len(delivered) + Window
  BY <1>1, LapAdmitted
<1>8. x = m
  BY <1>4, <1>5, <1>6, <1>7, OneWindow
<1>9. QED
  BY <1>1, <1>4, <1>8

(* What the buffer holds once p has been put in its free slot *)
LEMMA LapStored ==
  ASSUME NEW R, NEW K, Reach(R, K), NumberInv, LapInv(K), Ahead(R),
         NEW p \in net, Fresh(p), isInOrderedReceiveWindow(p.seq),
         receiveBuffer[slotIndex(p.seq)] = NoPacket
  PROVE  /\ \A i \in Slots : Stored(p)[i] # NoPacket =>
              /\ Stored(p)[i].msg \in Buffered \cup {p.msg}
              /\ slotIndex(Stored(p)[i].msg) = i
              /\ Stored(p)[i].seq = Stored(p)[i].msg % SeqMod
         /\ \A x \in Buffered \cup {p.msg} :
              /\ x \in Nat /\ Len(delivered) <= x /\ x < Len(delivered) + Window
              /\ slotIndex(x) \in Slots
              /\ Stored(p)[slotIndex(x)] # NoPacket /\ Stored(p)[slotIndex(x)].msg = x
<1>1. PICK m \in Nat : m = p.msg /\ p.seq = m % SeqMod
  BY LapKnown
<1>2. slotIndex(p.seq) = slotIndex(m) /\ slotIndex(m) \in Slots
  BY <1>1, LapSlot DEF Reach
<1>3. receiveBuffer \in [Slots -> SlotContents] /\ nextMsg \in Nat /\ SeqMod % Window = 0
  BY DEF NumberInv, TypeOK, Reach
<1>4. [seq |-> p.seq, msg |-> p.msg] # NoPacket
  BY ChannelAssumption DEF NumberInv, TypeOK, Datagrams, Packets
<1>5. PICK ring : ring = Stored(p)
  OBVIOUS
<1>6. /\ ring[slotIndex(m)] # NoPacket /\ ring[slotIndex(m)].msg = m
      /\ \A i \in Slots : i # slotIndex(m) => ring[i] = receiveBuffer[i]
  BY <1>1, <1>2, <1>3, <1>4, <1>5 DEF Stored
<1>7. ring \in [Slots -> SlotContents] /\ RingSound(ring, nextMsg)
  BY <1>5, StoredSound
<1>8. ASSUME NEW i \in Slots, ring[i] # NoPacket
      PROVE  /\ ring[i].msg \in Buffered \cup {m} /\ slotIndex(ring[i].msg) = i
             /\ ring[i].seq = ring[i].msg % SeqMod
  <2>1. slotIndex(ring[i].msg) = i /\ ring[i].seq = ring[i].msg % SeqMod
    BY <1>3, <1>7, <1>8, LapRing
  <2>2. ring[i].msg \in Buffered \cup {m}
    BY <1>6, <1>8 DEF Buffered
  <2>3. QED
    BY <2>1, <2>2
<1>9. ASSUME NEW x \in Buffered \cup {m}
      PROVE  /\ x \in Nat /\ Len(delivered) <= x /\ x < Len(delivered) + Window
             /\ slotIndex(x) \in Slots
             /\ ring[slotIndex(x)] # NoPacket /\ ring[slotIndex(x)].msg = x
  <2>1. CASE x = m
    <3>1. Len(delivered) <= m /\ m < Len(delivered) + Window
      BY <1>1, LapAdmitted
    <3>2. QED
      BY <1>2, <1>6, <2>1, <3>1
  <2>2. CASE x \in Buffered
    <3>1. PICK i \in Slots : receiveBuffer[i] # NoPacket /\ x = receiveBuffer[i].msg
      BY <2>2 DEF Buffered
    <3>2. slotIndex(x) = i
      BY <1>3, <3>1, LapBuffer
    <3>3. i # slotIndex(m)
      BY <1>2, <3>1
    <3>4. ring[i] = receiveBuffer[i]
      BY <1>6, <3>3
    <3>5. x \in Nat /\ Len(delivered) \in Nat
      BY <2>2, LapKnown
    <3>6. Len(delivered) < x /\ x < Len(delivered) + Window
      BY <2>2 DEF LapInv
    <3>7. Len(delivered) <= x
      BY <3>5, <3>6
    <3>8. QED
      BY <3>1, <3>2, <3>4, <3>5, <3>6, <3>7
  <2>3. QED
    BY <2>1, <2>2
<1>10. QED
  BY <1>1, <1>5, <1>8, <1>9

(* What is ready is what is due and has been received. *)
LEMMA LapReady ==
  ASSUME NEW R, NEW K, Reach(R, K), NumberInv, LapInv(K), Ahead(R),
         NEW p \in net, Fresh(p), isInOrderedReceiveWindow(p.seq),
         receiveBuffer[slotIndex(p.seq)] = NoPacket,
         NEW i \in Nat, i < Window
  PROVE  /\ Ready(Stored(p), i) <=> Len(delivered) + i \in Buffered \cup {p.msg}
         /\ Ready(Stored(p), i) =>
              Stored(p)[slotIndex(Upcoming(i))].msg = Len(delivered) + i
<1>1. PICK L \in Nat : L = Len(delivered) /\ expectedRecvSeq = L % SeqMod
  BY LapKnown DEF LapInv
<1>2. PICK x \in Nat : x = L + i /\ L <= x /\ x < L + Window
  BY <1>1, WindowRange
<1>3. Upcoming(i) = x % SeqMod /\ slotIndex(Upcoming(i)) = slotIndex(x)
  BY <1>1, <1>2, LapUpcoming DEF Reach
<1>4. slotIndex(x) \in Slots
  BY SlotIndexRange
<1>5. PICK ring : ring = Stored(p)
  OBVIOUS
<1>6. PICK B : B = Buffered \cup {p.msg}
  OBVIOUS
<1>7. \A j \in Slots : ring[j] # NoPacket =>
        /\ ring[j].msg \in B /\ slotIndex(ring[j].msg) = j
        /\ ring[j].seq = ring[j].msg % SeqMod
  BY <1>5, <1>6, LapStored
<1>8. \A y \in B : /\ y \in Nat /\ L <= y /\ y < L + Window /\ slotIndex(y) \in Slots
                   /\ ring[slotIndex(y)] # NoPacket /\ ring[slotIndex(y)].msg = y
  BY <1>1, <1>5, <1>6, LapStored
<1>9. ASSUME Ready(ring, i) PROVE ring[slotIndex(x)].msg = x /\ x \in B
  <2>1. ring[slotIndex(x)] # NoPacket
    BY <1>3, <1>9 DEF Ready
  <2>2. PICK y : y = ring[slotIndex(x)].msg
    OBVIOUS
  <2>3. y \in B /\ slotIndex(y) = slotIndex(x)
    BY <1>4, <1>7, <2>1, <2>2
  <2>4. y \in Nat /\ L <= y /\ y < L + Window
    BY <1>8, <2>3
  <2>5. y = x
    BY <1>2, <2>3, <2>4, OneWindow
  <2>6. QED
    BY <2>2, <2>3, <2>5
<1>10. ASSUME x \in B PROVE Ready(ring, i)
  <2>1. ring[slotIndex(x)] # NoPacket /\ ring[slotIndex(x)].msg = x
    BY <1>8, <1>10
  <2>2. ring[slotIndex(x)].seq = x % SeqMod
    BY <1>4, <1>7, <2>1
  <2>3. QED
    BY <1>3, <2>1, <2>2 DEF Ready
<1>11. QED
  BY <1>1, <1>2, <1>3, <1>5, <1>6, <1>9, <1>10

(* A store delivers the run of messages that are due, empties their slots  *)
(* and keeps the others.                                                   *)
LEMMA LapStore ==
  ASSUME NEW R, NEW K, Reach(R, K), NumberInv, LapInv(K), Ahead(R),
         NEW p \in net, RecvOrderedStore(p)
  PROVE  /\ expectedRecvSeq' = Len(delivered') % SeqMod
         /\ Len(delivered') <= nextMsg'
         /\ OrderedPrefix'
         /\ \A x \in Buffered' : Len(delivered') < x /\ x < Len(delivered') + Window
         /\ Got' = Got \cup {p.msg}
         /\ Stream!Deliver \/ UNCHANGED <<nextMsg, delivered>>
<1>1. /\ Fresh(p) /\ isInOrderedReceiveWindow(p.seq)
      /\ receiveBuffer[slotIndex(p.seq)] = NoPacket
      /\ drainReadyPackets(Stored(p)) /\ nextMsg' = nextMsg
  BY DEF RecvOrderedStore, Stored, senderVars
<1>2. PICK ring : ring = Stored(p)
  OBVIOUS
<1>3. PICK B : B = Buffered \cup {p.msg}
  OBVIOUS
<1>4. PICK L \in Nat : L = Len(delivered) /\ expectedRecvSeq = L % SeqMod
  BY LapKnown DEF LapInv
<1>5. drainReadyPackets(ring)
  BY <1>1, <1>2
<1>6. PICK n \in 0 .. Window :
        /\ Drains(ring, n)
        /\ delivered' = delivered \o [i \in 1 .. n |-> ring[slotIndex(Upcoming(i - 1))].msg]
        /\ receiveBuffer' = Emptied(ring, {slotIndex(Upcoming(i)) : i \in 0 .. n - 1})
        /\ expectedRecvSeq' = Upcoming(n)
  BY <1>5, Zenon DEF drainReadyPackets
<1>7. /\ n \in Nat /\ n <= Window /\ Window \in Nat /\ nextMsg \in Nat
      /\ delivered \in Seq(Nat) /\ L <= nextMsg /\ L + n \in Nat
  BY <1>4, WindowRange, LapKnown DEF LapInv
<1>8. \A j \in Slots : ring[j] # NoPacket => ring[j].msg \in B /\ slotIndex(ring[j].msg) = j
  BY <1>1, <1>2, <1>3, LapStored
<1>9. \A x \in B : /\ x \in Nat /\ L <= x /\ x < L + Window /\ slotIndex(x) \in Slots
                   /\ ring[slotIndex(x)] # NoPacket /\ ring[slotIndex(x)].msg = x
  BY <1>1, <1>2, <1>3, <1>4, LapStored
<1>10. \A x \in B : x < nextMsg
  BY <1>3, LapKnown
<1>11. ASSUME NEW i \in 0 .. n - 1
       PROVE  /\ ring[slotIndex(Upcoming(i))].msg = L + i /\ L + i \in B
              /\ slotIndex(Upcoming(i)) = slotIndex(L + i)
  <2>1. i \in Nat /\ i < Window /\ Ready(ring, i)
    BY <1>6, <1>7 DEF Drains
  <2>2. ring[slotIndex(Upcoming(i))].msg = L + i /\ L + i \in B
    BY <1>1, <1>2, <1>3, <1>4, <2>1, LapReady
  <2>3. slotIndex(Upcoming(i)) = slotIndex(L + i)
    BY <1>4, <2>1, LapUpcoming DEF Reach
  <2>4. QED
    BY <2>2, <2>3
<1>12. L + n \notin B
  <2>1. CASE n = Window
    BY <1>7, <1>9, <2>1
  <2>2. CASE n < Window
    <3>1. ~Ready(ring, n)
      BY <1>6, <2>2 DEF Drains
    <3>2. QED
      BY <1>1, <1>2, <1>3, <1>4, <1>7, <2>2, <3>1, LapReady
  <2>3. QED
    BY <1>7, <2>1, <2>2
(* what is delivered *)
<1> DEFINE run == [i \in 1 .. n |-> L + i - 1]
<1>13. [i \in 1 .. n |-> ring[slotIndex(Upcoming(i - 1))].msg] = run
  <2>1. ASSUME NEW i \in 1 .. n
        PROVE  ring[slotIndex(Upcoming(i - 1))].msg = L + i - 1
    <3>1. i - 1 \in 0 .. n - 1 /\ L + (i - 1) = L + i - 1
      BY <1>7
    <3>2. QED
      BY <1>11, <3>1
  <2>2. QED
    BY <2>1
<1>14. delivered' = delivered \o run
  BY <1>6, <1>13
<1>15. L + n <= nextMsg
  <2>1. CASE n = 0
    BY <1>7, <2>1
  <2>2. CASE n > 0
    <3>1. n - 1 \in 0 .. n - 1
      BY <1>7, <2>2
    <3>2. L + (n - 1) < nextMsg
      BY <1>10, <1>11, <3>1
    <3>3. QED
      BY <1>7, <3>2
  <2>3. QED
    BY <1>7, <2>1, <2>2
<1>16. run \in Seq(Nat) /\ Len(run) = n
  BY <1>7
<1>17. Len(delivered') = L + n
  BY <1>4, <1>7, <1>14, <1>16
<1>18. OrderedPrefix'
  <2>1. ASSUME NEW i \in 1 .. L
        PROVE  delivered'[i] = i - 1
    BY <1>4, <1>7, <1>14, <1>16 DEF LapInv, OrderedPrefix
  <2>2. ASSUME NEW i \in 1 .. L + n, i > L
        PROVE  delivered'[i] = i - 1
    <3>1. i - L \in 1 .. n
      BY <1>7, <2>2
    <3>2. delivered'[i] = run[i - L]
      BY <1>4, <1>7, <1>14, <1>16, <2>2
    <3>3. run[i - L] = L + (i - L) - 1
      BY <3>1
    <3>4. QED
      BY <1>7, <3>2, <3>3
  <2>3. QED
    BY <1>7, <1>17, <2>1, <2>2 DEF OrderedPrefix
<1>19. Stream!Deliver \/ UNCHANGED <<nextMsg, delivered>>
  <2>1. CASE n = 0
    BY <1>1, <1>7, <1>14, <2>1
  <2>2. CASE n # 0
    <3>1. n \in 1 .. nextMsg - L
      BY <1>7, <1>15, <2>2
    <3>2. QED
      BY <1>1, <1>4, <1>14, <3>1 DEF Stream!Deliver
  <2>3. QED
    BY <2>1, <2>2
<1> HIDE DEF run
(* what is kept *)
<1>20. PICK emptied : emptied = {slotIndex(L + i) : i \in 0 .. n - 1}
  OBVIOUS
<1>21. receiveBuffer' = Emptied(ring, emptied)
  BY <1>6, <1>11, <1>20
<1>22. ASSUME NEW x \in B
       PROVE  slotIndex(x) \in emptied <=> x < L + n
  <2>1. x \in Nat /\ L <= x /\ x < L + Window
    BY <1>9
  <2>2. ASSUME x < L + n PROVE slotIndex(x) \in emptied
    <3>1. x - L \in 0 .. n - 1 /\ L + (x - L) = x
      BY <1>7, <2>1, <2>2
    <3>2. QED
      BY <1>20, <3>1
  <2>3. ASSUME slotIndex(x) \in emptied PROVE x < L + n
    <3>1. PICK i \in 0 .. n - 1 : slotIndex(x) = slotIndex(L + i)
      BY <1>20, <2>3
    <3>2. L + i \in Nat /\ L <= L + i /\ L + i < L + Window /\ L + i < L + n
      BY <1>7
    <3>3. x = L + i
      BY <2>1, <3>1, <3>2, OneWindow
    <3>4. QED
      BY <3>2, <3>3
  <2>4. QED
    BY <2>2, <2>3
<1>23. Buffered' = {x \in B : ~(x < L + n)}
  <2>1. \A i \in Slots : receiveBuffer'[i] = IF i \in emptied THEN NoPacket ELSE ring[i]
    BY <1>21 DEF Emptied
  <2>2. ASSUME NEW x \in Buffered' PROVE x \in B /\ ~(x < L + n)
    <3>1. PICK i \in Slots : receiveBuffer'[i] # NoPacket /\ x = receiveBuffer'[i].msg
      BY <2>2 DEF Buffered
    <3>2. i \notin emptied /\ ring[i] # NoPacket /\ x = ring[i].msg
      BY <2>1, <3>1
    <3>3. x \in B /\ slotIndex(x) = i
      BY <1>8, <3>2
    <3>4. QED
      BY <1>22, <3>2, <3>3
  <2>3. ASSUME NEW x \in B, ~(x < L + n) PROVE x \in Buffered'
    <3>1. slotIndex(x) \notin emptied
      BY <1>22, <2>3
    <3>2. slotIndex(x) \in Slots /\ receiveBuffer'[slotIndex(x)] = ring[slotIndex(x)]
      BY <1>9, <2>1, <3>1
    <3>3. receiveBuffer'[slotIndex(x)] # NoPacket /\ receiveBuffer'[slotIndex(x)].msg = x
      BY <1>9, <3>2
    <3>4. QED
      BY <3>2, <3>3 DEF Buffered
  <2>4. QED
    BY <2>2, <2>3
<1>24. \A x \in Buffered' : L + n < x /\ x < L + n + Window
  <2>1. TAKE x \in Buffered'
  <2>2. x \in B /\ ~(x < L + n) /\ x # L + n
    BY <1>12, <1>23
  <2>3. x \in Nat /\ x < L + Window
    BY <1>9, <2>2
  <2>4. QED
    BY <1>7, <2>2, <2>3
<1>25. DeliveredMsgs = 0 .. L - 1 /\ DeliveredMsgs' = 0 .. L + n - 1
  <2>1. DeliveredMsgs = 0 .. L - 1
    BY <1>4, <1>7, PrefixDelivers DEF LapInv
  <2>2. (delivered \in Seq(Nat))'
    BY <1>7, <1>14, <1>16
  <2>3. (DeliveredMsgs = 0 .. Len(delivered) - 1)'
    BY <1>18, <2>2, PrefixDelivers, PTL
  <2>4. QED
    BY <1>17, <2>1, <2>3
<1>26. Got' = Got \cup {p.msg}
  <2>1. Got' = 0 .. L + n - 1 \cup {x \in B : ~(x < L + n)}
    BY <1>23, <1>25 DEF Got
  <2>2. Got \cup {p.msg} = 0 .. L - 1 \cup B
    BY <1>3, <1>25 DEF Got
  <2>3. ASSUME NEW x \in 0 .. L + n - 1 PROVE x \in 0 .. L - 1 \cup B
    <3>1. CASE x < L
      BY <1>7, <3>1
    <3>2. CASE L <= x
      <4>1. x - L \in 0 .. n - 1 /\ L + (x - L) = x
        BY <1>7, <3>2
      <4>2. QED
        BY <1>11, <4>1
    <3>3. QED
      BY <1>7, <3>1, <3>2
  <2>4. ASSUME NEW x \in B PROVE x \in 0 .. L + n - 1 \/ ~(x < L + n)
    BY <1>7, <1>9
  <2>5. 0 .. L - 1 \subseteq 0 .. L + n - 1
    BY <1>7
  <2>6. QED
    BY <2>1, <2>2, <2>3, <2>4, <2>5
<1>27. expectedRecvSeq' = (L + n) % SeqMod
  BY <1>4, <1>6, <1>7, LapUpcoming DEF Reach
<1>28. QED
  BY <1>1, <1>15, <1>17, <1>18, <1>19, <1>24, <1>26, <1>27

-----------------------------------------------------------------------------
(* Steps of an ordered channel *)

(* What is sent again was in the send window, and what is sent for the     *)
(* first time is new: no datagram is older than K numbers when it is sent. *)
LEMMA BornTransmit ==
  ASSUME NEW K \in Nat, \A p \in net : p.born <= p.msg + K,
         NEW ps, NEW now \in Nat, \A p \in ps : p.msg \in Nat /\ now <= p.msg + K,
         Transmit(ps, now)
  PROVE  \A p \in net' : p.born <= p.msg + K
<1>1. Stamp(now) = 0 \/ Stamp(now) = now
  BY DEF Stamp
<1>2. net' \subseteq net \cup {[seq |-> p.seq, msg |-> p.msg, born |-> Stamp(now)] : p \in ps}
  BY IntoSubset DEF Transmit
<1>3. ASSUME NEW p \in ps PROVE Stamp(now) <= p.msg + K
  BY <1>1
<1>4. QED
  BY <1>2, <1>3

(* What the send window holds has been given a number. *)
LEMMA WindowKnown ==
  ASSUME NumberInv, NEW i \in Occupied
  PROVE  /\ i \in Slots /\ sentPackets[i] # NoPacket /\ sentPackets[i].msg \in InWindow
         /\ sentPackets[i].msg \in Nat /\ sentPackets[i].msg < nextMsg
         /\ sentPackets[i].seq = sentPackets[i].msg % SeqMod
         /\ slotIndex(sentPackets[i].seq) = i
<1>1. i \in Slots /\ sentPackets[i] # NoPacket /\ sentPackets[i].msg \in InWindow
  BY DEF Occupied, InWindow
<1>2. sentPackets[i].msg \in Nat /\ Numbered(sentPackets[i], nextMsg)
      /\ slotIndex(sentPackets[i].seq) = i
  BY <1>1, SlotPacket DEF NumberInv, TypeOK, NumbersSound, RingSound, Packets
<1>3. QED
  BY <1>1, <1>2 DEF Numbered

LEMMA BornStep ==
  ASSUME NEW K \in Nat, K >= 1, NumberInv, Recent(K), \A p \in net : p.born <= p.msg + K,
         [Next]_vars
  PROVE  \A p \in net' : p.born <= p.msg + K
<1>1. ASSUME net' \subseteq net PROVE \A p \in net' : p.born <= p.msg + K
  BY <1>1
<1>2. ASSUME NEW p \in sendOps, SendSucceeds(p)
      PROVE  \A q \in net' : q.born <= q.msg + K
  <2>1. p.msg \in Nat /\ p.msg + 1 \in Nat
    BY DEF NumberInv, TypeOK, Packets
  <2>2. \A q \in {p} : q.msg \in Nat /\ p.msg + 1 <= q.msg + K
    BY <2>1
  <2>3. Transmit({p}, p.msg + 1)
    BY <1>2 DEF SendSucceeds
  <2>4. QED
    BY <2>1, <2>2, <2>3, BornTransmit
<1>3. ASSUME NEW due \in SUBSET Occupied, Transmit({sentPackets[i] : i \in due}, nextMsg)
      PROVE  \A q \in net' : q.born <= q.msg + K
  <2>1. nextMsg \in Nat
    BY DEF NumberInv, TypeOK
  <2>2. \A q \in {sentPackets[i] : i \in due} : q.msg \in Nat /\ nextMsg <= q.msg + K
    BY WindowKnown DEF Recent
  <2>3. QED
    BY <1>3, <2>1, <2>2, BornTransmit
<1>4. CASE \/ \E due \in SUBSET Occupied : OnTick(due)
           \/ Flush
  <2>1. \E due \in SUBSET Occupied : Transmit({sentPackets[i] : i \in due}, nextMsg)
    BY <1>4 DEF OnTick, Flush
  <2>2. QED
    BY <1>3, <2>1
<1>5. CASE \/ \E cw \in CongestionWindows :
                AsyncSend(cw) \/ AsyncSendSlotTaken(cw) \/ AsyncSendEncodeFails(cw)
           \/ \E p \in sendOps : SendFails(p)
           \/ \E p \in net : RecvData(p) \/ Lose(p)
           \/ \E a \in acks : RecvAck(a) \/ LoseAck(a)
           \/ UNCHANGED vars
  <2>1. net' \subseteq net
    BY <1>5 DEF AsyncSend, AsyncSendSlotTaken, AsyncSendEncodeFails, SendFails, RecvData,
       RecvOrderedOutside, RecvOrderedSlotTaken, RecvOrderedStore, RecvUnorderedDuplicate,
       RecvUnorderedNew, Lose, RecvAck, LoseAck, vars
  <2>2. QED
    BY <1>1, <2>1
<1>6. QED
  BY <1>2, <1>4, <1>5 DEF Next

(* Every step of an ordered channel is a step of the stream, or none. *)
LEMMA LapStep ==
  ASSUME Ordered, NEW R, NEW K, Reach(R, K), NumberInv, LapInv(K), Ahead(R), Recent(K),
         [Next]_vars
  PROVE  /\ LapInv(K)' /\ [Stream!Next]_(Stream!vars)
         /\ Got' \subseteq Got \cup {p.msg : p \in net}
<1>1. \A p \in net' : p.born <= p.msg + K
  BY BornStep DEF Reach, LapInv
<1>2. ASSUME NEW cw \in CongestionWindows,
             AsyncSend(cw) \/ AsyncSendSlotTaken(cw) \/ AsyncSendEncodeFails(cw)
      PROVE  LapInv(K)' /\ Stream!Issue /\ Got' = Got
  <2>1. /\ nextMsg \in Nat /\ Len(delivered) \in Nat /\ nextMsg' = nextMsg + 1
        /\ UNCHANGED <<expectedRecvSeq, delivered, receiveBuffer>>
    BY <1>2 DEF NumberInv, TypeOK, AsyncSend, AsyncSendSlotTaken,
       AsyncSendEncodeFails, TakeSequenceNumber, receiverVars
  <2>2. Buffered' = Buffered /\ Got' = Got
    BY <2>1 DEF Buffered, Got, DeliveredMsgs
  <2>3. LapInv(K)'
    BY <1>1, <2>1, <2>2 DEF LapInv, OrderedPrefix
  <2>4. QED
    BY <2>1, <2>2, <2>3 DEF Stream!Issue
<1>3. ASSUME UNCHANGED <<nextMsg, expectedRecvSeq, delivered, receiveBuffer>>
      PROVE  LapInv(K)' /\ UNCHANGED <<nextMsg, delivered>> /\ Got' = Got
  <2>1. Buffered' = Buffered /\ Got' = Got
    BY <1>3 DEF Buffered, Got, DeliveredMsgs
  <2>2. LapInv(K)'
    BY <1>1, <1>3, <2>1 DEF LapInv, OrderedPrefix
  <2>3. QED
    BY <1>3, <2>1, <2>2
<1>4. ASSUME NEW p \in net, RecvOrderedStore(p)
      PROVE  /\ LapInv(K)' /\ (Stream!Deliver \/ UNCHANGED <<nextMsg, delivered>>)
             /\ Got' = Got \cup {p.msg}
  BY <1>1, <1>4, LapStore DEF LapInv
<1>5. CASE \/ \E p \in sendOps : SendSucceeds(p) \/ SendFails(p)
           \/ \E due \in SUBSET Occupied : OnTick(due)
           \/ Flush
           \/ \E p \in net : RecvOrderedOutside(p) \/ RecvOrderedSlotTaken(p) \/ Lose(p)
           \/ \E a \in acks : RecvAck(a) \/ LoseAck(a)
           \/ UNCHANGED vars
  <2>1. UNCHANGED <<nextMsg, expectedRecvSeq, delivered, receiveBuffer>>
    BY <1>5 DEF SendSucceeds, SendFails, OnTick, Flush, RecvOrderedOutside,
       RecvOrderedSlotTaken, Lose, RecvAck, LoseAck, vars, senderVars, receiverVars
  <2>2. QED
    BY <1>3, <2>1 DEF Stream!vars
<1>6. ASSUME NEW p \in net
      PROVE  ~RecvUnorderedDuplicate(p) /\ ~RecvUnorderedNew(p)
  BY DEF RecvUnorderedDuplicate, RecvUnorderedNew
<1>7. QED
  BY <1>2, <1>4, <1>5, <1>6 DEF Next, RecvData, Stream!Next, Stream!vars

(* A number is handed out in vain while its slot is taken, and a number    *)
(* that has been skipped is never sent.                                    *)
LEMMA SkippedStep ==
  ASSUME SeqMod % Window = 0, NumberInv, Skipped, [Next]_vars,
         \A x \in Got : x < nextMsg,
         Got' \subseteq Got \cup {p.msg : p \in net}
  PROVE  Skipped'
<1>1. /\ nextMsg \in Nat /\ Window \in Nat /\ Window >= 1 /\ nextSeq = nextMsg % SeqMod
      /\ nextMsg + Window \in Nat
  BY WindowRange DEF NumberInv, TypeOK, NumbersSound
<1>2. \A x \in Handed : x < nextMsg
  <2>1. \A x \in InWindow : x < nextMsg
    BY WindowKnown DEF InWindow
  <2>2. \A p \in sendOps \cup net : p.msg < nextMsg
    BY DEF NumberInv, NumbersSound, Numbered
  <2>3. QED
    BY <2>1, <2>2 DEF Handed
<1>3. ASSUME NEW cw \in CongestionWindows, AsyncSend(cw)
      PROVE  Skipped'
  <2> DEFINE packet == [seq |-> nextSeq, msg |-> nextMsg]
             slot   == slotIndex(nextSeq)
  <2>1. /\ sentPackets[slot] = NoPacket
        /\ sentPackets' = [sentPackets EXCEPT ![slot] = packet]
        /\ sendOps' = sendOps \cup {packet} /\ net' = net
        /\ delivered' = delivered /\ receiveBuffer' = receiveBuffer
    BY <1>3 DEF AsyncSend, storeSentPacket, receiverVars
  <2>2. slot = slotIndex(nextMsg) /\ slot \in Slots
    BY <1>1, LapSlot
  <2>3. sentPackets \in [Slots -> SlotContents]
    BY DEF NumberInv, TypeOK
  <2>4. InWindow' \subseteq InWindow \cup {nextMsg}
    <3>1. ASSUME NEW i \in Slots, sentPackets'[i] # NoPacket
          PROVE  sentPackets'[i].msg \in InWindow \cup {nextMsg}
      <4>1. CASE i = slot
        BY <2>1, <2>2, <2>3, <4>1
      <4>2. CASE i # slot
        <5>1. sentPackets'[i] = sentPackets[i]
          BY <2>1, <2>3, <4>2
        <5>2. QED
          BY <3>1, <5>1 DEF InWindow, Occupied
      <4>3. QED
        BY <4>1, <4>2
    <3>2. QED
      BY <3>1 DEF InWindow, Occupied
  <2>5. Got' = Got
    BY <2>1 DEF Got, DeliveredMsgs, Buffered
  <2>6. Handed' \subseteq Handed \cup {nextMsg}
    BY <2>1, <2>4, <2>5 DEF Handed
  <2>7. nextMsg + Window \notin Handed'
    BY <1>1, <1>2, <2>6
  <2>8. ASSUME NEW x \in InWindow PROVE x + Window # nextMsg
    <3>1. PICK i \in Occupied : x = sentPackets[i].msg
      BY DEF InWindow
    <3>2. /\ i \in Slots /\ sentPackets[i] # NoPacket /\ x \in Nat
          /\ sentPackets[i].seq = x % SeqMod /\ slotIndex(sentPackets[i].seq) = i
      BY <3>1, WindowKnown
    <3>3. slotIndex(x) = i
      BY <3>2, LapSlot
    <3>4. SUFFICES ASSUME x + Window = nextMsg PROVE FALSE
      OBVIOUS
    <3>5. slotIndex(nextMsg) = slotIndex(x)
      BY <1>1, <3>2, <3>4, SlotPeriod
    <3>6. QED
      BY <2>1, <2>2, <3>2, <3>3, <3>5
  <2>9. \A x \in InWindow : x + Window \notin Handed'
    BY <2>6, <2>8 DEF Skipped
  <2>10. QED
    BY <2>4, <2>7, <2>9 DEF Skipped
<1>4. ASSUME InWindow' \subseteq InWindow, Handed' \subseteq Handed
      PROVE  Skipped'
  BY <1>4 DEF Skipped
<1>5. ASSUME NEW ps, {p.msg : p \in ps} \subseteq Handed, NEW now, Transmit(ps, now)
      PROVE  {p.msg : p \in net'} \subseteq Handed
  <2>1. net' \subseteq net \cup {[seq |-> p.seq, msg |-> p.msg, born |-> Stamp(now)] : p \in ps}
    BY <1>5, IntoSubset DEF Transmit
  <2>2. QED
    BY <1>5, <2>1 DEF Handed
<1>6. ASSUME {p.msg : p \in net'} \subseteq Handed, sendOps' \subseteq sendOps,
             UNCHANGED <<sentPackets, delivered, receiveBuffer>>
      PROVE  Skipped'
  <2>1. InWindow' = InWindow /\ Got' = Got
    BY <1>6 DEF InWindow, Occupied, Got, DeliveredMsgs, Buffered
  <2>2. Handed' \subseteq Handed
    BY <1>6, <2>1 DEF Handed
  <2>3. QED
    BY <1>4, <2>1, <2>2
<1>7. ASSUME NEW p \in sendOps, SendSucceeds(p) PROVE Skipped'
  <2>1. {q.msg : q \in {p}} \subseteq Handed
    BY DEF Handed
  <2>2. {q.msg : q \in net'} \subseteq Handed
    BY <1>5, <1>7, <2>1 DEF SendSucceeds
  <2>3. QED
    BY <1>6, <1>7, <2>2 DEF SendSucceeds, receiverVars
<1>8. ASSUME NEW due \in SUBSET Occupied, Transmit({sentPackets[i] : i \in due}, nextMsg),
             UNCHANGED <<senderVars, receiverVars>>
      PROVE  Skipped'
  <2>1. {q.msg : q \in {sentPackets[i] : i \in due}} \subseteq Handed
    BY DEF Handed, InWindow
  <2>2. {q.msg : q \in net'} \subseteq Handed
    BY <1>5, <1>8, <2>1
  <2>3. QED
    BY <1>6, <1>8, <2>2 DEF senderVars, receiverVars
<1>9. CASE (\E due \in SUBSET Occupied : OnTick(due)) \/ Flush
  <2>1. \E due \in SUBSET Occupied :
          /\ Transmit({sentPackets[i] : i \in due}, nextMsg)
          /\ UNCHANGED <<senderVars, receiverVars>>
    BY <1>9 DEF OnTick, Flush
  <2>2. QED
    BY <1>8, <2>1
<1>10. CASE \/ \E cw \in CongestionWindows : AsyncSendSlotTaken(cw) \/ AsyncSendEncodeFails(cw)
            \/ \E p \in sendOps : SendFails(p)
            \/ \E p \in net : RecvData(p) \/ Lose(p)
            \/ \E a \in acks : RecvAck(a) \/ LoseAck(a)
            \/ UNCHANGED vars
  <2>1. sendOps' \subseteq sendOps /\ net' \subseteq net
    BY <1>10 DEF AsyncSendSlotTaken, AsyncSendEncodeFails, SendFails, RecvData,
       RecvOrderedOutside, RecvOrderedSlotTaken, RecvOrderedStore, RecvUnorderedDuplicate,
       RecvUnorderedNew, Lose, RecvAck, LoseAck, vars, senderVars
  <2>2. sentPackets' = sentPackets \/ \E S : sentPackets' = Emptied(sentPackets, S)
    BY <1>10 DEF AsyncSendSlotTaken, AsyncSendEncodeFails, SendFails, RecvData,
       RecvOrderedOutside, RecvOrderedSlotTaken, RecvOrderedStore, RecvUnorderedDuplicate,
       RecvUnorderedNew, Lose, RecvAck, LoseAck, vars, senderVars
  <2>3. InWindow' \subseteq InWindow
    BY <2>2 DEF InWindow, Occupied, Emptied
  <2>4. Handed' \subseteq Handed
    BY <2>1, <2>3 DEF Handed
  <2>5. QED
    BY <1>4, <2>3, <2>4
<1>11. QED
  BY <1>3, <1>7, <1>9, <1>10 DEF Next

(* The numbers between the oldest message of the send window and the next  *)
(* one are as many as the receiver is behind, and one window.              *)
LEMMA RecentFromAhead ==
  ASSUME NEW R \in Nat, NEW K, K = Window + R, NumberInv, LapInv(K), Skipped, Ahead(R)
  PROVE  Recent(K)
<1> SUFFICES ASSUME NEW x \in InWindow PROVE nextMsg <= x + K
  BY DEF Recent
<1>1. PICK i \in Occupied : x = sentPackets[i].msg
  BY DEF InWindow
<1>2. PICK L \in Nat : L = Len(delivered) /\ delivered \in Seq(Nat) /\ OrderedPrefix
  BY LapKnown DEF LapInv
<1>3. x \in Nat /\ nextMsg \in Nat /\ Window \in Nat /\ nextMsg <= L + R
  BY <1>1, <1>2, WindowKnown, WindowRange, LapKnown DEF Ahead
<1>4. DeliveredMsgs = 0 .. L - 1
  BY <1>2, PrefixDelivers
<1>5. x + Window \notin 0 .. L - 1
  BY <1>4 DEF Skipped, Handed, Got
<1>6. QED
  BY <1>2, <1>3, <1>5

(* Nothing is received that has not been given a number. *)
LEMMA LapGot ==
  ASSUME NEW K, NumberInv, LapInv(K)
  PROVE  \A x \in Got : x \in Nat /\ x < nextMsg /\ x < Len(delivered) + Window
<1>1. PICK L \in Nat : L = Len(delivered) /\ delivered \in Seq(Nat) /\ OrderedPrefix
  BY LapKnown DEF LapInv
<1>2. nextMsg \in Nat /\ L <= nextMsg /\ Window \in Nat /\ Window >= 1
  BY <1>1, LapKnown, WindowRange DEF LapInv
<1>3. DeliveredMsgs = 0 .. L - 1
  BY <1>1, PrefixDelivers
<1>4. \A x \in DeliveredMsgs : x \in Nat /\ x < nextMsg /\ x < L + Window
  BY <1>2, <1>3
<1>5. \A x \in Buffered : x \in Nat /\ x < nextMsg /\ x < L + Window
  BY <1>1, LapKnown DEF LapInv
<1>6. QED
  BY <1>1, <1>4, <1>5 DEF Got

(* At the start both sides are together. *)
LEMMA LapInit ==
  ASSUME Init
  PROVE  Skipped /\ Got = {} /\ \A K \in Nat : LapInv(K)
<1>1. InWindow = {} /\ Buffered = {} /\ Len(delivered) = 0
  BY DEF Init, InWindow, Occupied, Buffered
<1>2. Got = {}
  BY <1>1 DEF Got, DeliveredMsgs
<1>3. 0 % SeqMod = 0
  BY HalfSpaceRange, ModSmall
<1>4. ASSUME NEW K \in Nat PROVE LapInv(K)
  BY <1>1, <1>3 DEF LapInv, OrderedPrefix, Init
<1>5. Skipped
  BY <1>1 DEF Skipped
<1>6. QED
  BY <1>2, <1>4, <1>5

(* What an ordered channel maintains while its receiver is at most R       *)
(* numbers behind                                                          *)
FollowInv(R) == LapInv(Window + R) /\ Skipped

LEMMA FollowStep ==
  ASSUME Ordered, NEW R \in Nat, SeqMod % Window = 0, Lifetime + Window + Window + R <= SeqMod,
         NumberInv, FollowInv(R), Ahead(R), [Next]_vars
  PROVE  FollowInv(R)' /\ [Stream!Next]_(Stream!vars)
<1>1. PICK K \in Nat : K = Window + R /\ K >= 1
  BY WindowRange
<1>2. Reach(R, K)
  <2>1. Window \in Nat /\ SeqMod \in Nat /\ Lifetime \in Nat
    BY WindowRange, HalfSpaceRange, ChannelAssumption
  <2>2. QED
    BY <1>1, <2>1 DEF Reach
<1>3. LapInv(K) /\ Skipped
  BY <1>1 DEF FollowInv
<1>4. Recent(K)
  BY <1>1, <1>3, RecentFromAhead
<1>5. /\ LapInv(K)' /\ [Stream!Next]_(Stream!vars)
      /\ Got' \subseteq Got \cup {p.msg : p \in net}
  BY <1>2, <1>3, <1>4, LapStep
<1>6. \A x \in Got : x < nextMsg
  BY <1>3, LapGot
<1>7. Skipped'
  BY <1>3, <1>5, <1>6, SkippedStep
<1>8. QED
  BY <1>1, <1>5, <1>7 DEF FollowInv

LEMMA FollowInit ==
  ASSUME NEW R \in Nat
  PROVE  Init => FollowInv(R) /\ Stream!Init
<1>1. Window + R \in Nat
  BY WindowRange
<1>2. QED
  BY <1>1, LapInit, StreamInit DEF FollowInv

(* An ordered channel implements the FIFO stream for ever, across any      *)
(* number of wraps of its sequence numbers and whatever the path does and  *)
(* whichever sends fail, as long as its sender does not get more than R    *)
(* numbers ahead of its receiver.  The numbers have to leave room for that *)
(* lead, for two windows and for the age of a datagram, and the window has *)
(* to divide them, as every power of two does.                             *)
THEOREM OrderedImplementsStreamWhileNear ==
  ASSUME Ordered, SeqMod % Window = 0,
         NEW R \in Nat, Lifetime + Window + Window + R <= SeqMod
  PROVE  Spec /\ []Ahead(R) => StreamSpec
<1>1. NumberInv /\ FollowInv(R) /\ Ahead(R) /\ [Next]_vars
        => FollowInv(R)' /\ [Stream!Next]_(Stream!vars)
  BY FollowStep
<1>2. Init => FollowInv(R) /\ Stream!Init
  BY FollowInit
<1>3. QED
  BY <1>1, <1>2, NumberInit, NumberStep, TypeCorrect, PTL DEF Spec, StreamSpec, Stream!Spec

(* Likewise the i-th message delivered is the i-th one issued. *)
THEOREM OrderedPrefixWhileNear ==
  ASSUME Ordered, SeqMod % Window = 0,
         NEW R \in Nat, Lifetime + Window + Window + R <= SeqMod
  PROVE  Spec /\ []Ahead(R) => []OrderedPrefix
<1>1. NumberInv /\ FollowInv(R) /\ Ahead(R) /\ [Next]_vars => FollowInv(R)'
  BY FollowStep
<1>2. Init => FollowInv(R)
  BY FollowInit
<1>3. FollowInv(R) => OrderedPrefix
  BY DEF FollowInv, LapInv
<1>4. QED
  BY <1>1, <1>2, <1>3, NumberInit, NumberStep, TypeCorrect, PTL DEF Spec

-----------------------------------------------------------------------------
(* What an ACK says past the wrap *)

(* Message m is marked as received.  It is less than half of the numbers   *)
(* away from the newest one, and not exactly as far ahead of it as the ACK *)
(* word is wide.                                                           *)
LEMMA LapMark ==
  ASSUME NEW R, NumberInv, LapPromise(R), NoFullShift, Got \subseteq Nat,
         NEW m \in Nat, tracker' \in markReceived(tracker, m % SeqMod),
         \A t \in Got : Newest(t) => m - t < HalfSpace /\ t - m < HalfSpace,
         Got' = Got \cup {m}
  PROVE  /\ tracker'.has
         /\ \E t \in Got' : /\ \A x \in Got' : x <= t
                            /\ tracker'.latest = t % SeqMod
                            /\ WordSound(tracker'.bits, t, Got')
                            /\ Complete => WordComplete(tracker'.bits, t, Got')
<1>1. m \in Int /\ tracker \in Trackers /\ tracker.bits \in AckBits
  BY DEF NumberInv, TypeOK, Trackers
<1>2. CASE ~tracker.has
  <2>1. tracker' = [has |-> TRUE, latest |-> m % SeqMod, bits |-> {}]
    BY <1>2, MarkFirst
  <2>2. Got = {} /\ m <= m
    BY <1>2 DEF LapPromise
  <2>3. Got' = {m}
    BY <2>2
  <2>4. WordSound({}, m, Got') /\ WordComplete({}, m, Got')
    BY <2>2, <2>3 DEF WordSound, WordComplete
  <2>5. QED
    BY <2>1, <2>2, <2>3, <2>4
<1>3. CASE tracker.has
  <2>1. PICK t \in Got : /\ Newest(t) /\ tracker.latest = t % SeqMod
                         /\ WordSound(tracker.bits, t, Got)
    BY <1>3 DEF LapPromise
  <2>2. /\ t \in Nat /\ t \in Int /\ m - t < HalfSpace /\ t - m < HalfSpace
        /\ HalfSpace \in Nat /\ HalfSpace <= SeqMod /\ SeqMod \in Nat
    BY <2>1, HalfSpaceRange
  <2>3. CASE t < m
    <3>1. /\ tracker'.has /\ tracker'.latest = m % SeqMod
          /\ tracker'.bits \in AdvancedBits(tracker.bits, m - t)
      BY <1>1, <1>3, <2>1, <2>2, <2>3, MarkAhead
    <3>2. t <= m /\ m - t < SeqMod
      BY <2>2, <2>3
    <3>3. Delta(m % SeqMod, t % SeqMod) = m - t
      BY <1>1, <2>2, <3>2, DeltaAhead
    <3>4. m - t # AckHistory
      BY <1>3, <2>1, <3>1, <3>3 DEF NoFullShift
    <3>5. WordSound(tracker'.bits, m, Got \cup {m})
      BY <1>1, <2>1, <2>2, <2>3, <3>1, <3>4, SoundAhead
    <3>6. \A x \in Got' : x <= m
      BY <2>1, <2>2, <2>3 DEF Newest
    <3>7. ASSUME Complete PROVE WordComplete(tracker'.bits, m, Got \cup {m})
      <4>1. WordComplete(tracker.bits, t, Got) /\ Got \in SUBSET Int
        BY <2>1, <3>7 DEF Complete
      <4>2. QED
        BY <1>1, <2>2, <2>3, <3>1, <4>1, CompleteAhead
    <3>8. QED
      BY <3>1, <3>5, <3>6, <3>7
  <2>4. CASE m <= t
    <3>1. /\ tracker'.has /\ tracker'.latest = t % SeqMod
          /\ tracker'.bits = LateBits(tracker.bits, t - m)
      BY <1>1, <1>3, <2>1, <2>2, <2>4, MarkBehind
    <3>2. WordSound(tracker'.bits, t, Got \cup {m})
      BY <1>1, <2>1, <2>2, <2>4, <3>1, SoundBehind
    <3>3. \A x \in Got' : x <= t
      BY <2>1, <2>4 DEF Newest
    <3>4. ASSUME Complete PROVE WordComplete(tracker'.bits, t, Got \cup {m})
      <4>1. WordComplete(tracker.bits, t, Got) /\ Got \in SUBSET Int
        BY <2>1, <3>4 DEF Complete
      <4>2. QED
        BY <1>1, <2>2, <2>4, <3>1, <4>1, CompleteBehind
    <3>5. QED
      BY <2>1, <3>1, <3>2, <3>3, <3>4
  <2>5. t < m \/ m <= t
    BY <2>2
  <2>6. QED
    BY <2>3, <2>4, <2>5
<1>4. QED
  BY <1>2, <1>3

(* The receiver answers with the ACK of its tracker, or not at all. *)
LEMMA LapSent ==
  ASSUME NEW R \in Nat, NumberInv, LapPromise(R), Got \subseteq Got', Got' \subseteq Nat,
         acked' = acked,
         ~tracker'.has => Got' = {},
         tracker'.has => \E t \in Got' : /\ \A x \in Got' : x <= t
                                         /\ tracker'.latest = t % SeqMod
                                         /\ WordSound(tracker'.bits, t, Got'),
         \/ acks' \subseteq acks
         \/ SendAck(tracker') /\ \A t \in Got' : (\A x \in Got' : x <= t) => nextMsg <= t + R + 1
  PROVE  LapPromise(R)'
<1>1. ASSUME NEW a \in acks, NEW t \in Got,
             a.ack = t % SeqMod, WordSound(a.bits, t, Got), a.born <= t + R + 1
      PROVE  t \in Got' /\ a.ack = t % SeqMod /\ WordSound(a.bits, t, Got') /\ a.born <= t + R + 1
  BY <1>1, SoundGrows
<1>2. ASSUME NEW a \in buildAck(tracker'),
             \A t \in Got' : (\A x \in Got' : x <= t) => nextMsg <= t + R + 1
      PROVE  \E t \in Got' :
               a.ack = t % SeqMod /\ WordSound(a.bits, t, Got') /\ a.born <= t + R + 1
  <2>1. /\ tracker'.has /\ a.ack = tracker'.latest /\ a.bits = tracker'.bits
        /\ a.born = Stamp(nextMsg)
    BY <1>2 DEF buildAck
  <2>2. PICK t \in Got' : /\ \A x \in Got' : x <= t
                          /\ tracker'.latest = t % SeqMod
                          /\ WordSound(tracker'.bits, t, Got')
    BY <2>1
  <2>3. nextMsg <= t + R + 1 /\ t \in Nat
    BY <1>2, <2>2
  <2>4. a.born <= t + R + 1
    <3>1. a.born = 0 \/ a.born = nextMsg
      BY <2>1 DEF Stamp
    <3>2. 0 <= t + R + 1
      BY <2>3
    <3>3. QED
      BY <2>3, <3>1, <3>2
  <2>5. QED
    BY <2>1, <2>2, <2>4
<1>3. ASSUME NEW a \in acks'
      PROVE  \E t \in Got' :
               a.ack = t % SeqMod /\ WordSound(a.bits, t, Got') /\ a.born <= t + R + 1
  <2>1. CASE a \in acks
    <3>1. PICK t \in Got : a.ack = t % SeqMod /\ WordSound(a.bits, t, Got) /\ a.born <= t + R + 1
      BY <2>1 DEF LapPromise
    <3>2. QED
      BY <1>1, <2>1, <3>1
  <2>2. CASE a \notin acks
    <3>1. /\ a \in buildAck(tracker')
          /\ \A t \in Got' : (\A x \in Got' : x <= t) => nextMsg <= t + R + 1
      BY <2>2, IntoSubset DEF SendAck
    <3>2. QED
      BY <1>2, <3>1
  <2>3. QED
    BY <2>1, <2>2
<1>4. acked' \subseteq Got'
  BY DEF LapPromise
<1>5. tracker'.has => \E t \in Got' : /\ Newest(t)'
                                      /\ tracker'.latest = t % SeqMod
                                      /\ WordSound(tracker'.bits, t, Got')
  BY DEF Newest
<1>6. QED
  BY <1>3, <1>4, <1>5 DEF LapPromise

(* processAck releases nothing that has not been received. *)
LEMMA LapKept ==
  ASSUME NEW R \in Nat, NEW K \in Nat, Lifetime + R < HalfSpace, K <= HalfSpace,
         NumberInv, LapPromise(R), Recent(K), \A x \in Got : x \in Nat /\ x < nextMsg,
         NEW a \in acks, RecvAck(a)
  PROVE  LapPromise(R)'
<1> DEFINE covered == {i \in Occupied : isAcknowledged(sentPackets[i].seq, a.ack, a.bits)}
<1>1. /\ acked' = acked \cup {sentPackets[i].msg : i \in covered}
      /\ acks' = acks /\ tracker' = tracker /\ nextMsg - a.born <= Lifetime
      /\ delivered' = delivered /\ receiveBuffer' = receiveBuffer
  BY DEF RecvAck, receiverVars, Fresh
<1>2. Got' = Got
  BY <1>1 DEF Got, DeliveredMsgs, Buffered
<1>3. PICK t \in Got : a.ack = t % SeqMod /\ WordSound(a.bits, t, Got) /\ a.born <= t + R + 1
  BY DEF LapPromise
<1>4. /\ t \in Nat /\ t < nextMsg /\ nextMsg \in Nat /\ a.born \in Nat /\ a.bits \in AckBits
      /\ Lifetime \in Nat /\ HalfSpace \in Nat /\ t \in Int
  BY <1>3, ChannelAssumption, HalfSpaceRange DEF NumberInv, TypeOK, AckDatagrams
<1>5. ASSUME NEW i \in covered PROVE sentPackets[i].msg \in Got
  <2>1. i \in Occupied /\ isAcknowledged(sentPackets[i].seq, a.ack, a.bits)
    OBVIOUS
  <2>2. PICK x : x = sentPackets[i].msg
    OBVIOUS
  <2>3. /\ x \in Nat /\ x < nextMsg /\ sentPackets[i].seq = x % SeqMod /\ x \in InWindow
    BY <2>1, <2>2, WindowKnown
  <2>4. nextMsg <= x + K /\ x \in Int
    BY <2>3 DEF Recent
  <2>5. isAcknowledged(x % SeqMod, t % SeqMod, a.bits)
    BY <1>3, <2>1, <2>3
  <2>6. x <= t
    <3>1. SUFFICES ASSUME t < x PROVE FALSE
      BY <1>4, <2>3
    <3>2. x - t < HalfSpace
      BY <1>1, <1>3, <1>4, <2>3
    <3>3. QED
      BY <1>4, <2>4, <2>5, <3>1, <3>2, NothingAhead
  <2>7. t - x < HalfSpace
    BY <1>4, <2>3, <2>4
  <2>8. x = t \/ t - x - 1 \in a.bits
    BY <1>4, <2>4, <2>5, <2>6, <2>7, AcknowledgedMeans
  <2>9. t - (t - x - 1) - 1 = x
    BY <1>4, <2>3
  <2>10. QED
    BY <1>3, <2>2, <2>8, <2>9 DEF WordSound
<1> HIDE DEF covered
<1>6. acked' \subseteq Got
  BY <1>1, <1>5 DEF LapPromise
<1>7. QED
  BY <1>1, <1>2, <1>6 DEF LapPromise, Newest

(* A step that leaves the receiver's state alone keeps every promise. *)
LEMMA LapIdle ==
  ASSUME NEW R \in Nat, NumberInv, LapPromise(R), Got \subseteq Nat,
         UNCHANGED <<tracker, delivered, receiveBuffer, acked>>,
         \/ acks' \subseteq acks
         \/ SendAck(tracker) /\ \A t \in Got : Newest(t) => nextMsg <= t + R + 1
  PROVE  LapPromise(R)'
<1>1. Got' = Got
  BY DEF Got, DeliveredMsgs, Buffered
<1>2. /\ ~tracker'.has => Got' = {}
      /\ tracker'.has => \E t \in Got' : /\ \A x \in Got' : x <= t
                                         /\ tracker'.latest = t % SeqMod
                                         /\ WordSound(tracker'.bits, t, Got')
  BY <1>1 DEF LapPromise, Newest
<1>3. \/ acks' \subseteq acks
      \/ SendAck(tracker') /\ \A t \in Got' : (\A x \in Got' : x <= t) => nextMsg <= t + R + 1
  BY <1>1 DEF Newest
<1>4. QED
  BY <1>1, <1>2, <1>3, LapSent

(* The newest message received by an ordered channel is not far from the   *)
(* ones that are due, whatever is received with them.                      *)
LEMMA LapNewest ==
  ASSUME NEW R \in Nat, NEW K, NumberInv, LapInv(K), Ahead(R),
         NEW t \in Nat, \A x \in Got : x <= t
  PROVE  Len(delivered) <= t + 1 /\ nextMsg <= t + R + 1
<1>1. PICK L \in Nat : L = Len(delivered) /\ delivered \in Seq(Nat) /\ OrderedPrefix
  BY LapKnown DEF LapInv
<1>2. DeliveredMsgs = 0 .. L - 1
  BY <1>1, PrefixDelivers
<1>3. L <= t + 1
  <2>1. CASE L = 0
    BY <2>1
  <2>2. CASE L > 0
    <3>1. L - 1 \in Got
      BY <1>1, <1>2, <2>2 DEF Got
    <3>2. L - 1 <= t
      BY <3>1
    <3>3. QED
      BY <1>1, <3>2
  <2>3. QED
    BY <1>1, <2>1, <2>2
<1>4. nextMsg \in Nat /\ nextMsg <= L + R
  BY <1>1, LapKnown DEF Ahead
<1>5. QED
  BY <1>1, <1>3, <1>4

(* How far a message of the receive window is from the newest one *)
LEMMA LapNear ==
  ASSUME NEW R, NEW K, Reach(R, K), NumberInv, LapInv(K), Ahead(R),
         NEW p \in net, Fresh(p), isInOrderedReceiveWindow(p.seq),
         NEW t \in Got, Newest(t)
  PROVE  p.msg - t <= Window /\ t - p.msg < Window
<1>1. PICK m \in Nat : m = p.msg
  BY LapKnown
<1>2. PICK L \in Nat : L = Len(delivered)
  BY LapKnown
<1>3. L <= m /\ m < L + Window
  BY <1>1, <1>2, LapAdmitted
<1>4. t \in Nat /\ t < L + Window
  BY <1>2, LapGot
<1>5. R \in Nat /\ \A x \in Got : x <= t
  BY DEF Reach, Newest
<1>6. L <= t + 1
  BY <1>2, <1>4, <1>5, LapNewest
<1>7. Window \in Nat
  BY WindowRange
<1>8. QED
  BY <1>1, <1>2, <1>3, <1>4, <1>6, <1>7

LEMMA LapAckStep ==
  ASSUME Ordered, NEW R, NEW K, Reach(R, K),
         Window < HalfSpace, Lifetime + R < HalfSpace, K <= HalfSpace,
         NumberInv, LapInv(K), Ahead(R), Recent(K), LapPromise(R), NoFullShift, [Next]_vars
  PROVE  LapPromise(R)'
<1>1. R \in Nat /\ K \in Nat /\ Window \in Nat /\ HalfSpace \in Nat
  BY HalfSpaceRange, WindowRange DEF Reach
<1>2. Got \subseteq Nat /\ \A x \in Got : x \in Nat /\ x < nextMsg
  BY LapGot
<1>3. ASSUME NEW p \in net, RecvOrderedOutside(p) PROVE LapPromise(R)'
  <2>1. UNCHANGED <<tracker, delivered, receiveBuffer, acked>> /\ SendAck(tracker)
    BY <1>3 DEF RecvOrderedOutside, senderVars, receiverVars
  <2>2. \A t \in Got : Newest(t) => nextMsg <= t + R + 1
    BY <1>1, <1>2, LapNewest DEF Newest
  <2>3. QED
    BY <1>1, <1>2, <2>1, <2>2, LapIdle
<1>4. ASSUME NEW p \in net, RecvOrderedSlotTaken(p) \/ RecvOrderedStore(p)
      PROVE  LapPromise(R)'
  <2>1. PICK m \in Nat : m = p.msg /\ p.seq = m % SeqMod
    BY LapKnown
  <2>2. /\ Fresh(p) /\ isInOrderedReceiveWindow(p.seq) /\ acked' = acked
        /\ tracker' \in markReceived(tracker, m % SeqMod) /\ SendAck(tracker')
    BY <1>4, <2>1 DEF RecvOrderedSlotTaken, RecvOrderedStore, senderVars
  <2>3. Got' = Got \cup {m}
    <3>1. CASE RecvOrderedStore(p)
      BY <2>1, <3>1, LapStore
    <3>2. CASE RecvOrderedSlotTaken(p)
      <4>1. /\ receiveBuffer[slotIndex(p.seq)] # NoPacket
            /\ UNCHANGED <<delivered, receiveBuffer>>
        BY <3>2 DEF RecvOrderedSlotTaken
      <4>2. Got' = Got
        BY <4>1 DEF Got, DeliveredMsgs, Buffered
      <4>3. m \in Got
        BY <2>1, <2>2, <4>1, LapTaken DEF Got
      <4>4. QED
        BY <4>2, <4>3
    <3>3. QED
      BY <1>4, <3>1, <3>2
  <2>4. ASSUME NEW t \in Got, Newest(t) PROVE m - t < HalfSpace /\ t - m < HalfSpace
    <3>1. m - t <= Window /\ t - m < Window /\ t \in Nat
      BY <1>2, <2>1, <2>2, <2>4, LapNear
    <3>2. QED
      BY <1>1, <2>1, <3>1
  <2>5. /\ tracker'.has
        /\ \E t \in Got' : /\ \A x \in Got' : x <= t
                           /\ tracker'.latest = t % SeqMod
                           /\ WordSound(tracker'.bits, t, Got')
    BY <1>2, <2>2, <2>3, <2>4, LapMark
  <2>6. Got \subseteq Got' /\ Got' \subseteq Nat
    BY <1>2, <2>3
  <2>7. \A t \in Got' : (\A x \in Got' : x <= t) => nextMsg <= t + R + 1
    BY <1>1, <2>6, LapNewest
  <2>8. QED
    BY <1>1, <2>2, <2>5, <2>6, <2>7, LapSent
<1>5. ASSUME NEW a \in acks, RecvAck(a) PROVE LapPromise(R)'
  BY <1>1, <1>2, <1>5, LapKept
<1>6. CASE \/ \E cw \in CongestionWindows :
                AsyncSend(cw) \/ AsyncSendSlotTaken(cw) \/ AsyncSendEncodeFails(cw)
           \/ \E p \in sendOps : SendSucceeds(p) \/ SendFails(p)
           \/ \E due \in SUBSET Occupied : OnTick(due)
           \/ Flush
           \/ \E p \in net : Lose(p)
           \/ \E a \in acks : LoseAck(a)
           \/ UNCHANGED vars
  <2>1. UNCHANGED <<tracker, delivered, receiveBuffer, acked>> /\ acks' \subseteq acks
    BY <1>6 DEF AsyncSend, AsyncSendSlotTaken, AsyncSendEncodeFails, SendSucceeds, SendFails,
       OnTick, Flush, Lose, LoseAck, vars, senderVars, receiverVars
  <2>2. QED
    BY <1>1, <1>2, <2>1, LapIdle
<1>7. ASSUME NEW p \in net
      PROVE  ~RecvUnorderedDuplicate(p) /\ ~RecvUnorderedNew(p)
  BY DEF RecvUnorderedDuplicate, RecvUnorderedNew
<1>8. QED
  BY <1>3, <1>4, <1>5, <1>6, <1>7 DEF Next, RecvData

(* Marking a message that is less than the width of the ACK word ahead of  *)
(* the newest one makes no full shift.                                     *)
LEMMA LapShort ==
  ASSUME NEW R, NumberInv, LapPromise(R), Got \subseteq Nat,
         NEW m \in Nat, tracker' \in markReceived(tracker, m % SeqMod),
         \A t \in Got : Newest(t) => m - t < AckHistory /\ t - m < HalfSpace
  PROVE  NoFullShift
<1> SUFFICES ASSUME tracker.has PROVE Delta(tracker'.latest, tracker.latest) # AckHistory
  BY DEF NoFullShift
<1>1. PICK t \in Got : Newest(t) /\ tracker.latest = t % SeqMod
  BY DEF LapPromise
<1>2. /\ t \in Nat /\ t \in Int /\ m \in Int /\ m - t < AckHistory /\ t - m < HalfSpace
      /\ HalfSpace \in Nat /\ SeqMod \in Nat /\ HalfSpace < SeqMod
      /\ AckHistory \in Nat /\ AckHistory >= 1 /\ AckHistory < HalfSpace
      /\ tracker \in Trackers
  BY <1>1, HalfSpaceRange DEF NumberInv, TypeOK
<1>3. CASE t < m
  <2>1. t <= m /\ m - t < SeqMod /\ m - t < HalfSpace
    BY <1>2, <1>3
  <2>2. tracker'.latest = m % SeqMod
    BY <1>1, <1>2, <1>3, <2>1, MarkAhead
  <2>3. Delta(m % SeqMod, t % SeqMod) = m - t
    BY <1>2, <2>1, DeltaAhead
  <2>4. QED
    BY <1>1, <1>2, <2>2, <2>3
<1>4. CASE m <= t
  <2>1. tracker'.latest = t % SeqMod
    BY <1>1, <1>2, <1>4, MarkBehind
  <2>2. t <= t /\ t - t < SeqMod /\ t - t = 0
    BY <1>2
  <2>3. Delta(t % SeqMod, t % SeqMod) = 0
    BY <1>2, <2>2, DeltaAhead
  <2>4. QED
    BY <1>1, <1>2, <2>1, <2>3
<1>5. t < m \/ m <= t
  BY <1>2
<1>6. QED
  BY <1>3, <1>4, <1>5

(* Nor does a step that leaves the tracker alone. *)
LEMMA LapStill ==
  ASSUME NumberInv, tracker' = tracker
  PROVE  NoFullShift
<1>1. PICK n \in Nat : n = tracker.latest /\ n < SeqMod
  BY HalfSpaceRange DEF NumberInv, TypeOK, Trackers, Seqs
<1>2. /\ SeqMod \in Nat /\ n \in Int /\ n <= n /\ n - n = 0 /\ 0 < SeqMod
      /\ AckHistory \in Nat /\ AckHistory >= 1
  BY <1>1, HalfSpaceRange
<1>3. n % SeqMod = n /\ n - n < SeqMod
  BY <1>1, <1>2, ModSmall
<1>4. Delta(n % SeqMod, n % SeqMod) = 0
  BY <1>2, <1>3, DeltaAhead
<1>5. QED
  BY <1>1, <1>2, <1>3, <1>4 DEF NoFullShift

(* An ordered channel whose window is narrower than the ACK word makes no  *)
(* full shift.                                                             *)
LEMMA LapNoFullShift ==
  ASSUME Ordered, NEW R, NEW K, Reach(R, K), Window < HalfSpace, Window < AckHistory,
         NumberInv, LapInv(K), Ahead(R), LapPromise(R), [Next]_vars
  PROVE  NoFullShift
<1>1. ASSUME NEW p \in net, RecvOrderedSlotTaken(p) \/ RecvOrderedStore(p)
      PROVE  NoFullShift
  <2>1. PICK m \in Nat : m = p.msg /\ p.seq = m % SeqMod
    BY LapKnown
  <2>2. /\ Fresh(p) /\ isInOrderedReceiveWindow(p.seq)
        /\ tracker' \in markReceived(tracker, m % SeqMod)
    BY <1>1, <2>1 DEF RecvOrderedSlotTaken, RecvOrderedStore
  <2>3. Got \subseteq Nat
    BY LapGot
  <2>4. ASSUME NEW t \in Got, Newest(t) PROVE m - t < AckHistory /\ t - m < HalfSpace
    <3>1. m - t <= Window /\ t - m < Window /\ t \in Nat
      BY <2>1, <2>2, <2>3, <2>4, LapNear
    <3>2. Window \in Nat /\ AckHistory \in Nat /\ HalfSpace \in Nat
      BY WindowRange, HalfSpaceRange
    <3>3. QED
      BY <2>1, <3>1, <3>2
  <2>5. QED
    BY <2>2, <2>3, <2>4, LapShort
<1>2. ASSUME ~(\E p \in net : RecvOrderedSlotTaken(p) \/ RecvOrderedStore(p))
      PROVE  tracker' = tracker
  BY <1>2 DEF Next, AsyncSend, AsyncSendSlotTaken, AsyncSendEncodeFails, SendSucceeds,
     SendFails, OnTick, Flush, RecvAck, RecvData, RecvOrderedOutside,
     RecvUnorderedDuplicate, RecvUnorderedNew, Lose, LoseAck, vars, receiverVars
<1>3. QED
  BY <1>1, <1>2, LapStill

LEMMA PromiseInit ==
  ASSUME NEW R
  PROVE  Init => LapPromise(R)
<1> SUFFICES ASSUME Init PROVE LapPromise(R)
  OBVIOUS
<1>1. Got = {}
  BY LapInit
<1>2. QED
  BY <1>1 DEF Init, LapPromise, NoneReceived

LEMMA PromiseStutter ==
  ASSUME NEW R, LapPromise(R), UNCHANGED vars
  PROVE  LapPromise(R)'
<1>1. UNCHANGED <<tracker, acks, acked, delivered, receiveBuffer>>
  BY DEF vars, senderVars, receiverVars
<1>2. Got' = Got
  BY <1>1 DEF Got, DeliveredMsgs, Buffered
<1>3. QED
  BY <1>1, <1>2 DEF LapPromise, Newest

(* An ACK of an ordered channel is a promise for ever, in every run whose  *)
(* sender gets no more than R numbers ahead of its receiver and that makes *)
(* no shift by the full width of the ACK word.  Half of the numbers have   *)
(* to leave room for the lead and the age of a datagram, and for the lead  *)
(* and a window.                                                           *)
THEOREM AckSoundWhileNear ==
  ASSUME Ordered, SeqMod % Window = 0,
         NEW R \in Nat, Lifetime + Window + Window + R <= SeqMod,
         Window < HalfSpace, Window + R <= HalfSpace, Lifetime + R < HalfSpace
  PROVE  Spec /\ []Ahead(R) /\ [][NoFullShift]_vars => []AckSound
<1>1. NumberInv /\ FollowInv(R) /\ LapPromise(R) /\ Ahead(R) /\ [Next]_vars /\ [NoFullShift]_vars
        => FollowInv(R)' /\ LapPromise(R)'
  <2>1. SUFFICES ASSUME NumberInv, FollowInv(R), LapPromise(R), Ahead(R), [Next]_vars,
                        [NoFullShift]_vars
                 PROVE  FollowInv(R)' /\ LapPromise(R)'
    OBVIOUS
  <2>2. FollowInv(R)'
    BY <2>1, FollowStep
  <2>3. PICK K \in Nat : K = Window + R /\ K >= 1
    BY WindowRange
  <2>4. Reach(R, K)
    <3>1. Window \in Nat /\ SeqMod \in Nat /\ Lifetime \in Nat
      BY WindowRange, HalfSpaceRange, ChannelAssumption
    <3>2. QED
      BY <2>3, <3>1 DEF Reach
  <2>5. LapInv(K) /\ Skipped /\ K <= HalfSpace
    BY <2>1, <2>3 DEF FollowInv
  <2>6. Recent(K)
    BY <2>1, <2>3, <2>5, RecentFromAhead
  <2>7. CASE NoFullShift
    <3>1. [Next]_vars /\ LapPromise(R) /\ Ahead(R) /\ NumberInv
      BY <2>1
    <3>2. QED
      BY <2>2, <2>4, <2>5, <2>6, <2>7, <3>1, LapAckStep
  <2>8. CASE UNCHANGED vars
    BY <2>1, <2>2, <2>8, PromiseStutter
  <2>9. QED
    BY <2>1, <2>2, <2>7, <2>8
<1>2. Init => FollowInv(R) /\ LapPromise(R)
  BY FollowInit, PromiseInit
<1>3. LapPromise(R) => AckSound
  BY DEF LapPromise, AckSound, Got
<1>4. QED
  BY <1>1, <1>2, <1>3, NumberInit, NumberStep, TypeCorrect, PTL DEF Spec

-----------------------------------------------------------------------------
(* The sender gets ahead of the receiver by burning numbers only: while no *)
(* number has been used up without a packet, its lead is one window.       *)

NoneBurnt == holes = {}

CleanInv == AccountInv /\ LapInv(Window) /\ Skipped /\ LapPromise(Window)

(* What was acknowledged has been received, and what was not is in the     *)
(* send window: a number of which neither holds has not been handed out.   *)
LEMMA CleanRecent ==
  ASSUME NumberInv, Accounted, NoneBurnt, Skipped, acked \subseteq Got
  PROVE  Recent(Window)
<1> SUFFICES ASSUME NEW x \in InWindow PROVE nextMsg <= x + Window
  BY DEF Recent
<1>1. x \in Nat
  BY WindowKnown DEF InWindow
<1>2. nextMsg \in Nat /\ Window \in Nat
  BY WindowRange DEF NumberInv, TypeOK
<1>3. x + Window \notin acked \cup InWindow
  BY DEF Skipped, Handed
<1>4. x + Window \notin 0 .. nextMsg - 1
  BY <1>3 DEF Accounted, NoneBurnt
<1>5. QED
  BY <1>1, <1>2, <1>4

LEMMA CleanAhead ==
  ASSUME NumberInv, CleanInv, NoneBurnt
  PROVE  Ahead(Window) /\ Recent(Window)
<1>1. Recent(Window)
  BY CleanRecent DEF CleanInv, AccountInv, LapPromise
<1>2. PICK L \in Nat : L = Len(delivered) /\ delivered \in Seq(Nat) /\ OrderedPrefix
  BY LapKnown DEF CleanInv, LapInv
<1>3. DeliveredMsgs = 0 .. L - 1
  BY <1>2, PrefixDelivers
<1>4. L \notin DeliveredMsgs
  BY <1>2, <1>3
<1>5. L \notin Buffered
  <2>1. L \in Buffered => L < L
    BY <1>2 DEF CleanInv, LapInv
  <2>2. QED
    BY <1>2, <2>1
<1>6. L \notin acked
  BY <1>4, <1>5 DEF CleanInv, LapPromise, Got
<1>7. nextMsg \in Nat /\ Window \in Nat
  BY WindowRange DEF NumberInv, TypeOK
<1>8. CASE L < nextMsg
  <2>1. L \in 0 .. nextMsg - 1
    BY <1>7, <1>8
  <2>2. L \in InWindow
    BY <1>6, <2>1 DEF CleanInv, AccountInv, Accounted, NoneBurnt
  <2>3. QED
    BY <1>1, <1>2, <2>2 DEF Recent, Ahead
<1>9. CASE nextMsg <= L
  BY <1>1, <1>2, <1>7, <1>9 DEF Ahead
<1>10. QED
  BY <1>2, <1>7, <1>8, <1>9

LEMMA CleanReach ==
  ASSUME SeqMod % Window = 0, Lifetime + Window < HalfSpace
  PROVE  Reach(Window, Window) /\ Window < HalfSpace /\ Window <= HalfSpace
<1>1. /\ Window \in Nat /\ Window >= 1 /\ Lifetime \in Nat /\ SeqMod = HalfSpace + HalfSpace
      /\ HalfSpace \in Nat
  BY WindowRange, ChannelAssumption, HalfSpaceRange
<1>2. QED
  BY <1>1 DEF Reach

LEMMA CleanStep ==
  ASSUME Ordered, SeqMod % Window = 0, Lifetime + Window < HalfSpace,
         NumberInv, CleanInv, NoneBurnt, NoneBurnt', [Next]_vars,
         NoFullShift \/ Window < AckHistory
  PROVE  CleanInv' /\ [Stream!Next]_(Stream!vars)
<1>1. LapInv(Window) /\ Skipped /\ LapPromise(Window) /\ AccountInv
  BY DEF CleanInv
<1>2. Ahead(Window) /\ Recent(Window)
  BY CleanAhead
<1>3. Reach(Window, Window) /\ Window < HalfSpace /\ Window <= HalfSpace
  BY CleanReach
<1>4. /\ LapInv(Window)' /\ [Stream!Next]_(Stream!vars)
      /\ Got' \subseteq Got \cup {p.msg : p \in net}
  BY <1>1, <1>2, <1>3, LapStep
<1>5. \A x \in Got : x < nextMsg
  BY <1>1, LapGot
<1>6. Skipped'
  BY <1>1, <1>4, <1>5, SkippedStep
<1>7. NoFullShift
  BY <1>1, <1>2, <1>3, LapNoFullShift
<1>8. LapPromise(Window)'
  BY <1>1, <1>2, <1>3, <1>7, LapAckStep
<1>9. AccountInv'
  BY <1>1, AccountStep DEF NoneBurnt
<1>10. QED
  BY <1>4, <1>6, <1>8, <1>9 DEF CleanInv

LEMMA CleanInit == Init => CleanInv /\ Stream!Init
<1>1. Window \in Nat
  BY WindowRange
<1>2. QED
  BY <1>1, LapInit, PromiseInit, AccountInit, StreamInit DEF CleanInv

LEMMA CleanStutter == CleanInv /\ UNCHANGED vars => CleanInv'
<1> SUFFICES ASSUME CleanInv, UNCHANGED vars PROVE CleanInv'
  OBVIOUS
<1>1. UNCHANGED <<nextMsg, sentPackets, sendOps, net, acked, holes, expectedRecvSeq,
                  delivered, receiveBuffer>>
  BY DEF vars, senderVars, receiverVars
<1>2. Got' = Got /\ Buffered' = Buffered /\ InWindow' = InWindow
  BY <1>1 DEF Got, DeliveredMsgs, Buffered, InWindow, Occupied
<1>3. AccountInv' /\ Skipped'
  BY <1>1, <1>2 DEF CleanInv, AccountInv, Accounted, Skipped, Handed
<1>4. LapInv(Window)'
  BY <1>1, <1>2 DEF CleanInv, LapInv, OrderedPrefix
<1>5. LapPromise(Window)'
  BY PromiseStutter DEF CleanInv
<1>6. QED
  BY <1>3, <1>4, <1>5 DEF CleanInv

(* An ordered channel that burns no number implements the FIFO stream for  *)
(* ever, in every run without a full shift of the ACK word, as long as a   *)
(* window and the age of a datagram fit into half of the numbers.          *)
THEOREM OrderedImplementsStreamPastWrap ==
  ASSUME Ordered, SeqMod % Window = 0, Lifetime + Window < HalfSpace
  PROVE  Spec /\ []NoneBurnt /\ [][NoFullShift]_vars => StreamSpec
<1>1. /\ NumberInv /\ CleanInv /\ NoneBurnt /\ NoneBurnt' /\ [Next]_vars /\ [NoFullShift]_vars
      => CleanInv' /\ [Stream!Next]_(Stream!vars)
  <2>1. CleanInv /\ UNCHANGED vars => CleanInv' /\ [Stream!Next]_(Stream!vars)
    BY CleanStutter DEF vars, senderVars, receiverVars, Stream!vars
  <2>2. QED
    BY <2>1, CleanStep
<1>2. QED
  BY <1>1, CleanInit, NumberInit, NumberStep, TypeCorrect, PTL
     DEF Spec, StreamSpec, Stream!Spec

-----------------------------------------------------------------------------
(* An unordered channel that burns no number *)

LooseInv ==
  /\ AccountInv /\ Skipped /\ LapPromise(Window)
  /\ \A p \in net : p.born <= p.msg + Window
  /\ \A x \in Got : x < nextMsg
  /\ Buffered = {} /\ Complete /\ AtMostOnce

(* Every message delivered is a number. *)
LEMMA GotNumbers == NumberInv => Got \subseteq Nat
<1> SUFFICES ASSUME NumberInv PROVE Got \subseteq Nat
  OBVIOUS
<1>1. DeliveredMsgs \subseteq Nat
  BY DEF NumberInv, TypeOK, DeliveredMsgs
<1>2. QED
  BY <1>1, LapKnown DEF Got

(* The message after the newest one received is in the send window, or has *)
(* not been given a number.                                                *)
LEMMA LooseNear ==
  ASSUME NumberInv, LooseInv, NoneBurnt, NEW t \in Nat, \A x \in Got : x <= t
  PROVE  nextMsg <= t + Window + 1
<1>1. Recent(Window)
  BY CleanRecent DEF LooseInv, AccountInv, LapPromise
<1>2. nextMsg \in Nat /\ Window \in Nat /\ Window >= 1
  BY WindowRange DEF NumberInv, TypeOK
<1>3. t + 1 \notin Got
  OBVIOUS
<1>4. CASE t + 1 < nextMsg
  <2>1. t + 1 \in 0 .. nextMsg - 1
    BY <1>2, <1>4
  <2>2. t + 1 \in InWindow
    BY <1>3, <2>1 DEF LooseInv, AccountInv, Accounted, NoneBurnt, LapPromise
  <2>3. nextMsg <= (t + 1) + Window
    BY <1>1, <2>2 DEF Recent
  <2>4. QED
    BY <1>2, <2>3
<1>5. CASE nextMsg <= t + 1
  BY <1>2, <1>5
<1>6. QED
  BY <1>2, <1>4, <1>5

(* How far a datagram that arrives is from the newest message *)
LEMMA LooseFar ==
  ASSUME NumberInv, LooseInv, NoneBurnt, NEW p \in net, Fresh(p), NEW t \in Got, Newest(t)
  PROVE  t \in Nat /\ p.msg - t <= Window /\ t - p.msg < Window + Lifetime
<1>1. t \in Nat /\ t < nextMsg /\ \A x \in Got : x <= t
  BY GotNumbers DEF LooseInv, Newest
<1>2. PICK m \in Nat : m = p.msg /\ m < nextMsg
  BY LapKnown
<1>3. nextMsg \in Nat /\ Window \in Nat /\ Lifetime \in Nat
  BY WindowRange, ChannelAssumption DEF NumberInv, TypeOK
<1>4. nextMsg <= t + Window + 1
  BY <1>1, LooseNear
<1>5. p.born <= p.msg + Window
  BY DEF LooseInv
<1>6. nextMsg <= p.msg + Window + Lifetime
  BY <1>3, <1>5, LapFresh
<1>7. QED
  BY <1>1, <1>2, <1>3, <1>4, <1>6

(* What is not taken for a duplicate has not been delivered. *)
LEMMA LooseIsNew ==
  ASSUME Lifetime + Window < HalfSpace, NumberInv, LooseInv, NoneBurnt,
         NEW p \in net, Fresh(p), ~isDuplicateOrStaleUnordered(p.seq)
  PROVE  p.msg \notin Got
<1>1. PICK m \in Nat : m = p.msg /\ p.seq = m % SeqMod
  BY LapKnown
<1>2. CASE ~tracker.has
  BY <1>2 DEF LooseInv, LapPromise
<1>3. CASE tracker.has
  <2>1. PICK t \in Got : Newest(t) /\ tracker.latest = t % SeqMod
    BY <1>3 DEF LooseInv, LapPromise
  <2>2. t \in Nat /\ t - m < Window + Lifetime
    BY <1>1, <2>1, LooseFar
  <2>3. /\ t \in Int /\ m \in Int /\ HalfSpace \in Nat /\ SeqMod \in Nat /\ HalfSpace < SeqMod
        /\ AckHistory \in Nat /\ Window \in Nat /\ Lifetime \in Nat
        /\ tracker.bits \in AckBits
    BY <2>2, HalfSpaceRange, WindowRange, ChannelAssumption DEF NumberInv, TypeOK, Trackers
  <2>4. WordComplete(tracker.bits, t, Got)
    BY <2>1 DEF LooseInv, Complete
  <2>5. CASE t < m
    <3>1. ~(m <= t)
      BY <2>3, <2>5
    <3>2. QED
      BY <1>1, <2>1, <3>1 DEF Newest
  <2>6. CASE m <= t
    <3>1. t - m < HalfSpace /\ t - m <= HalfSpace /\ t - m < SeqMod
      BY <2>2, <2>3
    <3>2. ~isNewerSequence(m % SeqMod, t % SeqMod)
      BY <2>3, <2>6, <3>1, NotNewerBehind
    <3>3. Delta(t % SeqMod, m % SeqMod) = t - m
      BY <2>3, <2>6, <3>1, DeltaAhead
    <3>4. ~(t - m > AckHistory) /\ ~isAcknowledged(m % SeqMod, t % SeqMod, tracker.bits)
      BY <1>1, <1>3, <2>1, <3>2, <3>3 DEF isDuplicateOrStaleUnordered
    <3>5. m # t /\ t - m - 1 \notin tracker.bits
      BY <2>3, <2>6, <3>1, <3>4, AcknowledgedMeans
    <3>6. QED
      BY <1>1, <2>4, <3>4, <3>5 DEF WordComplete
  <2>7. t < m \/ m <= t
    BY <2>3
  <2>8. QED
    BY <2>5, <2>6, <2>7
<1>4. QED
  BY <1>2, <1>3

LEMMA LooseDelivers ==
  ASSUME Lifetime + Window < HalfSpace, NumberInv, LooseInv, NoneBurnt, NoFullShift,
         NEW p \in net, RecvUnorderedNew(p)
  PROVE  /\ LapPromise(Window)' /\ Complete' /\ AtMostOnce' /\ Buffered' = {}
         /\ Got' = Got \cup {p.msg}
<1>1. PICK m \in Nat : m = p.msg /\ p.seq = m % SeqMod
  BY LapKnown
<1>2. /\ Fresh(p) /\ ~isDuplicateOrStaleUnordered(p.seq) /\ acked' = acked
      /\ tracker' \in markReceived(tracker, m % SeqMod) /\ SendAck(tracker')
      /\ delivered' = Append(delivered, m) /\ receiveBuffer' = receiveBuffer
  BY <1>1 DEF RecvUnorderedNew, senderVars
<1>3. /\ delivered \in Seq(Nat) /\ Len(delivered) \in Nat
      /\ Window \in Nat /\ HalfSpace \in Nat /\ Lifetime \in Nat
  BY WindowRange, HalfSpaceRange, ChannelAssumption DEF NumberInv, TypeOK
<1>4. /\ Len(delivered') = Len(delivered) + 1 /\ delivered'[Len(delivered) + 1] = m
      /\ \A i \in 1 .. Len(delivered) : delivered'[i] = delivered[i]
  BY <1>2, <1>3
<1>5. DeliveredMsgs' = DeliveredMsgs \cup {m}
  <2>1. 1 .. Len(delivered') = 1 .. Len(delivered) \cup {Len(delivered) + 1}
    BY <1>3, <1>4
  <2>2. QED
    BY <1>4, <2>1 DEF DeliveredMsgs
<1>6. Buffered' = {} /\ Got' = Got \cup {m}
  BY <1>2, <1>5 DEF Got, Buffered, LooseInv
<1>7. m \notin DeliveredMsgs
  BY <1>1, <1>2, LooseIsNew DEF Got
<1>8. AtMostOnce'
  <2>1. ASSUME NEW i \in 1 .. Len(delivered'), NEW j \in 1 .. Len(delivered'),
               delivered'[i] = delivered'[j]
        PROVE  i = j
    <3>1. i \in 1 .. Len(delivered) \/ i = Len(delivered) + 1
      BY <1>3, <1>4
    <3>2. j \in 1 .. Len(delivered) \/ j = Len(delivered) + 1
      BY <1>3, <1>4
    <3>3. \A k \in 1 .. Len(delivered) : delivered[k] # m
      BY <1>7 DEF DeliveredMsgs
    <3>4. QED
      BY <1>4, <2>1, <3>1, <3>2, <3>3 DEF LooseInv, AtMostOnce
  <2>2. QED
    BY <2>1 DEF AtMostOnce
<1>9. Got \subseteq Nat /\ Got \subseteq Got' /\ Got' \subseteq Nat
  BY <1>6, GotNumbers
<1>10. ASSUME NEW t \in Got, Newest(t) PROVE m - t < HalfSpace /\ t - m < HalfSpace
  <2>1. t \in Nat /\ m - t <= Window /\ t - m < Window + Lifetime
    BY <1>1, <1>2, <1>10, LooseFar
  <2>2. QED
    BY <1>1, <1>3, <2>1
<1>11. LapPromise(Window) /\ Complete
  BY DEF LooseInv
<1>12. /\ tracker'.has
       /\ \E t \in Got' : /\ \A x \in Got' : x <= t
                          /\ tracker'.latest = t % SeqMod
                          /\ WordSound(tracker'.bits, t, Got')
                          /\ Complete => WordComplete(tracker'.bits, t, Got')
  BY <1>2, <1>6, <1>9, <1>10, <1>11, LapMark
<1>13. PICK t \in Got' : /\ \A x \in Got' : x <= t
                         /\ tracker'.latest = t % SeqMod
                         /\ WordSound(tracker'.bits, t, Got')
                         /\ WordComplete(tracker'.bits, t, Got')
  BY <1>11, <1>12
<1>14. Complete'
  <2>1. ASSUME NEW u \in Got', \A x \in Got' : x <= u PROVE u = t
    <3>1. u <= t /\ t <= u /\ u \in Nat /\ t \in Nat
      BY <1>9, <1>13, <2>1
    <3>2. QED
      BY <3>1
  <2>2. QED
    BY <1>13, <2>1 DEF Complete, Newest
<1>15. \A u \in Got' : (\A x \in Got' : x <= u) => nextMsg <= u + Window + 1
  BY <1>9, LooseNear
<1>16. LapPromise(Window)'
  BY <1>2, <1>3, <1>9, <1>11, <1>12, <1>13, <1>15, LapSent
<1>17. QED
  BY <1>1, <1>6, <1>8, <1>14, <1>16

(* A narrow window makes no full shift here either. *)
LEMMA LooseNoFullShift ==
  ASSUME ~Ordered, Lifetime + Window < HalfSpace, Window < AckHistory,
         NumberInv, LooseInv, NoneBurnt, [Next]_vars
  PROVE  NoFullShift
<1>1. ASSUME NEW p \in net, RecvUnorderedNew(p) PROVE NoFullShift
  <2>1. PICK m \in Nat : m = p.msg /\ p.seq = m % SeqMod
    BY LapKnown
  <2>2. Fresh(p) /\ tracker' \in markReceived(tracker, m % SeqMod)
    BY <1>1, <2>1 DEF RecvUnorderedNew
  <2>3. Got \subseteq Nat /\ LapPromise(Window)
    BY GotNumbers DEF LooseInv
  <2>4. ASSUME NEW t \in Got, Newest(t) PROVE m - t < AckHistory /\ t - m < HalfSpace
    <3>1. t \in Nat /\ m - t <= Window /\ t - m < Window + Lifetime
      BY <2>1, <2>2, <2>4, LooseFar
    <3>2. /\ Window \in Nat /\ AckHistory \in Nat /\ HalfSpace \in Nat /\ Lifetime \in Nat
      BY WindowRange, HalfSpaceRange, ChannelAssumption
    <3>3. QED
      BY <2>1, <3>1, <3>2
  <2>5. QED
    BY <2>2, <2>3, <2>4, LapShort
<1>2. ASSUME ~(\E p \in net : RecvUnorderedNew(p)) PROVE tracker' = tracker
  BY <1>2 DEF Next, AsyncSend, AsyncSendSlotTaken, AsyncSendEncodeFails, SendSucceeds,
     SendFails, OnTick, Flush, RecvAck, RecvData, RecvOrderedOutside, RecvOrderedSlotTaken,
     RecvOrderedStore, RecvUnorderedDuplicate, Lose, LoseAck, vars, receiverVars
<1>3. QED
  BY <1>1, <1>2, LapStill

LEMMA LooseStep ==
  ASSUME ~Ordered, SeqMod % Window = 0, Lifetime + Window < HalfSpace,
         NumberInv, LooseInv, NoneBurnt, NoneBurnt', [Next]_vars,
         NoFullShift \/ Window < AckHistory
  PROVE  LooseInv'
<1>1. NoFullShift
  BY LooseNoFullShift
<1>2. /\ Recent(Window) /\ Got \subseteq Nat /\ LapPromise(Window)
      /\ \A t \in Got : Newest(t) => nextMsg <= t + Window + 1
  <2>1. Recent(Window)
    BY CleanRecent DEF LooseInv, AccountInv, LapPromise
  <2>2. Got \subseteq Nat /\ LapPromise(Window)
    BY GotNumbers DEF LooseInv
  <2>3. QED
    BY <2>1, <2>2, LooseNear DEF Newest
<1>3. /\ Window \in Nat /\ Window >= 1 /\ Window < HalfSpace /\ Window <= HalfSpace
  BY CleanReach, WindowRange
<1>4. AccountInv'
  BY AccountStep DEF LooseInv, NoneBurnt
<1>5. \A p \in net' : p.born <= p.msg + Window
  BY <1>2, <1>3, BornStep DEF LooseInv
<1>6. ASSUME UNCHANGED <<tracker, delivered, receiveBuffer>>
      PROVE  Complete' /\ AtMostOnce' /\ Buffered' = {} /\ Got' = Got
  <2>1. Got' = Got /\ Buffered' = Buffered /\ (AtMostOnce <=> AtMostOnce')
    BY <1>6 DEF Got, DeliveredMsgs, Buffered, AtMostOnce
  <2>2. QED
    BY <1>6, <2>1 DEF LooseInv, Complete, Newest
<1>7. /\ LapPromise(Window)' /\ Complete' /\ AtMostOnce' /\ Buffered' = {}
      /\ Got' \subseteq Got \cup {p.msg : p \in net}
  <2>1. ASSUME NEW p \in net, RecvUnorderedNew(p)
        PROVE  /\ LapPromise(Window)' /\ Complete' /\ AtMostOnce' /\ Buffered' = {}
               /\ Got' = Got \cup {p.msg}
    BY <1>1, <2>1, LooseDelivers
  <2>2. ASSUME NEW p \in net, RecvUnorderedDuplicate(p)
        PROVE  LapPromise(Window)' /\ UNCHANGED <<tracker, delivered, receiveBuffer>>
    <3>1. UNCHANGED <<tracker, delivered, receiveBuffer, acked>> /\ SendAck(tracker)
      BY <2>2 DEF RecvUnorderedDuplicate, senderVars, receiverVars
    <3>2. QED
      BY <1>2, <1>3, <3>1, LapIdle
  <2>3. ASSUME NEW a \in acks, RecvAck(a)
        PROVE  LapPromise(Window)' /\ UNCHANGED <<tracker, delivered, receiveBuffer>>
    <3>1. \A x \in Got : x \in Nat /\ x < nextMsg
      BY <1>2 DEF LooseInv
    <3>2. LapPromise(Window)'
      BY <1>2, <1>3, <2>3, <3>1, LapKept
    <3>3. QED
      BY <2>3, <3>2 DEF RecvAck, receiverVars
  <2>4. CASE \/ \E cw \in CongestionWindows :
                  AsyncSend(cw) \/ AsyncSendSlotTaken(cw) \/ AsyncSendEncodeFails(cw)
             \/ \E p \in sendOps : SendSucceeds(p) \/ SendFails(p)
             \/ \E due \in SUBSET Occupied : OnTick(due)
             \/ Flush
             \/ \E p \in net : Lose(p)
             \/ \E a \in acks : LoseAck(a)
             \/ UNCHANGED vars
    <3>1. UNCHANGED <<tracker, delivered, receiveBuffer, acked>> /\ acks' \subseteq acks
      BY <2>4 DEF AsyncSend, AsyncSendSlotTaken, AsyncSendEncodeFails, SendSucceeds, SendFails,
         OnTick, Flush, Lose, LoseAck, vars, senderVars, receiverVars
    <3>2. LapPromise(Window)'
      BY <1>2, <1>3, <3>1, LapIdle
    <3>3. QED
      BY <1>6, <3>1, <3>2
  <2>5. ASSUME NEW p \in net
        PROVE  ~RecvOrderedOutside(p) /\ ~RecvOrderedSlotTaken(p) /\ ~RecvOrderedStore(p)
    BY DEF RecvOrderedOutside, RecvOrderedSlotTaken, RecvOrderedStore
  <2>6. CASE \E p \in net : RecvUnorderedNew(p)
    BY <2>1, <2>6
  <2>7. CASE \/ \E p \in net : RecvUnorderedDuplicate(p)
             \/ \E a \in acks : RecvAck(a)
    BY <1>6, <2>2, <2>3, <2>7
  <2>8. QED
    BY <2>4, <2>5, <2>6, <2>7 DEF Next, RecvData
<1>8. Skipped'
  BY <1>7, SkippedStep DEF LooseInv
<1>9. \A x \in Got' : x < nextMsg'
  <2>1. nextMsg \in Nat /\ (nextMsg' = nextMsg \/ nextMsg' = nextMsg + 1)
    BY DEF NumberInv, TypeOK, Next, AsyncSend, AsyncSendSlotTaken, AsyncSendEncodeFails,
       TakeSequenceNumber, SendSucceeds, SendFails, OnTick, Flush, RecvAck, RecvData,
       RecvOrderedOutside, RecvOrderedSlotTaken, RecvOrderedStore, RecvUnorderedDuplicate,
       RecvUnorderedNew, Lose, LoseAck, vars, senderVars
  <2>2. \A x \in Got' : x \in Nat /\ x < nextMsg
    BY <1>2, <1>7, LapKnown DEF LooseInv
  <2>3. QED
    BY <2>1, <2>2
<1>10. QED
  BY <1>4, <1>5, <1>7, <1>8, <1>9 DEF LooseInv

LEMMA LooseInit == Init => LooseInv
<1> SUFFICES ASSUME Init PROVE LooseInv
  OBVIOUS
<1>1. Got = {} /\ Skipped
  BY LapInit
<1>2. Buffered = {} /\ AtMostOnce /\ net = {}
  BY DEF Init, Buffered, AtMostOnce
<1>3. QED
  BY <1>1, <1>2, PromiseInit, AccountInit DEF LooseInv, Complete

LEMMA LooseStutter == LooseInv /\ UNCHANGED vars => LooseInv'
<1> SUFFICES ASSUME LooseInv, UNCHANGED vars PROVE LooseInv'
  OBVIOUS
<1>1. UNCHANGED <<nextMsg, sentPackets, sendOps, net, acked, holes, tracker,
                  delivered, receiveBuffer>>
  BY DEF vars, senderVars, receiverVars
<1>2. Got' = Got /\ Buffered' = Buffered /\ InWindow' = InWindow
  BY <1>1 DEF Got, DeliveredMsgs, Buffered, InWindow, Occupied
<1>3. AccountInv' /\ Skipped'
  BY <1>1, <1>2 DEF LooseInv, AccountInv, Accounted, Skipped, Handed
<1>4. Complete' /\ AtMostOnce'
  BY <1>1, <1>2 DEF LooseInv, Complete, Newest, AtMostOnce
<1>5. LapPromise(Window)'
  BY PromiseStutter DEF LooseInv
<1>6. QED
  BY <1>1, <1>2, <1>3, <1>4, <1>5 DEF LooseInv

(* An unordered channel that burns no number delivers no message twice,    *)
(* over any number of wraps, in every run without a full shift of the ACK  *)
(* word.  A late copy is told from the new message that has its number:    *)
(* nothing that can still arrive is half of the numbers old.               *)
THEOREM AtMostOncePastWrap ==
  ASSUME ~Ordered, SeqMod % Window = 0, Lifetime + Window < HalfSpace
  PROVE  Spec /\ []NoneBurnt /\ [][NoFullShift]_vars => []AtMostOnce
<1>1. NumberInv /\ LooseInv /\ NoneBurnt /\ NoneBurnt' /\ [Next]_vars /\ [NoFullShift]_vars
        => LooseInv'
  BY LooseStep, LooseStutter
<1>2. LooseInv => AtMostOnce
  BY DEF LooseInv
<1>3. QED
  BY <1>1, <1>2, LooseInit, NumberInit, NumberStep, TypeCorrect, PTL DEF Spec

(* On both kinds of channel an ACK is a promise, under the same conditions *)
(* and for as long.                                                        *)
THEOREM AckSoundPastWrap ==
  ASSUME SeqMod % Window = 0, Lifetime + Window < HalfSpace
  PROVE  Spec /\ []NoneBurnt /\ [][NoFullShift]_vars => []AckSound
<1>1. ASSUME Ordered PROVE Spec /\ []NoneBurnt /\ [][NoFullShift]_vars => []AckSound
  <2>1. NumberInv /\ CleanInv /\ NoneBurnt /\ NoneBurnt' /\ [Next]_vars /\ [NoFullShift]_vars
          => CleanInv'
    BY <1>1, CleanStep, CleanStutter
  <2>2. CleanInv => AckSound
    BY DEF CleanInv, LapPromise, AckSound, Got
  <2>3. QED
    BY <2>1, <2>2, CleanInit, NumberInit, NumberStep, TypeCorrect, PTL DEF Spec
<1>2. ASSUME ~Ordered PROVE Spec /\ []NoneBurnt /\ [][NoFullShift]_vars => []AckSound
  <2>1. NumberInv /\ LooseInv /\ NoneBurnt /\ NoneBurnt' /\ [Next]_vars /\ [NoFullShift]_vars
          => LooseInv'
    BY <1>2, LooseStep, LooseStutter
  <2>2. LooseInv => AckSound
    BY DEF LooseInv, LapPromise, AckSound, Got
  <2>3. QED
    BY <2>1, <2>2, LooseInit, NumberInit, NumberStep, TypeCorrect, PTL DEF Spec
<1>3. QED
  BY <1>1, <1>2

-----------------------------------------------------------------------------
(* Stop and wait: with one packet in flight no number meets a taken slot.   *)

LEMMA NeverBurnt ==
  ASSUME \A cw \in CongestionWindows : effectiveSendWindow(cw) = 1,
         ~EncodeCanFail, ~SendCanFail
  PROVE  NumberInv /\ InFlightExact /\ NoneBurnt /\ [Next]_vars => NoneBurnt'
<1> SUFFICES ASSUME NumberInv, InFlightExact, NoneBurnt, [Next]_vars PROVE NoneBurnt'
  OBVIOUS
<1>1. ASSUME NEW cw \in CongestionWindows, AsyncSendSlotTaken(cw)
      PROVE  FALSE
  <2>1. /\ inFlightCount < 1 /\ inFlightCount \in Nat
        /\ sentPackets[slotIndex(nextSeq)] # NoPacket
    BY <1>1 DEF AsyncSendSlotTaken, TakeSequenceNumber, NumberInv, TypeOK
  <2>2. Cardinality(Occupied) = 0
    BY <2>1 DEF InFlightExact
  <2>3. Occupied = {}
    <3>1. IsFiniteSet(Occupied)
      BY SlotsFinite DEF Occupied
    <3>2. QED
      BY <2>2, <3>1, FS_EmptySet
  <2>4. nextSeq \in Nat
    BY HalfSpaceRange DEF NumberInv, TypeOK, Seqs
  <2>5. slotIndex(nextSeq) \in Slots
    BY <2>4, SlotIndexRange
  <2>6. QED
    BY <2>1, <2>3, <2>5 DEF Occupied
<1>2. holes' = holes
  BY <1>1 DEF Next, AsyncSend, AsyncSendEncodeFails, SendSucceeds, SendFails, OnTick, Flush,
     RecvAck, RecvData, RecvOrderedOutside, RecvOrderedSlotTaken, RecvOrderedStore,
     RecvUnorderedDuplicate, RecvUnorderedNew, Lose, LoseAck, vars, senderVars
<1>3. QED
  BY <1>2 DEF NoneBurnt

(* An ordered channel with one packet in flight and a codec and a socket   *)
(* that do not fail implements the FIFO stream, however long it runs, and  *)
(* whatever the path loses, duplicates, delays and reorders.               *)
THEOREM StopAndWaitImplementsStream ==
  ASSUME Ordered, SeqMod % Window = 0, Lifetime + Window < HalfSpace, Window < AckHistory,
         \A cw \in CongestionWindows : effectiveSendWindow(cw) = 1,
         ~EncodeCanFail, ~SendCanFail
  PROVE  Spec => StreamSpec
<1>1. NumberInv /\ CleanInv /\ NoneBurnt /\ NoneBurnt' /\ [Next]_vars
        => CleanInv' /\ [Stream!Next]_(Stream!vars)
  BY CleanStep
<1>2. NumberInv /\ InFlightExact /\ NoneBurnt /\ [Next]_vars => NoneBurnt'
  BY NeverBurnt
<1>3. Init => NoneBurnt
  BY DEF Init, NoneBurnt
<1>4. QED
  BY <1>1, <1>2, <1>3, CleanInit, NumberInit, NumberStep, TypeCorrect, InFlightCorrect, PTL
     DEF Spec, StreamSpec, Stream!Spec

(* Likewise an unordered one delivers no message twice. *)
THEOREM StopAndWaitAtMostOnce ==
  ASSUME ~Ordered, SeqMod % Window = 0, Lifetime + Window < HalfSpace, Window < AckHistory,
         \A cw \in CongestionWindows : effectiveSendWindow(cw) = 1,
         ~EncodeCanFail, ~SendCanFail
  PROVE  Spec => []AtMostOnce
<1>1. NumberInv /\ LooseInv /\ NoneBurnt /\ NoneBurnt' /\ [Next]_vars => LooseInv'
  BY LooseStep
<1>2. NumberInv /\ InFlightExact /\ NoneBurnt /\ [Next]_vars => NoneBurnt'
  BY NeverBurnt
<1>3. Init => NoneBurnt
  BY DEF Init, NoneBurnt
<1>4. LooseInv => AtMostOnce
  BY DEF LooseInv
<1>5. QED
  BY <1>1, <1>2, <1>3, <1>4, LooseInit, NumberInit, NumberStep, TypeCorrect, InFlightCorrect,
     PTL DEF Spec
=============================================================================
