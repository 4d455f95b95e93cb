---------------------------- MODULE PartsProofs ----------------------------
(***************************************************************************)
(* Theorems about the parts that keep a state of their own: the ACK        *)
(* tracker, the unreliable channel, the congestion controllers, the window *)
(* helpers and the packet codec, for every size of the sequence space, of  *)
(* the ACK word, of the window and of a byte, and streams of any length.   *)
(***************************************************************************)
EXTENDS AckTracker, UnreliableChannel, Congestion, WindowHelpers, Codec,
        ChannelCommonProofs, SequenceTheorems, WellFoundedInduction, TLAPS

-----------------------------------------------------------------------------
(* The ACK tracker *)

TrackerTypes ==
  /\ tracker \in Trackers
  /\ newest \in Int /\ newest >= -1
  /\ seen \in SUBSET Nat
  /\ tracker.has <=> newest >= 0
  /\ tracker.has => tracker.latest = newest % SeqMod
  /\ ~tracker.has => seen = {}

SoundInv == TrackerTypes /\ (tracker.has => WordSound(tracker.bits, newest, seen))

CompleteInv == TrackerTypes /\ (tracker.has => WordComplete(tracker.bits, newest, seen))

LEMMA TrackerStarts == TrackerInit => SoundInv /\ CompleteInv
<1> SUFFICES ASSUME TrackerInit PROVE TrackerTypes /\ ~tracker.has
  BY DEF SoundInv, CompleteInv
<1>1. NoneReceived \in Trackers /\ ~NoneReceived.has
  BY SeqModAssumption DEF NoneReceived, Trackers, Seqs, AckBits
<1>2. QED
  BY <1>1 DEF TrackerInit, TrackerTypes

(* The three cases of markReceived *)
First(i) == ~tracker.has /\ newest' = i /\ tracker'.bits = {}

Ahead(i) ==
  /\ tracker.has /\ newest < i /\ i - newest \in Jumps /\ newest' = i
  /\ tracker'.bits \in AdvancedBits(tracker.bits, i - newest)

Behind(i) ==
  /\ tracker.has /\ i <= newest /\ newest' = newest
  /\ tracker'.bits = LateBits(tracker.bits, newest - i)

LEMMA TrackerMoves ==
  ASSUME TrackerTypes, NEW i \in 0 .. MaxIndex, MarkReceived(i)
  PROVE  /\ i \in Nat /\ seen' = seen \cup {i} /\ TrackerTypes' /\ tracker'.has
         /\ First(i) \/ Ahead(i) \/ Behind(i)
<1>1. /\ i \in Nat /\ i \in Int /\ newest \in Int /\ seen' = seen \cup {i}
      /\ tracker' \in markReceived(tracker, i % SeqMod)
      /\ newest' = IF i > newest THEN i ELSE newest
      /\ i > newest => i - newest \in Jumps
      /\ newest - i < HalfSpace
  BY BoundsAssumption DEF MarkReceived, TrackerTypes
<1>2. i % SeqMod \in Seqs
  BY <1>1, HalfSpaceRange, ModRange DEF Seqs
<1>3. tracker' \in Trackers
  BY <1>1, <1>2, MarkReceivedType DEF TrackerTypes
<1>4. seen' \in SUBSET Nat
  BY <1>1 DEF TrackerTypes
<1>5. CASE ~tracker.has
  <2>1. tracker' = [has |-> TRUE, latest |-> i % SeqMod, bits |-> {}]
    BY <1>1, <1>5, MarkFirst
  <2>2. newest' = i
    BY <1>1, <1>5 DEF TrackerTypes
  <2>3. QED
    BY <1>1, <1>3, <1>4, <1>5, <2>1, <2>2 DEF TrackerTypes, First
<1>6. CASE tracker.has /\ newest < i
  <2>1. i - newest \in Jumps /\ i - newest < HalfSpace /\ newest' = i
    BY <1>1, <1>6, BoundsAssumption, HalfSpaceRange
  <2>2. /\ tracker'.has /\ tracker'.latest = i % SeqMod
        /\ tracker'.bits \in AdvancedBits(tracker.bits, i - newest)
    BY <1>1, <1>6, <2>1, MarkAhead DEF TrackerTypes
  <2>3. QED
    BY <1>1, <1>3, <1>4, <1>6, <2>1, <2>2 DEF TrackerTypes, Ahead
<1>7. CASE tracker.has /\ i <= newest
  <2>1. newest' = newest
    BY <1>1, <1>7
  <2>2. /\ tracker'.has /\ tracker'.latest = newest % SeqMod
        /\ tracker'.bits = LateBits(tracker.bits, newest - i)
    <3>1. tracker \in Trackers /\ tracker.has /\ tracker.latest = newest % SeqMod
      BY <1>7 DEF TrackerTypes
    <3>2. i \in Int /\ newest \in Int /\ i <= newest /\ newest - i < HalfSpace
          /\ tracker' \in markReceived(tracker, i % SeqMod)
      BY <1>1, <1>7
    <3>3. QED
      BY <3>1, <3>2, MarkBehind
  <2>3. QED
    BY <1>1, <1>3, <1>4, <1>7, <2>1, <2>2 DEF TrackerTypes, Behind
<1>8. QED
  BY <1>1, <1>5, <1>6, <1>7

LEMMA SoundStep ==
  ASSUME AckHistory \notin Jumps
  PROVE  SoundInv /\ [TrackerNext]_trackerVars => SoundInv'
<1> SUFFICES ASSUME SoundInv, [TrackerNext]_trackerVars PROVE SoundInv'
  OBVIOUS
<1>1. ASSUME NEW i \in 0 .. MaxIndex, MarkReceived(i) PROVE SoundInv'
  <2>1. TrackerTypes /\ newest \in Int /\ tracker.bits \in AckBits
    BY DEF SoundInv, TrackerTypes, Trackers
  <2>2. /\ i \in Nat /\ i \in Int /\ seen' = seen \cup {i} /\ TrackerTypes' /\ tracker'.has
        /\ First(i) \/ Ahead(i) \/ Behind(i)
    BY <1>1, <2>1, TrackerMoves
  <2>3. WordSound(tracker'.bits, newest', seen')
    <3>1. CASE First(i)
      BY <2>2, <3>1 DEF WordSound, First
    <3>2. CASE Ahead(i)
      <4>1. WordSound(tracker.bits, newest, seen) /\ i - newest # AckHistory
        BY <3>2 DEF SoundInv, Ahead
      <4>2. WordSound(tracker'.bits, i, seen \cup {i})
        BY <2>1, <2>2, <3>2, <4>1, SoundAhead DEF Ahead
      <4>3. QED
        BY <2>2, <3>2, <4>2 DEF Ahead
    <3>3. CASE Behind(i)
      <4>1. WordSound(tracker.bits, newest, seen)
        BY <3>3 DEF SoundInv, Behind
      <4>2. WordSound(tracker'.bits, newest, seen \cup {i})
        BY <2>1, <2>2, <3>3, <4>1, SoundBehind DEF Behind
      <4>3. QED
        BY <2>2, <3>3, <4>2 DEF Behind
    <3>4. QED
      BY <2>2, <3>1, <3>2, <3>3
  <2>4. QED
    BY <2>2, <2>3 DEF SoundInv
<1>2. CASE UNCHANGED trackerVars
  BY <1>2 DEF SoundInv, TrackerTypes, trackerVars
<1>3. QED
  BY <1>1, <1>2 DEF TrackerNext

LEMMA CompleteStep == CompleteInv /\ [TrackerNext]_trackerVars => CompleteInv'
<1> SUFFICES ASSUME CompleteInv, [TrackerNext]_trackerVars PROVE CompleteInv'
  OBVIOUS
<1>1. ASSUME NEW i \in 0 .. MaxIndex, MarkReceived(i) PROVE CompleteInv'
  <2>1. TrackerTypes /\ newest \in Int /\ tracker.bits \in AckBits /\ seen \in SUBSET Int
    BY DEF CompleteInv, TrackerTypes, Trackers
  <2>2. /\ i \in Nat /\ i \in Int /\ seen' = seen \cup {i} /\ TrackerTypes' /\ tracker'.has
        /\ First(i) \/ Ahead(i) \/ Behind(i)
    BY <1>1, <2>1, TrackerMoves
  <2>3. WordComplete(tracker'.bits, newest', seen')
    <3>1. CASE First(i)
      <4>1. seen = {}
        BY <2>1, <3>1 DEF TrackerTypes, First
      <4>2. seen' = {i} /\ i <= i
        BY <2>2, <4>1
      <4>3. QED
        BY <3>1, <4>2 DEF WordComplete, First
    <3>2. CASE Ahead(i)
      <4>1. WordComplete(tracker.bits, newest, seen)
        BY <3>2 DEF CompleteInv, Ahead
      <4>2. WordComplete(tracker'.bits, i, seen \cup {i})
        BY <2>1, <2>2, <3>2, <4>1, CompleteAhead DEF Ahead
      <4>3. QED
        BY <2>2, <3>2, <4>2 DEF Ahead
    <3>3. CASE Behind(i)
      <4>1. WordComplete(tracker.bits, newest, seen)
        BY <3>3 DEF CompleteInv, Behind
      <4>2. WordComplete(tracker'.bits, newest, seen \cup {i})
        BY <2>1, <2>2, <3>3, <4>1, CompleteBehind DEF Behind
      <4>3. QED
        BY <2>2, <3>3, <4>2 DEF Behind
    <3>4. QED
      BY <2>2, <3>1, <3>2, <3>3
  <2>4. QED
    BY <2>2, <2>3 DEF CompleteInv
<1>2. CASE UNCHANGED trackerVars
  BY <1>2 DEF CompleteInv, TrackerTypes, trackerVars
<1>3. QED
  BY <1>1, <1>2 DEF TrackerNext

(* What the ACK word means, in either direction *)
LEMMA AckedMeans ==
  ASSUME TrackerTypes, tracker.has, NEW x \in Int, x <= newest, newest - x <= AckHistory
  PROVE  Acked(x) <=> x = newest \/ newest - x - 1 \in tracker.bits
<1>1. newest \in Int /\ tracker.bits \in AckBits /\ tracker.latest = newest % SeqMod
  BY DEF TrackerTypes, Trackers
<1>2. newest - x < HalfSpace
  BY <1>1, HalfSpaceRange
<1>3. QED
  BY <1>1, <1>2, AcknowledgedMeans DEF Acked

(* Unless a datagram is exactly as far ahead of the newest one as the ACK  *)
(* word is wide, nothing is ever reported that has not been received.      *)
THEOREM BitsSoundCorrect ==
  ASSUME AckHistory \notin Jumps
  PROVE  TrackerSpec => []BitsSound
<1>1. ASSUME SoundInv PROVE BitsSound
  <2>1. ASSUME tracker.has, NEW x \in newest - AckHistory .. newest, Acked(x)
        PROVE  x \in seen
    <3>1. TrackerTypes /\ newest \in Int /\ AckHistory \in Int
      BY <1>1, HalfSpaceRange DEF SoundInv, TrackerTypes
    <3>2. x \in Int /\ x <= newest /\ newest - x <= AckHistory
      BY <3>1
    <3>3. x = newest \/ newest - x - 1 \in tracker.bits
      BY <2>1, <3>1, <3>2, AckedMeans
    <3>4. newest - (newest - x - 1) - 1 = x
      BY <3>1, <3>2
    <3>5. QED
      BY <1>1, <2>1, <3>3, <3>4 DEF SoundInv, WordSound
  <2>2. QED
    BY <2>1 DEF BitsSound
<1>2. SoundInv /\ [TrackerNext]_trackerVars => SoundInv'
  BY SoundStep
<1>3. TrackerInit => SoundInv
  BY TrackerStarts
<1>4. QED
  BY <1>1, <1>2, <1>3, PTL DEF TrackerSpec

(* Everything received within the reach of the ACK word is reported,       *)
(* whatever the distances, that of the word's width included.              *)
THEOREM BitsCompleteCorrect == TrackerSpec => []BitsComplete
<1>1. ASSUME CompleteInv PROVE BitsComplete
  <2>1. ASSUME NEW x \in seen, newest - x <= AckHistory
        PROVE  Acked(x)
    <3>1. TrackerTypes /\ newest \in Int /\ AckHistory \in Int /\ x \in Int /\ tracker.has
      BY <1>1, HalfSpaceRange DEF CompleteInv, TrackerTypes
    <3>2. x <= newest /\ (x = newest \/ newest - x > AckHistory \/ newest - x - 1 \in tracker.bits)
      BY <1>1, <3>1 DEF CompleteInv, WordComplete
    <3>3. x = newest \/ newest - x - 1 \in tracker.bits
      BY <2>1, <3>1, <3>2
    <3>4. QED
      BY <2>1, <3>1, <3>2, <3>3, AckedMeans
  <2>2. QED
    BY <2>1 DEF BitsComplete
<1>2. TrackerInit => CompleteInv
  BY TrackerStarts
<1>3. QED
  BY <1>1, <1>2, CompleteStep, PTL DEF TrackerSpec

-----------------------------------------------------------------------------
(* The unreliable channel *)

UnreliableTypes ==
  /\ nextMsg \in Nat /\ nextSeq = nextMsg % SeqMod
  /\ newestArrived \in Int /\ newestArrived >= -1 /\ newestArrived < nextMsg
  /\ delivered \in Seq(Nat)
  /\ \A p \in net : p.msg \in Nat /\ p.seq = p.msg % SeqMod /\ p.msg < nextMsg

(* The receiver has not missed too many messages in a row, and its lastSeq_ *)
(* is the number of the newest message that has arrived, which is the last *)
(* one delivered.                                                          *)
UnreliableInv ==
  /\ UnreliableTypes
  /\ nextMsg - newestArrived <= MaxOutage + 1
  /\ IF newestArrived = -1
       THEN hasDelivered = FALSE /\ delivered = <<>>
       ELSE /\ hasDelivered = TRUE /\ lastSeq = newestArrived % SeqMod
            /\ delivered # <<>> /\ delivered[Len(delivered)] = newestArrived
  /\ Sequenced

LEMMA UnreliableStarts == UnreliableInit => UnreliableInv
<1> SUFFICES ASSUME UnreliableInit PROVE UnreliableInv
  OBVIOUS
<1>1. 0 % SeqMod = 0
  BY HalfSpaceRange, ModSmall
<1>2. UnreliableTypes
  BY <1>1 DEF UnreliableInit, UnreliableTypes
<1>3. nextMsg - newestArrived <= MaxOutage + 1
  BY UnreliableAssumption DEF UnreliableInit
<1>4. Sequenced
  BY DEF UnreliableInit, Sequenced
<1>5. QED
  BY <1>2, <1>3, <1>4 DEF UnreliableInv, UnreliableInit

LEMMA UnreliableSends ==
  ASSUME UnreliableInv, AsyncSend \/ AsyncSendEncodeFails
  PROVE  UnreliableInv'
<1>1. /\ nextMsg' = nextMsg + 1 /\ nextSeq' = Succ(nextSeq)
      /\ nextMsg - newestArrived <= MaxOutage
      /\ lastSeq' = lastSeq /\ hasDelivered' = hasDelivered /\ delivered' = delivered
      /\ newestArrived' = newestArrived
  BY DEF AsyncSend, AsyncSendEncodeFails, TakeSequenceNumber
<1>2. UnreliableTypes
  BY DEF UnreliableInv
<1>3. nextMsg \in Nat /\ newestArrived \in Int /\ MaxOutage \in Nat
  BY <1>2, UnreliableAssumption DEF UnreliableTypes
<1>4. net' \subseteq net \cup {[seq |-> nextSeq, msg |-> nextMsg]}
  BY DEF AsyncSend, AsyncSendEncodeFails
<1>5. nextSeq' = nextMsg' % SeqMod
  <2>1. SeqMod \in Nat /\ SeqMod >= 1
    BY HalfSpaceRange
  <2>2. ((nextMsg % SeqMod) + 1) % SeqMod = (nextMsg + 1) % SeqMod
    BY <1>3, <2>1, ModSucc
  <2>3. QED
    BY <1>1, <1>2, <2>2 DEF UnreliableTypes, Succ
<1>6. \A p \in net' : p.msg \in Nat /\ p.seq = p.msg % SeqMod /\ p.msg < nextMsg'
  <2>1. \A p \in net : p.msg \in Nat /\ p.seq = p.msg % SeqMod /\ p.msg < nextMsg + 1
    BY <1>2, <1>3 DEF UnreliableTypes
  <2>2. QED
    BY <1>1, <1>2, <1>3, <1>4, <2>1 DEF UnreliableTypes
<1>7. UnreliableTypes'
  BY <1>1, <1>2, <1>3, <1>5, <1>6 DEF UnreliableTypes
<1>8. (nextMsg - newestArrived <= MaxOutage + 1)'
  BY <1>1, <1>3
<1>9. Sequenced'
  BY <1>1 DEF UnreliableInv, Sequenced
<1>10. QED
  BY <1>1, <1>7, <1>8, <1>9 DEF UnreliableInv

(* A datagram that arrives is dropped just when it is not newer. *)
LEMMA DropsOld ==
  ASSUME MaxOutage < HalfSpace, Lifetime <= HalfSpace,
         UnreliableInv, NEW p \in net, Arrives(p)
  PROVE  Drops(p) <=> p.msg <= newestArrived
<1>1. /\ p.msg \in Nat /\ p.msg \in Int /\ p.seq = p.msg % SeqMod /\ p.msg < nextMsg
      /\ nextMsg \in Nat /\ newestArrived \in Int /\ newestArrived < nextMsg
      /\ newestArrived >= -1 /\ MaxOutage \in Nat /\ Lifetime \in Nat /\ HalfSpace \in Nat
      /\ nextMsg - newestArrived <= MaxOutage + 1
      /\ nextMsg - p.msg - 1 <= Lifetime
  BY UnreliableAssumption, HalfSpaceRange DEF UnreliableInv, UnreliableTypes, Arrives
<1>2. CASE newestArrived = -1
  BY <1>1, <1>2 DEF UnreliableInv, Drops
<1>3. CASE newestArrived # -1 /\ p.msg <= newestArrived
  <2>1. newestArrived - p.msg <= HalfSpace
    BY <1>1, <1>3
  <2>2. ~isNewerSequence(p.seq, lastSeq)
    BY <1>1, <1>3, <2>1, NotNewerBehind DEF UnreliableInv
  <2>3. QED
    BY <1>3, <2>2 DEF Drops, isStaleOrDuplicate, UnreliableInv
<1>4. CASE newestArrived # -1 /\ newestArrived < p.msg
  <2>1. p.msg - newestArrived < HalfSpace
    BY <1>1, <1>4
  <2>2. isNewerSequence(p.seq, lastSeq)
    BY <1>1, <1>4, <2>1, NewerAhead DEF UnreliableInv
  <2>3. QED
    BY <1>1, <1>4, <2>2 DEF Drops, isStaleOrDuplicate
<1>5. QED
  BY <1>1, <1>2, <1>3, <1>4

LEMMA UnreliableDrops ==
  ASSUME MaxOutage < HalfSpace, Lifetime <= HalfSpace,
         UnreliableInv, NEW p \in net, OnRecvStale(p) \/ Lose(p)
  PROVE  UnreliableInv'
<1>1. p.msg \in Nat /\ newestArrived \in Int
  BY DEF UnreliableInv, UnreliableTypes
<1>2. /\ nextSeq' = nextSeq /\ nextMsg' = nextMsg /\ lastSeq' = lastSeq
      /\ hasDelivered' = hasDelivered /\ delivered' = delivered /\ net' \subseteq net
  BY DEF OnRecvStale, Lose, Arrives
<1>3. newestArrived' = newestArrived
  <2>1. CASE Lose(p)
    BY <2>1 DEF Lose
  <2>2. CASE OnRecvStale(p)
    <3>1. p.msg <= newestArrived
      BY <2>2, DropsOld DEF OnRecvStale
    <3>2. QED
      BY <2>2, <3>1, <1>1 DEF OnRecvStale, Arrives
  <2>3. QED
    BY <2>1, <2>2
<1>4. UnreliableTypes' /\ Sequenced'
  BY <1>2, <1>3 DEF UnreliableInv, UnreliableTypes, Sequenced
<1>5. QED
  BY <1>2, <1>3, <1>4 DEF UnreliableInv

LEMMA UnreliableDelivers ==
  ASSUME MaxOutage < HalfSpace, Lifetime <= HalfSpace,
         UnreliableInv, NEW p \in net, OnRecvNewer(p)
  PROVE  UnreliableInv'
<1>1. /\ p.msg \in Nat /\ p.msg \in Int /\ p.seq = p.msg % SeqMod /\ p.msg < nextMsg
      /\ nextMsg \in Nat /\ newestArrived \in Int /\ newestArrived >= -1
      /\ MaxOutage \in Nat /\ nextMsg - newestArrived <= MaxOutage + 1
      /\ delivered \in Seq(Nat)
  BY UnreliableAssumption DEF UnreliableInv, UnreliableTypes
<1>2. newestArrived < p.msg
  BY <1>1, DropsOld DEF OnRecvNewer
<1>3. /\ newestArrived' = p.msg /\ hasDelivered' = TRUE /\ lastSeq' = p.seq
      /\ delivered' = Append(delivered, p.msg)
      /\ nextSeq' = nextSeq /\ nextMsg' = nextMsg /\ net' = net
  BY <1>1, <1>2 DEF OnRecvNewer, Arrives
<1>4. /\ delivered' \in Seq(Nat) /\ Len(delivered') = Len(delivered) + 1
      /\ delivered' # <<>> /\ delivered'[Len(delivered')] = p.msg
      /\ \A i \in 1 .. Len(delivered) : delivered'[i] = delivered[i]
  BY <1>1, <1>3
<1>5. UnreliableTypes'
  BY <1>1, <1>3, <1>4 DEF UnreliableInv, UnreliableTypes
<1>6. (nextMsg - newestArrived <= MaxOutage + 1)'
  BY <1>1, <1>2, <1>3
<1>7. Sequenced'
  <2>1. ASSUME NEW i \in 1 .. Len(delivered)
        PROVE  delivered'[i] < delivered'[i + 1]
    <3>1. Len(delivered) \in Nat /\ i \in Nat
      BY <1>1
    <3>2. CASE i < Len(delivered)
      <4>1. i \in 1 .. Len(delivered) - 1 /\ i + 1 \in 1 .. Len(delivered)
        BY <3>1, <3>2
      <4>2. delivered[i] < delivered[i + 1]
        BY <4>1 DEF UnreliableInv, Sequenced
      <4>3. QED
        BY <1>4, <4>1, <4>2
    <3>3. CASE i = Len(delivered)
      <4>1. delivered # <<>>
        BY <3>1, <3>3
      <4>2. newestArrived # -1 /\ delivered[Len(delivered)] = newestArrived
        BY <4>1 DEF UnreliableInv
      <4>3. delivered'[i] = newestArrived /\ delivered'[i + 1] = p.msg
        BY <1>4, <3>3, <4>2
      <4>4. QED
        BY <1>2, <4>3
    <3>4. QED
      BY <3>1, <3>2, <3>3
  <2>2. Len(delivered') - 1 = Len(delivered)
    BY <1>1, <1>4
  <2>3. QED
    BY <2>1, <2>2 DEF Sequenced
<1>8. newestArrived' # -1
  BY <1>1, <1>3
<1>9. QED
  BY <1>1, <1>3, <1>4, <1>5, <1>6, <1>7, <1>8 DEF UnreliableInv

LEMMA UnreliableStep ==
  ASSUME MaxOutage < HalfSpace, Lifetime <= HalfSpace
  PROVE  UnreliableInv /\ [UnreliableNext]_unreliableVars => UnreliableInv'
<1> SUFFICES ASSUME UnreliableInv, [UnreliableNext]_unreliableVars PROVE UnreliableInv'
  OBVIOUS
<1>1. CASE AsyncSend \/ AsyncSendEncodeFails
  BY <1>1, UnreliableSends
<1>2. ASSUME NEW p \in net, OnRecvStale(p) \/ OnRecvNewer(p) \/ Lose(p) PROVE UnreliableInv'
  BY <1>2, UnreliableDrops, UnreliableDelivers
<1>3. CASE UNCHANGED unreliableVars
  BY <1>3 DEF unreliableVars, UnreliableInv, UnreliableTypes, Sequenced
<1>4. QED
  BY <1>1, <1>2, <1>3 DEF UnreliableNext

(* Deliveries go forward only, however often the sequence numbers wrap, as *)
(* long as no datagram is older than half of the sequence space when it    *)
(* arrives and fewer messages than that are lost in a row.                 *)
THEOREM SequencedCorrect ==
  ASSUME MaxOutage < HalfSpace, Lifetime <= HalfSpace
  PROVE  UnreliableSpec => []Sequenced
<1>1. UnreliableInv => Sequenced
  BY DEF UnreliableInv
<1>2. UnreliableInv /\ [UnreliableNext]_unreliableVars => UnreliableInv'
  BY UnreliableStep
<1>3. QED
  BY <1>1, <1>2, UnreliableStarts, PTL DEF UnreliableSpec

(* Under the same conditions the newest message that has arrived has been  *)
(* delivered: none is mistaken for an old one.                             *)
THEOREM NewestDeliveredCorrect ==
  ASSUME MaxOutage < HalfSpace, Lifetime <= HalfSpace
  PROVE  UnreliableSpec => []NewestDelivered
<1>1. ASSUME UnreliableInv PROVE NewestDelivered
  <2>1. newestArrived \in Int /\ (newestArrived >= 0 => newestArrived # -1)
    BY <1>1 DEF UnreliableInv, UnreliableTypes
  <2>2. QED
    BY <1>1, <2>1 DEF UnreliableInv, NewestDelivered
<1>2. UnreliableInv /\ [UnreliableNext]_unreliableVars => UnreliableInv'
  BY UnreliableStep
<1>3. QED
  BY <1>1, <1>2, UnreliableStarts, PTL DEF UnreliableSpec

-----------------------------------------------------------------------------
(* The congestion controllers *)

LEMMA MinOfTwo ==
  ASSUME NEW a \in Int, NEW b \in Int
  PROVE  Min({a, b}) = IF a <= b THEN a ELSE b
<1> DEFINE least == IF a <= b THEN a ELSE b
<1>1. least \in {a, b} /\ \A y \in {a, b} : least =< y
  OBVIOUS
<1>2. \A x \in {a, b} : (\A y \in {a, b} : x =< y) => x = least
  OBVIOUS
<1>3. QED
  BY <1>1, <1>2 DEF Min

LEMMA MaxOfTwo ==
  ASSUME NEW a \in Int, NEW b \in Int
  PROVE  Max({a, b}) = IF a >= b THEN a ELSE b
<1> DEFINE most == IF a >= b THEN a ELSE b
<1>1. most \in {a, b} /\ \A y \in {a, b} : most >= y
  OBVIOUS
<1>2. \A x \in {a, b} : (\A y \in {a, b} : x >= y) => x = most
  OBVIOUS
<1>3. QED
  BY <1>1, <1>2 DEF Max

LEMMA DivNat ==
  ASSUME NEW a \in Nat, NEW b \in Nat, b >= 1
  PROVE  a \div b \in Nat
  OBVIOUS

Buckets == [kind : {"LeakyBucket"}, rate : Nat, tokens : Nat]

Phases == {"startup", "drain", "probeBw", "probeRtt"}

(* BbrLite's cap never goes below 4. *)
Bbrs ==
  [kind : {"BbrLite"}, phase : Phases, minRtt : Nat, rtProp : Nat, age : Nat,
   inflightCap : {c \in Nat : c >= 4}, ackCount : Nat, paceGain : Nat]

Nulls == [kind : {"Null"}]

Controllers == Buckets \cup Bbrs \cup Nulls

ControllerInv == controller \in Controllers

LEMMA NewControllers == NewBucket \in Buckets /\ NewBbr \in Bbrs
  BY CongestionAssumption DEF NewBucket, NewBbr, Buckets, Bbrs, Phases

LEMMA BucketSteps ==
  ASSUME NEW b \in Buckets, NEW elapsed \in Nat
  PROVE  /\ Refill(b, elapsed) \in Buckets /\ BucketAck(b, elapsed) \in Buckets
         /\ BucketLoss(b) \in Buckets /\ BucketReset(b) \in Buckets
<1>1. /\ b.rate \in Nat /\ b.tokens \in Nat /\ 100 * Burst \in Nat
      /\ PeakRate \in Nat /\ FloorRate \in Nat
  BY CongestionAssumption DEF Buckets
<1>2. b.rate * elapsed \in Nat
  BY <1>1
<1>3. Min({100 * Burst, b.tokens + b.rate * elapsed}) \in Nat
  BY <1>1, <1>2, MinOfTwo
<1>4. Refill(b, elapsed) \in Buckets
  BY <1>3 DEF Refill, Buckets
<1>5. PICK r \in Buckets : r = Refill(b, elapsed)
  BY <1>4
<1>6. (r.rate * 101) \div 100 \in Nat
  BY <1>5, DivNat DEF Buckets
<1>7. Min({PeakRate, (r.rate * 101) \div 100}) \in Nat
  BY <1>1, <1>6, MinOfTwo
<1>8. BucketAck(b, elapsed) \in Buckets
  BY <1>5, <1>7 DEF BucketAck, Buckets
<1>9. b.rate \div 2 \in Nat
  BY <1>1, DivNat
<1>10. Max({b.rate \div 2, FloorRate}) \in Nat
  BY <1>1, <1>9, MaxOfTwo
<1>11. BucketLoss(b) \in Buckets
  BY <1>10 DEF BucketLoss, Buckets
<1>12. BucketReset(b) \in Buckets
  BY <1>1 DEF BucketReset, Buckets
<1>13. QED
  BY <1>4, <1>8, <1>11, <1>12

LEMMA AdvanceStays ==
  ASSUME NEW b \in Bbrs
  PROVE  Advance(b) \in Bbrs
<1>1. Unlimited \in Nat /\ Unlimited >= 4
  BY CongestionAssumption
<1>2. CASE b.phase = "startup"
  BY <1>2 DEF Advance, Bbrs, Phases
<1>3. CASE b.phase = "probeBw"
  <2>1. PICK four \in Nat : four = 4 /\ four >= 4
    OBVIOUS
  <2>2. [b EXCEPT !.phase = "probeRtt", !.paceGain = four, !.inflightCap = four] \in Bbrs
    BY <2>1 DEF Bbrs, Phases
  <2>3. QED
    BY <1>3, <2>1, <2>2 DEF Advance
<1>4. CASE b.phase \in {"drain", "probeRtt"}
  BY <1>1, <1>4 DEF Advance, Bbrs, Phases
<1>5. QED
  BY <1>2, <1>3, <1>4 DEF Bbrs, Phases

LEMMA BbrAckStays ==
  ASSUME NEW b \in Bbrs, NEW elapsed \in Nat, NEW rtt \in Nat
  PROVE  BbrAck(b, elapsed, rtt) \in Bbrs
<1>1. /\ b.age \in Nat /\ b.minRtt \in Nat /\ b.rtProp \in Nat /\ b.ackCount \in Nat
      /\ Expiry \in Nat /\ kProbeRttInterval \in Nat /\ kProbeRttInterval >= 1
  BY CongestionAssumption DEF Bbrs
<1>2. PICK aged \in Nat : aged = Min({Expiry + 1, b.age + elapsed})
  BY <1>1, MinOfTwo
<1>3. PICK fresh \in BOOLEAN : fresh = (rtt < b.rtProp \/ aged > Expiry)
  OBVIOUS
<1>4. PICK least \in Nat : least = CASE rtt = 0      -> b.minRtt
                                     [] b.minRtt = 0 -> rtt
                                     [] OTHER        -> Min({b.minRtt, rtt})
  <2>1. Min({b.minRtt, rtt}) \in Nat
    BY <1>1, MinOfTwo
  <2>2. QED
    BY <1>1, <2>1
<1>5. PICK count \in Nat : count = (b.ackCount + 1) % kProbeRttInterval
  BY <1>1
<1> DEFINE c == [b EXCEPT !.rtProp = IF fresh THEN rtt ELSE @,
                          !.age = IF fresh THEN 0 ELSE aged,
                          !.minRtt = least,
                          !.ackCount = count]
<1>6. c \in Bbrs
  BY <1>1 DEF Bbrs
<1>7. BbrAck(b, elapsed, rtt) = Advance(c)
  BY <1>2, <1>3, <1>4, <1>5 DEF BbrAck
<1>8. QED
  BY <1>6, <1>7, AdvanceStays

LEMMA BbrLossStays ==
  ASSUME NEW b \in Bbrs
  PROVE  BbrLoss(b) \in Bbrs
<1>1. b.inflightCap \div 2 \in Nat
  BY DivNat DEF Bbrs
<1>2. PICK cap \in Nat : cap = Max({4, b.inflightCap \div 2}) /\ cap >= 4
  BY <1>1, MaxOfTwo
<1>3. QED
  BY <1>2 DEF BbrLoss, Bbrs

LEMMA ControllerStep ==
  ControllerInv /\ [CongestionNext]_controller => ControllerInv'
<1> SUFFICES ASSUME controller \in Controllers, CongestionNext
             PROVE  controller' \in Controllers
  BY DEF ControllerInv
<1>1. {0, 1} \subseteq Nat /\ Rtts \subseteq Nat
  BY CongestionAssumption
<1>2. CASE controller \in Buckets
  <2>1. controller.kind = "LeakyBucket"
    BY <1>2 DEF Buckets
  <2>2. CASE OnLoss \/ Reset \/ \E rtt \in Rtts, elapsed \in {0, 1} : OnAck(rtt, elapsed)
    BY <1>1, <1>2, <2>1, <2>2, BucketSteps DEF OnAck, OnLoss, Reset, Controllers
  <2>3. CASE \E elapsed \in {0, 1} : QueryWindow(elapsed)
    <3>1. PICK elapsed \in {0, 1} : QueryWindow(elapsed)
      BY <2>3
    <3>2. Refill(controller, elapsed) \in Buckets
      BY <1>1, <1>2, BucketSteps
    <3>3. QED
      BY <2>1, <3>1, <3>2 DEF QueryWindow, Controllers
  <2>4. QED
    BY <2>2, <2>3 DEF CongestionNext
<1>3. CASE controller \in Bbrs
  <2>1. controller.kind = "BbrLite"
    BY <1>3 DEF Bbrs
  <2>2. CASE OnLoss \/ Reset \/ \E rtt \in Rtts, elapsed \in {0, 1} : OnAck(rtt, elapsed)
    BY <1>1, <1>3, <2>1, <2>2, BbrAckStays, BbrLossStays, NewControllers
       DEF OnAck, OnLoss, Reset, Controllers
  <2>3. CASE \E elapsed \in {0, 1} : QueryWindow(elapsed)
    BY <2>1, <2>3 DEF QueryWindow
  <2>4. QED
    BY <2>2, <2>3 DEF CongestionNext
<1>4. CASE controller \in Nulls
  <2>1. controller.kind = "Null"
    BY <1>4 DEF Nulls
  <2>2. QED
    BY <1>4, <2>1 DEF CongestionNext, OnAck, OnLoss, QueryWindow, Reset, Controllers
<1>5. QED
  BY <1>2, <1>3, <1>4 DEF Controllers

LEMMA ControllerFloor == ControllerInv => BbrFloor
<1> SUFFICES ASSUME controller \in Controllers, controller.kind = "BbrLite"
             PROVE  sendWindow >= 4
  BY DEF ControllerInv, BbrFloor
<1>1. controller \in Bbrs
  BY DEF Controllers, Buckets, Nulls
<1>2. PICK rtt \in Nat, prop \in Nat, gain \in Nat, cap \in Nat :
        /\ rtt = controller.minRtt /\ prop = controller.rtProp
        /\ gain = controller.paceGain /\ cap = controller.inflightCap /\ cap >= 4
  BY <1>1 DEF Bbrs
<1>3. rtt # 0 => (prop * gain) \div (4 * rtt) \in Nat
  <2>1. prop * gain \in Nat /\ 4 * rtt \in Nat /\ (rtt # 0 => 4 * rtt >= 1)
    OBVIOUS
  <2>2. QED
    BY <2>1, DivNat
<1>4. PICK bdp \in Nat : bdp = IF rtt = 0 THEN 0 ELSE (prop * gain) \div (4 * rtt)
  BY <1>3
<1>5. sendWindow = Min({bdp + 4, cap})
  BY <1>2, <1>4 DEF sendWindow, BbrWindow
<1>6. Min({bdp + 4, cap}) >= 4
  BY <1>2, MinOfTwo
<1>7. QED
  BY <1>5, <1>6

(* BbrLite never lets the window fall to stop-and-wait: four packets are   *)
(* granted whatever it has sampled and however often it has been halved.   *)
THEOREM BbrFloorCorrect == CongestionSpec => []BbrFloor
<1>1. CongestionInit => ControllerInv
  BY NewControllers DEF CongestionInit, ControllerInv, Controllers, Nulls
<1>2. QED
  BY <1>1, ControllerStep, ControllerFloor, PTL DEF CongestionSpec

-----------------------------------------------------------------------------
(* The window helpers *)

(* The size of the ring divides the sequence space, so the wrap does not   *)
(* move a datagram to another slot.                                        *)
LEMMA SlotAcrossWrap ==
  ASSUME NEW x \in Int
  PROVE  (x % SeqMod) % N = x % N /\ x % N \in 0 .. N - 1
<1>1. N \in Nat /\ N >= 1 /\ SeqMod % N = 0
  BY HelpersAssumption
<1>2. QED
  BY <1>1, RingAcrossWrap

Held == {slots[j] : j \in {k \in 0 .. N - 1 : slots[k] # Empty}}

(* Every datagram held is in the slot of its number, within N of what is   *)
(* due.                                                                    *)
RingInv(s, low) ==
  /\ s \in [0 .. N - 1 -> Nat \cup {Empty}]
  /\ \A j \in 0 .. N - 1 : s[j] # Empty => /\ low <= s[j] /\ s[j] < low + N
                                          /\ s[j] % N = j

OrderInv ==
  /\ drained \in Seq(Nat)
  /\ DrainedInOrder
  /\ reorderNext = Len(drained) % SeqMod
  /\ RingInv(slots, Len(drained))

(* insert keeps the ring in order. *)
LEMMA InsertKeeps ==
  ASSUME OrderInv, NEW i \in Nat, Len(drained) - Lag <= i, i < Len(drained) + N
  PROVE  /\ RingInv(Insert(i), Len(drained))
         /\ \A j \in 0 .. N - 1 : Insert(i)[j] # Empty => Insert(i)[j] \in Held \cup {i}
<1>1. PICK low \in Nat : low = Len(drained)
  BY DEF OrderInv
<1>2. /\ N \in Nat /\ N >= 1 /\ Lag \in Nat /\ SeqMod \in Nat /\ HalfSpace \in Nat
      /\ Lag + N < HalfSpace /\ SeqMod = HalfSpace + HalfSpace /\ i \in Int /\ low \in Int
  BY HelpersAssumption, HalfSpaceRange
<1>3. RingInv(slots, low) /\ reorderNext = low % SeqMod
  BY <1>1 DEF OrderInv
<1>4. (i % SeqMod) % N = i % N /\ i % N \in 0 .. N - 1
  BY <1>2, SlotAcrossWrap
<1>5. CASE Insert(i) = slots
  BY <1>1, <1>3, <1>5 DEF Held, RingInv
<1>6. CASE Insert(i) # slots
  <2>1. /\ Delta(i % SeqMod, low % SeqMod) < N \/ ~(Delta(i % SeqMod, low % SeqMod) >= N)
        /\ Insert(i) = [slots EXCEPT ![i % N] = i]
    BY <1>3, <1>4, <1>6 DEF Insert
  <2>2. low <= i
    <3>1. SUFFICES ASSUME i < low PROVE FALSE
      BY <1>2
    <3>2. low - i < SeqMod
      BY <1>1, <1>2
    <3>3. Delta(i % SeqMod, low % SeqMod) = SeqMod - (low - i)
      BY <1>2, <3>1, <3>2, DeltaBehind
    <3>4. SeqMod - (low - i) >= N
      BY <1>1, <1>2
    <3>5. QED
      BY <1>2, <2>1, <3>3, <3>4
  <2>3. PICK s : s = Insert(i)
    OBVIOUS
  <2>4. /\ s \in [0 .. N - 1 -> Nat \cup {Empty}] /\ s[i % N] = i
        /\ \A j \in 0 .. N - 1 : j # i % N => s[j] = slots[j]
    BY <1>3, <1>4, <2>1, <2>3 DEF RingInv
  <2>5. ASSUME NEW j \in 0 .. N - 1, s[j] # Empty
        PROVE  low <= s[j] /\ s[j] < low + N /\ s[j] % N = j /\ s[j] \in Held \cup {i}
    <3>1. CASE j = i % N
      BY <1>1, <2>2, <2>4, <3>1
    <3>2. CASE j # i % N
      BY <1>3, <2>4, <2>5, <3>2 DEF RingInv, Held
    <3>3. QED
      BY <3>1, <3>2
  <2>6. QED
    BY <1>1, <2>3, <2>4, <2>5 DEF RingInv
<1>7. QED
  BY <1>5, <1>6

(* drain returns what is due, and keeps the rest. *)
LEMMA DrainStep ==
  ASSUME OrderInv, NEW i \in Nat, Len(drained) - Lag <= i, i < Len(drained) + N,
         InsertAndDrain(i)
  PROVE  /\ OrderInv' /\ Len(drained) <= Len(drained')
         /\ Held' \subseteq Held \cup {i}
         /\ Len(drained) .. Len(drained') - 1 \subseteq Held \cup {i}
<1>1. PICK low \in Nat : low = Len(drained)
  BY DEF OrderInv
<1>2. PICK s : s = Insert(i)
  OBVIOUS
<1>3. /\ RingInv(s, low)
      /\ \A j \in 0 .. N - 1 : s[j] # Empty => s[j] \in Held \cup {i}
  BY <1>1, <1>2, InsertKeeps
<1>4. /\ N \in Nat /\ N >= 1 /\ SeqMod \in Nat /\ SeqMod >= 1 /\ low \in Int
  BY HelpersAssumption, HalfSpaceRange
<1> DEFINE slot(k) == ((reorderNext + k) % SeqMod) % N
<1>5. PICK n \in 0 .. N :
        /\ ReadyCount(s, n)
        /\ drained' = drained \o [k \in 1 .. n |-> s[slot(k - 1)]]
        /\ slots' = [j \in DOMAIN s |->
                       IF \E k \in 0 .. n - 1 : slot(k) = j THEN Empty ELSE s[j]]
        /\ reorderNext' = (reorderNext + n) % SeqMod
  BY <1>2, Zenon DEF InsertAndDrain
<1>6. ASSUME NEW k \in Int
      PROVE  (reorderNext + k) % SeqMod = (low + k) % SeqMod
  BY <1>1, <1>4, ModAdd DEF OrderInv
<1>7. ASSUME NEW k \in Int
      PROVE  slot(k) = (low + k) % N /\ slot(k) \in 0 .. N - 1
  <2>1. low + k \in Int
    BY <1>4
  <2>2. QED
    BY <1>6, <2>1, SlotAcrossWrap
<1>8. n \in Nat /\ n <= N
  BY <1>4
<1>9. ASSUME NEW y \in Nat, low <= y, y < low + N, NEW k \in 0 .. N - 1, y % N = slot(k)
      PROVE  y = low + k
  <2>1. low + k \in Int /\ y \in Int /\ y % N = (low + k) % N
    BY <1>4, <1>7, <1>9
  <2>2. CASE y <= low + k
    <3>1. (low + k) - y < N
      BY <1>4, <1>9
    <3>2. QED
      BY <1>4, <2>1, <2>2, <3>1, SameRemainder
  <2>3. CASE low + k <= y
    <3>1. y - (low + k) < N
      BY <1>4, <1>9
    <3>2. QED
      BY <1>4, <2>1, <2>3, <3>1, SameRemainder
  <2>4. QED
    BY <1>4, <2>2, <2>3
<1>10. ASSUME NEW k \in 0 .. n - 1
       PROVE  s[slot(k)] = low + k /\ low + k \in Held \cup {i}
  <2>1. k \in Int /\ k \in 0 .. N - 1
    BY <1>4, <1>8
  <2>2. s[slot(k)] # Empty /\ slot(k) \in 0 .. N - 1
    BY <1>5, <1>7, <2>1 DEF ReadyCount
  <2>3. PICK y \in Nat : /\ y = s[slot(k)] /\ low <= y /\ y < low + N /\ y % N = slot(k)
                         /\ y \in Held \cup {i}
    BY <1>3, <2>2 DEF RingInv
  <2>4. QED
    BY <1>9, <2>1, <2>3
<1>11. DOMAIN s = 0 .. N - 1
  BY <1>3 DEF RingInv
<1> HIDE DEF slot
<1> DEFINE run == [k \in 1 .. n |-> low + k - 1]
<1>12. [k \in 1 .. n |-> s[slot(k - 1)]] = run
  <2>1. ASSUME NEW k \in 1 .. n PROVE s[slot(k - 1)] = low + k - 1
    <3>1. k - 1 \in 0 .. n - 1
      BY <1>8
    <3>2. QED
      BY <1>4, <1>10, <3>1
  <2>2. QED
    BY <2>1
<1>13. drained \in Seq(Nat) /\ run \in Seq(Nat) /\ Len(run) = n /\ drained' = drained \o run
  <2>1. \A k \in 1 .. n : low + k - 1 \in Nat
    BY <1>8
  <2>2. run \in Seq(Nat) /\ Len(run) = n
    BY <1>8, <2>1
  <2>3. QED
    BY <1>5, <1>12, <2>2 DEF OrderInv
<1>14. drained' \in Seq(Nat) /\ Len(drained') = low + n
  BY <1>1, <1>13
<1>15. \A k \in 1 .. low + n : drained'[k] = k - 1
  <2>1. ASSUME NEW k \in 1 .. low PROVE drained'[k] = k - 1
    <3>1. k \in 1 .. Len(drained) /\ DOMAIN drained = 1 .. Len(drained)
      BY <1>1, <1>13
    <3>2. drained[k] = k - 1
      BY <3>1 DEF OrderInv, DrainedInOrder
    <3>3. QED
      BY <1>13, <3>1, <3>2
  <2>2. ASSUME NEW k \in 1 .. low + n, k > low PROVE drained'[k] = k - 1
    <3>1. k - low \in 1 .. n
      BY <1>8, <2>2
    <3>2. drained'[k] = run[k - low]
      BY <1>1, <1>8, <1>13, <2>2
    <3>3. run[k - low] = low + (k - low) - 1
      BY <3>1
    <3>4. QED
      BY <3>2, <3>3
  <2>3. QED
    BY <1>8, <2>1, <2>2
<1>16. DrainedInOrder'
  BY <1>14, <1>15 DEF DrainedInOrder
<1>17. reorderNext' = (low + n) % SeqMod
  BY <1>5, <1>6, <1>8
<1>18. ASSUME NEW j \in 0 .. N - 1, slots'[j] # Empty
       PROVE  /\ slots'[j] = s[j] /\ s[j] \in Held \cup {i} /\ s[j] % N = j
              /\ low + n <= s[j] /\ s[j] < low + n + N
  <2>1. slots'[j] = s[j] /\ ~(\E k \in 0 .. n - 1 : slot(k) = j)
    BY <1>5, <1>11, <1>18
  <2>2. PICK y \in Nat : /\ y = s[j] /\ low <= y /\ y < low + N /\ y % N = j
                         /\ y \in Held \cup {i}
    BY <1>3, <1>18, <2>1 DEF RingInv
  <2>3. low + n <= y
    <3>1. SUFFICES ASSUME y < low + n PROVE FALSE
      BY <1>8
    <3>2. y - low \in 0 .. n - 1 /\ low + (y - low) = y /\ y - low \in Int
      BY <1>8, <2>2, <3>1
    <3>3. slot(y - low) = y % N
      BY <1>7, <3>2
    <3>4. QED
      BY <2>1, <2>2, <3>2, <3>3
  <2>4. QED
    BY <1>4, <1>8, <2>1, <2>2, <2>3
<1>19. slots' \in [0 .. N - 1 -> Nat \cup {Empty}]
  BY <1>3, <1>5, <1>11 DEF RingInv
<1>20. RingInv(slots', low + n)
  BY <1>18, <1>19 DEF RingInv
<1>21. OrderInv'
  BY <1>14, <1>16, <1>17, <1>20 DEF OrderInv
<1>22. Held' \subseteq Held \cup {i}
  BY <1>18 DEF Held
<1>23. ASSUME NEW y \in low .. low + n - 1 PROVE y \in Held \cup {i}
  <2>1. y - low \in 0 .. n - 1 /\ low + (y - low) = y
    BY <1>8
  <2>2. QED
    BY <1>10, <2>1
<1>24. low .. Len(drained') - 1 \subseteq Held \cup {i}
  BY <1>14, <1>23
<1>25. low <= Len(drained')
  BY <1>4, <1>8, <1>14
<1>26. QED
  BY <1>1, <1>21, <1>22, <1>24, <1>25

Accepted == {accepted[k] : k \in 1 .. Len(accepted)}

Once == \A j, k \in 1 .. Len(accepted) : accepted[j] = accepted[k] => j = k

(* The bitmap starts at datagram b of the stream, a multiple of N, and has  *)
(* its lower half in use: it marks what was accepted from b on, and        *)
(* nothing beyond.                                                         *)
FilterInv(b) ==
  /\ base = b % SeqMod /\ b % N = 0
  /\ bits \subseteq 0 .. N - 1
  /\ accepted \in Seq(Nat)
  /\ \A x \in Accepted : x < b + N /\ (b <= x => x - b \in bits)
  /\ \A c \in bits : b + c \in Accepted
  /\ b > 0 => \E x \in Accepted : x >= b
  /\ Once

(* y has come, and is not beyond the bitmap. *)
Arrived(b, y) == y < b + N /\ \E x \in Accepted : x >= y

LEMMA NextMultiple ==
  ASSUME NEW m \in Nat, m >= 1, NEW x \in Nat, x % m = 0
  PROVE  (x + m) % m = 0
<1>1. PICK q \in Int : x = m * q
  <2>1. x \in Int
    OBVIOUS
  <2>2. x \div m \in Int /\ x = m * (x \div m) + (x % m)
    BY <2>1, ModDiv
  <2>3. x = m * (x \div m)
    BY <2>2
  <2>4. QED
    BY <2>2, <2>3
<1>2. m * (q + 1) + 0 = x + m /\ q + 1 \in Int /\ 0 \in 0 .. m - 1
  BY <1>1
<1>3. (m * (q + 1) + 0) % m = 0
  BY <1>2, ModUnique
<1>4. QED
  BY <1>2, <1>3

LEMMA AppendAccepted ==
  ASSUME accepted \in Seq(Nat), NEW i \in Nat, i \notin Accepted, Once,
         accepted' = Append(accepted, i)
  PROVE  accepted' \in Seq(Nat) /\ Accepted' = Accepted \cup {i} /\ Once'
<1>1. Len(accepted) \in Nat
  OBVIOUS
<1>2. /\ accepted' \in Seq(Nat)
      /\ Len(accepted') = Len(accepted) + 1 /\ accepted'[Len(accepted) + 1] = i
      /\ \A k \in 1 .. Len(accepted) : accepted'[k] = accepted[k]
  OBVIOUS
<1>3. 1 .. Len(accepted') = 1 .. Len(accepted) \cup {Len(accepted) + 1}
  BY <1>1, <1>2
<1>4. Accepted' = Accepted \cup {i}
  BY <1>2, <1>3 DEF Accepted
<1>5. \A k \in 1 .. Len(accepted) : accepted[k] # i
  BY DEF Accepted
<1>6. Once'
  BY <1>2, <1>3, <1>5 DEF Once
<1>7. QED
  BY <1>2, <1>4, <1>6

(* A datagram that comes is accepted, or lies before the bitmap, or has    *)
(* been accepted before.                                                   *)
LEMMA FilterStep ==
  ASSUME NEW b \in Nat, FilterInv(b), NEW i \in Nat, b - i < HalfSpace, i - b < 2 * N,
         Filter(i)
  PROVE  \E c \in Nat : /\ FilterInv(c)' /\ Arrived(c, i)' /\ Accepted \subseteq Accepted'
                        /\ b <= c /\ (c = b \/ c <= i)
<1>1. /\ N \in Nat /\ N >= 1 /\ SeqMod \in Nat /\ SeqMod >= 1 /\ HalfSpace \in Nat
      /\ 2 * N <= HalfSpace /\ SeqMod = HalfSpace + HalfSpace
      /\ i \in Int /\ b \in Int
  BY HelpersAssumption, HalfSpaceRange
<1>2. /\ base = b % SeqMod /\ b % N = 0
      /\ bits \subseteq 0 .. N - 1 /\ accepted \in Seq(Nat) /\ Once
  BY DEF FilterInv
<1>3. PICK seq : seq = i % SeqMod
  OBVIOUS
<1>4. ASSUME b <= i PROVE Delta(seq, base) = i - b
  <2>1. i - b < SeqMod
    BY <1>1
  <2>2. QED
    BY <1>1, <1>2, <1>3, <1>4, <2>1, DeltaAhead
<1>5. ASSUME UNCHANGED <<bits, base, accepted>>, i < b + N, \E x \in Accepted : x >= i
      PROVE  FilterInv(b)' /\ Arrived(b, i)' /\ Accepted \subseteq Accepted'
  <2>1. Accepted' = Accepted /\ (Once <=> Once')
    BY <1>5 DEF Accepted, Once
  <2>2. QED
    BY <1>5, <2>1 DEF FilterInv, Arrived
<1>6. CASE i < b
  <2>1. Delta(seq, base) = SeqMod - (b - i)
    <3>1. b - i < SeqMod
      BY <1>1
    <3>2. QED
      BY <1>1, <1>2, <1>3, <1>6, <3>1, DeltaBehind
  <2>2. SeqMod - (b - i) >= 2 * N /\ SeqMod - (b - i) > HalfSpace
    BY <1>1
  <2>3. Seen(seq)
    BY <2>1, <2>2 DEF Seen
  <2>4. UNCHANGED <<bits, base, accepted>>
    BY <1>3, <2>3 DEF Filter
  <2>5. PICK x \in Accepted : x >= b
    BY <1>6 DEF FilterInv
  <2>6. x \in Nat
    BY <1>2 DEF Accepted
  <2>7. x >= i /\ i < b + N
    BY <1>1, <1>6, <2>5, <2>6
  <2>8. FilterInv(b)' /\ Arrived(b, i)' /\ Accepted \subseteq Accepted'
    BY <1>5, <2>4, <2>7
  <2>9. QED
    BY <2>8
<1>7. CASE b <= i /\ i - b \in bits
  <2>1. Delta(seq, base) = i - b
    BY <1>4, <1>7
  <2>2. ~(i - b >= 2 * N) /\ i < b + N
    BY <1>1, <1>2, <1>7
  <2>3. Seen(seq)
    BY <1>7, <2>1, <2>2 DEF Seen
  <2>4. UNCHANGED <<bits, base, accepted>>
    BY <1>3, <2>3 DEF Filter
  <2>5. b + (i - b) = i /\ i >= i
    OBVIOUS
  <2>6. i \in Accepted
    BY <1>7, <2>5 DEF FilterInv
  <2>7. FilterInv(b)' /\ Arrived(b, i)' /\ Accepted \subseteq Accepted'
    BY <1>5, <2>2, <2>4, <2>5, <2>6
  <2>8. QED
    BY <2>7
<1>8. CASE b <= i /\ i - b \notin bits
  <2>1. Delta(seq, base) = i - b
    BY <1>4, <1>8
  <2>2. ~(i - b >= 2 * N) /\ i - b \in Nat
    BY <1>1, <1>8
  <2>3. ~Seen(seq)
    BY <1>8, <2>1, <2>2 DEF Seen
  <2>4. Mark(seq) /\ accepted' = Append(accepted, i)
    BY <1>3, <2>3 DEF Filter
  <2>5. i \notin Accepted
    BY <1>8 DEF FilterInv
  <2>6. accepted' \in Seq(Nat) /\ Accepted' = Accepted \cup {i} /\ Once'
    BY <1>2, <2>4, <2>5, AppendAccepted
  <2>7. Accepted \subseteq Nat
    BY <1>2 DEF Accepted
  <2>8. CASE i - b < N
    <3>1. bits' = bits \cup {i - b} /\ base' = base
      BY <1>1, <2>1, <2>2, <2>4, <2>8 DEF Mark
    <3>2. bits' \subseteq 0 .. N - 1
      BY <1>1, <1>2, <2>2, <2>8, <3>1
    <3>3. ASSUME NEW x \in Accepted' PROVE x < b + N /\ (b <= x => x - b \in bits')
      <4>1. CASE x = i
        BY <1>1, <2>8, <3>1, <4>1
      <4>2. CASE x \in Accepted
        BY <3>1, <4>2 DEF FilterInv
      <4>3. QED
        BY <2>6, <4>1, <4>2
    <3>4. ASSUME NEW c \in bits' PROVE b + c \in Accepted'
      <4>1. CASE c = i - b
        BY <1>1, <2>6, <4>1
      <4>2. CASE c \in bits
        BY <2>6, <4>2 DEF FilterInv
      <4>3. QED
        BY <3>1, <4>1, <4>2
    <3>5. b > 0 => \E x \in Accepted' : x >= b
      BY <2>6 DEF FilterInv
    <3>6. FilterInv(b)'
      BY <1>2, <2>6, <3>1, <3>2, <3>3, <3>4, <3>5 DEF FilterInv
    <3>7. i < b + N /\ i >= i
      BY <1>1, <2>8
    <3>8. Arrived(b, i)'
      BY <2>6, <3>7 DEF Arrived
    <3>9. QED
      BY <2>6, <3>6, <3>8
  <2>9. CASE ~(i - b < N)
    <3>1. PICK c \in Nat : c = b + N
      BY <1>1
    <3>2. c <= i /\ i - c \in 0 .. N - 1 /\ b <= c /\ i < c + N /\ c > 0
      BY <1>1, <2>2, <2>9, <3>1
    <3>3. /\ bits' = {d - N : d \in {e \in bits \cup {i - b} : e >= N}}
          /\ base' = (base + N) % SeqMod
      BY <1>1, <2>1, <2>2, <2>4, <2>9 DEF Mark
    <3>4. bits' = {i - c}
      <4>1. \A e \in bits : ~(e >= N)
        BY <1>1, <1>2
      <4>2. i - b >= N /\ (i - b) - N = i - c
        BY <1>1, <2>9, <3>1
      <4>3. {e \in bits \cup {i - b} : e >= N} = {i - b}
        BY <4>1, <4>2
      <4>4. QED
        BY <3>3, <4>2, <4>3
    <3>5. base' = c % SeqMod
      <4>1. N \in Int
        BY <1>1
      <4>2. ((b % SeqMod) + N) % SeqMod = (b + N) % SeqMod
        BY <1>1, <4>1, ModAdd
      <4>3. QED
        BY <1>2, <3>1, <3>3, <4>2
    <3>6. ASSUME NEW x \in Accepted' PROVE x < c + N /\ (c <= x => x - c \in bits')
      <4>1. CASE x = i
        BY <3>2, <3>4, <4>1
      <4>2. CASE x \in Accepted
        <5>1. x < c
          BY <3>1, <4>2 DEF FilterInv
        <5>2. QED
          BY <1>1, <2>7, <4>2, <5>1
      <4>3. QED
        BY <2>6, <4>1, <4>2
    <3>7. ASSUME NEW d \in bits' PROVE c + d \in Accepted'
      <4>1. c + d = i
        BY <3>4
      <4>2. QED
        BY <2>6, <4>1
    <3>8. \E x \in Accepted' : x >= c
      BY <2>6, <3>2
    <3>aligned. c % N = 0
      BY <1>1, <1>2, <3>1, NextMultiple
    <3>9. FilterInv(c)'
      BY <2>6, <3>2, <3>4, <3>5, <3>6, <3>7, <3>8, <3>aligned DEF FilterInv
    <3>10. i >= i
      OBVIOUS
    <3>11. Arrived(c, i)'
      BY <2>6, <3>2, <3>10 DEF Arrived
    <3>12. QED
      BY <2>6, <3>2, <3>9, <3>11
  <2>10. QED
    BY <2>8, <2>9
<1>9. QED
  BY <1>1, <1>6, <1>7, <1>8

(* Everything drained or held has come, and the bitmap does not run ahead   *)
(* of the window.                                                          *)
HelpersInv ==
  /\ OrderInv
  /\ \E b \in Nat :
       /\ FilterInv(b)
       /\ b < Len(drained) + N
       /\ \A y \in 0 .. Len(drained) - 1 \cup Held : Arrived(b, y)

LEMMA HelpersInitially == HelpersInit => HelpersInv
<1> SUFFICES ASSUME HelpersInit PROVE HelpersInv
  OBVIOUS
<1>1. N \in Nat /\ N >= 1 /\ SeqMod \in Nat /\ SeqMod >= 1 /\ 0 % SeqMod = 0 /\ 0 % N = 0
  BY HelpersAssumption, HalfSpaceRange, ModSmall
<1>2. /\ drained = <<>> /\ accepted = <<>> /\ bits = {} /\ base = 0 /\ reorderNext = 0
      /\ slots = [k \in 0 .. N - 1 |-> Empty]
  BY DEF HelpersInit
<1>3. Held = {} /\ Accepted = {} /\ Once /\ DrainedInOrder
  BY <1>2 DEF Held, Accepted, Once, DrainedInOrder
<1>4. OrderInv
  BY <1>1, <1>2, <1>3 DEF OrderInv, RingInv
<1>5. FilterInv(0)
  BY <1>1, <1>2, <1>3 DEF FilterInv
<1>6. 0 < Len(drained) + N /\ 0 .. Len(drained) - 1 = {}
  BY <1>1, <1>2
<1>7. QED
  BY <1>3, <1>4, <1>5, <1>6 DEF HelpersInv

LEMMA HelpersStep == HelpersInv /\ [HelpersNext]_helperVars => HelpersInv'
<1> SUFFICES ASSUME HelpersInv, [HelpersNext]_helperVars PROVE HelpersInv'
  OBVIOUS
<1>1. CASE UNCHANGED helperVars
  <2>1. Held' = Held /\ Accepted' = Accepted /\ (Once <=> Once') /\ DrainedInOrder'
    BY <1>1 DEF helperVars, Held, Accepted, Once, DrainedInOrder, HelpersInv, OrderInv
  <2>2. QED
    BY <1>1, <2>1 DEF helperVars, HelpersInv, OrderInv, RingInv, FilterInv, Arrived
<1>2. CASE HelpersNext
  <2>1. PICK i \in 0 .. MaxStream - 1 : Arrive(i)
    BY <1>2 DEF HelpersNext
  <2>2. PICK low \in Nat : low = Len(drained)
    BY DEF HelpersInv, OrderInv
  <2>3. /\ i \in Nat /\ low - Lag <= i /\ i < low + N /\ N \in Nat /\ N >= 1 /\ Lag \in Nat
        /\ HalfSpace \in Nat /\ Lag + 2 * N <= HalfSpace
    BY <2>1, <2>2, HelpersAssumption, HalfSpaceRange DEF Arrive
  <2>4. InsertAndDrain(i) /\ Filter(i) /\ OrderInv
    BY <2>1 DEF Arrive, HelpersInv
  <2>5. /\ OrderInv' /\ low <= Len(drained') /\ Held' \subseteq Held \cup {i}
        /\ low .. Len(drained') - 1 \subseteq Held \cup {i}
    BY <2>2, <2>3, <2>4, DrainStep
  <2>6. PICK b \in Nat : /\ FilterInv(b) /\ b < low + N
                         /\ \A y \in 0 .. low - 1 \cup Held : Arrived(b, y)
    BY <2>2 DEF HelpersInv
  <2>7. low <= b + N
    <3>1. CASE low = 0
      BY <2>3, <3>1
    <3>2. CASE low > 0
      <4>1. low - 1 \in 0 .. low - 1
        BY <3>2
      <4>2. low - 1 < b + N
        BY <2>6, <4>1 DEF Arrived
      <4>3. QED
        BY <2>3, <4>2
    <3>3. QED
      BY <3>1, <3>2
  <2>8. b - i < HalfSpace /\ i - b < 2 * N
    BY <2>3, <2>6, <2>7
  <2>9. PICK c \in Nat : /\ FilterInv(c)' /\ Arrived(c, i)' /\ Accepted \subseteq Accepted'
                         /\ b <= c /\ (c = b \/ c <= i)
    BY <2>3, <2>4, <2>6, <2>8, FilterStep
  <2>10. PICK top \in Nat : top = Len(drained') /\ low <= top
    BY <2>5 DEF OrderInv
  <2>11. c < top + N
    BY <2>3, <2>6, <2>9, <2>10
  <2>12. ASSUME NEW y \in 0 .. top - 1 \cup Held' PROVE Arrived(c, y)'
    <3>1. y \in 0 .. low - 1 \cup Held \cup {i}
      <4>1. CASE y \in Held'
        BY <2>5, <4>1
      <4>2. CASE y \in 0 .. top - 1
        <5>1. y \in 0 .. low - 1 \/ y \in low .. top - 1
          BY <2>10, <4>2
        <5>2. QED
          BY <2>5, <2>10, <5>1
      <4>3. QED
        BY <4>1, <4>2
    <3>2. CASE y = i
      BY <2>9, <3>2
    <3>3. CASE y \in 0 .. low - 1 \cup Held
      <4>1. y < b + N /\ \E x \in Accepted : x >= y
        BY <2>6, <3>3 DEF Arrived
      <4>2. y \in Int
        BY <2>4, <3>3 DEF Held, OrderInv, RingInv
      <4>3. y < c + N
        BY <2>3, <2>9, <4>1, <4>2
      <4>4. QED
        BY <2>9, <4>1, <4>3 DEF Arrived
    <3>4. QED
      BY <3>1, <3>2, <3>3
  <2>13. QED
    BY <2>5, <2>9, <2>10, <2>11, <2>12 DEF HelpersInv
<1>3. QED
  BY <1>1, <1>2

(* A ReorderBuffer returns every datagram once and in the order of the     *)
(* stream, over any number of wraps of the sequence numbers, although      *)
(* drain does not compare them: insert alone keeps the ring within N of    *)
(* what is due.                                                            *)
THEOREM DrainedInOrderCorrect == HelpersSpec => []DrainedInOrder
<1>1. HelpersInv => DrainedInOrder
  BY DEF HelpersInv, OrderInv
<1>2. QED
  BY <1>1, HelpersInitially, HelpersStep, PTL DEF HelpersSpec

(* An AckedSet of twice the window accepts no datagram twice, although it  *)
(* slides before its lower half is complete, and takes none for a          *)
(* duplicate before it, or a later one, has been accepted.                 *)
THEOREM AcceptedOnceCorrect == HelpersSpec => []AcceptedOnce
<1>1. HelpersInv => AcceptedOnce
  <2> SUFFICES ASSUME HelpersInv PROVE AcceptedOnce
    OBVIOUS
  <2>1. PICK b \in Nat : /\ FilterInv(b)
                         /\ \A y \in 0 .. Len(drained) - 1 \cup Held : Arrived(b, y)
    BY DEF HelpersInv
  <2>2. DOMAIN accepted = 1 .. Len(accepted) /\ Once
    BY <2>1 DEF FilterInv
  <2>3. \A j, k \in DOMAIN accepted : j # k => accepted[j] # accepted[k]
    BY <2>2 DEF Once
  <2>4. ASSUME NEW j \in DOMAIN drained
        PROVE  \E k \in DOMAIN accepted : accepted[k] >= drained[j]
    <3>1. drained[j] = j - 1 /\ j \in 1 .. Len(drained) /\ Len(drained) \in Nat
      BY DEF HelpersInv, OrderInv, DrainedInOrder
    <3>2. drained[j] \in 0 .. Len(drained) - 1
      BY <3>1
    <3>3. PICK x \in Accepted : x >= drained[j]
      BY <2>1, <3>2 DEF Arrived
    <3>4. QED
      BY <2>2, <3>3 DEF Accepted
  <2>5. QED
    BY <2>3, <2>4 DEF AcceptedOnce
<1>2. QED
  BY <1>1, HelpersInitially, HelpersStep, PTL DEF HelpersSpec

(* An AckedSet refuses a datagram that it has not accepted only if a slide *)
(* has passed it, and the next multiple of N above it lies at or below one *)
(* that was accepted: reordering within one half of the bitmap is harmless. *)
THEOREM RefusedOnlyBySlideCorrect == HelpersSpec => []RefusedOnlyBySlide
<1>1. HelpersInv => RefusedOnlyBySlide
  <2> SUFFICES ASSUME HelpersInv, NEW i \in 0 .. MaxStream - 1,
                      i \in Len(drained) - Lag .. Len(drained) + N - 1, Seen(i % SeqMod)
               PROVE  \E k \in DOMAIN accepted :
                        accepted[k] = i \/ \E m \in i + 1 .. accepted[k] : m % N = 0
    BY DEF RefusedOnlyBySlide
  <2>1. PICK low \in Nat : low = Len(drained)
    BY DEF HelpersInv, OrderInv
  <2>2. /\ i \in Nat /\ low - Lag <= i /\ i < low + N /\ N \in Nat /\ N >= 1 /\ Lag \in Nat
        /\ HalfSpace \in Nat /\ Lag + 2 * N <= HalfSpace /\ SeqMod = HalfSpace + HalfSpace
    BY <2>1, HelpersAssumption, HalfSpaceRange
  <2>3. PICK b \in Nat : /\ FilterInv(b) /\ b < low + N
                         /\ \A y \in 0 .. low - 1 \cup Held : Arrived(b, y)
    BY <2>1 DEF HelpersInv
  <2>4. /\ DOMAIN accepted = 1 .. Len(accepted) /\ Accepted \subseteq Nat
        /\ base = b % SeqMod /\ b % N = 0 /\ bits \subseteq 0 .. N - 1
    BY <2>3 DEF FilterInv, Accepted
  <2>5. CASE i < b
    <3>1. PICK x \in Accepted : x >= b
      BY <2>2, <2>5, <2>3 DEF FilterInv
    <3>2. PICK k \in DOMAIN accepted : accepted[k] = x
      BY <2>4, <3>1 DEF Accepted
    <3>3. b \in i + 1 .. accepted[k]
      BY <2>2, <2>4, <2>5, <3>1, <3>2
    <3>4. QED
      BY <2>4, <3>3
  <2>6. CASE b <= i
    <3>1. low <= b + N
      <4>1. CASE low = 0
        BY <2>2, <4>1
      <4>2. CASE low > 0
        <5>1. low - 1 \in 0 .. low - 1
          BY <4>2
        <5>2. low - 1 < b + N
          BY <2>3, <5>1 DEF Arrived
        <5>3. QED
          BY <2>2, <5>2
      <4>3. QED
        BY <4>1, <4>2
    <3>2. i - b < 2 * N /\ i - b < SeqMod /\ i \in Int /\ b \in Int
      BY <2>2, <2>6, <3>1
    <3>3. Delta(i % SeqMod, base) = i - b
      BY <2>4, <2>6, <3>2, DeltaAhead
    <3>4. ~(i - b >= 2 * N)
      BY <2>2, <3>2
    <3>5. i - b \in bits
      BY <3>3, <3>4 DEF Seen
    <3>6. b + (i - b) = i
      BY <3>2
    <3>7. i \in Accepted
      BY <2>3, <3>5, <3>6 DEF FilterInv
    <3>8. QED
      BY <2>4, <3>7 DEF Accepted
  <2>7. QED
    BY <2>2, <2>5, <2>6
<1>2. QED
  BY <1>1, HelpersInitially, HelpersStep, PTL DEF HelpersSpec

-----------------------------------------------------------------------------
(* The packet codec *)

(* A non-empty set of numbers has a least element. *)
LEMMA LeastNumber ==
  ASSUME NEW T \in SUBSET Nat, T # {}
  PROVE  \E x \in T : \A y \in T : x <= y
<1>1. PICK x \in T : \A y \in T : ~(<<y, x>> \in OpToRel(<, Nat))
  BY WFMin, NatLessThanWellFounded, Zenon
<1>2. \A y \in T : ~(y < x)
  BY <1>1, Zenon DEF OpToRel
<1>3. QED
  BY <1>2

LEMMA Sizes ==
  /\ ByteSize \in Nat /\ ByteSize >= 1
  /\ HalfWord \in Nat /\ HalfWord >= 1
  /\ Word \in Nat /\ Word >= 1
<1>1. ByteSize \in Nat /\ ByteSize >= 1
  BY CodecAssumption
<1>2. ASSUME NEW n \in Nat, n >= 1 PROVE n * n \in Nat /\ n * n >= 1
  BY <1>2
<1>3. QED
  BY <1>1, <1>2 DEF HalfWord, Word

(* A number below the square of d has two digits in base d. *)
LEMMA TwoDigits ==
  ASSUME NEW d \in Nat, d >= 1, NEW v \in 0 .. (d * d) - 1
  PROVE  /\ v % d \in 0 .. d - 1 /\ v \div d \in 0 .. d - 1
         /\ (v % d) + d * (v \div d) = v
<1>1. v \in Int
  OBVIOUS
<1>2. PICK q \in Int, r \in 0 .. d - 1 : v = d * q + r /\ q = v \div d /\ r = v % d
  BY <1>1, ModDiv
<1>3. q < d
  <2>1. SUFFICES ASSUME q >= d PROVE FALSE
    BY <1>2
  <2>2. d * q >= d * d
    BY <2>1, <1>2
  <2>3. d * q \in Int /\ d * d \in Int
    BY <1>2
  <2>4. QED
    BY <1>2, <2>2, <2>3
<1>4. q >= 0
  <2>1. SUFFICES ASSUME q <= -1 PROVE FALSE
    BY <1>2
  <2>2. d * q <= -d
    BY <2>1, <1>2
  <2>3. d * q \in Int
    BY <1>2
  <2>4. QED
    BY <1>2, <2>2, <2>3
<1>5. QED
  BY <1>2, <1>3, <1>4

(* Two digits name one number: different digits, different numbers. *)
LEMMA DigitsUnique ==
  ASSUME NEW d \in Nat, d >= 1, NEW a \in 0 .. d - 1, NEW b \in 0 .. d - 1,
         NEW x \in 0 .. d - 1, NEW y \in 0 .. d - 1
  PROVE  /\ a + d * b \in 0 .. (d * d) - 1
         /\ a + d * b = x + d * y => a = x /\ b = y
<1>1. a + d * b \in 0 .. (d * d) - 1
  <2>1. d * b >= 0 /\ d * b \in Int /\ d * d \in Int
    OBVIOUS
  <2>2. d * b <= d * (d - 1)
    OBVIOUS
  <2>3. d * (d - 1) = (d * d) - d
    OBVIOUS
  <2>4. QED
    BY <2>1, <2>2, <2>3
<1>2. ASSUME a + d * b = x + d * y PROVE a = x /\ b = y
  <2>1. (d * b + a) % d = a /\ (d * y + x) % d = x
    BY ModUnique
  <2>2. d * b + a = d * y + x
    BY <1>2
  <2>3. a = x
    BY <2>1, <2>2
  <2>4. d * b = d * y
    BY <2>2, <2>3
  <2>5. b = y
    BY <2>4
  <2>6. QED
    BY <2>3, <2>5
<1>3. QED
  BY <1>1, <1>2

(* What writeU16 and writeU32 write are bytes, and they are read back. *)
LEMMA ReadBack16 ==
  ASSUME NEW v \in 0 .. HalfWord - 1
  PROVE  /\ v % ByteSize \in Bytes /\ v \div ByteSize \in Bytes
         /\ (v % ByteSize) + ByteSize * (v \div ByteSize) = v
  BY Sizes, TwoDigits DEF HalfWord, Bytes

LEMMA ReadBack32 ==
  ASSUME NEW v \in Words
  PROVE  /\ v % HalfWord \in 0 .. HalfWord - 1 /\ v \div HalfWord \in 0 .. HalfWord - 1
         /\ (v % HalfWord) + HalfWord * (v \div HalfWord) = v
  BY Sizes, TwoDigits DEF Word, Words

(* What is read from four bytes tells them. *)
LEMMA ReadUnique ==
  ASSUME NEW f, NEW g, NEW at \in Nat,
         \A i \in 1 .. 4 : f[at + i] \in Bytes /\ g[at + i] \in Bytes,
         readU32(f, at) = readU32(g, at)
  PROVE  \A i \in 1 .. 4 : f[at + i] = g[at + i]
<1>1. ASSUME NEW p, NEW j \in {at, at + 2}, p = f \/ p = g
      PROVE  p[j + 1] \in Bytes /\ p[j + 2] \in Bytes
  BY <1>1
<1>2. ASSUME NEW j \in {at, at + 2}
      PROVE  /\ readU16(f, j) \in 0 .. HalfWord - 1 /\ readU16(g, j) \in 0 .. HalfWord - 1
             /\ readU16(f, j) = readU16(g, j) => f[j + 1] = g[j + 1] /\ f[j + 2] = g[j + 2]
  <2>1. /\ f[j + 1] \in Bytes /\ f[j + 2] \in Bytes
        /\ g[j + 1] \in Bytes /\ g[j + 2] \in Bytes
    BY <1>1
  <2>2. PICK a \in Bytes, b \in Bytes, x \in Bytes, y \in Bytes :
          a = f[j + 1] /\ b = f[j + 2] /\ x = g[j + 1] /\ y = g[j + 2]
    BY <2>1
  <2>3. /\ readU16(f, j) = a + ByteSize * b /\ readU16(g, j) = x + ByteSize * y
    BY <2>2 DEF readU16
  <2>4. /\ a + ByteSize * b \in 0 .. HalfWord - 1 /\ x + ByteSize * y \in 0 .. HalfWord - 1
        /\ a + ByteSize * b = x + ByteSize * y => a = x /\ b = y
    BY Sizes, DigitsUnique DEF HalfWord, Bytes
  <2>5. QED
    BY <2>2, <2>3, <2>4
<1>3. /\ readU16(f, at) \in 0 .. HalfWord - 1 /\ readU16(g, at) \in 0 .. HalfWord - 1
      /\ readU16(f, at + 2) \in 0 .. HalfWord - 1 /\ readU16(g, at + 2) \in 0 .. HalfWord - 1
  BY <1>2
<1>4. readU16(f, at) = readU16(g, at) /\ readU16(f, at + 2) = readU16(g, at + 2)
  BY <1>3, Sizes, DigitsUnique DEF readU32
<1>5. /\ f[at + 1] = g[at + 1] /\ f[at + 2] = g[at + 2]
      /\ f[at + 2 + 1] = g[at + 2 + 1] /\ f[at + 2 + 2] = g[at + 2 + 2]
  BY <1>2, <1>4
<1>6. QED
  BY <1>5

(* Multiplying by the prime loses nothing: the inverse takes it back. *)
LEMMA TimesPrime ==
  ASSUME NEW x \in Words, NEW y \in Words, (x * Prime) % Word = (y * Prime) % Word
  PROVE  x = y
<1>1. PICK q \in Words : (Prime * q) % Word = 1
  BY CodecAssumption
<1>2. Word \in Nat /\ Word >= 1 /\ Prime \in Int /\ q \in Int /\ x \in Int /\ y \in Int
  BY Sizes, CodecAssumption DEF Words
<1>3. PICK k \in Int : Prime * q = Word * k + 1
  <2>1. Prime * q \in Int
    BY <1>2
  <2>2. QED
    BY <1>1, <1>2, <2>1, ModDiv
<1>4. PICK a \in Int, b \in Int, r \in 0 .. Word - 1 : x * Prime = Word * a + r /\ y * Prime = Word * b + r
  <2>1. x * Prime \in Int /\ y * Prime \in Int
    BY <1>2
  <2>2. /\ x * Prime = Word * ((x * Prime) \div Word) + ((x * Prime) % Word)
        /\ y * Prime = Word * ((y * Prime) \div Word) + ((y * Prime) % Word)
        /\ (x * Prime) \div Word \in Int /\ (y * Prime) \div Word \in Int
        /\ (x * Prime) % Word \in 0 .. Word - 1
    BY <1>2, <2>1, ModDiv
  <2>3. QED
    BY <2>2
<1>5. (x - y) * Prime = Word * (a - b)
  BY <1>2, <1>4
<1>6. (x - y) * (Prime * q) = Word * ((a - b) * q)
  <2>1. ((x - y) * Prime) * q = (Word * (a - b)) * q
    BY <1>5
  <2>2. QED
    BY <2>1, <1>2
<1>7. x - y = Word * ((a - b) * q - (x - y) * k)
  <2>1. (x - y) * (Word * k + 1) = Word * ((a - b) * q)
    BY <1>3, <1>6
  <2>2. QED
    BY <2>1, <1>2
<1>8. PICK j \in Int : x - y = Word * j
  <2>1. ((a - b) * q - (x - y) * k) \in Int
    BY <1>2
  <2>2. QED
    BY <1>7, <2>1
<1>9. x - y < Word /\ x - y > -Word
  BY <1>2 DEF Words
<1>10. j = 0
  <2>1. ASSUME j >= 1 PROVE FALSE
    <3>1. Word * j >= Word
      BY <2>1, <1>2
    <3>2. QED
      BY <3>1, <1>2, <1>8, <1>9
  <2>2. ASSUME j <= -1 PROVE FALSE
    <3>1. Word * j <= -Word
      BY <2>2, <1>2
    <3>2. QED
      BY <3>1, <1>2, <1>8, <1>9
  <2>3. QED
    BY <2>1, <2>2
<1>11. QED
  BY <1>2, <1>8, <1>10

(* One round of the checksum *)
Mix(h, byte) == (XorByte(h, byte) * Prime) % Word

(* A round keeps apart what differs in the word or in the byte. *)
LEMMA MixApart ==
  ASSUME NEW h \in Words, NEW a \in Bytes
  PROVE  /\ Mix(h, a) \in Words
         /\ \A b \in Bytes : Mix(h, a) = Mix(h, b) => a = b
         /\ \A g \in Words : Mix(h, a) = Mix(g, a) => h = g
<1>1. XorByte(h, a) \in Words
  BY XorAssumption
<1>2. Mix(h, a) \in Words
  <2>1. XorByte(h, a) * Prime \in Int
    BY <1>1, CodecAssumption, Sizes DEF Words
  <2>2. QED
    BY <2>1, Sizes, ModRange DEF Mix, Words
<1>3. ASSUME NEW b \in Bytes, Mix(h, a) = Mix(h, b) PROVE a = b
  <2>1. XorByte(h, b) \in Words
    BY XorAssumption
  <2>2. XorByte(h, a) = XorByte(h, b)
    BY <1>1, <1>3, <2>1, TimesPrime DEF Mix
  <2>3. QED
    BY <2>2, XorAssumption
<1>4. ASSUME NEW g \in Words, Mix(h, a) = Mix(g, a) PROVE h = g
  <2>1. XorByte(g, a) \in Words
    BY XorAssumption
  <2>2. XorByte(h, a) = XorByte(g, a)
    BY <1>1, <1>4, <2>1, TimesPrime DEF Mix
  <2>3. QED
    BY <2>2, XorAssumption
<1>5. QED
  BY <1>2, <1>3, <1>4

(* The word after each byte of b *)
Hashes(b, n) ==
  {h \in [0 .. n -> Words] :
     h[0] = Basis % Word /\ \A i \in 1 .. n : h[i] = Mix(h[i - 1], b[i])}

LEMMA HashExists ==
  ASSUME NEW b, NEW len \in Nat, \A i \in 1 .. len : b[i] \in Bytes
  PROVE  Hashes(b, len) # {}
<1> DEFINE T == {n \in 0 .. len : Hashes(b, n) = {}}
<1>1. SUFFICES ASSUME T # {} PROVE FALSE
  OBVIOUS
<1>2. PICK n \in T : \A m \in T : n <= m
  <2>1. T \in SUBSET Nat
    OBVIOUS
  <2>2. QED
    BY <1>1, <2>1, LeastNumber
<1>3. Basis % Word \in Words
  <2>1. Basis \in Int
    BY CodecAssumption
  <2>2. QED
    BY <2>1, Sizes, ModRange DEF Words
<1>4. n # 0
  <2>1. SUFFICES ASSUME n = 0 PROVE FALSE
    OBVIOUS
  <2>2. [i \in 0 .. 0 |-> Basis % Word] \in Hashes(b, 0)
    BY <1>3 DEF Hashes
  <2>3. QED
    BY <2>1, <2>2, <1>2
<1>5. n \in 1 .. len /\ n - 1 \in 0 .. len /\ n - 1 \notin T
  BY <1>2, <1>4
<1>6. PICK h \in Hashes(b, n - 1) : TRUE
  BY <1>5
<1> DEFINE g == [i \in 0 .. n |-> IF i = n THEN Mix(h[n - 1], b[n]) ELSE h[i]]
<1>7. /\ h \in [0 .. n - 1 -> Words] /\ h[0] = Basis % Word
      /\ \A i \in 1 .. n - 1 : h[i] = Mix(h[i - 1], b[i])
  BY <1>6 DEF Hashes
<1>8. Mix(h[n - 1], b[n]) \in Words
  <2>1. h[n - 1] \in Words /\ b[n] \in Bytes
    BY <1>5, <1>7
  <2>2. QED
    BY <2>1, MixApart
<1>9. g \in [0 .. n -> Words]
  <2>1. ASSUME NEW i \in 0 .. n PROVE g[i] \in Words
    BY <1>5, <1>7, <1>8
  <2>2. QED
    BY <2>1
<1>10. g[0] = Basis % Word
  BY <1>5, <1>7
<1>11. ASSUME NEW i \in 1 .. n PROVE g[i] = Mix(g[i - 1], b[i])
  <2>1. g[i - 1] = h[i - 1]
    BY <1>5
  <2>2. CASE i = n
    BY <2>1, <2>2
  <2>3. CASE i # n
    <3>1. i \in 1 .. n - 1 /\ g[i] = h[i]
      BY <2>3, <1>5
    <3>2. QED
      BY <3>1, <2>1, <1>7
  <2>4. QED
    BY <2>2, <2>3
<1>12. g \in Hashes(b, n)
  BY <1>9, <1>10, <1>11 DEF Hashes
<1>13. QED
  BY <1>12, <1>2

(* The checksum is the word after the last byte. *)
LEMMA ChecksumIs ==
  ASSUME NEW b, Len(b) \in Nat, \A i \in 1 .. Len(b) : b[i] \in Bytes
  PROVE  \E h \in Hashes(b, Len(b)) : Checksum(b) = h[Len(b)]
<1> DEFINE len == Len(b)
<1> DEFINE Eq(h) == h = [n \in 0 .. len |->
          IF n = 0 THEN Basis % Word ELSE (XorByte(h[n - 1], b[n]) * Prime) % Word]
<1> DEFINE c == CHOOSE h : Eq(h)
<1>1. PICK h \in Hashes(b, len) : TRUE
  BY HashExists
<1>2. /\ h \in [0 .. len -> Words] /\ h[0] = Basis % Word
      /\ \A i \in 1 .. len : h[i] = Mix(h[i - 1], b[i])
  BY <1>1 DEF Hashes
<1>3. Eq(h)
  <2>1. ASSUME NEW n \in 0 .. len
        PROVE  h[n] = IF n = 0 THEN Basis % Word ELSE (XorByte(h[n - 1], b[n]) * Prime) % Word
    BY <1>2 DEF Mix
  <2>2. QED
    BY <2>1, <1>2
<1>4. Eq(c)
  <2> HIDE DEF Eq
  <2>1. QED
    BY <1>3
<1>5. Checksum(b) = c[len]
  BY DEF Checksum
<1> HIDE DEF c
<1>6. ASSUME NEW n \in 0 .. len
      PROVE  c[n] = IF n = 0 THEN Basis % Word ELSE (XorByte(c[n - 1], b[n]) * Prime) % Word
  BY <1>4
<1> HIDE DEF Eq
<1>7. \A n \in 0 .. len : c[n] = h[n]
  <2> DEFINE T == {n \in 0 .. len : c[n] # h[n]}
  <2>1. SUFFICES ASSUME T # {} PROVE FALSE
    OBVIOUS
  <2>2. T \in SUBSET Nat
    OBVIOUS
  <2>3. PICK n \in T : \A m \in T : n <= m
    BY <2>1, <2>2, LeastNumber
  <2>4. n # 0
    BY <2>3, <1>2, <1>6
  <2>5. n \in 1 .. len /\ n - 1 \in 0 .. len /\ n - 1 \notin T
    BY <2>3, <2>4
  <2>6. c[n - 1] = h[n - 1]
    BY <2>5
  <2>7. h[n] = (XorByte(h[n - 1], b[n]) * Prime) % Word
    BY <2>5, <1>2 DEF Mix
  <2>8. c[n] = (XorByte(c[n - 1], b[n]) * Prime) % Word
    BY <2>5, <1>6
  <2>9. QED
    BY <2>3, <2>6, <2>7, <2>8
<1>8. QED
  BY <1>1, <1>5, <1>7

(* Changing one byte changes the checksum. *)
LEMMA ChecksumApart ==
  ASSUME NEW f, NEW g, Len(f) \in Nat, Len(g) = Len(f),
         \A i \in 1 .. Len(f) : f[i] \in Bytes /\ g[i] \in Bytes,
         NEW k \in 1 .. Len(f), f[k] # g[k],
         \A i \in 1 .. Len(f) : i # k => f[i] = g[i]
  PROVE  Checksum(f) # Checksum(g)
<1> DEFINE len == Len(f)
<1>1. PICK hf \in Hashes(f, len) : Checksum(f) = hf[len]
  BY ChecksumIs
<1>2. PICK hg \in Hashes(g, len) : Checksum(g) = hg[len]
  <2>1. \E h \in Hashes(g, Len(g)) : Checksum(g) = h[Len(g)]
    BY ChecksumIs
  <2>2. QED
    BY <2>1
<1>3. /\ hf \in [0 .. len -> Words] /\ hf[0] = Basis % Word
      /\ hg \in [0 .. len -> Words] /\ hg[0] = Basis % Word
  BY <1>1, <1>2 DEF Hashes
<1>4. ASSUME NEW i \in 1 .. len
      PROVE  /\ i - 1 \in 0 .. len /\ hf[i - 1] \in Words /\ hg[i - 1] \in Words
             /\ hf[i] = Mix(hf[i - 1], f[i]) /\ hg[i] = Mix(hg[i - 1], g[i])
             /\ f[i] \in Bytes /\ g[i] \in Bytes
  <2>1. i - 1 \in 0 .. len
    OBVIOUS
  <2>2. QED
    BY <2>1, <1>1, <1>2, <1>3 DEF Hashes
<1> HIDE DEF len
<1>5. len \in Nat /\ k \in 1 .. len /\ \A i \in 1 .. len : i # k => f[i] = g[i]
  BY DEF len
(* Up to the changed byte the words agree. *)
<1>6. hf[k - 1] = hg[k - 1]
  <2> DEFINE T == {n \in 0 .. k - 1 : hf[n] # hg[n]}
  <2>1. SUFFICES ASSUME T # {} PROVE FALSE
    BY <1>5
  <2>2. T \in SUBSET Nat
    OBVIOUS
  <2>3. PICK n \in T : \A m \in T : n <= m
    BY <2>1, <2>2, LeastNumber
  <2>4. n # 0
    BY <2>3, <1>3
  <2>5. n \in 1 .. len /\ n # k /\ n - 1 \in 0 .. k - 1 /\ n - 1 \notin T
    BY <2>3, <2>4, <1>5
  <2>6. hf[n - 1] = hg[n - 1] /\ f[n] = g[n]
    BY <2>5, <1>5
  <2>7. hf[n] = hg[n]
    BY <2>5, <2>6, <1>4
  <2>8. QED
    BY <2>3, <2>7
<1>7. hf[k] # hg[k]
  <2>1. ASSUME NEW h \in Words, NEW a \in Bytes, NEW b \in Bytes, a # b
        PROVE  Mix(h, a) # Mix(h, b)
    BY <2>1, MixApart
  <2>2. QED
    BY <1>4, <1>5, <1>6, <2>1
(* From there on they never meet again. *)
<1>8. hf[len] # hg[len]
  <2> DEFINE T == {n \in k .. len : hf[n] = hg[n]}
  <2>1. SUFFICES ASSUME T # {} PROVE FALSE
    BY <1>5
  <2>2. T \in SUBSET Nat
    BY <1>5
  <2>3. PICK n \in T : \A m \in T : n <= m
    BY <2>1, <2>2, LeastNumber
  <2>4. n # k
    BY <2>3, <1>7
  <2>5. n \in 1 .. len /\ n # k /\ n - 1 \in k .. len /\ n - 1 \notin T
    BY <2>3, <2>4, <1>5
  <2>6. hf[n - 1] # hg[n - 1] /\ f[n] = g[n]
    BY <2>5, <1>5
  <2>7. ASSUME NEW h \in Words, NEW j \in Words, NEW a \in Bytes, h # j
        PROVE  Mix(h, a) # Mix(j, a)
    BY <2>7, MixApart
  <2>8. hf[n] # hg[n]
    BY <2>5, <2>6, <2>7, <1>4
  <2>9. QED
    BY <2>3, <2>8
<1>9. QED
  BY <1>1, <1>2, <1>8

(* A frame whose stored checksum is that of the bytes before it *)
Valid(f) == readU32(f, Len(f) - kCrcSize) = Checksum(Covered(f))

LEMMA CoveredIs ==
  ASSUME NEW f \in Seq(Bytes), Len(f) >= 14
  PROVE  /\ Covered(f) \in Seq(Bytes) /\ Len(Covered(f)) = Len(f) - 4
         /\ \A i \in 1 .. Len(f) - 4 : Covered(f)[i] = f[i] /\ f[i] \in Bytes
<1>1. Len(f) \in Nat /\ Len(f) - 4 \in Int /\ \A i \in 1 .. Len(f) - 4 : f[i] \in Bytes
  OBVIOUS
<1>2. /\ SubSeq(f, 1, Len(f) - 4) \in Seq(Bytes)
      /\ Len(SubSeq(f, 1, Len(f) - 4)) = Len(f) - 4
      /\ \A i \in 1 .. Len(f) - 4 : SubSeq(f, 1, Len(f) - 4)[i] = f[i]
  BY <1>1
<1>3. QED
  BY <1>1, <1>2 DEF Covered, kCrcSize

(* decode refuses a valid frame of which one byte has changed. *)
LEMMA DamageRefused ==
  ASSUME NEW f \in Seq(Bytes), Len(f) >= 14, Valid(f),
         NEW k \in 1 .. Len(f), NEW byte \in Bytes, f[k] # byte
  PROVE  Decode([f EXCEPT ![k] = byte]) = {}
<1> DEFINE g == [f EXCEPT ![k] = byte]
<1>1. /\ g \in Seq(Bytes) /\ Len(g) = Len(f) /\ g[k] = byte
      /\ \A i \in 1 .. Len(f) : i # k => g[i] = f[i]
  OBVIOUS
<1> HIDE DEF g
<1>2. Len(f) \in Nat /\ \A i \in 1 .. Len(f) : f[i] \in Bytes /\ g[i] \in Bytes
  BY <1>1
<1>3. PICK len \in Nat : len = Len(f) - 4
  <2>1. Len(f) - 4 \in Nat
    BY <1>2
  <2>2. QED
    BY <2>1
<1>4. /\ Covered(f) \in Seq(Bytes) /\ Len(Covered(f)) = len
      /\ Covered(g) \in Seq(Bytes) /\ Len(Covered(g)) = len
      /\ \A i \in 1 .. len : Covered(f)[i] = f[i] /\ f[i] \in Bytes
      /\ \A i \in 1 .. len : Covered(g)[i] = g[i] /\ g[i] \in Bytes
  BY <1>1, <1>3, CoveredIs
<1>5. \A i \in 1 .. 4 : f[len + i] \in Bytes /\ g[len + i] \in Bytes
  BY <1>2, <1>3
<1>6. readU32(f, len) = Checksum(Covered(f))
  BY <1>3 DEF Valid, kCrcSize
<1>7. readU32(g, len) # Checksum(Covered(g))
  <2>1. CASE k <= len
    <3>1. /\ f[len + 1] = g[len + 1] /\ f[len + 2] = g[len + 2]
          /\ f[len + 2 + 1] = g[len + 2 + 1] /\ f[len + 2 + 2] = g[len + 2 + 2]
      <4>1. ASSUME NEW i \in {len + 1, len + 2, len + 2 + 1, len + 2 + 2}
            PROVE  i \in 1 .. Len(f) /\ i # k
        BY <1>2, <1>3, <2>1
      <4>2. QED
        BY <1>1, <4>1
    <3>2. readU32(f, len) = readU32(g, len)
      BY <3>1 DEF readU32, readU16
    <3>3. /\ k \in 1 .. len /\ Covered(f)[k] # Covered(g)[k]
          /\ \A i \in 1 .. len : Covered(f)[i] \in Bytes /\ Covered(g)[i] \in Bytes
          /\ \A i \in 1 .. len : i # k => Covered(f)[i] = Covered(g)[i]
      BY <1>1, <1>3, <1>4, <2>1
    <3>4. Checksum(Covered(f)) # Checksum(Covered(g))
      BY <1>4, <3>3, ChecksumApart
    <3>5. QED
      BY <1>6, <3>2, <3>4
  <2>2. CASE k > len
    <3>1. \A i \in 1 .. len : Covered(f)[i] = Covered(g)[i]
      BY <1>1, <1>3, <1>4, <2>2
    <3>2. Covered(f) = Covered(g)
      BY <1>4, <3>1, SeqEqual
    <3>3. k - len \in 1 .. 4 /\ f[len + (k - len)] # g[len + (k - len)]
      BY <1>1, <1>3, <2>2
    <3>4. readU32(f, len) # readU32(g, len)
      BY <1>5, <3>3, ReadUnique
    <3>5. QED
      BY <1>6, <3>2, <3>4
  <2>3. QED
    BY <1>3, <2>1, <2>2
<1>8. Decode(g) = {}
  BY <1>1, <1>3, <1>7 DEF Decode, kCrcSize, kHeaderSize
<1>9. QED
  BY <1>8 DEF g

(* What encode puts before the payload *)
Header(p) == <<p.type>> \o writeU16(p.seq) \o writeU16(p.ack) \o writeU32(p.ackBits)
               \o <<p.channel>>

LEMMA HeaderIs ==
  ASSUME NEW p \in Packets
  PROVE  /\ Header(p) \in Seq(Bytes) /\ Len(Header(p)) = 10
         /\ Header(p)[1] = p.type /\ Header(p)[10] = p.channel
         /\ readU16(Header(p), 1) = p.seq /\ readU16(Header(p), 3) = p.ack
         /\ readU32(Header(p), 5) = p.ackBits
<1>1. /\ p.type \in Bytes /\ p.channel \in Bytes
      /\ p.seq \in 0 .. HalfWord - 1 /\ p.ack \in 0 .. HalfWord - 1
      /\ p.ackBits \in Words
  BY CodecAssumption DEF Packets
<1>2. PICK lo \in 0 .. HalfWord - 1, hi \in 0 .. HalfWord - 1 :
        /\ lo = p.ackBits % HalfWord /\ hi = p.ackBits \div HalfWord
        /\ lo + HalfWord * hi = p.ackBits
  BY <1>1, ReadBack32
<1>3. ASSUME NEW v \in 0 .. HalfWord - 1
      PROVE  \E a \in Bytes, b \in Bytes : writeU16(v) = <<a, b>> /\ a + ByteSize * b = v
  BY ReadBack16 DEF writeU16
<1>4. PICK s1 \in Bytes, s2 \in Bytes : writeU16(p.seq) = <<s1, s2>> /\ s1 + ByteSize * s2 = p.seq
  BY <1>1, <1>3
<1>5. PICK a1 \in Bytes, a2 \in Bytes : writeU16(p.ack) = <<a1, a2>> /\ a1 + ByteSize * a2 = p.ack
  BY <1>1, <1>3
<1>6. PICK l1 \in Bytes, l2 \in Bytes : writeU16(lo) = <<l1, l2>> /\ l1 + ByteSize * l2 = lo
  BY <1>3
<1>7. PICK h1 \in Bytes, h2 \in Bytes : writeU16(hi) = <<h1, h2>> /\ h1 + ByteSize * h2 = hi
  BY <1>3
<1>8. writeU32(p.ackBits) = <<l1, l2>> \o <<h1, h2>>
  BY <1>2, <1>6, <1>7 DEF writeU32
<1>9. PICK h : h = <<p.type>> \o <<s1, s2>> \o <<a1, a2>> \o (<<l1, l2>> \o <<h1, h2>>) \o <<p.channel>>
  OBVIOUS
<1>10. /\ h \in Seq(Bytes) /\ Len(h) = 10
       /\ h[1] = p.type /\ h[2] = s1 /\ h[3] = s2 /\ h[4] = a1 /\ h[5] = a2
       /\ h[6] = l1 /\ h[7] = l2 /\ h[8] = h1 /\ h[9] = h2 /\ h[10] = p.channel
  BY <1>1, <1>9
<1>11. Header(p) = h
  BY <1>4, <1>5, <1>8, <1>9 DEF Header
<1>12. readU16(h, 1) = p.seq /\ readU16(h, 3) = p.ack /\ readU32(h, 5) = p.ackBits
  BY <1>2, <1>4, <1>5, <1>6, <1>7, <1>10 DEF readU16, readU32
<1>13. QED
  BY <1>10, <1>11, <1>12

(* encode answers a valid frame that decode reads back, or nothing when    *)
(* the buffer is one byte too small.                                       *)
LEMMA EncodeIs ==
  ASSUME NEW p \in Packets
  PROVE  /\ Encode(p, kHeaderSize + Len(p.payload) + kCrcSize - 1) = <<>>
         /\ \E f \in Seq(Bytes) :
              /\ Encode(p, kHeaderSize + Len(p.payload) + kCrcSize - 0) = f
              /\ Len(f) >= 14 /\ Valid(f) /\ Decode(f) = {p}
<1> DEFINE body == Header(p) \o p.payload
<1> DEFINE blank == writeU32(0)
<1> DEFINE crc == Checksum(Covered(body \o blank))
<1>1. p.payload \in Seq(Bytes) /\ Len(p.payload) \in Nat
  <2>1. PICK n \in 0 .. MaxPayload : p.payload \in [1 .. n -> U8s]
    BY DEF Packets
  <2>2. U8s \subseteq Bytes /\ n \in Nat
    BY CodecAssumption
  <2>3. QED
    BY <2>1, <2>2
<1>2. PICK len \in Nat : len = Len(p.payload)
  BY <1>1
<1>3. /\ body \in Seq(Bytes) /\ Len(body) = 10 + len
      /\ \A i \in 1 .. 10 : body[i] = Header(p)[i]
      /\ \A i \in 1 .. len : body[10 + i] = p.payload[i]
  <2>1. PICK h \in Seq(Bytes) : h = Header(p) /\ Len(h) = 10
    BY HeaderIs
  <2>2. PICK q \in Seq(Bytes) : q = p.payload /\ Len(q) = len
    BY <1>1, <1>2
  <2>3. /\ h \o q \in Seq(Bytes) /\ Len(h \o q) = 10 + len
        /\ \A i \in 1 .. 10 + len : (h \o q)[i] = IF i <= 10 THEN h[i] ELSE q[i - 10]
    <3>1. /\ h \o q \in Seq(Bytes) /\ Len(h \o q) = Len(h) + Len(q)
          /\ \A i \in 1 .. Len(h) + Len(q) : (h \o q)[i] = IF i <= Len(h) THEN h[i] ELSE q[i - Len(h)]
      BY ConcatProperties
    <3>2. QED
      BY <2>1, <2>2, <3>1
  <2>4. ASSUME NEW i \in 1 .. len
        PROVE  (h \o q)[10 + i] = q[i]
    <3>1. 10 + i \in 1 .. 10 + len /\ ~(10 + i <= 10) /\ (10 + i) - 10 = i
      OBVIOUS
    <3>2. QED
      BY <2>3, <3>1
  <2>5. ASSUME NEW i \in 1 .. 10
        PROVE  (h \o q)[i] = h[i]
    <3>1. i \in 1 .. 10 + len /\ i <= 10
      OBVIOUS
    <3>2. QED
      BY <2>3, <3>1
  <2>6. body = h \o q
    BY <2>1, <2>2
  <2> HIDE DEF body
  <2>7. QED
    BY <2>1, <2>2, <2>3, <2>4, <2>5, <2>6
<1>4. ASSUME NEW v \in Words
      PROVE  /\ writeU32(v) \in Seq(Bytes) /\ Len(writeU32(v)) = 4 /\ readU32(writeU32(v), 0) = v
  <2>1. PICK lo \in 0 .. HalfWord - 1, hi \in 0 .. HalfWord - 1 :
          lo = v % HalfWord /\ hi = v \div HalfWord /\ lo + HalfWord * hi = v
    BY ReadBack32
  <2>2. PICK a \in Bytes, b \in Bytes : writeU16(lo) = <<a, b>> /\ a + ByteSize * b = lo
    BY ReadBack16 DEF writeU16
  <2>3. PICK c \in Bytes, d \in Bytes : writeU16(hi) = <<c, d>> /\ c + ByteSize * d = hi
    BY ReadBack16 DEF writeU16
  <2>4. PICK w : w = <<a, b>> \o <<c, d>>
    OBVIOUS
  <2>5. w \in Seq(Bytes) /\ Len(w) = 4 /\ w[1] = a /\ w[2] = b /\ w[3] = c /\ w[4] = d
    BY <2>4
  <2>6. writeU32(v) = w
    BY <2>1, <2>2, <2>3, <2>4 DEF writeU32
  <2>7. readU32(w, 0) = v
    BY <2>1, <2>2, <2>3, <2>5 DEF readU32, readU16
  <2>8. QED
    BY <2>5, <2>6, <2>7
<1> HIDE DEF body
(* The checksum of a frame does not see the four bytes that hold it. *)
<1>5. ASSUME NEW w \in Seq(Bytes), Len(w) = 4
      PROVE  /\ body \o w \in Seq(Bytes) /\ Len(body \o w) = 14 + len
             /\ \A i \in 1 .. 10 + len : (body \o w)[i] = body[i]
             /\ \A i \in 1 .. 4 : (body \o w)[(10 + len) + i] = w[i]
             /\ Covered(body \o w) = body
  <2>1. /\ body \o w \in Seq(Bytes) /\ Len(body \o w) = 14 + len
        /\ \A i \in 1 .. 14 + len : (body \o w)[i] = IF i <= 10 + len THEN body[i] ELSE w[i - (10 + len)]
    <3>1. /\ body \o w \in Seq(Bytes) /\ Len(body \o w) = Len(body) + Len(w)
          /\ \A i \in 1 .. Len(body) + Len(w) : (body \o w)[i] =
                 IF i <= Len(body) THEN body[i] ELSE w[i - Len(body)]
      BY <1>3, <1>5, ConcatProperties
    <3>2. Len(body) + Len(w) = 14 + len
      BY <1>3, <1>5
    <3>3. QED
      BY <1>3, <3>1, <3>2
  <2>2. \A i \in 1 .. 10 + len : (body \o w)[i] = body[i]
    BY <2>1
  <2>3. ASSUME NEW i \in 1 .. 4 PROVE (body \o w)[(10 + len) + i] = w[i]
    <3>1. /\ (10 + len) + i \in 1 .. 14 + len /\ ~((10 + len) + i <= 10 + len)
          /\ ((10 + len) + i) - (10 + len) = i
      OBVIOUS
    <3>2. QED
      BY <2>1, <3>1
  <2>4. PICK f \in Seq(Bytes) : f = body \o w /\ Len(f) = 14 + len /\ Len(f) >= 14
    <3>1. 14 + len >= 14
      OBVIOUS
    <3>2. QED
      BY <2>1, <3>1
  <2>5. Covered(f) = body
    <3>1. /\ Covered(f) \in Seq(Bytes) /\ Len(Covered(f)) = Len(f) - 4
          /\ \A i \in 1 .. Len(f) - 4 : Covered(f)[i] = f[i]
      BY <2>4, CoveredIs
    <3>2. Len(f) - 4 = 10 + len
      BY <2>4
    <3>3. \A i \in 1 .. 10 + len : Covered(f)[i] = body[i]
      BY <2>2, <2>4, <3>1, <3>2
    <3>4. QED
      BY <1>3, <3>1, <3>2, <3>3, SeqEqual
  <2>6. QED
    BY <2>1, <2>2, <2>3, <2>4, <2>5
<1>6. crc = Checksum(body)
  <2>1. 0 \in Words
    BY Sizes DEF Words
  <2>2. blank \in Seq(Bytes) /\ Len(blank) = 4
    BY <1>4, <2>1
  <2> HIDE DEF blank
  <2>3. QED
    BY <1>5, <2>2
<1> HIDE DEF crc
<1>7. crc \in Words
  <2>1. /\ Len(body) \in Nat /\ \A i \in 1 .. Len(body) : body[i] \in Bytes
    BY <1>3
  <2>2. PICK h \in Hashes(body, Len(body)) : Checksum(body) = h[Len(body)]
    BY <2>1, ChecksumIs
  <2>3. QED
    BY <1>6, <2>1, <2>2 DEF Hashes
<1>8. PICK w \in Seq(Bytes) : w = writeU32(crc) /\ Len(w) = 4 /\ readU32(w, 0) = crc
  BY <1>4, <1>7
<1>9. PICK f \in Seq(Bytes) :
        /\ f = body \o w /\ Len(f) = 14 + len /\ Covered(f) = body
        /\ \A i \in 1 .. 10 + len : f[i] = body[i]
        /\ \A i \in 1 .. 4 : f[(10 + len) + i] = w[i]
  BY <1>5, <1>8
<1>10. Valid(f)
  <2>1. /\ f[(10 + len) + 1] = w[1] /\ f[(10 + len) + 2] = w[2]
        /\ f[(10 + len) + 2 + 1] = w[3] /\ f[(10 + len) + 2 + 2] = w[4]
    BY <1>9
  <2>2. readU32(f, 10 + len) = readU32(w, 0)
    BY <2>1 DEF readU32, readU16
  <2>3. Len(f) - 4 = 10 + len
    BY <1>9
  <2>4. QED
    BY <1>6, <1>8, <1>9, <2>2, <2>3 DEF Valid, kCrcSize
<1>11. /\ f[1] = p.type /\ f[10] = p.channel
       /\ readU16(f, 1) = p.seq /\ readU16(f, 3) = p.ack /\ readU32(f, 5) = p.ackBits
  <2>1. \A i \in 1 .. 10 : f[i] = Header(p)[i]
    <3>1. ASSUME NEW i \in 1 .. 10 PROVE i \in 1 .. 10 + len
      OBVIOUS
    <3>2. QED
      BY <1>3, <1>9, <3>1
  <2>2. PICK h : h = Header(p)
    OBVIOUS
  <2>3. /\ f[1] = h[1] /\ f[2] = h[2] /\ f[3] = h[3] /\ f[4] = h[4] /\ f[5] = h[5]
        /\ f[6] = h[6] /\ f[7] = h[7] /\ f[8] = h[8] /\ f[9] = h[9] /\ f[10] = h[10]
    BY <2>1, <2>2
  <2>4. /\ readU16(f, 1) = readU16(h, 1) /\ readU16(f, 3) = readU16(h, 3)
        /\ readU32(f, 5) = readU32(h, 5)
    BY <2>3 DEF readU32, readU16
  <2>5. QED
    BY <2>2, <2>3, <2>4, HeaderIs
<1>12. SubSeq(f, 11, Len(f) - 4) = p.payload
  <2>1. Len(f) - 4 = 10 + len
    BY <1>9
  <2>2. ASSUME NEW i \in 11 .. 10 + len PROVE f[i] \in Bytes
    <3>1. f \in Seq(Bytes) /\ i \in 1 .. 14 + len /\ Len(f) = 14 + len
      BY <1>9
    <3>2. QED
      BY <3>1
  <2>3. 11 \in Int /\ 10 + len \in Int
    OBVIOUS
  <2>4. /\ SubSeq(f, 11, 10 + len) \in Seq(Bytes)
        /\ Len(SubSeq(f, 11, 10 + len)) = IF 11 <= 10 + len THEN (10 + len) - 11 + 1 ELSE 0
        /\ \A i \in 1 .. (10 + len) - 11 + 1 : SubSeq(f, 11, 10 + len)[i] = f[11 + i - 1]
    BY <2>2, <2>3, SubSeqProperties
  <2>5. Len(SubSeq(f, 11, 10 + len)) = len
    BY <2>4
  <2>6. ASSUME NEW i \in 1 .. len PROVE SubSeq(f, 11, 10 + len)[i] = p.payload[i]
    <3>1. i \in 1 .. (10 + len) - 11 + 1 /\ 11 + i - 1 = 10 + i /\ 10 + i \in 1 .. 10 + len
      OBVIOUS
    <3>2. f[10 + i] = body[10 + i]
      BY <1>9, <3>1
    <3>3. QED
      BY <1>3, <2>4, <3>1, <3>2
  <2>7. QED
    BY <1>1, <1>2, <2>1, <2>4, <2>5, <2>6, SeqEqual
<1>13. Decode(f) = {p}
  <2>1. ~(Len(f) < 14)
    BY <1>9
  <2>2. p = [type |-> p.type, seq |-> p.seq, ack |-> p.ack, ackBits |-> p.ackBits,
             channel |-> p.channel, payload |-> p.payload]
    BY DEF Packets
  <2>3. Decode(f) = {[type |-> p.type, seq |-> p.seq, ack |-> p.ack, ackBits |-> p.ackBits,
                      channel |-> p.channel, payload |-> p.payload]}
    <3>1. kHeaderSize + 1 = 11 /\ kHeaderSize + kCrcSize = 14 /\ kCrcSize = 4
      BY DEF kCrcSize, kHeaderSize
    <3>2. readU32(f, Len(f) - kCrcSize) = Checksum(Covered(f))
      BY <1>10 DEF Valid
    <3>3. SubSeq(f, kHeaderSize + 1, Len(f) - kCrcSize) = p.payload
      BY <3>1, <1>12
    <3>4. QED
      BY <1>11, <2>1, <3>1, <3>2, <3>3, Zenon DEF Decode
  <2>4. QED
    BY <2>2, <2>3
<1>14. /\ Encode(p, kHeaderSize + Len(p.payload) + kCrcSize - 1) = <<>>
       /\ Encode(p, kHeaderSize + Len(p.payload) + kCrcSize - 0) = f
  <2>1. /\ 10 + Len(p.payload) + 4 - 1 < Len(body) + 4
        /\ ~(10 + Len(p.payload) + 4 - 0 < Len(body) + 4)
    <3>1. Len(body) = 10 + len /\ Len(p.payload) = len
      BY <1>2, <1>3
    <3>2. QED
      BY <3>1
  <2>2. f = body \o writeU32(Checksum(Covered(body \o writeU32(0))))
    BY <1>8, <1>9 DEF crc
  <2>3. QED
    BY <2>1, <2>2 DEF Encode, body, Header, kHeaderSize, kCrcSize
<1>15. Len(f) >= 14
  BY <1>9
<1>16. QED
  BY <1>10, <1>13, <1>14, <1>15

(* A frame is the one encode wrote, refused, or empty. *)
CodecInv ==
  \/ frame = <<>> /\ ~damaged
  \/ frame \in Seq(Bytes) /\ Len(frame) >= 14 /\ Valid(frame) /\ Decode(frame) = {packet} /\ ~damaged
  \/ damaged = TRUE /\ Decode(frame) = {}

CodecSpec == CodecInit /\ [][CodecNext]_codecVars

(* A packet that encode writes into a frame is what decode reads back from *)
(* it, and a frame of which one byte has changed is refused, whatever the  *)
(* fields, for a payload of any length, every size of a byte, every prime  *)
(* that has an inverse and every exclusive or.                             *)
THEOREM DecodeSoundCorrect == CodecSpec => []DecodeSound
<1>1. ASSUME CodecInit PROVE CodecInv
  <2>1. packet \in Packets /\ damaged = FALSE
    BY <1>1 DEF CodecInit
  <2>2. \/ frame = Encode(packet, kHeaderSize + Len(packet.payload) + kCrcSize - 0)
        \/ frame = Encode(packet, kHeaderSize + Len(packet.payload) + kCrcSize - 1)
    BY <1>1 DEF CodecInit
  <2>3. QED
    BY <2>1, <2>2, EncodeIs DEF CodecInv
<1>2. ASSUME CodecInv, [CodecNext]_codecVars PROVE CodecInv'
  <2>1. CASE UNCHANGED codecVars
    BY <1>2, <2>1 DEF CodecInv, codecVars, Decode, Valid
  <2>2. ASSUME NEW k \in DOMAIN frame, NEW byte \in Bytes, ChangeByte(k, byte)
        PROVE  CodecInv'
    <3>1. frame # <<>>
      BY <2>2
    <3>2. /\ frame \in Seq(Bytes) /\ Len(frame) >= 14 /\ Valid(frame)
      BY <1>2, <2>2, <3>1 DEF CodecInv, ChangeByte
    <3>3. k \in 1 .. Len(frame) /\ frame[k] # byte
      BY <2>2, <3>2 DEF ChangeByte
    <3>4. Decode([frame EXCEPT ![k] = byte]) = {}
      BY <3>2, <3>3, DamageRefused
    <3>5. frame' = [frame EXCEPT ![k] = byte] /\ damaged' = TRUE
      BY <2>2 DEF ChangeByte
    <3>6. Decode(frame') = {}
      BY <3>4, <3>5
    <3>7. QED
      BY <3>5, <3>6 DEF CodecInv
  <2>3. QED
    BY <1>2, <2>1, <2>2 DEF CodecNext
<1>3. ASSUME CodecInv PROVE DecodeSound
  <2>1. Decode(<<>>) = {}
    BY DEF Decode, kHeaderSize, kCrcSize
  <2>2. ASSUME frame = <<>> PROVE Len(frame) = 0
    BY <2>2
  <2>3. QED
    BY <1>3, <2>1, <2>2 DEF CodecInv, DecodeSound
<1>4. QED
  BY <1>1, <1>2, <1>3, PTL DEF CodecSpec
=============================================================================
