--------------------------- MODULE ChannelCommon ---------------------------
(***************************************************************************)
(* The sequence-number arithmetic and the acknowledgement bookkeeping that *)
(* every channel shares (detail/channel/ChannelCommon.hpp).                *)
(*                                                                         *)
(* A std::uint16_t sequence number is a member of 0 .. SeqMod-1 and every  *)
(* subtraction is taken modulo SeqMod (65536 in the code, smaller here so  *)
(* that wrap-around is reached).  The 32-bit ackBits_ word is the set of   *)
(* its 1 bits, a subset of 0 .. AckHistory-1 (AckHistory is 32).           *)
(***************************************************************************)
EXTENDS Integers

CONSTANTS
  SeqMod,      (* number of sequence numbers: 2^16 in the code             *)
  AckHistory   (* width of ackBits_ and kAckHistorySize: 32 in the code    *)

ASSUME SeqModAssumption == SeqMod \in Nat /\ SeqMod >= 4 /\ SeqMod % 2 = 0

ASSUME AckHistoryAssumption ==
  AckHistory \in Nat /\ AckHistory >= 1 /\ AckHistory < SeqMod \div 2

Seqs == 0 .. SeqMod - 1

(* 32768U: the distance from which a sequence number counts as older. *)
HalfSpace == SeqMod \div 2

(* static_cast<std::uint16_t>(a - b) *)
Delta(a, b) == (a - b) % SeqMod

(* ++ on a std::uint16_t *)
Succ(s) == (s + 1) % SeqMod

isNewerSequence(seq, previous) ==
  Delta(seq, previous) # 0 /\ Delta(seq, previous) < HalfSpace

(* A mutant: plain comparison instead of wrapping arithmetic. *)
isStaleOrDuplicateNoWrap(seq, previous) == seq <= previous

isStaleOrDuplicate(seq, previous) == ~isNewerSequence(seq, previous)

-----------------------------------------------------------------------------
(* ReceiveAckTracker: hasReceived_, latestSequence_ and ackBits_. *)

AckBits == SUBSET (0 .. AckHistory - 1)

Trackers == [has : BOOLEAN, latest : Seqs, bits : AckBits]

NoneReceived == [has |-> FALSE, latest |-> 0, bits |-> {}]

(* ackBits_ << d for d smaller than the width of the word *)
ShiftLeft(bits, d) == {b + d : b \in {c \in bits : c + d < AckHistory}}

(***************************************************************************)
(* The values ackBits_ << d may have.  markReceived also shifts by exactly *)
(* the width of the word (forwardDelta == 32), which C++ leaves undefined: *)
(* a build that masks the shift count leaves the word as it was, one that  *)
(* folds the shift computes 0.                                             *)
(***************************************************************************)
ShiftOutcomes(bits, d) ==
  IF d < AckHistory THEN {ShiftLeft(bits, d)} ELSE {{}, bits}

(* A mutant: the bit of the previous latest sequence number is not set. *)
AdvancedBitsDropLatest(bits, d) ==
  IF d <= AckHistory THEN ShiftOutcomes(bits, d) ELSE {{}}

(* A mutant: an advance keeps the word without shifting it. *)
AdvancedBitsNoShift(bits, d) ==
  IF d <= AckHistory THEN {bits \cup {d - 1}} ELSE {{}}

(* The new ackBits_ when the latest sequence number advances by d. *)
AdvancedBits(bits, d) ==
  IF d <= AckHistory
    THEN {shifted \cup {d - 1} : shifted \in ShiftOutcomes(bits, d)}
    ELSE {{}}

(* The trackers that markReceived(seq) may leave.  The latest number itself *)
(* and one too old for the word change nothing.                            *)
markReceived(t, seq) ==
  LET back == Delta(t.latest, seq)
  IN  IF ~t.has THEN {[has |-> TRUE, latest |-> seq, bits |-> {}]}
      ELSE IF isNewerSequence(seq, t.latest)
        THEN {[has |-> TRUE, latest |-> seq, bits |-> b] :
                b \in AdvancedBits(t.bits, Delta(seq, t.latest))}
      ELSE IF back \in 1 .. AckHistory
        THEN {[t EXCEPT !.bits = @ \cup {back - 1}]}
      ELSE {t}

(* A mutant: the bitfield is read one position off. *)
isAcknowledgedOffByOne(seq, ack, bits) ==
  LET back == Delta(ack, seq)
  IN  seq = ack \/ (back <= AckHistory /\ back < HalfSpace /\ back \in bits)

(* A mutant: the ACK is read as a cumulative one. *)
isAcknowledgedCumulative(seq, ack, bits) == ~isNewerSequence(seq, ack)

isAcknowledged(seq, ack, bits) ==
  LET back == Delta(ack, seq)
  IN  \/ seq = ack
      \/ back # 0 /\ back <= AckHistory /\ back < HalfSpace /\ back - 1 \in bits
=============================================================================
