------------------------ MODULE ChannelCommonProofs ------------------------
(***************************************************************************)
(* What the sequence arithmetic and the ACK word of ChannelCommon mean,    *)
(* for every size of the sequence space and of the word: datagram x of a   *)
(* stream carries number x % SeqMod, and the lemmas say what is known of x *)
(* from its number and from that of a datagram which is not too far away.  *)
(***************************************************************************)
EXTENDS ChannelCommon, TLAPS

LEMMA HalfSpaceRange ==
  /\ SeqMod \in Nat /\ HalfSpace \in Nat /\ HalfSpace >= 2
  /\ SeqMod = HalfSpace + HalfSpace
  /\ AckHistory \in Nat /\ AckHistory >= 1 /\ AckHistory < HalfSpace
  BY SeqModAssumption, AckHistoryAssumption DEF HalfSpace

(* Quotient and remainder, and their uniqueness. *)
LEMMA ModDiv ==
  ASSUME NEW m \in Nat, m >= 1, NEW x \in Int
  PROVE  /\ x \div m \in Int /\ x % m \in 0 .. m - 1
         /\ x = m * (x \div m) + (x % m)
  OBVIOUS

LEMMA ModUnique ==
  ASSUME NEW m \in Nat, m >= 1, NEW q \in Int, NEW r \in 0 .. m - 1
  PROVE  (m * q + r) % m = r
  OBVIOUS

(* A remainder lies below its modulus. *)
LEMMA ModRange ==
  ASSUME NEW a \in Int, NEW m \in Nat, m >= 1
  PROVE  a % m \in 0 .. m - 1
  OBVIOUS

(* A number below the modulus is its own remainder. *)
LEMMA ModSmall ==
  ASSUME NEW n \in Nat, NEW m \in Nat, n < m
  PROVE  n % m = n
  OBVIOUS

(* Adding before or after the wrap comes to the same. *)
LEMMA ModAdd ==
  ASSUME NEW m \in Nat, m >= 1, NEW x \in Int, NEW k \in Int
  PROVE  ((x % m) + k) % m = (x + k) % m
<1>1. PICK q \in Int, r \in 0 .. m - 1 : x = m * q + r /\ r = x % m
  BY ModDiv
<1>2. r + k \in Int
  OBVIOUS
<1>3. PICK u \in Int, v \in 0 .. m - 1 : r + k = m * u + v /\ v = (r + k) % m
  BY <1>2, ModDiv
<1>4. q + u \in Int /\ x + k = m * (q + u) + v
  BY <1>1, <1>3
<1>5. (m * (q + u) + v) % m = v
  BY <1>4, ModUnique
<1>6. QED
  BY <1>1, <1>3, <1>4, <1>5

(* When the size of a ring divides the sequence space, the wrap does not   *)
(* move a number to another slot.                                          *)
LEMMA RingAcrossWrap ==
  ASSUME NEW N \in Nat, N >= 1, SeqMod % N = 0, NEW x \in Int
  PROVE  (x % SeqMod) % N = x % N /\ x % N \in 0 .. N - 1
<1>1. N \in Nat /\ N >= 1 /\ SeqMod \in Nat /\ SeqMod >= 1 /\ SeqMod \in Int /\ SeqMod % N = 0
  BY HalfSpaceRange
<1>2. PICK c \in Int : SeqMod = N * c
  <2>1. PICK c \in Int : SeqMod = N * c + (SeqMod % N)
    BY <1>1, ModDiv
  <2>2. N * c \in Int
    BY <1>1
  <2>3. SeqMod = N * c
    BY <1>1, <2>1, <2>2
  <2>4. QED
    BY <2>3
<1>3. PICK q \in Int, r \in Int : x = SeqMod * q + r /\ r = x % SeqMod
  BY <1>1, ModDiv
<1>4. PICK u \in Int, v \in 0 .. N - 1 : r = N * u + v /\ v = r % N
  BY <1>1, ModDiv
<1>5. SeqMod * q = N * (c * q)
  BY <1>1, <1>2
<1>6. c * q + u \in Int /\ x = N * (c * q + u) + v
  <2>1. PICK d \in Int : d = c * q
    OBVIOUS
  <2>2. N * (d + u) = N * d + N * u /\ N * d \in Int /\ N * u \in Int /\ d + u \in Int
    BY <1>1
  <2>3. x = N * d + (N * u + v)
    BY <1>3, <1>4, <1>5, <2>1
  <2>4. QED
    BY <2>1, <2>2, <2>3
<1>7. (N * (c * q + u) + v) % N = v
  BY <1>1, <1>6, ModUnique
<1>8. QED
  BY <1>3, <1>4, <1>6, <1>7

(* Numbers less than the modulus apart have different remainders. *)
LEMMA SameRemainder ==
  ASSUME NEW m \in Nat, m >= 1, NEW x \in Int, NEW y \in Int,
         x <= y, y - x < m, x % m = y % m
  PROVE  x = y
<1>1. PICK p \in Int, r \in 0 .. m - 1 : x = m * p + r /\ r = x % m
  BY ModDiv
<1>2. PICK q \in Int : y = m * q + r
  BY <1>1, ModDiv
<1>3. PICK c \in Int : c = q - p
  OBVIOUS
<1>4. m * c = m * q - m * p
  BY <1>3
<1>5. y - x = m * c + 0
  BY <1>1, <1>2, <1>4
<1>6. (m * c + 0) % m = 0
  BY ModUnique
<1>7. (y - x) % m = y - x
  BY ModSmall
<1>8. QED
  BY <1>5, <1>6, <1>7

(* Counting modulo m is counting, then taking the remainder. *)
LEMMA ModSucc ==
  ASSUME NEW n \in Nat, NEW m \in Nat, m >= 1
  PROVE  ((n % m) + 1) % m = (n + 1) % m
<1>1. PICK q \in Int, r \in 0 .. m - 1 : n = m * q + r /\ n % m = r
  <2>1. n \in Int
    OBVIOUS
  <2>2. QED
    BY <2>1, ModDiv
<1>2. CASE r + 1 < m
  <2>1. n + 1 = m * q + (r + 1) /\ r + 1 \in 0 .. m - 1
    BY <1>1, <1>2
  <2>2. (n + 1) % m = r + 1
    BY <2>1, ModUnique
  <2>3. (r + 1) % m = r + 1
    BY <1>1, <1>2
  <2>4. QED
    BY <1>1, <2>2, <2>3
<1>3. CASE r + 1 = m
  <2>1. n + 1 = m * (q + 1) + 0 /\ 0 \in 0 .. m - 1 /\ q + 1 \in Int
    BY <1>1, <1>3
  <2>2. (n + 1) % m = 0
    BY <2>1, ModUnique
  <2>3. r + 1 = m * 1 + 0
    BY <1>1, <1>3
  <2>4. (r + 1) % m = 0
    BY <2>1, <2>3, ModUnique
  <2>5. QED
    BY <1>1, <2>2, <2>4
<1>4. QED
  BY <1>1, <1>2, <1>3

(* The increment of a sequence number is a sequence number. *)
LEMMA SuccRange ==
  ASSUME NEW s \in Seqs
  PROVE  Succ(s) \in Seqs
  BY SeqModAssumption, ModRange DEF Succ, Seqs

(* A wrapping difference is a sequence number. *)
LEMMA DeltaRange ==
  ASSUME NEW a \in Seqs, NEW b \in Seqs
  PROVE  Delta(a, b) \in Seqs
  BY SeqModAssumption, ModRange DEF Delta, Seqs

(* The distance of two numbers is that of the datagrams, modulo SeqMod. *)
LEMMA DeltaIs ==
  ASSUME NEW x \in Int, NEW y \in Int, NEW k \in Int, NEW r \in 0 .. SeqMod - 1,
         x - y = SeqMod * k + r
  PROVE  Delta(x % SeqMod, y % SeqMod) = r
<1> DEFINE p == x \div SeqMod
           q == y \div SeqMod
<1>1. SeqMod \in Nat /\ SeqMod >= 1
  BY HalfSpaceRange
<1>2. p \in Int /\ x % SeqMod \in Int /\ x = SeqMod * p + (x % SeqMod)
  BY <1>1, ModDiv
<1>3. q \in Int /\ y % SeqMod \in Int /\ y = SeqMod * q + (y % SeqMod)
  BY <1>1, ModDiv
<1> HIDE DEF p, q
<1>4. PICK c \in Int : c = k - p + q
  BY <1>2, <1>3
<1>5. SeqMod * c = SeqMod * k - SeqMod * p + SeqMod * q
  BY <1>1, <1>2, <1>3, <1>4
<1>6. (x % SeqMod) - (y % SeqMod) = SeqMod * c + r
  BY <1>1, <1>2, <1>3, <1>5
<1>7. (SeqMod * c + r) % SeqMod = r
  BY <1>1, ModUnique
<1>8. QED
  BY <1>6, <1>7 DEF Delta

LEMMA DeltaAhead ==
  ASSUME NEW x \in Int, NEW y \in Int, y <= x, x - y < SeqMod
  PROVE  Delta(x % SeqMod, y % SeqMod) = x - y
<1>1. SeqMod \in Nat
  BY HalfSpaceRange
<1>2. PICK r \in 0 .. SeqMod - 1, k \in Int : r = x - y /\ k = 0
  BY <1>1
<1>3. x - y = SeqMod * k + r
  BY <1>1, <1>2
<1>4. Delta(x % SeqMod, y % SeqMod) = r
  BY <1>3, DeltaIs
<1>5. QED
  BY <1>2, <1>4

LEMMA DeltaBehind ==
  ASSUME NEW x \in Int, NEW y \in Int, x < y, y - x < SeqMod
  PROVE  Delta(x % SeqMod, y % SeqMod) = SeqMod - (y - x)
<1>1. SeqMod \in Nat
  BY HalfSpaceRange
<1>2. PICK r \in 0 .. SeqMod - 1, k \in Int : r = SeqMod - (y - x) /\ k = -1
  BY <1>1
<1>3. x - y = SeqMod * k + r
  BY <1>1, <1>2
<1>4. Delta(x % SeqMod, y % SeqMod) = r
  BY <1>3, DeltaIs
<1>5. QED
  BY <1>2, <1>4

(* Less than half the sequence space ahead is newer; half of it or less    *)
(* behind, or the same, is not.                                            *)
LEMMA NewerAhead ==
  ASSUME NEW x \in Int, NEW y \in Int, y < x, x - y < HalfSpace
  PROVE  isNewerSequence(x % SeqMod, y % SeqMod)
<1>0. y <= x /\ x - y < SeqMod
  BY HalfSpaceRange
<1>1. Delta(x % SeqMod, y % SeqMod) = x - y
  BY <1>0, DeltaAhead
<1>2. QED
  BY <1>1 DEF isNewerSequence

LEMMA NotNewerBehind ==
  ASSUME NEW x \in Int, NEW y \in Int, x <= y, y - x <= HalfSpace
  PROVE  ~isNewerSequence(x % SeqMod, y % SeqMod)
<1>1. CASE x = y
  <2>1. y <= x /\ x - y < SeqMod /\ x - y = 0
    BY <1>1, HalfSpaceRange
  <2>2. Delta(x % SeqMod, y % SeqMod) = x - y
    BY <2>1, DeltaAhead
  <2>3. QED
    BY <2>1, <2>2 DEF isNewerSequence
<1>2. CASE x < y
  <2>0. y - x < SeqMod
    BY HalfSpaceRange
  <2>1. Delta(x % SeqMod, y % SeqMod) = SeqMod - (y - x)
    BY <1>2, <2>0, DeltaBehind
  <2>2. SeqMod - (y - x) >= HalfSpace
    BY HalfSpaceRange
  <2>3. QED
    BY <2>1, <2>2, HalfSpaceRange DEF isNewerSequence
<1>3. QED
  BY <1>1, <1>2

(* Datagrams less than SeqMod apart have different numbers. *)
LEMMA NumbersDiffer ==
  ASSUME NEW x \in Int, NEW y \in Int, x <= y, y - x < SeqMod, x % SeqMod = y % SeqMod
  PROVE  x = y
<1>1. SeqMod \in Nat /\ SeqMod >= 1
  BY HalfSpaceRange
<1>2. QED
  BY <1>1, SameRemainder

(* The ACK word that goes with number n % SeqMod covers datagram x, not    *)
(* too far behind n, just when it is n or its bit is set.                  *)
LEMMA AcknowledgedMeans ==
  ASSUME NEW n \in Int, NEW x \in Int, x <= n, n - x < HalfSpace, NEW bits \in AckBits
  PROVE  isAcknowledged(x % SeqMod, n % SeqMod, bits) <=> x = n \/ n - x - 1 \in bits
<1>0. n - x < SeqMod /\ n - x \in Int
  BY HalfSpaceRange
<1>1. Delta(n % SeqMod, x % SeqMod) = n - x
  BY <1>0, DeltaAhead
<1>2. x % SeqMod = n % SeqMod => x = n
  BY <1>0, NumbersDiffer
<1>3. n - x - 1 \in bits => n - x - 1 >= 0 /\ n - x - 1 < AckHistory
  BY HalfSpaceRange DEF AckBits
<1>4. n - x - 1 \in bits => n - x # 0 /\ n - x <= AckHistory
  BY <1>0, <1>3, HalfSpaceRange
<1>5. QED
  BY <1>1, <1>2, <1>4 DEF isAcknowledged

(* It covers nothing ahead of n, unless it is half the space ahead. *)
LEMMA NothingAhead ==
  ASSUME NEW n \in Int, NEW x \in Int, n < x, x - n < HalfSpace, NEW bits
  PROVE  ~isAcknowledged(x % SeqMod, n % SeqMod, bits)
<1>0. x - n < SeqMod /\ n <= x
  BY HalfSpaceRange
<1>1. Delta(n % SeqMod, x % SeqMod) = SeqMod - (x - n)
  BY <1>0, DeltaBehind
<1>2. SeqMod - (x - n) >= HalfSpace /\ SeqMod - (x - n) \in Int
  BY HalfSpaceRange
<1>3. x % SeqMod # n % SeqMod
  BY <1>0, NumbersDiffer
<1>4. QED
  BY <1>1, <1>2, <1>3, HalfSpaceRange DEF isAcknowledged

-----------------------------------------------------------------------------
(* The ACK tracker. *)

(* Whatever an advance does to the ACK word, no bit lies outside it. *)
LEMMA AdvancedBitsType ==
  ASSUME NEW bits \in AckBits, NEW d \in Nat, d >= 1,
         NEW b \in AdvancedBits(bits, d)
  PROVE  b \in AckBits
<1>1. CASE d <= AckHistory
  <2>1. PICK shifted \in ShiftOutcomes(bits, d) : b = shifted \cup {d - 1}
    BY <1>1 DEF AdvancedBits
  <2>2. ShiftLeft(bits, d) \in AckBits
    BY AckHistoryAssumption DEF ShiftLeft, AckBits
  <2>3. {} \in AckBits
    BY DEF AckBits
  <2>4. shifted \in AckBits
    BY <2>1, <2>2, <2>3 DEF ShiftOutcomes
  <2>5. d - 1 \in 0 .. AckHistory - 1
    BY <1>1, AckHistoryAssumption
  <2>6. QED
    BY <2>1, <2>4, <2>5 DEF AckBits
<1>2. CASE ~(d <= AckHistory)
  BY <1>2 DEF AdvancedBits, AckBits
<1>3. QED
  BY <1>1, <1>2

(* markReceived leaves a tracker of the right type. *)
LEMMA MarkReceivedType ==
  ASSUME NEW t \in Trackers, NEW seq \in Seqs, NEW u \in markReceived(t, seq)
  PROVE  u \in Trackers
<1> DEFINE forward == Delta(seq, t.latest)
           back    == Delta(t.latest, seq)
<1>1. /\ forward \in Nat
      /\ back \in Nat
      /\ t.bits \in AckBits
  BY DeltaRange, SeqModAssumption DEF Trackers, Seqs
<1>2. CASE ~t.has
  <2>1. [has |-> TRUE, latest |-> seq, bits |-> {}] \in Trackers
    BY DEF Trackers, AckBits
  <2>2. QED
    BY <1>2, <2>1 DEF markReceived
<1>3. CASE t.has /\ isNewerSequence(seq, t.latest)
  <2>1. PICK b \in AdvancedBits(t.bits, forward) :
          u = [has |-> TRUE, latest |-> seq, bits |-> b]
    BY <1>3 DEF markReceived
  <2>2. b \in AckBits
    BY <1>1, <1>3, <2>1, AdvancedBitsType DEF isNewerSequence
  <2>3. QED
    BY <2>1, <2>2 DEF Trackers
<1>4. CASE t.has /\ ~isNewerSequence(seq, t.latest) /\ back \in 1 .. AckHistory
  <2>1. u = [t EXCEPT !.bits = @ \cup {back - 1}]
    BY <1>4 DEF markReceived
  <2>2. t.bits \cup {back - 1} \in AckBits
    BY <1>1, <1>4, AckHistoryAssumption DEF AckBits
  <2>3. QED
    BY <2>1, <2>2 DEF Trackers
<1>5. CASE t.has /\ ~isNewerSequence(seq, t.latest) /\ back \notin 1 .. AckHistory
  BY <1>5 DEF markReceived
<1>6. QED
  BY <1>2, <1>3, <1>4, <1>5

(* What markReceived does for datagram i of the stream when n is the       *)
(* newest one so far.                                                      *)
LEMMA MarkFirst ==
  ASSUME NEW t, ~t.has, NEW seq, NEW u \in markReceived(t, seq)
  PROVE  u = [has |-> TRUE, latest |-> seq, bits |-> {}]
  BY DEF markReceived

LEMMA MarkAhead ==
  ASSUME NEW t, t.has, NEW n \in Int, t.latest = n % SeqMod,
         NEW i \in Int, n < i, i - n < HalfSpace, NEW u \in markReceived(t, i % SeqMod)
  PROVE  u.has /\ u.latest = i % SeqMod /\ u.bits \in AdvancedBits(t.bits, i - n)
<1>1. isNewerSequence(i % SeqMod, t.latest)
  BY NewerAhead
<1>2. n <= i /\ i - n < SeqMod
  BY HalfSpaceRange
<1>3. Delta(i % SeqMod, t.latest) = i - n
  BY <1>2, DeltaAhead
<1>4. QED
  BY <1>1, <1>3 DEF markReceived

(* The word after a late datagram *)
LateBits(bits, back) ==
  IF back \in 1 .. AckHistory THEN bits \cup {back - 1} ELSE bits

LEMMA MarkBehind ==
  ASSUME NEW t \in Trackers, t.has, NEW n \in Int, t.latest = n % SeqMod,
         NEW i \in Int, i <= n, n - i < HalfSpace, NEW u \in markReceived(t, i % SeqMod)
  PROVE  u.has /\ u.latest = n % SeqMod /\ u.bits = LateBits(t.bits, n - i)
<1>1. n - i <= HalfSpace /\ n - i < SeqMod
  BY HalfSpaceRange
<1>2. ~isNewerSequence(i % SeqMod, t.latest)
  BY <1>1, NotNewerBehind
<1>3. Delta(t.latest, i % SeqMod) = n - i
  BY <1>1, DeltaAhead
<1>4. QED
  BY <1>2, <1>3 DEF markReceived, Trackers, LateBits

-----------------------------------------------------------------------------
(* The ACK word against the set S of the datagrams received, the newest    *)
(* of which is n.                                                          *)

WordSound(bits, n, S) == n \in S /\ \A b \in bits : n - b - 1 \in S

WordComplete(bits, n, S) ==
  \A x \in S : x <= n /\ (x = n \/ n - x > AckHistory \/ n - x - 1 \in bits)

(* An advance by less than the width of the word, or by more, drops what   *)
(* falls out of the word and keeps the rest in its place.                  *)
LEMMA SoundAhead ==
  ASSUME NEW bits \in AckBits, NEW n \in Int, NEW S, WordSound(bits, n, S),
         NEW i \in Int, n < i, i - n # AckHistory, NEW b \in AdvancedBits(bits, i - n)
  PROVE  WordSound(b, i, S \cup {i})
<1> SUFFICES ASSUME NEW x \in b PROVE i - x - 1 \in S
  BY DEF WordSound
<1>1. AckHistory \in Nat
  BY HalfSpaceRange
<1>2. i - n < AckHistory
  BY <1>1 DEF AdvancedBits
<1>3. x \in ShiftLeft(bits, i - n) \/ x = i - n - 1
  BY <1>1, <1>2 DEF AdvancedBits, ShiftOutcomes
<1>4. CASE x = i - n - 1
  <2>1. i - x - 1 = n
    BY <1>4
  <2>2. QED
    BY <2>1 DEF WordSound
<1>5. CASE x \in ShiftLeft(bits, i - n)
  <2>1. PICK c \in bits : x = c + (i - n)
    BY <1>5 DEF ShiftLeft
  <2>2. c \in Int
    BY <1>1 DEF AckBits
  <2>3. i - x - 1 = n - c - 1
    BY <2>1, <2>2
  <2>4. QED
    BY <2>3 DEF WordSound
<1>6. QED
  BY <1>3, <1>4, <1>5

LEMMA SoundBehind ==
  ASSUME NEW bits \in AckBits, NEW n \in Int, NEW S, WordSound(bits, n, S),
         NEW i \in Int, i <= n, NEW b, b = LateBits(bits, n - i)
  PROVE  WordSound(b, n, S \cup {i})
<1>1. n - (n - i - 1) - 1 = i
  OBVIOUS
<1>2. QED
  BY <1>1 DEF WordSound, LateBits

(* Every advance keeps the bits of the datagrams that the word still spans. *)
LEMMA CompleteAhead ==
  ASSUME NEW bits \in AckBits, NEW n \in Int, NEW S \in SUBSET Int, WordComplete(bits, n, S),
         NEW i \in Int, n < i, NEW b \in AdvancedBits(bits, i - n)
  PROVE  WordComplete(b, i, S \cup {i})
<1>1. AckHistory \in Nat
  BY HalfSpaceRange
<1> SUFFICES ASSUME NEW x \in S, x # i, i - x <= AckHistory
             PROVE  i - x - 1 \in b
  <2>1. \A x \in S : x <= i
    BY DEF WordComplete
  <2>2. QED
    BY <1>1, <2>1 DEF WordComplete
<1>2. x \in Int /\ x <= n /\ (x = n \/ n - x > AckHistory \/ n - x - 1 \in bits)
  BY DEF WordComplete
<1>3. i - n <= AckHistory
  BY <1>1, <1>2
<1>4. CASE x = n
  <2>1. i - n - 1 \in b
    BY <1>3 DEF AdvancedBits
  <2>2. QED
    BY <1>4, <2>1
<1>5. CASE x < n
  <2>1. n - x - 1 \in bits /\ n - x - 1 \in Int
    BY <1>1, <1>2, <1>5
  <2>2. i - x - 1 = (n - x - 1) + (i - n) /\ (n - x - 1) + (i - n) < AckHistory /\ i - n < AckHistory
    BY <1>1, <1>2, <1>5
  <2>3. i - x - 1 \in ShiftLeft(bits, i - n)
    BY <2>1, <2>2 DEF ShiftLeft
  <2>4. QED
    BY <1>3, <2>2, <2>3 DEF AdvancedBits, ShiftOutcomes
<1>6. QED
  BY <1>2, <1>4, <1>5

LEMMA CompleteBehind ==
  ASSUME NEW bits \in AckBits, NEW n \in Int, NEW S \in SUBSET Int, WordComplete(bits, n, S),
         NEW i \in Int, i <= n, NEW b, b = LateBits(bits, n - i)
  PROVE  WordComplete(b, n, S \cup {i})
<1>1. AckHistory \in Nat
  BY HalfSpaceRange
<1>2. i = n \/ n - i > AckHistory \/ n - i - 1 \in b
  BY <1>1 DEF LateBits
<1>3. QED
  BY <1>2 DEF WordComplete, LateBits
=============================================================================
