--------------------------- MODULE WindowHelpers ---------------------------
(***************************************************************************)
(* ReorderBuffer and AckedSet (detail/ReorderBuffer.hpp, AckedSet.hpp) fed *)
(* with one stream: datagram i carries sequence number i % SeqMod, and the *)
(* sender is at most a window of N datagrams ahead of what the reorder     *)
(* buffer has drained.  Datagrams arrive in any order, repeatedly, and not *)
(* once more than Lag behind.  AckedSet<2N> is driven as the duplicate     *)
(* filter it is meant to be: what it has not seen is accepted and marked.  *)
(***************************************************************************)
EXTENDS ChannelCommon, Sequences, FiniteSets

CONSTANTS
  N,           (* slots of the reorder buffer: 128 in the code             *)
  Lag,         (* age of the oldest datagram that may still arrive         *)
  MaxStream    (* bound: length of the stream                              *)

ASSUME HelpersAssumption ==
  /\ N \in Nat \ {0} /\ SeqMod % N = 0
  /\ Lag \in Nat /\ Lag + 2 * N <= HalfSpace
  /\ MaxStream \in Nat

VARIABLES
  slots,       (* slots_: the datagram in each slot, or Empty              *)
  reorderNext, (* nextSeq_                                                 *)
  drained,     (* history: the datagrams drain has returned                *)
  bits, base,  (* bits_ and base_ of the AckedSet                          *)
  accepted     (* history: the datagrams the AckedSet had not seen         *)

helperVars == <<slots, reorderNext, drained, bits, base, accepted>>

Empty == -1

HelpersInit ==
  /\ slots = [k \in 0 .. N - 1 |-> Empty]
  /\ reorderNext = 0
  /\ drained = <<>>
  /\ bits = {}
  /\ base = 0
  /\ accepted = <<>>

-----------------------------------------------------------------------------
(* A mutant: the window is not looked at. *)
InsertAnywhere(i) ==
  IF slots[(i % SeqMod) % N] # Empty
    THEN slots ELSE [slots EXCEPT ![(i % SeqMod) % N] = i]

(* insert drops what is outside the window or finds its slot taken. *)
Insert(i) ==
  IF Delta(i % SeqMod, reorderNext) >= N \/ slots[(i % SeqMod) % N] # Empty
    THEN slots ELSE [slots EXCEPT ![(i % SeqMod) % N] = i]

(* drain returns n datagrams from the slots s: as many as stand in a row. *)
ReadyCount(s, n) ==
  /\ \A k \in 0 .. n - 1 : s[((reorderNext + k) % SeqMod) % N] # Empty
  /\ n < N => s[((reorderNext + n) % SeqMod) % N] = Empty

InsertAndDrain(i) ==
  LET s == Insert(i)
      slot(k) == ((reorderNext + k) % SeqMod) % N
  IN  \E n \in 0 .. N :
        /\ ReadyCount(s, n)
        /\ drained' = drained \o [k \in 1 .. n |-> s[slot(k - 1)]]
        /\ slots' = [j \in DOMAIN s |->
                       IF \E k \in 0 .. n - 1 : slot(k) = j THEN Empty ELSE s[j]]
        /\ reorderNext' = (reorderNext + n) % SeqMod

-----------------------------------------------------------------------------
(* A mutant: what lies before the window has not been seen. *)
SeenInWindow(seq) == Delta(seq, base) \in bits

(* seen *)
Seen(seq) ==
  LET offset == Delta(seq, base)
  IN  IF offset >= 2 * N THEN offset > HalfSpace ELSE offset \in bits

(* A mutant: the window slides one number early. *)
MarkEarly(seq) ==
  LET offset == Delta(seq, base)
      marked == bits \cup {offset}
  IN  CASE offset >= 2 * N -> UNCHANGED <<bits, base>>
        [] offset < N - 1  -> bits' = marked /\ UNCHANGED base
        [] OTHER           -> /\ bits' = {b - N : b \in {c \in marked : c >= N}}
                              /\ base' = (base + N) % SeqMod

(* mark sets the bit, and slides when the bit is in the upper half. *)
Mark(seq) ==
  LET offset == Delta(seq, base)
      marked == bits \cup {offset}
  IN  CASE offset >= 2 * N -> UNCHANGED <<bits, base>>
        [] offset < N      -> bits' = marked /\ UNCHANGED base
        [] OTHER           -> /\ bits' = {b - N : b \in {c \in marked : c >= N}}
                              /\ base' = (base + N) % SeqMod

Filter(i) ==
  \/ /\ Seen(i % SeqMod)
     /\ UNCHANGED <<bits, base, accepted>>
  \/ /\ ~Seen(i % SeqMod)
     /\ Mark(i % SeqMod)
     /\ accepted' = Append(accepted, i)

Arrive(i) ==
  /\ i \in Len(drained) - Lag .. Len(drained) + N - 1
  /\ InsertAndDrain(i)
  /\ Filter(i)

HelpersNext == \E i \in 0 .. MaxStream - 1 : Arrive(i)

HelpersSpec == HelpersInit /\ [][HelpersNext]_helperVars

-----------------------------------------------------------------------------
(* ReorderBuffer.hpp: "delivers them in sequence".  drain returns every     *)
(* datagram once, in the order of the stream, past the wrap of the          *)
(* sequence numbers; drain itself does not compare the numbers.             *)
DrainedInOrder == \A k \in DOMAIN drained : drained[k] = k - 1

(* AckedSet.hpp is a "duplicate-suppression bitmap".  Nothing is accepted   *)
(* twice, although the window slides before its lower half is complete,     *)
(* and the newest datagram is never taken for a duplicate.                  *)
AcceptedOnce ==
  /\ \A j, k \in DOMAIN accepted : j # k => accepted[j] # accepted[k]
  /\ \A i \in {drained[k] : k \in DOMAIN drained} :
       \E k \in DOMAIN accepted : accepted[k] >= i

(* AckedSet.hpp: "Slide when the lower half is fully consumed".  The code   *)
(* slides at the first mark in the upper half, and seen then takes numbers  *)
(* of the lower half for delivered that never came.  It does so for no      *)
(* others: the bitmap starts at a multiple of N, and a datagram that may    *)
(* still arrive is refused only if it was accepted, or if one beyond the    *)
(* next such multiple was.                                                  *)
RefusedOnlyBySlide ==
  \A i \in (0 .. MaxStream - 1) \cap (Len(drained) - Lag .. Len(drained) + N - 1) :
    Seen(i % SeqMod) =>
      \E k \in DOMAIN accepted :
        accepted[k] = i \/ \E m \in i + 1 .. accepted[k] : m % N = 0
=============================================================================
