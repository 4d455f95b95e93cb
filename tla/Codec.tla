------------------------------- MODULE Codec -------------------------------
(***************************************************************************)
(* The default codec (detail/DefaultCodec.hpp): a frame is a sequence of   *)
(* bytes, little-endian, with a trailing checksum.  A byte has ByteSize    *)
(* values (256 in the code), so that a 16-bit field has ByteSize^2 and the *)
(* checksum ByteSize^4; the FNV constants are scaled with it.  What        *)
(* matters of the prime is that it has an inverse (in the code it is odd), *)
(* of XorByte that either operand and the result give the other.  The path *)
(* may change one byte.                                                    *)
(***************************************************************************)
EXTENDS Integers, Sequences

CONSTANTS
  ByteSize,                     (* 256 in the code                         *)
  Basis, Prime,                 (* 2166136261 and 16777619 in the code     *)
  XorByte(_, _),                (* ^ of a word and a byte                  *)
  U8s, U16s, U32s,              (* the values of the fields tried          *)
  MaxPayload                    (* bound: bytes of payload                 *)

HalfWord == ByteSize * ByteSize
Word == HalfWord * HalfWord

Bytes == 0 .. ByteSize - 1
Words == 0 .. Word - 1

ASSUME CodecAssumption ==
  /\ ByteSize \in Nat /\ ByteSize > 1
  /\ Basis \in Nat /\ Prime \in Nat
  /\ \E q \in Words : (Prime * q) % Word = 1
  /\ U8s \subseteq Bytes
  /\ U16s \subseteq 0 .. HalfWord - 1
  /\ U32s \subseteq Words
  /\ MaxPayload \in Nat

ASSUME XorAssumption ==
  \A h \in Words, a \in Bytes :
    /\ XorByte(h, a) \in Words
    /\ \A b \in Bytes : XorByte(h, a) = XorByte(h, b) => a = b
    /\ \A g \in Words : XorByte(h, a) = XorByte(g, a) => h = g

VARIABLES
  packet,    (* the Packet given to encode                                 *)
  frame,     (* the bytes, empty when encode answered 0                    *)
  damaged    (* has the path changed a byte?                               *)

codecVars == <<packet, frame, damaged>>

kHeaderSize == 10
kCrcSize == 4

Packets == [type : U8s, seq : U16s, ack : U16s, ackBits : U32s, channel : U8s,
            payload : UNION {[1 .. n -> U8s] : n \in 0 .. MaxPayload}]

(* A field from its least significant byte *)
writeU16(v) == <<v % ByteSize, v \div ByteSize>>
writeU32(v) == writeU16(v % HalfWord) \o writeU16(v \div HalfWord)

(* A field at p[at] of a frame that counts its bytes from 0 *)
readU16(b, at) == b[at + 1] + ByteSize * b[at + 2]
readU32(b, at) == readU16(b, at) + HalfWord * readU16(b, at + 2)

(* h ^= byte; h *= prime, on the bytes of b *)
Checksum(b) ==
  LET h[n \in 0 .. Len(b)] ==
        IF n = 0 THEN Basis % Word ELSE (XorByte(h[n - 1], b[n]) * Prime) % Word
  IN  h[Len(b)]

(* A mutant: the channel byte is not covered by the checksum. *)
CoveredShort(b) == SubSeq(b, 1, kHeaderSize - 1)

(* The part of a frame the checksum covers *)
Covered(b) == SubSeq(b, 1, Len(b) - kCrcSize)

(* encode into a buffer of the given size *)
Encode(p, size) ==
  LET body == <<p.type>> \o writeU16(p.seq) \o writeU16(p.ack) \o writeU32(p.ackBits)
                \o <<p.channel>> \o p.payload
  IN  IF size < Len(body) + kCrcSize THEN <<>>
      ELSE body \o writeU32(Checksum(Covered(body \o writeU32(0))))

(* decode: the packet, or none *)
Decode(b) ==
  IF \/ Len(b) < kHeaderSize + kCrcSize
     \/ readU32(b, Len(b) - kCrcSize) # Checksum(Covered(b))
    THEN {}
    ELSE {[type    |-> b[1],
           seq     |-> readU16(b, 1),
           ack     |-> readU16(b, 3),
           ackBits |-> readU32(b, 5),
           channel |-> b[10],
           payload |-> SubSeq(b, kHeaderSize + 1, Len(b) - kCrcSize)]}

CodecInit ==
  /\ packet \in Packets
  /\ frame \in {Encode(packet, kHeaderSize + Len(packet.payload) + kCrcSize - short) :
                  short \in {0, 1}}
  /\ damaged = FALSE

ChangeByte(k, byte) ==
  /\ ~damaged
  /\ frame[k] # byte
  /\ frame' = [frame EXCEPT ![k] = byte]
  /\ damaged' = TRUE
  /\ UNCHANGED packet

CodecNext ==
  \E k \in DOMAIN frame, byte \in Bytes : ChangeByte(k, byte)

-----------------------------------------------------------------------------
(* DefaultCodec.hpp: what encode writes decode reads back, unless the       *)
(* buffer was too small; a frame in which any single byte has changed,      *)
(* header, payload or checksum, is refused.                                 *)
DecodeSound ==
  Decode(frame) = IF damaged \/ frame = <<>> THEN {} ELSE {packet}
=============================================================================
