------------------------------- MODULE Bytes -------------------------------
(***************************************************************************)
(* Bytes, 16-bit words and the conversions between them: the helpers of    *)
(* include/pktbuilder/utils.h and src/utils.cpp.  A byte is a digit in     *)
(* base Radix and a word is two of them, most significant first.  The code *)
(* is the instance Radix = 256; the modules that enumerate whole buffers   *)
(* use a smaller Radix, which keeps every carry and every wrap.            *)
(***************************************************************************)
EXTENDS Integers

CONSTANT Radix

ASSUME RadixAssumption == Radix \in Nat /\ Radix >= 2

Byte == 0 .. Radix - 1

WordSize == Radix * Radix

Word == 0 .. WordSize - 1

(* splitBytesBigEndian<uint16_t>: memcpy, reversed on a little-endian host *)
SplitBytes(w) == <<w \div Radix, w % Radix>>

(* combineBytesBigEndian(b1, b2)                                           *)
CombineBytes(b1, b2) == b1 * Radix + b2
=============================================================================
