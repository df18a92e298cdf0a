----------------------------- MODULE MCChecksum -----------------------------
(* Checksum.tla over every buffer from the empty one to three bytes more   *)
(* than the longest whose sum always fits the accumulator: bytes are bits, *)
(* words have 4 values, the accumulator 16, and LongestExact is 10.        *)
EXTENDS Checksum

MCRadix == 2
MCMaxLen == 13
MCSizeRange == 16
=============================================================================
