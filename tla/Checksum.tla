------------------------------ MODULE Checksum ------------------------------
(***************************************************************************)
(* calculateInternetChecksum (src/checksum.cpp): the loop over byte pairs, *)
(* the odd last byte, and the two foldings of the carries, with a 32-bit   *)
(* accumulator (WordSize ^ 2 values).  The buffer never changes while the  *)
(* function runs.                                                          *)
(*                                                                         *)
(* Nothing in the code bounds the length.  ICMP::Packet::build sums its    *)
(* header and a payload of any size (ICMP.cpp:30-31), IPv4::Packet::build  *)
(* whatever its options came to (IPv4.cpp:174), and the function is public *)
(* and takes the empty buffer too, on which its unsigned len - 1 wraps.    *)
(***************************************************************************)
EXTENDS Bytes

CONSTANTS
  MaxLen,     \* a bound for the runs: the longest buffer that is summed
  SizeRange   \* how many values size_t has, a power of two

ASSUME MaxLenAssumption == MaxLen \in Nat

(* A buffer leaves room for the index behind its end.                      *)
ASSUME SizeAssumption ==
  /\ SizeRange \in Nat /\ SizeRange % 2 = 0
  /\ SizeRange > MaxLen + 1

VARIABLES
  buf,    \* header: the bytes, a function on 0 .. len - 1
  len,
  i,      \* the loop index, a size_t
  sum,    \* uint32_t
  pc,     \* "loop", "fold" or "done"; "crashed" by a read out of the buffer
  out     \* the value returned, or NoResult

checksumVars == <<buf, len, i, sum, pc, out>>

NoResult == -1

(* Mutant: a uint16_t accumulator                                          *)
AccSize_OneWord == WordSize

AccSize == WordSize * WordSize

(* sum = (sum >> 16) + (sum & 0xffff)                                      *)
FoldOnce(s) == (s \div WordSize) + (s % WordSize)

(* Mutant: the second folding is forgotten                                 *)
FoldCarries_Once(s) == FoldOnce(s) % WordSize

(* ... followed by sum += sum >> 16 and the truncation to 16 bits          *)
FoldCarries(s) ==
  LET t == FoldOnce(s) IN (t + (t \div WordSize)) % WordSize

(* static_cast<uint16_t>(~sum)                                             *)
Complement(w) == WordSize - 1 - w

Start == i = 0 /\ sum = 0 /\ pc = "loop" /\ out = NoResult

Init ==
  /\ len \in 0 .. MaxLen
  /\ buf \in [0 .. len - 1 -> Byte]
  /\ Start

(* Mutant: the index is not advanced                                       *)
Stride_None == 0

Stride == 2    \* i += 2

(* Mutant: the loop runs while i < len                                     *)
LoopEnd_Len == len

(* len - 1 is unsigned: for the empty buffer it is the largest size_t.     *)
LoopEnd == (len - 1) % SizeRange

Advance == i' = (i + Stride) % SizeRange

AddPair ==
  /\ pc = "loop"
  /\ i < LoopEnd
  /\ i + 1 < len
  /\ sum' = (sum + CombineBytes(buf[i], buf[i + 1])) % AccSize
  /\ Advance
  /\ UNCHANGED <<buf, len, pc, out>>

(* An iteration that reads behind the end of the buffer, which is          *)
(* undefined behaviour: some word is added, or the program is stopped.     *)
ReadOutside ==
  /\ pc = "loop"
  /\ i < LoopEnd
  /\ i + 1 >= len
  /\ \/ /\ \E w \in Word : sum' = (sum + w) % AccSize
        /\ Advance
        /\ pc' = pc
     \/ /\ pc' = "crashed"
        /\ UNCHANGED <<i, sum>>
  /\ UNCHANGED <<buf, len, out>>

(* Mutant: the odd byte is left out                                        *)
LastWord_Dropped == 0

LastWord == CombineBytes(buf[len - 1], 0)

(* The loop has ended; len is odd, so that one byte is left.               *)
AddOddByte ==
  /\ pc = "loop"
  /\ i >= LoopEnd
  /\ len % 2 # 0
  /\ sum' = (sum + LastWord) % AccSize
  /\ pc' = "fold"
  /\ UNCHANGED <<buf, len, i, out>>

SkipTail ==
  /\ pc = "loop"
  /\ i >= LoopEnd
  /\ len % 2 = 0
  /\ pc' = "fold"
  /\ UNCHANGED <<buf, len, i, sum, out>>

Fold ==
  /\ pc = "fold"
  /\ out' = Complement(FoldCarries(sum))
  /\ pc' = "done"
  /\ UNCHANGED <<buf, len, i, sum>>

Next == AddPair \/ ReadOutside \/ AddOddByte \/ SkipTail \/ Fold

Spec == Init /\ [][Next]_checksumVars /\ WF_checksumVars(Next)
-----------------------------------------------------------------------------
(* Every variable keeps its type, and the accumulator its 32 bits.         *)
TypeOK ==
  /\ len \in 0 .. MaxLen
  /\ buf \in [0 .. len - 1 -> Byte]
  /\ i \in 0 .. SizeRange - 1
  /\ sum \in 0 .. AccSize - 1
  /\ pc \in {"loop", "fold", "done", "crashed"}
  /\ out \in Word \cup {NoResult}

(* The number of words added to sum so far.                                *)
WordsAdded == IF pc = "loop" THEN i \div 2 ELSE (len + 1) \div 2

(* The longest buffer whose sum fits the accumulator whatever its bytes:   *)
(* WordSize + 1 words of all ones make AccSize - 1.  For Radix = 256 these *)
(* are 131074 bytes.                                                       *)
LongestExact == 2 * (WordSize + 1)

(* Up to 131074 bytes no addition of checksum.cpp:8 or :11 wraps the       *)
(* 32-bit accumulator: a carry that left it would be missing from the two  *)
(* foldings of lines 13 and 14.  The buffers of the run are longer, and of *)
(* those some do lose a carry: no caller is kept from summing one, though  *)
(* an IPv4 header of at most 60 bytes, a segment of at most 65535 with its *)
(* pseudo-header of 12, and an ICMP message that fits a packet are exact.  *)
NoCarryLost ==
  [][len > 0 /\ len <= LongestExact => sum' >= sum]_checksumVars

(* The loop reads no byte behind the buffer (checksum.cpp:8), the last     *)
(* pair of an even length and the byte left over of an odd one included;   *)
(* only the empty buffer, for which len - 1 wraps, is read beyond its end. *)
ReadsInside ==
  pc = "loop" /\ i < LoopEnd /\ len > 0 => i + 1 < len

(* The function computes what OnesComplementSum says: after j words the    *)
(* folded accumulator is the one's complement sum of the first j words,    *)
(* and the value returned is its complement; from word WordSize + 2 on     *)
(* a carry may be lost, which takes 1 from the sum.                        *)
Abstract ==
  INSTANCE OnesComplementSum
    WITH k <- WordsAdded, acc <- FoldCarries(sum)

ImplementsOnesComplementSum == Abstract!Spec

(* The loop index advances past the end of every buffer but the empty one, *)
(* so that the function returns, also where the sum wraps.  On the empty   *)
(* buffer it need not return: the comparison i < len - 1 (checksum.cpp:7)  *)
(* holds for every even i, so the loop can only end by a crash.            *)
Returns == len > 0 ~> pc = "done" /\ out # NoResult
=============================================================================
