------------------------- MODULE OnesComplementSum -------------------------
(***************************************************************************)
(* What calculateInternetChecksum promises, without saying how: the one's  *)
(* complement of the one's complement sum of the buffer's 16-bit words, a  *)
(* last odd byte being padded with a zero byte on its right.  Every single *)
(* addition carries around, so no intermediate value is wider than a word. *)
(* The promise is exact for the first WordSize + 1 words; each later one   *)
(* may take one carry away.  Nothing is promised of the empty buffer.      *)
(* Checksum.tla, the loop the code runs, is shown to implement it.         *)
(***************************************************************************)
EXTENDS Bytes

CONSTANT MaxLen

VARIABLES buf, len, k, acc, out

sumVars == <<buf, len, k, acc, out>>

NoResult == -1

WordCount == (len + 1) \div 2

(* The j-th word of the buffer, counting from 0.                           *)
WordAt(j) ==
  CombineBytes(buf[2 * j], IF 2 * j + 1 < len THEN buf[2 * j + 1] ELSE 0)

(* One's complement addition: the carry out of the word is added back in.  *)
CarryAround(a, b) ==
  IF a + b < WordSize THEN a + b ELSE a + b - WordSize + 1

(* How many words are summed without losing a carry                        *)
ExactWords == WordSize + 1

(* What a + b may be, modulo WordSize - 1, when a carry is lost            *)
WithoutCarry(a, b) ==
  {x \in Word : \E m \in -1 .. 1 : a + b = x + 1 + m * (WordSize - 1)}

Init ==
  /\ len \in 0 .. MaxLen
  /\ buf \in [0 .. len - 1 -> Byte]
  /\ k = 0
  /\ acc = 0
  /\ out = NoResult

AddWord ==
  /\ len > 0
  /\ k < WordCount
  /\ k' = k + 1
  /\ \/ acc' = CarryAround(acc, WordAt(k))
     \/ k >= ExactWords /\ acc' \in WithoutCarry(acc, WordAt(k))
  /\ UNCHANGED <<buf, len, out>>

Return ==
  /\ len > 0
  /\ k = WordCount
  /\ out = NoResult
  /\ out' = WordSize - 1 - acc
  /\ UNCHANGED <<buf, len, k, acc>>

Undefined == len = 0 /\ UNCHANGED <<buf, len>>

Next == AddWord \/ Return \/ Undefined

Spec == Init /\ [][Next]_sumVars
=============================================================================
