--------------------------- MODULE ChecksumProofs ---------------------------
(***************************************************************************)
(* Proofs about Checksum.tla and ChecksumField.tla, for every Radix and    *)
(* every MaxLen that MaxLenAssumption allows.  Part 1, of the function:    *)
(* the accumulator never wraps, and the function computes the one's        *)
(* complement of the one's complement sum.  Part 2, of a header: it is     *)
(* accepted when it arrives as build made it, and rejected when one of its *)
(* bytes was damaged.                                                      *)
(***************************************************************************)
EXTENDS ChecksumField, Lemmas


(* The largest word, the modulus of one's complement arithmetic            *)
M == WordSize - 1

(* A word has at least four values, and the products of sizes are numbers. *)
LEMMA Sizes ==
  /\ Radix \in Nat /\ Radix >= 2
  /\ WordSize \in Nat /\ WordSize >= 4 /\ WordSize >= 2 * Radix
  /\ M \in Nat /\ M >= 3 /\ WordSize = M + 1
  /\ AccSize \in Nat /\ AccSize = WordSize * M + WordSize
  /\ AccSize = (WordSize + 1) * M + 1
<1>1. Radix \in Nat /\ Radix >= 2
  BY RadixAssumption
<1>2. WordSize \in Nat /\ WordSize >= 2 * Radix
  BY <1>1, ProductMonotone DEF WordSize
<1>3. M \in Nat /\ M >= 3 /\ WordSize = M + 1 /\ WordSize >= 4
  BY <1>1, <1>2 DEF M
<1>4. AccSize = WordSize * (M + 1)
  BY <1>3 DEF AccSize
<1>5. WordSize * (M + 1) = WordSize * M + WordSize
  BY <1>2, <1>3
<1>6. (WordSize + 1) * M = WordSize * M + M
  BY <1>2, <1>3
<1>7. WordSize * M \in Nat
  BY <1>2, <1>3
<1> QED BY <1>1, <1>2, <1>3, <1>4, <1>5, <1>6, <1>7

(* Two bytes make a word; splitting a word and combining it gives it back. *)
LEMMA CombineIsWord ==
  ASSUME NEW b1 \in Byte, NEW b2 \in Byte
  PROVE  CombineBytes(b1, b2) \in Word
<1>1. b1 \in Nat /\ b2 \in Nat /\ b1 + 1 <= Radix /\ b2 + 1 <= Radix
  BY Sizes DEF Byte
<1>2. b1 * Radix \in Nat /\ (b1 + 1) * Radix <= Radix * Radix
  BY <1>1, ProductMonotone, Sizes
<1>3. (b1 + 1) * Radix = b1 * Radix + Radix
  BY <1>1, Sizes
<1> QED BY <1>1, <1>2, <1>3, Sizes DEF CombineBytes, Word, WordSize

(* The two foldings keep the sum modulo M, in the range of a word, and     *)
(* give 0 only for the sum 0.                                              *)
LEMMA FoldShape ==
  ASSUME NEW s \in 0 .. AccSize - 1
  PROVE  /\ FoldCarries(s) \in 0 .. M
         /\ \E n \in Nat : s = n * M + FoldCarries(s)
         /\ FoldCarries(s) = 0 => s = 0
<1> DEFINE q == s \div WordSize
           r == s % WordSize
           t == q + r
<1>1. s \in Nat /\ q \in Nat /\ r \in Nat /\ r < WordSize /\ s = q * WordSize + r
  <2>1. s \in Nat /\ WordSize \in Nat /\ WordSize > 0
    BY Sizes
  <2> QED BY <2>1, DivMod
<1>2. q < WordSize
  <2> SUFFICES ASSUME WordSize <= q PROVE FALSE
    BY <1>1, Sizes
  <2>1. WordSize * WordSize <= q * WordSize
    BY <1>1, Sizes, ProductMonotone
  <2> QED BY <2>1, <1>1, Sizes DEF AccSize
<1>3. s = q * M + t
  BY <1>1, Sizes
<1>4. FoldCarries(s) = (t + (t \div WordSize)) % WordSize
  BY DEF FoldCarries, FoldOnce
<1> HIDE DEF q, r
<1>5. CASE t < WordSize
  <2>1. t \div WordSize = 0
    <3>1. (0 * WordSize + t) \div WordSize = 0
      BY <1>1, <1>5, Sizes, DivUnique
    <3> QED BY <3>1, <1>1, Sizes
  <2>2. t % WordSize = t
    <3>1. (0 * WordSize + t) % WordSize = t
      BY <1>1, <1>5, Sizes, DivUnique
    <3> QED BY <3>1, <1>1, Sizes
  <2>3. FoldCarries(s) = t
    BY <1>1, <1>4, <2>1, <2>2
  <2>4. t = 0 => s = 0
    <3> SUFFICES ASSUME t = 0 PROVE s = 0
      OBVIOUS
    <3>1. q = 0 /\ r = 0
      BY <1>1
    <3> QED BY <3>1, <1>1, Sizes
  <2> QED BY <2>3, <2>4, <1>1, <1>3, <1>5, Sizes
<1>6. CASE WordSize <= t
  <2> DEFINE u == t - WordSize
  <2>0. u \in Nat /\ u < M /\ t = WordSize + u
    BY <1>1, <1>2, <1>6, Sizes
  <2>1. t \div WordSize = 1
    <3>1. (1 * WordSize + u) \div WordSize = 1
      BY <2>0, Sizes, DivUnique
    <3> QED BY <3>1, <2>0, Sizes
  <2>2. (t + 1) % WordSize = u + 1
    <3>1. (1 * WordSize + (u + 1)) % WordSize = u + 1
      BY <2>0, Sizes, DivUnique
    <3> QED BY <3>1, <2>0, Sizes
  <2>3. FoldCarries(s) = u + 1
    BY <1>4, <2>1, <2>2
  <2>4. (q + 1) * M = q * M + M
    BY <1>1, Sizes
  <2>5. s = (q + 1) * M + (u + 1)
    BY <2>0, <2>4, <1>1, <1>3, Sizes
  <2> HIDE DEF u, t
  <2>6. q + 1 \in Nat
    BY <1>1
  <2> QED BY <2>0, <2>3, <2>5, <2>6, Sizes
<1> QED BY <1>1, <1>5, <1>6, Sizes

(* Conversely the remainder modulo M, taken in 1 .. M, is the folded sum.  *)
LEMMA FoldUnique ==
  ASSUME NEW n \in Nat, NEW f \in 1 .. M, n * M + f < AccSize
  PROVE  FoldCarries(n * M + f) = f
<1> DEFINE s == n * M + f
           g == FoldCarries(s)
<1>1. n * M \in Nat /\ s \in 0 .. AccSize - 1
  BY Sizes, ProductMonotone
<1>2. g \in 0 .. M /\ (g = 0 => s = 0)
  BY <1>1, FoldShape
<1>3. PICK m \in Nat : s = m * M + g
  BY <1>1, FoldShape
<1>4. g \in 1 .. M
  BY <1>1, <1>2, Sizes
<1> HIDE DEF g
<1>5. m * M \in Nat /\ n * M + f = m * M + g
  BY <1>3, Sizes, ProductMonotone
<1>6. ~(m < n)
  <2> SUFFICES ASSUME m < n PROVE FALSE
    OBVIOUS
  <2>1. (m + 1) * M <= n * M
    BY Sizes, ProductMonotone
  <2>2. (m + 1) * M = m * M + M
    BY Sizes
  <2> QED BY <2>1, <2>2, <1>1, <1>4, <1>5, Sizes
<1>7. ~(n < m)
  <2> SUFFICES ASSUME n < m PROVE FALSE
    OBVIOUS
  <2>1. (n + 1) * M <= m * M
    BY Sizes, ProductMonotone
  <2>2. (n + 1) * M = n * M + M
    BY Sizes
  <2> QED BY <2>1, <2>2, <1>1, <1>4, <1>5, Sizes
<1>8. m = n
  BY <1>6, <1>7
<1>9. g = f
  BY <1>8, <1>5, <1>4, <1>1, Sizes
<1> QED BY <1>9 DEF g

LEMMA FoldZero == FoldCarries(0) = 0
<1>1. 0 \in 0 .. AccSize - 1
  BY Sizes, ProductMonotone
<1>2. PICK m \in Nat : 0 = m * M + FoldCarries(0)
  BY <1>1, FoldShape
<1>3. m * M \in Nat /\ FoldCarries(0) \in Nat
  BY <1>1, FoldShape, Sizes, ProductMonotone
<1> QED BY <1>2, <1>3

(* Folding after the loop is the same as carrying around at every word.    *)
LEMMA FoldAddsWord ==
  ASSUME NEW s \in 0 .. AccSize - 1, NEW w \in Word, s + w < AccSize
  PROVE  FoldCarries(s + w) = Abstract!CarryAround(FoldCarries(s), w)
<1> DEFINE f == FoldCarries(s)
           g == Abstract!CarryAround(f, w)
<1>1. f \in 0 .. M /\ (f = 0 => s = 0) /\ w \in 0 .. M
  BY FoldShape, Sizes DEF Word, M
<1>2. PICK n \in Nat : s = n * M + f
  BY FoldShape
<1>3. FoldCarries(0) = 0
  BY FoldZero
<1>4. g = IF f + w < WordSize THEN f + w ELSE f + w - WordSize + 1
  BY DEF Abstract!CarryAround, Abstract!WordSize, WordSize
<1> HIDE DEF f, g
<1>5. n * M \in Nat /\ (n + 1) * M = n * M + M
  BY Sizes, ProductMonotone
<1>6. CASE g = 0
  <2>1. f = 0 /\ w = 0
    BY <1>1, <1>4, <1>6, Sizes
  <2>2. s + w = 0
    BY <2>1, <1>1
  <2> QED BY <2>2, <1>3, <1>6 DEF g, f
<1>7. CASE g # 0 /\ f + w < WordSize
  <2>1. g \in 1 .. M /\ s + w = n * M + g
    BY <1>1, <1>2, <1>4, <1>5, <1>7, Sizes
  <2>2. FoldCarries(n * M + g) = g
    BY <2>1, FoldUnique
  <2> QED BY <2>1, <2>2 DEF g, f
<1>8. CASE g # 0 /\ ~(f + w < WordSize)
  <2>1. g \in 1 .. M /\ s + w = (n + 1) * M + g /\ n + 1 \in Nat
    BY <1>1, <1>2, <1>4, <1>5, <1>8, Sizes
  <2>2. FoldCarries((n + 1) * M + g) = g
    BY <2>1, FoldUnique
  <2> QED BY <2>1, <2>2 DEF g, f
<1> QED BY <1>6, <1>7, <1>8
-----------------------------------------------------------------------------
(* The inductive invariant: the index is even and, after the loop, at the  *)
(* end; every word added has put at most M into the accumulator.  A wrap   *)
(* only makes the sum smaller, so this holds for every length but 0.       *)
IndexOK ==
  /\ i <= len /\ i % 2 = 0
  /\ pc # "loop" => i >= len - 1

SumBounded == sum <= WordsAdded * M

ResultWhenDone == pc = "done" <=> out # NoResult

Inside == IndexOK /\ SumBounded /\ ResultWhenDone /\ pc # "crashed"

IInv == TypeOK /\ (len > 0 => Inside)

(* Below the range of size_t nothing wraps.                                *)
LEMMA SizeIsExact ==
  ASSUME NEW n \in Nat, n <= MaxLen + 1
  PROVE  n % SizeRange = n
<1>1. SizeRange \in Nat /\ MaxLen \in Nat /\ n < SizeRange /\ SizeRange > 0
  BY SizeAssumption, MaxLenAssumption
<1>2. (0 * SizeRange + n) % SizeRange = n
  BY <1>1, DivUnique
<1> QED BY <1>1, <1>2

LEMMA LoopEndIs ==
  ASSUME TypeOK, len > 0
  PROVE  LoopEnd = len - 1 /\ len \in Nat /\ len <= MaxLen
<1>1. len \in Nat /\ len <= MaxLen /\ MaxLen \in Nat
  BY MaxLenAssumption DEF TypeOK
<1>2. len - 1 \in Nat /\ len - 1 <= MaxLen + 1
  BY <1>1
<1> QED BY <1>1, <1>2, SizeIsExact DEF LoopEnd

(* Every iteration over a buffer that is not empty reads a pair inside it. *)
LEMMA NotOutside ==
  ASSUME IInv, len > 0
  PROVE  ~ReadOutside /\ ReadsInside
<1>1. LoopEnd = len - 1 /\ len \in Nat
  BY LoopEndIs DEF IInv
<1>2. i \in Nat
  BY SizeAssumption DEF IInv, TypeOK
<1> QED BY <1>1, <1>2 DEF ReadOutside, ReadsInside

(* The word that an iteration of the loop adds                             *)
LEMMA PairIsWord ==
  ASSUME IInv, AddPair
  PROVE  /\ CombineBytes(buf[i], buf[i + 1]) \in Word
         /\ len > 0 /\ i' = i + 2 /\ i' <= len /\ i' % 2 = 0
         /\ i' \in 0 .. SizeRange - 1
         /\ WordsAdded \in Nat /\ 2 * WordsAdded < len
         /\ WordsAdded' = WordsAdded + 1
<1>1. /\ len \in Nat /\ i \in Nat /\ i + 1 < len /\ len > 0 /\ pc = "loop"
      /\ len <= MaxLen /\ MaxLen \in Nat /\ buf \in [0 .. len - 1 -> Byte]
  BY MaxLenAssumption, SizeAssumption DEF IInv, TypeOK, AddPair
<1>2. i % 2 = 0
  BY <1>1 DEF IInv, Inside, IndexOK
<1>3. i \in 0 .. len - 1 /\ i + 1 \in 0 .. len - 1
  BY <1>1
<1>4. CombineBytes(buf[i], buf[i + 1]) \in Word
  BY <1>1, <1>3, CombineIsWord
<1>5. i' = i + 2
  BY <1>1, SizeIsExact DEF AddPair, Advance, Stride
<1>6. WordsAdded = i \div 2 /\ WordsAdded' = (i + 2) \div 2
  BY <1>1, <1>5 DEF WordsAdded, AddPair
<1> QED BY <1>1, <1>2, <1>4, <1>5, <1>6, SizeAssumption

(* The word that the odd last byte makes                                   *)
LEMMA OddByteIsWord ==
  ASSUME IInv, AddOddByte
  PROVE  /\ CombineBytes(buf[len - 1], 0) \in Word
         /\ len > 0 /\ i = len - 1
         /\ WordsAdded \in Nat /\ 2 * WordsAdded < len
         /\ WordsAdded' = WordsAdded + 1
<1>1. /\ len \in Nat /\ i \in Nat /\ len > 0 /\ pc = "loop"
      /\ buf \in [0 .. len - 1 -> Byte] /\ len % 2 # 0
  BY MaxLenAssumption, SizeAssumption DEF IInv, TypeOK, AddOddByte
<1>2. i >= len - 1 /\ i <= len /\ i % 2 = 0
  BY <1>1, LoopEndIs DEF AddOddByte, IInv, Inside, IndexOK
<1>3. len - 1 \in 0 .. len - 1 /\ 0 \in Byte /\ i = len - 1
  BY <1>1, <1>2, Sizes DEF Byte
<1>4. CombineBytes(buf[len - 1], 0) \in Word
  BY <1>1, <1>3, CombineIsWord
<1>5. WordsAdded = i \div 2 /\ WordsAdded' = (len + 1) \div 2
  BY <1>1 DEF WordsAdded, AddOddByte
<1> QED BY <1>1, <1>2, <1>3, <1>4, <1>5

(* What the accumulator holds after one more word, wrapped or not          *)
LEMMA BoundFollows ==
  ASSUME NEW n \in Nat, NEW s \in 0 .. AccSize - 1, s <= n * M, NEW w \in Word
  PROVE  /\ (s + w) % AccSize \in 0 .. AccSize - 1
         /\ (s + w) % AccSize <= (n + 1) * M
         /\ n + 1 <= WordSize + 1 => (s + w) % AccSize = s + w
         /\ \/ (s + w) % AccSize = s + w
            \/ n >= WordSize + 1 /\ (s + w) % AccSize = s + w - AccSize
<1>0. n * M \in Nat /\ (n + 1) * M = n * M + M /\ AccSize \in Nat
      /\ s \in Nat /\ w \in Nat /\ (n + 1) * M \in Nat
  <2>1. w \in Nat
    BY Sizes DEF Word
  <2>2. n * M \in Nat /\ (n + 1) * M = n * M + M /\ AccSize \in Nat /\ s \in Nat
    BY Sizes, ProductMonotone
  <2> QED BY <2>1, <2>2, Sizes
<1>1. w \in 0 .. M /\ M < AccSize
  <2>1. (WordSize + 1) * M = WordSize * M + M /\ WordSize * M \in Nat
    BY Sizes, ProductMonotone
  <2> QED BY <2>1, Sizes DEF Word, M
<1>2. s + w \in Nat /\ s + w <= (n + 1) * M
  BY <1>0, <1>1, Sizes
<1>3. ASSUME n + 1 <= WordSize + 1 PROVE s + w < AccSize
  <2>1. (n + 1) * M <= (WordSize + 1) * M
    BY <1>3, Sizes, ProductMonotone
  <2>2. (WordSize + 1) * M \in Nat
    BY Sizes, ProductMonotone
  <2> QED BY <1>0, <1>2, <2>1, <2>2, Sizes
<1>4. CASE s + w < AccSize
  <2>1. (0 * AccSize + (s + w)) % AccSize = s + w
    BY <1>0, <1>2, <1>4, DivUnique
  <2> QED BY <1>0, <1>2, <1>4, <2>1
<1>5. CASE AccSize <= s + w
  <2>1. s + w - AccSize \in Nat /\ s + w - AccSize < AccSize
    BY <1>0, <1>1, <1>2, <1>5, Sizes
  <2>2. (1 * AccSize + (s + w - AccSize)) % AccSize = s + w - AccSize
    BY <1>0, <2>1, DivUnique
  <2>3. ~(n + 1 <= WordSize + 1)
    BY <1>0, <1>2, <1>3, <1>5
  <2>4. (s + w) % AccSize = s + w - AccSize
    <3>1. 1 * AccSize + (s + w - AccSize) = s + w
      BY <1>0, <1>2
    <3> QED BY <2>2, <3>1
  <2>5. n >= WordSize + 1
    BY <2>3, Sizes
  <2> DEFINE e == (s + w) % AccSize
             b == (n + 1) * M
  <2>6. e \in Nat /\ e < AccSize /\ e <= s + w /\ b \in Nat /\ s + w <= b
    BY <1>0, <1>2, <2>1, <2>4
  <2>7. e \in 0 .. AccSize - 1 /\ e <= b
    <3> HIDE DEF e, b
    <3> QED BY <1>0, <1>2, <2>6
  <2> QED BY <2>3, <2>4, <2>5, <2>7
<1> QED BY <1>0, <1>2, <1>4, <1>5

LEMMA InitIInv == Init => IInv
<1> SUFFICES ASSUME Init PROVE IInv
  OBVIOUS
<1>1. AccSize > 0 /\ AccSize \in Nat /\ len \in Nat
  BY Sizes, ProductMonotone, MaxLenAssumption DEF Init
<1>2. WordsAdded = 0
  BY DEF Init, Start, WordsAdded
<1>3. TypeOK
  BY <1>1, SizeAssumption, MaxLenAssumption DEF Init, Start, TypeOK
<1>4. SumBounded
  BY <1>2, Sizes DEF SumBounded, Init, Start
<1> QED BY <1>1, <1>3, <1>4
        DEF IInv, Inside, IndexOK, ResultWhenDone, Init, Start

(* A word is added: the part of the invariant that AddPair and AddOddByte  *)
(* share                                                                   *)
LEMMA AddedIInv ==
  ASSUME IInv, len > 0, NEW w \in Word, sum' = (sum + w) % AccSize,
         WordsAdded' = WordsAdded + 1
  PROVE  sum' \in 0 .. AccSize - 1 /\ SumBounded'
<1>1. WordsAdded \in Nat /\ sum \in 0 .. AccSize - 1 /\ sum <= WordsAdded * M
  BY MaxLenAssumption, SizeAssumption
     DEF IInv, TypeOK, Inside, SumBounded, WordsAdded
<1> QED BY <1>1, BoundFollows DEF SumBounded

LEMMA StepIInv == IInv /\ [Next]_checksumVars => IInv'
<1> SUFFICES ASSUME IInv, [Next]_checksumVars PROVE IInv'
  OBVIOUS
<1>0. /\ SizeRange \in Nat /\ SizeRange > 0 /\ AccSize \in Nat /\ AccSize > 0
      /\ len \in Nat /\ i \in Nat /\ sum \in Nat
  BY Sizes, ProductMonotone, MaxLenAssumption, SizeAssumption DEF IInv, TypeOK
<1>1. CASE AddPair
  <2>1. sum' \in 0 .. AccSize - 1 /\ SumBounded'
    BY <1>1, PairIsWord, AddedIInv DEF AddPair
  <2>2. TypeOK'
    BY <1>1, <2>1, PairIsWord DEF AddPair, IInv, TypeOK
  <2>3. IndexOK' /\ ResultWhenDone' /\ pc' # "crashed"
    BY <1>1, PairIsWord DEF AddPair, IInv, Inside, IndexOK, ResultWhenDone
  <2> QED BY <2>1, <2>2, <2>3 DEF IInv, Inside
<1>2. CASE ReadOutside
  <2>1. ~(len > 0) /\ len' = len
    BY <1>2, NotOutside DEF ReadOutside
  <2>2. sum' \in 0 .. AccSize - 1
    <3>1. \A w \in Word : (sum + w) % AccSize \in 0 .. AccSize - 1
      <4> SUFFICES ASSUME NEW w \in Word
                   PROVE  (sum + w) % AccSize \in 0 .. AccSize - 1
        OBVIOUS
      <4>1. w \in Nat /\ sum + w \in Nat
        BY <1>0, Sizes DEF Word
      <4> QED BY <1>0, <4>1, DivMod
    <3> QED BY <1>2, <3>1 DEF ReadOutside, IInv, TypeOK
  <2>3. i' \in 0 .. SizeRange - 1
    <3>1. (i + 2) % SizeRange \in 0 .. SizeRange - 1
      BY <1>0, DivMod
    <3> QED BY <1>2, <3>1 DEF ReadOutside, Advance, Stride, IInv, TypeOK
  <2>4. TypeOK'
    BY <1>2, <2>2, <2>3 DEF ReadOutside, IInv, TypeOK
  <2> QED BY <2>1, <2>4 DEF IInv
<1>3. CASE AddOddByte
  <2>1. sum' \in 0 .. AccSize - 1 /\ SumBounded'
    BY <1>3, OddByteIsWord, AddedIInv DEF AddOddByte, LastWord
  <2>2. TypeOK'
    BY <1>3, <2>1 DEF AddOddByte, IInv, TypeOK
  <2>3. IndexOK' /\ ResultWhenDone' /\ pc' # "crashed"
    <3>1. Inside /\ i = len - 1
      BY <1>3, OddByteIsWord DEF IInv
    <3> QED BY <1>0, <1>3, <3>1 DEF AddOddByte, Inside, IndexOK, ResultWhenDone
  <2> QED BY <2>1, <2>2, <2>3 DEF IInv, Inside
<1>4. CASE SkipTail
  <2>1. TypeOK'
    BY <1>4 DEF SkipTail, IInv, TypeOK
  <2>2. ASSUME len > 0 PROVE Inside'
    <3>1. i >= len - 1 /\ Inside
      BY <1>4, <2>2, LoopEndIs DEF SkipTail, IInv
    <3>2. WordsAdded' = WordsAdded
      BY <1>0, <1>4, <3>1 DEF SkipTail, Inside, IndexOK, WordsAdded
    <3> QED BY <1>4, <3>1, <3>2
            DEF SkipTail, Inside, IndexOK, SumBounded, ResultWhenDone
  <2> QED BY <1>4, <2>1, <2>2 DEF IInv, SkipTail
<1>5. CASE Fold
  <2>1. WordsAdded' = WordsAdded
    BY <1>5 DEF Fold, WordsAdded
  <2>2. FoldCarries(sum) \in 0 .. M
    BY FoldShape DEF IInv, TypeOK
  <2>3. Complement(FoldCarries(sum)) \in Word
    BY <2>2, Sizes DEF Complement, Word
  <2>4. Complement(FoldCarries(sum)) # NoResult
    BY <2>3, Sizes DEF Word, NoResult
  <2> QED BY <1>5, <2>1, <2>3, <2>4
          DEF Fold, IInv, Inside, TypeOK, IndexOK, SumBounded, ResultWhenDone
<1>6. CASE UNCHANGED checksumVars
  BY <1>6 DEF checksumVars, IInv, Inside, TypeOK, IndexOK, SumBounded,
              WordsAdded, ResultWhenDone
<1> QED BY <1>1, <1>2, <1>3, <1>4, <1>5, <1>6 DEF Next

(* Type correctness for every Radix, length and width of size_t: the value *)
(* returned is a 16-bit word.                                              *)
THEOREM TypeCorrect == Spec => []TypeOK
<1>1. IInv => TypeOK
  BY DEF IInv
<1> QED BY InitIInv, StepIInv, <1>1, PTL DEF Spec

(* No byte behind a buffer is read, however long it is, unless it is empty.*)
THEOREM NeverReadsOutside == Spec => []ReadsInside
<1>1. IInv => ReadsInside
  BY NotOutside DEF ReadsInside
<1> QED BY InitIInv, StepIInv, <1>1, PTL DEF Spec

(* The accumulator of checksum.cpp:6 does not wrap while WordSize + 1      *)
(* words or fewer are summed: of all the buffers, whose length nothing     *)
(* bounds, those of up to LongestExact bytes keep every carry.             *)
THEOREM NeverWraps == Spec => NoCarryLost
<1>1. IInv /\ [Next]_checksumVars
        => [len > 0 /\ len <= LongestExact => sum' >= sum]_checksumVars
  <2> SUFFICES ASSUME IInv, Next, len > 0, len <= LongestExact
               PROVE  sum' >= sum
    OBVIOUS
  <2>1. /\ sum \in 0 .. AccSize - 1 /\ sum \in Nat /\ sum <= WordsAdded * M
        /\ len \in Nat
    BY Sizes, MaxLenAssumption DEF IInv, Inside, TypeOK, SumBounded
  <2>2. \A w \in Word : w >= 0 /\ w \in Nat
    BY Sizes DEF Word
  <2>3. ASSUME NEW w \in Word, WordsAdded \in Nat, 2 * WordsAdded < len,
               sum' = (sum + w) % AccSize
        PROVE  sum' >= sum
    <3>1. WordsAdded + 1 <= WordSize + 1
      BY <2>1, <2>3, Sizes DEF LongestExact
    <3>2. sum' = sum + w
      BY <2>1, <2>3, <3>1, BoundFollows
    <3> QED BY <2>1, <2>2, <3>2
  <2>4. CASE AddPair
    BY <2>3, <2>4, PairIsWord DEF AddPair
  <2>5. CASE AddOddByte
    BY <2>3, <2>5, OddByteIsWord DEF AddOddByte, LastWord
  <2>6. CASE SkipTail \/ Fold
    BY <2>1, <2>6 DEF SkipTail, Fold
  <2> QED BY <2>4, <2>5, <2>6, NotOutside DEF Next
<1> QED BY InitIInv, StepIInv, <1>1, PTL DEF Spec, NoCarryLost
-----------------------------------------------------------------------------
(* The word that each adding step combines is the next one of the abstract *)
(* specification.                                                          *)
LEMMA PairIsNextWord ==
  ASSUME IInv, AddPair
  PROVE  /\ Abstract!WordAt(WordsAdded) = CombineBytes(buf[i], buf[i + 1])
         /\ WordsAdded < Abstract!WordCount
<1>1. /\ len \in Nat /\ i \in Nat /\ i % 2 = 0 /\ i + 1 < len
      /\ WordsAdded = i \div 2
  BY MaxLenAssumption, SizeAssumption
     DEF IInv, Inside, TypeOK, IndexOK, AddPair, WordsAdded
<1>2. 2 * WordsAdded = i /\ WordsAdded < (len + 1) \div 2
  BY <1>1
<1> QED BY <1>1, <1>2 DEF Abstract!WordAt, Abstract!WordCount,
                          Abstract!CombineBytes, CombineBytes

LEMMA OddByteIsNextWord ==
  ASSUME IInv, AddOddByte
  PROVE  /\ Abstract!WordAt(WordsAdded) = CombineBytes(buf[len - 1], 0)
         /\ WordsAdded < Abstract!WordCount
<1>1. /\ len \in Nat /\ i \in Nat /\ i % 2 = 0 /\ i = len - 1 /\ len > 0
      /\ WordsAdded = i \div 2
  BY OddByteIsWord, MaxLenAssumption, SizeAssumption
     DEF IInv, Inside, TypeOK, IndexOK, AddOddByte, WordsAdded
<1>2. 2 * WordsAdded = i /\ WordsAdded < (len + 1) \div 2
  BY <1>1
<1> QED BY <1>1, <1>2 DEF Abstract!WordAt, Abstract!WordCount,
                          Abstract!CombineBytes, CombineBytes

(* An accumulator that lost a carry folds to one less, modulo M.           *)
LEMMA FoldLosesOne ==
  ASSUME NEW s \in 0 .. AccSize - 1, NEW w \in Word, s + w >= AccSize
  PROVE  FoldCarries(s + w - AccSize) \in
           Abstract!WithoutCarry(FoldCarries(s), w)
<1> DEFINE f == FoldCarries(s)
           r == s + w - AccSize
           g == FoldCarries(r)
<1>0. w \in 0 .. M /\ M < AccSize /\ AccSize \in Nat /\ s \in Nat
  <2>1. (WordSize + 1) * M = WordSize * M + M /\ WordSize * M \in Nat
    BY Sizes, ProductMonotone
  <2> QED BY <2>1, Sizes DEF Word, M
<1>1. r \in 0 .. AccSize - 1
  <2>1. s <= AccSize - 1 /\ s + w - AccSize < AccSize /\ w \in Nat
    BY <1>0, Sizes
  <2> QED BY <1>0, <2>1
<1>2. f \in 0 .. M /\ g \in 0 .. M
  BY <1>1, FoldShape
<1>3. PICK n \in Nat : s = n * M + f
  BY FoldShape
<1>4. PICK p \in Nat : r = p * M + g
  BY <1>1, FoldShape
<1> HIDE DEF f, g
<1> DEFINE d == p + (WordSize + 1) - n
<1>5. /\ d \in Int /\ n * M \in Nat /\ p * M \in Nat
      /\ (WordSize + 1) * M \in Nat
  BY Sizes, ProductMonotone
<1>6. f + w = g + 1 + d * M
  <2>1. d * M = p * M + (WordSize + 1) * M - n * M
    BY Sizes
  <2>2. n * M + f + w = p * M + g + (WordSize + 1) * M + 1
    BY <1>0, <1>2, <1>3, <1>4, <1>5, Sizes
  <2> HIDE DEF d
  <2> QED BY <1>0, <1>2, <1>5, <2>1, <2>2
<1> HIDE DEF d, r
<1>7. d * M \in Int /\ -(M + 1) <= d * M /\ d * M <= 2 * M - 1
  BY <1>0, <1>2, <1>5, <1>6, Sizes
<1>8. ~(d >= 2)
  <2> SUFFICES ASSUME d >= 2 PROVE FALSE
    OBVIOUS
  <2>1. 2 * M <= d * M
    BY <1>5, Sizes, ProductMonotone
  <2> QED BY <1>7, <2>1, Sizes
<1>9. ~(d <= -2)
  <2> SUFFICES ASSUME d <= -2 PROVE FALSE
    OBVIOUS
  <2>1. -d \in Nat /\ 2 <= -d /\ d = -(-d)
    BY <1>5
  <2>2. 2 * M <= (-d) * M
    BY <2>1, Sizes, ProductMonotone
  <2>3. (-d) * M = -(d * M)
    BY <1>5, Sizes
  <2> QED BY <1>7, <2>2, <2>3, Sizes
<1>10. d \in -1 .. 1
  BY <1>5, <1>8, <1>9
<1>11. g \in Abstract!Word
  BY <1>2, Sizes DEF Abstract!Word, Abstract!WordSize, WordSize
<1>12. f + w = g + 1 + d * (Abstract!WordSize - 1)
  BY <1>6 DEF Abstract!WordSize, WordSize, M
<1> QED BY <1>10, <1>11, <1>12 DEF Abstract!WithoutCarry, f, g, r

(* The fold of an accumulator that one more word was added to              *)
LEMMA AccFollows ==
  ASSUME NEW n \in Nat, NEW s \in 0 .. AccSize - 1, s <= n * M, NEW w \in Word
  PROVE  \/ FoldCarries((s + w) % AccSize) =
              Abstract!CarryAround(FoldCarries(s), w)
         \/ /\ n >= Abstract!ExactWords
            /\ FoldCarries((s + w) % AccSize) \in
                 Abstract!WithoutCarry(FoldCarries(s), w)
<1>1. s \in Nat /\ w \in Nat /\ AccSize \in Nat
  BY Sizes, ProductMonotone DEF Word
<1>2. (s + w) % AccSize \in 0 .. AccSize - 1
  BY BoundFollows
<1>3. CASE (s + w) % AccSize = s + w
  <2>1. s + w < AccSize
    BY <1>1, <1>2, <1>3
  <2> QED BY <1>3, <2>1, FoldAddsWord
<1>4. CASE n >= WordSize + 1 /\ (s + w) % AccSize = s + w - AccSize
  <2>1. s + w >= AccSize
    BY <1>1, <1>2, <1>4
  <2>2. n >= Abstract!ExactWords
    BY <1>4 DEF Abstract!ExactWords, Abstract!WordSize, WordSize
  <2> QED BY <1>4, <2>1, <2>2, FoldLosesOne
<1> QED BY <1>3, <1>4, BoundFollows

(* Every step of the code is a step of the abstract specification, or one  *)
(* that it does not see (the end of the loop over an even length).         *)
LEMMA StepRefines ==
  IInv /\ [Next]_checksumVars => [Abstract!Next]_Abstract!sumVars
<1> SUFFICES ASSUME IInv, [Next]_checksumVars
             PROVE  [Abstract!Next]_Abstract!sumVars
  OBVIOUS
<1>0. len \in Nat
  BY MaxLenAssumption DEF IInv, TypeOK
<1>1. CASE UNCHANGED checksumVars
  BY <1>1 DEF checksumVars, Abstract!sumVars, WordsAdded
<1>2. CASE ~(len > 0) /\ Next
  <2>1. UNCHANGED <<buf, len>>
    BY <1>2 DEF Next, AddPair, ReadOutside, AddOddByte, SkipTail, Fold
  <2>2. Abstract!Undefined
    BY <1>0, <1>2, <2>1 DEF Abstract!Undefined
  <2> QED BY <2>2 DEF Abstract!Next
<1>3. ASSUME len > 0, AddPair \/ AddOddByte PROVE Abstract!AddWord
  <2>0. WordsAdded \in Nat /\ sum \in 0 .. AccSize - 1 /\ sum <= WordsAdded * M
    BY <1>3, MaxLenAssumption, SizeAssumption
       DEF IInv, Inside, TypeOK, SumBounded, WordsAdded
  <2>1. /\ Abstract!WordAt(WordsAdded) \in Word
        /\ sum' = (sum + Abstract!WordAt(WordsAdded)) % AccSize
        /\ WordsAdded' = WordsAdded + 1 /\ WordsAdded < Abstract!WordCount
        /\ UNCHANGED <<buf, len, out>>
    <3>1. CASE AddPair
      BY <3>1, PairIsWord, PairIsNextWord DEF AddPair
    <3>2. CASE AddOddByte
      BY <3>2, OddByteIsWord, OddByteIsNextWord DEF AddOddByte, LastWord
    <3> QED BY <1>3, <3>1, <3>2
  <2>2. \/ FoldCarries(sum') =
             Abstract!CarryAround(FoldCarries(sum), Abstract!WordAt(WordsAdded))
        \/ /\ WordsAdded >= Abstract!ExactWords
           /\ FoldCarries(sum') \in
                Abstract!WithoutCarry(FoldCarries(sum), Abstract!WordAt(WordsAdded))
    BY <2>0, <2>1, AccFollows
  <2> QED BY <1>3, <2>1, <2>2 DEF Abstract!AddWord
<1>4. CASE len > 0 /\ SkipTail
  <2>1. i >= len - 1 /\ i \in Nat /\ Inside
    BY <1>4, LoopEndIs, SizeAssumption DEF SkipTail, IInv, TypeOK
  <2>2. WordsAdded' = WordsAdded
    BY <1>0, <1>4, <2>1 DEF SkipTail, Inside, IndexOK, WordsAdded
  <2> QED BY <1>4, <2>2 DEF SkipTail, Abstract!sumVars
<1>5. CASE len > 0 /\ Fold
  <2>1. WordsAdded' = WordsAdded /\ WordsAdded = Abstract!WordCount
    BY <1>5 DEF Fold, WordsAdded, Abstract!WordCount
  <2>2. out = Abstract!NoResult
    BY <1>5 DEF Fold, IInv, Inside, ResultWhenDone, NoResult, Abstract!NoResult
  <2>3. Abstract!Return
    BY <1>5, <2>1, <2>2 DEF Fold, Abstract!Return, Complement,
       WordSize, Abstract!WordSize
  <2> QED BY <2>3 DEF Abstract!Next
<1> QED BY <1>0, <1>1, <1>2, <1>3, <1>4, <1>5, NotOutside DEF Next, Abstract!Next

(* calculateInternetChecksum implements the one's complement sum: for      *)
(* every byte size, every length and all contents, folding twice at the    *)
(* end gives what carrying around at each word would, exactly up to        *)
(* LongestExact bytes and one less for every carry lost beyond.            *)
THEOREM Implements == Spec => ImplementsOnesComplementSum
<1>1. Init => Abstract!Init
  <2> SUFFICES ASSUME Init PROVE Abstract!Init
    OBVIOUS
  <2>1. WordsAdded = 0
    BY DEF Init, Start, WordsAdded
  <2>2. FoldCarries(0) = 0
    BY FoldZero
  <2> QED BY <2>1, <2>2 DEF Init, Start, Abstract!Init, NoResult,
             Abstract!NoResult, Byte, Abstract!Byte
<1> QED BY InitIInv, StepIInv, <1>1, StepRefines, PTL
        DEF Spec, ImplementsOnesComplementSum, Abstract!Spec

-----------------------------------------------------------------------------
(***************************************************************************)
(* Part 2.  The history variable partial holds the sums of build.  Every   *)
(* word the receiver reads differs from the word build summed only at the  *)
(* checksum field, where it is larger by the checksum, and at the damaged  *)
(* byte.  So the receiver's sum is partial[N], plus the checksum, which    *)
(* makes it a multiple of M, plus a damage that is not one.                *)
(***************************************************************************)
WordTotal == (built + 1) \div 2

(* Word n of what build summed, as it is on the wire                       *)
WireWord(n) ==
  CombineBytes(data[2 * n], IF 2 * n + 1 < built THEN data[2 * n + 1] ELSE 0)

(* The checksum that build stores, and the change a damaged byte makes to  *)
(* the word it is in                                                       *)
Stored == Complement(FoldCarries(partial[WordTotal]))

Weight == IF damage.at % 2 = 0 THEN Radix ELSE 1

Delta == damage.by * Weight

(* What word n is larger by than the one that build summed, and what the   *)
(* first n words are                                                       *)
StoredAt(n)  == IF n = field \div 2 THEN Stored ELSE 0
DamagedAt(n) == IF n = damage.at \div 2 THEN Delta ELSE 0

StoredBelow(n)  == IF field \div 2 < n THEN Stored ELSE 0
DamagedBelow(n) == IF damage.at \div 2 < n THEN Delta ELSE 0

(* The first byte says how long the header is, while it is undamaged.      *)
LengthInv ==
  /\ covered = "all" => size = built
  /\ covered = "header" => field # 0
  /\ covered = "header" /\ (damage = Undamaged \/ damage.at # 0)
        => HeaderLength(data[0]) = built

SummingInv ==
  /\ FieldTypeOK
  /\ IInv
  /\ LengthInv
  /\ len >= 2 /\ built <= LongestExact
  /\ pc = "done" => out = Complement(FoldCarries(sum))
  /\ partial[0] = 0
  /\ damage.by = 0 => damage = Undamaged

BuildInv ==
  phase = "build" =>
    /\ len = built
    /\ \A n \in 0 .. built - 1 : buf[n] = data[n]
    /\ data[field] = 0 /\ data[field + 1] = 0
    /\ damage = Undamaged
    /\ partial[WordsAdded] = sum
    /\ \A n \in 0 .. WordsAdded - 1 :
          partial[n + 1] = partial[n] + WireWord(n)

SentInv ==
  phase \in {"wire", "verify"} =>
    \A n \in 0 .. WordTotal - 1 :
       WireWord(n) = partial[n + 1] - partial[n] + StoredAt(n) + DamagedAt(n)

(* What the receiver sums is known when it sums as much as build did.      *)
VerifyInv ==
  phase = "verify" =>
    /\ len # built => LengthDamaged /\ damage # Undamaged
    /\ len = built =>
         /\ \A n \in 0 .. built - 1 : buf[n] = data[n]
         /\ sum = partial[WordsAdded] + StoredBelow(WordsAdded)
                  + DamagedBelow(WordsAdded)

FInv == SummingInv /\ BuildInv /\ SentInv /\ VerifyInv
-----------------------------------------------------------------------------
(* A step of the sum over what build summed adds the next word of it or    *)
(* leaves the sum.                                                         *)
LEMMA SumAdvances ==
  ASSUME IInv, Next, len = built, built \in Nat, built > 0,
         built <= LongestExact, \A n \in 0 .. built - 1 : buf[n] = data[n]
  PROVE  /\ WordsAdded \in Nat /\ WordsAdded <= WordTotal
         /\ \/ /\ WordsAdded' = WordsAdded + 1
               /\ WordsAdded < WordTotal
               /\ WireWord(WordsAdded) \in Word
               /\ sum' = sum + WireWord(WordsAdded)
            \/ WordsAdded' = WordsAdded /\ sum' = sum
<1>0. /\ WordsAdded \in Nat /\ sum \in 0 .. AccSize - 1 /\ sum <= WordsAdded * M
      /\ i \in Nat /\ i <= len /\ i % 2 = 0 /\ (pc # "loop" => i >= len - 1)
  BY SizeAssumption DEF IInv, Inside, TypeOK, SumBounded, IndexOK, WordsAdded
<1>1. ASSUME NEW w \in Word, 2 * WordsAdded < len, WordsAdded' = WordsAdded + 1,
             w = Abstract!WordAt(WordsAdded), sum' = (sum + w) % AccSize
      PROVE  /\ WordsAdded < WordTotal
             /\ WireWord(WordsAdded) \in Word
             /\ sum' = sum + WireWord(WordsAdded)
  <2>1. WordsAdded + 1 <= WordSize + 1 /\ WordsAdded < WordTotal
    BY <1>0, <1>1, Sizes DEF LongestExact, WordTotal
  <2>2. sum' = sum + w
    BY <1>0, <1>1, <2>1, BoundFollows
  <2>3. w = WireWord(WordsAdded)
    <3> DEFINE n == WordsAdded
    <3>1. 2 * n \in 0 .. built - 1 /\ (2 * n + 1 < built => 2 * n + 1 \in 0 .. built - 1)
      BY <1>0, <1>1
    <3> HIDE DEF n
    <3>2. Abstract!WordAt(n) = WireWord(n)
      BY <3>1 DEF Abstract!WordAt, WireWord, Abstract!CombineBytes, CombineBytes
    <3> QED BY <1>1, <3>2 DEF n
  <2> QED BY <1>1, <2>1, <2>2, <2>3
<1>2. CASE AddPair
  <2>1. CombineBytes(buf[i], buf[i + 1]) = Abstract!WordAt(WordsAdded)
    BY <1>2, PairIsNextWord
  <2> QED BY <1>0, <1>1, <1>2, <2>1, PairIsWord DEF AddPair, WordTotal
<1>3. CASE AddOddByte
  <2>1. CombineBytes(buf[len - 1], 0) = Abstract!WordAt(WordsAdded)
    BY <1>3, OddByteIsNextWord
  <2> QED BY <1>0, <1>1, <1>3, <2>1, OddByteIsWord DEF AddOddByte, LastWord, WordTotal
<1>4. CASE SkipTail
  <2>1. i >= len - 1
    BY <1>4, LoopEndIs DEF SkipTail, IInv
  <2>2. WordsAdded' = WordsAdded /\ WordsAdded <= WordTotal
    BY <1>0, <1>4, <2>1 DEF SkipTail, WordsAdded, WordTotal
  <2> QED BY <1>0, <1>4, <2>2 DEF SkipTail
<1>5. CASE Fold
  <2>1. WordsAdded' = WordsAdded /\ WordsAdded <= WordTotal
    BY <1>0, <1>5 DEF Fold, WordsAdded, WordTotal
  <2> QED BY <1>0, <1>5, <2>1 DEF Fold
<1> QED BY <1>2, <1>3, <1>4, <1>5, NotOutside DEF Next

(* Writing a word as two bytes at an even offset and reading it back       *)
LEMMA SplitCombine ==
  ASSUME NEW w \in Word
  PROVE  /\ SplitBytes(w)[1] \in Byte /\ SplitBytes(w)[2] \in Byte
         /\ CombineBytes(SplitBytes(w)[1], SplitBytes(w)[2]) = w
<1> DEFINE q == w \div Radix
           r == w % Radix
<1>1. w \in Nat /\ Radix \in Nat /\ Radix > 0 /\ w < WordSize
  BY Sizes DEF Word
<1>2. q \in Nat /\ r \in Nat /\ r < Radix /\ w = q * Radix + r
  BY <1>1, DivMod
<1>3. q < Radix
  <2> SUFFICES ASSUME Radix <= q PROVE FALSE
    BY <1>1, <1>2
  <2>1. Radix * Radix <= q * Radix
    BY <1>1, <1>2, ProductMonotone
  <2> HIDE DEF q, r
  <2> QED BY <1>1, <1>2, <2>1, ProductMonotone DEF WordSize
<1>4. SplitBytes(w) = <<q, r>>
  BY DEF SplitBytes
<1> QED BY <1>1, <1>2, <1>3, <1>4 DEF Byte, CombineBytes

(* The checksum is a word, and with it the sum is a multiple of M.         *)
LEMMA StoredCompletes ==
  ASSUME NEW s \in 0 .. AccSize - 1
  PROVE  /\ Complement(FoldCarries(s)) \in Word
         /\ \E n \in Nat : s + Complement(FoldCarries(s)) = n * M + M
<1>1. FoldCarries(s) \in 0 .. M
  BY FoldShape
<1>2. PICK n \in Nat : s = n * M + FoldCarries(s)
  BY FoldShape
<1>3. Complement(FoldCarries(s)) = M - FoldCarries(s)
  BY <1>1, Sizes DEF Complement
<1>4. n * M \in Nat
  BY Sizes, ProductMonotone
<1>5. s + Complement(FoldCarries(s)) = n * M + M
  BY <1>1, <1>2, <1>3, <1>4, Sizes
<1>6. Complement(FoldCarries(s)) \in Word
  BY <1>1, <1>3, Sizes DEF Word
<1> QED BY <1>5, <1>6

(* A damaged byte changes its word, by less than M either way.             *)
LEMMA DeltaSize ==
  ASSUME FieldTypeOK, damage.by # 0
  PROVE  Delta \in Int /\ Delta # 0 /\ -M < Delta /\ Delta < M
<1> DEFINE b == damage.by
<1>1. b \in -(Radix - 1) .. Radix - 1 /\ b # 0
  BY DEF FieldTypeOK
<1>2. WordSize = Radix * Radix /\ M = WordSize - 1
  BY DEF WordSize, M
<1> HIDE DEF b
<1>3. CASE damage.at % 2 # 0
  <2>1. Delta = b
    BY <1>1, <1>3, Sizes DEF Delta, Weight, b
  <2> QED BY <1>1, <2>1, Sizes
<1>4. CASE damage.at % 2 = 0 /\ b > 0
  <2>1. Delta = b * Radix
    BY <1>4 DEF Delta, Weight, b
  <2>2. b \in Nat /\ b + 1 <= Radix /\ 1 <= b
    BY <1>1, <1>4, Sizes
  <2>3. 1 * Radix <= b * Radix /\ (b + 1) * Radix <= Radix * Radix
        /\ b * Radix \in Nat
    BY <2>2, Sizes, ProductMonotone
  <2>4. (b + 1) * Radix = b * Radix + Radix
    BY <2>2, Sizes
  <2> QED BY <1>2, <2>1, <2>3, <2>4, Sizes
<1>5. CASE damage.at % 2 = 0 /\ b < 0
  <2> DEFINE c == -b
  <2>2. c \in Nat /\ c + 1 <= Radix /\ 1 <= c /\ b = -c
    BY <1>1, <1>5, Sizes
  <2>1. Delta = (-c) * Radix
    BY <1>5, <2>2 DEF Delta, Weight, b
  <2> HIDE DEF c
  <2>3. 1 * Radix <= c * Radix /\ (c + 1) * Radix <= Radix * Radix
        /\ c * Radix \in Nat
    BY <2>2, Sizes, ProductMonotone
  <2>4. (c + 1) * Radix = c * Radix + Radix /\ (-c) * Radix = -(c * Radix)
    BY <2>2, Sizes
  <2> QED BY <1>2, <2>1, <2>3, <2>4, Sizes
<1> QED BY <1>1, <1>3, <1>4, <1>5
-----------------------------------------------------------------------------
LEMMA InitFInv == FieldInit => FInv
<1> SUFFICES ASSUME FieldInit PROVE FInv
  OBVIOUS
<1>0. /\ size \in 2 .. MaxLen /\ MaxLen \in Nat /\ built \in 2 .. size
      /\ built \in Nat /\ size \in Nat /\ len = built
  BY MaxLenAssumption, LengthAssumption DEF FieldInit
<1>1. data \in [0 .. size - 1 -> Byte] /\ buf = Beginning(built)
  BY DEF FieldInit
<1>2. /\ buf \in [0 .. len - 1 -> Byte]
      /\ \A n \in 0 .. built - 1 : buf[n] = data[n]
  <2>1. \A n \in 0 .. built - 1 : n \in 0 .. size - 1
    BY <1>0
  <2> QED BY <1>0, <1>1, <2>1 DEF Beginning
<1>3. Init
  BY <1>0, <1>2 DEF FieldInit, Init, Start
<1>4. IInv
  BY <1>3, InitIInv
<1>5. AccSize \in Nat /\ AccSize > 0 /\ Radix \in Nat /\ Radix >= 2
  BY Sizes, ProductMonotone
<1>6. FieldTypeOK
  BY <1>0, <1>4, <1>5 DEF FieldTypeOK, IInv, FieldInit, Undamaged
<1>7. WordsAdded = 0
  BY DEF FieldInit, Start, WordsAdded
<1>8. LengthInv
  BY DEF LengthInv, FieldInit
<1>9. SummingInv
  BY <1>0, <1>4, <1>6, <1>8 DEF SummingInv, FieldInit, Start
<1>10. BuildInv
  BY <1>0, <1>2, <1>7 DEF BuildInv, FieldInit, Start
<1> QED BY <1>9, <1>10 DEF FInv, SentInv, VerifyInv, FieldInit

(* The facts about sizes that the steps share                              *)
LEMMA Shapes ==
  ASSUME SummingInv
  PROVE  /\ len \in Nat /\ len >= 2 /\ len <= MaxLen /\ MaxLen \in Nat
         /\ built \in Nat /\ built >= 2 /\ built <= size /\ size \in Nat
         /\ size <= MaxLen
         /\ WordTotal \in Nat /\ WordTotal <= MaxLen /\ WordTotal <= built
         /\ field \in 0 .. built - 2 /\ field % 2 = 0
         /\ damage.at \in 0 .. built - 1
         /\ partial \in [0 .. MaxLen -> 0 .. AccSize - 1]
         /\ data \in [0 .. size - 1 -> Byte]
         /\ Byte \subseteq Nat
         /\ Stored \in Int /\ Delta \in Int
         /\ \A n \in 0 .. MaxLen : partial[n] \in Nat
         /\ \A n \in 0 .. built - 1 : data[n] \in Nat /\ data[n] \in Byte
<1>1. /\ len \in Nat /\ len >= 2 /\ len <= MaxLen /\ MaxLen \in Nat
      /\ built \in Nat /\ built >= 2 /\ built <= size /\ size \in Nat
      /\ size <= MaxLen
      /\ damage.at \in 0 .. built - 1
      /\ partial \in [0 .. MaxLen -> 0 .. AccSize - 1]
      /\ data \in [0 .. size - 1 -> Byte]
      /\ field \in FieldOffsets(built)
  BY MaxLenAssumption DEF SummingInv, FieldTypeOK, TypeOK
<1>9. /\ WordTotal \in Nat /\ WordTotal <= MaxLen /\ WordTotal <= built
      /\ field \in 0 .. built - 2 /\ field % 2 = 0
  BY <1>1 DEF WordTotal, FieldOffsets
<1>2. partial[WordTotal] \in 0 .. AccSize - 1
  BY <1>1, <1>9
<1>3. Stored \in Int
  BY <1>2, StoredCompletes DEF Stored, Word
<1>4. damage.by = 0 => Delta = 0
  BY Sizes DEF Delta, Weight
<1>5. Delta \in Int
  BY <1>4, DeltaSize DEF SummingInv
<1>6. Byte \subseteq Nat
  BY Sizes DEF Byte
<1>7. \A n \in 0 .. built - 1 : data[n] \in Nat /\ data[n] \in Byte
  <2> SUFFICES ASSUME NEW n \in 0 .. built - 1 PROVE data[n] \in Byte
    BY <1>6
  <2>1. n \in 0 .. size - 1
    BY <1>1
  <2> QED BY <1>1, <2>1
<1>8. \A n \in 0 .. MaxLen : partial[n] \in Nat
  <2> SUFFICES ASSUME NEW n \in 0 .. MaxLen PROVE partial[n] \in Nat
    OBVIOUS
  <2>1. partial[n] \in 0 .. AccSize - 1
    BY <1>1
  <2> QED BY <2>1, Sizes
<1> QED BY <1>1, <1>3, <1>5, <1>6, <1>7, <1>8, <1>9

(* Summing: build records each partial sum; the receiver's sum grows by    *)
(* the word that build added, and by what differs in it.                   *)
LEMMA SumStepFInv == FInv /\ SumStep => FInv'
<1> SUFFICES ASSUME FInv, SumStep PROVE FInv'
  OBVIOUS
<1>1. IInv /\ Next /\ IInv'
  BY StepIInv DEF FInv, SummingInv, SumStep
<1>2. UNCHANGED <<buf, len, data, phase, damage, covered, size, field, built>>
  BY <1>1 DEF SumStep, packetVars, Next, AddPair, ReadOutside, AddOddByte,
              SkipTail, Fold
<1> DEFINE w == WireWord(WordsAdded)
<1>4. /\ len \in Nat /\ len >= 2 /\ len <= MaxLen /\ MaxLen \in Nat
      /\ built \in Nat /\ built > 0 /\ built <= LongestExact
      /\ WordTotal \in Nat /\ WordTotal <= MaxLen
      /\ field \in Nat /\ damage.at \in Nat /\ Stored \in Int /\ Delta \in Int
  BY Shapes DEF FInv, SummingInv
<1>3. ASSUME len = built, \A n \in 0 .. built - 1 : buf[n] = data[n]
      PROVE  /\ WordsAdded \in Nat /\ WordsAdded <= WordTotal
             /\ \/ /\ WordsAdded' = WordsAdded + 1 /\ WordsAdded < WordTotal
                   /\ w \in Word /\ sum' = sum + w
                \/ WordsAdded' = WordsAdded /\ sum' = sum
  BY <1>1, <1>3, <1>4, SumAdvances
<1>5. \A n : WireWord(n)' = WireWord(n)
  BY <1>2 DEF WireWord
<1>6. /\ sum \in 0 .. AccSize - 1 /\ sum' \in 0 .. AccSize - 1
      /\ AccSize \in Nat
      /\ partial \in [0 .. MaxLen -> 0 .. AccSize - 1]
  BY <1>1, Sizes, ProductMonotone DEF IInv, TypeOK, FInv, SummingInv, FieldTypeOK
<1>7. phase = "build" => WordsAdded' \in 0 .. MaxLen
  BY <1>3, <1>4 DEF FInv, BuildInv
<1>8. /\ partial' \in [0 .. MaxLen -> 0 .. AccSize - 1]
      /\ partial'[0] = 0
  <2>1. CASE phase = "build"
    <3>1. partial' = [partial EXCEPT ![WordsAdded'] = sum']
      BY <2>1 DEF SumStep
    <3>2. WordsAdded' = 0 => sum' = 0
      <4>1. WordsAdded' = 0 => WordsAdded = 0 /\ sum' = sum
        BY <1>3, <2>1 DEF FInv, BuildInv
      <4>2. partial[WordsAdded] = sum /\ partial[0] = 0
        BY <2>1 DEF FInv, BuildInv, SummingInv
      <4> QED BY <4>1, <4>2
    <3> QED BY <2>1, <3>1, <3>2, <1>6, <1>7 DEF FInv, SummingInv
  <2>2. CASE phase # "build"
    BY <2>2, <1>6 DEF SumStep, FInv, SummingInv
  <2> QED BY <2>1, <2>2
<1>9. SummingInv'
  <2>1. FieldTypeOK'
    BY <1>1, <1>2, <1>8 DEF FieldTypeOK, IInv, FInv, SummingInv
  <2>2. (pc = "done" => out = Complement(FoldCarries(sum)))'
    BY <1>1 DEF Next, AddPair, ReadOutside, AddOddByte, SkipTail, Fold
  <2>3. (damage.by = 0 => damage = Undamaged)' /\ LengthInv'
    BY <1>2 DEF FInv, SummingInv, Undamaged, LengthInv
  <2>4. built' <= LongestExact
    BY <1>2, <1>4
  <2> QED BY <1>1, <1>2, <1>4, <1>8, <2>1, <2>2, <2>3, <2>4 DEF SummingInv
<1>10. BuildInv'
  <2> SUFFICES ASSUME phase = "build" PROVE BuildInv'
    BY <1>2 DEF BuildInv
  <2>1. /\ len = built /\ \A n \in 0 .. built - 1 : buf[n] = data[n]
        /\ data[field] = 0 /\ data[field + 1] = 0 /\ damage = Undamaged
        /\ partial[WordsAdded] = sum
        /\ \A n \in 0 .. WordsAdded - 1 :
              partial[n + 1] = partial[n] + WireWord(n)
    BY DEF FInv, BuildInv
  <2>2. partial' = [partial EXCEPT ![WordsAdded'] = sum']
    BY DEF SumStep
  <2>3. partial'[WordsAdded'] = sum'
    BY <2>2, <1>6, <1>7
  <2>4. \A n \in 0 .. WordsAdded' - 1 :
          partial'[n + 1] = partial'[n] + WireWord(n)
    <3> SUFFICES ASSUME NEW n \in 0 .. WordsAdded' - 1
                 PROVE  partial'[n + 1] = partial'[n] + WireWord(n)
      OBVIOUS
    <3>0. WordsAdded \in Nat /\ WordsAdded <= WordTotal
      BY <1>3, <2>1
    <3>1. CASE WordsAdded' = WordsAdded /\ sum' = sum
      <4>1. partial' = partial
        BY <2>1, <2>2, <3>1, <1>6
      <4> QED BY <4>1, <3>1, <2>1
    <3>2. CASE WordsAdded' = WordsAdded + 1 /\ sum' = sum + w /\ n < WordsAdded
      <4>1. n \in 0 .. WordsAdded - 1 /\ n # WordsAdded' /\ n + 1 # WordsAdded'
            /\ n \in 0 .. MaxLen /\ n + 1 \in 0 .. MaxLen
        BY <3>0, <1>4, <3>2
      <4>2. partial'[n] = partial[n] /\ partial'[n + 1] = partial[n + 1]
        BY <4>1, <2>2, <1>6
      <4> QED BY <4>1, <4>2, <2>1
    <3>3. CASE WordsAdded' = WordsAdded + 1 /\ sum' = sum + w /\ n = WordsAdded
      <4>1. n # WordsAdded' /\ n \in 0 .. MaxLen /\ n + 1 = WordsAdded'
        BY <3>0, <1>4, <3>3
      <4>2. partial'[n] = sum
        BY <4>1, <2>1, <2>2, <1>6, <3>3
      <4> QED BY <4>1, <4>2, <2>3, <3>3
    <3> QED BY <1>3, <2>1, <3>0, <3>1, <3>2, <3>3
  <2> QED BY <1>2, <1>5, <2>1, <2>3, <2>4 DEF BuildInv
<1>11. ASSUME phase # "build" PROVE partial' = partial
  BY <1>11 DEF SumStep
<1>12. SentInv'
  <2> SUFFICES ASSUME phase # "build" PROVE SentInv'
    BY <1>2 DEF SentInv
  <2> QED BY <1>2, <1>5, <1>11
          DEF FInv, SentInv, WordTotal, StoredAt, DamagedAt, Stored, Delta, Weight
<1>13. VerifyInv'
  <2> SUFFICES ASSUME phase = "verify", len = built
               PROVE  sum' = partial'[WordsAdded'] + StoredBelow(WordsAdded)'
                             + DamagedBelow(WordsAdded)'
    BY <1>2 DEF FInv, VerifyInv, LengthDamaged
  <2>0. \A n \in 0 .. built - 1 : buf[n] = data[n]
    BY DEF FInv, VerifyInv
  <2>1. /\ partial' = partial /\ Stored' = Stored /\ Delta' = Delta
    BY <1>2, <1>11 DEF Stored, Delta, Weight, WordTotal
  <2>2. sum = partial[WordsAdded] + StoredBelow(WordsAdded) + DamagedBelow(WordsAdded)
    BY DEF FInv, VerifyInv
  <2>3. CASE WordsAdded' = WordsAdded /\ sum' = sum
    BY <2>1, <2>2, <2>3, <1>2 DEF StoredBelow, DamagedBelow
  <2>4. CASE WordsAdded' = WordsAdded + 1 /\ WordsAdded < WordTotal /\ sum' = sum + w
    <3> DEFINE n == WordsAdded
    <3>0. n \in Nat
      BY <1>3, <2>0
    <3>1. n \in Nat /\ n < WordTotal /\ n \in 0 .. MaxLen /\ n + 1 \in 0 .. MaxLen
          /\ n \in 0 .. WordTotal - 1
      BY <3>0, <1>4, <2>4
    <3>2. w = partial[n + 1] - partial[n] + StoredAt(n) + DamagedAt(n)
      BY <3>1 DEF FInv, SentInv
    <3>3. Stored \in Int /\ Delta \in Int
      BY <1>4
    <3>4. partial[n] \in Int /\ partial[n + 1] \in Int /\ field \in Nat
          /\ damage.at \in Nat
      BY <3>1, <1>4, <1>6
    <3>5. StoredBelow(n)' = StoredBelow(n) + StoredAt(n)
      <4>1. StoredBelow(WordsAdded)' =
              IF field \div 2 < n + 1 THEN Stored ELSE 0
        BY <1>2, <2>1, <2>4 DEF StoredBelow
      <4> QED BY <4>1, <3>1, <3>3, <3>4 DEF StoredBelow, StoredAt
    <3>6. DamagedBelow(n)' = DamagedBelow(n) + DamagedAt(n)
      <4>1. DamagedBelow(WordsAdded)' =
              IF damage.at \div 2 < n + 1 THEN Delta ELSE 0
        BY <1>2, <2>1, <2>4 DEF DamagedBelow
      <4> QED BY <4>1, <3>1, <3>3, <3>4 DEF DamagedBelow, DamagedAt
    <3>7. StoredBelow(n) \in Int /\ DamagedBelow(n) \in Int
          /\ StoredAt(n) \in Int /\ DamagedAt(n) \in Int
      BY <3>3 DEF StoredBelow, DamagedBelow, StoredAt, DamagedAt
    <3> HIDE DEF n, w
    <3>8. sum' = sum + w /\ partial' = partial /\ WordsAdded' = n + 1
          /\ sum = partial[n] + StoredBelow(n) + DamagedBelow(n)
      BY <2>1, <2>2, <2>4 DEF n
    <3>9. sum' = partial[n + 1] + (StoredBelow(n) + StoredAt(n))
                 + (DamagedBelow(n) + DamagedAt(n))
      <4>1. \A p, q, a, b, c, d \in Int :
              (p + a + c) + (q - p + b + d) = q + (a + b) + (c + d)
        OBVIOUS
      <4>2. sum' = (partial[n] + StoredBelow(n) + DamagedBelow(n))
                   + (partial[n + 1] - partial[n] + StoredAt(n) + DamagedAt(n))
        BY <3>2, <3>8
      <4> QED BY <3>4, <3>7, <4>1, <4>2
    <3> QED BY <3>5, <3>6, <3>8, <3>9 DEF n
  <2> QED BY <1>3, <2>0, <2>3, <2>4
<1> QED BY <1>9, <1>10, <1>12, <1>13 DEF FInv

(* Storing the checksum turns the zero word at the field into it.          *)
LEMMA StoreFInv == FInv /\ Store => FInv'
<1> SUFFICES ASSUME FInv, Store PROVE FInv'
  OBVIOUS
<1> USE DEF Store, checksum_b, packetVars
<1>0. SummingInv /\ BuildInv /\ phase = "build"
  BY DEF FInv
<1>1. /\ built \in Nat /\ built >= 2 /\ built <= size /\ size \in Nat
      /\ len \in Nat /\ WordTotal \in Nat
      /\ field \in 0 .. built - 2 /\ field % 2 = 0
      /\ data \in [0 .. size - 1 -> Byte]
      /\ Byte \subseteq Nat /\ Radix \in Nat
  BY <1>0, Shapes, Sizes
<1>2. /\ len = built
      /\ data[field] = 0 /\ data[field + 1] = 0 /\ damage = Undamaged
      /\ partial[WordsAdded] = sum
      /\ \A n \in 0 .. WordsAdded - 1 : partial[n + 1] = partial[n] + WireWord(n)
  BY <1>0 DEF BuildInv
<1>3. WordsAdded = WordTotal
  BY <1>2 DEF WordsAdded, WordTotal
<1>4. out = Stored /\ out \in Word
  <2>1. sum \in 0 .. AccSize - 1 /\ out = Complement(FoldCarries(sum))
    BY <1>0 DEF SummingInv, IInv, TypeOK
  <2> QED BY <2>1, <1>2, <1>3, StoredCompletes DEF Stored
<1>5. /\ SplitBytes(out)[1] \in Byte /\ SplitBytes(out)[2] \in Byte
      /\ CombineBytes(SplitBytes(out)[1], SplitBytes(out)[2]) = out
  BY <1>4, SplitCombine
<1>6. data' \in [0 .. size - 1 -> Byte]
  BY <1>1, <1>5
<1>7. SummingInv'
  <2>1. WordsAdded' = WordsAdded
    BY DEF WordsAdded
  <2>2. IInv'
    BY <1>0, <2>1 DEF SummingInv, IInv, Inside, TypeOK, IndexOK, SumBounded,
                      ResultWhenDone
  <2>3. FieldTypeOK'
    BY <1>0, <1>6, <2>2 DEF SummingInv, FieldTypeOK, IInv
  <2>4. LengthInv'
    <3>1. covered = "header" => data'[0] = data[0]
      BY <1>0, <1>1 DEF SummingInv, LengthInv
    <3> QED BY <1>0, <3>1 DEF SummingInv, LengthInv
  <2>5. (pc = "done" => out = Complement(FoldCarries(sum)))'
    BY <1>0 DEF SummingInv
  <2>6. built' <= LongestExact /\ len' >= 2
    BY <1>0 DEF SummingInv
  <2> QED BY <1>0, <2>2, <2>3, <2>4, <2>5, <2>6 DEF SummingInv
<1>8. Stored' = Stored /\ Delta' = Delta /\ WordTotal' = WordTotal
  BY DEF Stored, Delta, Weight, WordTotal
<1>9. SentInv'
  <2> SUFFICES ASSUME NEW n \in 0 .. WordTotal - 1
               PROVE  WireWord(n)' =
                        partial[n + 1] - partial[n] + StoredAt(n)' + DamagedAt(n)'
    BY <1>8 DEF SentInv
  <2>1. DamagedAt(n)' = 0
    BY <1>2, <1>8, Sizes DEF DamagedAt, Delta, Weight, Undamaged
  <2>2. /\ partial[n + 1] = partial[n] + WireWord(n)
        /\ partial[n] \in Int /\ partial[n + 1] \in Int
    <3>0. WordTotal \in Nat /\ MaxLen \in Nat /\ WordTotal <= MaxLen
      BY <1>0, Shapes
    <3>1. n \in 0 .. MaxLen /\ n + 1 \in 0 .. MaxLen
      BY <3>0
    <3>2. partial[n] \in Nat /\ partial[n + 1] \in Nat
      BY <1>0, <3>1, Shapes
    <3> QED BY <1>2, <1>3, <3>2
  <2>3. n \in Nat /\ 2 * n \in 0 .. built - 1
    BY <1>1 DEF WordTotal
  <2>4. CASE n = field \div 2
    <3>1. 2 * n = field /\ 2 * n + 1 < built
      BY <1>1, <2>4
    <3>2. data'[field] = SplitBytes(out)[1] /\ data'[field + 1] = SplitBytes(out)[2]
      BY <1>1
    <3>3. WireWord(n)' = out
      BY <1>5, <3>1, <3>2 DEF WireWord
    <3>4. WireWord(n) = 0
      BY <1>1, <1>2, <3>1 DEF WireWord, CombineBytes
    <3>5. StoredAt(n)' = out
      BY <1>4, <1>8, <2>4 DEF StoredAt
    <3>6. out \in Int
      BY <1>4, Sizes DEF Word
    <3> QED BY <2>1, <2>2, <3>3, <3>4, <3>5, <3>6
  <2>5. CASE n # field \div 2
    <3>1. 2 * n # field /\ 2 * n # field + 1 /\ 2 * n + 1 # field
          /\ 2 * n + 1 # field + 1
      BY <1>1, <2>3, <2>5
    <3>2. WireWord(n)' = WireWord(n)
      BY <1>1, <2>3, <3>1 DEF WireWord
    <3>3. StoredAt(n)' = 0
      BY <2>5 DEF StoredAt
    <3>4. WireWord(n) \in Int
      <4> DEFINE low == IF 2 * n + 1 < built THEN data[2 * n + 1] ELSE 0
      <4>1. \A m \in 0 .. built - 1 : data[m] \in Nat
        BY <1>0, Shapes
      <4>2. data[2 * n] \in Nat /\ low \in Nat
        BY <4>1, <2>3, <1>1
      <4>3. WireWord(n) = data[2 * n] * Radix + low
        BY DEF WireWord, CombineBytes
      <4> HIDE DEF low
      <4>4. data[2 * n] * Radix \in Int
        BY <4>2, <1>1
      <4> QED BY <4>2, <4>3, <4>4
    <3> QED BY <2>1, <2>2, <3>2, <3>3, <3>4
  <2> QED BY <2>4, <2>5
<1>10. BuildInv' /\ VerifyInv'
  BY DEF BuildInv, VerifyInv
<1> QED BY <1>7, <1>9, <1>10 DEF FInv

(* Damage changes one word, by Delta.                                      *)
LEMMA DamageFInv == FInv /\ Damage => FInv'
<1> SUFFICES ASSUME FInv, Damage PROVE FInv'
  OBVIOUS
<1>0. SummingInv /\ SentInv
  BY DEF FInv
<1>1. /\ built \in Nat /\ built >= 2 /\ built <= size /\ size \in Nat
      /\ WordTotal \in Nat /\ data \in [0 .. size - 1 -> Byte]
      /\ Byte \subseteq Nat /\ Radix \in Nat /\ Stored \in Int
  BY <1>0, Shapes, Sizes
<1>2. PICK j \in 0 .. built - 1, b \in Byte :
        /\ b # data[j]
        /\ data' = [data EXCEPT ![j] = b]
        /\ damage' = [at |-> j, by |-> b - data[j]]
  BY DEF Damage
<1>9. /\ data[j] \in Nat /\ b \in Nat
      /\ \A n \in 0 .. built - 1 : data[n] \in Nat /\ data[n] \in Byte
  BY <1>0, <1>1, <1>2, Shapes
<1>3. phase = "wire" /\ damage = Undamaged
      /\ UNCHANGED <<buf, len, i, sum, pc, out, phase, partial, covered, size,
                     field, built>>
  BY DEF Damage, packetVars
<1>4. data' \in [0 .. size - 1 -> Byte]
  BY <1>1, <1>2
<1>5. damage'.at = j /\ damage'.by = b - data[j]
  BY <1>2
<1>6. SummingInv'
  <2>1. WordsAdded' = WordsAdded
    BY <1>3 DEF WordsAdded
  <2>2. IInv'
    BY <1>0, <1>3, <2>1 DEF SummingInv, IInv, Inside, TypeOK, IndexOK,
                            SumBounded, ResultWhenDone
  <2>3. damage' \in [at : 0 .. built - 1, by : -(Radix - 1) .. Radix - 1]
    <3>1. b \in 0 .. Radix - 1 /\ data[j] \in 0 .. Radix - 1
      BY <1>9 DEF Byte
    <3>2. b - data[j] \in -(Radix - 1) .. Radix - 1
      BY <3>1, <1>1
    <3> QED BY <1>2, <3>2
  <2>4. FieldTypeOK'
    BY <1>0, <1>3, <1>4, <2>2, <2>3 DEF SummingInv, FieldTypeOK, IInv
  <2>5. damage'.by # 0
    BY <1>2, <1>5, <1>9
  <2>6. LengthInv'
    <3>1. damage' # Undamaged
      BY <2>5 DEF Undamaged
    <3>2. damage'.at # 0 => data'[0] = data[0]
      BY <1>1, <1>2, <1>5
    <3> QED BY <1>0, <1>3, <3>1, <3>2 DEF SummingInv, LengthInv
  <2>7. built' <= LongestExact /\ len' >= 2
        /\ (pc' = "done" => out' = Complement(FoldCarries(sum')))
        /\ partial'[0] = 0
    BY <1>0, <1>3 DEF SummingInv
  <2> QED BY <2>2, <2>4, <2>5, <2>6, <2>7 DEF SummingInv
<1>7. SentInv'
  <2> SUFFICES ASSUME NEW n \in 0 .. WordTotal - 1
               PROVE  WireWord(n)' =
                        partial[n + 1] - partial[n] + StoredAt(n)' + DamagedAt(n)'
    BY <1>3 DEF SentInv, WordTotal
  <2>1. StoredAt(n)' = StoredAt(n) /\ StoredAt(n) \in Int
    BY <1>1, <1>3 DEF StoredAt, Stored, WordTotal
  <2>2. DamagedAt(n) = 0
    BY <1>3, Sizes DEF DamagedAt, Delta, Weight, Undamaged
  <2>3. /\ WireWord(n) = partial[n + 1] - partial[n] + StoredAt(n)
        /\ partial[n] \in Int /\ partial[n + 1] \in Int
    <3>0. WordTotal \in Nat /\ MaxLen \in Nat /\ WordTotal <= MaxLen
      BY <1>0, Shapes
    <3>1. n \in 0 .. MaxLen /\ n + 1 \in 0 .. MaxLen
      BY <3>0
    <3>2. partial[n] \in Nat /\ partial[n + 1] \in Nat
      BY <1>0, <3>1, Shapes
    <3>3. WireWord(n) = partial[n + 1] - partial[n] + StoredAt(n) + DamagedAt(n)
      BY <1>0, <1>3 DEF SentInv
    <3> QED BY <2>1, <2>2, <3>2, <3>3
  <2>4. n \in Nat /\ 2 * n \in 0 .. built - 1
    BY <1>1 DEF WordTotal
  <2>5. CASE n = j \div 2 /\ j % 2 = 0
    <3>1. 2 * n = j /\ j + 1 # j
      BY <2>4, <2>5
    <3>2. data'[j] = b /\ (j + 1 < built => data'[j + 1] = data[j + 1])
      BY <1>1, <1>2
    <3>3. WireWord(n)' = WireWord(n) + (b - data[j]) * Radix
      <4> DEFINE low == IF j + 1 < built THEN data[j + 1] ELSE 0
      <4>1. WireWord(n)' = b * Radix + low
        BY <1>3, <3>1, <3>2 DEF WireWord, CombineBytes
      <4>2. WireWord(n) = data[j] * Radix + low
        BY <3>1 DEF WireWord, CombineBytes
      <4>3. b \in Nat /\ data[j] \in Nat /\ low \in Nat
        BY <1>1, <1>9
      <4> HIDE DEF low
      <4>4. (b - data[j]) * Radix = b * Radix - data[j] * Radix
        BY <4>3, <1>1
      <4>5. b * Radix \in Int /\ data[j] * Radix \in Int
        BY <4>3, <1>1
      <4> QED BY <4>1, <4>2, <4>3, <4>4, <4>5
    <3>4. DamagedAt(n)' = (b - data[j]) * Radix
      BY <1>5, <2>5 DEF DamagedAt, Delta, Weight
    <3> QED BY <2>1, <2>3, <3>3, <3>4
  <2>6. CASE n = j \div 2 /\ j % 2 # 0
    <3>1. 2 * n + 1 = j /\ 2 * n # j /\ 2 * n + 1 < built
      BY <1>1, <2>4, <2>6
    <3>2. data'[j] = b /\ data'[2 * n] = data[2 * n]
      BY <1>1, <1>2, <2>4, <3>1
    <3>3. WireWord(n)' = WireWord(n) + (b - data[j])
      <4>1. WireWord(n)' = data[2 * n] * Radix + b
        BY <1>3, <3>1, <3>2 DEF WireWord, CombineBytes
      <4>2. WireWord(n) = data[2 * n] * Radix + data[j]
        BY <3>1 DEF WireWord, CombineBytes
      <4>3. b \in Nat /\ data[j] \in Nat /\ data[2 * n] * Radix \in Int
        BY <1>1, <1>9, <2>4
      <4> QED BY <4>1, <4>2, <4>3
    <3>4. DamagedAt(n)' = b - data[j]
      <4>1. b \in Nat /\ data[j] \in Nat
        BY <1>9
      <4> QED BY <4>1, <1>5, <2>6 DEF DamagedAt, Delta, Weight
    <3> QED BY <2>1, <2>3, <3>3, <3>4
  <2>7. CASE n # j \div 2
    <3>1. 2 * n # j /\ 2 * n + 1 # j
      BY <2>4, <2>7
    <3>2. WireWord(n)' = WireWord(n)
      BY <1>1, <1>2, <1>3, <2>4, <3>1 DEF WireWord
    <3>3. DamagedAt(n)' = 0
      BY <1>5, <2>7 DEF DamagedAt
    <3> QED BY <2>1, <2>3, <3>2, <3>3
  <2> QED BY <2>5, <2>6, <2>7
<1>8. BuildInv' /\ VerifyInv'
  BY <1>3 DEF BuildInv, VerifyInv
<1> QED BY <1>6, <1>7, <1>8 DEF FInv

(* The receiver starts with nothing summed, over as many bytes as build    *)
(* unless the first byte of an IPv4 packet was damaged.                    *)
LEMMA VerifyFInv == FInv /\ Verify => FInv'
<1> SUFFICES ASSUME FInv, Verify PROVE FInv'
  OBVIOUS
<1> USE DEF Verify, packetVars
<1>0. SummingInv /\ SentInv
  BY DEF FInv
<1>1. WordsAdded' = 0 /\ AccSize \in Nat /\ AccSize > 0 /\ M \in Nat
  BY Sizes, ProductMonotone DEF WordsAdded
<1>2. /\ size \in Nat /\ size >= 2 /\ size <= MaxLen /\ MaxLen \in Nat
      /\ built \in Nat /\ built >= 2 /\ built <= size
      /\ data \in [0 .. size - 1 -> Byte]
  BY <1>0, Shapes, SMTT(40)
<1>3. /\ len' \in 2 .. size
      /\ len' # built => LengthDamaged' /\ damage # Undamaged
  <2>1. CASE covered = "all"
    BY <1>0, <1>2, <2>1 DEF SummingInv, LengthInv, ReceivedLength
  <2>2. CASE covered = "header"
    <3>1. HeaderLength(data[0]) \in Int
      <4>1. data[0] \in Nat
        BY <1>0, <1>2, Shapes
      <4>2. data[0] % LengthCodes \in Nat /\ Unit \in Nat
        BY <4>1, LengthAssumption, DivMod
      <4> QED BY <4>2, ProductMonotone DEF HeaderLength
    <3>2. len' = HeaderLength(data[0]) /\ len' >= MinHeader /\ len' <= size
      BY <2>2 DEF ReceivedLength, LengthAcceptable
    <3>3. len' # built => damage.at = 0 /\ damage # Undamaged
      BY <1>0, <2>2, <3>2 DEF SummingInv, LengthInv
    <3> QED BY <1>2, <2>2, <3>1, <3>2, <3>3, LengthAssumption DEF LengthDamaged
  <2> QED BY <1>0, <2>1, <2>2 DEF SummingInv, FieldTypeOK
<1>4. /\ buf' \in [0 .. len' - 1 -> Byte]
      /\ \A n \in 0 .. len' - 1 : buf'[n] = data[n]
  <2>1. \A n \in 0 .. len' - 1 : n \in 0 .. size - 1
    BY <1>2, <1>3
  <2> QED BY <1>2, <2>1 DEF Beginning
<1>5. IInv'
  <2>1. TypeOK'
    BY <1>1, <1>2, <1>3, <1>4, SizeAssumption DEF TypeOK
  <2>2. Inside'
    BY <1>1, <1>3 DEF Inside, IndexOK, SumBounded, ResultWhenDone
  <2> QED BY <2>1, <2>2 DEF IInv
<1>6. SummingInv'
  <2>1. FieldTypeOK'
    BY <1>0, <1>5 DEF SummingInv, FieldTypeOK, IInv
  <2>2. LengthInv'
    BY <1>0 DEF SummingInv, LengthInv
  <2>3. len' >= 2
    BY <1>2, <1>3
  <2> QED BY <1>0, <1>5, <2>1, <2>2, <2>3 DEF SummingInv
<1>7. SentInv'
  <2>1. \A n : WireWord(n)' = WireWord(n)
    BY DEF WireWord
  <2> QED BY <1>0, <2>1
          DEF SentInv, WordTotal, StoredAt, DamagedAt, Stored, Delta, Weight
<1>8. VerifyInv'
  <2>1. field \in Nat /\ damage.at \in Nat /\ partial[0] = 0
    BY <1>0, <1>2, Shapes DEF SummingInv
  <2>2. ~(field \div 2 < 0) /\ ~(damage.at \div 2 < 0)
    BY <2>1
  <2>3. sum' = 0 /\ partial'[WordsAdded'] = 0
    BY <1>1, <2>1
  <2>4. StoredBelow(WordsAdded)' = 0 /\ DamagedBelow(WordsAdded)' = 0
    BY <1>1, <2>2 DEF StoredBelow, DamagedBelow
  <2> QED BY <1>3, <1>4, <2>3, <2>4 DEF VerifyInv
<1> QED BY <1>6, <1>7, <1>8 DEF FInv, BuildInv

LEMMA RefuseFInv == FInv /\ Refuse => FInv'
<1> SUFFICES ASSUME FInv, Refuse PROVE FInv'
  OBVIOUS
<1>1. SummingInv'
  BY DEF Refuse, packetVars, FInv, SummingInv, LengthInv, FieldTypeOK, IInv, TypeOK,
         Inside, IndexOK, SumBounded, ResultWhenDone, WordsAdded
<1> QED BY <1>1 DEF Refuse, FInv, BuildInv, SentInv, VerifyInv

LEMMA StepFInv == FInv /\ [FieldNext]_fieldVars => FInv'
<1> SUFFICES ASSUME FInv, [FieldNext]_fieldVars PROVE FInv'
  OBVIOUS
<1>1. CASE UNCHANGED fieldVars
  <2> USE <1>1 DEF fieldVars, packetVars
  <2>1. \A n : WireWord(n)' = WireWord(n)
    BY DEF WireWord
  <2>2. SummingInv'
    BY DEF FInv, SummingInv, LengthInv, FieldTypeOK, IInv, TypeOK, Inside,
           IndexOK, SumBounded, ResultWhenDone, WordsAdded
  <2>3. BuildInv' /\ SentInv' /\ VerifyInv'
    BY <2>1 DEF FInv, BuildInv, SentInv, VerifyInv, LengthDamaged, WordsAdded,
          WordTotal, StoredAt, DamagedAt, StoredBelow, DamagedBelow, Stored,
          Delta, Weight
  <2> QED BY <2>2, <2>3 DEF FInv
<1> QED BY <1>1, SumStepFInv, StoreFInv, DamageFInv, VerifyFInv, RefuseFInv
        DEF FieldNext
-----------------------------------------------------------------------------
(* What the receiver has summed when it is done, if it summed as many      *)
(* bytes as build did                                                      *)
LEMMA ReceiverSum ==
  ASSUME FInv, Verified, ~LengthDamaged
  PROVE  /\ out = Complement(FoldCarries(sum))
         /\ sum \in 0 .. AccSize - 1
         /\ \E n \in Nat : sum = n * M + M + Delta
         /\ Delta \in Int
<1>1. SummingInv /\ phase = "verify" /\ pc = "done" /\ len = built
  BY DEF FInv, VerifyInv, Verified
<1>2. WordsAdded = WordTotal
  BY <1>1 DEF WordsAdded, WordTotal
<1>3. /\ built \in Nat /\ field \in 0 .. built - 2 /\ damage.at \in 0 .. built - 1
      /\ WordTotal \in 0 .. MaxLen /\ Stored \in Int /\ Delta \in Int
      /\ partial \in [0 .. MaxLen -> 0 .. AccSize - 1]
  BY <1>1, Shapes
<1>4. StoredBelow(WordTotal) = Stored /\ DamagedBelow(WordTotal) = Delta
  BY <1>3 DEF StoredBelow, DamagedBelow, WordTotal
<1>5. sum = partial[WordTotal] + Stored + Delta
  BY <1>1, <1>2, <1>4 DEF FInv, VerifyInv
<1>6. PICK n \in Nat : partial[WordTotal] + Stored = n * M + M
  BY <1>3, StoredCompletes DEF Stored
<1>7. sum = n * M + M + Delta
  BY <1>5, <1>6
<1> QED BY <1>1, <1>3, <1>7 DEF SummingInv, IInv, TypeOK

(* Type correctness of build, wire and receiver together.                  *)
THEOREM FieldTypeCorrect == FieldSpec => []FieldTypeOK
<1>1. FInv => FieldTypeOK
  BY DEF FInv, SummingInv
<1> QED BY InitFInv, StepFInv, <1>1, PTL DEF FieldSpec

(* A header that arrives as build made it is accepted by decodeFrom,       *)
(* whatever its bytes, its length and the place of its checksum field.     *)
THEOREM BuildVerifies == FieldSpec => []AcceptsWhatWasBuilt
<1>1. FInv => AcceptsWhatWasBuilt
  <2> SUFFICES ASSUME FInv, Verified, damage = Undamaged PROVE out = 0
    BY DEF AcceptsWhatWasBuilt
  <2>0. ~LengthDamaged
    BY DEF FInv, VerifyInv, Verified, LengthDamaged
  <2>1. Delta = 0
    BY Sizes DEF Delta, Weight, Undamaged
  <2>2. PICK n \in Nat : sum = n * M + M + Delta
    BY <2>0, ReceiverSum
  <2>3. n * M \in Nat /\ M \in 1 .. M
    BY Sizes, ProductMonotone
  <2>4. sum = n * M + M /\ n * M + M < AccSize
    BY <2>0, <2>1, <2>2, <2>3, ReceiverSum, Sizes
  <2>5. FoldCarries(sum) = M
    BY <2>3, <2>4, FoldUnique
  <2> QED BY <2>0, <2>5, ReceiverSum, Sizes DEF Complement
<1> QED BY InitFInv, StepFInv, <1>1, PTL DEF FieldSpec

(* A header of which one byte was damaged does not sum to 0, because the   *)
(* damage moves the sum off the multiples of M, unless the byte is the     *)
(* first of an IPv4 packet and another header length is read from it.      *)
THEOREM DamageIsDetected == FieldSpec => []RejectsDamage
<1>1. FInv => RejectsDamage
  <2> SUFFICES ASSUME FInv, Verified, damage # Undamaged, ~LengthDamaged
               PROVE  out # 0
    BY DEF RejectsDamage
  <2>1. damage.by # 0
    BY DEF FInv, SummingInv
  <2>2. Delta \in Int /\ Delta # 0 /\ -M < Delta /\ Delta < M
    BY <2>1, DeltaSize DEF FInv, SummingInv
  <2>3. PICK n \in Nat : sum = n * M + M + Delta
    BY ReceiverSum
  <2>4. n * M \in Nat /\ (n + 1) * M = n * M + M /\ n + 1 \in Nat
    BY Sizes, ProductMonotone
  <2>5. sum < AccSize /\ out = Complement(FoldCarries(sum))
    BY ReceiverSum, Sizes
  <2>6. CASE Delta > 0
    <3>1. Delta \in 1 .. M /\ sum = (n + 1) * M + Delta
      BY <2>2, <2>3, <2>4, <2>6, Sizes
    <3>2. FoldCarries(sum) = Delta
      BY <3>1, <2>4, <2>5, FoldUnique
    <3> QED BY <3>2, <2>2, <2>5, Sizes DEF Complement
  <2>7. CASE Delta < 0
    <3>1. M + Delta \in 1 .. M /\ sum = n * M + (M + Delta)
      BY <2>2, <2>3, <2>4, <2>7, Sizes
    <3>2. FoldCarries(sum) = M + Delta
      BY <3>1, <2>5, FoldUnique
    <3> QED BY <3>2, <2>2, <2>5, <2>7, Sizes DEF Complement
  <2> QED BY <2>2, <2>6, <2>7
<1> QED BY InitFInv, StepFInv, <1>1, PTL DEF FieldSpec
=============================================================================
