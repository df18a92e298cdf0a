----------------------- MODULE DefaultInterfaceProofs -----------------------
(***************************************************************************)
(* A lookup in DefaultInterface.tla, for any output, devices, adapters and *)
(* buffer sizes: its heap, where an allocation is alive in exactly the     *)
(* stages that use it; the parser it ends in, which stays in its text and  *)
(* reads what stands there; and the text it searches, where it takes what  *)
(* it hands to the parser from the default interface's column or from a    *)
(* word that no parser accepts.                                            *)
(***************************************************************************)
EXTENDS DefaultInterface, Lemmas, FiniteSetTheorems

InUse == {"sizing", "filling", "searching"}

Balanced == live = IF stage \in InUse THEN 1 ELSE 0

LEMMA InitBalanced == (LookupInit \/ NoLookupInit) => Balanced
BY DEF LookupInit, NoLookupInit, NothingAllocated, Balanced, InUse

LEMMA StepBalanced == Balanced /\ [LookupNext]_lookupVars => Balanced'
<1> SUFFICES ASSUME Balanced, [LookupNext]_lookupVars
             PROVE  Balanced'
  OBVIOUS
<1> USE DEF Balanced, InUse
<1>1. CASE ReadRoutes \/ PopenFails \/ Spawn \/ ReadFile
  BY <1>1 DEF ReadRoutes, PopenFails, Spawn, ReadFile, Reads, Goes, heapVars
<1>2. CASE AskAddress \/ NoAddress \/ ReadAddressFile
  BY <1>2 DEF AskAddress, NoAddress, ReadAddressFile, Waits, Goes, heapVars
<1>3. CASE FindColumns \/ NoColumn
  BY <1>3 DEF FindColumns, NoColumn, Waits, Goes, heapVars
<1>4. CASE NoDefault \/ Failure
  BY <1>4 DEF NoDefault, Failure, HasAddress, Goes, heapVars
<1>5. CASE Allocate
  BY <1>5 DEF Allocate, HasAddress, Goes
<1>6. CASE AskSize \/ AdaptersChange
  BY <1>6 DEF AskSize, AdaptersChange, Goes
<1>7. CASE Fill \/ FillFails
  BY <1>7 DEF Fill, FillFails, NoFit, Goes, heapVars
<1>8. CASE NoAdapter \/ CopyMAC
  BY <1>8 DEF NoAdapter, CopyMAC, Freed, Goes
<1>9. CASE ParserStep \/ UNCHANGED lookupVars
  BY <1>9 DEF ParserStep, lookupVars, heapVars
<1> QED BY <1>1, <1>2, <1>3, <1>4, <1>5, <1>6, <1>7, <1>8, <1>9
           DEF LookupNext, LookupStep

(* getDefaultInterfaceMAC of src/utils.cpp, on Windows, frees what it has  *)
(* allocated, once, on every way out, and not while it still reads it.     *)
THEOREM HeapIsBalanced == LookupSpec => []MemoryIsFreedOnce
<1>1. Balanced => MemoryIsFreedOnce
  BY DEF Balanced, InUse, MemoryIsFreedOnce, Ended
<1> QED BY <1>1, InitBalanced, StepBalanced, PTL DEF LookupSpec
-----------------------------------------------------------------------------
(* A search finds the first of the positions there are, or none.           *)
LEMMA FirstIs ==
  ASSUME NEW T \in SUBSET Nat
  PROVE  \/ First(T) = npos /\ T = {}
         \/ First(T) \in T /\ \A q \in T : First(T) <= q
<1>1. CASE T # {}
  <2>1. \E x \in T : \A y \in T : x <= y
    BY <1>1, LeastOf
  <2> QED BY <1>1, <2>1 DEF First
<1> QED BY <1>1 DEF First

LEMMA FindInIs ==
  ASSUME NEW s, NEW t, NEW from \in Nat, Len(s) \in Nat, Len(t) \in Nat
  PROVE  FindIn(s, t, from) = npos \/ FindIn(s, t, from) \in from .. Len(s) - Len(t)
<1> DEFINE T == {p \in from .. Len(s) - Len(t) : SubSeq(s, p + 1, p + Len(t)) = t}
<1>1. T \in SUBSET Nat /\ T \subseteq from .. Len(s) - Len(t)
  OBVIOUS
<1>2. FindIn(s, t, from) = First(T)
  BY DEF FindIn
<1> HIDE DEF T
<1> QED BY <1>1, <1>2, FirstIs

LEMMA FindNotBlankIs ==
  ASSUME NEW s, NEW from \in Nat, Len(s) \in Nat
  PROVE  FindNotBlank(s, from) = npos \/ FindNotBlank(s, from) \in Nat
<1> DEFINE T == {p \in from .. Len(s) - 1 : s[p + 1] # Blank}
<1>1. T \in SUBSET Nat
  OBVIOUS
<1>2. FindNotBlank(s, from) = First(T)
  BY DEF FindNotBlank
<1> HIDE DEF T
<1> QED BY <1>1, <1>2, FirstIs

LEMMA CharacterIs == \A c \in Characters : c \in Nat
<1>1. \A c \in 0 .. 22 : c \in Nat
  OBVIOUS
<1> QED BY <1>1 DEF Characters

(* The characters a text begins with                                       *)
LEMMA LeadingIs ==
  ASSUME NEW t \in Seq(Characters), NEW C
  PROVE  /\ Leading(t, C) \in 0 .. Len(t)
         /\ \A j \in 1 .. Leading(t, C) : t[j] \in C
         /\ Leading(t, C) < Len(t) => t[Leading(t, C) + 1] \notin C
<1> DEFINE n == Len(t)
           T == {m \in 0 .. n : m < n => t[m + 1] \notin C}
           l == Leading(t, C)
<1>1. n \in Nat
  BY LenProperties
<1>2. T \in SUBSET Nat /\ n \in T
  <2> HIDE DEF n
  <2> QED BY <1>1
<1>3. l = First(T)
  BY DEF Leading
<1>4. l \in T /\ \A q \in T : l <= q
  <2> HIDE DEF T, l
  <2> QED BY <1>2, <1>3, FirstIs
<1> HIDE DEF l
<1>5. l \in 0 .. n /\ (l < n => t[l + 1] \notin C)
  BY <1>4
<1>6. ASSUME NEW j \in 1 .. l PROVE t[j] \in C
  <2>1. j - 1 \in 0 .. n /\ j - 1 < n /\ (j - 1) + 1 = j /\ ~(l <= j - 1)
    <3> HIDE DEF n, T
    <3> QED BY <1>1, <1>5
  <2>2. j - 1 \notin T
    <3> HIDE DEF T
    <3> QED BY <1>4, <2>1
  <2> QED BY <2>1, <2>2
<1> QED BY <1>5, <1>6 DEF l, n

(* std::stoi skips nothing of a text without a blank or a sign in front.   *)
LEMMA NothingSkipped ==
  ASSUME NEW t \in Seq(Characters), t # <<>> => t[1] \notin {Blank, Plus, Minus}
  PROVE  /\ SubSeq(t, 1, Len(t)) = t
         /\ Unblanked[t] = t /\ Unsigned[t] = t /\ ~Negative(t)
<1> DEFINE n == Len(t)
<1>1. n \in Nat /\ (t # <<>> => n # 0)
  BY LenProperties, EmptySeq
<1>2. SubSeq(t, 1, n) = t
  <2>1. \A j \in 1 .. n : t[0 + j] = t[j]
    BY <1>1
  <2>2. SubSeq(t, 0 + 1, 0 + n) = t
    BY <2>1, SubSeqIs
  <2> QED BY <1>1, <2>2
<1>3. t # <<>> => Head(t) = t[1]
  <2> SUFFICES ASSUME t # <<>> PROVE Head(t) = t[1]
    OBVIOUS
  <2>1. 1 \in 1 .. n /\ n \in 1 .. Len(t)
    BY <1>1
  <2>2. Head(SubSeq(t, 1, n)) = t[1]
    BY <2>1, HeadTailOfSubSeq
  <2> QED BY <1>2, <2>2
<1>4. Unblanked[t] = t
  <2>1. Leading(t, {Blank}) = 0
    <3> DEFINE l == Leading(t, {Blank})
    <3>1. l \in 0 .. n /\ \A j \in 1 .. l : t[j] \in {Blank}
      BY LeadingIs
    <3> HIDE DEF l
    <3>2. CASE l # 0
      <4>1. 1 \in 1 .. l /\ n # 0
        BY <1>1, <3>1, <3>2
      <4>2. t # <<>>
        BY <4>1
      <4> QED BY <3>1, <4>1, <4>2
    <3> QED BY <3>2 DEF l
  <2>2. Unblanked[t] = SubSeq(t, Leading(t, {Blank}) + 1, Len(t))
    BY DEF Unblanked
  <2>3. Unblanked[t] = SubSeq(t, 0 + 1, n)
    BY <2>1, <2>2
  <2> QED BY <1>2, <2>3
<1>5. Unsigned[t] = t
  BY <1>3 DEF Unsigned
<1>6. ~Negative(t)
  BY <1>3, <1>4 DEF Negative
<1> QED BY <1>2, <1>4, <1>5, <1>6

LEMMA DigitsOf ==
  ASSUME NEW t \in Seq(Characters), t # <<>> => t[1] \notin {Blank, Plus, Minus}, NEW base
  PROVE  Digits(t, base) = SubSeq(t, 1, Leading(t, 0 .. base - 1))
<1> DEFINE leading == [u \in Seq(Characters) |-> SubSeq(u, 1, Leading(u, 0 .. base - 1))]
<1>1. Digits(t, base) = leading[Unsigned[Unblanked[t]]]
  BY DEF Digits
<1>2. leading[t] = SubSeq(t, 1, Leading(t, 0 .. base - 1))
  OBVIOUS
<1> HIDE DEF leading
<1> QED BY <1>1, <1>2, NothingSkipped

(* A text of digits is all that std::stoi reads of it.                     *)
OnlyDigits(t, base) == \A j \in 1 .. Len(t) : t[j] \in 0 .. base - 1

LEMMA DigitsAre ==
  ASSUME NEW t \in Seq(Characters), NEW base \in {10, 16}, OnlyDigits(t, base)
  PROVE  Digits(t, base) = t /\ Stoi(t, base) = Value(t, base)
<1> DEFINE n == Len(t)
           C == 0 .. base - 1
<1>1. n \in Nat /\ \A j \in 1 .. n : t[j] \in C
  BY LenProperties DEF OnlyDigits
<1>2. t # <<>> => t[1] \notin {Blank, Plus, Minus}
  <2> SUFFICES ASSUME t # <<>> PROVE t[1] \notin {Blank, Plus, Minus}
    OBVIOUS
  <2>1. 1 \in 1 .. n
    BY <1>1, EmptySeq
  <2>2. t[1] \in C
    BY <1>1, <2>1
  <2>3. t[1] \in 0 .. 15
    <3>1. \A x \in C : x \in 0 .. 15
      OBVIOUS
    <3> HIDE DEF C
    <3> QED BY <2>2, <3>1
  <2> QED BY <2>3, SMTT(20) DEF Blank, Plus, Minus
<1>3. Leading(t, C) = n
  <2> DEFINE l == Leading(t, C)
  <2>1. l \in 0 .. n /\ (l < n => t[l + 1] \notin C)
    BY LeadingIs
  <2> HIDE DEF l, C, n
  <2>2. ASSUME l < n PROVE FALSE
    <3>1. l + 1 \in 1 .. n
      BY <1>1, <2>1, <2>2
    <3> QED BY <1>1, <2>1, <2>2, <3>1
  <2>3. l = n
    BY <1>1, <2>1, <2>2
  <2> QED BY <2>3 DEF l
<1>4. Digits(t, base) = t
  <2>1. Digits(t, base) = SubSeq(t, 1, Leading(t, C)) /\ SubSeq(t, 1, n) = t
    BY <1>2, NothingSkipped, DigitsOf
  <2> QED BY <1>3, <2>1
<1>5. ~Negative(t) /\ Unblanked[t] = t
  BY <1>2, NothingSkipped
<1> QED BY <1>4, <1>5 DEF Stoi

(* Where it finds neither a blank nor a sign nor a digit, it finds no      *)
(* number.                                                                 *)
LEMMA NoDigits ==
  ASSUME NEW t \in Seq(Characters), NEW base, t # <<>>,
         t[1] \notin 0 .. base - 1, t[1] \notin {Blank, Plus, Minus}
  PROVE  Digits(t, base) = <<>>
<1> DEFINE l == Leading(t, 0 .. base - 1)
<1>1. l \in 0 .. Len(t) /\ \A j \in 1 .. l : t[j] \in 0 .. base - 1
  BY LeadingIs
<1>2. Digits(t, base) = SubSeq(t, 1, l)
  BY DigitsOf
<1> HIDE DEF l
<1>3. l \in Int /\ l < 1
  <2>1. Len(t) \in Nat
    BY LenProperties
  <2>2. l # 0 => 1 \in 1 .. l
    BY <1>1, <2>1
  <2> QED BY <1>1, <2>1, <2>2
<1>4. SubSeq(t, 1, l) = <<>>
  BY <1>3, SubSeqEmpty
<1> QED BY <1>2, <1>4

(* The number that one, two or three digits stand for                      *)
LEMMA ValueIs ==
  ASSUME NEW d, NEW n \in 1 .. 3, Len(d) = n, \A j \in 1 .. n : d[j] \in Nat,
         NEW base \in Nat
  PROVE  Value(d, base) = IF n = 1 THEN d[1]
                          ELSE IF n = 2 THEN d[1] * base + d[2]
                          ELSE (d[1] * base + d[2]) * base + d[3]
<1> DEFINE upto == CHOOSE g : g = [m \in 0 .. n |->
                                     IF m = 0 THEN 0 ELSE g[m - 1] * base + d[m]]
           h == [m \in 0 .. n |-> IF m = 0 THEN 0
                                  ELSE IF m = 1 THEN d[1]
                                  ELSE IF m = 2 THEN d[1] * base + d[2]
                                  ELSE (d[1] * base + d[2]) * base + d[3]]
<1>1. \A m \in 0 .. n : h[m] = IF m = 0 THEN 0 ELSE h[m - 1] * base + d[m]
  <2> SUFFICES ASSUME NEW m \in 0 .. n
               PROVE  h[m] = IF m = 0 THEN 0 ELSE h[m - 1] * base + d[m]
    OBVIOUS
  <2>1. CASE m = 0
    BY <2>1
  <2>2. CASE m # 0
    <3>1. m - 1 \in 0 .. n /\ m \in 1 .. n /\ m \in 1 .. 3
      BY <2>2
    <3>2. d[m] \in Nat
      BY <3>1
    <3>3. h[m - 1] = IF m = 1 THEN 0
                     ELSE IF m = 2 THEN d[1] ELSE d[1] * base + d[2]
      BY <3>1
    <3>4. m = 1 \/ m = 2 \/ m = 3
      BY <3>1
    <3> QED BY <3>1, <3>2, <3>3, <3>4
  <2> QED BY <2>1, <2>2
<1>2. h = [m \in 0 .. n |-> IF m = 0 THEN 0 ELSE h[m - 1] * base + d[m]]
  <2>1. h = [m \in 0 .. n |-> h[m]]
    OBVIOUS
  <2> HIDE DEF h
  <2> QED BY <1>1, <2>1
<1>3. upto = [m \in 0 .. n |-> IF m = 0 THEN 0 ELSE upto[m - 1] * base + d[m]]
  <2> HIDE DEF h
  <2> QED BY <1>2
<1>4. Value(d, base) = upto[n]
  BY DEF Value
<1> HIDE DEF upto
<1>5. /\ upto[0] = 0
      /\ \A m \in 1 .. n : upto[m] = upto[m - 1] * base + d[m]
  <2>1. 0 \in 0 .. n /\ \A m \in 1 .. n : m \in 0 .. n /\ m # 0
    OBVIOUS
  <2> QED BY <1>3, <2>1
<1>6. upto[1] = d[1]
  <2>1. 1 \in 1 .. n /\ 1 - 1 = 0
    OBVIOUS
  <2>2. upto[1] = 0 * base + d[1] /\ d[1] \in Nat
    BY <1>5, <2>1
  <2> QED BY <2>2
<1>7. n > 1 => upto[2] = d[1] * base + d[2]
  <2> SUFFICES ASSUME n > 1 PROVE upto[2] = d[1] * base + d[2]
    OBVIOUS
  <2>1. 2 \in 1 .. n /\ 2 - 1 = 1
    OBVIOUS
  <2> QED BY <1>5, <1>6, <2>1
<1>8. n > 2 => upto[3] = (d[1] * base + d[2]) * base + d[3]
  <2> SUFFICES ASSUME n > 2 PROVE upto[3] = (d[1] * base + d[2]) * base + d[3]
    OBVIOUS
  <2>1. 3 \in 1 .. n /\ 3 - 1 = 2 /\ n > 1
    OBVIOUS
  <2> QED BY <1>5, <1>7, <2>1
<1>9. n = 1 \/ n = 2 \/ n = 3
  OBVIOUS
<1> QED BY <1>4, <1>6, <1>7, <1>8, <1>9

(* What the printers write of one octet                                    *)
Field(k, b) == IF k = "IPv4" THEN Decimal(b) ELSE Hexadecimal(b)

LEMMA FieldIs ==
  ASSUME NEW k \in {"IPv4", "MAC"}, NEW b \in UInt8
  PROVE  /\ Field(k, b) \in Seq(Characters)
         /\ Len(Field(k, b)) \in Lengths(k)
         /\ OnlyDigits(Field(k, b), Base(k))
         /\ Value(Field(k, b), Base(k)) = b
<1>1. b \in 0 .. 255
  BY DEF UInt8
<1>2. CASE k = "MAC"
  <2> DEFINE d == <<b \div 16, b % 16>>
  <2>1. d[1] \in 0 .. 15 /\ d[2] \in 0 .. 15 /\ d[1] * 16 + d[2] = b
    BY <1>1
  <2>2. Field(k, b) = d /\ Lengths(k) = {2} /\ Base(k) = 16
    BY <1>2 DEF Field, Hexadecimal, Lengths, Base
  <2>3. d \in Seq(Characters) /\ Len(d) = 2
    <3>1. b \div 16 \in Characters /\ b % 16 \in Characters
      BY <1>1 DEF Characters
    <3> QED BY <3>1
  <2> HIDE DEF d
  <2>4. \A j \in 1 .. 2 : d[j] \in 0 .. 15
    BY <2>1
  <2>5. Value(d, 16) = d[1] * 16 + d[2]
    <3>1. \A j \in 1 .. 2 : d[j] \in Nat
      BY <2>4
    <3>2. 2 \in 1 .. 3 /\ 16 \in Nat
      OBVIOUS
    <3> QED BY <2>3, <3>1, <3>2, ValueIs
  <2> QED BY <2>1, <2>2, <2>3, <2>4, <2>5 DEF OnlyDigits
<1>3. CASE k = "IPv4"
  <2>1. Field(k, b) = Decimal(b) /\ Lengths(k) = 1 .. 3 /\ Base(k) = 10
    BY <1>3 DEF Field, Lengths, Base
  <2>2. /\ Decimal(b) \in Seq(Characters)
        /\ Len(Decimal(b)) \in 1 .. 3
        /\ \A j \in 1 .. Len(Decimal(b)) : Decimal(b)[j] \in 0 .. 9
        /\ b = IF Len(Decimal(b)) = 1 THEN Decimal(b)[1]
               ELSE IF Len(Decimal(b)) = 2 THEN Decimal(b)[1] * 10 + Decimal(b)[2]
               ELSE (Decimal(b)[1] * 10 + Decimal(b)[2]) * 10 + Decimal(b)[3]
    <3>1. CASE b < 10
      <4>1. Decimal(b) = <<b>> /\ b \in 0 .. 9 /\ b \in Characters
        BY <1>1, <3>1 DEF Decimal, Characters
      <4> QED BY <4>1
    <3>2. CASE ~(b < 10) /\ b < 100
      <4>1. Decimal(b) = <<b \div 10, b % 10>>
        BY <3>2 DEF Decimal
      <4>2. b \div 10 \in 0 .. 9 /\ b % 10 \in 0 .. 9 /\ b = (b \div 10) * 10 + (b % 10)
        BY <1>1, <3>2
      <4>3. b \div 10 \in Characters /\ b % 10 \in Characters
        BY <4>2 DEF Characters
      <4> QED BY <4>1, <4>2, <4>3
    <3>3. CASE ~(b < 10) /\ ~(b < 100)
      <4> DEFINE h == b \div 100
                 t == (b \div 10) % 10
                 o == b % 10
      <4>1. Decimal(b) = <<h, t, o>>
        BY <3>3 DEF Decimal
      <4>2. /\ h \in 0 .. 9 /\ t \in 0 .. 9 /\ o \in 0 .. 9
            /\ b = (h * 10 + t) * 10 + o
        BY <1>1, <3>3
      <4>3. h \in Characters /\ t \in Characters /\ o \in Characters
        BY <4>2 DEF Characters
      <4> HIDE DEF h, t, o
      <4> QED BY <4>1, <4>2, <4>3
    <3> QED BY <3>1, <3>2, <3>3
  <2> DEFINE d == Decimal(b)
             n == Len(d)
  <2>3. Value(d, 10) = IF n = 1 THEN d[1]
                       ELSE IF n = 2 THEN d[1] * 10 + d[2]
                       ELSE (d[1] * 10 + d[2]) * 10 + d[3]
    <3>1. n \in 1 .. 3 /\ \A j \in 1 .. n : d[j] \in Nat
      BY <2>2
    <3>2. 10 \in Nat
      OBVIOUS
    <3> HIDE DEF n, d
    <3>3. Len(d) = n
      BY DEF n
    <3> QED BY <3>1, <3>2, <3>3, ValueIs
  <2>4. OnlyDigits(d, 10)
    BY <2>2 DEF OnlyDigits
  <2> QED BY <2>1, <2>2, <2>3, <2>4
<1> QED BY <1>2, <1>3

(* Where the j-th octet ends, of those a printer has written               *)
FieldEnd(k, a, j) ==
  LET l(m) == Len(Field(k, a[m]))
  IN  IF k = "MAC" THEN 3 * j - 1
      ELSE IF j = 0 THEN -1
      ELSE IF j = 1 THEN l(1)
      ELSE IF j = 2 THEN l(1) + 1 + l(2)
      ELSE IF j = 3 THEN l(1) + 1 + l(2) + 1 + l(3)
      ELSE l(1) + 1 + l(2) + 1 + l(3) + 1 + l(4)

LEMMA FieldEnds ==
  ASSUME NEW k \in {"IPv4", "MAC"}, NEW n \in Nat, n >= 1, k = "IPv4" => n <= 4,
         NEW a, \A j \in 1 .. n : a[j] \in UInt8
  PROVE  /\ FieldEnd(k, a, 0) = -1
         /\ \A j \in 0 .. n : FieldEnd(k, a, j) \in Int /\ FieldEnd(k, a, j) >= -1
         /\ \A j \in 1 .. n : /\ FieldEnd(k, a, j)
                                   = FieldEnd(k, a, j - 1) + 1 + Len(Field(k, a[j]))
                              /\ Len(Field(k, a[j])) \in 1 .. 3
<1>1. \A j \in 1 .. n : Len(Field(k, a[j])) \in Lengths(k)
  BY FieldIs
<1>2. CASE k = "MAC"
  <2>1. \A j \in 1 .. n : Len(Field(k, a[j])) = 2
    BY <1>1, <1>2 DEF Lengths
  <2>2. \A j : FieldEnd(k, a, j) = 3 * j - 1
    BY <1>2 DEF FieldEnd
  <2>3. \A j \in 0 .. n : 3 * j - 1 \in Int /\ 3 * j - 1 >= -1
    OBVIOUS
  <2>4. \A j \in 1 .. n : 3 * j - 1 = (3 * (j - 1) - 1) + 1 + 2
    OBVIOUS
  <2>5. FieldEnd(k, a, 0) = -1
    BY <2>2
  <2>6. \A j \in 1 .. n : FieldEnd(k, a, j)
                             = FieldEnd(k, a, j - 1) + 1 + Len(Field(k, a[j]))
    BY <2>1, <2>2, <2>4
  <2>7. \A j \in 0 .. n : FieldEnd(k, a, j) \in Int /\ FieldEnd(k, a, j) >= -1
    BY <2>2, <2>3
  <2>8. \A j \in 1 .. n : Len(Field(k, a[j])) \in 1 .. 3
    <3>1. 2 \in 1 .. 3
      OBVIOUS
    <3> QED BY <2>1, <3>1
  <2> QED BY <2>5, <2>6, <2>7, <2>8
<1>3. CASE k = "IPv4"
  <2> DEFINE l(m) == Len(Field(k, a[m]))
  <2>1. \A j \in 1 .. n : l(j) \in 1 .. 3
    BY <1>1, <1>3 DEF Lengths
  <2>2. n \in 1 .. 4
    BY <1>3
  <2>3. /\ FieldEnd(k, a, 0) = -1
        /\ FieldEnd(k, a, 1) = l(1)
        /\ FieldEnd(k, a, 2) = l(1) + 1 + l(2)
        /\ FieldEnd(k, a, 3) = l(1) + 1 + l(2) + 1 + l(3)
        /\ FieldEnd(k, a, 4) = l(1) + 1 + l(2) + 1 + l(3) + 1 + l(4)
    BY <1>3 DEF FieldEnd
  <2> HIDE DEF l
  <2>4. ASSUME NEW j \in 1 .. n
        PROVE  /\ FieldEnd(k, a, j) = FieldEnd(k, a, j - 1) + 1 + l(j)
               /\ FieldEnd(k, a, j) \in Nat
    <3>1. \A m \in 1 .. j : l(m) \in Nat
      BY <2>1, <2>2
    <3>2. j = 1 \/ j = 2 \/ j = 3 \/ j = 4
      BY <2>2
    <3>3. CASE j = 1
      <4>1. l(1) \in Nat /\ j - 1 = 0
        BY <3>1, <3>3
      <4> QED BY <2>3, <3>3, <4>1
    <3>4. CASE j = 2
      <4>1. l(1) \in Nat /\ l(2) \in Nat /\ j - 1 = 1
        BY <3>1, <3>4
      <4> QED BY <2>3, <3>4, <4>1
    <3>5. CASE j = 3
      <4>1. l(1) \in Nat /\ l(2) \in Nat /\ l(3) \in Nat /\ j - 1 = 2
        BY <3>1, <3>5
      <4> QED BY <2>3, <3>5, <4>1
    <3>6. CASE j = 4
      <4>1. l(1) \in Nat /\ l(2) \in Nat /\ l(3) \in Nat /\ l(4) \in Nat /\ j - 1 = 3
        BY <3>1, <3>6
      <4> QED BY <2>3, <3>6, <4>1
    <3> QED BY <3>2, <3>3, <3>4, <3>5, <3>6
  <2>5. \A j \in 0 .. n : j = 0 \/ j \in 1 .. n
    BY <2>2
  <2>6. \A j \in 0 .. n : FieldEnd(k, a, j) \in Int /\ FieldEnd(k, a, j) >= -1
    BY <2>3, <2>4, <2>5
  <2> QED BY <2>1, <2>3, <2>4, <2>6 DEF l
<1> QED BY <1>2, <1>3

(* The first n octets stand in s one after the other, with a separator     *)
(* behind each but the last.                                               *)
LaidOut(s, k, a, n) ==
  /\ s \in Seq(Characters)
  /\ Len(s) = FieldEnd(k, a, n)
  /\ \A j \in 0 .. n : FieldEnd(k, a, j) <= Len(s)
  /\ \A j \in 1 .. n : \A q \in 1 .. Len(Field(k, a[j])) :
       s[FieldEnd(k, a, j - 1) + 1 + q] = Field(k, a[j])[q]
  /\ \A j \in 1 .. n - 1 : s[FieldEnd(k, a, j) + 1] = Separator

LEMMA Joined ==
  ASSUME NEW S, NEW s \in Seq(S), NEW t \in Seq(S)
  PROVE  /\ s \o t \in Seq(S) /\ Len(s \o t) = Len(s) + Len(t)
         /\ \A p \in 1 .. Len(s) : (s \o t)[p] = s[p]
         /\ \A q \in 1 .. Len(t) : (s \o t)[Len(s) + q] = t[q]
<1>1. s \o t \in Seq(S) /\ Len(s \o t) = Len(s) + Len(t)
  BY JoinedIsSeq, JoinedLen
<1>2. ASSUME NEW p \in 1 .. Len(s) PROVE (s \o t)[p] = s[p]
  BY JoinedLeft
<1>3. ASSUME NEW q \in 1 .. Len(t) PROVE (s \o t)[Len(s) + q] = t[q]
  BY JoinedRight
<1> QED BY <1>1, <1>2, <1>3

LEMMA LaidOutNext ==
  ASSUME NEW k \in {"IPv4", "MAC"}, NEW n \in 1 .. Octets(k) - 1, NEW a,
         \A j \in 1 .. n + 1 : a[j] \in UInt8,
         NEW s, LaidOut(s, k, a, n)
  PROVE  LaidOut(s \o <<Separator>> \o Field(k, a[n + 1]), k, a, n + 1)
<1> DEFINE E(j) == FieldEnd(k, a, j)
           F(j) == Field(k, a[j])
           f == F(n + 1)
           u == s \o <<Separator>>
           v == u \o f
<1>1. /\ n \in Nat /\ n + 1 \in Nat /\ n >= 1 /\ n + 1 >= 1 /\ (k = "IPv4" => n + 1 <= 4)
      /\ \A j \in 1 .. n : j \in 1 .. n + 1
      /\ \A j \in 0 .. n : j \in 0 .. n + 1
      /\ n + 1 \in 1 .. n + 1 /\ (n + 1) - 1 = n /\ n \in 0 .. n + 1
  BY DEF Octets
<1>2. /\ \A j \in 0 .. n + 1 : E(j) \in Int /\ E(j) >= -1
      /\ \A j \in 1 .. n + 1 : E(j) = E(j - 1) + 1 + Len(F(j)) /\ Len(F(j)) \in 1 .. 3
  BY <1>1, FieldEnds
<1>3. f \in Seq(Characters)
  BY <1>1, FieldIs
<1>4. /\ s \in Seq(Characters) /\ Len(s) = E(n) /\ Len(s) \in Nat
      /\ \A j \in 0 .. n : E(j) <= Len(s)
      /\ \A j \in 1 .. n : \A q \in 1 .. Len(F(j)) : s[E(j - 1) + 1 + q] = F(j)[q]
      /\ \A j \in 1 .. n - 1 : s[E(j) + 1] = Separator
  BY LenProperties DEF LaidOut
<1>5. /\ u \in Seq(Characters) /\ Len(u) = Len(s) + 1
      /\ \A p \in 1 .. Len(s) : u[p] = s[p]
      /\ u[Len(s) + 1] = Separator
  <2>1. Separator \in Characters
    BY DEF Separator, Characters
  <2>2. u = Append(s, Separator)
    BY <1>4, <2>1, AppendIsConcat
  <2> HIDE DEF u
  <2> QED BY <1>4, <2>1, <2>2, AppendProperties
<1> HIDE DEF u
<1>6. /\ v \in Seq(Characters) /\ Len(v) = Len(u) + Len(f)
      /\ \A p \in 1 .. Len(u) : v[p] = u[p]
      /\ \A q \in 1 .. Len(f) : v[Len(u) + q] = f[q]
  <2> HIDE DEF f
  <2>1. u \in Seq(Characters) /\ f \in Seq(Characters)
    BY <1>3, <1>5
  <2>2. /\ u \o f \in Seq(Characters) /\ Len(u \o f) = Len(u) + Len(f)
        /\ \A p \in 1 .. Len(u) : (u \o f)[p] = u[p]
        /\ \A q \in 1 .. Len(f) : (u \o f)[Len(u) + q] = f[q]
    BY <2>1, Joined
  <2>3. v = u \o f
    BY DEF v
  <2> HIDE DEF v
  <2> QED BY <2>2, <2>3
<1> HIDE DEF v
<1>7. /\ E(n + 1) = Len(v) /\ Len(u) = E(n) + 1
      /\ Len(f) \in 1 .. 3 /\ Len(v) = Len(s) + 1 + Len(f)
  <2>1. E(n + 1) = E(n) + 1 + Len(f) /\ Len(f) \in 1 .. 3 /\ E(n) \in Int
    BY <1>1, <1>2
  <2> HIDE DEF E, f
  <2> QED BY <1>4, <1>5, <1>6, <2>1
<1>8. \A p \in 1 .. Len(s) : v[p] = s[p]
  <2>1. \A p \in 1 .. Len(s) : p \in 1 .. Len(u)
    BY <1>4, <1>5
  <2> QED BY <1>5, <1>6, <2>1
<1>9. ASSUME NEW j \in 0 .. n + 1 PROVE E(j) <= Len(v)
  <2>1. j = n + 1 \/ j \in 0 .. n
    BY <1>1
  <2>2. ASSUME j \in 0 .. n PROVE E(j) <= Len(v)
    <3>1. E(j) <= Len(s) /\ E(j) \in Int
      BY <1>1, <1>2, <1>4, <2>2
    <3> HIDE DEF E, f
    <3> QED BY <1>4, <1>7, <3>1
  <2>3. E(n + 1) <= Len(v)
    <3>1. E(n + 1) \in Int
      BY <1>1, <1>2
    <3> HIDE DEF E
    <3> QED BY <1>7, <3>1
  <2> QED BY <2>1, <2>2, <2>3
<1>10. ASSUME NEW j \in 1 .. n + 1, NEW q \in 1 .. Len(F(j))
       PROVE  v[E(j - 1) + 1 + q] = F(j)[q]
  <2>1. CASE j = n + 1
    <3>1. E(j - 1) + 1 = Len(u)
      BY <1>1, <1>7, <2>1
    <3> QED BY <1>6, <2>1, <3>1
  <2>2. CASE j \in 1 .. n
    <3>1. /\ E(j - 1) \in Int /\ E(j - 1) >= -1 /\ E(j) <= Len(s)
          /\ E(j) = E(j - 1) + 1 + Len(F(j)) /\ Len(F(j)) \in 1 .. 3
      <4>1. j - 1 \in 0 .. n + 1 /\ j \in 0 .. n
        BY <1>1, <2>2
      <4> QED BY <1>1, <1>2, <1>4, <2>2, <4>1
    <3> DEFINE e == E(j - 1)
               l == Len(F(j))
    <3>2. e + 1 + q \in 1 .. Len(s)
      <4>1. e + 1 + l <= Len(s) /\ e \in Int /\ e >= -1 /\ l \in Nat /\ q \in 1 .. l
        BY <3>1
      <4> HIDE DEF e, l
      <4> QED BY <1>4, <4>1
    <3>3. s[e + 1 + q] = F(j)[q]
      BY <1>4, <2>2
    <3> QED BY <1>8, <3>2, <3>3
  <2> QED BY <1>1, <2>1, <2>2
<1>11. ASSUME NEW j \in 1 .. n PROVE v[E(j) + 1] = Separator
  <2>1. CASE j = n
    <3>1. v[Len(s) + 1] = Separator
      <4>1. Len(s) + 1 \in 1 .. Len(u)
        BY <1>4, <1>5
      <4> QED BY <1>5, <1>6, <4>1
    <3> QED BY <1>4, <2>1, <3>1
  <2>2. CASE j \in 1 .. n - 1
    <3>1. E(j + 1) = E(j) + 1 + Len(F(j + 1)) /\ Len(F(j + 1)) \in 1 .. 3
          /\ E(j + 1) <= Len(s) /\ E(j) \in Int /\ E(j) >= -1
      <4>1. j + 1 \in 1 .. n + 1 /\ (j + 1) - 1 = j /\ j + 1 \in 0 .. n /\ j \in 0 .. n + 1
        BY <1>1, <2>2
      <4> QED BY <1>2, <1>4, <4>1
    <3>2. E(j) + 1 \in 1 .. Len(s)
      <4> DEFINE e == E(j)
                 g == E(j + 1)
                 l == Len(F(j + 1))
      <4>1. e \in Int /\ e >= 0
        <5>1. j \in 1 .. n + 1 /\ j - 1 \in 0 .. n + 1
          BY <1>1
        <5>2. e = E(j - 1) + 1 + Len(F(j)) /\ Len(F(j)) \in 1 .. 3
              /\ E(j - 1) \in Int /\ E(j - 1) >= -1
          BY <1>2, <5>1
        <5> HIDE DEF e, E, F
        <5> QED BY <5>2
      <4> HIDE DEF e, g, l
      <4>2. e + 1 \in 1 .. Len(s)
        BY <1>4, <3>1, <4>1 DEF e, g, l
      <4> QED BY <4>2 DEF e
    <3> QED BY <1>4, <1>8, <2>2, <3>2
  <2> QED BY <1>1, <2>1, <2>2
<1> HIDE DEF E, F, f
<1>12. (n + 1) - 1 = n
  BY <1>1
<1> QED BY <1>6, <1>7, <1>9, <1>10, <1>11, <1>12 DEF LaidOut, E, F, v, u, f

LEMMA LaidOutFirst ==
  ASSUME NEW k \in {"IPv4", "MAC"}, NEW a, a[1] \in UInt8
  PROVE  LaidOut(Field(k, a[1]), k, a, 1)
<1> DEFINE f == Field(k, a[1])
<1>1. 1 \in Nat /\ \A j \in 1 .. 1 : a[j] \in UInt8
  OBVIOUS
<1>2. f \in Seq(Characters)
  BY FieldIs
<1>3. /\ FieldEnd(k, a, 0) = -1
      /\ \A j \in 1 .. 1 : FieldEnd(k, a, j)
                             = FieldEnd(k, a, j - 1) + 1 + Len(Field(k, a[j]))
                           /\ Len(Field(k, a[j])) \in 1 .. 3
  BY <1>1, FieldEnds
<1>4. FieldEnd(k, a, 1) = Len(f) /\ Len(f) \in 1 .. 3
  <2>1. 1 \in 1 .. 1 /\ 1 - 1 = 0
    OBVIOUS
  <2>2. FieldEnd(k, a, 1) = -1 + 1 + Len(f) /\ Len(f) \in 1 .. 3
    BY <1>3, <2>1
  <2> HIDE DEF f
  <2> QED BY <2>2
<1>5. ASSUME NEW j \in 0 .. 1 PROVE FieldEnd(k, a, j) <= Len(f)
  <2>1. j = 0 \/ j = 1
    OBVIOUS
  <2> HIDE DEF f
  <2> QED BY <1>3, <1>4, <2>1
<1>6. ASSUME NEW j \in 1 .. 1, NEW q \in 1 .. Len(Field(k, a[j]))
      PROVE  f[FieldEnd(k, a, j - 1) + 1 + q] = Field(k, a[j])[q]
  <2>1. j = 1 /\ j - 1 = 0
    OBVIOUS
  <2>2. q \in Int /\ -1 + 1 + q = q
    OBVIOUS
  <2> QED BY <1>3, <2>1, <2>2
<1>7. \A j \in 1 .. 1 - 1 : f[FieldEnd(k, a, j) + 1] = Separator
  OBVIOUS
<1> QED BY <1>2, <1>4, <1>5, <1>6, <1>7 DEF LaidOut

(* An IPv4 address has four octets; a MAC address may have any number.     *)
IsAddress(k, a) ==
  k \in {"IPv4", "MAC"} /\ a \in Seq(UInt8) /\ Len(a) >= 1 /\ (k = "IPv4" => Len(a) = 4)

LEMMA OctetsMakeAddress ==
  ASSUME NEW k \in {"IPv4", "MAC"}, NEW a \in [1 .. Octets(k) -> UInt8]
  PROVE  IsAddress(k, a) /\ Len(a) = Octets(k)
<1>1. Octets(k) \in Nat /\ Octets(k) >= 1 /\ (k = "IPv4" => Octets(k) = 4)
  BY DEF Octets
<1>2. a \in Seq(UInt8) /\ Len(a) = Octets(k)
  BY <1>1, ListIsSeq
<1> QED BY <1>1, <1>2 DEF IsAddress

(* What is printed is laid out so.                                         *)
LEMMA WrittenIs ==
  ASSUME NEW k, NEW a, IsAddress(k, a)
  PROVE  LaidOut(Written(k, a), k, a, Len(a))
<1> USE DEF IsAddress
<1>1. CASE k = "IPv4"
  <2>1. Len(a) = 4 /\ Octets(k) = 4 /\ \A j \in 1 .. 4 : a[j] \in UInt8
    BY <1>1, ElementOfSeq DEF Octets
  <2> DEFINE D(j) == Decimal(a[j])
             s1 == D(1)
             s2 == s1 \o <<Separator>> \o D(2)
             s3 == s2 \o <<Separator>> \o D(3)
             s4 == s3 \o <<Separator>> \o D(4)
  <2>2. \A j \in 1 .. 4 : D(j) = Field(k, a[j])
    BY <1>1 DEF Field
  <2>3. Written(k, a) = s4
    BY <1>1 DEF Written, WrittenIPv4
  <2> HIDE DEF D
  <2>4. D(1) = Field(k, a[1]) /\ D(2) = Field(k, a[2])
        /\ D(3) = Field(k, a[3]) /\ D(4) = Field(k, a[4])
    <3>1. 1 \in 1 .. 4 /\ 2 \in 1 .. 4 /\ 3 \in 1 .. 4 /\ 4 \in 1 .. 4
      OBVIOUS
    <3> QED BY <2>2, <3>1
  <2>5. LaidOut(s1, k, a, 1)
    <3>1. a[1] \in UInt8
      BY <2>1
    <3> QED BY <2>4, <3>1, LaidOutFirst
  <2> HIDE DEF s1
  <2>6. LaidOut(s2, k, a, 2)
    <3>1. 1 \in 1 .. Octets(k) - 1 /\ \A j \in 1 .. 1 + 1 : a[j] \in UInt8
      BY <2>1
    <3>2. LaidOut(s1 \o <<Separator>> \o Field(k, a[1 + 1]), k, a, 1 + 1)
      BY <2>5, <3>1, LaidOutNext
    <3>3. 1 + 1 = 2
      OBVIOUS
    <3> QED BY <2>4, <3>2, <3>3
  <2> HIDE DEF s2
  <2>7. LaidOut(s3, k, a, 3)
    <3>1. 2 \in 1 .. Octets(k) - 1 /\ \A j \in 1 .. 2 + 1 : a[j] \in UInt8
      BY <2>1
    <3>2. LaidOut(s2 \o <<Separator>> \o Field(k, a[2 + 1]), k, a, 2 + 1)
      BY <2>6, <3>1, LaidOutNext
    <3>3. 2 + 1 = 3
      OBVIOUS
    <3> QED BY <2>4, <3>2, <3>3
  <2> HIDE DEF s3
  <2>8. LaidOut(s4, k, a, 4)
    <3>1. 3 \in 1 .. Octets(k) - 1 /\ \A j \in 1 .. 3 + 1 : a[j] \in UInt8
      BY <2>1
    <3>2. LaidOut(s3 \o <<Separator>> \o Field(k, a[3 + 1]), k, a, 3 + 1)
      BY <2>7, <3>1, LaidOutNext
    <3>3. 3 + 1 = 4
      OBVIOUS
    <3> QED BY <2>4, <3>2, <3>3
  <2> QED BY <2>1, <2>3, <2>8
<1>2. CASE k = "MAC"
  <2> DEFINE l == Len(a)
             n == 3 * l - 1
             t == WrittenMAC(a)
  <2>1. l \in Nat /\ l >= 1 /\ \A j \in 1 .. l : a[j] \in UInt8
    BY LenProperties, ElementOfSeq
  <2>2. Written(k, a) = t /\ \A j : Field(k, a[j]) = Hexadecimal(a[j])
    BY <1>2 DEF Written, Field
  <2>3. t = [j \in 1 .. n |->
               IF j % 3 = 0 THEN Separator ELSE Hexadecimal(a[j \div 3 + 1])[j % 3]]
    BY DEF WrittenMAC
  <2>4. \A j \in 1 .. l : /\ Hexadecimal(a[j]) \in Seq(Characters)
                          /\ Len(Hexadecimal(a[j])) = 2
    <3> SUFFICES ASSUME NEW j \in 1 .. l
                 PROVE  Hexadecimal(a[j]) \in Seq(Characters) /\ Len(Hexadecimal(a[j])) = 2
      OBVIOUS
    <3>1. a[j] \in UInt8 /\ Field(k, a[j]) = Hexadecimal(a[j])
      BY <2>1, <2>2
    <3>2. Field(k, a[j]) \in Seq(Characters) /\ Len(Field(k, a[j])) \in Lengths(k)
      BY <3>1, FieldIs
    <3> QED BY <1>2, <3>1, <3>2 DEF Lengths
  <2>5. \A j : FieldEnd(k, a, j) = 3 * j - 1
    BY <1>2 DEF FieldEnd
  <2> HIDE DEF t, l
  <2>6. n \in Nat /\ n = 3 * l - 1
    BY <2>1
  <2> HIDE DEF n
  <2>7. t \in Seq(Characters) /\ Len(t) = n
    <3>1. ASSUME NEW j \in 1 .. n PROVE t[j] \in Characters
      <4>1. CASE j % 3 = 0
        BY <2>3, <4>1 DEF Separator, Characters
      <4>2. CASE j % 3 # 0
        <5>1. j \div 3 + 1 \in 1 .. l /\ j % 3 \in 1 .. 2
          BY <2>1, <2>6, <4>2
        <5>2. Hexadecimal(a[j \div 3 + 1])[j % 3] \in Characters
          BY <2>4, <5>1, ElementOfSeq
        <5> QED BY <2>3, <4>2, <5>2
      <4> QED BY <4>1, <4>2
    <3>2. t \in [1 .. n -> Characters]
      BY <2>3, <3>1
    <3> QED BY <2>6, <3>2, ListIsSeq
  <2>8. ASSUME NEW j \in 0 .. l PROVE FieldEnd(k, a, j) <= n
    <3>1. 3 * j - 1 <= n
      BY <2>1, <2>6
    <3> QED BY <2>5, <3>1
  <2>9. ASSUME NEW j \in 1 .. l, NEW q \in 1 .. 2
        PROVE  t[FieldEnd(k, a, j - 1) + 1 + q] = Hexadecimal(a[j])[q]
    <3> DEFINE p == 3 * (j - 1) + q
    <3>1. FieldEnd(k, a, j - 1) + 1 + q = p
      <4>1. j - 1 \in Int /\ (3 * (j - 1) - 1) + 1 + q = 3 * (j - 1) + q
        BY <2>1
      <4> QED BY <2>5, <4>1
    <3>2. p \in 1 .. n /\ p % 3 = q /\ p \div 3 + 1 = j /\ q # 0
      BY <2>1, <2>6
    <3> HIDE DEF p
    <3>3. t[p] = IF p % 3 = 0 THEN Separator ELSE Hexadecimal(a[p \div 3 + 1])[p % 3]
      BY <2>3, <3>2
    <3>4. t[p] = Hexadecimal(a[j])[q]
      BY <3>2, <3>3
    <3> QED BY <3>1, <3>4
  <2>10. ASSUME NEW j \in 1 .. l - 1 PROVE t[FieldEnd(k, a, j) + 1] = Separator
    <3> DEFINE p == 3 * j
    <3>1. FieldEnd(k, a, j) + 1 = p
      <4>1. (3 * j - 1) + 1 = 3 * j
        BY <2>1
      <4> QED BY <2>5, <4>1
    <3>2. p \in 1 .. n /\ p % 3 = 0
      BY <2>1, <2>6
    <3> HIDE DEF p
    <3> QED BY <2>3, <3>1, <3>2
  <2>11. FieldEnd(k, a, l) = n
    BY <2>5, <2>6
  <2>12. \A j \in 1 .. l : \A q \in 1 .. Len(Field(k, a[j])) :
           t[FieldEnd(k, a, j - 1) + 1 + q] = Field(k, a[j])[q]
    <3>1. \A j \in 1 .. l : Len(Field(k, a[j])) = 2
      BY <2>2, <2>4
    <3> QED BY <2>2, <2>9, <3>1
  <2> QED BY <2>2, <2>7, <2>8, <2>10, <2>11, <2>12 DEF LaidOut, l
<1> QED BY <1>1, <1>2

-----------------------------------------------------------------------------
(* Texts are sequences of characters, wherever they come from.             *)
LEMMA BetweenIs ==
  ASSUME NEW s \in Seq(Characters), NEW begin \in Nat, NEW end \in Int, end <= Len(s)
  PROVE  Between(s, begin, end) \in Seq(Characters)
<1> DEFINE e == IF end = npos THEN Len(s) ELSE end
<1>1. Len(s) \in Nat /\ \A j \in 1 .. Len(s) : s[j] \in Characters
  BY LenProperties, ElementOfSeq
<1>2. e \in Int /\ begin + 1 \in Int /\ \A j \in begin + 1 .. e : j \in 1 .. Len(s)
  BY <1>1
<1>3. Between(s, begin, end) = SubSeq(s, begin + 1, e)
  BY DEF Between
<1> HIDE DEF e
<1>4. SubSeq(s, begin + 1, e) \in Seq(Characters)
  BY <1>1, <1>2, SubSeqProperties
<1> QED BY <1>3, <1>4

LEMMA MACIsText ==
  ASSUME NEW a \in Seq(UInt8)
  PROVE  Written("MAC", a) \in Seq(Characters)
<1>1. CASE Len(a) >= 1
  BY <1>1, WrittenIs DEF IsAddress, LaidOut
<1>2. CASE Len(a) = 0
  <2> DEFINE c(j) == IF j % 3 = 0 THEN Separator ELSE Hexadecimal(a[j \div 3 + 1])[j % 3]
  <2>1. 3 * Len(a) - 1 = -1 /\ 1 .. -1 = 1 .. 0
    BY <1>2
  <2>2. Written("MAC", a) = [j \in 1 .. 0 |-> c(j)]
    BY <2>1 DEF Written, WrittenMAC
  <2> HIDE DEF c
  <2>3. [j \in 1 .. 0 |-> c(j)] \in [1 .. 0 -> Characters]
    <3>1. \A j \in 1 .. 0 : c(j) \in Characters
      OBVIOUS
    <3> QED BY <3>1
  <2>4. [j \in 1 .. 0 |-> c(j)] \in Seq(Characters)
    BY <2>3, ListIsSeq
  <2> QED BY <2>2, <2>4
<1> QED BY <1>1, <1>2, LenProperties

LEMMA IPv4IsText ==
  ASSUME NEW a \in [1 .. 4 -> UInt8]
  PROVE  IsAddress("IPv4", a) /\ Written("IPv4", a) \in Seq(Characters)
<1>1. Octets("IPv4") = 4
  BY DEF Octets
<1>2. IsAddress("IPv4", a)
  BY <1>1, OctetsMakeAddress
<1> QED BY <1>2, WrittenIs DEF LaidOut

-----------------------------------------------------------------------------
TextInv ==
  /\ text \in Seq(Characters) /\ seen \in Seq(Characters)
  /\ kind \in {"IPv4", "MAC"}
  /\ i \in Nat
  /\ prev_pos \in Int /\ prev_pos >= -1
  /\ StaysInText

LEMMA EmptyIs == <<>> \in Seq(Characters) /\ Len(<<>>) = 0
OBVIOUS

LEMMA InitText == (LookupInit \/ NoLookupInit) => TextInv
<1> SUFFICES ASSUME LookupInit \/ NoLookupInit PROVE TextInv
  OBVIOUS
<1>1. CASE LookupInit
  BY <1>1, EmptyIs DEF LookupInit, TextInv, StaysInText, npos
<1>2. CASE NoLookupInit
  <2>1. seen = <<>> /\ i = 0 /\ prev_pos = -1
    BY <1>2 DEF NoLookupInit, Init
  <2>2. text \in Seq(Characters) /\ kind \in {"IPv4", "MAC"}
    <3>1. CASE \E p \in Printable : kind = p.kind /\ text = Written(p.kind, p.addr)
      <4>1. PICK p \in Printable : kind = p.kind /\ text = Written(p.kind, p.addr)
        BY <3>1
      <4>2. p.kind \in {"IPv4", "MAC"} /\ p.addr \in [1 .. Octets(p.kind) -> UInt8]
        BY AddressesAssumption
      <4>3. Written(p.kind, p.addr) \in Seq(Characters)
        BY <4>2, OctetsMakeAddress, WrittenIs DEF LaidOut
      <4> QED BY <4>1, <4>2, <4>3
    <3>2. CASE \E t \in Texts : kind = t.kind /\ text = t.text
      BY <3>2, AddressesAssumption
    <3> QED BY <1>2, <3>1, <3>2 DEF NoLookupInit, Init
  <2>3. prev_pos + 1 <= Len(text)
    BY <2>1, <2>2, LenProperties
  <2> QED BY <2>1, <2>2, <2>3, EmptyIs DEF TextInv, StaysInText
<1> QED BY <1>1, <1>2

(* A parser begins with a text it is given, or goes on.                    *)
LEMMA ParseText ==
  ASSUME TextInv, NEW k \in {"IPv4", "MAC"}, NEW t \in Seq(Characters),
         Parse(k, t), seen' = seen
  PROVE  TextInv'
<1>1. kind' = k /\ text' = t /\ i' = 0 /\ prev_pos' = -1
  BY DEF Parse
<1>2. Len(t) \in Nat
  BY LenProperties
<1> QED BY <1>1, <1>2 DEF TextInv, StaysInText

(* Where the next octet ends: at the next separator, or with the text      *)
LEMMA OctetEndIs ==
  ASSUME TextInv, prev_pos + 1 <= Len(text)
  PROVE  /\ octet_end \in prev_pos + 1 .. Len(text)
         /\ \A p \in prev_pos + 1 .. octet_end - 1 : text[p + 1] # Separator
         /\ octet_end < Len(text) => text[octet_end + 1] = Separator
         /\ period_pos = npos <=> octet_end = Len(text)
<1> DEFINE n == Len(text)
           b == prev_pos + 1
           T == {p \in b .. n - 1 : text[p + 1] = Separator}
<1>1. /\ text \in Seq(Characters) /\ n \in Nat /\ b \in Nat /\ b <= n
      /\ \A p \in 0 .. n - 1 : p + 1 \in 1 .. n
  BY LenProperties DEF TextInv
<1>2. period_pos = First(T)
  <2>1. ASSUME NEW p \in b .. n - 1
        PROVE  SubSeq(text, p + 1, p + 1) = <<Separator>> <=> text[p + 1] = Separator
    <3>1. p + 1 \in 1 .. n /\ p + 1 \in Int
      <4> HIDE DEF n, b
      <4> QED BY <1>1
    <3>2. \A x \in p + 1 .. p + 1 : text[x] \in Characters
      BY <1>1, <3>1, ElementOfSeq
    <3>3. /\ SubSeq(text, p + 1, p + 1) \in Seq(Characters)
          /\ Len(SubSeq(text, p + 1, p + 1)) = 1
          /\ SubSeq(text, p + 1, p + 1)[1] = text[p + 1]
      <4> DEFINE m == p + 1
                 u == SubSeq(text, m, m)
      <4>1. m \in Int
        BY <3>1
      <4>2. /\ u \in Seq(Characters)
            /\ Len(u) = IF m <= m THEN m - m + 1 ELSE 0
            /\ \A x \in 1 .. m - m + 1 : u[x] = text[m + x - 1]
        BY <3>2, <4>1, SubSeqProperties
      <4> HIDE DEF u, m
      <4>3. Len(u) = 1 /\ 1 \in 1 .. m - m + 1 /\ m + 1 - 1 = m
        BY <4>1, <4>2
      <4>4. u[1] = text[m]
        BY <4>2, <4>3
      <4> QED BY <4>2, <4>3, <4>4 DEF u, m
    <3> DEFINE u == SubSeq(text, p + 1, p + 1)
               c == text[p + 1]
    <3>4. u = <<c>>
      <4>1. <<c>> \in Seq(Characters) /\ Len(<<c>>) = 1 /\ <<c>>[1] = c
        BY <1>1, <3>1, ElementOfSeq
      <4>2. \A x \in 1 .. 1 : u[x] = <<c>>[x]
        BY <3>3, <4>1
      <4> HIDE DEF u, c
      <4> QED BY <3>3, <4>1, <4>2, SeqEqual DEF u, c
    <3>5. \A x, y : <<x>> = <<y>> <=> x = y
      OBVIOUS
    <3> QED BY <3>4, <3>5
  <2>2. period_pos = First({p \in b .. n - 1 : SubSeq(text, p + 1, p + 1) = <<Separator>>})
    BY DEF period_pos, FindIn
  <2>3. {p \in b .. n - 1 : SubSeq(text, p + 1, p + 1) = <<Separator>>} = T
    BY <2>1
  <2> QED BY <2>2, <2>3
<1>3. T \in SUBSET Nat
  <2> HIDE DEF n, b
  <2> QED BY <1>1
<1>4. \/ period_pos = npos /\ T = {}
      \/ period_pos \in T /\ \A q \in T : period_pos <= q
  <2> HIDE DEF T
  <2> QED BY <1>2, <1>3, FirstIs
<1>5. CASE period_pos = npos /\ T = {}
  <2>1. octet_end = n
    BY <1>5 DEF octet_end
  <2>2. \A p \in b .. n - 1 : text[p + 1] # Separator
    BY <1>5
  <2> HIDE DEF T
  <2> QED BY <1>1, <1>5, <2>1, <2>2
<1>6. CASE period_pos \in T /\ \A q \in T : period_pos <= q
  <2>1. period_pos \in b .. n - 1 /\ text[period_pos + 1] = Separator
    BY <1>6
  <2>2. period_pos # npos
    <3> HIDE DEF b, n
    <3> QED BY <1>1, <2>1 DEF npos
  <2>3. octet_end = period_pos
    BY <2>2 DEF octet_end
  <2>4. ASSUME NEW p \in b .. period_pos - 1 PROVE text[p + 1] # Separator
    <3>1. p \in b .. n - 1 /\ ~(period_pos <= p)
      <4> HIDE DEF b, n, T
      <4> QED BY <1>1, <2>1
    <3>2. p \notin T
      <4> HIDE DEF T
      <4> QED BY <1>6, <3>1
    <3> QED BY <3>1, <3>2
  <2> HIDE DEF b, n, T
  <2>5. period_pos \in b .. n /\ period_pos # n /\ period_pos < n
    BY <1>1, <2>1
  <2> QED BY <2>1, <2>2, <2>3, <2>4, <2>5 DEF b, n
<1> QED BY <1>4, <1>5, <1>6

LEMMA ParserText ==
  ASSUME TextInv, ParserStep
  PROVE  TextInv'
<1>1. seen' = seen /\ text' = text /\ kind' = kind
  BY DEF ParserStep, Next, Reject, ReadOctet, Return
<1>2. CASE Reject \/ Return
  <2>1. i' = i /\ prev_pos' = prev_pos /\ parsing' # "reading"
    BY <1>2 DEF Reject, Return
  <2> QED BY <1>1, <2>1 DEF TextInv, StaysInText
<1>3. CASE ReadOctet
  <2>1. /\ parsing = "reading" /\ i < Octets(kind) /\ ~SeparatorMissing
        /\ prev_pos' = octet_end /\ i' = i + 1
    BY <1>3 DEF ReadOctet, NotAnOctet
  <2>2. /\ Len(text) \in Nat /\ prev_pos \in Int /\ prev_pos + 1 \in Nat
        /\ i \in Nat /\ Octets(kind) \in Nat /\ prev_pos + 1 <= Len(text)
    BY <2>1, LenProperties DEF TextInv, StaysInText, Octets
  <2>3. /\ octet_end \in prev_pos + 1 .. Len(text)
        /\ period_pos = npos <=> octet_end = Len(text)
    BY <2>2, OctetEndIs
  <2>4. i' < Octets(kind') => octet_end + 1 <= Len(text)
    <3>1. CASE period_pos = npos
      BY <1>1, <2>1, <2>2, <3>1 DEF SeparatorMissing
    <3>2. CASE period_pos # npos
      BY <2>2, <2>3, <3>2
    <3> QED BY <3>1, <3>2
  <2>5. octet_end \in Int /\ octet_end >= -1
    BY <2>2, <2>3
  <2> QED BY <1>1, <2>1, <2>2, <2>4, <2>5 DEF TextInv, StaysInText
<1> QED BY <1>2, <1>3 DEF ParserStep, Next

(* What the lookup reads is cut out of what the command prints.            *)
LEMMA OutLineIs ==
  ASSUME command \in Commands
  PROVE  OutLine \in Seq(Characters)
<1> DEFINE o == OutLine
<1>1. BufSize \in Nat /\ command.text \in Seq(Characters)
  BY DefaultInterfaceAssumption
<1>2. /\ Len(command.text) \in Nat
      /\ \A j \in 1 .. Len(command.text) : command.text[j] \in Characters
  BY <1>1, LenProperties, ElementOfSeq
<1>3. o = [j \in 1 .. BufSize |->
             IF j < BufSize /\ j <= Len(command.text) THEN command.text[j] ELSE NUL]
  BY DEF OutLine
<1>4. ASSUME NEW j \in 1 .. BufSize PROVE o[j] \in Characters
  <2>1. j \in Nat /\ j >= 1 /\ NUL \in Characters
    BY <1>1 DEF NUL, Characters
  <2>2. j <= Len(command.text) => command.text[j] \in Characters
    BY <1>2, <2>1
  <2> QED BY <1>3, <2>1, <2>2
<1>5. o \in [1 .. BufSize -> Characters]
  BY <1>3, <1>4
<1> HIDE DEF o
<1>6. o \in Seq(Characters)
  BY <1>1, <1>5, ListIsSeq
<1> QED BY <1>6 DEF o

(* The host prints what it prints: the command of a lookup is a member of  *)
(* Commands, and there is none where the program calls a parser itself.    *)
HostInv == command \in Commands \/ (stage = "parsing" /\ command.system = "none")

LEMMA InitHost == (LookupInit \/ NoLookupInit) => HostInv
BY DEF LookupInit, NoLookupInit, HostInv

LEMMA StepHost == HostInv /\ [LookupNext]_lookupVars => HostInv'
<1> SUFFICES ASSUME HostInv, [LookupNext]_lookupVars
             PROVE  HostInv'
  OBVIOUS
<1>1. command' = command
  BY DEF LookupNext, LookupStep, ReadRoutes, PopenFails, Spawn, ReadFile, Reads, Goes,
         AskAddress, NoAddress, ReadAddressFile, Waits, FindColumns, NoColumn,
         NoDefault, Failure, Allocate, AskSize, AdaptersChange, Fill, FillFails,
         NoAdapter, CopyMAC, ParserStep, lookupVars, hostVars
<1>2. CASE command \in Commands
  BY <1>1, <1>2 DEF HostInv
<1>3. CASE stage = "parsing" /\ command.system = "none"
  <2>1. stage' = "parsing"
    BY <1>3 DEF LookupNext, LookupStep, ReadRoutes, PopenFails, Spawn, ReadFile, Reads, Goes,
         AskAddress, NoAddress, ReadAddressFile, Waits, FindColumns, NoColumn,
         NoDefault, Failure, Allocate, AskSize, AdaptersChange, Fill, FillFails,
         NoAdapter, CopyMAC, ParserStep, lookupVars, HasAddress
  <2> QED BY <1>1, <1>3, <2>1 DEF HostInv
<1> QED BY <1>2, <1>3 DEF HostInv

(* The columns of what has been read of a table                            *)
LEMMA FoundIn ==
  ASSUME NEW s \in Seq(Characters), NEW from \in Nat
  PROVE  /\ FindIn(s, Default, from) + 1 \in Nat
         /\ FindIn(s, <<Blank>>, from) + 1 \in Nat
         /\ FindIn(s, <<Blank>>, from) \in Int
         /\ FindIn(s, <<Blank>>, from) <= Len(s)
         /\ FindNotBlank(s, from) + 1 \in Nat
<1> DEFINE p == FindIn(s, Default, from)
           q == FindIn(s, <<Blank>>, from)
           r == FindNotBlank(s, from)
<1>1. Len(s) \in Nat /\ Len(<<Blank>>) = 1 /\ Len(Default) \in Nat
  BY LenProperties DEF Default
<1>2. p = npos \/ p \in from .. Len(s) - Len(Default)
  BY <1>1, FindInIs
<1>3. q = npos \/ q \in from .. Len(s) - Len(<<Blank>>)
  BY <1>1, FindInIs
<1>4. r = npos \/ r \in Nat
  BY <1>1, FindNotBlankIs
<1> HIDE DEF p, q, r
<1>5. (p = -1 \/ p \in Nat) /\ (q = -1 \/ q \in Nat) /\ q <= Len(s) /\ (r = -1 \/ r \in Nat)
  BY <1>1, <1>2, <1>3, <1>4 DEF npos
<1>6. p + 1 \in Nat /\ q + 1 \in Nat /\ q \in Int /\ q <= Len(s) /\ r + 1 \in Nat
  BY <1>5
<1> QED BY <1>6 DEF p, q, r

LEMMA InterfaceBeginIs ==
  ASSUME seen \in Seq(Characters)
  PROVE  InterfaceBegin = npos \/ InterfaceBegin \in Nat
<1>1. DestEnd + 1 \in Nat
  BY FoundIn DEF DestEnd
<1>2. NetmaskEnd + 1 \in Nat
  BY <1>1, FoundIn DEF NetmaskEnd
<1>3. GatewayEnd + 1 \in Nat
  BY <1>2, FoundIn DEF GatewayEnd
<1> QED BY <1>3, FindNotBlankIs, LenProperties DEF InterfaceBegin

LEMMA StepText == HostInv /\ TextInv /\ [LookupNext]_lookupVars => TextInv'
<1> SUFFICES ASSUME HostInv, TextInv, [LookupNext]_lookupVars
             PROVE  TextInv'
  OBVIOUS
<1>1. ASSUME UNCHANGED addressVars, seen' \in Seq(Characters)
      PROVE  TextInv'
  BY <1>1 DEF addressVars, TextInv, StaysInText
<1>2. CASE ReadRoutes
  <2>1. command \in Commands
    BY <1>2 DEF ReadRoutes, HostInv
  <2>2. seen' \in Seq(Characters)
    BY <1>2, <2>1, OutLineIs, EmptyIs DEF ReadRoutes
  <2> QED BY <1>1, <1>2, <2>2 DEF ReadRoutes, Reads
<1>3. CASE ReadFile
  <2>1. PICK n \in 1 .. ChunkSize :
          n <= Len(command.text) /\ seen' = SubSeq(command.text, 1, n)
    BY <1>3 DEF ReadFile
  <2>2. command \in Commands
    BY <1>3 DEF ReadFile, HostInv
  <2>3. command.text \in Seq(Characters) /\ ChunkSize \in Nat
    BY <2>2, DefaultInterfaceAssumption
  <2>4. n \in 0 .. Len(command.text)
    BY <2>1, <2>3, LenProperties
  <2>5. seen' \in Seq(Characters)
    BY <2>1, <2>3, <2>4, PrefixIs
  <2> QED BY <1>1, <1>3, <2>5 DEF ReadFile, Reads
<1>4. CASE AskAddress
  <2>1. PICK d \in Devices : d.ipv4 # <<>> /\ Parse("IPv4", Written("IPv4", d.ipv4))
    BY <1>4 DEF AskAddress, Named
  <2>2. d.ipv4 \in [1 .. 4 -> UInt8]
    BY <2>1, DefaultInterfaceAssumption
  <2>3. Written("IPv4", d.ipv4) \in Seq(Characters) /\ seen' = seen
    BY <1>4, <2>2, IPv4IsText DEF AskAddress, Waits
  <2> QED BY <2>1, <2>3, ParseText
<1>5. CASE ReadAddressFile
  <2>1. seen' = seen
    BY <1>5 DEF ReadAddressFile, Waits
  <2>2. CASE \E d \in Devices : Parse("MAC", Written("MAC", d.mac))
    <3>1. PICK d \in Devices : Parse("MAC", Written("MAC", d.mac))
      BY <2>2
    <3>2. d.mac \in Seq(UInt8)
      BY DefaultInterfaceAssumption
    <3>3. Written("MAC", d.mac) \in Seq(Characters)
      BY <3>2, MACIsText
    <3> QED BY <2>1, <3>1, <3>3, ParseText
  <2>3. CASE Parse("MAC", <<>>)
    BY <2>1, <2>3, EmptyIs, ParseText
  <2> QED BY <1>5, <2>2, <2>3 DEF ReadAddressFile
<1>6. CASE FindColumns
  <2> DEFINE end == FindIn(seen, <<Blank>>, InterfaceBegin)
  <2>1. seen' = seen /\ InterfaceBegin # npos
        /\ Parse("IPv4", Between(seen, InterfaceBegin, end))
    BY <1>6 DEF FindColumns, Waits
  <2>2. seen \in Seq(Characters) /\ Len(seen) \in Nat
    BY LenProperties DEF TextInv
  <2>3. InterfaceBegin \in Nat
    BY <2>1, <2>2, InterfaceBeginIs
  <2>4. end \in Int /\ end <= Len(seen)
    BY <2>2, <2>3, FoundIn
  <2> HIDE DEF end
  <2>5. Between(seen, InterfaceBegin, end) \in Seq(Characters)
    BY <2>2, <2>3, <2>4, BetweenIs
  <2> QED BY <2>1, <2>5, ParseText
<1>7. CASE ParserStep
  BY <1>7, ParserText
<1>8. CASE \/ PopenFails \/ NoAddress \/ Spawn \/ NoColumn \/ NoDefault \/ Allocate
           \/ AskSize \/ Fill \/ FillFails \/ NoAdapter \/ CopyMAC \/ Failure
           \/ AdaptersChange \/ UNCHANGED lookupVars
  <2>1. UNCHANGED addressVars /\ seen' = seen
    BY <1>8 DEF PopenFails, NoAddress, Spawn, NoColumn, NoDefault, Allocate, AskSize,
                Fill, FillFails, NoAdapter, CopyMAC, Failure, AdaptersChange, Goes, lookupVars
  <2> QED BY <1>1, <2>1 DEF TextInv
<1> QED BY <1>2, <1>3, <1>4, <1>5, <1>6, <1>7, <1>8 DEF LookupNext, LookupStep

(* Whatever text strToIpv4Addr and strToMacAddr are given, by a program or *)
(* by a lookup, they never look for an octet beyond its end: substr does   *)
(* not throw out_of_range.                                                 *)
THEOREM ParsersStayInText == LookupSpec => []StaysInText
<1>1. TextInv => StaysInText
  BY DEF TextInv
<1> QED BY <1>1, InitHost, StepHost, InitText, StepText, PTL DEF LookupSpec

-----------------------------------------------------------------------------
(* Where one octet ends the next boundary is, and there is none between.   *)
Before(b) == {c \in Boundaries : c < b}

LEMMA BoundariesAre ==
  ASSUME text \in Seq(Characters)
  PROVE  /\ Boundaries \subseteq -1 .. Len(text)
         /\ \A b : IsFiniteSet(Before(b)) /\ Cardinality(Before(b)) \in Nat
<1>1. Len(text) \in Nat
  BY LenProperties
<1>2. Boundaries \subseteq -1 .. Len(text)
  BY <1>1 DEF Boundaries
<1>3. IsFiniteSet(-1 .. Len(text))
  BY <1>1, FS_Interval
<1>4. ASSUME NEW b PROVE IsFiniteSet(Before(b)) /\ Cardinality(Before(b)) \in Nat
  <2>1. Before(b) \subseteq -1 .. Len(text)
    BY <1>2 DEF Before
  <2>2. IsFiniteSet(Before(b))
    BY <1>3, <2>1, FS_Subset
  <2> QED BY <2>2, FS_CardinalityType
<1> QED BY <1>2, <1>4

LEMMA OctetEndIsBoundary ==
  ASSUME TextInv, prev_pos + 1 <= Len(text), prev_pos \in Boundaries
  PROVE  /\ octet_end \in Boundaries
         /\ Cardinality(Before(octet_end)) = Cardinality(Before(prev_pos)) + 1
<1> DEFINE e == octet_end
           b == prev_pos
           n == Len(text)
<1>1. /\ text \in Seq(Characters) /\ n \in Nat /\ b \in Int /\ b >= -1 /\ b + 1 <= n
  BY LenProperties DEF TextInv
<1>2. /\ e \in b + 1 .. n
      /\ \A p \in b + 1 .. e - 1 : text[p + 1] # Separator
      /\ e < n => text[e + 1] = Separator
  BY OctetEndIs
<1>3. Boundaries = {-1, n} \cup {p \in 0 .. n - 1 : text[p + 1] = Separator}
  BY DEF Boundaries
<1>4. Boundaries \subseteq -1 .. n
  BY <1>1, BoundariesAre
<1> HIDE DEF e, b, n
<1>5. e \in Int /\ e > b /\ e <= n /\ e >= 0
  BY <1>1, <1>2
<1>6. e \in Boundaries
  <2>1. e = n \/ (e \in 0 .. n - 1 /\ text[e + 1] = Separator)
    BY <1>1, <1>2, <1>5
  <2> QED BY <1>3, <2>1
<1>7. ASSUME NEW c \in Boundaries, c < e PROVE c < b \/ c = b
  <2> SUFFICES ASSUME c > b PROVE FALSE
    BY <1>1, <1>4
  <2>1. c \in Int /\ c # -1 /\ c # n
    BY <1>1, <1>4, <1>5, <1>7
  <2>2. text[c + 1] = Separator
    BY <1>3, <2>1
  <2>3. c \in b + 1 .. e - 1
    BY <1>1, <1>5, <1>7, <2>1
  <2> QED BY <1>2, <2>2, <2>3
<1>8. Before(e) = Before(b) \cup {b}
  <2>1. b \in Boundaries /\ b < e
    BY <1>1, <1>5 DEF b
  <2>2. \A c \in Boundaries : c < b => c < e
    BY <1>1, <1>4, <1>5
  <2> QED BY <1>7, <2>1, <2>2 DEF Before
<1>9. IsFiniteSet(Before(b)) /\ b \notin Before(b)
  <2>1. ~(b < b)
    BY <1>1
  <2>2. b \notin Before(b)
    BY <2>1 DEF Before
  <2> QED BY <1>1, <2>2, BoundariesAre
<1>10. Cardinality(Before(b) \cup {b}) = Cardinality(Before(b)) + 1
  BY <1>9, FS_AddElement
<1>11. Cardinality(Before(e)) = Cardinality(Before(b)) + 1
  BY <1>8, <1>10
<1> QED BY <1>6, <1>11 DEF e, b

LEMMA BoundaryIs ==
  ASSUME text \in Seq(Characters), NEW b \in Boundaries
  PROVE  Boundary(Cardinality(Before(b))) = b
<1> DEFINE j == Cardinality(Before(b))
<1>1. Boundaries \subseteq Int
  BY LenProperties, BoundariesAre
<1>2. ASSUME NEW x \in Boundaries, NEW y \in Boundaries, x < y
      PROVE  Cardinality(Before(x)) # Cardinality(Before(y))
  <2>1. /\ IsFiniteSet(Before(x)) /\ IsFiniteSet(Before(y))
        /\ Cardinality(Before(x)) \in Nat /\ Cardinality(Before(y)) \in Nat
    BY BoundariesAre
  <2>2. x \notin Before(x) /\ Before(x) \cup {x} \subseteq Before(y)
    <3>1. x \in Int /\ y \in Int /\ ~(x < x)
      BY <1>1
    <3>2. \A c \in Boundaries : c < x => c < y
      BY <1>1, <1>2, <3>1
    <3> QED BY <1>2, <3>1, <3>2 DEF Before
  <2>3. Cardinality(Before(x) \cup {x}) = Cardinality(Before(x)) + 1
    BY <2>1, <2>2, FS_AddElement
  <2>4. Cardinality(Before(x) \cup {x}) <= Cardinality(Before(y))
    BY <2>1, <2>2, FS_Subset
  <2> QED BY <2>1, <2>3, <2>4
<1>3. \A x \in Boundaries : Cardinality(Before(x)) = j => x = b
  <2> SUFFICES ASSUME NEW x \in Boundaries, Cardinality(Before(x)) = j, x # b
               PROVE  FALSE
    OBVIOUS
  <2>1. x < b \/ b < x
    BY <1>1
  <2> QED BY <1>2, <2>1
<1>4. Boundary(j) = CHOOSE x \in Boundaries : Cardinality(Before(x)) = j
  BY DEF Boundary, Before
<1> HIDE DEF j
<1>5. Cardinality(Before(b)) = j
  BY DEF j
<1> QED BY <1>3, <1>4, <1>5 DEF j

(* The octet that is read is what stands between two boundaries.           *)
LEMMA OctetIs ==
  ASSUME TextInv, prev_pos + 1 <= Len(text)
  PROVE  /\ octet \in Seq(Characters)
         /\ octet = SubSeq(text, prev_pos + 2, octet_end)
         /\ Len(octet) = octet_end - (prev_pos + 1)
         /\ \A q \in 1 .. Len(octet) : octet[q] = text[(prev_pos + 1) + q]
<1> DEFINE e == octet_end
           b == prev_pos
           n == Len(text)
<1>1. /\ text \in Seq(Characters) /\ n \in Nat /\ b \in Int /\ b >= -1
      /\ \A p \in 1 .. n : text[p] \in Characters
  BY LenProperties, ElementOfSeq DEF TextInv
<1>2. e \in b + 1 .. n
  BY OctetEndIs
<1>3. octet = Between(text, b + 1, e)
  BY DEF octet
<1> HIDE DEF e, b
<1>4. e # npos /\ e \in Int /\ (b + 1) + 1 = b + 2 /\ b + 2 \in Int
  <2> HIDE DEF n
  <2> QED BY <1>1, <1>2 DEF npos
<1>5. octet = SubSeq(text, b + 2, e)
  BY <1>3, <1>4 DEF Between
<1>6. \A p \in b + 2 .. e : text[p] \in Characters
  <2>1. \A p \in b + 2 .. e : p \in 1 .. n
    <3> HIDE DEF n
    <3> QED BY <1>1, <1>2
  <2> QED BY <1>1, <2>1
<1> DEFINE o == SubSeq(text, b + 2, e)
<1>7. /\ o \in Seq(Characters)
      /\ Len(o) = IF b + 2 <= e THEN e - (b + 2) + 1 ELSE 0
      /\ \A q \in 1 .. e - (b + 2) + 1 : o[q] = text[(b + 2) + q - 1]
  BY <1>4, <1>6, SubSeqProperties
<1> HIDE DEF o, n
<1>8. Len(o) = e - (b + 1)
  BY <1>1, <1>2, <1>7
<1>9. ASSUME NEW q \in 1 .. Len(o) PROVE o[q] = text[(b + 1) + q]
  <2>1. q \in 1 .. e - (b + 2) + 1 /\ (b + 2) + q - 1 = (b + 1) + q
    BY <1>1, <1>4, <1>8
  <2> QED BY <1>7, <2>1
<1> QED BY <1>5, <1>7, <1>8, <1>9 DEF o, e, b

Clean == \A j \in DOMAIN text : text[j] < Base(kind) \/ text[j] = Separator

(* Of digits alone, with or without separators, nothing is skipped or      *)
(* narrowed.                                                               *)
LEMMA CleanOctet ==
  ASSUME TextInv, prev_pos + 1 <= Len(text), Clean, ~NotAnOctet
  PROVE  /\ octet_val = Value(octet, Base(kind))
         /\ octet_val \in UInt8
         /\ Narrowed(octet_val) = octet_val
<1> DEFINE base == Base(kind)
           b == prev_pos
           e == octet_end
           l == Len(octet)
<1>1. base \in {10, 16} /\ (kind = "MAC" => base = 16) /\ kind \in {"IPv4", "MAC"}
  BY DEF Base, TextInv
<1>2. /\ octet \in Seq(Characters) /\ l = e - (b + 1) /\ l \in Nat
      /\ \A q \in 1 .. l : octet[q] = text[(b + 1) + q]
  BY OctetIs, LenProperties
<1>3. /\ b \in Int /\ b >= -1 /\ e \in b + 1 .. Len(text) /\ Len(text) \in Nat
      /\ \A p \in b + 1 .. e - 1 : text[p + 1] # Separator
      /\ text \in Seq(Characters) /\ DOMAIN text = 1 .. Len(text)
  BY OctetEndIs, LenProperties DEF TextInv
<1> HIDE DEF base, b, e, l
<1>4. ASSUME NEW q \in 1 .. l PROVE octet[q] \in 0 .. base - 1
  <2> DEFINE p == b + q
  <2>1. p \in b + 1 .. e - 1 /\ p + 1 = (b + 1) + q /\ p + 1 \in 1 .. Len(text)
    BY <1>2, <1>3
  <2> HIDE DEF p
  <2>2. text[p + 1] # Separator /\ octet[q] = text[p + 1]
    BY <1>2, <1>3, <2>1
  <2>3. text[p + 1] < base
    BY <1>3, <2>1, <2>2 DEF Clean, base
  <2>4. text[p + 1] \in Nat
    <3>1. text[p + 1] \in Characters
      BY <1>3, <2>1, ElementOfSeq
    <3> QED BY <3>1, CharacterIs
  <2> QED BY <1>1, <2>2, <2>3, <2>4
<1>5. octet_val = Value(octet, base)
  <2>1. OnlyDigits(octet, base)
    BY <1>4 DEF OnlyDigits, l
  <2> QED BY <1>1, <1>2, <2>1, DigitsAre DEF octet_val, base
<1>6. octet_val \in UInt8
  <2>1. CASE kind = "IPv4"
    BY <2>1 DEF NotAnOctet, OutOfRange
  <2>2. CASE kind = "MAC"
    <3>1. l = 2
      BY <2>2 DEF NotAnOctet, Lengths, l
    <3>2. octet[1] \in 0 .. 15 /\ octet[2] \in 0 .. 15
      <4>1. 1 \in 1 .. l /\ 2 \in 1 .. l
        BY <3>1
      <4>2. base - 1 = 15
        BY <1>1, <2>2
      <4> QED BY <1>4, <4>1, <4>2
    <3>3. Value(octet, 16) = octet[1] * 16 + octet[2]
      <4>1. l \in 1 .. 3 /\ Len(octet) = l /\ \A j \in 1 .. l : octet[j] \in Nat
        <5>1. \A j \in 1 .. l : octet[j] \in Nat
          BY <1>1, <1>4
        <5> QED BY <3>1, <5>1 DEF l
      <4>2. base \in Nat /\ base = 16
        BY <1>1, <2>2
      <4>3. Value(octet, base) = IF l = 1 THEN octet[1]
                                 ELSE IF l = 2 THEN octet[1] * base + octet[2]
                                 ELSE (octet[1] * base + octet[2]) * base + octet[3]
        BY <4>1, <4>2, ValueIs
      <4> QED BY <3>1, <4>2, <4>3
    <3>4. \A x, y \in 0 .. 15 : x * 16 + y \in 0 .. 255
      OBVIOUS
    <3>5. octet[1] * 16 + octet[2] \in 0 .. 255
      BY <3>2, <3>4
    <3>6. octet_val = octet[1] * 16 + octet[2]
      BY <1>1, <1>5, <2>2, <3>3
    <3> QED BY <3>5, <3>6 DEF UInt8
  <2> QED BY <1>1, <2>1, <2>2
<1>7. Narrowed(octet_val) = octet_val
  <2>1. \A x \in 0 .. 255 : x % 256 = x
    OBVIOUS
  <2> QED BY <1>6, <2>1 DEF Narrowed, UInt8
<1> QED BY <1>5, <1>6, <1>7 DEF base

-----------------------------------------------------------------------------
(* The octets that are read are those of the text's first fields.          *)
FieldsRead ==
  /\ prev_pos \in Boundaries
  /\ Cardinality(Before(prev_pos)) = i
  /\ parsing = "returned" => i = Octets(kind)
  /\ Clean => /\ addr \in Seq(UInt8) /\ Len(addr) = i
              /\ \A j \in 1 .. i : addr[j] = FieldValue(j)

Beginning ==
  /\ text \in Seq(Characters) /\ prev_pos = -1 /\ i = 0 /\ addr = <<>>
  /\ parsing \in {"idle", "reading"}

LEMMA BeginningIsRead == Beginning => FieldsRead
<1> SUFFICES ASSUME Beginning PROVE FieldsRead
  OBVIOUS
<1> USE DEF Beginning
<1>1. -1 \in Boundaries
  BY DEF Boundaries
<1>2. Before(-1) = {}
  <2>1. \A c \in Boundaries : ~(c < -1)
    BY LenProperties, BoundariesAre
  <2> QED BY <2>1 DEF Before
<1>3. Cardinality(Before(prev_pos)) = 0
  BY <1>2, FS_EmptySet
<1>4. addr \in Seq(UInt8) /\ Len(addr) = 0
  OBVIOUS
<1> QED BY <1>1, <1>3, <1>4 DEF FieldsRead

LEMMA InitFields == TextInv /\ (LookupInit \/ NoLookupInit) => FieldsRead
<1>1. TextInv /\ (LookupInit \/ NoLookupInit) => Beginning
  BY DEF TextInv, LookupInit, NoLookupInit, Init, npos, Beginning
<1> QED BY <1>1, BeginningIsRead

LEMMA ParseFields ==
  ASSUME TextInv', NEW k, NEW t, Parse(k, t)
  PROVE  FieldsRead'
<1>1. Beginning'
  BY DEF Parse, TextInv, Beginning
<1> QED BY <1>1, BeginningIsRead, PTL

(* A new octet is the field behind the last boundary.                      *)
LEMMA ReadField ==
  ASSUME TextInv, FieldsRead, ReadOctet
  PROVE  FieldsRead'
<1>1. /\ parsing = "reading" /\ i < Octets(kind) /\ ~NotAnOctet
      /\ prev_pos' = octet_end /\ i' = i + 1
      /\ addr' = Append(addr, Narrowed(octet_val))
      /\ text' = text /\ kind' = kind /\ parsing' = "reading"
  BY DEF ReadOctet
<1>2. /\ text \in Seq(Characters) /\ prev_pos + 1 <= Len(text) /\ i \in Nat
  BY <1>1 DEF TextInv, StaysInText
<1>3. prev_pos \in Boundaries /\ Cardinality(Before(prev_pos)) = i
  BY DEF FieldsRead
<1>4. octet_end \in Boundaries /\ Cardinality(Before(octet_end)) = i + 1
  BY <1>2, <1>3, OctetEndIsBoundary
<1>5. Boundary(i) = prev_pos /\ Boundary(i + 1) = octet_end
  BY <1>2, <1>3, <1>4, BoundaryIs
<1>6. /\ Boundaries' = Boundaries
      /\ \A b : Before(b)' = Before(b)
      /\ \A j : FieldValue(j)' = FieldValue(j)
      /\ Clean' <=> Clean
  BY <1>1 DEF Boundaries, Before, Boundary, FieldValue, Clean
<1>7. /\ prev_pos' \in Boundaries'
      /\ Cardinality(Before(prev_pos))' = i'
  <2>1. Before(prev_pos)' = Before(octet_end)
    BY <1>1 DEF Before, Boundaries
  <2> QED BY <1>1, <1>4, <1>6, <2>1
<1>8. ASSUME Clean
      PROVE  /\ addr' \in Seq(UInt8) /\ Len(addr') = i'
             /\ \A j \in 1 .. i' : addr'[j] = FieldValue(j)
  <2>1. /\ octet_val = Value(octet, Base(kind))
        /\ octet_val \in UInt8
        /\ Narrowed(octet_val) = octet_val
    BY <1>1, <1>2, <1>8, CleanOctet
  <2>2. octet_val = FieldValue(i + 1)
    <3>1. (i + 1) - 1 = i
      BY <1>2
    <3>2. octet = SubSeq(text, prev_pos + 2, octet_end)
      BY <1>2, OctetIs
    <3> QED BY <1>5, <2>1, <3>1, <3>2 DEF FieldValue
  <2>3. addr \in Seq(UInt8) /\ Len(addr) = i /\ \A j \in 1 .. i : addr[j] = FieldValue(j)
    BY <1>8 DEF FieldsRead
  <2>4. addr' = Append(addr, octet_val)
    BY <1>1, <2>1
  <2>5. /\ addr' \in Seq(UInt8) /\ Len(addr') = i + 1
        /\ \A j \in 1 .. i : addr'[j] = addr[j]
        /\ addr'[i + 1] = octet_val
    BY <2>1, <2>3, <2>4, AppendProperties
  <2>6. \A j \in 1 .. i + 1 : j \in 1 .. i \/ j = i + 1
    BY <1>2
  <2> QED BY <1>1, <2>2, <2>3, <2>5, <2>6
<1> QED BY <1>1, <1>6, <1>7, <1>8 DEF FieldsRead

(* All that a step does to a parser: nothing, begin, or one of its own     *)
LEMMA ParserMoves ==
  ASSUME [LookupNext]_lookupVars
  PROVE  \/ UNCHANGED addressVars
         \/ \E k, t : Parse(k, t)
         \/ Reject \/ ReadOctet \/ Return
<1>1. CASE AskAddress \/ ReadAddressFile \/ FindColumns
  BY <1>1 DEF AskAddress, ReadAddressFile, FindColumns
<1>2. CASE \/ ReadRoutes \/ ReadFile \/ PopenFails \/ NoAddress \/ Spawn \/ NoColumn
           \/ NoDefault \/ Allocate \/ AskSize \/ Fill \/ FillFails \/ NoAdapter
           \/ CopyMAC \/ Failure \/ AdaptersChange \/ UNCHANGED lookupVars
  BY <1>2 DEF ReadRoutes, ReadFile, Reads, PopenFails, NoAddress, Spawn, NoColumn,
              NoDefault, Allocate, AskSize, Fill, FillFails, NoAdapter, CopyMAC,
              Failure, AdaptersChange, Goes, lookupVars
<1>3. CASE ParserStep
  BY <1>3 DEF ParserStep, Next
<1> QED BY <1>1, <1>2, <1>3 DEF LookupNext, LookupStep

LEMMA StepFields ==
  TextInv /\ TextInv' /\ FieldsRead /\ [LookupNext]_lookupVars => FieldsRead'
<1> SUFFICES ASSUME TextInv, TextInv', FieldsRead, [LookupNext]_lookupVars
             PROVE  FieldsRead'
  OBVIOUS
<1>1. ASSUME UNCHANGED <<text, kind, i, prev_pos, addr>>,
             parsing' = "returned" => i = Octets(kind)
      PROVE  FieldsRead'
  <2>1. /\ Boundaries' = Boundaries /\ Before(prev_pos)' = Before(prev_pos)
        /\ \A j : FieldValue(j)' = FieldValue(j)
        /\ Clean' <=> Clean
    BY <1>1 DEF Boundaries, Before, Boundary, FieldValue, Clean
  <2>2. Cardinality(Before(prev_pos))' = Cardinality(Before(prev_pos))
    BY <2>1
  <2>3. Octets(kind)' = Octets(kind)
    BY <1>1
  <2> QED BY <1>1, <2>1, <2>2, <2>3 DEF FieldsRead
<1>2. CASE ReadOctet
  BY <1>2, ReadField
<1>3. CASE Reject \/ Return
  BY <1>1, <1>3 DEF Reject, Return
<1>4. CASE \E k, t : Parse(k, t)
  BY <1>4, ParseFields
<1>5. CASE UNCHANGED addressVars
  <2>1. parsing' = "returned" => i = Octets(kind)
    BY <1>5 DEF addressVars, FieldsRead
  <2> QED BY <1>1, <1>5, <2>1 DEF addressVars
<1> QED BY <1>2, <1>3, <1>4, <1>5, ParserMoves

(* Of a text of digits and separators alone, strToIpv4Addr and             *)
(* strToMacAddr return the numbers between the separators, none of them    *)
(* narrowed, and they return nothing of a text with too few.               *)
THEOREM DigitsAreTheNumbers == LookupSpec => []DigitsAreTheAddress
<1>1. TextInv /\ FieldsRead => DigitsAreTheAddress
  <2> SUFFICES ASSUME TextInv, FieldsRead, parsing = "returned", Clean
               PROVE  /\ Cardinality(Boundaries) > Octets(kind)
                      /\ \A j \in 1 .. Octets(kind) : addr[j] = FieldValue(j)
    BY DEF DigitsAreTheAddress, Clean
  <2>1. /\ i = Octets(kind) /\ \A j \in 1 .. i : addr[j] = FieldValue(j)
        /\ prev_pos \in Boundaries /\ Cardinality(Before(prev_pos)) = i
        /\ text \in Seq(Characters) /\ Len(text) \in Nat /\ i \in Nat /\ prev_pos \in Int
    BY LenProperties DEF FieldsRead, TextInv
  <2>2. IsFiniteSet(Boundaries) /\ Cardinality(Boundaries) \in Nat
    <3>1. Boundaries \subseteq -1 .. Len(text)
      BY <2>1, BoundariesAre
    <3>2. -1 \in Int /\ Len(text) \in Int
      BY <2>1
    <3>3. IsFiniteSet(-1 .. Len(text))
      BY <3>2, FS_Interval
    <3>4. IsFiniteSet(Boundaries)
      BY <3>1, <3>3, FS_Subset
    <3> QED BY <3>4, FS_CardinalityType
  <2>3. IsFiniteSet(Before(prev_pos))
    BY <2>1, BoundariesAre
  <2>4. /\ prev_pos \notin Before(prev_pos)
        /\ Before(prev_pos) \cup {prev_pos} \subseteq Boundaries
    <3>1. ~(prev_pos < prev_pos)
      BY <2>1
    <3> QED BY <2>1, <3>1 DEF Before
  <2>5. Cardinality(Before(prev_pos) \cup {prev_pos}) = i + 1
    BY <2>1, <2>3, <2>4, FS_AddElement
  <2>6. i + 1 <= Cardinality(Boundaries)
    BY <2>2, <2>4, <2>5, FS_Subset
  <2>7. Cardinality(Boundaries) > i
    BY <2>1, <2>2, <2>6
  <2> QED BY <2>1, <2>7
<1> QED BY <1>1, InitHost, StepHost, InitText, StepText, InitFields, StepFields, PTL
        DEF LookupSpec

-----------------------------------------------------------------------------
(* What is written of an address, by whoever: the parser stands at the end *)
(* of as many octets as it has read, has got the octets that were written, *)
(* and rejects the text only where there were not enough.                  *)
Progress(a) ==
  /\ i <= Len(a) /\ i <= Octets(kind)
  /\ parsing = "returned" => i = Octets(kind)
  /\ parsing = "invalid_argument" => Len(a) < Octets(kind)
  /\ prev_pos = FieldEnd(kind, a, i)
  /\ addr \in Seq(UInt8) /\ Len(addr) = i
  /\ \A j \in 1 .. i : addr[j] = a[j]

WrittenInv ==
  \A a \in Seq(UInt8) : IsAddress(kind, a) /\ text = Written(kind, a) => Progress(a)

ReadingOf(a) ==
  /\ IsAddress(kind, a) /\ text = Written(kind, a) /\ Progress(a)
  /\ i < Octets(kind) /\ prev_pos + 1 <= Len(text)

(* The next octet is what was written of it, up to its separator.          *)
LEMMA WrittenOctet ==
  ASSUME TextInv, NEW a, ReadingOf(a)
  PROVE  /\ i + 1 \in 1 .. Len(a)
         /\ octet_end = FieldEnd(kind, a, i + 1)
         /\ octet = Field(kind, a[i + 1])
         /\ Len(a) >= Octets(kind) => ~SeparatorMissing
<1> DEFINE k == kind
           n == Len(text)
           N == Len(a)
           E(j) == FieldEnd(k, a, j)
           f == Field(k, a[i + 1])
           l == Len(f)
           b == E(i)
           g == E(i + 1)
           e == octet_end
<1>1. /\ k \in {"IPv4", "MAC"} /\ N \in Nat /\ N >= 1 /\ (k = "IPv4" => N <= 4) /\ i \in Nat
      /\ \A j \in 1 .. N : a[j] \in UInt8
  <2>1. IsAddress(kind, a) /\ i \in Nat
    BY DEF ReadingOf, TextInv
  <2>2. k \in {"IPv4", "MAC"} /\ a \in Seq(UInt8) /\ N >= 1 /\ (k = "IPv4" => N = 4)
    BY <2>1 DEF IsAddress
  <2>3. N \in Nat /\ \A j \in 1 .. N : a[j] \in UInt8
    BY <2>2, LenProperties, ElementOfSeq
  <2> HIDE DEF N, k
  <2> QED BY <2>1, <2>2, <2>3
<1>2. /\ \A j \in 0 .. N : E(j) \in Int /\ E(j) >= -1
      /\ \A j \in 1 .. N : E(j) = E(j - 1) + 1 + Len(Field(k, a[j]))
                           /\ Len(Field(k, a[j])) \in 1 .. 3
  BY <1>1, FieldEnds
<1>3. /\ text \in Seq(Characters) /\ n = E(N) /\ n \in Nat
      /\ \A j \in 0 .. N : E(j) <= n
      /\ \A j \in 1 .. N : \A q \in 1 .. Len(Field(k, a[j])) :
           text[E(j - 1) + 1 + q] = Field(k, a[j])[q]
      /\ \A j \in 1 .. N - 1 : text[E(j) + 1] = Separator
  BY WrittenIs, LenProperties DEF ReadingOf, LaidOut
<1>4. prev_pos = b /\ b + 1 <= n
  BY DEF ReadingOf, Progress
<1>5. /\ i < N /\ i + 1 \in 1 .. N /\ (i + 1) - 1 = i /\ i \in 0 .. N /\ i + 1 \in 0 .. N
  <2>1. i <= N
    BY DEF ReadingOf, Progress
  <2>2. i # N
    <3> SUFFICES ASSUME i = N PROVE FALSE
      OBVIOUS
    <3>1. b = n
      BY <1>3
    <3> HIDE DEF b, n
    <3> QED BY <1>3, <1>4, <3>1
  <2> HIDE DEF N
  <2> QED BY <1>1, <2>1, <2>2
<1>6. /\ f \in Seq(Characters) /\ OnlyDigits(f, Base(k))
      /\ \A q \in 1 .. l : f[q] # Separator
  <2>1. a[i + 1] \in UInt8
    BY <1>1, <1>5
  <2>2. f \in Seq(Characters) /\ OnlyDigits(f, Base(k))
    BY <1>1, <2>1, FieldIs
  <2> HIDE DEF f
  <2>3. ASSUME NEW q \in 1 .. l PROVE f[q] # Separator
    <3>1. f[q] \in 0 .. Base(k) - 1
      BY <2>2 DEF OnlyDigits
    <3> QED BY <3>1 DEF Base, Separator
  <2> QED BY <2>2, <2>3
<1>7. /\ g = b + 1 + l /\ l \in 1 .. 3 /\ g <= n
      /\ b \in Int /\ b >= -1 /\ g \in Int /\ n \in Nat
      /\ \A q \in 1 .. l : text[b + 1 + q] = f[q]
  BY <1>2, <1>3, <1>5
<1>8. i + 1 < N => text[g + 1] = Separator /\ g < n
  <2> SUFFICES ASSUME i + 1 < N PROVE text[g + 1] = Separator /\ g < n
    OBVIOUS
  <2>1. i + 1 \in 1 .. N - 1 /\ i + 2 \in 1 .. N /\ i + 2 \in 0 .. N /\ (i + 2) - 1 = i + 1
    <3> HIDE DEF N
    <3> QED BY <1>1
  <2>2. E(i + 2) = E(i + 1) + 1 + Len(Field(k, a[i + 2]))
        /\ Len(Field(k, a[i + 2])) \in 1 .. 3 /\ E(i + 2) <= n
    BY <1>2, <1>3, <2>1
  <2>3. g < n
    <3> HIDE DEF E, n
    <3> QED BY <1>3, <1>7, <2>2 DEF g
  <2> QED BY <1>3, <2>1, <2>3
<1>9. i + 1 = N => g = n
  <2>1. n = E(N)
    BY <1>3
  <2> SUFFICES ASSUME i + 1 = N PROVE E(i + 1) = E(N)
    BY <2>1
  <2> HIDE DEF E, N, n
  <2> QED OBVIOUS
<1> HIDE DEF k, n, N, E, f, l, b, g, e
<1>10. /\ e \in b + 1 .. n
       /\ \A p \in b + 1 .. e - 1 : text[p + 1] # Separator
       /\ e < n => text[e + 1] = Separator
       /\ period_pos = npos <=> e = n
  BY <1>4, OctetEndIs DEF e, n
<1>11. e = g
  <2>1. ASSUME e > g PROVE FALSE
    <3>1. g < n /\ g \in b + 1 .. e - 1
      BY <1>3, <1>7, <1>10, <2>1
    <3>2. i + 1 < N
      BY <1>1, <1>3, <1>5, <1>9, <3>1
    <3> QED BY <1>8, <1>10, <3>1, <3>2
  <2>2. ASSUME e < g PROVE FALSE
    <3>1. e < n /\ e - b \in 1 .. l /\ b + 1 + (e - b) = e + 1
      BY <1>3, <1>7, <1>10, <2>2
    <3>2. text[e + 1] = f[e - b]
      BY <1>7, <3>1
    <3> QED BY <1>6, <1>10, <3>1, <3>2
  <2>3. e \in Int
    BY <1>3, <1>7, <1>10
  <2> QED BY <1>7, <2>1, <2>2, <2>3
<1>12. N >= Octets(k) => ~SeparatorMissing
  <2> SUFFICES ASSUME N >= Octets(k), period_pos = npos, i # Octets(k) - 1 PROVE FALSE
    BY DEF SeparatorMissing, k
  <2>1. i + 1 < N
    <3>1. i < Octets(k) /\ Octets(k) \in Nat
      BY DEF ReadingOf, k, Octets
    <3> QED BY <1>1, <3>1
  <2>2. g = n
    BY <1>10, <1>11
  <2> QED BY <1>3, <1>8, <2>1, <2>2
<1>13. octet = f
  <2>1. /\ octet \in Seq(Characters)
        /\ Len(octet) = e - (b + 1)
        /\ \A q \in 1 .. Len(octet) : octet[q] = text[(b + 1) + q]
    BY <1>4, OctetIs DEF e, n
  <2>2. Len(octet) = l
    BY <1>7, <1>11, <2>1
  <2>3. \A q \in 1 .. Len(octet) : octet[q] = f[q]
    BY <1>7, <2>1, <2>2
  <2> QED BY <1>6, <2>1, <2>2, <2>3, SeqEqual DEF l
<1> QED BY <1>5, <1>11, <1>12, <1>13 DEF N, e, g, E, f, k

LEMMA WrittenIsRead ==
  ASSUME TextInv, NEW a, ReadingOf(a)
  PROVE  /\ Len(a) >= Octets(kind) => ~NotAnOctet
         /\ a[i + 1] \in UInt8 /\ Narrowed(octet_val) = a[i + 1]
<1> DEFINE b == a[i + 1]
           f == Field(kind, b)
<1>1. b \in UInt8 /\ kind \in {"IPv4", "MAC"}
  BY WrittenOctet, ElementOfSeq DEF ReadingOf, IsAddress
<1>2. octet = f /\ (Len(a) >= Octets(kind) => ~SeparatorMissing)
  BY WrittenOctet
<1> HIDE DEF b
<1>3. /\ f \in Seq(Characters) /\ Len(f) \in Lengths(kind)
      /\ OnlyDigits(f, Base(kind)) /\ Value(f, Base(kind)) = b
  BY <1>1, FieldIs
<1> HIDE DEF f
<1>4. Base(kind) \in {10, 16}
  BY DEF Base
<1>5. Digits(octet, Base(kind)) = f /\ octet_val = b
  BY <1>2, <1>3, <1>4, DigitsAre DEF octet_val
<1>6. f # <<>>
  <2>1. 0 \notin Lengths(kind)
    BY DEF Lengths
  <2> QED BY <1>3, <2>1, EmptyIs
<1>7. Len(a) >= Octets(kind) => ~NotAnOctet
  BY <1>1, <1>2, <1>3, <1>5, <1>6 DEF NotAnOctet, OutOfRange
<1>8. Narrowed(octet_val) = b
  <2>1. \A x \in 0 .. 255 : x % 256 = x
    OBVIOUS
  <2> QED BY <1>1, <1>5, <2>1 DEF Narrowed, UInt8
<1> QED BY <1>1, <1>7, <1>8 DEF b

LEMMA BeginningIsWritten == Beginning => WrittenInv
<1> SUFFICES ASSUME Beginning, NEW a \in Seq(UInt8), IsAddress(kind, a)
             PROVE  Progress(a)
  BY DEF WrittenInv
<1>1. Len(a) \in Nat /\ Len(a) >= 1 /\ (kind = "IPv4" => Len(a) <= 4)
      /\ kind \in {"IPv4", "MAC"} /\ \A j \in 1 .. Len(a) : a[j] \in UInt8
  BY LenProperties, ElementOfSeq DEF IsAddress
<1>2. FieldEnd(kind, a, 0) = -1
  BY <1>1, FieldEnds
<1> QED BY <1>1, <1>2 DEF Beginning, Progress, Octets

LEMMA StepWritten ==
  TextInv /\ TextInv' /\ WrittenInv /\ [LookupNext]_lookupVars => WrittenInv'
<1> SUFFICES ASSUME TextInv, TextInv', WrittenInv, [LookupNext]_lookupVars
             PROVE  WrittenInv'
  OBVIOUS
<1>1. CASE \E k, t : Parse(k, t)
  <2>1. Beginning'
    BY <1>1 DEF Parse, TextInv, Beginning
  <2> QED BY <2>1, BeginningIsWritten, PTL
<1>2. CASE UNCHANGED addressVars
  BY <1>2 DEF addressVars, WrittenInv, Progress
<1>3. CASE Reject \/ ReadOctet \/ Return
  <2>1. kind' = kind /\ text' = text
    BY <1>3 DEF Reject, ReadOctet, Return
  <2> SUFFICES ASSUME NEW a \in Seq(UInt8), IsAddress(kind, a), text = Written(kind, a)
               PROVE  Progress(a)'
    BY <2>1 DEF WrittenInv
  <2>2. Progress(a)
    BY DEF WrittenInv
  <2>3. CASE Return
    BY <2>2, <2>3 DEF Return, Progress
  <2>4. CASE Reject
    <3>1. ReadingOf(a) /\ NotAnOctet
      BY <2>2, <2>4 DEF Reject, ReadingOf, TextInv, StaysInText
    <3>2. Len(a) < Octets(kind)
      <4>1. ~(Len(a) >= Octets(kind)) /\ Len(a) \in Nat /\ Octets(kind) \in Nat
        BY <3>1, WrittenIsRead, LenProperties DEF Octets
      <4> QED BY <4>1
    <3> QED BY <2>2, <2>4, <3>2 DEF Reject, Progress
  <2>5. CASE ReadOctet
    <3>1. /\ parsing = "reading" /\ i < Octets(kind) /\ parsing' = parsing
          /\ prev_pos' = octet_end /\ i' = i + 1
          /\ addr' = Append(addr, Narrowed(octet_val))
      BY <2>5 DEF ReadOctet
    <3>2. ReadingOf(a)
      BY <2>2, <3>1 DEF ReadingOf, TextInv, StaysInText
    <3>3. /\ i + 1 \in 1 .. Len(a) /\ octet_end = FieldEnd(kind, a, i + 1)
          /\ a[i + 1] \in UInt8 /\ Narrowed(octet_val) = a[i + 1]
      BY <3>2, WrittenOctet, WrittenIsRead
    <3>4. /\ i \in Nat /\ Octets(kind) \in Nat /\ Len(a) \in Nat
          /\ \A j \in 1 .. i + 1 : j \in 1 .. i \/ j = i + 1
      BY LenProperties DEF TextInv, Octets
    <3>5. /\ addr' \in Seq(UInt8) /\ Len(addr') = i + 1
          /\ \A j \in 1 .. i : addr'[j] = a[j]
          /\ addr'[i + 1] = a[i + 1]
      BY <2>2, <3>1, <3>3, AppendProperties DEF Progress
    <3>6. \A j \in 1 .. i + 1 : addr'[j] = a[j]
      BY <3>4, <3>5
    <3>7. i + 1 <= Len(a) /\ i + 1 <= Octets(kind)
      BY <3>1, <3>3, <3>4
    <3> QED BY <2>1, <3>1, <3>3, <3>5, <3>6, <3>7 DEF Progress
  <2> QED BY <1>3, <2>3, <2>4, <2>5
<1> QED BY <1>1, <1>2, <1>3, ParserMoves

(* What a parser has returned of a text is the address that was written.   *)
LEMMA ReturnedIs ==
  ASSUME NEW a, IsAddress(kind, a), text = Written(kind, a), WrittenInv,
         parsing = "returned"
  PROVE  /\ Len(a) >= Octets(kind)
         /\ addr \in Seq(UInt8) /\ Len(addr) = Octets(kind)
         /\ \A j \in 1 .. Octets(kind) : addr[j] = a[j]
<1>1. Progress(a)
  BY DEF WrittenInv, IsAddress
<1>2. Len(a) \in Nat /\ Octets(kind) \in Nat
  BY LenProperties DEF IsAddress, Octets
<1> QED BY <1>1, <1>2 DEF Progress

-----------------------------------------------------------------------------
(* The texts that a printer of the library has printed                     *)
PrintedInv ==
  printed # <<>> =>
    /\ stage = "parsing" /\ command.system = "none"
    /\ kind \in {"IPv4", "MAC"} /\ printed \in [1 .. Octets(kind) -> UInt8]
    /\ text = Written(kind, printed)

LEMMA InitPrinted == LookupInit \/ NoLookupInit => PrintedInv
<1> SUFFICES ASSUME LookupInit \/ NoLookupInit, printed # <<>> PROVE PrintedInv
  BY DEF PrintedInv
<1>1. command.system = "none" /\ stage = "parsing"
  BY DEF LookupInit, NoLookupInit, Init
<1>2. PICK p \in Printable :
        kind = p.kind /\ printed = p.addr /\ text = Written(p.kind, p.addr)
  BY DEF LookupInit, NoLookupInit, Init
<1> QED BY <1>1, <1>2, AddressesAssumption DEF PrintedInv

LEMMA StepPrinted == PrintedInv /\ [LookupNext]_lookupVars => PrintedInv'
<1> SUFFICES ASSUME PrintedInv, [LookupNext]_lookupVars, printed' # <<>>
             PROVE  PrintedInv'
  BY DEF PrintedInv
<1>1. printed' = printed
  BY ParserMoves DEF Parse, addressVars, Reject, ReadOctet, Return
<1>2. ParserStep \/ UNCHANGED lookupVars
  <2>1. stage = "parsing" /\ command.system = "none"
    BY <1>1 DEF PrintedInv
  <2> QED BY <2>1 DEF LookupNext, LookupStep, ReadRoutes, PopenFails, Spawn, ReadFile,
         AskAddress, NoAddress, ReadAddressFile, FindColumns, NoColumn,
         NoDefault, Failure, Allocate, AskSize, AdaptersChange, Fill, FillFails,
         NoAdapter, CopyMAC, HasAddress
<1>3. UNCHANGED <<stage, command, kind, text>>
  BY <1>2 DEF ParserStep, Next, Reject, ReadOctet, Return, lookupVars, hostVars, addressVars
<1> QED BY <1>1, <1>3 DEF PrintedInv

LEMMA InitWritten == TextInv /\ (LookupInit \/ NoLookupInit) => WrittenInv
<1>1. TextInv /\ (LookupInit \/ NoLookupInit) => Beginning
  BY DEF TextInv, LookupInit, NoLookupInit, Init, npos, Beginning
<1> QED BY <1>1, BeginningIsWritten

(* Whatever ipv4AddrToStr or macAddrToStr prints, strToIpv4Addr or         *)
(* strToMacAddr reads back, for each of the 2^32 and of the 2^48 addresses.*)
THEOREM PrintedComesBack == LookupSpec => []PrintedReadsBack
<1>1. PrintedInv /\ WrittenInv => PrintedReadsBack
  <2> SUFFICES ASSUME PrintedInv, WrittenInv, printed # <<>>
               PROVE  /\ parsing # "invalid_argument"
                      /\ parsing = "returned" => addr = printed
    BY DEF PrintedReadsBack
  <2>1. /\ kind \in {"IPv4", "MAC"} /\ text = Written(kind, printed)
        /\ IsAddress(kind, printed) /\ Len(printed) = Octets(kind)
    BY OctetsMakeAddress DEF PrintedInv
  <2>2. ASSUME parsing = "returned" PROVE addr = printed
    <3>1. /\ addr \in Seq(UInt8) /\ Len(addr) = Len(printed)
          /\ \A j \in 1 .. Len(printed) : addr[j] = printed[j]
      BY <2>1, <2>2, ReturnedIs
    <3>2. printed \in Seq(UInt8)
      BY <2>1 DEF IsAddress
    <3> QED BY <3>1, <3>2, SeqEqual
  <2>3. parsing # "invalid_argument"
    <3>1. Progress(printed) /\ Octets(kind) \in Nat
      BY <2>1 DEF WrittenInv, IsAddress, Octets
    <3> QED BY <2>1, <3>1 DEF Progress
  <2> QED BY <2>2, <2>3
<1> QED BY <1>1, InitHost, StepHost, InitText, StepText, InitPrinted, StepPrinted,
           InitWritten, StepWritten, PTL
        DEF LookupSpec

-----------------------------------------------------------------------------
(* What a parser can have read at all: the first octet is a number, and    *)
(* none that it has read is empty.                                         *)
ReadInv ==
  /\ i = 0 => prev_pos = -1
  /\ i > 0 => text[1] \in 0 .. Base(kind) - 1 \cup {Blank, Plus, Minus}
  /\ \A y \in Boundaries : 0 <= y /\ y <= prev_pos => y - 1 \notin Boundaries

LEMMA BeginningHasRead == Beginning => ReadInv
<1> SUFFICES ASSUME Beginning PROVE ReadInv
  OBVIOUS
<1>1. i = 0 /\ prev_pos = -1 /\ text \in Seq(Characters)
  BY DEF Beginning
<1>2. Boundaries \subseteq Int
  BY <1>1, BoundariesAre, LenProperties
<1> QED BY <1>1, <1>2 DEF ReadInv

LEMMA OctetHasRead ==
  ASSUME TextInv, ReadInv, ReadOctet
  PROVE  ReadInv'
<1> DEFINE n == Len(text)
           b == prev_pos
           e == octet_end
           o == octet
<1>1. /\ parsing = "reading" /\ i < Octets(kind) /\ ~NotAnOctet
      /\ prev_pos' = e /\ i' = i + 1 /\ text' = text /\ kind' = kind
  BY DEF ReadOctet
<1>2. /\ text \in Seq(Characters) /\ n \in Nat /\ b \in Int /\ b >= -1 /\ b + 1 <= n
      /\ i \in Nat
  BY <1>1, LenProperties DEF TextInv, StaysInText
<1>3. /\ e \in b + 1 .. n
      /\ \A p \in b + 1 .. e - 1 : text[p + 1] # Separator
  BY <1>2, OctetEndIs
<1>4. /\ o \in Seq(Characters) /\ Len(o) = e - (b + 1)
      /\ \A q \in 1 .. Len(o) : o[q] = text[(b + 1) + q]
  BY <1>2, OctetIs
<1>5. Len(o) >= 1 /\ Digits(o, Base(kind)) # <<>>
  <2>1. Len(o) \in Lengths(kind) /\ Digits(o, Base(kind)) # <<>>
    BY <1>1 DEF NotAnOctet
  <2>2. \A l \in Lengths(kind) : l >= 1
    BY DEF Lengths
  <2> QED BY <2>1, <2>2
<1>6. Boundaries' = Boundaries /\ Boundaries = {-1, n} \cup {p \in 0 .. n - 1 : text[p + 1] = Separator}
  BY <1>1 DEF Boundaries
<1> HIDE DEF n, b, e, o
<1>7. e \in Int /\ e >= b + 2 /\ e <= n
  BY <1>2, <1>3, <1>4, <1>5
<1>8. ASSUME NEW p \in b + 1 .. e - 1 PROVE p \notin Boundaries
  BY <1>2, <1>3, <1>6, <1>7
<1>9. ASSUME NEW y \in Boundaries, 0 <= y, y <= e PROVE y - 1 \notin Boundaries
  <2>1. y \in Int
    BY <1>2, <1>6
  <2>2. CASE y <= b
    BY <1>9, <2>2 DEF ReadInv, b
  <2>3. CASE y > b
    <3>1. y = e
      BY <1>2, <1>7, <1>8, <1>9, <2>1, <2>3
    <3>2. y - 1 \in b + 1 .. e - 1
      BY <1>2, <1>7, <3>1
    <3> QED BY <1>8, <3>2
  <2> QED BY <1>2, <2>1, <2>2, <2>3
<1>10. text[1] \in 0 .. Base(kind) - 1 \cup {Blank, Plus, Minus}
  <2>1. CASE i > 0
    BY <2>1 DEF ReadInv
  <2>2. CASE i = 0
    <3>1. b = -1
      BY <2>2 DEF ReadInv, b
    <3>2. 1 \in 1 .. Len(o) /\ (b + 1) + 1 = 1 /\ o # <<>>
      BY <1>4, <1>5, <1>7, <1>2, <3>1
    <3>3. o[1] = text[1]
      BY <1>4, <3>2
    <3> QED BY <1>4, <1>5, <3>2, <3>3, NoDigits
  <2> QED BY <1>2, <2>1, <2>2
<1>11. i' # 0 /\ prev_pos' = e /\ Base(kind)' = Base(kind)
  BY <1>1, <1>2
<1> QED BY <1>1, <1>6, <1>9, <1>10, <1>11 DEF ReadInv

LEMMA InitRead == TextInv /\ (LookupInit \/ NoLookupInit) => ReadInv
<1>1. TextInv /\ (LookupInit \/ NoLookupInit) => Beginning
  BY DEF TextInv, LookupInit, NoLookupInit, Init, npos, Beginning
<1> QED BY <1>1, BeginningHasRead

LEMMA StepRead == TextInv /\ TextInv' /\ ReadInv /\ [LookupNext]_lookupVars => ReadInv'
<1> SUFFICES ASSUME TextInv, TextInv', ReadInv, [LookupNext]_lookupVars
             PROVE  ReadInv'
  OBVIOUS
<1>1. CASE \E k, t : Parse(k, t)
  <2>1. Beginning'
    BY <1>1 DEF Parse, TextInv, Beginning
  <2> QED BY <2>1, BeginningHasRead, PTL
<1>2. CASE UNCHANGED addressVars \/ Reject \/ Return
  <2>1. UNCHANGED <<kind, text, i, prev_pos>>
    BY <1>2 DEF addressVars, Reject, Return
  <2>2. Boundaries' = Boundaries
    BY <2>1 DEF Boundaries
  <2> QED BY <2>1, <2>2 DEF ReadInv
<1>3. CASE ReadOctet
  BY <1>3, OctetHasRead
<1> QED BY <1>1, <1>2, <1>3, ParserMoves

(* So no IPv4 address is returned of a text that has fewer than four       *)
(* fields, or an empty one among them: of one whose boundaries, up to the  *)
(* last or up to two that have no field between them, are three.           *)
LEMMA FieldsAreFour ==
  ASSUME TextInv, FieldsRead, ReadInv, kind = "IPv4", parsing = "returned",
         NEW u, NEW v, NEW w
  PROVE  /\ \E c \in Boundaries : c < prev_pos /\ c \notin {u, v, w}
         /\ prev_pos \in Boundaries /\ prev_pos \in Int /\ prev_pos <= Len(text)
         /\ text[1] \in 0 .. 9 \cup {Blank, Plus, Minus}
<1> DEFINE B == Before(prev_pos)
<1>1. /\ i = 4 /\ Cardinality(B) = 4 /\ prev_pos \in Boundaries
      /\ text \in Seq(Characters) /\ prev_pos \in Int
  BY DEF FieldsRead, TextInv, Octets
<1>2. ASSUME B \subseteq {u, v, w} PROVE FALSE
  <2>1. IsFiniteSet({u}) /\ Cardinality({u}) = 1
    BY FS_Singleton
  <2>2. IsFiniteSet({u} \cup {v}) /\ Cardinality({u} \cup {v}) \in {1, 2}
    BY <2>1, FS_AddElement
  <2>3. IsFiniteSet(({u} \cup {v}) \cup {w}) /\ Cardinality(({u} \cup {v}) \cup {w}) \in {1, 2, 3}
    <3> DEFINE T == {u} \cup {v}
    <3>1. IsFiniteSet(T) /\ Cardinality(T) \in {1, 2}
      BY <2>2
    <3> HIDE DEF T
    <3>2. /\ IsFiniteSet(T \cup {w})
          /\ Cardinality(T \cup {w}) = IF w \in T THEN Cardinality(T) ELSE Cardinality(T) + 1
      BY <3>1, FS_AddElement
    <3>3. IsFiniteSet(T \cup {w}) /\ Cardinality(T \cup {w}) \in {1, 2, 3}
      BY <3>1, <3>2
    <3> QED BY <3>3 DEF T
  <2>4. ({u} \cup {v}) \cup {w} = {u, v, w}
    OBVIOUS
  <2>5. IsFiniteSet({u, v, w}) /\ Cardinality({u, v, w}) \in {1, 2, 3}
    BY <2>3, <2>4
  <2>6. Cardinality(B) <= Cardinality({u, v, w})
    BY <1>2, <2>5, FS_Subset
  <2> HIDE DEF B
  <2> QED BY <1>1, <2>5, <2>6
<1>3. \E c \in B : c \notin {u, v, w}
  BY <1>2
<1>4. prev_pos <= Len(text)
  <2>1. prev_pos \in -1 .. Len(text)
    BY <1>1, BoundariesAre
  <2> QED BY <1>1, <2>1, LenProperties
<1>5. text[1] \in 0 .. 9 \cup {Blank, Plus, Minus}
  BY <1>1 DEF ReadInv, Base
<1> QED BY <1>1, <1>3, <1>4, <1>5 DEF Before

-----------------------------------------------------------------------------
(* A part of a sequence                                                    *)
LEMMA PartIs ==
  ASSUME NEW S, NEW w \in Seq(S), NEW x \in Int, NEW y \in Int,
         x >= 1, y <= Len(w), x <= y + 1
  PROVE  /\ SubSeq(w, x, y) \in Seq(S) /\ Len(SubSeq(w, x, y)) = y - x + 1
         /\ \A j \in 1 .. y - x + 1 : SubSeq(w, x, y)[j] = w[x + j - 1]
<1>1. Len(w) \in Nat /\ \A j \in 1 .. Len(w) : w[j] \in S
  BY LenProperties, ElementOfSeq
<1>2. \A j \in x .. y : w[j] \in S
  <2>1. \A j \in x .. y : j \in 1 .. Len(w)
    BY <1>1
  <2> QED BY <1>1, <2>1
<1> DEFINE u == SubSeq(w, x, y)
<1>3. /\ u \in Seq(S) /\ Len(u) = IF x <= y THEN y - x + 1 ELSE 0
      /\ \A j \in 1 .. y - x + 1 : u[j] = w[x + j - 1]
  BY <1>2, SubSeqProperties
<1> HIDE DEF u
<1>4. Len(u) = y - x + 1
  BY <1>3
<1> QED BY <1>3, <1>4 DEF u

(* A part of a sequence's beginning is a part of the sequence.             *)
LEMMA PartOfPrefix ==
  ASSUME NEW S, NEW w \in Seq(S), NEW m \in 0 .. Len(w),
         NEW x \in Int, NEW y \in Int, x >= 1, y <= m, x <= y + 1
  PROVE  SubSeq(SubSeq(w, 1, m), x, y) = SubSeq(w, x, y)
<1> DEFINE t == SubSeq(w, 1, m)
           n == y - x + 1
           u == SubSeq(t, x, y)
           v == SubSeq(w, x, y)
<1>1. t \in Seq(S) /\ Len(t) = m /\ \A j \in 1 .. m : t[j] = w[j]
  BY PrefixIs
<1>2. Len(w) \in Nat /\ m \in Nat /\ y <= Len(w)
  BY LenProperties
<1>3. v \in Seq(S) /\ Len(v) = n /\ \A j \in 1 .. n : v[j] = w[x + j - 1]
  BY <1>2, PartIs
<1> HIDE DEF t
<1>4. u \in Seq(S) /\ Len(u) = n /\ \A j \in 1 .. n : u[j] = t[x + j - 1]
  BY <1>1, PartIs
<1>5. n \in Int /\ \A j \in 1 .. n : x + j - 1 \in 1 .. m
  BY <1>2
<1> HIDE DEF n, u, v
<1>6. \A j \in 1 .. n : u[j] = v[j]
  BY <1>1, <1>3, <1>4, <1>5
<1>7. u = v
  BY <1>3, <1>4, <1>6, SeqEqual
<1> QED BY <1>7 DEF u, v, t

(* A sequence's beginning, around one of its members                       *)
LEMMA SplitAt ==
  ASSUME NEW S, NEW w \in Seq(S), NEW m \in 1 .. Len(w), NEW p \in 1 .. m
  PROVE  SubSeq(w, 1, m) = SubSeq(w, 1, p - 1) \o <<w[p]>> \o SubSeq(w, p + 1, m)
<1> DEFINE x == SubSeq(w, 1, p - 1)
           y == SubSeq(w, p + 1, m)
           z == <<w[p]>>
           xz == x \o z
           v == xz \o y
           u == SubSeq(w, 1, m)
<1>1. Len(w) \in Nat /\ m \in Nat /\ p \in Nat /\ p >= 1 /\ p <= m /\ m <= Len(w)
      /\ p \in 1 .. Len(w) /\ m \in 0 .. Len(w) /\ p - 1 \in 0 .. Len(w)
  BY LenProperties
<1>2. x \in Seq(S) /\ Len(x) = p - 1 /\ \A j \in 1 .. p - 1 : x[j] = w[j]
  BY <1>1, PrefixIs
<1>3. /\ y \in Seq(S) /\ Len(y) = m - p
      /\ \A j \in 1 .. m - p : y[j] = w[p + j]
  <2>1. p + 1 \in Int /\ p + 1 >= 1 /\ m \in Int /\ m <= Len(w) /\ p + 1 <= m + 1
        /\ m - (p + 1) + 1 = m - p /\ \A j \in 1 .. m - p : (p + 1) + j - 1 = p + j
    BY <1>1
  <2>2. /\ y \in Seq(S) /\ Len(y) = m - (p + 1) + 1
        /\ \A j \in 1 .. m - (p + 1) + 1 : y[j] = w[(p + 1) + j - 1]
    BY <2>1, PartIs
  <2> HIDE DEF y
  <2> QED BY <2>1, <2>2
<1>4. z \in Seq(S) /\ Len(z) = 1 /\ z[1] = w[p]
  BY <1>1, ElementOfSeq
<1>5. u \in Seq(S) /\ Len(u) = m /\ \A j \in 1 .. m : u[j] = w[j]
  BY <1>1, PrefixIs
<1> HIDE DEF x, y, z, u
<1>6. /\ xz \in Seq(S) /\ Len(xz) = Len(x) + Len(z)
      /\ \A j \in 1 .. Len(x) : xz[j] = x[j]
      /\ \A j \in 1 .. Len(z) : xz[Len(x) + j] = z[j]
  <2>1. x \in Seq(S) /\ z \in Seq(S)
    BY <1>2, <1>4
  <2>2. /\ x \o z \in Seq(S) /\ Len(x \o z) = Len(x) + Len(z)
        /\ \A j \in 1 .. Len(x) : (x \o z)[j] = x[j]
        /\ \A j \in 1 .. Len(z) : (x \o z)[Len(x) + j] = z[j]
    BY <2>1, Joined
  <2>3. xz = x \o z
    OBVIOUS
  <2> HIDE DEF xz
  <2> QED BY <2>2, <2>3
<1>7. Len(xz) = p /\ \A j \in 1 .. p : xz[j] = w[j]
  <2>1. Len(xz) = p
    BY <1>1, <1>2, <1>4, <1>6
  <2>2. xz[p] = w[p]
    <3>1. 1 \in 1 .. Len(z) /\ Len(x) + 1 = p
      BY <1>1, <1>2, <1>4
    <3> QED BY <1>4, <1>6, <3>1
  <2>3. \A j \in 1 .. p : j = p \/ j \in 1 .. p - 1
    BY <1>1
  <2> QED BY <1>2, <1>6, <2>1, <2>2, <2>3
<1> HIDE DEF xz
<1>8. /\ v \in Seq(S) /\ Len(v) = Len(xz) + Len(y)
      /\ \A j \in 1 .. Len(xz) : v[j] = xz[j]
      /\ \A j \in 1 .. Len(y) : v[Len(xz) + j] = y[j]
  BY <1>3, <1>6, Joined, SMTT(20)
<1> HIDE DEF v
<1>9. Len(v) = m
  BY <1>1, <1>3, <1>7, <1>8
<1>10. ASSUME NEW j \in 1 .. m PROVE v[j] = w[j]
  <2>1. CASE j <= p
    <3>1. j \in 1 .. p
      BY <1>1, <2>1
    <3> QED BY <1>7, <1>8, <3>1
  <2>2. CASE j > p
    <3>1. j - p \in 1 .. m - p /\ p + (j - p) = j
      BY <1>1, <2>2
    <3>2. v[p + (j - p)] = y[j - p] /\ y[j - p] = w[p + (j - p)]
      BY <1>3, <1>7, <1>8, <3>1
    <3> QED BY <3>1, <3>2
  <2> QED BY <1>1, <2>1, <2>2
<1>11. u = v
  BY <1>5, <1>8, <1>9, <1>10, SeqEqual
<1> QED BY <1>11 DEF u, v, xz, x, y, z

-----------------------------------------------------------------------------
(* Where the separators of a dotted text are, and the numbers before,      *)
(* between and behind them                                                 *)
Dots(w, p, q, r, b) ==
  /\ p \in Int /\ q \in Int /\ r \in Int
  /\ 1 < p /\ p + 1 < q /\ q + 1 < r /\ r < Len(w)
  /\ w[p] = Separator /\ w[q] = Separator /\ w[r] = Separator
  /\ \A j \in 1 .. Len(w) : w[j] = Separator => j \in {p, q, r}
  /\ b \in [1 .. 4 -> UInt8]
  /\ SubSeq(w, 1, p - 1) = Decimal(b[1]) /\ SubSeq(w, p + 1, q - 1) = Decimal(b[2])
  /\ SubSeq(w, q + 1, r - 1) = Decimal(b[3]) /\ SubSeq(w, r + 1, Len(w)) = Decimal(b[4])

LEMMA NumberPart ==
  ASSUME NEW w \in Seq(Characters), NEW x \in Int, NEW y \in Int, x >= 1, y <= Len(w),
         NEW b \in UInt8, SubSeq(w, x, y) = Decimal(b)
  PROVE  x <= y /\ \A j \in x .. y : w[j] # Separator
<1> DEFINE d == SubSeq(w, x, y)
<1>1. d \in Seq(Characters) /\ Len(d) \in 1 .. 3 /\ OnlyDigits(d, 10)
  <2>1. Field("IPv4", b) = Decimal(b) /\ Lengths("IPv4") = 1 .. 3 /\ Base("IPv4") = 10
    BY DEF Field, Lengths, Base
  <2> QED BY <2>1, FieldIs
<1>2. x <= y
  <2> SUFFICES ASSUME y < x PROVE FALSE
    OBVIOUS
  <2>1. d = <<>>
    BY SubSeqEmpty
  <2> HIDE DEF d
  <2>2. Len(d) = 0
    BY <2>1, EmptyIs
  <2> QED BY <1>1, <2>2
<1>3. Len(d) = y - x + 1 /\ \A j \in 1 .. y - x + 1 : d[j] = w[x + j - 1]
  BY <1>2, PartIs
<1> HIDE DEF d
<1>4. ASSUME NEW j \in x .. y PROVE w[j] # Separator
  <2>1. j - x + 1 \in 1 .. y - x + 1 /\ x + (j - x + 1) - 1 = j
    OBVIOUS
  <2>2. w[j] \in 0 .. 10 - 1
    BY <1>1, <1>3, <2>1 DEF OnlyDigits
  <2> QED BY <2>2 DEF Separator
<1> QED BY <1>2, <1>4

LEMMA DottedHasDots ==
  ASSUME NEW w \in Seq(Characters), Dotted(w)
  PROVE  \E p, q, r, b : Dots(w, p, q, r, b)
<1> DEFINE n == Len(w)
           D == {Decimal(x) : x \in UInt8}
<1>1. n \in Nat /\ DOMAIN w = 1 .. n
  BY LenProperties
<1>2. PICK p \in DOMAIN w, q \in DOMAIN w, r \in DOMAIN w :
        /\ w[p] = Separator /\ w[q] = Separator /\ w[r] = Separator
        /\ {SubSeq(w, 1, p - 1), SubSeq(w, p + 1, q - 1), SubSeq(w, q + 1, r - 1),
            SubSeq(w, r + 1, n)} \subseteq D
  BY DEF Dotted
<1>3. PICK b1 \in UInt8 : SubSeq(w, 1, p - 1) = Decimal(b1)
  BY <1>2
<1>4. PICK b2 \in UInt8 : SubSeq(w, p + 1, q - 1) = Decimal(b2)
  BY <1>2
<1>5. PICK b3 \in UInt8 : SubSeq(w, q + 1, r - 1) = Decimal(b3)
  BY <1>2
<1>6. PICK b4 \in UInt8 : SubSeq(w, r + 1, n) = Decimal(b4)
  BY <1>2
<1> HIDE DEF D
<1> DEFINE b == [j \in 1 .. 4 |-> IF j = 1 THEN b1 ELSE IF j = 2 THEN b2
                                  ELSE IF j = 3 THEN b3 ELSE b4]
<1>7. b \in [1 .. 4 -> UInt8] /\ b[1] = b1 /\ b[2] = b2 /\ b[3] = b3 /\ b[4] = b4
  OBVIOUS
<1> HIDE DEF b, n
<1>8. /\ p \in Int /\ q \in Int /\ r \in Int /\ 1 \in Int /\ n \in Int
      /\ p - 1 \in Int /\ p - 1 <= n /\ p + 1 \in Int /\ p + 1 >= 1
      /\ q - 1 \in Int /\ q - 1 <= n /\ q + 1 \in Int /\ q + 1 >= 1
      /\ r - 1 \in Int /\ r - 1 <= n /\ r + 1 \in Int /\ r + 1 >= 1 /\ 1 >= 1 /\ n <= n
  BY <1>1
<1>9. 1 <= p - 1 /\ \A j \in 1 .. p - 1 : w[j] # Separator
  BY <1>3, <1>8, NumberPart DEF n
<1>10. p + 1 <= q - 1 /\ \A j \in p + 1 .. q - 1 : w[j] # Separator
  BY <1>4, <1>8, NumberPart DEF n
<1>11. q + 1 <= r - 1 /\ \A j \in q + 1 .. r - 1 : w[j] # Separator
  BY <1>5, <1>8, NumberPart DEF n
<1>12. r + 1 <= n /\ \A j \in r + 1 .. n : w[j] # Separator
  BY <1>6, <1>8, NumberPart DEF n
<1>13. ASSUME NEW j \in 1 .. n, w[j] = Separator PROVE j \in {p, q, r}
  <2>1. /\ j \notin 1 .. p - 1 /\ j \notin p + 1 .. q - 1
        /\ j \notin q + 1 .. r - 1 /\ j \notin r + 1 .. n
    BY <1>9, <1>10, <1>11, <1>12, <1>13
  <2> QED BY <1>1, <1>8, <2>1, SMTT(20)
<1>14. 1 < p /\ p + 1 < q /\ q + 1 < r /\ r < n
  <2>1. 1 <= p - 1 /\ p + 1 <= q - 1 /\ q + 1 <= r - 1 /\ r + 1 <= n
    BY <1>9, <1>10, <1>11, <1>12
  <2>2. p \in Int /\ q \in Int /\ r \in Int /\ n \in Int
    BY <1>8
  <2> QED BY <2>1, <2>2, SMTT(20)
<1> QED BY <1>2, <1>3, <1>4, <1>5, <1>6, <1>7, <1>8, <1>13, <1>14 DEF Dots, n

(* A dotted text is what inet_ntoa, or ipv4AddrToStr, writes of some       *)
(* address.                                                                *)
LEMMA DottedIsWritten ==
  ASSUME NEW w \in Seq(Characters), Dotted(w)
  PROVE  \E a \in [1 .. 4 -> UInt8] : w = Written("IPv4", a)
<1> DEFINE n == Len(w)
<1>1. PICK p, q, r, b : Dots(w, p, q, r, b)
  BY DottedHasDots
<1>2. /\ n \in Nat /\ n \in 1 .. n /\ r \in 1 .. n /\ r - 1 \in 1 .. n /\ q \in 1 .. r - 1
      /\ q - 1 \in 1 .. n /\ p \in 1 .. q - 1
  BY <1>1, LenProperties DEF Dots
<1>3. SubSeq(w, 1, n) = SubSeq(w, 1, r - 1) \o <<w[r]>> \o SubSeq(w, r + 1, n)
  BY <1>2, SplitAt
<1>4. SubSeq(w, 1, r - 1) = SubSeq(w, 1, q - 1) \o <<w[q]>> \o SubSeq(w, q + 1, r - 1)
  BY <1>2, SplitAt
<1>5. SubSeq(w, 1, q - 1) = SubSeq(w, 1, p - 1) \o <<w[p]>> \o SubSeq(w, p + 1, q - 1)
  BY <1>2, SplitAt
<1>6. SubSeq(w, 1, n) = w
  <2>1. n \in 0 .. n /\ n \in 0 .. Len(w)
    BY <1>2
  <2>2. SubSeq(w, 1, n) \in Seq(Characters) /\ Len(SubSeq(w, 1, n)) = n
        /\ \A j \in 1 .. n : SubSeq(w, 1, n)[j] = w[j]
    BY <2>1, PrefixIs
  <2> QED BY <2>2, SeqEqual
<1>7. w = Decimal(b[1]) \o <<Separator>> \o Decimal(b[2]) \o <<Separator>>
            \o Decimal(b[3]) \o <<Separator>> \o Decimal(b[4])
  <2> HIDE DEF n
  <2>1. /\ SubSeq(w, 1, p - 1) = Decimal(b[1]) /\ SubSeq(w, p + 1, q - 1) = Decimal(b[2])
        /\ SubSeq(w, q + 1, r - 1) = Decimal(b[3]) /\ SubSeq(w, r + 1, n) = Decimal(b[4])
        /\ w[p] = Separator /\ w[q] = Separator /\ w[r] = Separator
    BY <1>1 DEF Dots, n
  <2> QED BY <1>3, <1>4, <1>5, <1>6, <2>1
<1>8. b \in [1 .. 4 -> UInt8] /\ w = Written("IPv4", b)
  BY <1>1, <1>7 DEF Dots, Written, WrittenIPv4
<1> QED BY <1>8

(* What a number in decimal begins with is one.                            *)
LEMMA DecimalPrefix ==
  ASSUME NEW b \in UInt8, NEW m \in 1 .. Len(Decimal(b))
  PROVE  \E c \in UInt8 : SubSeq(Decimal(b), 1, m) = Decimal(c)
<1> DEFINE d == Decimal(b)
<1>1. d \in Seq(Characters) /\ Len(d) \in 1 .. 3
  <2>1. Field("IPv4", b) = Decimal(b) /\ Lengths("IPv4") = 1 .. 3
    BY DEF Field, Lengths
  <2> QED BY <2>1, FieldIs
<1>2. m \in 0 .. Len(d) /\ m \in 1 .. 3 /\ b \in 0 .. 255
  <2>1. m \in 1 .. Len(d)
    OBVIOUS
  <2> HIDE DEF d
  <2>2. m \in 0 .. Len(d) /\ m \in 1 .. 3
    <3>1. \A l \in 1 .. 3 : \A x \in 1 .. l : x \in 0 .. l /\ x \in 1 .. 3
      OBVIOUS
    <3> QED BY <1>1, <2>1, <3>1
  <2> QED BY <2>2 DEF UInt8
<1> DEFINE u == SubSeq(d, 1, m)
<1>3. u \in Seq(Characters) /\ Len(u) = m /\ \A j \in 1 .. m : u[j] = d[j]
  BY <1>1, <1>2, PrefixIs
<1> HIDE DEF u
<1>4. ASSUME NEW c \in UInt8, Len(Decimal(c)) = m, \A j \in 1 .. m : Decimal(c)[j] = d[j]
      PROVE  u = Decimal(c)
  <2>1. Decimal(c) \in Seq(Characters)
    <3>1. Field("IPv4", c) = Decimal(c)
      BY DEF Field
    <3> QED BY <3>1, FieldIs
  <2> HIDE DEF d
  <2>2. \A j \in 1 .. Len(u) : u[j] = Decimal(c)[j]
    BY <1>3, <1>4
  <2> QED BY <1>3, <1>4, <2>1, <2>2, SeqEqual
<1>5. CASE m = Len(d)
  BY <1>4, <1>5 DEF d, u
<1>6. CASE m # Len(d) /\ b < 100
  <2>1. ~(b < 10)
    <3> SUFFICES ASSUME b < 10 PROVE FALSE
      OBVIOUS
    <3>1. d = <<b>>
      BY DEF Decimal
    <3> QED BY <1>2, <1>6, <3>1
  <2>2. d = <<b \div 10, b % 10>>
    BY <1>6, <2>1 DEF Decimal
  <2> DEFINE c == b \div 10
  <2>3. c \in UInt8 /\ c < 10
    BY <1>2, <1>6 DEF UInt8
  <2>4. Len(d) = 2 /\ d[1] = c
    BY <2>2
  <2> HIDE DEF c, d
  <2>5. Decimal(c) = <<c>>
    BY <2>3 DEF Decimal
  <2>6. m = 1
    BY <1>2, <1>6, <2>4
  <2>7. Len(Decimal(c)) = m /\ \A j \in 1 .. m : Decimal(c)[j] = d[j]
    BY <2>4, <2>5, <2>6
  <2> QED BY <1>4, <2>3, <2>7 DEF u, d
<1>7. CASE m # Len(d) /\ ~(b < 100)
  <2>1. d = <<b \div 100, (b \div 10) % 10, b % 10>>
    BY <1>2, <1>7 DEF Decimal
  <2> DEFINE c == b \div 100
             e == b \div 10
  <2>2. /\ c \in UInt8 /\ c < 10 /\ e \in UInt8 /\ ~(e < 10) /\ e < 100 /\ e \div 10 = c
    BY <1>2, <1>7 DEF UInt8
  <2>3. Len(d) = 3 /\ d[1] = c /\ d[2] = e % 10
    BY <2>1
  <2> HIDE DEF c, e, d
  <2>4. Decimal(c) = <<c>> /\ Decimal(e) = <<c, e % 10>>
    BY <2>2 DEF Decimal
  <2>5. m = 1 \/ m = 2
    BY <1>2, <1>7, <2>3
  <2>6. CASE m = 1
    <3>1. Len(Decimal(c)) = m /\ \A j \in 1 .. m : Decimal(c)[j] = d[j]
      BY <2>3, <2>4, <2>6
    <3> QED BY <1>4, <2>2, <3>1 DEF u, d
  <2>7. CASE m = 2
    <3>1. Len(Decimal(e)) = m /\ \A j \in 1 .. m : Decimal(e)[j] = d[j]
      <4>1. \A j \in 1 .. 2 : j = 1 \/ j = 2
        OBVIOUS
      <4> QED BY <2>3, <2>4, <2>7, <4>1
    <3> QED BY <1>4, <2>2, <3>1 DEF u, d
  <2> QED BY <2>5, <2>6, <2>7
<1> QED BY <1>5, <1>6, <1>7

-----------------------------------------------------------------------------
(* A text that is no address: it begins with no number, or has no second   *)
(* field, or an empty one.                                                 *)
Barren(w) ==
  \/ w[1] \notin 0 .. 9 \cup {Blank, Plus, Minus}
  \/ \A j \in 1 .. Len(w) : w[j] # Separator
  \/ \E p \in 1 .. Len(w) :
       /\ w[p] = Separator /\ (p = Len(w) \/ w[p + 1] = Separator)
       /\ \A j \in 1 .. p - 1 : w[j] # Separator

LEMMA BarrenIsRejected ==
  ASSUME TextInv, FieldsRead, ReadInv, kind = "IPv4", Barren(text)
  PROVE  parsing # "returned"
<1> DEFINE n == Len(text)
<1> SUFFICES ASSUME parsing = "returned" PROVE FALSE
  OBVIOUS
<1>1. text \in Seq(Characters) /\ n \in Nat
  BY LenProperties DEF TextInv
<1>2. \A u, v, w : /\ \E c \in Boundaries : c < prev_pos /\ c \notin {u, v, w}
                   /\ prev_pos \in Boundaries /\ prev_pos \in Int /\ prev_pos <= n
                   /\ text[1] \in 0 .. 9 \cup {Blank, Plus, Minus}
  BY FieldsAreFour
<1>3. Boundaries = {-1, n} \cup {c \in 0 .. n - 1 : text[c + 1] = Separator}
  BY DEF Boundaries
<1> HIDE DEF n
<1>4. ASSUME NEW q \in Nat, q <= n, prev_pos <= q,
             \A j \in 1 .. n : text[j] = Separator => j > q
      PROVE  FALSE
  <2>1. PICK c \in Boundaries : c < prev_pos /\ c # -1
    BY <1>2
  <2>2. c \in Int /\ c # n
    BY <1>1, <1>2, <1>3, <1>4, <2>1
  <2>3. c \in 0 .. n - 1 /\ text[c + 1] = Separator
    BY <1>3, <2>1, <2>2
  <2>4. c + 1 \in 1 .. n /\ c + 1 <= q
    BY <1>1, <1>2, <1>4, <2>1, <2>3
  <2> QED BY <1>1, <1>4, <2>3, <2>4
<1>5. CASE \A j \in 1 .. n : text[j] # Separator
  BY <1>1, <1>2, <1>4, <1>5
<1>6. CASE \E p \in 1 .. n : /\ text[p] = Separator /\ (p = n \/ text[p + 1] = Separator)
                             /\ \A j \in 1 .. p - 1 : text[j] # Separator
  <2>1. PICK p \in 1 .. n : /\ text[p] = Separator /\ (p = n \/ text[p + 1] = Separator)
                            /\ \A j \in 1 .. p - 1 : text[j] # Separator
    BY <1>6
  <2>2. p - 1 \in Nat /\ p - 1 <= n /\ p - 1 \in 0 .. n - 1 /\ (p - 1) + 1 = p
    BY <1>1
  <2>3. p - 1 \in Boundaries
    BY <1>3, <2>1, <2>2
  <2>4. p \in Boundaries
    <3>1. CASE p = n
      BY <1>3, <3>1
    <3>2. CASE p # n
      <4>1. p \in 0 .. n - 1
        BY <1>1, <3>2
      <4> QED BY <1>3, <2>1, <3>2, <4>1
    <3> QED BY <3>1, <3>2
  <2>5. ~(p <= prev_pos)
    BY <1>1, <2>2, <2>3, <2>4 DEF ReadInv
  <2>6. prev_pos <= p - 1
    BY <1>1, <1>2, <2>5
  <2>7. \A j \in 1 .. n : text[j] = Separator => j > p - 1
    BY <1>1, <2>1
  <2> QED BY <1>4, <2>2, <2>6, <2>7
<1> QED BY <1>2, <1>5, <1>6 DEF Barren, n

(* Of a dotted text that is cut off, either the fourth field is left, if   *)
(* not all of it, or no address is returned.                               *)
LEMMA CutIsRejected ==
  ASSUME NEW w \in Seq(Characters), Dotted(w), NEW m \in 1 .. Len(w),
         text = SubSeq(w, 1, m), TextInv, FieldsRead, ReadInv, kind = "IPv4",
         parsing = "returned"
  PROVE  Dotted(text)
<1> DEFINE n == Len(w)
<1>1. PICK p, q, r, b : Dots(w, p, q, r, b)
  BY DottedHasDots
<1>2. /\ n \in Nat /\ m \in Int /\ m >= 1 /\ m <= n /\ m \in 0 .. n
      /\ p \in Int /\ q \in Int /\ r \in Int /\ 1 < p /\ p + 1 < q /\ q + 1 < r /\ r < n
      /\ p \in 1 .. n /\ q \in 1 .. n /\ r \in 1 .. n
  BY <1>1, LenProperties DEF Dots
<1>3. text \in Seq(Characters) /\ Len(text) = m /\ \A j \in 1 .. m : text[j] = w[j]
  BY <1>2, PrefixIs
<1>4. /\ w[p] = Separator /\ w[q] = Separator /\ w[r] = Separator
      /\ \A j \in 1 .. n : w[j] = Separator => j \in {p, q, r}
      /\ b \in [1 .. 4 -> UInt8]
  BY <1>1 DEF Dots
<1>5. Boundaries = {-1, m} \cup {c \in 0 .. m - 1 : text[c + 1] = Separator}
  BY <1>3 DEF Boundaries
<1>6. CASE m > r
  <2>1. /\ p \in DOMAIN text /\ q \in DOMAIN text /\ r \in DOMAIN text
        /\ p \in 1 .. m /\ q \in 1 .. m /\ r \in 1 .. m
    <3>1. DOMAIN text = 1 .. m
      BY <1>3, LenProperties
    <3> QED BY <1>2, <1>6, <3>1
  <2>2. text[p] = Separator /\ text[q] = Separator /\ text[r] = Separator
    BY <1>3, <1>4, <2>1
  <2> DEFINE D == {Decimal(x) : x \in UInt8}
  <2>3. \A x \in Int, y \in Int : x >= 1 /\ y <= m /\ x <= y + 1 =>
          SubSeq(text, x, y) = SubSeq(w, x, y)
    BY <1>2, PartOfPrefix
  <2>4. /\ SubSeq(text, 1, p - 1) = Decimal(b[1])
        /\ SubSeq(text, p + 1, q - 1) = Decimal(b[2])
        /\ SubSeq(text, q + 1, r - 1) = Decimal(b[3])
    <3>1. /\ SubSeq(text, 1, p - 1) = SubSeq(w, 1, p - 1)
          /\ SubSeq(text, p + 1, q - 1) = SubSeq(w, p + 1, q - 1)
          /\ SubSeq(text, q + 1, r - 1) = SubSeq(w, q + 1, r - 1)
      <4>1. /\ 1 \in Int /\ p - 1 \in Int /\ 1 >= 1 /\ p - 1 <= m /\ 1 <= (p - 1) + 1
            /\ p + 1 \in Int /\ q - 1 \in Int /\ p + 1 >= 1 /\ q - 1 <= m
            /\ p + 1 <= (q - 1) + 1
            /\ q + 1 \in Int /\ r - 1 \in Int /\ q + 1 >= 1 /\ r - 1 <= m
            /\ q + 1 <= (r - 1) + 1
        BY <1>2, <1>6
      <4> QED BY <2>3, <4>1
    <3> QED BY <1>1, <3>1 DEF Dots
  <2>5. SubSeq(text, r + 1, m) \in D
    <3> DEFINE d == SubSeq(w, r + 1, n)
               l == m - r
    <3>1. d = Decimal(b[4]) /\ b[4] \in UInt8
      BY <1>1 DEF Dots
    <3>2. d \in Seq(Characters) /\ Len(d) = n - r /\ \A j \in 1 .. n - r : d[j] = w[r + j]
      <4>1. r + 1 \in Int /\ r + 1 >= 1 /\ n \in Int /\ n <= Len(w) /\ r + 1 <= n + 1
            /\ n - (r + 1) + 1 = n - r /\ \A j \in 1 .. n - r : (r + 1) + j - 1 = r + j
        BY <1>2
      <4>2. /\ d \in Seq(Characters) /\ Len(d) = n - (r + 1) + 1
            /\ \A j \in 1 .. n - (r + 1) + 1 : d[j] = w[(r + 1) + j - 1]
        BY <4>1, PartIs
      <4> HIDE DEF d, n
      <4> QED BY <4>1, <4>2
    <3>3. l \in 1 .. Len(d) /\ l \in 0 .. Len(d) /\ r \in Nat
      <4> HIDE DEF d
      <4> QED BY <1>2, <1>6, <3>2
    <3>4. PICK c \in UInt8 : SubSeq(d, 1, l) = Decimal(c)
      BY <3>1, <3>3, DecimalPrefix
    <3>5. SubSeq(d, 1, l) \in Seq(Characters) /\ Len(SubSeq(d, 1, l)) = l
          /\ \A j \in 1 .. l : SubSeq(d, 1, l)[j] = d[j]
      BY <3>2, <3>3, PrefixIs
    <3>6. SubSeq(text, r + 1, r + Len(SubSeq(d, 1, l))) = SubSeq(d, 1, l)
      <4>1. \A j \in 1 .. l : text[r + j] = SubSeq(d, 1, l)[j]
        <5>1. \A j \in 1 .. l : j \in 1 .. n - r /\ r + j \in 1 .. m
          <6> HIDE DEF n
          <6> QED BY <1>2, <1>6
        <5> HIDE DEF d, l, n
        <5> QED BY <1>3, <3>2, <3>5, <5>1
      <4> HIDE DEF d, l
      <4> DEFINE u == SubSeq(d, 1, l)
      <4>2. u \in Seq(Characters) /\ \A j \in 1 .. Len(u) : text[r + j] = u[j]
        BY <3>5, <4>1
      <4> HIDE DEF u
      <4>3. ASSUME NEW s, NEW t \in Seq(Characters), NEW a \in Nat,
                   \A j \in 1 .. Len(t) : s[a + j] = t[j]
            PROVE  SubSeq(s, a + 1, a + Len(t)) = t
        BY <4>3, SubSeqIs
      <4>4. SubSeq(text, r + 1, r + Len(u)) = u
        BY <3>3, <4>2, <4>3
      <4> QED BY <4>4 DEF u
    <3>7. r + l = m
      BY <1>2
    <3> HIDE DEF d, l
    <3> QED BY <3>4, <3>5, <3>6, <3>7
  <2>6. Decimal(b[1]) \in D /\ Decimal(b[2]) \in D /\ Decimal(b[3]) \in D
    <3>1. b[1] \in UInt8 /\ b[2] \in UInt8 /\ b[3] \in UInt8
      BY <1>4
    <3> QED BY <3>1
  <2> HIDE DEF D
  <2>7. {SubSeq(text, 1, p - 1), SubSeq(text, p + 1, q - 1), SubSeq(text, q + 1, r - 1),
         SubSeq(text, r + 1, Len(text))} \subseteq D
    BY <1>3, <2>4, <2>5, <2>6
  <2> USE DEF D
  <2>8. /\ p \in DOMAIN text /\ q \in DOMAIN text /\ r \in DOMAIN text
        /\ text[p] = Separator /\ text[q] = Separator /\ text[r] = Separator
        /\ {SubSeq(text, 1, p - 1), SubSeq(text, p + 1, q - 1), SubSeq(text, q + 1, r - 1),
            SubSeq(text, r + 1, Len(text))} \subseteq {Decimal(x) : x \in UInt8}
    BY <2>1, <2>2, <2>7
  <2> QED BY ONLY <2>8, ZenonT(30) DEF Dotted
<1> HIDE DEF n
<1>7. CASE m <= r
  <2>1. /\ \E c \in Boundaries : c < prev_pos /\ c \notin {-1, p - 1, q - 1}
        /\ prev_pos \in Boundaries /\ prev_pos \in Int /\ prev_pos <= m
    BY <1>3, FieldsAreFour
  <2>2. PICK c \in Boundaries : c < prev_pos /\ c \notin {-1, p - 1, q - 1}
    BY <2>1
  <2>3. c \in Int /\ c # m
    BY <1>2, <1>5, <2>1, <2>2
  <2>4. c \in 0 .. m - 1 /\ text[c + 1] = Separator
    BY <1>5, <2>2, <2>3
  <2>5. c + 1 \in 1 .. m /\ c + 1 \in 1 .. n
    BY <1>2, <2>4
  <2>6. w[c + 1] = Separator
    BY <1>3, <2>4, <2>5
  <2>7. c + 1 = r
    BY <1>2, <1>4, <2>2, <2>4, <2>5, <2>6
  <2>8. m = r /\ prev_pos = m
    BY <1>2, <1>7, <2>1, <2>2, <2>5, <2>7
  <2>9. prev_pos - 1 = c /\ 0 <= prev_pos
    BY <1>2, <2>1, <2>3, <2>4, <2>7, <2>8
  <2>10. prev_pos - 1 \notin Boundaries
    BY <1>2, <2>1, <2>9 DEF ReadInv
  <2> QED BY <2>2, <2>9, <2>10
<1> QED BY <1>2, <1>6, <1>7
-----------------------------------------------------------------------------
(* What find and find_first_not_of find: the first position there is, from *)
(* 1 on, behind position c, or 0                                           *)
BlankPast(s, c)   == FindIn(s, <<Blank>>, c) + 1
WordPast(s, c)    == FindNotBlank(s, c) + 1
DefaultPast(s, c) == FindIn(s, Default, c) + 1

LEMMA FirstPast ==
  ASSUME NEW T \in SUBSET Nat, NEW c \in Nat, \A p \in T : p >= c
  PROVE  \/ First(T) + 1 = 0 /\ T = {}
         \/ /\ First(T) + 1 \in Nat /\ First(T) + 1 > c /\ First(T) \in T
            /\ \A q \in T : First(T) <= q
<1> DEFINE f == First(T)
<1>1. \/ f = npos /\ T = {}
      \/ f \in T /\ \A q \in T : f <= q
  BY FirstIs
<1> HIDE DEF f
<1>2. CASE f = npos /\ T = {}
  BY <1>2 DEF npos, f
<1>3. CASE f \in T /\ \A q \in T : f <= q
  <2>1. f \in Nat /\ f >= c
    BY <1>3
  <2>2. f + 1 \in Nat /\ f + 1 > c
    BY <2>1
  <2> QED BY <1>3, <2>2 DEF f
<1> QED BY <1>1, <1>2, <1>3

LEMMA WordPastIs ==
  ASSUME NEW s, Len(s) \in Nat, NEW c \in Nat
  PROVE  \/ WordPast(s, c) = 0 /\ \A j \in c + 1 .. Len(s) : s[j] = Blank
         \/ /\ WordPast(s, c) \in c + 1 .. Len(s) /\ s[WordPast(s, c)] # Blank
            /\ \A j \in c + 1 .. WordPast(s, c) - 1 : s[j] = Blank
<1> DEFINE T == {p \in c .. Len(s) - 1 : s[p + 1] # Blank}
           f == First(T)
<1>1. T \in SUBSET Nat /\ \A p \in T : p >= c
  OBVIOUS
<1>2. WordPast(s, c) = f + 1
  BY DEF WordPast, FindNotBlank
<1>3. \/ f + 1 = 0 /\ T = {}
      \/ f + 1 \in Nat /\ f + 1 > c /\ f \in T /\ \A q \in T : f <= q
  <2> HIDE DEF T
  <2> QED BY <1>1, FirstPast
<1>4. CASE T = {} /\ f + 1 = 0
  <2>1. ASSUME NEW j \in c + 1 .. Len(s) PROVE s[j] = Blank
    <3>1. j - 1 \in c .. Len(s) - 1 /\ (j - 1) + 1 = j
      OBVIOUS
    <3> QED BY <1>4, <3>1
  <2> QED BY <1>2, <1>4, <2>1
<1>5. CASE f + 1 \in Nat /\ f + 1 > c /\ f \in T /\ \A q \in T : f <= q
  <2>1. f \in c .. Len(s) - 1 /\ s[f + 1] # Blank
    BY <1>5
  <2>2. ASSUME NEW j \in c + 1 .. f PROVE s[j] = Blank
    <3>1. j - 1 \in c .. Len(s) - 1 /\ (j - 1) + 1 = j /\ ~(f <= j - 1)
      <4> HIDE DEF f
      <4> QED BY <2>1
    <3>2. j - 1 \notin T
      <4> HIDE DEF T, f
      <4> QED BY <1>5, <3>1
    <3> QED BY <3>1, <3>2
  <2> HIDE DEF T, f
  <2>3. f + 1 \in c + 1 .. Len(s) /\ (f + 1) - 1 = f
    BY <2>1
  <2> QED BY <1>2, <2>1, <2>2, <2>3
<1> QED BY <1>3, <1>4, <1>5

(* Where one character is found                                            *)
LEMMA CharacterFound ==
  ASSUME NEW s \in Seq(Characters), NEW x \in Characters, NEW c \in Nat
  PROVE  LET f == FindIn(s, <<x>>, c)
         IN  \/ f + 1 = 0 /\ \A j \in c + 1 .. Len(s) : s[j] # x
             \/ /\ f \in Nat /\ f + 1 \in c + 1 .. Len(s) /\ s[f + 1] = x
                /\ \A j \in c + 1 .. f : s[j] # x
<1> DEFINE n == Len(s)
           T == {p \in c .. n - 1 : s[p + 1] = x}
           f == First(T)
<1>1. n \in Nat
  BY LenProperties
<1>2. FindIn(s, <<x>>, c) = f
  <2>1. ASSUME NEW p \in c .. n - 1
        PROVE  SubSeq(s, p + 1, p + 1) = <<x>> <=> s[p + 1] = x
    <3>1. /\ p + 1 \in Int /\ p + 1 >= 1 /\ p + 1 <= Len(s) /\ p + 1 <= (p + 1) + 1
          /\ (p + 1) - (p + 1) + 1 = 1 /\ (p + 1) + 1 - 1 = p + 1 /\ 1 \in 1 .. 1
      BY <1>1
    <3> DEFINE u == SubSeq(s, p + 1, p + 1)
    <3>2. u \in Seq(Characters) /\ Len(u) = 1 /\ u[1] = s[p + 1]
      <4>1. /\ u \in Seq(Characters) /\ Len(u) = (p + 1) - (p + 1) + 1
            /\ \A j \in 1 .. (p + 1) - (p + 1) + 1 : u[j] = s[(p + 1) + j - 1]
        BY <3>1, PartIs
      <4> HIDE DEF u
      <4> QED BY <3>1, <4>1
    <3>3. <<x>> \in Seq(Characters) /\ Len(<<x>>) = 1 /\ <<x>>[1] = x
      OBVIOUS
    <3> HIDE DEF u
    <3>4. s[p + 1] = x => u = <<x>>
      <4>1. \A j \in 1 .. 1 : j = 1
        OBVIOUS
      <4> QED BY <3>2, <3>3, <4>1, SeqEqual
    <3> QED BY <3>2, <3>3, <3>4 DEF u
  <2>2. FindIn(s, <<x>>, c) = First({p \in c .. n - 1 : SubSeq(s, p + 1, p + 1) = <<x>>})
    BY DEF FindIn
  <2>3. {p \in c .. n - 1 : SubSeq(s, p + 1, p + 1) = <<x>>} = T
    BY <2>1
  <2> QED BY <2>2, <2>3
<1>3. T \in SUBSET Nat /\ \A p \in T : p >= c
  <2> HIDE DEF n
  <2> QED BY <1>1
<1>4. \/ f + 1 = 0 /\ T = {}
      \/ f + 1 \in Nat /\ f + 1 > c /\ f \in T /\ \A q \in T : f <= q
  <2> HIDE DEF T
  <2> QED BY <1>3, FirstPast
<1>5. CASE T = {} /\ f + 1 = 0
  <2>1. ASSUME NEW j \in c + 1 .. n PROVE s[j] # x
    <3>1. j - 1 \in c .. n - 1 /\ (j - 1) + 1 = j
      <4> HIDE DEF n
      <4> QED BY <1>1
    <3> QED BY <1>5, <3>1
  <2> QED BY <1>2, <1>5, <2>1
<1>6. CASE f + 1 \in Nat /\ f + 1 > c /\ f \in T /\ \A q \in T : f <= q
  <2>1. f \in c .. n - 1 /\ s[f + 1] = x
    BY <1>6
  <2>2. ASSUME NEW j \in c + 1 .. f PROVE s[j] # x
    <3>1. j - 1 \in c .. n - 1 /\ (j - 1) + 1 = j /\ ~(f <= j - 1)
      <4> HIDE DEF f, n
      <4> QED BY <1>1, <2>1
    <3>2. j - 1 \notin T
      <4> HIDE DEF T, f
      <4> QED BY <1>6, <3>1
    <3> QED BY <3>1, <3>2
  <2> HIDE DEF T, f
  <2>3. f \in Nat /\ f + 1 \in c + 1 .. n
    <3> HIDE DEF n
    <3> QED BY <1>1, <2>1
  <2> QED BY <1>2, <2>1, <2>2, <2>3
<1> QED BY <1>4, <1>5, <1>6

LEMMA BlankPastIs ==
  ASSUME NEW s \in Seq(Characters), NEW c \in Nat
  PROVE  \/ BlankPast(s, c) = 0 /\ \A j \in c + 1 .. Len(s) : s[j] # Blank
         \/ /\ BlankPast(s, c) \in c + 1 .. Len(s) /\ s[BlankPast(s, c)] = Blank
            /\ \A j \in c + 1 .. BlankPast(s, c) - 1 : s[j] # Blank
<1> DEFINE f == FindIn(s, <<Blank>>, c)
<1>1. Blank \in Characters
  BY DEF Blank, Characters
<1>2. \/ f + 1 = 0 /\ \A j \in c + 1 .. Len(s) : s[j] # Blank
      \/ /\ f \in Nat /\ f + 1 \in c + 1 .. Len(s) /\ s[f + 1] = Blank
         /\ \A j \in c + 1 .. f : s[j] # Blank
  BY <1>1, CharacterFound
<1> HIDE DEF f
<1>3. f \in Nat => (f + 1) - 1 = f
  OBVIOUS
<1> QED BY <1>2, <1>3 DEF BlankPast, f

(* Where a word is found                                                   *)
LEMMA WordFound ==
  ASSUME NEW s, NEW word, Len(s) \in Nat, Len(word) \in Nat, NEW c \in Nat
  PROVE  LET f == FindIn(s, word, c)
         IN  \/ f + 1 = 0 /\ \A p \in Int : p > c => ~At(s, p, word)
             \/ /\ f + 1 \in Nat /\ f + 1 > c /\ At(s, f + 1, word)
                /\ \A p \in Int : p > c /\ At(s, p, word) => f + 1 <= p
<1> DEFINE T == {p \in c .. Len(s) - Len(word) : SubSeq(s, p + 1, p + Len(word)) = word}
           f == First(T)
<1>1. T \in SUBSET Nat /\ \A p \in T : p >= c
  OBVIOUS
<1>2. FindIn(s, word, c) = f
  BY DEF FindIn
<1>3. \/ f + 1 = 0 /\ T = {}
      \/ f + 1 \in Nat /\ f + 1 > c /\ f \in T /\ \A q \in T : f <= q
  <2> HIDE DEF T
  <2> QED BY <1>1, FirstPast
<1>4. ASSUME NEW p \in Int, p > c, At(s, p, word) PROVE p - 1 \in T
  <2>1. /\ p - 1 \in c .. Len(s) - Len(word)
        /\ (p - 1) + 1 = p /\ (p - 1) + Len(word) = p + Len(word) - 1
    BY <1>4 DEF At
  <2>2. SubSeq(s, (p - 1) + 1, (p - 1) + Len(word)) = word
    BY <1>4, <2>1 DEF At
  <2> QED BY <2>1, <2>2
<1>5. CASE T = {} /\ f + 1 = 0
  <2> HIDE DEF T
  <2> QED BY <1>2, <1>4, <1>5
<1>6. CASE f + 1 \in Nat /\ f + 1 > c /\ f \in T /\ \A q \in T : f <= q
  <2>1. f \in c .. Len(s) - Len(word) /\ SubSeq(s, f + 1, f + Len(word)) = word
    BY <1>6
  <2> HIDE DEF T, f
  <2>2. /\ f \in Int /\ f + 1 >= 1 /\ f + 1 + Len(word) - 1 = f + Len(word)
        /\ f + Len(word) <= Len(s)
    BY <2>1
  <2>3. At(s, f + 1, word)
    BY <2>1, <2>2 DEF At
  <2>4. \A p \in Int : p > c /\ At(s, p, word) => f + 1 <= p
    <3> SUFFICES ASSUME NEW p \in Int, p > c, At(s, p, word) PROVE f + 1 <= p
      OBVIOUS
    <3>1. f <= p - 1
      BY <1>4, <1>6
    <3> QED BY <2>2, <3>1
  <2> QED BY <1>2, <1>6, <2>3, <2>4
<1> QED BY <1>3, <1>5, <1>6

-----------------------------------------------------------------------------
(* A word that has no more than two before it                              *)
EarlyWord(s, b) ==
  /\ b \in Starts(s)
  /\ \E u, v : \A x \in Starts(s) : x < b => x \in {u, v}

(* Where the search for a column ends up that misses what it looks for and *)
(* begins anew: there is no word, or it is an early one.                   *)
LEMMA EarlyWords ==
  ASSUME NEW s \in Seq(Characters)
  PROVE  LET w == WordPast(s, 0)
             c == BlankPast(s, 0)
         IN  /\ w = 0 \/ EarlyWord(s, w)
             /\ WordPast(s, c) = 0 \/ EarlyWord(s, WordPast(s, c))
             /\ LET x == WordPast(s, BlankPast(s, w)) IN x = 0 \/ EarlyWord(s, x)
             /\ LET x == WordPast(s, BlankPast(s, WordPast(s, c)))
                IN  x = 0 \/ EarlyWord(s, x)
<1> DEFINE n == Len(s)
           W(d) == WordPast(s, d)
           B(d) == BlankPast(s, d)
<1>1. n \in Nat /\ DOMAIN s = 1 .. n
  BY LenProperties
<1>2. ASSUME NEW d \in Nat
      PROVE  \/ W(d) = 0 /\ \A j \in d + 1 .. n : s[j] = Blank
             \/ /\ W(d) \in d + 1 .. n /\ s[W(d)] # Blank
                /\ \A j \in d + 1 .. W(d) - 1 : s[j] = Blank
  BY <1>1, WordPastIs
<1>3. ASSUME NEW d \in Nat
      PROVE  \/ B(d) = 0 /\ \A j \in d + 1 .. n : s[j] # Blank
             \/ /\ B(d) \in d + 1 .. n /\ s[B(d)] = Blank
                /\ \A j \in d + 1 .. B(d) - 1 : s[j] # Blank
  BY BlankPastIs
<1> HIDE DEF n, W, B
<1>4. \A d \in Nat : W(d) \in Nat /\ B(d) \in Nat
  <2> SUFFICES ASSUME NEW d \in Nat PROVE W(d) \in Nat /\ B(d) \in Nat
    OBVIOUS
  <2>1. W(d) = 0 \/ W(d) \in d + 1 .. n
    BY <1>2
  <2>2. B(d) = 0 \/ B(d) \in d + 1 .. n
    BY <1>3
  <2> QED BY <1>1, <2>1, <2>2
<1>5. ASSUME NEW d \in 0 .. n, NEW u, NEW v, d = 0 \/ s[d] = Blank,
             \A x \in 1 .. d : s[x] # Blank /\ (x = 1 \/ s[x - 1] = Blank) => x \in {u, v}
      PROVE  W(d) = 0 \/ EarlyWord(s, W(d))
  <2> SUFFICES ASSUME W(d) # 0 PROVE EarlyWord(s, W(d))
    OBVIOUS
  <2> DEFINE b == W(d)
  <2>1. /\ d \in Nat /\ b \in d + 1 .. n /\ s[b] # Blank
        /\ \A j \in d + 1 .. b - 1 : s[j] = Blank
    BY <1>1, <1>2
  <2> HIDE DEF b
  <2>2. b \in Int /\ b \in 1 .. n /\ (b = 1 \/ s[b - 1] = Blank)
    <3>1. b = d + 1 \/ b - 1 \in d + 1 .. b - 1
      BY <1>1, <2>1
    <3>2. b = d + 1 => b = 1 \/ s[b - 1] = Blank
      BY <1>5, <2>1
    <3> QED BY <1>1, <2>1, <3>1, <3>2
  <2>3. b \in Starts(s)
    BY <1>1, <2>1, <2>2 DEF Starts
  <2>4. \A x \in Starts(s) : x < b => x \in {u, v}
    <3> SUFFICES ASSUME NEW x \in Starts(s), x < b PROVE x \in {u, v}
      OBVIOUS
    <3>1. x \in 1 .. n /\ s[x] # Blank /\ (x = 1 \/ s[x - 1] = Blank)
      BY <1>1 DEF Starts
    <3>2. x \in 1 .. d
      BY <1>1, <2>1, <2>2, <3>1
    <3> QED BY <1>5, <3>1, <3>2
  <2> QED BY <2>3, <2>4 DEF EarlyWord, b
<1>6. W(0) = 0 \/ EarlyWord(s, W(0))
  <2>1. 0 \in 0 .. n
    BY <1>1
  <2> QED BY <1>5, <2>1
<1>7. B(0) = 0 \/ (/\ B(0) \in 1 .. n /\ s[B(0)] = Blank
                   /\ \A j \in 1 .. B(0) - 1 : s[j] # Blank)
  BY <1>3
<1>8. B(0) # 0 =>
        \A x \in 1 .. B(0) : s[x] # Blank /\ (x = 1 \/ s[x - 1] = Blank) => x = 1
  <2> SUFFICES ASSUME B(0) # 0, NEW x \in 1 .. B(0), s[x] # Blank, s[x - 1] = Blank, x # 1
               PROVE  FALSE
    OBVIOUS
  <2>1. x - 1 \in 1 .. B(0) - 1
    BY <1>1, <1>7
  <2> QED BY <1>7, <2>1
<1>9. W(B(0)) = 0 \/ EarlyWord(s, W(B(0)))
  <2>1. CASE B(0) = 0
    BY <1>6, <2>1
  <2>2. CASE B(0) # 0
    <3>1. B(0) \in 0 .. n
      BY <1>1, <1>7, <2>2
    <3> QED BY <1>5, <1>7, <1>8, <2>2, <3>1
  <2> QED BY <2>1, <2>2
<1>10. ASSUME NEW d \in 0 .. n, NEW u, d = 0 \/ s[d] = Blank,
              \A x \in 1 .. d : s[x] # Blank /\ (x = 1 \/ s[x - 1] = Blank) => x = u
       PROVE  W(B(W(d))) = 0 \/ EarlyWord(s, W(B(W(d))))
  <2> DEFINE w == W(d)
             f == B(w)
  <2>1. d \in Nat /\ w \in Nat
    <3>1. d \in Nat
      BY <1>1
    <3> QED BY <1>4, <3>1
  <2>2. CASE w = 0
    BY <1>9, <2>2
  <2>3. CASE w # 0 /\ f = 0
    BY <1>6, <2>3
  <2>4. CASE w # 0 /\ f # 0
    <3>1. /\ w \in d + 1 .. n /\ \A j \in d + 1 .. w - 1 : s[j] = Blank
          /\ s[w] # Blank
      BY <1>2, <2>1, <2>4
    <3>2. f \in w + 1 .. n /\ s[f] = Blank /\ \A j \in w + 1 .. f - 1 : s[j] # Blank
      BY <1>3, <2>1, <2>4
    <3> HIDE DEF w, f
    <3>3. f \in 0 .. n
      BY <1>1, <2>1, <3>2
    <3>4. ASSUME NEW x \in 1 .. f, s[x] # Blank, x = 1 \/ s[x - 1] = Blank
          PROVE  x \in {u, w}
      <4>1. CASE x <= d
        <5>1. x \in 1 .. d
          BY <4>1, <2>1
        <5> QED BY <1>10, <3>4, <5>1
      <4>2. CASE x > d /\ x < w
        <5>1. x \in d + 1 .. w - 1
          BY <4>2, <2>1
        <5> QED BY <3>1, <3>4, <5>1
      <4>3. CASE x > w
        <5>1. x # 1 /\ x \in w + 1 .. f
          BY <4>3, <2>1, <3>1
        <5>2. x - 1 = w \/ x - 1 \in w + 1 .. f - 1
          BY <2>1, <3>3, <5>1
        <5> QED BY <3>1, <3>2, <3>4, <5>1, <5>2
      <4> QED BY <2>1, <4>1, <4>2, <4>3
    <3>5. W(f) = 0 \/ EarlyWord(s, W(f))
      BY <1>5, <3>2, <3>3, <3>4
    <3> QED BY <3>5 DEF f, w
  <2> QED BY <2>2, <2>3, <2>4
<1>11. W(B(W(0))) = 0 \/ EarlyWord(s, W(B(W(0))))
  <2>1. 0 \in 0 .. n /\ \A x \in 1 .. 0 : x = 0
    BY <1>1
  <2> QED BY <1>10, <2>1
<1>12. W(B(W(B(0)))) = 0 \/ EarlyWord(s, W(B(W(B(0)))))
  <2>1. CASE B(0) = 0
    BY <1>11, <2>1
  <2>2. CASE B(0) # 0
    <3>1. B(0) \in 0 .. n
      BY <1>1, <1>7, <2>2
    <3> QED BY <1>7, <1>8, <1>10, <2>2, <3>1
  <2> QED BY <2>1, <2>2
<1> QED BY <1>6, <1>9, <1>11, <1>12 DEF W, B

-----------------------------------------------------------------------------
(* A word of a text stands where it does in the text's beginning, if that  *)
(* is long enough.                                                         *)
LEMMA AtPrefix ==
  ASSUME NEW S, NEW t \in Seq(S), NEW n \in 0 .. Len(t), NEW word, Len(word) \in Nat,
         NEW p \in Int
  PROVE  At(SubSeq(t, 1, n), p, word) <=> At(t, p, word) /\ p + Len(word) - 1 <= n
<1> DEFINE s == SubSeq(t, 1, n)
           e == p + Len(word) - 1
<1>1. Len(s) = n /\ n \in Int /\ n <= Len(t) /\ Len(t) \in Int
  BY PrefixIs, LenProperties
<1>2. e \in Int /\ p <= e + 1
  OBVIOUS
<1> HIDE DEF e
<1>3. p >= 1 /\ e <= n => SubSeq(s, p, e) = SubSeq(t, p, e)
  BY <1>2, PartOfPrefix
<1> HIDE DEF s
<1>4. (p >= 1 /\ e <= Len(s) /\ SubSeq(s, p, e) = word)
        <=> ((p >= 1 /\ e <= Len(t) /\ SubSeq(t, p, e) = word) /\ e <= n)
  BY <1>1, <1>2, <1>3
<1> QED BY <1>4 DEF At, s, e

LEMMA DefaultAt ==
  ASSUME NEW s \in Seq(Characters), NEW p \in Int, At(s, p, Default)
  PROVE  p >= 1 /\ p + 6 <= Len(s) /\ \A j \in p .. p + 6 : s[j] # Blank
<1>1. Len(Default) = 7 /\ \A j \in 1 .. 7 : Default[j] # Blank
  <2>1. \A j \in 1 .. 7 : \/ j = 1 \/ j = 2 \/ j = 3 \/ j = 4 \/ j = 5 \/ j = 6 \/ j = 7
    OBVIOUS
  <2> QED BY <2>1 DEF Default, Blank, Separator
<1>2. p + Len(Default) - 1 = p + 6
  BY <1>1
<1>3. p >= 1 /\ p + 6 <= Len(s) /\ SubSeq(s, p, p + 6) = Default
  BY <1>2 DEF At
<1>4. ASSUME NEW j \in p .. p + 6 PROVE s[j] # Blank
  <2> DEFINE y == p + 6
             u == SubSeq(s, p, y)
  <2>1. y \in Int /\ y <= Len(s) /\ p <= y + 1 /\ y - p + 1 = 7
    BY <1>3
  <2>2. \A k \in 1 .. y - p + 1 : u[k] = s[p + k - 1]
    BY <1>3, <2>1, PartIs
  <2>3. u = Default
    BY <1>3
  <2> HIDE DEF u
  <2> DEFINE k == j - p + 1
  <2>4. k \in 1 .. 7 /\ p + k - 1 = j
    OBVIOUS
  <2> HIDE DEF k, y
  <2>5. u[k] = s[j]
    BY <2>1, <2>2, <2>4
  <2> QED BY <1>1, <2>3, <2>4, <2>5
<1> QED BY <1>3, <1>4

(* The word that the columns lead to, of as much of a table as there is:   *)
(* none, or one that is no address, or the one in the interface's column   *)
ColumnOrNone(c, s, b) ==
  \/ b = 0
  \/ /\ b \in 1 .. Len(s) /\ s[b] # Blank
     /\ \/ NoAddressAt(c.text, b)
        \/ \E e \in DOMAIN c.text :
             /\ WordAt(c.text, b, e) /\ c.column = <<b, e>>
             /\ Dotted(SubSeq(c.text, b, e))

LEMMA EarlyIsNone ==
  ASSUME NEW c, c.text \in Seq(Characters), TableIsLabelled(c),
         NEW n \in 1 .. Len(c.text), NEW s, s = SubSeq(c.text, 1, n),
         NEW b, EarlyWord(s, b)
  PROVE  ColumnOrNone(c, s, b)
<1> DEFINE t == c.text
<1>1. /\ Len(t) \in Nat /\ DOMAIN t = 1 .. Len(t) /\ n \in 0 .. Len(t)
  BY LenProperties
<1>2. s \in Seq(Characters) /\ Len(s) = n /\ \A j \in 1 .. n : s[j] = t[j]
  BY <1>1, PrefixIs
<1>3. DOMAIN s = 1 .. n
  BY <1>2, LenProperties
<1> HIDE DEF t
<1>4. ASSUME NEW x \in 1 .. n PROVE x \in Starts(s) <=> x \in Starts(t)
  <2>1. x \in 1 .. Len(t) /\ s[x] = t[x] /\ (x = 1 \/ s[x - 1] = t[x - 1])
    BY <1>1, <1>2
  <2> QED BY <1>1, <1>3, <2>1 DEF Starts
<1>5. PICK u, v : \A x \in Starts(s) : x < b => x \in {u, v}
  BY DEF EarlyWord
<1>6. b \in 1 .. n /\ s[b] # Blank /\ b \in Starts(t)
  <2>1. b \in Starts(s)
    BY DEF EarlyWord
  <2>2. b \in 1 .. n /\ s[b] # Blank
    BY <1>3, <2>1 DEF Starts
  <2> QED BY <1>4, <2>1, <2>2
<1>7. NoAddressAt(t, b)
  <2>1. ASSUME NEW x \in Starts(t), NEW y \in Starts(t), NEW z \in Starts(t),
               x < y, y < z, z < b
        PROVE  FALSE
    <3>1. x \in 1 .. Len(t) /\ y \in 1 .. Len(t) /\ z \in 1 .. Len(t)
      BY <1>1 DEF Starts
    <3>2. x \in 1 .. n /\ y \in 1 .. n /\ z \in 1 .. n /\ x < b /\ y < b
      BY <1>1, <1>6, <2>1, <3>1
    <3>3. x \in {u, v} /\ y \in {u, v} /\ z \in {u, v}
      BY <1>4, <1>5, <2>1, <3>2
    <3>4. x # y /\ y # z /\ x # z
      BY <2>1, <3>1
    <3> QED BY <3>3, <3>4
  <2>2. \/ NoAddressAt(t, b)
        \/ \E x, y, z \in Starts(t) : x < y /\ y < z /\ z < b
    BY <1>6 DEF TableIsLabelled, t
  <2> QED BY <2>1, <2>2
<1> QED BY <1>2, <1>6, <1>7 DEF ColumnOrNone, t

LEMMA ColumnFound ==
  ASSUME NEW c, c.text \in Seq(Characters), TableIsLabelled(c),
         NEW n \in 1 .. Len(c.text), NEW s, s = SubSeq(c.text, 1, n)
  PROVE  LET d == DefaultPast(s, 0)
             m == DefaultPast(s, BlankPast(s, d))
             g == WordPast(s, BlankPast(s, m))
         IN  ColumnOrNone(c, s, WordPast(s, BlankPast(s, g)))
<1> DEFINE t == c.text
           W(x) == WordPast(s, x)
           B(x) == BlankPast(s, x)
           D(x) == DefaultPast(s, x)
           w1 == W(0)
           w2 == W(B(0))
           w3 == W(B(W(0)))
           w4 == W(B(W(B(0))))
           d == D(0)
           m == D(B(d))
           g == W(B(m))
<1>1. /\ Len(t) \in Nat /\ DOMAIN t = 1 .. Len(t) /\ n \in 0 .. Len(t)
      /\ n \in Nat /\ n >= 1 /\ n <= Len(t)
  BY LenProperties
<1>2. s \in Seq(Characters) /\ Len(s) = n /\ \A j \in 1 .. n : s[j] = t[j]
  BY <1>1, PrefixIs
<1>3. /\ w1 = 0 \/ ColumnOrNone(c, s, w1)
      /\ w2 = 0 \/ ColumnOrNone(c, s, w2)
      /\ w3 = 0 \/ ColumnOrNone(c, s, w3)
      /\ w4 = 0 \/ ColumnOrNone(c, s, w4)
  BY <1>2, EarlyWords, EarlyIsNone
<1>4. ColumnOrNone(c, s, 0)
  BY DEF ColumnOrNone
<1>5. \A x \in {w1, w2, w3, w4} : ColumnOrNone(c, s, x)
  BY <1>3, <1>4
<1>6. ASSUME NEW x \in Nat
      PROVE  \/ W(x) = 0 /\ \A j \in x + 1 .. n : s[j] = Blank
             \/ /\ W(x) \in x + 1 .. n /\ s[W(x)] # Blank
                /\ \A j \in x + 1 .. W(x) - 1 : s[j] = Blank
  BY <1>1, <1>2, WordPastIs, ZenonT(30)
<1>7. ASSUME NEW x \in Nat
      PROVE  \/ B(x) = 0 /\ \A j \in x + 1 .. n : s[j] # Blank
             \/ /\ B(x) \in x + 1 .. n /\ s[B(x)] = Blank
                /\ \A j \in x + 1 .. B(x) - 1 : s[j] # Blank
  BY <1>2, BlankPastIs
<1>8. ASSUME NEW x \in Nat
      PROVE  \/ D(x) = 0 /\ \A p \in Int : p > x => ~At(s, p, Default)
             \/ /\ D(x) \in Nat /\ D(x) > x /\ At(s, D(x), Default)
                /\ \A p \in Int : p > x /\ At(s, p, Default) => D(x) <= p
  <2>1. Len(Default) \in Nat
    BY DEF Default
  <2> QED BY <1>1, <1>2, <2>1, WordFound DEF DefaultPast
<1>9. ASSUME NEW p \in Int
      PROVE  /\ At(s, p, Default) <=> At(t, p, Default) /\ p + 6 <= n
             /\ At(t, p, Default) =>
                  p >= 1 /\ p + 6 <= Len(t) /\ \A j \in p .. p + 6 : t[j] # Blank
  <2>1. Len(Default) = 7 /\ Len(Default) \in Nat /\ p + Len(Default) - 1 = p + 6
    BY DEF Default
  <2>2. t \in Seq(Characters) /\ s = SubSeq(t, 1, n)
    OBVIOUS
  <2> HIDE DEF t
  <2>3. At(SubSeq(t, 1, n), p, Default) <=> At(t, p, Default) /\ p + Len(Default) - 1 <= n
    BY <1>1, <2>1, <2>2, AtPrefix
  <2> QED BY <2>1, <2>2, <2>3, DefaultAt
<1> HIDE DEF t, W, B, D
<1>10. \A x, y \in Nat : /\ x + 1 .. y = {z \in Nat : x < z /\ z <= y}
                         /\ x + 1 .. y - 1 = {z \in Nat : x < z /\ z < y}
  OBVIOUS
(* The first blank, or the first word, behind a place where one is known   *)
<1>11. ASSUME NEW x \in Nat, NEW y \in Nat, x < y, \A j \in x + 1 .. y - 1 : t[j] # Blank,
              y <= Len(t) => t[y] = Blank
       PROVE  B(x) = IF y <= n THEN y ELSE 0
  <2>1. CASE y <= n
    <3>1. s[y] = Blank /\ y \in x + 1 .. n
      BY <1>1, <1>2, <1>11, <2>1
    <3>2. B(x) # 0 /\ B(x) \in x + 1 .. n /\ s[B(x)] = Blank
          /\ \A j \in x + 1 .. B(x) - 1 : s[j] # Blank
      BY <1>1, <1>7, <3>1
    <3>3. ~(B(x) < y) /\ ~(y < B(x))
      <4>1. B(x) < y => B(x) \in x + 1 .. y - 1 /\ s[B(x)] = t[B(x)]
        BY <1>1, <1>2, <2>1, <3>2
      <4>2. y < B(x) => y \in x + 1 .. B(x) - 1
        BY <1>1, <1>11, <3>2
      <4> QED BY <1>11, <3>1, <3>2, <4>1, <4>2
    <3> QED BY <1>1, <2>1, <3>2, <3>3
  <2>2. CASE ~(y <= n)
    <3>1. \A j \in x + 1 .. n : s[j] # Blank
      <4>1. \A j \in x + 1 .. n : j \in x + 1 .. y - 1 /\ j \in 1 .. n
        BY <1>1, <2>2
      <4> QED BY <1>2, <1>11, <4>1
    <3> QED BY <1>7, <2>2, <3>1
  <2> QED BY <2>1, <2>2
<1>12. ASSUME NEW x \in Nat, NEW y \in Nat, x < y, \A j \in x + 1 .. y - 1 : t[j] = Blank,
              y <= Len(t) => t[y] # Blank
       PROVE  W(x) = IF y <= n THEN y ELSE 0
  <2>1. CASE y <= n
    <3>1. s[y] # Blank /\ y \in x + 1 .. n
      BY <1>1, <1>2, <1>12, <2>1
    <3>2. W(x) # 0 /\ W(x) \in x + 1 .. n /\ s[W(x)] # Blank
          /\ \A j \in x + 1 .. W(x) - 1 : s[j] = Blank
      BY <1>1, <1>6, <3>1
    <3>3. ~(W(x) < y) /\ ~(y < W(x))
      <4>1. W(x) < y => W(x) \in x + 1 .. y - 1 /\ s[W(x)] = t[W(x)]
        BY <1>1, <1>2, <2>1, <3>2
      <4>2. y < W(x) => y \in x + 1 .. W(x) - 1
        BY <1>1, <1>12, <3>2
      <4> QED BY <1>12, <3>1, <3>2, <4>1, <4>2
    <3> QED BY <1>1, <2>1, <3>2, <3>3
  <2>2. CASE ~(y <= n)
    <3>1. \A j \in x + 1 .. n : s[j] = Blank
      <4>1. \A j \in x + 1 .. n : j \in x + 1 .. y - 1 /\ j \in 1 .. n
        BY <1>1, <2>2
      <4> QED BY <1>2, <1>12, <4>1
    <3> QED BY <1>6, <2>2, <3>1
  <2> QED BY <2>1, <2>2
<1>13. \A x \in Nat : W(x) \in Nat /\ B(x) \in Nat /\ D(x) \in Nat
  <2> SUFFICES ASSUME NEW x \in Nat PROVE W(x) \in Nat /\ B(x) \in Nat /\ D(x) \in Nat
    OBVIOUS
  <2>1. W(x) = 0 \/ W(x) \in x + 1 .. n
    BY <1>6
  <2>2. B(x) = 0 \/ B(x) \in x + 1 .. n
    BY <1>7
  <2> QED BY <1>1, <1>8, <2>1, <2>2
<1>14. CASE d = 0
  <2>1. \A p \in Int : p > 0 => ~At(s, p, Default)
    BY <1>8, <1>14
  <2>2. B(d) \in Nat
    BY <1>13, <1>14
  <2>3. m = 0
    BY <1>8, <2>1, <2>2
  <2>4. W(B(g)) = w4
    BY <2>3
  <2> QED BY <1>5, <2>4 DEF W, B, D
<1>15. CASE d # 0
  <2>1. d \in Nat /\ At(t, d, Default) /\ d + 6 <= n /\ d >= 1 /\ d \in DOMAIN t
        /\ \A j \in d .. d + 6 : t[j] # Blank
    <3>1. d \in Nat /\ At(s, d, Default)
      BY <1>8, <1>15
    <3> QED BY <1>1, <1>9, <3>1
  <2>2. FirstAt(t, d, Default)
    <3>1. ASSUME NEW q \in 1 .. d - 1, At(t, q, Default) PROVE FALSE
      <4>1. q \in Int /\ q > 0 /\ q + 6 <= n /\ ~(d <= q)
        BY <1>1, <2>1
      <4>2. At(s, q, Default)
        BY <1>9, <3>1, <4>1
      <4> QED BY <1>8, <1>15, <4>1, <4>2
    <3> QED BY <2>1, <3>1 DEF FirstAt
  <2>3. PICK m0 \in DOMAIN t, g0 \in DOMAIN t, h \in DOMAIN t, b0 \in DOMAIN t, e \in DOMAIN t :
          /\ Follows(t, d + 6, m0) /\ At(t, m0, Default)
          /\ Follows(t, m0 + 6, g0) /\ WordAt(t, g0, h)
          /\ Follows(t, h, b0) /\ WordAt(t, b0, e)
          /\ \/ c.column = <<b0, e>> /\ Dotted(SubSeq(t, b0, e))
             \/ NoAddressAt(t, b0)
    BY <2>1, <2>2 DEF TableIsLabelled, t
  <2>4. /\ m0 \in Nat /\ g0 \in Nat /\ h \in Nat /\ b0 \in Nat
        /\ m0 >= 1 /\ g0 >= 1 /\ h >= 1 /\ b0 >= 1
        /\ m0 <= Len(t) /\ g0 <= Len(t) /\ h <= Len(t) /\ b0 <= Len(t)
    BY <1>1, <2>3
  <2>5. /\ d + 7 < m0 /\ t[m0] # Blank /\ \A j \in d + 7 .. m0 - 1 : t[j] = Blank
        /\ m0 + 7 < g0 /\ t[g0] # Blank /\ \A j \in m0 + 7 .. g0 - 1 : t[j] = Blank
        /\ h + 1 < b0 /\ t[b0] # Blank /\ \A j \in h + 1 .. b0 - 1 : t[j] = Blank
    <3>1. (d + 6) + 1 = d + 7 /\ (m0 + 6) + 1 = m0 + 7
      <4> HIDE DEF d
      <4> QED BY <2>1, <2>4
    <3> QED BY <2>3, <3>1 DEF Follows
  <2>6. /\ \A j \in m0 .. m0 + 6 : t[j] # Blank
        /\ g0 <= h /\ \A j \in g0 .. h : t[j] # Blank
    BY <1>9, <2>3, <2>4 DEF WordAt
  <2>7. B(d) = IF d + 7 <= n THEN d + 7 ELSE 0
    <3>1. /\ \A j \in d + 1 .. (d + 7) - 1 : t[j] # Blank
          /\ t[d + 7] = Blank /\ d + 7 \in Nat /\ d < d + 7
      <4>1. d + 7 \in d + 7 .. m0 - 1 /\ \A j \in d + 1 .. (d + 7) - 1 : j \in d .. d + 6
        <5> HIDE DEF d
        <5> QED BY <2>1, <2>4, <2>5, SMTT(20)
      <4> QED BY <2>1, <2>5, <4>1
    <3> QED BY <1>11, <2>1, <3>1
  <2>8. B(m0) = IF m0 + 7 <= n THEN m0 + 7 ELSE 0
    <3>1. /\ \A j \in m0 + 1 .. (m0 + 7) - 1 : t[j] # Blank
          /\ t[m0 + 7] = Blank /\ m0 + 7 \in Nat /\ m0 < m0 + 7
      <4>1. m0 + 7 \in m0 + 7 .. g0 - 1
            /\ \A j \in m0 + 1 .. (m0 + 7) - 1 : j \in m0 .. m0 + 6
        BY <2>4, <2>5, SMTT(20)
      <4> QED BY <2>4, <2>5, <2>6, <4>1, SMTT(20)
    <3> QED BY <1>11, <2>4, <3>1
  <2>9. W(m0 + 7) = IF g0 <= n THEN g0 ELSE 0
    <3>1. /\ \A j \in (m0 + 7) + 1 .. g0 - 1 : t[j] = Blank
          /\ m0 + 7 \in Nat /\ m0 + 7 < g0
      <4>1. \A j \in (m0 + 7) + 1 .. g0 - 1 : j \in m0 + 7 .. g0 - 1
        BY <2>4
      <4> QED BY <2>4, <2>5, <4>1, SMTT(20)
    <3> QED BY <1>12, <2>4, <2>5, <3>1
  <2>10. B(g0) = IF h + 1 <= n THEN h + 1 ELSE 0
    <3>1. /\ \A j \in g0 + 1 .. (h + 1) - 1 : t[j] # Blank
          /\ t[h + 1] = Blank /\ h + 1 \in Nat /\ g0 < h + 1
      <4>1. /\ h + 1 \in h + 1 .. b0 - 1 /\ g0 < h + 1
            /\ \A j \in g0 + 1 .. (h + 1) - 1 : j \in g0 .. h
        BY <2>4, <2>5, <2>6, SMTT(20)
      <4> QED BY <2>4, <2>5, <2>6, <4>1, SMTT(20)
    <3> QED BY <1>11, <2>4, <3>1
  <2>11. W(h + 1) = IF b0 <= n THEN b0 ELSE 0
    <3>1. /\ \A j \in (h + 1) + 1 .. b0 - 1 : t[j] = Blank
          /\ h + 1 \in Nat /\ h + 1 < b0
      <4>1. \A j \in (h + 1) + 1 .. b0 - 1 : j \in h + 1 .. b0 - 1
        BY <2>4
      <4> QED BY <2>4, <2>5, <4>1, SMTT(20)
    <3> QED BY <1>12, <2>4, <2>5, <3>1
  <2>12. D(d + 7) = IF m0 + 6 <= n THEN m0 ELSE 0
    <3>1. ASSUME NEW p \in Int, p > d + 7, At(s, p, Default) PROVE m0 <= p /\ m0 + 6 <= n
      <4>1. t[p] # Blank /\ p + 6 <= n
        <5>1. p \in p .. p + 6
          OBVIOUS
        <5> QED BY <1>9, <3>1, <5>1
      <4>2. ~(p < m0)
        <5>1. p < m0 => p \in d + 7 .. m0 - 1
          BY <2>1, <2>4, <3>1, SMTT(20)
        <5> QED BY <2>5, <4>1, <5>1
      <4> QED BY <1>1, <2>4, <4>1, <4>2
    <3>2. d + 7 \in Nat
      BY <2>1
    <3>3. m0 + 6 <= n => At(s, m0, Default) /\ m0 > d + 7 /\ m0 \in Int
      BY <1>9, <2>1, <2>3, <2>4, <2>5
    <3> DEFINE f == D(d + 7)
    <3>4. \/ f = 0 /\ \A p \in Int : p > d + 7 => ~At(s, p, Default)
          \/ /\ f \in Nat /\ f > d + 7 /\ At(s, f, Default)
             /\ \A p \in Int : p > d + 7 /\ At(s, p, Default) => f <= p
      BY <1>8, <3>2
    <3> HIDE DEF f, d
    <3>5. f = IF m0 + 6 <= n THEN m0 ELSE 0
      <4>1. CASE f = 0
        BY <2>1, <3>3, <3>4, <4>1
      <4>2. CASE f # 0
        <5>1. f \in Int /\ f > d + 7 /\ At(s, f, Default) /\ f <= m0
              /\ m0 <= f /\ m0 + 6 <= n
          BY <3>1, <3>3, <3>4, <4>2
        <5> QED BY <2>4, <5>1
      <4> QED BY <4>1, <4>2
    <3> QED BY <3>5 DEF f
  <2>13. CASE B(d) = 0
    <3>1. m = d
      BY <2>13
    <3>2. W(B(g)) = w3
      BY <2>13, <3>1
    <3> QED BY <1>5, <3>2 DEF W, B, D
  <2>14. CASE B(d) # 0 /\ m = 0
    <3>1. W(B(g)) = w4
      BY <2>14
    <3> QED BY <1>5, <3>1 DEF W, B, D
  <2>15. CASE B(d) # 0 /\ m # 0
    <3>1. m = m0
      <4>1. B(d) = d + 7
        BY <2>7, <2>15
      <4> QED BY <2>12, <2>15, <4>1
    <3>2. CASE B(m0) = 0
      <4>1. W(B(g)) = w3
        BY <3>1, <3>2
      <4> QED BY <1>5, <4>1 DEF W, B, D
    <3>3. CASE B(m0) # 0
      <4>1. g = IF g0 <= n THEN g0 ELSE 0
        BY <2>8, <2>9, <3>1, <3>3
      <4>2. CASE g = 0
        <5>1. W(B(g)) = w2
          BY <4>2
        <5> QED BY <1>5, <5>1 DEF W, B, D
      <4>3. CASE g = g0 /\ B(g0) = 0
        <5>1. W(B(g)) = w1
          BY <4>3
        <5> QED BY <1>5, <5>1 DEF W, B, D
      <4>4. CASE g = g0 /\ B(g0) # 0
        <5>1. W(B(g)) = IF b0 <= n THEN b0 ELSE 0
          BY <2>10, <2>11, <4>4
        <5>2. ColumnOrNone(c, s, W(B(g)))
          <6>1. CASE b0 <= n
            <7>1. b0 \in 1 .. n /\ s[b0] # Blank
              BY <1>2, <2>4, <2>5, <6>1
            <7>2. ColumnOrNone(c, s, b0)
              BY <1>2, <2>3, <7>1 DEF ColumnOrNone, t
            <7> QED BY <5>1, <6>1, <7>2
          <6>2. CASE ~(b0 <= n)
            BY <1>4, <5>1, <6>2
          <6> QED BY <6>1, <6>2
        <5> QED BY <5>2 DEF W, B, D
      <4> QED BY <4>1, <4>2, <4>3, <4>4
    <3> QED BY <3>2, <3>3
  <2> QED BY <2>13, <2>14, <2>15
<1> QED BY <1>14, <1>15
-----------------------------------------------------------------------------
(* What has returned an address has read it, whole.                        *)
LEMMA AddressRead ==
  ASSUME NEW a \in [1 .. 4 -> UInt8], kind = "IPv4", text = Written("IPv4", a),
         WrittenInv, parsing = "returned"
  PROVE  addr = a
<1>1. IsAddress(kind, a) /\ Octets(kind) = 4 /\ a \in Seq(UInt8) /\ Len(a) = 4
  BY IPv4IsText DEF Octets, IsAddress
<1>2. addr \in Seq(UInt8) /\ Len(addr) = 4 /\ \A j \in 1 .. 4 : addr[j] = a[j]
  BY <1>1, ReturnedIs
<1> QED BY <1>1, <1>2, SeqEqual

(* A part of a text, and the part's beginning                              *)
LEMMA BeginningOfPart ==
  ASSUME NEW t \in Seq(Characters), NEW b \in Int, NEW e \in Int, NEW x \in Int,
         1 <= b, b <= x, x <= e, e <= Len(t)
  PROVE  /\ SubSeq(t, b, e) \in Seq(Characters)
         /\ x - b + 1 \in 1 .. Len(SubSeq(t, b, e))
         /\ SubSeq(t, b, x) = SubSeq(SubSeq(t, b, e), 1, x - b + 1)
<1> DEFINE w == SubSeq(t, b, e)
           m == x - b + 1
           u == SubSeq(t, b, x)
           v == SubSeq(w, 1, m)
<1>1. Len(t) \in Nat /\ b <= e + 1 /\ b <= x + 1 /\ x <= Len(t) /\ b >= 1
  BY LenProperties
<1>2. w \in Seq(Characters) /\ Len(w) = e - b + 1 /\ \A j \in 1 .. e - b + 1 : w[j] = t[b + j - 1]
  BY <1>1, PartIs
<1>3. u \in Seq(Characters) /\ Len(u) = m /\ \A j \in 1 .. m : u[j] = t[b + j - 1]
  BY <1>1, PartIs
<1> HIDE DEF w, u
<1>4. m \in 0 .. Len(w) /\ m \in 1 .. Len(w) /\ \A j \in 1 .. m : j \in 1 .. e - b + 1
  BY <1>2
<1>5. v \in Seq(Characters) /\ Len(v) = m /\ \A j \in 1 .. m : v[j] = w[j]
  BY <1>2, <1>4, PrefixIs
<1> HIDE DEF v, m
<1>6. u = v
  BY <1>2, <1>3, <1>4, <1>5, SeqEqual
<1> QED BY <1>2, <1>4, <1>6 DEF w, m, u, v

(* What has been read of a text, and of a word in it                       *)
IsBeginning(s, t, n) ==
  /\ t \in Seq(Characters) /\ s \in Seq(Characters) /\ n \in Nat /\ n <= Len(t)
  /\ Len(s) = n /\ \A j \in 1 .. n : s[j] = t[j]

ReadUpTo(t, n, b, x) ==
  /\ n \in Nat /\ n <= Len(t) /\ b \in Nat /\ b >= 1 /\ x \in Nat /\ b <= x /\ x <= n
  /\ x < n => t[x + 1] = Blank
  /\ \A j \in b .. x : t[j] # Blank

(* What begins as no address does is none, as far as a word of it is read. *)
LEMMA NoAddressIsBarren ==
  ASSUME NEW t \in Seq(Characters), NEW n, NEW b, NEW e, ReadUpTo(t, n, b, e),
         NoAddressAt(t, b)
  PROVE  Barren(SubSeq(t, b, e))
<1> DEFINE w == SubSeq(t, b, e)
<1>1. /\ b \in Nat /\ e \in Nat /\ b >= 1 /\ b <= e /\ e <= Len(t) /\ Len(t) \in Nat
      /\ t[b] # Blank
  <2>1. b \in b .. e
    BY DEF ReadUpTo
  <2> QED BY <2>1, LenProperties DEF ReadUpTo
<1>2. Len(w) = e - b + 1 /\ \A j \in 1 .. e - b + 1 : w[j] = t[b + j - 1]
  <2>1. b \in Int /\ e \in Int /\ b <= e + 1
    BY <1>1
  <2> QED BY <1>1, <2>1, PartIs
<1> SUFFICES Barren(w)
  OBVIOUS
<1> HIDE DEF w
<1>3. \A j \in b .. e : j - b + 1 \in 1 .. e - b + 1 /\ w[j - b + 1] = t[j]
  <2> SUFFICES ASSUME NEW j \in b .. e
               PROVE  j - b + 1 \in 1 .. e - b + 1 /\ w[j - b + 1] = t[j]
    OBVIOUS
  <2>1. j - b + 1 \in 1 .. e - b + 1 /\ b + (j - b + 1) - 1 = j
    BY <1>1
  <2> QED BY <1>2, <2>1
<1>4. CASE t[b] \notin 0 .. 9 \cup {Plus, Minus}
  <2>1. b \in b .. e /\ b - b + 1 = 1
    BY <1>1
  <2>2. w[1] = t[b]
    BY <1>3, <2>1
  <2> QED BY <1>1, <1>4, <2>2 DEF Barren
<1>5. CASE \E p \in b .. Len(t) - 1 :
             /\ t[p] = Separator /\ t[p + 1] = Separator
             /\ \A j \in b .. p - 1 : t[j] \notin {Blank, Separator}
  <2>1. PICK p \in b .. Len(t) - 1 :
             /\ t[p] = Separator /\ t[p + 1] = Separator
             /\ \A j \in b .. p - 1 : t[j] \notin {Blank, Separator}
    BY <1>5
  <2>2. ASSUME NEW j \in 1 .. Len(w), b + j - 1 < p PROVE w[j] # Separator
    <3>1. b + j - 1 \in b .. p - 1 /\ j \in 1 .. e - b + 1
      BY <1>1, <1>2, <2>2
    <3> QED BY <1>2, <2>1, <3>1
  <2>3. CASE p > e
    <3>1. \A j \in 1 .. Len(w) : b + j - 1 < p
      BY <1>1, <1>2, <2>3
    <3> QED BY <2>2, <3>1 DEF Barren
  <2>4. CASE p <= e
    <3> DEFINE k == p - b + 1
    <3>1. p \in b .. e
      BY <1>1, <2>4
    <3>2. k \in 1 .. Len(w) /\ w[k] = Separator
      BY <1>1, <1>2, <1>3, <2>1, <3>1
    <3>3. k = Len(w) \/ w[k + 1] = Separator
      <4>1. CASE p = e
        BY <1>1, <1>2, <4>1
      <4>2. CASE p # e
        <5>1. p + 1 \in b .. e /\ (p + 1) - b + 1 = k + 1
          BY <1>1, <3>1, <4>2
        <5>2. w[(p + 1) - b + 1] = t[p + 1]
          BY <1>3, <5>1
        <5> QED BY <2>1, <5>1, <5>2
      <4> QED BY <4>1, <4>2
    <3>4. \A j \in 1 .. k - 1 : w[j] # Separator
      <4>1. \A j \in 1 .. k - 1 : j \in 1 .. Len(w) /\ b + j - 1 < p
        BY <1>1, <1>2, <3>1
      <4> QED BY <2>2, <4>1
    <3> HIDE DEF k
    <3> QED BY <3>2, <3>3, <3>4 DEF Barren
  <2> QED BY <1>1, <2>3, <2>4
<1> QED BY <1>4, <1>5 DEF NoAddressAt

(* A word of a text's beginning, from where it begins on: as much as there *)
(* is of a word of the text                                                *)
LEMMA WordBegun ==
  ASSUME NEW s, NEW t, NEW n, IsBeginning(s, t, n),
         NEW from \in Nat, NEW b, b = from + 1, b <= n, s[b] # Blank
  PROVE  \E x : /\ Between(s, from, FindIn(s, <<Blank>>, from)) = SubSeq(t, b, x)
                /\ ReadUpTo(t, n, b, x)
<1> DEFINE f == FindIn(s, <<Blank>>, from)
           x == IF f = npos THEN n ELSE f
<1>1. Len(t) \in Nat /\ b \in Nat /\ b >= 1
      /\ t \in Seq(Characters) /\ s \in Seq(Characters) /\ n \in Nat /\ n <= Len(t)
  BY LenProperties DEF IsBeginning
<1>2. Len(s) = n /\ \A j \in 1 .. n : s[j] = t[j]
  BY DEF IsBeginning
<1>3. Blank \in Characters /\ f \in Int
  <2>1. Blank \in Characters
    BY DEF Blank, Characters
  <2>2. f \in Int
    BY <1>1, FoundIn
  <2> QED BY <2>1, <2>2
<1>4. \/ f + 1 = 0 /\ \A j \in b .. n : s[j] # Blank
      \/ /\ f \in Nat /\ f + 1 \in b .. n /\ s[f + 1] = Blank
         /\ \A j \in b .. f : s[j] # Blank
  <2>1. \/ f + 1 = 0 /\ \A j \in from + 1 .. Len(s) : s[j] # Blank
        \/ /\ f \in Nat /\ f + 1 \in from + 1 .. Len(s) /\ s[f + 1] = Blank
           /\ \A j \in from + 1 .. f : s[j] # Blank
    BY <1>1, <1>3, CharacterFound
  <2> HIDE DEF f
  <2> QED BY <1>1, <1>2, <2>1
<1>5. Between(s, from, f) = SubSeq(s, b, x)
  BY <1>2 DEF Between
<1> HIDE DEF f
<1>6. x \in Nat /\ b <= x /\ x <= n /\ (x < n => s[x + 1] = Blank)
      /\ \A j \in b .. x : s[j] # Blank
  <2>1. CASE f = npos
    <3>1. f + 1 = 0
      BY <2>1 DEF npos
    <3> QED BY <1>1, <1>4, <2>1, <3>1
  <2>2. CASE f # npos
    <3>1. f + 1 # 0
      BY <1>3, <2>2 DEF npos
    <3>2. f + 1 # b
      BY <1>4, <3>1
    <3> QED BY <1>1, <1>4, <2>2, <3>1, <3>2
  <2> QED BY <2>1, <2>2
<1> HIDE DEF x
<1>7. SubSeq(s, b, x) = SubSeq(t, b, x)
  <2> DEFINE u == SubSeq(s, b, x)
             v == SubSeq(t, b, x)
             l == x - b + 1
  <2>1. b \in Int /\ x \in Int /\ b >= 1 /\ x <= n /\ x <= Len(t) /\ b <= x + 1
    BY <1>1, <1>6
  <2>2. u \in Seq(Characters) /\ Len(u) = l /\ \A j \in 1 .. l : u[j] = s[b + j - 1]
    BY <1>1, <1>2, <2>1, PartIs
  <2>3. v \in Seq(Characters) /\ Len(v) = l /\ \A j \in 1 .. l : v[j] = t[b + j - 1]
    BY <1>1, <2>1, PartIs
  <2>4. \A j \in 1 .. l : b + j - 1 \in 1 .. n
    BY <1>1, <2>1
  <2> HIDE DEF u, v, l
  <2>5. \A j \in 1 .. l : u[j] = v[j]
    BY <1>2, <2>2, <2>3, <2>4
  <2>6. u = v
    BY <2>2, <2>3, <2>5, SeqEqual
  <2> QED BY <2>6 DEF u, v
<1>8. (x < n => t[x + 1] = Blank) /\ \A j \in b .. x : t[j] # Blank
  <2>1. (x < n => x + 1 \in 1 .. n) /\ \A j \in b .. x : j \in 1 .. n
    BY <1>1, <1>6
  <2> QED BY <1>2, <1>6, <2>1
<1> QED BY <1>1, <1>5, <1>6, <1>7, <1>8 DEF f, ReadUpTo

(* As much as has been read of the word from b to e                        *)
PartRead(t, n, b, x, e) ==
  /\ x = IF e < n THEN e ELSE n
  /\ \E u \in Seq(Characters) : \E m \in 1 .. Len(u) :
       u = SubSeq(t, b, e) /\ SubSeq(t, b, x) = SubSeq(u, 1, m)

LEMMA PartOfColumn ==
  ASSUME NEW t \in Seq(Characters), NEW n, NEW b, NEW x, ReadUpTo(t, n, b, x),
         NEW e \in Nat, WordAt(t, b, e)
  PROVE  PartRead(t, n, b, x, e)
<1>1. /\ Len(t) \in Nat /\ e <= Len(t) /\ b <= e /\ (e < Len(t) => t[e + 1] = Blank)
      /\ \A j \in b .. e : t[j] # Blank
  BY LenProperties DEF WordAt
<1>2. /\ n \in Nat /\ b \in Nat /\ x \in Nat /\ b >= 1 /\ b <= x /\ x <= n /\ n <= Len(t)
      /\ (x < n => t[x + 1] = Blank) /\ \A j \in b .. x : t[j] # Blank
  BY DEF ReadUpTo
<1>3. x <= e
  <2> SUFFICES ASSUME e < x PROVE FALSE
    BY <1>2
  <2>1. e + 1 \in b .. x /\ e < Len(t)
    BY <1>1, <1>2
  <2> QED BY <1>1, <1>2, <2>1
<1>4. x < n => x = e
  <2> SUFFICES ASSUME x < n, x # e PROVE FALSE
    OBVIOUS
  <2>1. x + 1 \in b .. e
    BY <1>1, <1>2, <1>3
  <2> QED BY <1>1, <1>2, <2>1
<1>5. x = IF e < n THEN e ELSE n
  BY <1>1, <1>2, <1>3, <1>4
<1>6. /\ SubSeq(t, b, e) \in Seq(Characters)
      /\ x - b + 1 \in 1 .. Len(SubSeq(t, b, e))
      /\ SubSeq(t, b, x) = SubSeq(SubSeq(t, b, e), 1, x - b + 1)
  <2>1. b \in Int /\ e \in Int /\ x \in Int /\ 1 <= b
    BY <1>2
  <2> QED BY <1>1, <1>2, <1>3, <2>1, BeginningOfPart
<1> QED BY <1>5, <1>6 DEF PartRead

(* So a text that is cut out of a table is no address, or what has been    *)
(* read of one in the interface's column.                                  *)
ColumnAt(t, column, b) ==
  \/ NoAddressAt(t, b)
  \/ \E e \in DOMAIN t :
       WordAt(t, b, e) /\ column = <<b, e>> /\ Dotted(SubSeq(t, b, e))

ReadOfColumn(w, t, column, n) ==
  /\ column # <<>>
  /\ w = SubSeq(t, column[1], IF column[2] < n THEN column[2] ELSE n)
  /\ \E u \in Seq(Characters) : \E m \in 1 .. Len(u) : Dotted(u) /\ w = SubSeq(u, 1, m)

LEMMA ColumnWord ==
  ASSUME NEW s, NEW t, NEW n, IsBeginning(s, t, n), NEW column,
         NEW from \in Nat, NEW b, b = from + 1, b <= n, s[b] # Blank,
         ColumnAt(t, column, b)
  PROVE  LET w == Between(s, from, FindIn(s, <<Blank>>, from))
         IN  Barren(w) \/ ReadOfColumn(w, t, column, n)
<1>1. t \in Seq(Characters) /\ DOMAIN t = 1 .. Len(t) /\ Len(t) \in Nat
  BY LenProperties DEF IsBeginning
<1>2. PICK x : /\ Between(s, from, FindIn(s, <<Blank>>, from)) = SubSeq(t, b, x)
               /\ ReadUpTo(t, n, b, x)
  BY WordBegun
<1>3. CASE NoAddressAt(t, b)
  BY <1>1, <1>2, <1>3, NoAddressIsBarren
<1>4. CASE \E e \in DOMAIN t :
             WordAt(t, b, e) /\ column = <<b, e>> /\ Dotted(SubSeq(t, b, e))
  <2>1. PICK e \in DOMAIN t :
             WordAt(t, b, e) /\ column = <<b, e>> /\ Dotted(SubSeq(t, b, e))
    BY <1>4
  <2>2. e \in Nat
    BY <1>1
  <2>3. PartRead(t, n, b, x, e)
    BY <1>1, <1>2, <2>1, <2>2, PartOfColumn
  <2>4. column[1] = b /\ column[2] = e /\ column # <<>>
    BY <2>1
  <2> QED BY <1>2, <2>1, <2>3, <2>4 DEF ReadOfColumn, PartRead
<1> QED BY <1>3, <1>4 DEF ColumnAt

(* What strToIpv4Addr returns of the text it is given of a table           *)
LEMMA ColumnIsRead ==
  ASSUME command \in Commands, command.system = "Windows",
         TextInv, FieldsRead, ReadInv, WrittenInv, kind = "IPv4", parsing = "returned",
         NEW n \in 1 .. Len(command.text), seen = SubSeq(command.text, 1, n),
         InterfaceBegin # npos,
         text = Between(seen, InterfaceBegin, FindIn(seen, <<Blank>>, InterfaceBegin))
  PROVE  /\ command.column # <<>> /\ text = ColumnRead
         /\ addr \in [1 .. 4 -> UInt8] /\ text = Written("IPv4", addr)
<1>1. command.text \in Seq(Characters) /\ TableIsLabelled(command)
  BY DefaultInterfaceAssumption, ColumnsAssumption
<1>2. n \in 0 .. Len(command.text) /\ n \in Nat /\ n <= Len(command.text)
  BY <1>1, LenProperties
<1>3. /\ seen \in Seq(Characters) /\ Len(seen) = n
      /\ \A j \in 1 .. n : seen[j] = command.text[j]
  BY <1>1, <1>2, PrefixIs
<1>4. InterfaceBegin \in Nat
  BY <1>3, InterfaceBeginIs
<1> DEFINE b == InterfaceBegin + 1
<1>5. ColumnOrNone(command, seen, b)
  <2> DEFINE d == DefaultPast(seen, 0)
             m == DefaultPast(seen, BlankPast(seen, d))
             g == WordPast(seen, BlankPast(seen, m))
  <2>1. ColumnOrNone(command, seen, WordPast(seen, BlankPast(seen, g)))
    BY <1>1, ColumnFound
  <2>2. WordPast(seen, BlankPast(seen, g)) = b
    BY DEF WordPast, BlankPast, DefaultPast, InterfaceBegin, GatewayEnd, NetmaskEnd, DestEnd
  <2> QED BY <2>1, <2>2
<1>6. b # 0 /\ b = InterfaceBegin + 1
  BY <1>4
<1> HIDE DEF b
<1>7. b <= n /\ seen[b] # Blank /\ ColumnAt(command.text, command.column, b)
  BY <1>2, <1>3, <1>5, <1>6 DEF ColumnOrNone, ColumnAt
<1>8. Barren(text) \/ ReadOfColumn(text, command.text, command.column, n)
  <2> DEFINE w == Between(seen, InterfaceBegin, FindIn(seen, <<Blank>>, InterfaceBegin))
  <2>1. IsBeginning(seen, command.text, n)
    BY <1>1, <1>2, <1>3 DEF IsBeginning
  <2>2. Barren(w) \/ ReadOfColumn(w, command.text, command.column, n)
    BY <1>4, <1>6, <1>7, <2>1, ColumnWord
  <2> QED BY <2>2
<1>9. ReadOfColumn(text, command.text, command.column, n)
  BY <1>8, BarrenIsRejected
<1>10. Dotted(text)
  BY <1>9, CutIsRejected DEF ReadOfColumn
<1>11. PICK a \in [1 .. 4 -> UInt8] : text = Written("IPv4", a)
  BY <1>10, DottedIsWritten DEF TextInv
<1>12. addr = a
  BY <1>11, AddressRead
<1> QED BY <1>3, <1>9, <1>11, <1>12 DEF ColumnRead, ReadOfColumn
-----------------------------------------------------------------------------
(* The C string that a string begins with: all of it before the first NUL  *)
LEMMA CStringIs ==
  ASSUME NEW s \in Seq(Characters)
  PROVE  \E z \in 0 .. Len(s) :
           /\ CString(s) = SubSeq(s, 1, z)
           /\ \A j \in 1 .. z : s[j] # NUL
           /\ z < Len(s) => s[z + 1] = NUL
<1> DEFINE f == FindIn(s, <<NUL>>, 0)
           z == IF f = npos THEN Len(s) ELSE f
<1>1. NUL \in Characters /\ Len(s) \in Nat /\ 0 + 1 = 1
  BY LenProperties DEF NUL, Characters
<1>2. \/ f + 1 = 0 /\ \A j \in 0 + 1 .. Len(s) : s[j] # NUL
      \/ /\ f \in Nat /\ f + 1 \in 0 + 1 .. Len(s) /\ s[f + 1] = NUL
         /\ \A j \in 0 + 1 .. f : s[j] # NUL
  BY <1>1, CharacterFound
<1>3. f \in Nat \/ f = npos
  BY <1>1, FindInIs, FirstIs DEF FindIn
<1>4. CString(s) = SubSeq(s, 1, z)
  BY <1>1 DEF CString, Between
<1> HIDE DEF f
<1>5. CASE f = npos
  <2>1. z = Len(s) /\ f + 1 = 0
    BY <1>5 DEF npos
  <2> QED BY <1>1, <1>2, <1>4, <2>1
<1>6. CASE f # npos
  <2>1. z = f /\ f \in Nat /\ f + 1 # 0
    BY <1>3, <1>6
  <2>2. f \in 0 .. Len(s) /\ f < Len(s) /\ s[f + 1] = NUL /\ \A j \in 1 .. f : s[j] # NUL
    BY <1>1, <1>2, <2>1
  <2> QED BY <1>4, <2>1, <2>2
<1> QED BY <1>5, <1>6

LEMMA NoNULIsCString ==
  ASSUME NEW s \in Seq(Characters \ {NUL})
  PROVE  s \in Seq(Characters) /\ CString(s) = s
<1>1. Len(s) \in Nat /\ \A j \in 1 .. Len(s) : s[j] \in Characters /\ s[j] # NUL
  BY LenProperties, ElementOfSeq
<1>2. s \in Seq(Characters)
  OBVIOUS
<1>3. PICK z \in 0 .. Len(s) :
           /\ CString(s) = SubSeq(s, 1, z)
           /\ z < Len(s) => s[z + 1] = NUL
  BY <1>2, CStringIs
<1>4. z = Len(s)
  <2>1. z < Len(s) => z + 1 \in 1 .. Len(s)
    BY <1>1
  <2> QED BY <1>1, <1>3, <2>1
<1>5. SubSeq(s, 1, z) = s
  <2> DEFINE u == SubSeq(s, 1, z)
  <2>1. u \in Seq(Characters) /\ Len(u) = z /\ \A j \in 1 .. z : u[j] = s[j]
    BY <1>2, PrefixIs
  <2> HIDE DEF u
  <2>2. u = s
    BY <1>2, <1>4, <2>1, SeqEqual
  <2> QED BY <2>2 DEF u
<1> QED BY <1>2, <1>3, <1>5

(* The buffer after fgets: n characters of the line, and NUL from there on *)
LineBuffer(o, t, n) ==
  /\ t \in Seq(Characters) /\ n \in Nat /\ n <= Len(t) /\ n < BufSize
  /\ o \in Seq(Characters) /\ Len(o) = BufSize
  /\ \A j \in 1 .. n : o[j] = t[j] /\ o[j] # NUL
  /\ \A j \in n + 1 .. BufSize : o[j] = NUL

LEMMA OutLineIsBuffer ==
  ASSUME command \in Commands, LineIsLabelled(command)
  PROVE  LineBuffer(OutLine, command.text,
                    IF Len(command.text) < BufSize THEN Len(command.text) ELSE BufSize - 1)
<1> DEFINE t == command.text
           n == IF Len(t) < BufSize THEN Len(t) ELSE BufSize - 1
           o == OutLine
<1>1. BufSize \in Nat /\ BufSize >= 1 /\ t \in Seq(Characters)
  BY DefaultInterfaceAssumption
<1>2. Len(t) \in Nat /\ DOMAIN t = 1 .. Len(t)
  BY <1>1, LenProperties
<1>3. \A j \in 1 .. Len(t) : t[j] # NUL
  BY <1>2 DEF LineIsLabelled
<1>4. o \in Seq(Characters) /\ o = [j \in 1 .. BufSize |->
             IF j < BufSize /\ j <= Len(t) THEN t[j] ELSE NUL]
  BY OutLineIs DEF OutLine
<1> HIDE DEF o, t
<1>5. DOMAIN o = 1 .. BufSize /\ DOMAIN o = 1 .. Len(o) /\ Len(o) \in Nat
  BY <1>4, LenProperties
<1>6. Len(o) = BufSize
  BY <1>1, <1>5
<1>7. n \in Nat /\ n <= Len(t) /\ n < BufSize
  BY <1>1, <1>2
<1>8. \A j \in 1 .. n : j \in 1 .. BufSize /\ j < BufSize /\ j <= Len(t) /\ j \in 1 .. Len(t)
  BY <1>1, <1>2, <1>7
<1>9. \A j \in n + 1 .. BufSize : j \in 1 .. BufSize /\ ~(j < BufSize /\ j <= Len(t))
  BY <1>1, <1>2
<1> HIDE DEF n
<1>10. LineBuffer(o, t, n)
  BY <1>1, <1>3, <1>4, <1>6, <1>7, <1>8, <1>9 DEF LineBuffer
<1> QED BY <1>10 DEF o, t, n

(* The C string that is cut out of the buffer from b on is a word of the   *)
(* line, as much as there is of it, or empty.                              *)
LEMMA NameIsWord ==
  ASSUME NEW o, NEW t, NEW n, LineBuffer(o, t, n), NEW from \in Nat, NEW b, b = from + 1
  PROVE  LET name == Between(o, from, FindIn(o, <<Blank>>, from))
         IN  \/ CString(name) = <<>>
             \/ \E x : CString(name) = SubSeq(t, b, x) /\ ReadUpTo(t, n, b, x)
<1> DEFINE f == FindIn(o, <<Blank>>, from)
           y == IF f = npos THEN BufSize ELSE f
           name == Between(o, from, f)
<1>1. /\ t \in Seq(Characters) /\ n \in Nat /\ n <= Len(t) /\ n < BufSize
      /\ o \in Seq(Characters) /\ Len(o) = BufSize /\ BufSize \in Nat
      /\ Len(t) \in Nat /\ b \in Nat /\ b >= 1
  BY LenProperties DEF LineBuffer
<1>2. /\ \A j \in 1 .. n : o[j] = t[j] /\ o[j] # NUL
      /\ \A j \in n + 1 .. BufSize : o[j] = NUL
  BY DEF LineBuffer
<1>3. Blank \in Characters /\ f \in Int
  <2>1. Blank \in Characters
    BY DEF Blank, Characters
  <2>2. f \in Int
    BY <1>1, FoundIn
  <2> QED BY <2>1, <2>2
<1>4. \/ f + 1 = 0 /\ \A j \in b .. BufSize : o[j] # Blank
      \/ /\ f \in Nat /\ f + 1 \in b .. BufSize /\ o[f + 1] = Blank
         /\ \A j \in b .. f : o[j] # Blank
  <2>1. \/ f + 1 = 0 /\ \A j \in from + 1 .. Len(o) : o[j] # Blank
        \/ /\ f \in Nat /\ f + 1 \in from + 1 .. Len(o) /\ o[f + 1] = Blank
           /\ \A j \in from + 1 .. f : o[j] # Blank
    BY <1>1, <1>3, CharacterFound, ZenonT(30)
  <2> HIDE DEF f
  <2> QED BY <1>1, <2>1
<1>5. name = SubSeq(o, b, y) /\ name \in Seq(Characters)
  <2>1. name = SubSeq(o, b, y)
    BY <1>1 DEF Between
  <2>2. f <= Len(o)
    BY <1>1, FoundIn
  <2>3. name \in Seq(Characters)
    <3> HIDE DEF f
    <3> QED BY <1>1, <1>3, <2>2, BetweenIs
  <2> QED BY <2>1, <2>3
<1>6. PICK z \in 0 .. Len(name) :
        /\ CString(name) = SubSeq(name, 1, z)
        /\ \A j \in 1 .. z : name[j] # NUL
        /\ z < Len(name) => name[z + 1] = NUL
  <2> HIDE DEF name
  <2> QED BY <1>5, CStringIs
<1> HIDE DEF f, name
<1>7. y \in Nat /\ y <= BufSize /\ (y < BufSize => o[y + 1] = Blank)
      /\ \A j \in b .. y : o[j] # Blank
  <2>1. CASE f = npos
    <3>1. f + 1 = 0
      BY <2>1 DEF npos
    <3> QED BY <1>1, <1>4, <2>1, <3>1
  <2>2. CASE f # npos
    <3>1. f + 1 # 0
      BY <1>3, <2>2 DEF npos
    <3> QED BY <1>1, <1>4, <2>2, <3>1
  <2> QED BY <2>1, <2>2
<1> HIDE DEF y
<1>8. Len(name) = IF b <= y THEN y - b + 1 ELSE 0
  <2>1. CASE b <= y
    <3>1. b \in Int /\ y \in Int /\ y <= Len(o) /\ b <= y + 1
      BY <1>1, <1>7, <2>1
    <3> QED BY <1>1, <1>5, <2>1, <3>1, PartIs
  <2>2. CASE ~(b <= y)
    <3>1. \A j \in b .. y : o[j] \in Characters
      BY <1>1, <1>7, <2>2
    <3>2. b \in Int /\ y \in Int
      BY <1>1, <1>7
    <3> QED BY <1>5, <2>2, <3>1, <3>2, SubSeqProperties
  <2> QED BY <2>1, <2>2
<1>9. z \in Nat
  BY <1>1, <1>7, <1>8
<1>10. CASE z = 0
  <2>1. SubSeq(name, 1, 0) \in Seq(Characters) /\ Len(SubSeq(name, 1, 0)) = 0
    BY <1>5, <1>6, <1>10, PrefixIs
  <2>2. CString(name) = <<>>
    BY <1>6, <1>10, <2>1, EmptyIs, SeqEqual
  <2> QED BY <2>2 DEF name, f
<1>11. CASE z # 0
  <2> DEFINE x == b + z - 1
  <2>1. /\ b <= y /\ Len(name) = y - b + 1 /\ z >= 1 /\ z <= y - b + 1
        /\ x \in Nat /\ b <= x /\ x <= y /\ x - b + 1 = z
    BY <1>1, <1>6, <1>7, <1>8, <1>9, <1>11
  <2>2. \A j \in 1 .. y - b + 1 : name[j] = o[b + j - 1]
    <3>1. b \in Int /\ y \in Int /\ y <= Len(o) /\ b <= y + 1
      BY <1>1, <1>7, <2>1
    <3> QED BY <1>1, <1>5, <3>1, PartIs
  <2> HIDE DEF x
  <2>3. x <= n
    <3> SUFFICES ASSUME n < x PROVE FALSE
      BY <1>1, <2>1
    <3>1. z \in 1 .. y - b + 1 /\ b + z - 1 = x /\ z \in 1 .. z
      BY <1>1, <1>7, <1>9, <2>1 DEF x
    <3>2. name[z] = o[x] /\ name[z] # NUL
      BY <1>6, <2>2, <3>1
    <3>3. x \in n + 1 .. BufSize
      BY <1>1, <1>7, <2>1
    <3> QED BY <1>2, <3>2, <3>3
  <2>4. x < n => t[x + 1] = Blank
    <3> SUFFICES ASSUME x < n PROVE t[x + 1] = Blank
      OBVIOUS
    <3>1. x + 1 \in 1 .. n
      BY <1>1, <2>1
    <3>2. x = y
      <4> SUFFICES ASSUME x < y PROVE FALSE
        BY <1>7, <2>1
      <4>1. z + 1 \in 1 .. y - b + 1 /\ b + (z + 1) - 1 = x + 1 /\ z < Len(name)
        BY <1>1, <1>7, <1>9, <2>1
      <4>2. name[z + 1] = o[x + 1] /\ name[z + 1] = NUL
        BY <1>6, <2>2, <4>1
      <4> QED BY <1>2, <3>1, <4>2
    <3> QED BY <1>1, <1>2, <1>7, <3>1, <3>2
  <2>5. \A j \in b .. x : t[j] # Blank
    <3>1. \A j \in b .. x : j \in 1 .. n /\ j \in b .. y
      BY <1>1, <1>7, <2>1, <2>3
    <3> QED BY <1>2, <1>7, <3>1
  <2>6. CString(name) = SubSeq(o, b, x)
    <3>1. b \in Int /\ x \in Int /\ y \in Int /\ y <= Len(o)
      BY <1>1, <1>7, <2>1
    <3>2. SubSeq(o, b, x) = SubSeq(SubSeq(o, b, y), 1, x - b + 1)
      BY <1>1, <2>1, <3>1, BeginningOfPart
    <3> QED BY <1>5, <1>6, <2>1, <3>2
  <2>7. SubSeq(o, b, x) = SubSeq(t, b, x)
    <3> DEFINE u == SubSeq(o, b, x)
               v == SubSeq(t, b, x)
               l == x - b + 1
    <3>1. b \in Int /\ x \in Int /\ x <= Len(o) /\ x <= Len(t) /\ b <= x + 1
      BY <1>1, <2>1, <2>3
    <3>2. u \in Seq(Characters) /\ Len(u) = l /\ \A j \in 1 .. l : u[j] = o[b + j - 1]
      BY <1>1, <3>1, PartIs
    <3>3. v \in Seq(Characters) /\ Len(v) = l /\ \A j \in 1 .. l : v[j] = t[b + j - 1]
      BY <1>1, <3>1, PartIs
    <3>4. \A j \in 1 .. l : b + j - 1 \in 1 .. n
      BY <1>1, <2>1, <2>3
    <3> HIDE DEF u, v, l
    <3>5. \A j \in 1 .. l : u[j] = v[j]
      BY <1>2, <3>2, <3>3, <3>4
    <3>6. u = v
      BY <3>2, <3>3, <3>5, SeqEqual
    <3> QED BY <3>6 DEF u, v
  <2>8. CString(name) = SubSeq(t, b, x) /\ ReadUpTo(t, n, b, x)
    BY <1>1, <2>1, <2>3, <2>4, <2>5, <2>6, <2>7 DEF ReadUpTo
  <2> QED BY <2>8 DEF name, f
<1> QED BY <1>10, <1>11

(* There is a "dev" in the buffer where there is one in the line.          *)
LEMMA DevInBuffer ==
  ASSUME NEW o, NEW t, NEW n, LineBuffer(o, t, n), NEW p \in Int
  PROVE  At(o, p, dev) <=> At(SubSeq(t, 1, n), p, dev)
<1> DEFINE line == SubSeq(t, 1, n)
           m == SubSeq(o, 1, n)
<1>1. /\ t \in Seq(Characters) /\ n \in 0 .. Len(t) /\ n < BufSize /\ n \in Nat
      /\ o \in Seq(Characters) /\ Len(o) = BufSize /\ BufSize \in Nat
      /\ n \in 0 .. Len(o)
  BY LenProperties DEF LineBuffer
<1>2. /\ \A j \in 1 .. n : o[j] = t[j]
      /\ \A j \in n + 1 .. BufSize : o[j] = NUL
  BY DEF LineBuffer
<1>3. line = m
  <2>1. line \in Seq(Characters) /\ Len(line) = n /\ \A j \in 1 .. n : line[j] = t[j]
    BY <1>1, PrefixIs
  <2>2. m \in Seq(Characters) /\ Len(m) = n /\ \A j \in 1 .. n : m[j] = o[j]
    BY <1>1, PrefixIs
  <2> HIDE DEF line, m
  <2> QED BY <1>2, <2>1, <2>2, SeqEqual
<1>4. Len(dev) = 3 /\ Len(dev) \in Nat /\ dev[3] = LetterV /\ p + Len(dev) - 1 = p + 2
  BY DEF dev
<1>5. At(m, p, dev) <=> At(o, p, dev) /\ p + 2 <= n
  <2>1. At(SubSeq(o, 1, n), p, dev) <=> At(o, p, dev) /\ p + Len(dev) - 1 <= n
    BY <1>1, <1>4, AtPrefix
  <2> QED BY <1>4, <2>1
<1>6. ASSUME At(o, p, dev) PROVE p + 2 <= n
  <2> SUFFICES ASSUME n < p + 2 PROVE FALSE
    BY <1>1
  <2> DEFINE q == p + 2
             u == SubSeq(o, p, q)
  <2>1. p >= 1 /\ q <= Len(o) /\ u = dev
    BY <1>4, <1>6 DEF At
  <2>2. q \in Int /\ p <= q + 1 /\ q - p + 1 = 3 /\ 3 \in 1 .. q - p + 1 /\ p + 3 - 1 = q
        /\ q \in n + 1 .. BufSize
    BY <1>1, <2>1
  <2> HIDE DEF q
  <2>3. \A j \in 1 .. q - p + 1 : u[j] = o[p + j - 1]
    BY <1>1, <2>1, <2>2, PartIs
  <2> HIDE DEF u
  <2>4. dev[3] = o[q]
    BY <2>1, <2>2, <2>3
  <2> QED BY <1>2, <1>4, <2>2, <2>4 DEF LetterV, NUL
<1> QED BY <1>3, <1>5, <1>6

(* A device whose name is taken from the line is the default interface's.  *)
LEMMA DeviceIsNamed ==
  ASSUME command \in Commands, command.system = "Linux", seen \in {<<>>, OutLine},
         NEW d \in Devices, d.name \in {inter, CString(inter)}
  PROVE  command.column # <<>> /\ d.name = ColumnRead
<1> DEFINE t == command.text
           n == IF Len(t) < BufSize THEN Len(t) ELSE BufSize - 1
           line == SubSeq(t, 1, n)
           o == OutLine
           f == FindIn(o, dev, 0)
           from == f + 4
           b == from + 1
           name == Between(o, from, FindIn(o, <<Blank>>, from))
<1>1. LineIsLabelled(command)
  BY ColumnsAssumption
<1>2. LineBuffer(o, t, n)
  BY <1>1, OutLineIsBuffer
<1>3. /\ d.name # <<>> /\ d.name \in Seq(Characters \ {NUL})
  <2>1. d.name \in Seq(Characters \ {Blank, NUL}) /\ Len(d.name) \in 1 .. IFNAMSIZ - 1
    BY DefaultInterfaceAssumption
  <2>2. Len(d.name) # 0
    BY <2>1
  <2> QED BY <2>1, <2>2, EmptyIs
<1>4. d.name = CString(inter)
  BY <1>3, NoNULIsCString
<1>5. seen = o /\ inter = name
  <2>1. CString(<<>>) = <<>>
    <3>1. <<>> \in Seq(Characters \ {NUL})
      OBVIOUS
    <3> QED BY <3>1, NoNULIsCString
  <2>2. seen # <<>>
    BY <1>3, <1>4, <2>1 DEF inter
  <2> QED BY <2>2 DEF inter, DeviceName
<1> HIDE DEF t, n, o
<1>6. /\ t \in Seq(Characters) /\ n \in Nat /\ n <= Len(t) /\ n < BufSize /\ BufSize \in Nat
      /\ o \in Seq(Characters) /\ Len(o) = BufSize /\ Len(t) \in Nat /\ DOMAIN t = 1 .. Len(t)
  BY <1>2, LenProperties DEF LineBuffer
<1>7. n \in 0 .. Len(t) /\ line \in Seq(Characters) /\ Len(line) = n /\ DOMAIN line = 1 .. n
  <2>1. n \in 0 .. Len(t)
    BY <1>6
  <2>2. line \in Seq(Characters) /\ Len(line) = n
    BY <1>6, <2>1, PrefixIs
  <2> HIDE DEF line
  <2> QED BY <2>1, <2>2, LenProperties
<1>8. \/ f + 1 = 0 /\ \A p \in Int : p > 0 => ~At(o, p, dev)
      \/ /\ f + 1 \in Nat /\ f + 1 > 0 /\ At(o, f + 1, dev)
         /\ \A p \in Int : p > 0 /\ At(o, p, dev) => f + 1 <= p
  <2>1. Len(dev) \in Nat
    BY DEF dev
  <2> QED BY <1>6, <2>1, WordFound
<1>9. f \in Int
  BY <1>6, FindInIs, FirstIs DEF FindIn, npos
<1>10. \A p \in Int : At(o, p, dev) <=> At(line, p, dev)
  BY <1>2, DevInBuffer
<1> HIDE DEF line, f
<1>11. from \in Nat /\ b \in Nat /\ b = f + 5
  BY <1>8, <1>9
<1>12. PICK x : d.name = SubSeq(t, b, x) /\ ReadUpTo(t, n, b, x)
  BY <1>2, <1>3, <1>4, <1>5, <1>11, NameIsWord
<1>13. x \in Nat /\ b <= x /\ x <= n /\ b >= 1 /\ (x < n => t[x + 1] = Blank)
       /\ \A j \in b .. x : t[j] # Blank
  BY <1>12 DEF ReadUpTo
<1>14. \A y \in Int : b <= y /\ y <= n => SubSeq(line, b, y) = SubSeq(t, b, y)
  <2> SUFFICES ASSUME NEW y \in Int, b <= y, y <= n
               PROVE  SubSeq(line, b, y) = SubSeq(t, b, y)
    OBVIOUS
  <2>1. b \in Int /\ b <= y + 1
    BY <1>11
  <2> QED BY <1>6, <1>7, <1>13, <2>1, PartOfPrefix DEF line
<1> HIDE DEF from, b, name
<1>15. CASE \E p \in DOMAIN line, e \in DOMAIN t :
              /\ FirstAt(line, p, dev) /\ WordAt(t, p + 4, e)
              /\ command.column = <<p + 4, e>>
              /\ e > Len(line) =>
                   \A g \in Devices : g.name # SubSeq(line, p + 4, Len(line))
  <2>1. PICK p \in DOMAIN line, e \in DOMAIN t :
              /\ FirstAt(line, p, dev) /\ WordAt(t, p + 4, e)
              /\ command.column = <<p + 4, e>>
              /\ e > Len(line) =>
                   \A g \in Devices : g.name # SubSeq(line, p + 4, Len(line))
    BY <1>15
  <2>2. p \in Int /\ p >= 1 /\ At(line, p, dev) /\ \A q \in 1 .. p - 1 : ~At(line, q, dev)
    BY <1>7, <2>1 DEF FirstAt
  <2>3. f + 1 = p
    <3>1. f + 1 # 0 /\ f + 1 <= p
      BY <1>8, <1>10, <2>2
    <3>2. f + 1 < p => f + 1 \in 1 .. p - 1 /\ f + 1 \in Int
      BY <1>8, <1>9, <2>2, <3>1
    <3> QED BY <1>8, <1>9, <1>10, <2>2, <3>1, <3>2
  <2>4. b = p + 4
    BY <1>9, <1>11, <2>2, <2>3
  <2>5. e \in Nat /\ e <= Len(t)
    BY <1>6
  <2>6. x = IF e < n THEN e ELSE n
    BY <1>6, <1>12, <2>1, <2>4, <2>5, PartOfColumn, SMTT(20) DEF PartRead
  <2>7. e <= n
    <3> SUFFICES ASSUME n < e PROVE FALSE
      BY <1>6, <2>5
    <3>1. x = n /\ n \in Int /\ b <= n
      BY <1>6, <1>13, <2>5, <2>6
    <3>2. d.name = SubSeq(line, p + 4, Len(line))
      <4>1. d.name = SubSeq(t, b, n)
        BY <1>12, <3>1
      <4>2. SubSeq(line, b, n) = SubSeq(t, b, n)
        <5>1. n \in Int /\ b <= n /\ n <= n
          BY <3>1
        <5> QED BY <1>14, <5>1, Zenon
      <4> QED BY <1>7, <2>4, <4>1, <4>2
    <3> QED BY <1>7, <2>1, <3>2
  <2>8. x = e /\ e < Len(seen)
    BY <1>5, <1>6, <2>5, <2>6, <2>7
  <2>9. ColumnRead = SubSeq(t, b, e)
    <3>1. command.column[1] = b /\ command.column[2] = e
      BY <2>1, <2>4
    <3> QED BY <2>8, <3>1 DEF ColumnRead, t
  <2> QED BY <1>12, <2>1, <2>8, <2>9
<1>16. CASE /\ \A p \in DOMAIN line : ~At(line, p, dev)
            /\ \A g \in Devices, e \in DOMAIN line :
                 WordAt(line, 4, e) => g.name # SubSeq(line, 4, e)
  <2>1. f + 1 = 0
    <3> SUFFICES ASSUME f + 1 # 0 PROVE FALSE
      OBVIOUS
    <3>1. f + 1 \in Int /\ f + 1 > 0 /\ At(line, f + 1, dev)
      BY <1>8, <1>10
    <3>2. f + 1 \in DOMAIN line
      <4>1. Len(dev) = 3
        BY DEF dev
      <4> QED BY <1>7, <1>6, <3>1, <4>1 DEF At
    <3> QED BY <1>16, <3>1, <3>2
  <2>2. b = 4
    BY <1>9, <1>11, <2>1
  <2>3. x \in DOMAIN line
    BY <1>6, <1>7, <1>11, <1>13
  <2>4. \A j \in 1 .. n : line[j] = t[j]
    BY <1>6, <1>7, PrefixIs DEF line
  <2>5. WordAt(line, 4, x)
    <3>1. /\ 1 <= 4 /\ 4 <= x /\ x <= Len(line)
          /\ \A j \in 4 .. x : j \in 1 .. n
          /\ x < Len(line) => x + 1 \in 1 .. n
      BY <1>6, <1>7, <1>13, <2>2
    <3> QED BY <1>7, <1>13, <2>2, <2>4, <3>1 DEF WordAt
  <2>6. d.name = SubSeq(line, 4, x)
    BY <1>12, <1>13, <1>14, <2>2
  <2> QED BY <1>16, <2>3, <2>5, <2>6
<1> QED BY <1>1, <1>15, <1>16 DEF LineIsLabelled, t, n, line
-----------------------------------------------------------------------------
(* On Linux a parser is given what the device says that the line names, or *)
(* nothing where there is no such file.                                    *)
NothingRead == wanted = "MAC" /\ kind = "MAC" /\ text = <<>>

DeviceRead(d) ==
  /\ d.name \in {inter, CString(inter)}
  /\ IF wanted = "IPv4"
       THEN kind = "IPv4" /\ d.ipv4 # <<>> /\ text = Written("IPv4", d.ipv4)
       ELSE kind = "MAC" /\ text = Written("MAC", d.mac)

LinuxInv ==
  command.system = "Linux" =>
    /\ stage \in {"asking", "named", "parsing", "zeros"}
    /\ wanted \in {"IPv4", "MAC"} /\ seen \in {<<>>, OutLine}
    /\ stage = "parsing" => NothingRead \/ \E d \in Devices : DeviceRead(d)

LEMMA InitLinux == (LookupInit \/ NoLookupInit) => LinuxInv
BY DEF LookupInit, NoLookupInit, LinuxInv

LEMMA StepLinux == LinuxInv /\ [LookupNext]_lookupVars => LinuxInv'
<1> SUFFICES ASSUME LinuxInv, [LookupNext]_lookupVars, command'.system = "Linux"
             PROVE  LinuxInv'
  BY DEF LinuxInv
<1>1. command' = command /\ wanted' = wanted
  BY DEF LookupNext, LookupStep, ReadRoutes, PopenFails, Spawn, ReadFile, Reads, Goes,
         AskAddress, NoAddress, ReadAddressFile, Waits, FindColumns, NoColumn,
         NoDefault, Failure, Allocate, AskSize, AdaptersChange, Fill, FillFails,
         NoAdapter, CopyMAC, ParserStep, lookupVars, hostVars
<1>2. /\ command.system = "Linux" /\ OutLine' = OutLine
      /\ stage \in {"asking", "named", "parsing", "zeros"}
      /\ wanted \in {"IPv4", "MAC"} /\ seen \in {<<>>, OutLine}
      /\ stage = "parsing" => NothingRead \/ \E d \in Devices : DeviceRead(d)
  BY <1>1 DEF LinuxInv, OutLine
<1>3. CASE ReadRoutes
  BY <1>1, <1>2, <1>3 DEF ReadRoutes, Reads, LinuxInv
<1>4. CASE PopenFails \/ NoAddress
  BY <1>1, <1>2, <1>4 DEF PopenFails, NoAddress, Goes, LinuxInv
<1>5. CASE AskAddress
  <2>1. PICK d \in Devices : Named(d) /\ Parse("IPv4", Written("IPv4", d.ipv4))
    BY <1>5 DEF AskAddress
  <2>2. /\ wanted = "IPv4" /\ seen' = seen /\ stage' = "parsing"
        /\ kind' = "IPv4" /\ text' = Written("IPv4", d.ipv4)
    BY <1>5, <2>1 DEF AskAddress, Waits, Parse
  <2>3. inter' = inter
    BY <2>2 DEF inter
  <2>4. DeviceRead(d)'
    BY <1>1, <2>1, <2>2, <2>3 DEF DeviceRead, Named
  <2> QED BY <1>1, <1>2, <2>2, <2>4 DEF LinuxInv
<1>6. CASE ReadAddressFile
  <2>1. wanted = "MAC" /\ seen' = seen /\ stage' = "parsing"
    BY <1>6 DEF ReadAddressFile, Waits
  <2>2. inter' = inter
    BY <2>1 DEF inter
  <2>3. CASE \E d \in Devices : d.name = inter /\ Parse("MAC", Written("MAC", d.mac))
    <3>1. PICK d \in Devices : d.name = inter /\ Parse("MAC", Written("MAC", d.mac))
      BY <2>3
    <3>2. DeviceRead(d)'
      BY <1>1, <2>1, <2>2, <3>1 DEF DeviceRead, Parse
    <3> QED BY <1>1, <1>2, <2>1, <3>2 DEF LinuxInv
  <2>4. CASE Parse("MAC", <<>>)
    <3>1. NothingRead'
      BY <1>1, <2>1, <2>4 DEF NothingRead, Parse
    <3> QED BY <1>1, <1>2, <2>1, <3>1 DEF LinuxInv
  <2> QED BY <1>6, <2>3, <2>4 DEF ReadAddressFile
<1>7. CASE ParserStep \/ UNCHANGED lookupVars
  <2>1. UNCHANGED <<stage, seen, kind, text>>
    BY <1>7 DEF ParserStep, Next, Reject, ReadOctet, Return, lookupVars, addressVars
  <2>2. inter' = inter
    BY <2>1 DEF inter
  <2>3. NothingRead' = NothingRead /\ \A d : DeviceRead(d)' = DeviceRead(d)
    BY <1>1, <2>1, <2>2 DEF NothingRead, DeviceRead
  <2> QED BY <1>1, <1>2, <2>1, <2>3 DEF LinuxInv
<1>8. CASE Failure
  BY <1>1, <1>2, <1>8 DEF Failure, HasAddress, Goes, LinuxInv
<1>9. ~(\/ Spawn \/ ReadFile \/ FindColumns \/ NoColumn \/ NoDefault \/ Allocate
        \/ AskSize \/ AdaptersChange \/ Fill \/ FillFails \/ NoAdapter \/ CopyMAC)
  BY <1>2 DEF Spawn, ReadFile, FindColumns, NoColumn, NoDefault, Allocate,
              AskSize, AdaptersChange, Fill, FillFails, NoAdapter, CopyMAC, HasAddress
<1> QED BY <1>3, <1>4, <1>5, <1>6, <1>7, <1>8, <1>9 DEF LookupNext, LookupStep

(* On Windows it is given what is in a column of what was read.            *)
Later == {"parsing", "sizing", "resizing", "filling", "searching", "found"}

TableRead == \E n \in 1 .. Len(command.text) : seen = SubSeq(command.text, 1, n)

ColumnGiven ==
  /\ kind = "IPv4" /\ InterfaceBegin # npos
  /\ text = Between(seen, InterfaceBegin, FindIn(seen, <<Blank>>, InterfaceBegin))

AdapterFound ==
  \E k \in DOMAIN adapters :
    Written("IPv4", addr) \in adapters[k].ips /\ adapters[k].mac = default_mac

WindowsInv ==
  command.system = "Windows" =>
    /\ stage \in {"asking", "reading", "read", "zeros", "out_of_range"} \cup Later
    /\ stage \in {"read"} \cup Later => TableRead
    /\ stage \in Later => ColumnGiven
    /\ stage \in Later \ {"parsing"} => parsing = "returned"
    /\ adapters \in Adapters \cup {<<>>}
    /\ stage = "found" => AdapterFound

LEMMA InitWindows == (LookupInit \/ NoLookupInit) => WindowsInv
BY DEF LookupInit, NoLookupInit, NothingAllocated, WindowsInv, Later

LEMMA FirstCandidate ==
  ASSUME adapters \in Adapters \cup {<<>>}, Candidates # {}
  PROVE  default_adapter \in Candidates
<1>1. \E S : adapters \in Seq(S)
  <2>1. Adapters \subseteq Seq([ips : SUBSET Seq(Characters), mac : Seq(UInt8)])
    BY DefaultInterfaceAssumption
  <2> QED BY <2>1, EmptyIs
<1>2. DOMAIN adapters \subseteq Nat
  <2>1. PICK S : adapters \in Seq(S)
    BY <1>1
  <2>2. DOMAIN adapters = 1 .. Len(adapters)
    BY <2>1, LenProperties
  <2> QED BY <2>2
<1>3. Candidates \in SUBSET Nat
  BY <1>2 DEF Candidates
<1>4. \E k \in Candidates : \A l \in Candidates : k <= l
  BY <1>3, LeastOf
<1> QED BY <1>4 DEF default_adapter

LEMMA StepWindows == WindowsInv /\ [LookupNext]_lookupVars => WindowsInv'
<1> SUFFICES ASSUME WindowsInv, [LookupNext]_lookupVars, command'.system = "Windows"
             PROVE  WindowsInv'
  BY DEF WindowsInv
<1>1. command' = command
  BY DEF LookupNext, LookupStep, ReadRoutes, PopenFails, Spawn, ReadFile, Reads, Goes,
         AskAddress, NoAddress, ReadAddressFile, Waits, FindColumns, NoColumn,
         NoDefault, Failure, Allocate, AskSize, AdaptersChange, Fill, FillFails,
         NoAdapter, CopyMAC, ParserStep, lookupVars, hostVars
<1>2. /\ command.system = "Windows"
      /\ stage \in {"asking", "reading", "read", "zeros", "out_of_range"} \cup Later
      /\ stage \in {"read"} \cup Later => TableRead
      /\ stage \in Later => ColumnGiven
      /\ stage \in Later \ {"parsing"} => parsing = "returned"
      /\ adapters \in Adapters \cup {<<>>}
      /\ stage = "found" => AdapterFound
  BY <1>1 DEF WindowsInv
<1>3. seen' = seen => TableRead' = TableRead /\ InterfaceBegin' = InterfaceBegin
  BY <1>1 DEF TableRead, InterfaceBegin, GatewayEnd, NetmaskEnd, DestEnd
<1>4. seen' = seen /\ kind' = kind /\ text' = text => ColumnGiven' = ColumnGiven
  BY <1>3 DEF ColumnGiven
(* To a stage that has neither a table nor an address                      *)
<1>5. ASSUME stage' \in {"zeros", "out_of_range", "reading"}, adapters' = adapters
      PROVE  WindowsInv'
  BY <1>2, <1>5 DEF WindowsInv, Later
(* To a stage that has the address, from one that has                      *)
<1>6. ASSUME stage \in Later, parsing = "returned",
             stage' \in {"sizing", "resizing", "filling", "searching", "found"},
             UNCHANGED <<addressVars, seen>>, adapters' \in Adapters \cup {<<>>},
             stage' = "found" => AdapterFound'
      PROVE  WindowsInv'
  <2>1. kind' = kind /\ text' = text /\ parsing' = parsing
    BY <1>6 DEF addressVars
  <2> QED BY <1>2, <1>3, <1>4, <1>6, <2>1 DEF WindowsInv, Later
<1>7. CASE Spawn \/ NoColumn \/ NoDefault \/ FillFails \/ NoAdapter \/ Failure
  BY <1>5, <1>7 DEF Spawn, NoColumn, NoDefault, FillFails, NoFit, NoAdapter, Failure, Goes,
                    heapVars
<1>8. CASE ReadFile
  <2>1. PICK n \in 1 .. ChunkSize :
          n <= Len(command.text) /\ seen' = SubSeq(command.text, 1, n)
    BY <1>8 DEF ReadFile
  <2>2. command.text' = command.text /\ adapters' = adapters /\ stage' = "read"
    BY <1>1, <1>8 DEF ReadFile, Reads, heapVars
  <2>3. Len(command.text) \in Int => n \in 1 .. Len(command.text)
    BY <2>1
  <2> QED BY <1>1, <1>2, <2>1, <2>2, <2>3 DEF WindowsInv, Later, TableRead
<1>9. CASE FindColumns
  <2>1. /\ seen' = seen /\ stage' = "parsing" /\ adapters' = adapters /\ stage = "read"
        /\ InterfaceBegin # npos
        /\ kind' = "IPv4"
        /\ text' = Between(seen, InterfaceBegin, FindIn(seen, <<Blank>>, InterfaceBegin))
    BY <1>9 DEF FindColumns, Waits, Parse, heapVars
  <2>2. ColumnGiven'
    BY <1>3, <2>1 DEF ColumnGiven
  <2> QED BY <1>2, <1>3, <2>1, <2>2 DEF WindowsInv, Later
<1>10. CASE Allocate
  <2>1. stage \in Later /\ parsing = "returned"
    BY <1>2, <1>10 DEF Allocate, HasAddress, Later
  <2> QED BY <1>2, <1>6, <1>10, <2>1 DEF Allocate, Goes
<1>11. CASE AskSize \/ AdaptersChange
  <2>1. stage \in {"sizing", "resizing", "filling"} /\ adapters' \in Adapters
    BY <1>11 DEF AskSize, AdaptersChange
  <2>2. stage \in Later /\ parsing = "returned"
    BY <1>2, <2>1 DEF Later
  <2> QED BY <1>6, <1>11, <2>1, <2>2 DEF AskSize, AdaptersChange, Goes
<1>12. CASE Fill
  <2>1. stage \in Later /\ parsing = "returned"
    BY <1>2, <1>12 DEF Fill, Later
  <2> QED BY <1>2, <1>6, <1>12, <2>1 DEF Fill, Goes, heapVars
<1>13. CASE CopyMAC
  <2>1. /\ stage \in Later /\ parsing = "returned" /\ Candidates # {}
        /\ default_mac' = adapters[default_adapter].mac /\ stage' = "found"
        /\ adapters' = adapters /\ UNCHANGED <<addressVars, seen>>
    BY <1>2, <1>13 DEF CopyMAC, Goes, Later
  <2>2. default_adapter \in Candidates
    BY <1>2, <2>1, FirstCandidate
  <2>3. addr' = addr
    BY <2>1 DEF addressVars
  <2>4. AdapterFound'
    BY <2>1, <2>2, <2>3 DEF AdapterFound, Candidates
  <2> QED BY <1>2, <1>6, <2>1, <2>4
<1>14. CASE ParserStep
  <2>1. /\ UNCHANGED <<stage, seen, adapters, default_mac, kind, text>>
        /\ parsing = "reading"
    BY <1>14 DEF ParserStep, Next, Reject, ReadOctet, Return, heapVars
  <2>2. stage \notin Later \ {"parsing"}
    BY <1>2, <2>1
  <2> QED BY <1>2, <1>3, <1>4, <2>1, <2>2 DEF WindowsInv, Later
<1>15. CASE UNCHANGED lookupVars
  <2>1. /\ UNCHANGED <<stage, seen, adapters, default_mac, kind, text, parsing, addr>>
    BY <1>15 DEF lookupVars, addressVars, heapVars
  <2>2. AdapterFound' = AdapterFound
    BY <2>1 DEF AdapterFound
  <2> QED BY <1>2, <1>3, <1>4, <2>1, <2>2 DEF WindowsInv, Later
<1>16. ~(ReadRoutes \/ PopenFails \/ AskAddress \/ NoAddress \/ ReadAddressFile)
  BY <1>2 DEF ReadRoutes, PopenFails, AskAddress, NoAddress, ReadAddressFile, Later
<1> QED BY <1>7, <1>8, <1>9, <1>10, <1>11, <1>12, <1>13, <1>14, <1>15, <1>16
        DEF LookupNext, LookupStep

-----------------------------------------------------------------------------
(* Of no text at all no address is read.                                   *)
LEMMA NothingIsNoAddress ==
  ASSUME TextInv, FieldsRead, ReadInv, kind = "MAC", text = <<>>
  PROVE  parsing # "returned"
<1> SUFFICES ASSUME parsing = "returned" PROVE FALSE
  OBVIOUS
<1>1. i = 6 /\ Cardinality(Before(prev_pos)) = 6 /\ prev_pos \in Boundaries
  BY DEF FieldsRead, Octets
<1>2. Boundaries = {-1, 0}
  <2>1. 0 .. Len(text) - 1 = {} /\ Len(text) = 0
    OBVIOUS
  <2> QED BY <2>1 DEF Boundaries
<1>3. CASE prev_pos = 0
  BY <1>2, <1>3 DEF ReadInv
<1>4. CASE prev_pos = -1
  <2>1. Before(prev_pos) = {}
    BY <1>2, <1>4 DEF Before
  <2> QED BY <1>1, <2>1, FS_EmptySet
<1> QED BY <1>1, <1>2, <1>3, <1>4

LEMMA MACRead ==
  ASSUME NEW a \in Seq(UInt8), kind = "MAC", text = Written("MAC", a), text # <<>>,
         WrittenInv, parsing = "returned"
  PROVE  addr = FirstSix(a)
<1>1. Len(a) >= 1
  <2> SUFFICES ASSUME Len(a) < 1 PROVE FALSE
    BY LenProperties
  <2> DEFINE c(j) == IF j % 3 = 0 THEN Separator ELSE Hexadecimal(a[j \div 3 + 1])[j % 3]
  <2>1. Len(a) = 0
    BY LenProperties
  <2>2. 3 * Len(a) - 1 = -1 /\ 1 .. -1 = 1 .. 0
    BY <2>1
  <2>3. Written("MAC", a) = [j \in 1 .. 0 |-> c(j)]
    BY <2>2 DEF Written, WrittenMAC
  <2> HIDE DEF c
  <2>4. [j \in 1 .. 0 |-> c(j)] \in [1 .. 0 -> Characters]
    OBVIOUS
  <2>5. [j \in 1 .. 0 |-> c(j)] \in Seq(Characters) /\ Len([j \in 1 .. 0 |-> c(j)]) = 0
    BY <2>4, ListIsSeq
  <2>6. [j \in 1 .. 0 |-> c(j)] = <<>>
    BY <2>5, EmptyIs, SeqEqual
  <2> QED BY <2>3, <2>6
<1>2. IsAddress(kind, a) /\ Octets(kind) = 6
  BY <1>1 DEF IsAddress, Octets
<1>3. Len(a) >= 6 /\ addr \in Seq(UInt8) /\ Len(addr) = 6 /\ \A j \in 1 .. 6 : addr[j] = a[j]
  BY <1>2, ReturnedIs
<1> DEFINE u == SubSeq(a, 1, 6)
<1>4. u \in Seq(UInt8) /\ Len(u) = 6 /\ \A j \in 1 .. 6 : u[j] = a[j]
  <2>1. 6 \in 0 .. Len(a)
    BY <1>3, LenProperties
  <2> QED BY <2>1, PrefixIs
<1> HIDE DEF u
<1>5. addr = u
  <2>1. Len(addr) = Len(u) /\ \A j \in 1 .. Len(addr) : addr[j] = u[j]
    BY <1>3, <1>4
  <2>2. addr \in Seq(UInt8) /\ u \in Seq(UInt8)
    BY <1>3, <1>4
  <2> QED BY ONLY <2>1, <2>2, SeqEqual
<1> QED BY <1>5 DEF u, FirstSix

(* A lookup never returns the address of another interface than the        *)
(* default one, of whatever the host prints that is laid out as            *)
(* ColumnsAssumption says: not of a line that the buffer cuts off, nor of  *)
(* a table that is read in part, nor of a device or an adapter that has    *)
(* another name or address.                                                *)
THEOREM AddressIsOfTheInterface == LookupSpec => []AddressIsTheInterfaces
<1>1. /\ HostInv /\ TextInv /\ FieldsRead /\ ReadInv /\ WrittenInv
      /\ LinuxInv /\ WindowsInv
      => AddressIsTheInterfaces
  <2> SUFFICES ASSUME HostInv, TextInv, FieldsRead, ReadInv, WrittenInv, LinuxInv, WindowsInv
               PROVE  AddressIsTheInterfaces
    OBVIOUS
  <2>1. ASSUME Parsed, command.system = "Linux"
        PROVE  /\ command.column # <<>>
               /\ \E d \in Devices :
                    /\ d.name = ColumnRead
                    /\ addr = IF wanted = "IPv4" THEN d.ipv4 ELSE FirstSix(d.mac)
    <3>1. /\ command \in Commands /\ stage = "parsing" /\ parsing = "returned"
          /\ wanted \in {"IPv4", "MAC"} /\ seen \in {<<>>, OutLine}
          /\ NothingRead \/ \E d \in Devices : DeviceRead(d)
      BY <2>1 DEF Parsed, HostInv, LinuxInv
    <3>2. ~NothingRead
      BY <3>1, NothingIsNoAddress DEF NothingRead
    <3>3. PICK d \in Devices : DeviceRead(d)
      BY <3>1, <3>2
    <3>4. command.column # <<>> /\ d.name = ColumnRead
      BY <2>1, <3>1, <3>3, DeviceIsNamed DEF DeviceRead
    <3>5. d.ipv4 \in [1 .. 4 -> UInt8] \cup {<<>>} /\ d.mac \in Seq(UInt8)
      BY DefaultInterfaceAssumption
    <3>6. CASE wanted = "IPv4"
      <4>1. addr = d.ipv4
        BY <3>1, <3>3, <3>5, <3>6, AddressRead DEF DeviceRead
      <4> QED BY <3>4, <3>6, <4>1
    <3>7. CASE wanted # "IPv4"
      <4>1. kind = "MAC" /\ text = Written("MAC", d.mac)
        BY <3>3, <3>7 DEF DeviceRead
      <4>2. addr = FirstSix(d.mac)
        BY <3>1, <3>5, <4>1, NothingIsNoAddress, MACRead
      <4> QED BY <3>4, <3>7, <4>2
    <3> QED BY <3>6, <3>7
  <2>2. ASSUME Parsed \/ stage = "found", command.system = "Windows"
        PROVE  /\ command.column # <<>>
               /\ text = ColumnRead
               /\ stage = "found" =>
                    \E k \in DOMAIN adapters :
                      ColumnRead \in adapters[k].ips /\ adapters[k].mac = default_mac
    <3>1. /\ command \in Commands /\ parsing = "returned" /\ TableRead /\ ColumnGiven
          /\ stage = "found" => AdapterFound
      BY <2>2 DEF Parsed, HostInv, WindowsInv, Later
    <3>2. PICK n \in 1 .. Len(command.text) : seen = SubSeq(command.text, 1, n)
      BY <3>1 DEF TableRead
    <3>3. command.column # <<>> /\ text = ColumnRead /\ text = Written("IPv4", addr)
      BY <2>2, <3>1, <3>2, ColumnIsRead DEF ColumnGiven
    <3> QED BY <3>1, <3>3 DEF AdapterFound
  <2> QED BY <2>1, <2>2 DEF AddressIsTheInterfaces
<1> QED BY <1>1, InitHost, StepHost, InitText, StepText, InitFields, StepFields,
           InitRead, StepRead, InitWritten, StepWritten, InitLinux, StepLinux,
           InitWindows, StepWindows, PTL
        DEF LookupSpec
-----------------------------------------------------------------------------
(* Of a few characters std::stoi makes a number, if it finds a digit.      *)
LEMMA StoiIs ==
  ASSUME NEW s \in Seq(Characters), Len(s) \in 1 .. 3, NEW base \in {10, 16},
         Digits(s, base) # <<>>
  PROVE  Stoi(s, base) \in Int
<1>0. Len(s) \in Nat /\ Len(s) <= 3
  <2>1. \A x \in 1 .. 3 : x \in Nat /\ x <= 3
    OBVIOUS
  <2> QED BY <2>1, Zenon
<1> DEFINE u == Unblanked[s]
           v == Unsigned[u]
           l == Leading(v, 0 .. base - 1)
           d == Digits(s, base)
           leading == [w \in Seq(Characters) |-> SubSeq(w, 1, Leading(w, 0 .. base - 1))]
<1>1. u \in Seq(Characters) /\ Len(u) <= 3
  <2> DEFINE k == Leading(s, {Blank}) + 1
             n == Len(s)
  <2>1. n \in Nat /\ n <= 3 /\ k \in 1 .. n + 1
    <3> DEFINE m == Leading(s, {Blank})
    <3>1. m \in 0 .. Len(s)
      BY LeadingIs
    <3>2. n \in Nat /\ n <= 3
      BY <1>0
    <3> HIDE DEF m, n
    <3>3. m \in 0 .. n
      BY <3>1 DEF n
    <3> QED BY <3>2, <3>3 DEF m
  <2>2. u = SubSeq(s, k, n)
    BY DEF Unblanked
  <2> HIDE DEF k
  <2>3. SubSeq(s, k, n) \in Seq(Characters) /\ Len(SubSeq(s, k, n)) = n - k + 1
    <3>1. k \in Int /\ n \in Int /\ k >= 1 /\ k <= n + 1
      BY <2>1
    <3> QED BY <3>1, PartIs
  <2> HIDE DEF n, u
  <2> QED BY <2>1, <2>2, <2>3
<1>2. v \in Seq(Characters) /\ Len(v) <= 3
  <2> HIDE DEF u
  <2>1. v = IF u # <<>> /\ Head(u) \in {Plus, Minus} THEN Tail(u) ELSE u
    BY <1>1 DEF Unsigned
  <2>2. u # <<>> => Tail(u) \in Seq(Characters) /\ Len(Tail(u)) = Len(u) - 1
    BY <1>1
  <2>3. Len(u) \in Nat
    BY <1>1, LenProperties
  <2> QED BY <1>1, <2>1, <2>2, <2>3
<1>3. d = SubSeq(v, 1, l)
  <2>1. d = leading[v]
    BY DEF Digits
  <2> HIDE DEF v
  <2> QED BY <1>2, <2>1
<1> HIDE DEF v, u
<1>4. /\ l \in 0 .. Len(v) /\ Len(v) \in Nat
      /\ \A j \in 1 .. l : v[j] \in 0 .. base - 1
  BY <1>2, LeadingIs, LenProperties
<1> HIDE DEF l, leading
<1>5. Len(d) = l /\ \A j \in 1 .. l : d[j] = v[j]
  <2> HIDE DEF d
  <2> QED BY <1>2, <1>3, <1>4, PrefixIs
<1>6. l \in 1 .. 3
  <2>1. l # 0
    <3> SUFFICES ASSUME l = 0 PROVE FALSE
      OBVIOUS
    <3>1. d = <<>>
      BY <1>3, SubSeqEmpty
    <3> QED BY <3>1
  <2> QED BY <1>2, <1>4, <2>1
<1> HIDE DEF d
<1>7. \A j \in 1 .. l : d[j] \in Nat
  BY <1>4, <1>5
<1>8. Value(d, base) \in Int
  <2>1. base \in Nat /\ Value(d, base) = IF l = 1 THEN d[1]
                          ELSE IF l = 2 THEN d[1] * base + d[2]
                          ELSE (d[1] * base + d[2]) * base + d[3]
    <3>1. base \in Nat
      OBVIOUS
    <3> QED BY ONLY <1>5, <1>6, <1>7, <3>1, ValueIs
  <2>2. CASE l = 1
    BY <1>7, <2>1, <2>2
  <2>3. CASE l = 2
    <3>1. d[1] \in Nat /\ d[2] \in Nat
      BY <1>7, <2>3
    <3> QED BY <2>1, <2>3, <3>1
  <2>4. CASE l = 3
    <3>1. d[1] \in Nat /\ d[2] \in Nat /\ d[3] \in Nat
      BY <1>7, <2>4
    <3> QED BY <2>1, <2>4, <3>1
  <2> QED BY <1>6, <2>2, <2>3, <2>4
<1>9. Stoi(s, base) = -Value(d, base) \/ Stoi(s, base) = Value(d, base)
  BY DEF Stoi, d
<1> QED BY <1>8, <1>9

(* What TextInv leaves open                                                *)
TypesInv ==
  /\ i <= Octets(kind)
  /\ addr \in Seq(UInt8) /\ Len(addr) = i
  /\ parsing \in {"idle", "reading", "returned", "invalid_argument"}
  /\ stage \in {"asking", "named", "reading", "read", "parsing", "sizing", "resizing",
                "filling", "searching", "zeros", "out_of_range", "found"}
  /\ adapters \in Adapters \cup {<<>>}
  /\ required_size \in Nat
  /\ default_mac \in Seq(UInt8)

LEMMA InitTypes == (LookupInit \/ NoLookupInit) => TypesInv
<1> SUFFICES ASSUME LookupInit \/ NoLookupInit PROVE TypesInv
  OBVIOUS
<1>1. /\ i = 0 /\ addr = <<>> /\ parsing \in {"idle", "reading"}
      /\ stage \in {"asking", "parsing"}
      /\ adapters = <<>> /\ required_size = 0 /\ default_mac = <<>>
  BY DEF LookupInit, NoLookupInit, NothingAllocated, Init
<1>2. <<>> \in Seq(UInt8) /\ Len(<<>>) = 0 /\ 0 <= Octets(kind)
  BY DEF Octets
<1> QED BY <1>1, <1>2 DEF TypesInv

LEMMA StepTypes == TextInv /\ TypesInv /\ [LookupNext]_lookupVars => TypesInv'
<1> SUFFICES ASSUME TextInv, TypesInv, [LookupNext]_lookupVars
             PROVE  TypesInv'
  OBVIOUS
<1>1. /\ i' <= Octets(kind')
      /\ addr' \in Seq(UInt8) /\ Len(addr') = i'
      /\ parsing' \in {"idle", "reading", "returned", "invalid_argument"}
  <2>1. CASE UNCHANGED addressVars
    BY <2>1 DEF addressVars, TypesInv
  <2>2. CASE \E k, t : Parse(k, t)
    <3>1. i' = 0 /\ addr' = <<>> /\ parsing' = "reading"
      BY <2>2 DEF Parse
    <3>2. <<>> \in Seq(UInt8) /\ Len(<<>>) = 0 /\ 0 <= Octets(kind')
      BY DEF Octets
    <3> QED BY <3>1, <3>2
  <2>3. CASE Reject \/ Return
    BY <2>3 DEF Reject, Return, TypesInv
  <2>4. CASE ReadOctet
    <3>1. /\ parsing = "reading" /\ i < Octets(kind) /\ kind' = kind /\ i' = i + 1
          /\ parsing' = parsing /\ addr' = Append(addr, octet_val % 256)
          /\ Len(octet) \in Lengths(kind) /\ Digits(octet, Base(kind)) # <<>>
      BY <2>4 DEF ReadOctet, NotAnOctet, Narrowed
    <3>2. octet \in Seq(Characters)
      BY <3>1, OctetIs DEF TextInv, StaysInText
    <3>3. octet_val \in Int
      <4>1. Len(octet) \in 1 .. 3 /\ Base(kind) \in {10, 16}
        BY <3>1 DEF Lengths, Base
      <4> QED BY <3>1, <3>2, <4>1, StoiIs DEF octet_val
    <3>4. octet_val % 256 \in UInt8
      BY <3>3 DEF UInt8
    <3>5. addr' \in Seq(UInt8) /\ Len(addr') = i + 1
      BY <3>1, <3>4, AppendProperties DEF TypesInv
    <3>6. i + 1 <= Octets(kind)
      BY <3>1 DEF TextInv, Octets
    <3> QED BY <3>1, <3>5, <3>6 DEF TypesInv
  <2> QED BY <2>1, <2>2, <2>3, <2>4, ParserMoves
<1>2. stage' \in {"asking", "named", "reading", "read", "parsing", "sizing", "resizing",
                  "filling", "searching", "zeros", "out_of_range", "found"}
  BY DEF TypesInv, LookupNext, LookupStep, ReadRoutes, PopenFails, Spawn, ReadFile, Reads,
         Goes, AskAddress, NoAddress, ReadAddressFile, Waits, FindColumns, NoColumn,
         NoDefault, Failure, Allocate, AskSize, AdaptersChange, Fill, FillFails, NoFit,
         NoAdapter, CopyMAC, ParserStep, lookupVars
<1>3. CASE AskSize \/ AdaptersChange
  <2>1. adapters' \in Adapters /\ default_mac' = default_mac
        /\ required_size' \in {required_size, Len(adapters')}
    BY <1>3 DEF AskSize, AdaptersChange
  <2>2. Len(adapters') \in Nat
    BY <2>1, DefaultInterfaceAssumption, LenProperties
  <2> QED BY <1>1, <1>2, <2>1, <2>2 DEF TypesInv
<1>4. CASE CopyMAC
  <2>1. /\ adapters' = adapters /\ required_size' = required_size /\ Candidates # {}
        /\ default_mac' = adapters[default_adapter].mac
    BY <1>4 DEF CopyMAC
  <2>2. default_adapter \in DOMAIN adapters /\ adapters \in Adapters
    <3>1. default_adapter \in Candidates
      BY <2>1, FirstCandidate DEF TypesInv
    <3>2. default_adapter \in DOMAIN adapters
      BY <3>1 DEF Candidates
    <3> QED BY <3>2 DEF TypesInv
  <2>3. default_mac' \in Seq(UInt8)
    <3> DEFINE R == [ips : SUBSET Seq(Characters), mac : Seq(UInt8)]
    <3>1. adapters \in Seq(R)
      BY <2>2, DefaultInterfaceAssumption
    <3>2. \A r \in R : r.mac \in Seq(UInt8)
      OBVIOUS
    <3> HIDE DEF R
    <3>3. adapters[default_adapter] \in R
      BY <2>2, <3>1, LenProperties, ElementOfSeq
    <3> QED BY <2>1, <3>2, <3>3
  <2> QED BY <1>1, <1>2, <2>1, <2>3 DEF TypesInv
<1>5. CASE FillFails
  <2>1. adapters' = adapters /\ default_mac' = default_mac /\ required_size' = Len(adapters)
    BY <1>5 DEF FillFails
  <2>2. Len(adapters) \in Nat
    <3>1. CASE adapters = <<>>
      BY <3>1
    <3>2. CASE adapters \in Adapters
      BY <3>2, DefaultInterfaceAssumption, LenProperties
    <3> QED BY <3>1, <3>2 DEF TypesInv
  <2> QED BY <1>1, <1>2, <2>1, <2>2 DEF TypesInv
<1>6. CASE ~(AskSize \/ AdaptersChange \/ CopyMAC \/ FillFails)
  <2>1. UNCHANGED <<adapters, required_size, default_mac>>
    BY <1>6 DEF LookupNext, LookupStep, ReadRoutes, PopenFails, Spawn, ReadFile, Reads,
         AskAddress, NoAddress, ReadAddressFile, Waits, FindColumns, NoColumn,
         NoDefault, Failure, Allocate, Fill, NoAdapter, ParserStep, lookupVars, heapVars
  <2> QED BY <1>1, <1>2, <2>1 DEF TypesInv
<1> QED BY <1>3, <1>4, <1>5, <1>6

(* The types of both lookups and of the parsers they run: an octet is a    *)
(* byte whatever number stoi makes of it, and an address has as many       *)
(* octets as have been read.                                               *)
THEOREM LookupTypeCorrect == LookupSpec => []LookupTypeOK
<1>1. TextInv /\ TypesInv /\ FieldsRead /\ Balanced => LookupTypeOK
  <2> SUFFICES ASSUME TextInv, TypesInv, FieldsRead, Balanced PROVE LookupTypeOK
    OBVIOUS
  <2>1. prev_pos \in -1 .. Len(text)
    BY BoundariesAre DEF FieldsRead, TextInv
  <2>2. i \in 0 .. Octets(kind)
    BY DEF TextInv, TypesInv, Octets
  <2>3. live \in Nat
    BY DEF Balanced
  <2> QED BY <2>1, <2>2, <2>3 DEF LookupTypeOK, TypeOK, TextInv, TypesInv
<1> QED BY <1>1, InitHost, StepHost, InitText, StepText, InitTypes, StepTypes, InitFields,
           StepFields, InitBalanced, StepBalanced, PTL DEF LookupSpec
=============================================================================
