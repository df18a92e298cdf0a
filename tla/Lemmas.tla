------------------------------- MODULE Lemmas -------------------------------
(***************************************************************************)
(* What the proofs of several components rest on, about data alone:        *)
(* division with remainder, induction, running sums, and sequences that    *)
(* are joined or cut.                                                      *)
(***************************************************************************)
EXTENDS Sums, SequenceTheorems, WellFoundedInduction, TLAPS

(* The products of numbers of words and of word values that the proofs     *)
(* compare are bounded factor by factor.                                   *)
LEMMA ProductMonotone ==
  ASSUME NEW a \in Nat, NEW b \in Nat, NEW m \in Nat, a <= b
  PROVE  a * m \in Nat /\ a * m <= b * m
<1>1. PICK d \in Nat : b = a + d
  <2>1. b - a \in Nat /\ b = a + (b - a)
    OBVIOUS
  <2> QED BY <2>1
<1>2. b * m = a * m + d * m
  BY <1>1
<1>3. d * m \in Nat /\ a * m \in Nat
  OBVIOUS
<1> QED BY <1>2, <1>3

(* Division with remainder, as the shifts and masks of the code use it     *)
LEMMA DivMod ==
  ASSUME NEW s \in Nat, NEW w \in Nat, w > 0
  PROVE  /\ s \div w \in Nat
         /\ s % w \in Nat /\ s % w < w
         /\ s = (s \div w) * w + (s % w)
OBVIOUS

(* A quotient and a remainder are determined by the number.                *)
LEMMA DivUnique ==
  ASSUME NEW q \in Nat, NEW w \in Nat, w > 0,
         NEW r \in Nat, r < w
  PROVE  (q * w + r) \div w = q /\ (q * w + r) % w = r
<1> DEFINE s == q * w + r
           p == s \div w
           t == s % w
<1>1. s \in Nat
  BY ProductMonotone
<1>2. p \in Nat /\ t \in Nat /\ t < w /\ s = p * w + t
  BY <1>1, DivMod
<1> HIDE DEF s, p, t
<1>3. q * w + r = p * w + t
  BY <1>2 DEF s
<1>4. ~(p < q)
  <2> SUFFICES ASSUME p < q PROVE FALSE
    OBVIOUS
  <2>1. (p + 1) * w <= q * w /\ p * w \in Nat /\ q * w \in Nat
    BY <1>2, ProductMonotone
  <2>2. (p + 1) * w = p * w + w
    BY <1>2
  <2> QED BY <2>1, <2>2, <1>2, <1>3
<1>5. ~(q < p)
  <2> SUFFICES ASSUME q < p PROVE FALSE
    OBVIOUS
  <2>1. (q + 1) * w <= p * w /\ p * w \in Nat /\ q * w \in Nat
    BY <1>2, ProductMonotone
  <2>2. (q + 1) * w = q * w + w
    OBVIOUS
  <2> QED BY <2>1, <2>2, <1>2, <1>3
<1>6. p = q
  BY <1>4, <1>5, <1>2
<1>7. t = r
  BY <1>6, <1>3, <1>2
<1> QED BY <1>6, <1>7 DEF s, p, t

(* Adding before or after the reduction to a word makes no difference.     *)
LEMMA ModAdd ==
  ASSUME NEW a \in Nat, NEW b \in Nat, NEW w \in Nat, w > 0
  PROVE  (a + (b % w)) % w = (a + b) % w
<1> DEFINE q == b \div w
           r == b % w
           p == (a + r) \div w
           t == (a + r) % w
<1>1. q \in Nat /\ r \in Nat /\ b = q * w + r
  BY DivMod
<1>2. a + r \in Nat
  BY <1>1
<1>3. p \in Nat /\ t \in Nat /\ t < w /\ a + r = p * w + t
  BY <1>2, DivMod
<1> HIDE DEF q, r, p, t
<1>4. q * w \in Nat /\ p * w \in Nat /\ (q + p) * w = q * w + p * w
  BY <1>1, <1>3
<1>5. a + b = (q + p) * w + t
  BY <1>1, <1>3, <1>4
<1>6. (a + b) % w = t
  <2>1. q + p \in Nat
    BY <1>1, <1>3
  <2>2. ((q + p) * w + t) % w = t
    BY <1>3, <2>1, DivUnique
  <2> QED BY <1>5, <2>2
<1> QED BY <1>6 DEF r, t

(* A number that comes back from being reduced by w, in a place that lacks *)
(* less than w of it, was not changed by that.                             *)
LEMMA RemainderIsExact ==
  ASSUME NEW f \in Nat, NEW w \in Nat, w > 0, NEW s \in Nat,
         f < s + w, s = f % w
  PROVE  s = f
<1> DEFINE q == f \div w
<1>1. q \in Nat /\ f = q * w + s /\ s < w
  BY DivMod
<1> HIDE DEF q
<1>2. q = 0
  <2> SUFFICES ASSUME q >= 1 PROVE FALSE
    BY <1>1
  <2>1. 1 * w <= q * w /\ q * w \in Nat
    BY <1>1, ProductMonotone
  <2> QED BY <1>1, <2>1
<1> QED BY <1>1, <1>2

(* The quotient of a number below w * w                                    *)
LEMMA HalfIsBelow ==
  ASSUME NEW w \in Nat, w > 0, NEW s \in 0 .. w * w - 1
  PROVE  s \div w \in 0 .. w - 1 /\ s % w \in 0 .. w - 1
<1> DEFINE q == s \div w
           r == s % w
<1>1. w * w \in Nat
  OBVIOUS
<1>2. s \in Nat /\ s < w * w
  BY <1>1
<1>3. q \in Nat /\ r \in Nat /\ r < w /\ s = q * w + r
  BY <1>2, DivMod
<1> HIDE DEF q, r
<1>4. q < w
  <2> SUFFICES ASSUME w <= q PROVE FALSE
    BY <1>3
  <2>1. w * w <= q * w /\ q * w \in Nat
    BY <1>3, ProductMonotone
  <2> QED BY <1>2, <1>3, <2>1
<1>5. q \in 0 .. w - 1 /\ r \in 0 .. w - 1
  BY <1>3, <1>4
<1> QED BY <1>5 DEF q, r

-----------------------------------------------------------------------------
(* A set of numbers that is not empty has a least one.                     *)
LEMMA LeastOf ==
  ASSUME NEW T \in SUBSET Nat, T # {}
  PROVE  \E x \in T : \A y \in T : x <= y
<1> DEFINE R == OpToRel(<, Nat)
<1>1. IsWellFoundedOn(R, Nat)
  BY NatLessThanWellFounded
<1>2. \A y, x \in Nat : y < x => <<y, x>> \in R
  BY DEF OpToRel
<1> HIDE DEF R
<1>3. PICK x \in T : \A y \in T : ~(<<y, x>> \in R)
  BY <1>1, WFMin
<1>4. \A y \in T : ~(y < x) /\ y \in Nat /\ x \in Nat
  BY <1>2, <1>3
<1> QED BY <1>3, <1>4

(* Induction, over the set of the numbers of which something is known      *)
LEMMA Induction ==
  ASSUME NEW S, 0 \in S, \A n \in Nat : n \in S => n + 1 \in S
  PROVE  \A n \in Nat : n \in S
<1> DEFINE T == {n \in Nat : n \notin S}
<1> SUFFICES ASSUME T # {} PROVE FALSE
  OBVIOUS
<1>1. PICK x \in T : \A y \in T : x <= y
  <2>1. T \in SUBSET Nat
    OBVIOUS
  <2> HIDE DEF T
  <2> QED BY <2>1, LeastOf
<1>2. x \in Nat /\ x # 0 /\ x \notin S
  OBVIOUS
<1>3. x - 1 \in Nat /\ (x - 1) + 1 = x
  BY <1>2
<1>4. x - 1 \notin T
  BY <1>1, <1>3
<1>5. x - 1 \in S
  BY <1>3, <1>4
<1> QED BY <1>2, <1>3, <1>5

-----------------------------------------------------------------------------
(* The running sums of n numbers satisfy the equation that defines them.   *)
LEMMA SumsExist ==
  ASSUME NEW n \in Nat, NEW w \in [1 .. n -> Nat]
  PROVE  \E g : g = [j \in 0 .. n |-> IF j = 0 THEN 0 ELSE g[j - 1] + w[j]]
<1> DEFINE Upto(g, m) == g = [j \in 0 .. m |-> IF j = 0 THEN 0 ELSE g[j - 1] + w[j]]
           S == {m \in Nat : m <= n => \E g : Upto(g, m)}
<1>1. 0 \in S
  <2>1. Upto([j \in 0 .. 0 |-> 0], 0)
    OBVIOUS
  <2> QED BY <2>1
<1>2. ASSUME NEW m \in Nat, m \in S PROVE m + 1 \in S
  <2> SUFFICES ASSUME m + 1 <= n PROVE \E g : Upto(g, m + 1)
    OBVIOUS
  <2>1. PICK g : Upto(g, m)
    BY <1>2
  <2> DEFINE h == [j \in 0 .. m + 1 |-> IF j <= m THEN g[j] ELSE g[m] + w[m + 1]]
  <2>2. ASSUME NEW j \in 0 .. m + 1
        PROVE  h[j] = IF j = 0 THEN 0 ELSE h[j - 1] + w[j]
    <3>1. CASE j = m + 1
      <4>1. j - 1 = m /\ m \in 0 .. m + 1 /\ ~(j <= m) /\ j # 0
        BY <3>1
      <4> QED BY <3>1, <4>1
    <3>2. CASE j \in 1 .. m
      <4>1. j \in 0 .. m /\ j - 1 \in 0 .. m + 1 /\ j - 1 <= m /\ j # 0 /\ j <= m
        BY <3>2
      <4>2. g[j] = g[j - 1] + w[j]
        BY <2>1, <4>1
      <4> QED BY <4>1, <4>2
    <3>3. CASE j = 0
      <4>1. j \in 0 .. m /\ j <= m
        BY <3>3
      <4> QED BY <2>1, <3>3, <4>1
    <3> QED BY <3>1, <3>2, <3>3
  <2>3. h = [j \in 0 .. m + 1 |-> h[j]]
    OBVIOUS
  <2> HIDE DEF h
  <2>4. Upto(h, m + 1)
    BY <2>2, <2>3
  <2> QED BY <2>4
<1>3. n \in S
  <2> HIDE DEF S
  <2> QED BY <1>1, <1>2, Induction
<1> QED BY <1>3

LEMMA SumsAre ==
  ASSUME NEW w, NEW n \in Nat, Len(w) = n, \A j \in 1 .. n : w[j] \in Nat
  PROVE  /\ SumsUpTo(w) \in [0 .. n -> Nat]
         /\ SumsUpTo(w)[0] = 0
         /\ \A j \in 1 .. n : SumsUpTo(w)[j] = SumsUpTo(w)[j - 1] + w[j]
<1> DEFINE v == [j \in 1 .. n |-> w[j]]
           f == SumsUpTo(w)
<1>1. \E g : g = [j \in 0 .. n |-> IF j = 0 THEN 0 ELSE g[j - 1] + w[j]]
  <2>1. v \in [1 .. n -> Nat]
    OBVIOUS
  <2>2. \A j \in 1 .. n : v[j] = w[j]
    OBVIOUS
  <2> HIDE DEF v
  <2>3. PICK g : g = [j \in 0 .. n |-> IF j = 0 THEN 0 ELSE g[j - 1] + v[j]]
    BY <2>1, SumsExist
  <2>4. \A j \in 0 .. n : (IF j = 0 THEN 0 ELSE g[j - 1] + v[j])
                          = (IF j = 0 THEN 0 ELSE g[j - 1] + w[j])
    <3>1. \A j \in 0 .. n : j # 0 => j \in 1 .. n
      OBVIOUS
    <3> QED BY <2>2, <3>1
  <2>5. g = [j \in 0 .. n |-> IF j = 0 THEN 0 ELSE g[j - 1] + w[j]]
    BY <2>3, <2>4
  <2> QED BY <2>5
<1>2. f = [j \in 0 .. n |-> IF j = 0 THEN 0 ELSE f[j - 1] + w[j]]
  BY <1>1 DEF SumsUpTo
<1> HIDE DEF f
<1>3. f[0] = 0 /\ \A j \in 1 .. n : f[j] = f[j - 1] + w[j]
  <2>1. 0 \in 0 .. n /\ \A j \in 1 .. n : j \in 0 .. n /\ j # 0
    OBVIOUS
  <2> QED BY <1>2, <2>1
<1> DEFINE S == {m \in Nat : m <= n => f[m] \in Nat}
<1>4. \A m \in Nat : m \in S
  <2>1. 0 \in S
    BY <1>3
  <2>2. ASSUME NEW m \in Nat, m \in S PROVE m + 1 \in S
    <3> SUFFICES ASSUME m + 1 <= n PROVE f[m + 1] \in Nat
      OBVIOUS
    <3>1. m + 1 \in 1 .. n /\ (m + 1) - 1 = m
      OBVIOUS
    <3>2. f[m + 1] = f[m] + w[m + 1] /\ w[m + 1] \in Nat /\ f[m] \in Nat
      BY <1>3, <2>2, <3>1
    <3> QED BY <3>2
  <2> HIDE DEF S
  <2> QED BY <2>1, <2>2, Induction
<1>5. f \in [0 .. n -> Nat]
  <2>1. \A j \in 0 .. n : f[j] \in Nat
    BY <1>4
  <2>2. f = [j \in 0 .. n |-> f[j]]
    BY <1>2
  <2> QED BY <2>1, <2>2
<1> QED BY <1>3, <1>5 DEF f

(* Running sums grow, by at least one for every number that is not 0.      *)
LEMMA SumsGrow ==
  ASSUME NEW w, NEW n \in Nat, Len(w) = n, \A j \in 1 .. n : w[j] \in Nat,
         NEW i \in 0 .. n
  PROVE  /\ \A j \in i .. n : SumsUpTo(w)[i] <= SumsUpTo(w)[j]
         /\ (\A j \in 1 .. n : w[j] >= 1)
              => \A j \in i + 1 .. n : SumsUpTo(w)[i] < SumsUpTo(w)[j]
<1> DEFINE f == SumsUpTo(w)
           Positive == \A j \in 1 .. n : w[j] >= 1
           S == {d \in Nat : i + d <= n =>
                   /\ f[i] <= f[i + d]
                   /\ Positive /\ d > 0 => f[i] < f[i + d]}
<1>1. /\ \A j \in 0 .. n : f[j] \in Nat
      /\ \A j \in 1 .. n : f[j] = f[j - 1] + w[j]
  BY SumsAre
<1> HIDE DEF f
<1>2. 0 \in S
  <2>1. i + 0 = i /\ f[i] \in Nat
    BY <1>1
  <2> QED BY <2>1
<1>3. ASSUME NEW d \in Nat, d \in S PROVE d + 1 \in S
  <2> SUFFICES ASSUME i + (d + 1) <= n
               PROVE  /\ f[i] <= f[i + (d + 1)]
                      /\ Positive => f[i] < f[i + (d + 1)]
    OBVIOUS
  <2> DEFINE j == i + (d + 1)
  <2>1. j \in 1 .. n /\ j - 1 = i + d /\ i + d <= n /\ i + d \in 0 .. n
    OBVIOUS
  <2>2. f[j] = f[i + d] + w[j] /\ f[i + d] \in Nat /\ f[i] \in Nat /\ w[j] \in Nat
    BY <1>1, <2>1
  <2>3. f[i] <= f[i + d]
    BY <1>3, <2>1
  <2>4. Positive => w[j] >= 1
    BY <2>1
  <2> HIDE DEF j, Positive
  <2>5. f[i] <= f[j] /\ (Positive => f[i] < f[j])
    BY <2>2, <2>3, <2>4
  <2> QED BY <2>5 DEF j
<1>4. \A d \in Nat : d \in S
  <2> HIDE DEF S
  <2> QED BY <1>2, <1>3, Induction
<1>5. ASSUME NEW j \in i .. n
      PROVE  f[i] <= f[j] /\ (Positive /\ j # i => f[i] < f[j])
  <2>1. j - i \in Nat /\ i + (j - i) = j /\ (j # i => j - i > 0)
    OBVIOUS
  <2>2. j - i \in S
    BY <1>4, <2>1
  <2> HIDE DEF Positive
  <2> QED BY <2>1, <2>2
<1>6. \A j \in i + 1 .. n : j \in i .. n /\ j # i
  OBVIOUS
<1> QED BY <1>5, <1>6 DEF f

(* The sums of what two sequences have in common are the same.             *)
LEMMA SumsAgree ==
  ASSUME NEW w, NEW n \in Nat, Len(w) = n, \A j \in 1 .. n : w[j] \in Nat,
         NEW v, NEW p \in Nat, Len(v) = p, \A j \in 1 .. p : v[j] \in Nat,
         NEW m \in Nat, m <= n, m <= p, \A j \in 1 .. m : w[j] = v[j]
  PROVE  \A j \in 0 .. m : SumsUpTo(w)[j] = SumsUpTo(v)[j]
<1> DEFINE f == SumsUpTo(w)
           g == SumsUpTo(v)
           S == {j \in Nat : j <= m => f[j] = g[j]}
<1>1. f[0] = 0 /\ \A j \in 1 .. n : f[j] = f[j - 1] + w[j]
  BY SumsAre
<1>2. g[0] = 0 /\ \A j \in 1 .. p : g[j] = g[j - 1] + v[j]
  BY SumsAre
<1> HIDE DEF f, g
<1>3. 0 \in S
  BY <1>1, <1>2
<1>4. ASSUME NEW j \in Nat, j \in S PROVE j + 1 \in S
  <2> SUFFICES ASSUME j + 1 <= m PROVE f[j + 1] = g[j + 1]
    OBVIOUS
  <2>1. /\ j + 1 \in 1 .. n /\ j + 1 \in 1 .. p /\ j + 1 \in 1 .. m
        /\ (j + 1) - 1 = j /\ f[j] = g[j]
    BY <1>4
  <2> QED BY <1>1, <1>2, <2>1
<1>5. \A j \in Nat : j \in S
  <2> HIDE DEF S
  <2> QED BY <1>3, <1>4, Induction
<1>6. \A j \in 0 .. m : f[j] = g[j]
  BY <1>5
<1> QED BY <1>6 DEF f, g
(* One more number is added at the end.                                    *)
LEMMA TotalAppended ==
  ASSUME NEW n \in Nat,
         NEW w, Len(w) = n, \A j \in 1 .. n : w[j] \in Nat,
         NEW v, Len(v) = n + 1, \A j \in 1 .. n + 1 : v[j] \in Nat,
         \A j \in 1 .. n : v[j] = w[j]
  PROVE  /\ Total(w) \in Nat
         /\ Total(v) = Total(w) + v[n + 1]
<1>1. n + 1 \in Nat /\ n + 1 \in 1 .. n + 1 /\ (n + 1) - 1 = n /\ n \in 0 .. n
  OBVIOUS
<1>2. SumsUpTo(v)[n + 1] = SumsUpTo(v)[n] + v[n + 1]
  <2>1. \A j \in 1 .. n + 1 : SumsUpTo(v)[j] = SumsUpTo(v)[j - 1] + v[j]
    BY <1>1, SumsAre
  <2> QED BY <1>1, <2>1
<1>3. SumsUpTo(v)[n] = SumsUpTo(w)[n]
  <2> DEFINE p == n + 1
  <2>1. /\ p \in Nat /\ n <= n /\ n <= p /\ Len(v) = p
        /\ \A j \in 1 .. p : v[j] \in Nat
        /\ \A j \in 1 .. n : w[j] = v[j]
    OBVIOUS
  <2> HIDE DEF p
  <2>2. \A j \in 0 .. n : SumsUpTo(w)[j] = SumsUpTo(v)[j]
    BY <2>1, SumsAgree, SMTT(30)
  <2> QED BY <1>1, <2>2
<1>4. SumsUpTo(w)[n] \in Nat
  <2>1. SumsUpTo(w) \in [0 .. n -> Nat]
    BY SumsAre
  <2> QED BY <1>1, <2>1
<1> QED BY <1>2, <1>3, <1>4 DEF Total

-----------------------------------------------------------------------------
(* A function on 1 .. n is a sequence.                                     *)
LEMMA ListIsSeq ==
  ASSUME NEW S, NEW n \in Nat, NEW f \in [1 .. n -> S]
  PROVE  f \in Seq(S) /\ Len(f) = n
<1>1. f \in Seq(S)
  BY SeqDef
<1>2. DOMAIN f = 1 .. n /\ DOMAIN f = 1 .. Len(f) /\ Len(f) \in Nat
  BY <1>1, LenProperties
<1> QED BY <1>1, <1>2

(* A sequence followed by another one, one fact at a time                  *)
LEMMA JoinedIsSeq ==
  ASSUME NEW S, NEW s \in Seq(S), NEW t \in Seq(S)
  PROVE  s \o t \in Seq(S)
BY ConcatProperties

LEMMA JoinedLen ==
  ASSUME NEW S, NEW s \in Seq(S), NEW t \in Seq(S)
  PROVE  Len(s \o t) = Len(s) + Len(t)
BY ConcatProperties

LEMMA JoinedLeft ==
  ASSUME NEW S, NEW s \in Seq(S), NEW t \in Seq(S), NEW i \in 1 .. Len(s)
  PROVE  (s \o t)[i] = s[i]
<1>1. i \in 1 .. Len(s) + Len(t) /\ i <= Len(s)
  BY LenProperties
<1> QED BY <1>1, ConcatProperties

LEMMA JoinedRight ==
  ASSUME NEW S, NEW s \in Seq(S), NEW t \in Seq(S), NEW i \in 1 .. Len(t)
  PROVE  (s \o t)[Len(s) + i] = t[i]
<1>1. Len(s) \in Nat /\ Len(t) \in Nat
  BY LenProperties
<1>2. /\ Len(s) + i \in 1 .. Len(s) + Len(t)
      /\ ~(Len(s) + i <= Len(s)) /\ Len(s) + i - Len(s) = i
  BY <1>1
<1> QED BY <1>2, ConcatProperties

(* The beginnings of a sequence                                            *)
LEMMA PrefixIs ==
  ASSUME NEW S, NEW s \in Seq(S), NEW m \in 0 .. Len(s)
  PROVE  /\ SubSeq(s, 1, m) \in Seq(S) /\ Len(SubSeq(s, 1, m)) = m
         /\ \A i \in 1 .. m : SubSeq(s, 1, m)[i] = s[i]
<1> DEFINE u == SubSeq(s, 1, m)
<1>1. Len(s) \in Nat /\ m \in Int /\ \A i \in 1 .. m : s[i] \in S
  <2>1. Len(s) \in Nat /\ \A i \in 1 .. Len(s) : s[i] \in S
    BY LenProperties, ElementOfSeq
  <2>2. \A i \in 1 .. m : i \in 1 .. Len(s)
    BY <2>1
  <2> QED BY <2>1, <2>2
<1>2. /\ u \in Seq(S)
      /\ Len(u) = IF 1 <= m THEN m - 1 + 1 ELSE 0
      /\ \A i \in 1 .. m - 1 + 1 : u[i] = s[1 + i - 1]
  BY <1>1, SubSeqProperties
<1> HIDE DEF u
<1>3. Len(u) = m
  BY <1>1, <1>2
<1>4. ASSUME NEW i \in 1 .. m PROVE u[i] = s[i]
  <2>1. i \in 1 .. m - 1 + 1 /\ 1 + i - 1 = i
    BY <1>1
  <2> QED BY <1>2, <2>1
<1> QED BY <1>2, <1>3, <1>4 DEF u

LEMMA PrefixNext ==
  ASSUME NEW S, NEW s \in Seq(S), NEW m \in 0 .. Len(s) - 1
  PROVE  Append(SubSeq(s, 1, m), s[m + 1]) = SubSeq(s, 1, m + 1)
<1> DEFINE u == SubSeq(s, 1, m)
           v == SubSeq(s, 1, m + 1)
           x == s[m + 1]
           w == Append(u, x)
<1>1. Len(s) \in Nat /\ m \in 0 .. Len(s) /\ m + 1 \in 0 .. Len(s)
      /\ m + 1 \in 1 .. Len(s) /\ m \in Nat
  BY LenProperties
<1>2. u \in Seq(S) /\ Len(u) = m /\ \A i \in 1 .. m : u[i] = s[i]
  BY <1>1, PrefixIs
<1>3. v \in Seq(S) /\ Len(v) = m + 1 /\ \A i \in 1 .. m + 1 : v[i] = s[i]
  BY <1>1, PrefixIs
<1>4. x \in S
  BY <1>1, ElementOfSeq
<1> HIDE DEF u, v, x
<1>5. /\ w \in Seq(S) /\ Len(w) = m + 1 /\ w[m + 1] = x
      /\ \A i \in 1 .. m : w[i] = u[i]
  BY <1>2, <1>4, AppendProperties
<1> HIDE DEF w
<1>6. ASSUME NEW i \in 1 .. m + 1 PROVE w[i] = v[i]
  <2>1. i \in 1 .. m \/ i = m + 1
    BY <1>1
  <2> QED BY <1>2, <1>3, <1>5, <2>1 DEF x
<1>7. w = v
  BY <1>3, <1>5, <1>6, SeqEqual
<1> QED BY <1>7 DEF u, v, x, w

(* A part of a sequence that has the members of another one is that one.   *)
LEMMA SubSeqIs ==
  ASSUME NEW S, NEW s, NEW t \in Seq(S), NEW a \in Nat,
         \A i \in 1 .. Len(t) : s[a + i] = t[i]
  PROVE  SubSeq(s, a + 1, a + Len(t)) = t
<1> DEFINE n == Len(t)
           u == SubSeq(s, a + 1, a + n)
<1>1. n \in Nat /\ a + 1 \in Int /\ a + n \in Int
  BY LenProperties
<1>2. \A i \in 1 .. n : t[i] \in S /\ s[a + i] = t[i]
  BY ElementOfSeq
<1>3. \A i \in a + 1 .. a + n : s[i] \in S
  <2> HIDE DEF n
  <2>1. \A i \in a + 1 .. a + n : i - a \in 1 .. n /\ a + (i - a) = i
    BY <1>1
  <2> QED BY <1>2, <2>1
<1> HIDE DEF n
<1>4. /\ u \in Seq(S)
      /\ Len(u) = IF a + 1 <= a + n THEN (a + n) - (a + 1) + 1 ELSE 0
      /\ \A i \in 1 .. (a + n) - (a + 1) + 1 : u[i] = s[(a + 1) + i - 1]
  BY <1>1, <1>3, SubSeqProperties
<1> HIDE DEF u
<1>5. Len(u) = n
  BY <1>1, <1>4
<1>6. ASSUME NEW i \in 1 .. n PROVE u[i] = t[i]
  <2>1. i \in 1 .. (a + n) - (a + 1) + 1 /\ (a + 1) + i - 1 = a + i
    BY <1>1
  <2> QED BY <1>2, <1>4, <2>1
<1>7. u = t
  BY <1>4, <1>5, <1>6, SeqEqual DEF n
<1> QED BY <1>7 DEF u, n

(* Part j of the first m stands in bytes behind position f[j - 1].         *)
Holds(bytes, f, parts, m) ==
  \A j \in 1 .. m : \A i \in 1 .. Len(parts[j]) : bytes[f[j - 1] + i] = parts[j][i]

(* bytes is parts[1] \o ... \o parts[m], of which part j ends at f[j].     *)
Spells(bytes, f, parts, m) ==
  /\ Len(bytes) = f[m]
  /\ \A j \in 1 .. m : f[j - 1] + Len(parts[j]) <= f[m]
  /\ Holds(bytes, f, parts, m)

LEMMA SpellsNext ==
  ASSUME NEW S, NEW bytes \in Seq(S), NEW n \in Nat, NEW f \in [0 .. n -> Nat],
         NEW parts, NEW m \in 0 .. n - 1, Spells(bytes, f, parts, m),
         NEW part \in Seq(S), parts[m + 1] = part, f[m + 1] = f[m] + Len(part),
         \A j \in 1 .. m : Len(parts[j]) \in Nat
  PROVE  Spells(bytes \o part, f, parts, m + 1)
<1> DEFINE all == bytes \o part
<1>1. /\ Len(bytes) \in Nat /\ Len(part) \in Nat /\ m \in Nat
      /\ f[m] \in Nat /\ Len(bytes) = f[m] /\ f[m + 1] \in Nat
  BY LenProperties DEF Spells, Holds
<1>2. Len(all) = f[m + 1]
  BY <1>1, JoinedLen
<1>3. /\ \A i \in 1 .. Len(bytes) : all[i] = bytes[i]
      /\ \A i \in 1 .. Len(part) : all[Len(bytes) + i] = part[i]
  BY JoinedLeft, JoinedRight
<1> HIDE DEF all
<1>4. ASSUME NEW j \in 1 .. m + 1
      PROVE  /\ f[j - 1] + Len(parts[j]) <= f[m + 1]
             /\ \A i \in 1 .. Len(parts[j]) : all[f[j - 1] + i] = parts[j][i]
  <2>1. CASE j = m + 1
    <3>1. j - 1 = m /\ parts[j] = part
      BY <1>1, <2>1
    <3>2. f[j - 1] + Len(parts[j]) <= f[m + 1]
      BY <1>1, <3>1
    <3>3. f[j - 1] = Len(bytes) /\ \A i \in 1 .. Len(parts[j]) : all[Len(bytes) + i] = parts[j][i]
      BY <1>1, <1>3, <3>1
    <3> QED BY <3>2, <3>3
  <2>2. CASE j \in 1 .. m
    <3>1. /\ f[j - 1] + Len(parts[j]) <= f[m]
          /\ \A i \in 1 .. Len(parts[j]) : bytes[f[j - 1] + i] = parts[j][i]
          /\ Len(parts[j]) \in Nat
      BY <2>2 DEF Spells, Holds
    <3>2. f[j - 1] \in Nat
      <4>1. j - 1 \in 0 .. n
        BY <2>2
      <4> QED BY <4>1
    <3>3. ASSUME NEW i \in 1 .. Len(parts[j]) PROVE all[f[j - 1] + i] = parts[j][i]
      <4> DEFINE a == f[j - 1]
                 l == Len(parts[j])
      <4>1. a \in Nat /\ l \in Nat /\ a + l <= Len(bytes) /\ i \in 1 .. l
        BY <1>1, <3>1, <3>2
      <4>2. Len(bytes) \in Nat
        BY <1>1
      <4> HIDE DEF a, l
      <4>3. a + i \in 1 .. Len(bytes)
        BY <4>1, <4>2
      <4>4. all[a + i] = bytes[a + i]
        BY <1>3, <4>3
      <4>5. bytes[a + i] = parts[j][i]
        BY <3>1 DEF a
      <4> QED BY <4>4, <4>5 DEF a
    <3>4. f[j - 1] + Len(parts[j]) <= f[m + 1]
      <4>1. \A a, b, c, d \in Nat : a + b <= c => a + b <= c + d
        OBVIOUS
      <4>2. f[m + 1] = f[m] + Len(part)
        OBVIOUS
      <4>3. f[j - 1] + Len(parts[j]) <= f[m] + Len(part)
        BY <1>1, <3>1, <3>2, <4>1
      <4> QED BY <4>2, <4>3
    <3> QED BY <3>3, <3>4
  <2>3. j = m + 1 \/ j \in 1 .. m
    BY <1>1
  <2> QED BY <2>1, <2>2, <2>3
<1> QED BY <1>2, <1>4 DEF all, Spells, Holds

(* What is joined to it leaves it in place.                                *)
LEMMA SpellsOn ==
  ASSUME NEW S, NEW bytes \in Seq(S), NEW n \in Nat, NEW f \in [0 .. n -> Nat],
         NEW parts, Spells(bytes, f, parts, n), NEW more \in Seq(S),
         \A j \in 1 .. n : Len(parts[j]) \in Nat
  PROVE  Holds(bytes \o more, f, parts, n)
<1> SUFFICES ASSUME NEW j \in 1 .. n
             PROVE  \A i \in 1 .. Len(parts[j]) :
                      (bytes \o more)[f[j - 1] + i] = parts[j][i]
  BY DEF Holds
<1>1. /\ f[j - 1] + Len(parts[j]) <= f[n] /\ Len(bytes) = f[n]
      /\ \A i \in 1 .. Len(parts[j]) : bytes[f[j - 1] + i] = parts[j][i]
      /\ Len(parts[j]) \in Nat
  BY DEF Spells, Holds
<1>2. f[j - 1] \in Nat /\ f[n] \in Nat
  <2>1. j - 1 \in 0 .. n /\ n \in 0 .. n
    OBVIOUS
  <2> QED BY <2>1
<1>3. \A i \in 1 .. Len(parts[j]) : f[j - 1] + i \in 1 .. Len(bytes)
  <2>1. \A a, b, c \in Nat : a + b <= c => \A i \in 1 .. b : a + i \in 1 .. c
    OBVIOUS
  <2> QED BY <1>1, <1>2, <2>1
<1> QED BY <1>1, <1>3, JoinedLeft

-----------------------------------------------------------------------------
(* t, a sequence over S, stands behind position c of d.                    *)
Stands(S, d, c, t) ==
  c \in Nat /\ t \in Seq(S) /\ \A i \in 1 .. Len(t) : d[c + i] = t[i]

LEMMA StandsIs ==
  ASSUME NEW S, NEW d, NEW c, NEW t, Stands(S, d, c, t)
  PROVE  SubSeq(d, c + 1, c + Len(t)) = t
<1>1. ASSUME NEW b \in Nat, NEW u \in Seq(S), Stands(S, d, b, u)
      PROVE  SubSeq(d, b + 1, b + Len(u)) = u
  BY <1>1, SubSeqIs DEF Stands
<1>2. c \in Nat /\ t \in Seq(S)
  BY DEF Stands
<1> QED BY <1>1, <1>2

(* What stands in a place, part by part                                    *)
Leads(d, a, w, k) == \A i \in 1 .. k : d[a + i] = w[i]

IsTail(S, w, k, x) ==
  /\ k \in Nat /\ x \in Seq(S) /\ Len(w) = k + Len(x)
  /\ \A i \in 1 .. Len(x) : w[k + i] = x[i]

LEMMA StandsParts ==
  ASSUME NEW S, NEW d, NEW a, NEW w, NEW k, NEW x,
         Stands(S, d, a, w), IsTail(S, w, k, x)
  PROVE  /\ Stands(S, d, a + k, x)
         /\ Leads(d, a, w, k)
         /\ a + Len(w) = (a + k) + Len(x)
<1> DEFINE lw == Len(w)
           lx == Len(x)
<1>1. /\ lx \in Nat /\ lw = k + lx /\ a \in Nat /\ k \in Nat
      /\ x \in Seq(S)
  BY LenProperties DEF IsTail, Stands
<1>2. /\ \A i \in 1 .. lw : d[a + i] = w[i]
      /\ \A i \in 1 .. lx : w[k + i] = x[i]
  BY DEF Stands, IsTail
<1>3. Len(w) = lw /\ Len(x) = lx
  OBVIOUS
<1> HIDE DEF lw, lx
<1>4. \A i \in 1 .. lx : k + i \in 1 .. lw /\ a + (k + i) = (a + k) + i
  BY <1>1
<1>5. \A i \in 1 .. lx : d[(a + k) + i] = x[i]
  BY <1>2, <1>4
<1>6. \A i \in 1 .. k : i \in 1 .. lw
  BY <1>1
<1>7. a + lw = (a + k) + lx /\ a + k \in Nat
  BY <1>1
<1>8. Stands(S, d, a + k, x)
  BY <1>1, <1>3, <1>5, <1>7 DEF Stands
<1>9. Leads(d, a, w, k)
  BY <1>2, <1>6 DEF Leads
<1> QED BY <1>3, <1>7, <1>8, <1>9
=============================================================================
