----------------------------- MODULE DNSProofs -----------------------------
(***************************************************************************)
(* Proofs about DNSMessage.tla and DomainName.tla, in any base, for names, *)
(* data and sections of any length: what build writes is what a receiver   *)
(* reads.  Both go through the same places: a name is given in closed form *)
(* (NameBytes), as are the places where the entries of a body end (Ends).  *)
(* The writer's invariant says how much of them has been written, and the  *)
(* reader's steps, which the induction is on, how much has been read.      *)
(***************************************************************************)
EXTENDS DNSMessage, Lemmas

LEMMA ByteIs ==
  /\ Radix \in Nat /\ Radix >= 2 /\ 0 \in Byte
  /\ \A x \in Byte : x \in Nat /\ x < Radix
  /\ Period \in Byte
BY RadixAssumption, PeriodAssumption DEF Byte

-----------------------------------------------------------------------------
(* Names.  The section that begins at position q of the name ends at       *)
(* EndOf(nm, q).                                                           *)
PeriodsFrom(nm, q) == {p \in q .. Len(nm) - 1 : nm[p + 1] = Period}

EndOf(nm, q) ==
  IF PeriodsFrom(nm, q) = {} THEN Len(nm)
  ELSE CHOOSE p \in PeriodsFrom(nm, q) : \A o \in PeriodsFrom(nm, q) : p <= o

(* e ends it.                                                              *)
IsEnd(nm, q, e) ==
  /\ e \in Nat /\ q <= e /\ e <= Len(nm)
  /\ e = Len(nm) \/ nm[e + 1] = Period
  /\ \A p \in Nat : q <= p /\ p < e => nm[p + 1] # Period

LEMMA LeastIs ==
  ASSUME NEW T \in SUBSET Nat, T # {},
         NEW e, e = CHOOSE x \in T : \A y \in T : x <= y
  PROVE  e \in T /\ \A y \in T : e <= y
<1>1. \E x \in T : \A y \in T : x <= y
  BY LeastOf
<1> QED BY <1>1

LEMMA EndIs ==
  ASSUME NEW nm \in Seq(Byte), NEW q \in Nat, q <= Len(nm)
  PROVE  IsEnd(nm, q, EndOf(nm, q))
<1> DEFINE T == PeriodsFrom(nm, q)
           e == EndOf(nm, q)
<1>1. Len(nm) \in Nat
  BY LenProperties
<1>2. /\ T \in SUBSET Nat
      /\ \A p \in T : q <= p /\ p < Len(nm) /\ nm[p + 1] = Period
      /\ \A p \in Nat : q <= p /\ p < Len(nm) /\ nm[p + 1] = Period => p \in T
  BY <1>1 DEF PeriodsFrom
<1>3. CASE T = {}
  <2>1. e = Len(nm)
    BY <1>3 DEF EndOf
  <2> QED BY <1>1, <1>2, <1>3, <2>1 DEF IsEnd
<1>4. CASE T # {}
  <2>1. e = CHOOSE p \in T : \A o \in T : p <= o
    BY <1>4 DEF EndOf
  <2> HIDE DEF T, e
  <2>2. e \in T /\ \A o \in T : e <= o
    BY <1>2, <1>4, <2>1, LeastIs
  <2>3. e \in Nat /\ q <= e /\ e < Len(nm) /\ nm[e + 1] = Period
    BY <1>2, <2>2
  <2>4. ASSUME NEW p \in Nat, q <= p, p < e, nm[p + 1] = Period PROVE FALSE
    <3>1. p < Len(nm)
      BY <1>1, <2>3, <2>4
    <3>2. e <= p
      BY <1>2, <2>2, <2>4, <3>1
    <3> QED BY <2>3, <2>4, <3>2
  <2>5. IsEnd(nm, q, e)
    BY <1>1, <2>3, <2>4 DEF IsEnd
  <2> QED BY <2>5 DEF e
<1> QED BY <1>3, <1>4

LEMMA EndUnique ==
  ASSUME NEW nm \in Seq(Byte), NEW q \in Nat, NEW e, NEW e2,
         IsEnd(nm, q, e), IsEnd(nm, q, e2)
  PROVE  e = e2
<1>1. Len(nm) \in Nat
  BY LenProperties
<1>2. ~(e < e2) /\ ~(e2 < e)
  BY <1>1 DEF IsEnd
<1> QED BY <1>1, <1>2 DEF IsEnd

(* What the code finds is that end, and the last one when nothing is found. *)
LEMMA PeriodPos ==
  ASSUME domain_name \in Seq(Byte), prev \in Int, -1 <= prev, prev < Len(domain_name)
  PROVE  /\ period_pos = EndOf(domain_name, prev + 1)
         /\ IsEnd(domain_name, prev + 1, period_pos)
         /\ ~Found(prev + 1) <=> period_pos = Len(domain_name)
<1> DEFINE q == prev + 1
           T == {p \in Periods : p >= q}
           e == period_pos
<1>1. Len(domain_name) \in Nat /\ q \in Nat /\ q <= Len(domain_name)
  BY LenProperties
<1>2. /\ T \in SUBSET Nat
      /\ \A p \in T : q <= p /\ p < Len(domain_name) /\ domain_name[p + 1] = Period
      /\ \A p \in Nat : q <= p /\ p < Len(domain_name) /\ domain_name[p + 1] = Period
                          => p \in T
      /\ Found(q) <=> T # {}
  <2> DEFINE l == Len(domain_name)
  <2>1. \A p : p \in 0 .. l - 1 <=> p \in Nat /\ p < l
    BY <1>1
  <2>2. \A p : p \in Periods <=> p \in Nat /\ p < l /\ domain_name[p + 1] = Period
    BY <2>1 DEF Periods
  <2> HIDE DEF l
  <2>3. \A p \in Nat : p >= q <=> q <= p
    BY <1>1
  <2> HIDE DEF q
  <2> QED BY <2>2, <2>3 DEF Found, l
<1>3. IsEnd(domain_name, q, e) /\ (~Found(q) <=> e = Len(domain_name))
  <2>1. CASE T = {}
    <3>1. e = Len(domain_name)
      BY <1>2, <2>1 DEF period_pos
    <3> QED BY <1>1, <1>2, <2>1, <3>1 DEF IsEnd
  <2>2. CASE T # {}
    <3>1. \E x \in T : \A y \in T : x <= y
      BY <1>2, <2>2, LeastOf
    <3>2. e = Find(q)
      BY <1>2, <2>2 DEF period_pos
    <3>3. e \in T /\ \A o \in T : e <= o
      BY <3>1, <3>2 DEF Find
    <3> HIDE DEF T, e, q
    <3>4. e \in Nat /\ q <= e /\ e < Len(domain_name) /\ domain_name[e + 1] = Period
      BY <1>2, <3>3
    <3>5. ASSUME NEW p \in Nat, q <= p, p < e, domain_name[p + 1] = Period PROVE FALSE
      <4>1. p < Len(domain_name)
        BY <1>1, <3>4, <3>5
      <4>2. e <= p
        BY <1>2, <3>3, <3>5, <4>1
      <4> QED BY <3>4, <3>5, <4>2
    <3> QED BY <1>1, <1>2, <2>2, <3>4, <3>5 DEF IsEnd
  <2> QED BY <2>1, <2>2
<1>4. IsEnd(domain_name, q, EndOf(domain_name, q))
  BY <1>1, EndIs
<1>5. e = EndOf(domain_name, q)
  BY <1>1, <1>3, <1>4, EndUnique
<1> QED BY <1>3, <1>5

-----------------------------------------------------------------------------
(* Byte p of what is written for a name: a length where a section begins,  *)
(* and a character elsewhere; the terminator behind them                   *)
Coded(nm, p) ==
  IF p = 1 \/ nm[p - 1] = Period THEN EndOf(nm, p - 1) - (p - 1) ELSE nm[p - 1]

NameBytes(nm) ==
  [p \in 1 .. Len(nm) + 2 |-> IF p = Len(nm) + 2 THEN 0 ELSE Coded(nm, p)]

(* The sections up to the one that ends at v have been written to b.       *)
Written(nm, v, b) ==
  /\ v = -1 \/ v = Len(nm) \/ nm[v + 1] = Period
  /\ Len(b) = v + 1
  /\ \A p \in Nat : 1 <= p /\ p <= v + 1 => b[p] = Coded(nm, p)

(* One more section                                                        *)
LEMMA SectionWritten ==
  ASSUME NEW nm \in Seq(Byte), NEW b \in Seq(Byte),
         NEW v \in Int, -1 <= v, v < Len(nm), Written(nm, v, b),
         NEW e, e = EndOf(nm, v + 1), e - v - 1 <= Radix - 1
  PROVE  LET w == b \o <<e - v - 1>> \o SubSeq(nm, v + 2, e)
         IN  w \in Seq(Byte) /\ Written(nm, e, w)
<1> DEFINE l == e - v - 1
           u == SubSeq(nm, v + 2, e)
           a == b \o <<l>>
           w == a \o u
<1>1. Len(nm) \in Nat /\ Len(b) = v + 1
  BY LenProperties DEF Written
<1>2. IsEnd(nm, v + 1, e)
  BY <1>1, EndIs
<1>3. /\ e \in Nat /\ v + 1 <= e /\ e <= Len(nm) /\ l \in Nat /\ l = e - v - 1
      /\ e = Len(nm) \/ nm[e + 1] = Period
  BY <1>1, <1>2 DEF IsEnd
<1>4. l \in Byte /\ <<l>> \in Seq(Byte) /\ Len(<<l>>) = 1 /\ <<l>>[1] = l
  <2>1. l \in Byte
    BY <1>3, ByteIs DEF Byte
  <2> HIDE DEF l
  <2> QED BY <2>1
<1> HIDE DEF l
<1>5. /\ u \in Seq(Byte) /\ Len(u) = l
      /\ \A i \in Nat : 1 <= i /\ i <= l => u[i] = nm[v + 1 + i]
  <2>1. v + 2 \in Int /\ e \in Int
    BY <1>3
  <2>2. \A i \in v + 2 .. e : nm[i] \in Byte
    <3>1. \A i \in v + 2 .. e : i \in 1 .. Len(nm)
      BY <1>1, <1>3
    <3> QED BY <3>1, ElementOfSeq
  <2>3. /\ u \in Seq(Byte)
        /\ Len(u) = IF v + 2 <= e THEN e - (v + 2) + 1 ELSE 0
        /\ \A i \in 1 .. e - (v + 2) + 1 : u[i] = nm[v + 2 + i - 1]
    BY <2>1, <2>2, SubSeqProperties, SMTT(20)
  <2> HIDE DEF u
  <2>4. Len(u) = l
    BY <1>3, <2>3
  <2>5. ASSUME NEW i \in Nat, 1 <= i, i <= l PROVE u[i] = nm[v + 1 + i]
    <3>1. i \in 1 .. e - (v + 2) + 1 /\ v + 2 + i - 1 = v + 1 + i
      BY <1>3, <2>5
    <3> QED BY <2>3, <3>1
  <2> QED BY <2>3, <2>4, <2>5
<1>6. /\ a \in Seq(Byte) /\ Len(a) = v + 2 /\ a[v + 2] = l
      /\ \A p \in Nat : 1 <= p /\ p <= v + 1 => a[p] = b[p]
  <2>1. a \in Seq(Byte)
    BY <1>4, JoinedIsSeq
  <2>2. Len(a) = v + 2
    BY <1>1, <1>4, JoinedLen
  <2>3. \A p \in 1 .. Len(b) : a[p] = b[p]
    BY <1>4, JoinedLeft
  <2>4. a[Len(b) + 1] = l
    <3>1. 1 \in 1 .. Len(<<l>>)
      BY <1>4
    <3> QED BY <1>4, <3>1, JoinedRight
  <2> HIDE DEF a
  <2>5. Len(b) + 1 = v + 2 /\ \A p \in Nat : 1 <= p /\ p <= v + 1 => p \in 1 .. Len(b)
    BY <1>1
  <2> QED BY <2>1, <2>2, <2>3, <2>4, <2>5
<1> HIDE DEF a, u
<1>7. /\ w \in Seq(Byte) /\ Len(w) = e + 1
      /\ \A p \in Nat : 1 <= p /\ p <= v + 2 => w[p] = a[p]
      /\ \A i \in Nat : 1 <= i /\ i <= l => w[v + 2 + i] = u[i]
  <2>1. w \in Seq(Byte)
    BY <1>5, <1>6, JoinedIsSeq
  <2>2. Len(w) = Len(a) + Len(u)
    BY <1>5, <1>6, JoinedLen
  <2>3. \A p \in 1 .. Len(a) : w[p] = a[p]
    BY <1>5, <1>6, JoinedLeft
  <2>4. \A i \in 1 .. Len(u) : w[Len(a) + i] = u[i]
    <3>1. a \in Seq(Byte) /\ u \in Seq(Byte)
      BY <1>5, <1>6
    <3> QED BY <3>1, JoinedRight
  <2> HIDE DEF w
  <2>5. Len(w) = e + 1
    BY <1>3, <1>5, <1>6, <2>2
  <2>6. /\ \A p \in Nat : 1 <= p /\ p <= v + 2 => p \in 1 .. Len(a)
        /\ \A i \in Nat : 1 <= i /\ i <= l => i \in 1 .. Len(u)
    BY <1>3, <1>5, <1>6
  <2> QED BY <1>6, <2>1, <2>3, <2>4, <2>5, <2>6
<1> HIDE DEF w
<1>8. ASSUME NEW p \in Nat, 1 <= p, p <= e + 1 PROVE w[p] = Coded(nm, p)
  <2>1. CASE p <= v + 1
    <3>1. w[p] = b[p]
      BY <1>6, <1>7, <1>8, <2>1
    <3> QED BY <1>8, <2>1, <3>1 DEF Written
  <2>2. CASE p = v + 2
    <3>1. w[p] = l
      BY <1>6, <1>7, <1>8, <2>2
    <3>2. p - 1 = v + 1 /\ (p = 1 \/ nm[p - 1] = Period)
      BY <1>1, <2>2 DEF Written
    <3>3. Coded(nm, p) = e - (v + 1)
      BY <3>2 DEF Coded
    <3> QED BY <1>3, <3>1, <3>3
  <2>3. CASE p > v + 2
    <3> DEFINE i == p - (v + 2)
    <3>1. i \in Nat /\ 1 <= i /\ i <= l /\ v + 2 + i = p /\ v + 1 + i = p - 1
      BY <1>3, <1>8, <2>3
    <3>2. w[p] = nm[p - 1]
      <4> HIDE DEF i
      <4>1. w[v + 2 + i] = u[i] /\ u[i] = nm[v + 1 + i]
        BY <1>5, <1>7, <3>1
      <4> QED BY <3>1, <4>1
    <3>3. p - 2 \in Nat /\ v + 1 <= p - 2 /\ p - 2 < e /\ (p - 2) + 1 = p - 1 /\ p # 1
      BY <1>3, <1>8, <2>3
    <3>4. nm[p - 1] # Period
      BY <1>2, <3>3 DEF IsEnd
    <3> QED BY <3>2, <3>3, <3>4 DEF Coded
  <2> QED BY <1>8, <2>1, <2>2, <2>3
<1>9. Written(nm, e, w)
  BY <1>3, <1>7, <1>8 DEF Written
<1> QED BY <1>7, <1>9 DEF w, a, u, l

(* The terminator                                                          *)
LEMMA NameWritten ==
  ASSUME NEW nm \in Seq(Byte), NEW b \in Seq(Byte), Written(nm, Len(nm), b)
  PROVE  b \o <<0>> \in Seq(Byte) /\ b \o <<0>> = NameBytes(nm)
<1> DEFINE w == b \o <<0>>
           l == Len(nm) + 2
<1>1. /\ Len(nm) \in Nat /\ Len(b) = Len(nm) + 1 /\ l = Len(nm) + 2 /\ l \in Nat
      /\ \A p \in Nat : 1 <= p /\ p <= Len(nm) + 1 => b[p] = Coded(nm, p)
  BY LenProperties DEF Written
<1>2. <<0>> \in Seq(Byte) /\ Len(<<0>>) = 1 /\ <<0>>[1] = 0
  BY ByteIs
<1>3. w \in Seq(Byte) /\ Len(w) = l
  <2>1. Len(w) = Len(b) + 1
    BY <1>2, JoinedLen
  <2>2. w \in Seq(Byte)
    BY <1>2, JoinedIsSeq
  <2> HIDE DEF w
  <2> QED BY <1>1, <2>1, <2>2
<1>4. \A p \in 1 .. Len(b) : w[p] = b[p]
  BY <1>2, JoinedLeft
<1>5. w[Len(b) + 1] = 0
  <2>1. 1 \in 1 .. Len(<<0>>)
    BY <1>2
  <2> QED BY <1>2, <2>1, JoinedRight
<1> HIDE DEF w, l
<1>6. ASSUME NEW p \in 1 .. l PROVE w[p] = IF p = l THEN 0 ELSE Coded(nm, p)
  <2>1. CASE p = l
    BY <1>1, <1>5, <2>1
  <2>2. CASE p # l
    <3>1. p \in Nat /\ 1 <= p /\ p <= Len(nm) + 1 /\ p \in 1 .. Len(b)
      BY <1>1, <2>2
    <3> QED BY <1>1, <1>4, <2>2, <3>1
  <2> QED BY <2>1, <2>2
<1>7. w = [p \in 1 .. l |-> w[p]]
  BY <1>3, LenProperties
<1>8. w = [p \in 1 .. l |-> IF p = l THEN 0 ELSE Coded(nm, p)]
  BY <1>6, <1>7
<1> QED BY <1>3, <1>8 DEF NameBytes, w, l


-----------------------------------------------------------------------------
(* The writer: between two sections, what is written is what was passed.   *)
NameInv ==
  /\ NameTypeOK
  /\ naming = "looping" => /\ Written(domain_name, prev, bytes)
                           /\ done <=> prev = Len(domain_name)
  /\ naming = "named" => bytes = NameBytes(domain_name)

LEMMA NothingIsWritten ==
  ASSUME NEW nm \in Seq(Byte)
  PROVE  /\ Len(nm) \in Nat /\ -1 \in -1 .. Len(nm) /\ -1 # Len(nm)
         /\ <<>> \in Seq(Byte) /\ Written(nm, -1, <<>>)
<1>1. Len(nm) \in Nat
  BY LenProperties
<1>2. <<>> \in Seq(Byte) /\ Len(<<>>) = 0
  OBVIOUS
<1>3. Written(nm, -1, <<>>)
  <2>1. \A p \in Nat : ~(1 <= p /\ p <= -1 + 1)
    OBVIOUS
  <2> QED BY <1>2, <2>1 DEF Written
<1>4. -1 \in -1 .. Len(nm) /\ -1 # Len(nm)
  BY <1>1
<1> QED BY <1>1, <1>2, <1>3, <1>4

LEMMA IdleName == Idle => NameInv
<1>1. <<>> \in Seq(Byte)
  OBVIOUS
<1>2. -1 \in -1 .. Len(<<>>)
  BY <1>1, NothingIsWritten
<1> QED BY <1>1, <1>2 DEF Idle, NameInv, NameTypeOK

LEMMA EnterName ==
  \A name \in Seq(Byte), state \in {"looping", "idle"} :
    Enter(name, state) => NameInv'
<1> SUFFICES ASSUME NEW name \in Seq(Byte), NEW state \in {"looping", "idle"},
                    Enter(name, state)
             PROVE  NameInv'
  OBVIOUS
<1>1. /\ domain_name' = name /\ prev' = -1 /\ done' = FALSE
      /\ bytes' = <<>> /\ naming' = state
  BY DEF Enter
<1>2. /\ -1 \in -1 .. Len(name) /\ -1 # Len(name)
      /\ <<>> \in Seq(Byte) /\ Written(name, -1, <<>>)
  BY NothingIsWritten
<1> QED BY <1>1, <1>2 DEF NameInv, NameTypeOK

LEMMA NameStays ==
  NameInv /\ UNCHANGED nameVars => NameInv'
BY DEF nameVars, NameInv, NameTypeOK

LEMMA NameStepInv == NameInv /\ NameNext => NameInv'
<1> SUFFICES ASSUME NameInv, NameNext PROVE NameInv'
  OBVIOUS
<1>0. /\ domain_name \in Seq(Byte) /\ bytes \in Seq(Byte) /\ done \in BOOLEAN
      /\ prev \in Int /\ -1 <= prev /\ prev <= Len(domain_name)
      /\ Len(domain_name) \in Nat
  BY LenProperties DEF NameInv, NameTypeOK
<1>1. CASE WriteSection
  <2> DEFINE e == period_pos
  <2>1. /\ naming = "looping" /\ ~done /\ e - prev - 1 <= Radix - 1
        /\ bytes' = bytes \o <<e - prev - 1>> \o SubSeq(domain_name, prev + 2, e)
        /\ prev' = e /\ (done' = ~Found(prev + 1))
        /\ domain_name' = domain_name /\ naming' = naming
    BY <1>1 DEF WriteSection, section_length, Section, UINT8_MAX
  <2>2. Written(domain_name, prev, bytes) /\ prev < Len(domain_name)
    <3>1. prev # Len(domain_name) /\ Written(domain_name, prev, bytes)
      BY <2>1 DEF NameInv
    <3> QED BY <1>0, <3>1
  <2>3. /\ e = EndOf(domain_name, prev + 1)
        /\ IsEnd(domain_name, prev + 1, e)
        /\ ~Found(prev + 1) <=> e = Len(domain_name)
    BY <1>0, <2>2, PeriodPos
  <2> HIDE DEF e
  <2>4. /\ bytes' \in Seq(Byte)
        /\ Written(domain_name, e, bytes')
    BY <1>0, <2>1, <2>2, <2>3, SectionWritten
  <2>5. e \in -1 .. Len(domain_name)
    BY <1>0, <2>3 DEF IsEnd
  <2>6. done' \in BOOLEAN /\ (done' <=> e = Len(domain_name))
    BY <2>1, <2>3
  <2>7. NameTypeOK'
    BY <1>0, <2>1, <2>4, <2>5, <2>6 DEF NameTypeOK
  <2> QED BY <2>1, <2>4, <2>6, <2>7 DEF NameInv
<1>2. CASE SectionTooLong
  BY <1>2 DEF SectionTooLong, NameInv, NameTypeOK
<1>3. CASE Terminate
  <2>1. /\ naming = "looping" /\ done /\ naming' = "named"
        /\ bytes' = bytes \o <<0>>
        /\ domain_name' = domain_name /\ prev' = prev /\ done' = done
    BY <1>3 DEF Terminate, Terminator
  <2>2. Written(domain_name, Len(domain_name), bytes)
    BY <2>1 DEF NameInv
  <2>3. bytes' \in Seq(Byte) /\ bytes' = NameBytes(domain_name)
    BY <1>0, <2>1, <2>2, NameWritten
  <2>4. NameTypeOK'
    BY <2>1, <2>3 DEF NameInv, NameTypeOK
  <2> QED BY <2>1, <2>3, <2>4 DEF NameInv
<1> QED BY <1>1, <1>2, <1>3 DEF NameNext


-----------------------------------------------------------------------------
(* The reader of a name.  Its steps satisfy the equation that defines them.*)
NoName(from) == [name |-> <<>>, at |-> from, whole |-> FALSE]

AreNameSteps(g, b, from, k) ==
  g = [j \in 0 .. k |-> IF j = 0 THEN NoName(from) ELSE ReadSection(b, g[j - 1])]

LEMMA NameStepsExist ==
  ASSUME NEW b, NEW from, NEW k \in Nat
  PROVE  \E g : AreNameSteps(g, b, from, k)
<1> DEFINE Upto(g, m) == g = [j \in 0 .. m |-> IF j = 0 THEN NoName(from)
                                               ELSE ReadSection(b, g[j - 1])]
           S == {m \in Nat : \E g : Upto(g, m)}
<1>1. 0 \in S
  <2>1. Upto([j \in 0 .. 0 |-> NoName(from)], 0)
    OBVIOUS
  <2> QED BY <2>1
<1>2. ASSUME NEW m \in Nat, m \in S PROVE m + 1 \in S
  <2>1. PICK g : Upto(g, m)
    BY <1>2
  <2> DEFINE h == [j \in 0 .. m + 1 |-> IF j <= m THEN g[j] ELSE ReadSection(b, g[m])]
  <2>2. ASSUME NEW j \in 0 .. m + 1
        PROVE  h[j] = IF j = 0 THEN NoName(from) ELSE ReadSection(b, h[j - 1])
    <3>1. CASE j = m + 1
      <4>1. j - 1 = m /\ m \in 0 .. m + 1 /\ ~(j <= m) /\ j # 0
        BY <3>1
      <4> QED BY <3>1, <4>1
    <3>2. CASE j \in 1 .. m
      <4>1. j \in 0 .. m /\ j - 1 \in 0 .. m + 1 /\ j - 1 <= m /\ j # 0 /\ j <= m
        BY <3>2
      <4>2. g[j] = ReadSection(b, g[j - 1])
        BY <2>1, <4>1
      <4> QED BY <4>1, <4>2
    <3>3. CASE j = 0
      <4>1. j \in 0 .. m /\ j <= m
        BY <3>3
      <4> QED BY <2>1, <3>3, <4>1
    <3> QED BY <3>1, <3>2, <3>3
  <2>3. h = [j \in 0 .. m + 1 |-> h[j]]
    OBVIOUS
  <2> HIDE DEF h
  <2>4. Upto(h, m + 1)
    BY <2>2, <2>3
  <2> QED BY <2>4
<1>3. k \in S
  <2> HIDE DEF S
  <2> QED BY <1>1, <1>2, Induction
<1> QED BY <1>3 DEF AreNameSteps

LEMMA NameStepsAre ==
  ASSUME NEW b, NEW from, Len(b) \in Nat
  PROVE  /\ NameSteps(b, from)[0] = NoName(from)
         /\ \A j \in Nat : j < Len(b) =>
              NameSteps(b, from)[j + 1] = ReadSection(b, NameSteps(b, from)[j])
<1> DEFINE f == NameSteps(b, from)
<1>1. f = [j \in 0 .. Len(b) |-> IF j = 0 THEN NoName(from)
                                 ELSE ReadSection(b, f[j - 1])]
  <2>1. \E g : AreNameSteps(g, b, from, Len(b))
    BY NameStepsExist
  <2>2. \E g : g = [j \in 0 .. Len(b) |-> IF j = 0 THEN NoName(from)
                                          ELSE ReadSection(b, g[j - 1])]
    BY <2>1 DEF AreNameSteps
  <2> QED BY <2>2 DEF NameSteps, NoName
<1> HIDE DEF f
<1>2. f[0] = NoName(from)
  <2>1. 0 \in 0 .. Len(b)
    OBVIOUS
  <2> QED BY <1>1, <2>1
<1>3. ASSUME NEW j \in Nat, j < Len(b) PROVE f[j + 1] = ReadSection(b, f[j])
  <2>1. j + 1 \in 0 .. Len(b) /\ j + 1 # 0 /\ (j + 1) - 1 = j
    BY <1>3
  <2> QED BY <1>1, <2>1
<1> QED BY <1>2, <1>3 DEF f

(* The bytes of the name stand in b behind position from.                  *)
Lays(b, from, nm) ==
  /\ from \in Nat /\ Len(b) \in Nat /\ from + Len(nm) + 2 <= Len(b)
  /\ \A p \in 1 .. Len(nm) + 2 : b[from + p] = NameBytes(nm)[p]

(* The reader has read the sections up to the one that ends at e, or has   *)
(* stopped: then it has at least a beginning of the name, and of a plain   *)
(* name the whole.                                                         *)
HasRead(from, nm, e, r) ==
  /\ e \in Int /\ e <= Len(nm)
  /\ e = -1 \/ (e >= 1 /\ (e = Len(nm) \/ nm[e + 1] = Period))
  /\ r = [name |-> SubSeq(nm, 1, e), at |-> from + e + 1, whole |-> FALSE]

HasStopped(from, nm, r) ==
  \E e \in Nat, at \in Nat :
    /\ e <= Len(nm)
    /\ r = [name |-> SubSeq(nm, 1, e), at |-> at, whole |-> TRUE]
    /\ Plain(nm) => e = Len(nm) /\ at = from + Len(nm) + 2

(* A section is joined to what was read.                                   *)
LEMMA SectionJoins ==
  ASSUME NEW nm \in Seq(Byte), NEW e \in Nat, NEW f \in Nat,
         1 <= e, e < f, f <= Len(nm), nm[e + 1] = Period
  PROVE  SubSeq(nm, 1, e) \o <<Period>> \o SubSeq(nm, e + 2, f) = SubSeq(nm, 1, f)
<1>1. Len(nm) \in Nat
  BY LenProperties
<1>2. SubSeq(nm, 1, e) \o <<Period>> = SubSeq(nm, 1, e + 1)
  <2>1. 1 \in 1 .. Len(nm) /\ e + 1 \in 1 .. Len(nm) /\ (e + 1) - 1 = e
    BY <1>1
  <2>2. SubSeq(nm, 1, e + 1) = SubSeq(nm, 1, (e + 1) - 1) \o <<nm[e + 1]>>
    BY <2>1, SubSeqRecursiveSecond
  <2> QED BY <2>1, <2>2
<1>3. SubSeq(nm, 1, e + 1) \o SubSeq(nm, (e + 1) + 1, f) = SubSeq(nm, 1, f)
  <2> DEFINE k == e + 1
  <2>1. 1 \in 1 .. Len(nm) + 1 /\ k \in 1 - 1 .. Len(nm) /\ f \in k .. Len(nm)
    BY <1>1
  <2> HIDE DEF k
  <2>2. SubSeq(nm, 1, k) \o SubSeq(nm, k + 1, f) = SubSeq(nm, 1, f)
    BY <2>1, ConcatAdjacentSubSeq
  <2> QED BY <2>2 DEF k
<1>4. (e + 1) + 1 = e + 2
  OBVIOUS
<1> QED BY <1>2, <1>3, <1>4


(* Where the reader has come to, a section begins, which ends at f.        *)
Begins(nm, e) ==
  e \in Int /\ e < Len(nm) /\ (e = -1 \/ (e >= 1 /\ nm[e + 1] = Period))

SectionLies(b, from, nm, e, f) ==
  /\ IsEnd(nm, e + 1, f)
  /\ b[from + e + 2] = f - e - 1
  /\ SubSeq(b, from + e + 3, from + f + 1) = SubSeq(nm, e + 2, f)

LEMMA NextSection ==
  ASSUME NEW nm \in Seq(Byte), NEW b, NEW from, Lays(b, from, nm), NEW e, Begins(nm, e),
         NEW f, f = EndOf(nm, e + 1)
  PROVE  SectionLies(b, from, nm, e, f)
<1>0. e \in Int /\ e < Len(nm) /\ (e = -1 \/ (e >= 1 /\ nm[e + 1] = Period))
  BY DEF Begins
<1>1. Len(nm) \in Nat /\ e + 1 \in Nat /\ e + 1 <= Len(nm) /\ e \in Int
  BY <1>0, LenProperties
<1>2. IsEnd(nm, e + 1, f)
  BY <1>1, EndIs
<1>3. f \in Nat /\ e + 1 <= f /\ f <= Len(nm)
  BY <1>2 DEF IsEnd
<1>4. from \in Nat /\ \A p \in Nat : 1 <= p /\ p <= Len(nm) + 1 => b[from + p] = Coded(nm, p)
  <2>1. from \in Nat /\ \A p \in 1 .. Len(nm) + 2 : b[from + p] = NameBytes(nm)[p]
    BY DEF Lays
  <2>2. ASSUME NEW p \in Nat, 1 <= p, p <= Len(nm) + 1 PROVE b[from + p] = Coded(nm, p)
    <3>1. p \in 1 .. Len(nm) + 2 /\ p # Len(nm) + 2
      BY <1>1, <2>2
    <3> QED BY <2>1, <3>1 DEF NameBytes
  <2> QED BY <2>1, <2>2
<1>5. b[from + e + 2] = f - e - 1
  <2> DEFINE p == e + 2
  <2>1. p \in Nat /\ 1 <= p /\ p <= Len(nm) + 1 /\ from + p = from + e + 2 /\ p - 1 = e + 1
    BY <1>1, <1>4
  <2>2. p = 1 \/ nm[p - 1] = Period
    BY <1>0, <2>1
  <2> HIDE DEF p
  <2>3. Coded(nm, p) = f - (e + 1)
    BY <2>1, <2>2 DEF Coded
  <2>4. b[from + p] = f - (e + 1)
    BY <1>4, <2>1, <2>3
  <2> QED BY <1>1, <1>3, <2>1, <2>4
<1>6. SubSeq(b, from + e + 3, from + f + 1) = SubSeq(nm, e + 2, f)
  <2> DEFINE t == SubSeq(nm, e + 2, f)
             l == f - e - 1
             a == from + e + 2
  <2>1. /\ t \in Seq(Byte) /\ Len(t) = l
        /\ \A i \in Nat : 1 <= i /\ i <= l => t[i] = nm[e + 1 + i]
    <3>1. e + 2 \in Int /\ f \in Int
      BY <1>1, <1>3
    <3>2. \A i \in e + 2 .. f : nm[i] \in Byte
      <4>1. \A i \in e + 2 .. f : i \in 1 .. Len(nm)
        BY <1>1, <1>3
      <4> QED BY <4>1, ElementOfSeq
    <3>3. /\ t \in Seq(Byte)
          /\ Len(t) = IF e + 2 <= f THEN f - (e + 2) + 1 ELSE 0
          /\ \A i \in 1 .. f - (e + 2) + 1 : t[i] = nm[e + 2 + i - 1]
      BY <3>1, <3>2, SubSeqProperties
    <3> HIDE DEF t
    <3>4. Len(t) = l
      BY <1>1, <1>3, <3>3
    <3>5. ASSUME NEW i \in Nat, 1 <= i, i <= l PROVE t[i] = nm[e + 1 + i]
      <4>1. i \in 1 .. f - (e + 2) + 1 /\ e + 2 + i - 1 = e + 1 + i
        BY <1>1, <1>3, <3>5
      <4> QED BY <3>3, <4>1
    <3> QED BY <3>3, <3>4, <3>5
  <2> HIDE DEF t
  <2>2. a \in Nat /\ l \in Nat /\ a + 1 = from + e + 3 /\ a + l = from + f + 1
    <3>1. from \in Nat
      BY <1>4
    <3> QED BY <1>1, <1>3, <3>1
  <2>3. ASSUME NEW i \in 1 .. Len(t) PROVE b[a + i] = t[i]
    <3> DEFINE p == e + 2 + i
    <3>1. /\ i \in Nat /\ 1 <= i /\ i <= l
          /\ p \in Nat /\ 1 <= p /\ p <= Len(nm) + 1 /\ p # 1
          /\ from + p = a + i /\ p - 1 = e + 1 + i
      <4>1. i \in Nat /\ 1 <= i /\ i <= l
        BY <2>1
      <4>2. from \in Nat /\ l = f - e - 1
        BY <1>4
      <4> HIDE DEF l
      <4> QED BY <1>1, <1>3, <4>1, <4>2
    <3>2. /\ p - 2 \in Nat /\ e + 1 <= p - 2 /\ p - 2 < f /\ (p - 2) + 1 = p - 1
      BY <1>1, <1>3, <3>1
    <3> HIDE DEF p, a, l
    <3>3. nm[p - 1] # Period
      BY <1>2, <3>2 DEF IsEnd
    <3>4. b[from + p] = nm[p - 1]
      BY <1>4, <3>1, <3>3 DEF Coded
    <3> QED BY <2>1, <3>1, <3>4
  <2> HIDE DEF a, l
  <2>4. SubSeq(b, a + 1, a + Len(t)) = t
    <3>1. t \in Seq(Byte) /\ a \in Nat
      BY <2>1, <2>2
    <3> QED BY <3>1, <2>3, SubSeqIs
  <2> QED BY <2>1, <2>2, <2>4 DEF t
<1> QED BY <1>2, <1>5, <1>6 DEF SectionLies

(* A section is empty, before the end, only in a name that is not plain.   *)
LEMMA PlainSections ==
  ASSUME NEW nm \in Seq(Byte), Plain(nm), NEW e \in Int, e < Len(nm),
         e = -1 \/ (e >= 1 /\ nm[e + 1] = Period), IsEnd(nm, e + 1, e + 1)
  PROVE  FALSE
<1>1. Len(nm) \in Nat /\ Len(nm) # 0
  <2>1. nm # <<>>
    BY DEF Plain
  <2> QED BY <2>1, EmptySeq, LenProperties
<1>2. e + 1 = Len(nm) \/ nm[e + 2] = Period
  BY DEF IsEnd
<1>3. CASE e = -1
  BY <1>1, <1>2, <1>3 DEF Plain
<1>4. CASE e >= 1 /\ nm[e + 1] = Period
  <2>1. CASE e + 1 = Len(nm)
    BY <1>4, <2>1 DEF Plain
  <2>2. CASE e + 1 < Len(nm) /\ nm[e + 2] = Period
    <3>1. e + 1 \in 1 .. Len(nm) - 1 /\ (e + 1) + 1 = e + 2
      BY <1>1, <1>4, <2>2
    <3> QED BY <1>4, <2>2, <3>1 DEF Plain
  <2> QED BY <1>1, <1>2, <2>1, <2>2
<1> QED BY <1>3, <1>4

LEMMA ReaderGoesOn ==
  ASSUME NEW nm \in Seq(Byte), NEW b, NEW from, Lays(b, from, nm), NEW e \in Int, NEW r,
         HasRead(from, nm, e, r)
  PROVE  \/ HasStopped(from, nm, ReadSection(b, r))
         \/ \E f \in Int : f > e /\ HasRead(from, nm, f, ReadSection(b, r))
<1> DEFINE size == b[r.at + 1]
           section == SubSeq(b, r.at + 2, r.at + 1 + size)
           after == ReadSection(b, r)
<1>1. /\ e \in Int /\ e <= Len(nm) /\ Len(nm) \in Nat /\ -1 <= e
      /\ e = -1 \/ (e >= 1 /\ (e = Len(nm) \/ nm[e + 1] = Period))
  BY LenProperties DEF HasRead
<1>2. r.name = SubSeq(nm, 1, e) /\ r.at = from + e + 1 /\ r.whole = FALSE
  BY DEF HasRead
<1>3. from \in Nat /\ Len(b) \in Nat /\ from + Len(nm) + 2 <= Len(b)
  BY DEF Lays
<1>4. r.at \in Nat /\ ~(r.at >= Len(b)) /\ r.at + 1 = from + e + 2 /\ r.at + 2 = from + e + 3
  BY <1>1, <1>2, <1>3
<1>5. CASE e = Len(nm)
  <2>1. size = 0
    <3>1. Len(nm) + 2 \in 1 .. Len(nm) + 2 /\ from + (Len(nm) + 2) = from + e + 2
      BY <1>1, <1>3, <1>5
    <3>2. b[from + (Len(nm) + 2)] = NameBytes(nm)[Len(nm) + 2]
      BY <3>1 DEF Lays
    <3>3. NameBytes(nm)[Len(nm) + 2] = 0
      BY <3>1 DEF NameBytes
    <3> QED BY <1>4, <3>1, <3>2, <3>3
  <2> HIDE DEF size
  <2>2. after = [name |-> SubSeq(nm, 1, e), at |-> r.at + 1, whole |-> TRUE]
    <3>1. ~(r.at + 1 + size > Len(b))
      BY <1>1, <1>3, <1>4, <2>1
    <3> QED BY <1>2, <1>4, <2>1, <3>1 DEF ReadSection, size
  <2>3. e \in Nat /\ r.at + 1 \in Nat /\ r.at + 1 = from + Len(nm) + 2
    BY <1>1, <1>3, <1>4, <1>5
  <2> HIDE DEF after
  <2>4. HasStopped(from, nm, after)
    BY <1>1, <1>5, <2>2, <2>3 DEF HasStopped
  <2> QED BY <2>4 DEF after
<1>6. CASE e # Len(nm)
  <2> DEFINE f == EndOf(nm, e + 1)
  <2>1. e < Len(nm) /\ (e = -1 \/ (e >= 1 /\ nm[e + 1] = Period))
    BY <1>1, <1>6
  <2>0. f = EndOf(nm, e + 1)
    OBVIOUS
  <2> HIDE DEF f
  <2>2. /\ IsEnd(nm, e + 1, f)
        /\ b[from + e + 2] = f - e - 1
        /\ SubSeq(b, from + e + 3, from + f + 1) = SubSeq(nm, e + 2, f)
    <3>1. Begins(nm, e)
      BY <2>1 DEF Begins
    <3>2. SectionLies(b, from, nm, e, f)
      BY <2>0, <3>1, NextSection
    <3> QED BY <3>2 DEF SectionLies
  <2>3. /\ f \in Nat /\ e + 1 <= f /\ f <= Len(nm)
        /\ f = Len(nm) \/ nm[f + 1] = Period
    BY <2>2 DEF IsEnd
  <2>4. size = f - e - 1 /\ r.at + 1 + size = from + f + 1 /\ ~(r.at + 1 + size > Len(b))
    <3>1. size = f - e - 1
      BY <1>4, <2>2
    <3> HIDE DEF size
    <3> QED BY <1>1, <1>3, <1>4, <2>3, <3>1
  <2>5. section = SubSeq(nm, e + 2, f)
    BY <1>4, <2>2, <2>4
  <2>6. CASE f = e + 1
    <3>1. size = 0
      BY <1>1, <2>4, <2>6
    <3>2. after = [name |-> SubSeq(nm, 1, e), at |-> r.at + 1, whole |-> TRUE]
      BY <1>2, <1>4, <2>4, <3>1 DEF ReadSection
    <3>3. ~Plain(nm)
      BY <1>1, <2>1, <2>2, <2>6, PlainSections
    <3> DEFINE d == IF e = -1 THEN 0 ELSE e
    <3>4. d \in Nat /\ d <= Len(nm) /\ r.at + 1 \in Nat
      BY <1>1, <1>4
    <3>5. SubSeq(nm, 1, e) = SubSeq(nm, 1, d)
      <4>1. -1 \in Int /\ 0 \in Int /\ 1 \in Int /\ -1 < 1 /\ 0 < 1
        OBVIOUS
      <4>2. SubSeq(nm, 1, -1) = <<>> /\ SubSeq(nm, 1, 0) = <<>>
        BY <4>1, SubSeqEmpty
      <4> QED BY <4>2
    <3> HIDE DEF after, d
    <3>6. HasStopped(from, nm, after)
      BY <3>2, <3>3, <3>4, <3>5 DEF HasStopped
    <3> QED BY <3>6 DEF after
  <2>7. CASE f # e + 1
    <3>1. size # 0 /\ f > e /\ f >= 1 /\ e < f
      BY <1>1, <2>3, <2>4, <2>7
    <3>2. after = [name |-> IF r.name = <<>> THEN section
                            ELSE r.name \o <<Period>> \o section,
                   at |-> r.at + 1 + size, whole |-> FALSE]
      BY <1>2, <1>4, <2>4, <3>1 DEF ReadSection
    <3>3. (IF r.name = <<>> THEN section ELSE r.name \o <<Period>> \o section)
            = SubSeq(nm, 1, f)
      <4>1. CASE e = -1
        <5>1. -1 \in Int /\ 1 \in Int /\ -1 < 1
          OBVIOUS
        <5>2. r.name = <<>>
          BY <1>2, <4>1, <5>1, SubSeqEmpty
        <5>3. e + 2 = 1
          BY <4>1
        <5> QED BY <2>5, <5>2, <5>3
      <4>2. CASE e >= 1 /\ nm[e + 1] = Period
        <5>1. e \in Nat /\ 1 <= e /\ e \in 0 .. Len(nm)
          BY <1>1, <4>2
        <5>2. Len(r.name) = e
          BY <1>2, <5>1, PrefixIs
        <5>3. r.name # <<>>
          <6>1. Len(<<>>) = 0
            OBVIOUS
          <6> QED BY <5>1, <5>2, <6>1
        <5>4. r.name \o <<Period>> \o section = SubSeq(nm, 1, f)
          BY <1>2, <2>3, <2>5, <3>1, <4>2, <5>1, SectionJoins
        <5> QED BY <5>3, <5>4
      <4> QED BY <2>1, <4>1, <4>2
    <3> HIDE DEF after, section, size
    <3>4. after = [name |-> SubSeq(nm, 1, f), at |-> from + f + 1, whole |-> FALSE]
      BY <2>4, <3>2, <3>3
    <3>5. HasRead(from, nm, f, after)
      BY <2>3, <3>1, <3>4 DEF HasRead
    <3>6. f \in Int
      BY <2>3
    <3> QED BY <3>1, <3>5, <3>6 DEF after
  <2> QED BY <2>6, <2>7
<1> QED BY <1>5, <1>6


(* Where it has stopped it stays.                                          *)
LEMMA ReaderStays ==
  ASSUME NEW nm, NEW b, NEW from, NEW r, HasStopped(from, nm, r)
  PROVE  ReadSection(b, r) = r
<1>1. r.whole = TRUE
  BY DEF HasStopped
<1> QED BY <1>1 DEF ReadSection

(* Every step reads at least one byte, so that there are enough of them.   *)
LEMMA NameIsRead ==
  ASSUME NEW nm \in Seq(Byte), NEW b, NEW from, Lays(b, from, nm)
  PROVE  HasStopped(from, nm, ReadName(b, from))
<1> DEFINE f == NameSteps(b, from)
           Reached(j) == \/ HasStopped(from, nm, f[j])
                        \/ \E e \in Int : e >= j - 1 /\ HasRead(from, nm, e, f[j])
           S == {j \in Nat : j <= Len(b) => Reached(j)}
<1>1. /\ from \in Nat /\ Len(b) \in Nat /\ Len(nm) \in Nat
      /\ from + Len(nm) + 2 <= Len(b)
  BY LenProperties DEF Lays
<1>2. /\ f[0] = NoName(from)
      /\ \A j \in Nat : j < Len(b) => f[j + 1] = ReadSection(b, f[j])
  BY <1>1, NameStepsAre
<1> HIDE DEF f
<1>3. 0 \in S
  <2>1. -1 \in Int /\ 1 \in Int /\ -1 < 1 /\ -1 <= Len(nm) /\ from + (-1) + 1 = from
    BY <1>1
  <2>2. SubSeq(nm, 1, -1) = <<>>
    BY <2>1, SubSeqEmpty
  <2>3. HasRead(from, nm, -1, f[0])
    BY <1>2, <2>1, <2>2 DEF HasRead, NoName
  <2>4. -1 >= 0 - 1
    OBVIOUS
  <2> QED BY <2>1, <2>3, <2>4
<1>4. ASSUME NEW j \in Nat, j \in S PROVE j + 1 \in S
  <2> SUFFICES ASSUME j + 1 <= Len(b) PROVE Reached(j + 1)
    OBVIOUS
  <2>1. j < Len(b) /\ j <= Len(b)
    BY <1>1
  <2>2. f[j + 1] = ReadSection(b, f[j])
    BY <1>2, <2>1
  <2>3. Reached(j)
    BY <1>4, <2>1
  <2>4. CASE HasStopped(from, nm, f[j])
    BY <2>2, <2>4, ReaderStays
  <2>5. ASSUME NEW e \in Int, e >= j - 1, HasRead(from, nm, e, f[j])
        PROVE  Reached(j + 1)
    <3>1. \/ HasStopped(from, nm, f[j + 1])
          \/ \E d \in Int : d > e /\ HasRead(from, nm, d, f[j + 1])
      BY <2>2, <2>5, ReaderGoesOn
    <3>2. \A d \in Int : d > e => d >= (j + 1) - 1
      BY <2>5
    <3> QED BY <3>1, <3>2
  <2> QED BY <2>3, <2>4, <2>5
<1>5. Reached(Len(b))
  <2>1. \A j \in Nat : j \in S
    <3> HIDE DEF S
    <3> QED BY <1>3, <1>4, Induction
  <2> QED BY <1>1, <2>1
<1>6. ASSUME NEW e \in Int, e >= Len(b) - 1, HasRead(from, nm, e, f[Len(b)])
      PROVE  FALSE
  <2>1. e <= Len(nm)
    BY <1>6 DEF HasRead
  <2> QED BY <1>1, <1>6, <2>1
<1>7. HasStopped(from, nm, f[Len(b)])
  BY <1>5, <1>6
<1> QED BY <1>7 DEF ReadName, f


-----------------------------------------------------------------------------
(* Messages.  The entries of m, the bytes of entry j, and where in the     *)
(* body they end                                                           *)
EntriesIn(m) == m.questions \o m.answers \o m.authorities \o m.additional

Suffix(m, j) ==
  IF j <= Len(m.questions) THEN EntriesIn(m)[j].fixed
  ELSE EntriesIn(m)[j].fixed \o SplitBytes(Len(EntriesIn(m)[j].rdata))
         \o EntriesIn(m)[j].rdata

Piece(m, j) == NameBytes(EntriesIn(m)[j].domain_name) \o Suffix(m, j)

Pieces(m) == [j \in 1 .. Len(EntriesIn(m)) |-> Piece(m, j)]

Lengths(m) == [j \in 1 .. Len(EntriesIn(m)) |-> Len(Piece(m, j))]

Ends(m) == SumsUpTo(Lengths(m))

(* The first k members of s are questions, and the others are records.     *)
Sorted(s, k) ==
  /\ s \in Seq(Questions \cup Records) /\ k \in Nat /\ k <= Len(s)
  /\ \A j \in 1 .. Len(s) : IF j <= k THEN s[j] \in Questions ELSE s[j] \in Records

LEMMA SortedOn ==
  ASSUME NEW s, NEW k, Sorted(s, k), NEW t \in Seq(Records)
  PROVE  Sorted(s \o t, k) /\ Len(s \o t) = Len(s) + Len(t)
<1> DEFINE E == Questions \cup Records
           w == s \o t
<1>1. s \in Seq(E) /\ t \in Seq(E)
  <2>1. Records \subseteq E
    OBVIOUS
  <2> QED BY <2>1, SeqMonotonic DEF Sorted
<1>2. /\ Len(s) \in Nat /\ Len(t) \in Nat
      /\ \A i \in 1 .. Len(t) : t[i] \in Records
  BY <1>1, LenProperties, ElementOfSeq
<1>3. /\ w \in Seq(E) /\ Len(w) = Len(s) + Len(t)
      /\ \A i \in 1 .. Len(s) : w[i] = s[i]
      /\ \A i \in 1 .. Len(t) : w[Len(s) + i] = t[i]
  <2> HIDE DEF E
  <2> QED BY <1>1, JoinedIsSeq, JoinedLen, JoinedLeft, JoinedRight
<1> HIDE DEF w
<1>4. ASSUME NEW j \in 1 .. Len(w)
      PROVE  IF j <= k THEN w[j] \in Questions ELSE w[j] \in Records
  <2>1. CASE j <= Len(s)
    <3>1. j \in 1 .. Len(s)
      BY <1>2, <2>1
    <3> QED BY <1>3, <3>1 DEF Sorted
  <2>2. CASE j > Len(s)
    <3> DEFINE i == j - Len(s)
    <3>1. i \in 1 .. Len(t) /\ Len(s) + i = j
      BY <1>2, <1>3, <2>2
    <3>2. ~(j <= k)
      BY <1>2, <2>2 DEF Sorted
    <3> HIDE DEF i
    <3>3. w[j] = t[i]
      BY <1>3, <3>1
    <3> QED BY <1>2, <3>1, <3>2, <3>3
  <2> QED BY <1>2, <2>1, <2>2
<1>5. k \in Nat /\ k <= Len(w)
  BY <1>2, <1>3 DEF Sorted
<1> QED BY <1>3, <1>4, <1>5 DEF Sorted, w

LEMMA MessageIs ==
  ASSUME NEW m \in Messages
  PROVE  /\ m.qr \in {0, 1}
         /\ m.opcode \in 0 .. 255 /\ m.flags \in 0 .. 255 /\ m.rcode \in 0 .. 255
         /\ m.questions \in Seq(Questions) /\ m.answers \in Seq(Records)
         /\ m.authorities \in Seq(Records) /\ m.additional \in Seq(Records)
<1>1. m \in [qr : {0, 1}, opcode : 0 .. 255, flags : 0 .. 255, rcode : 0 .. 255,
              questions : Seq(Questions), answers : Seq(Records),
              authorities : Seq(Records), additional : Seq(Records)]
  BY MessagesAssumption
<1> QED BY <1>1

LEMMA EntriesAre ==
  ASSUME NEW m \in Messages
  PROVE  /\ Sorted(EntriesIn(m), Len(m.questions))
         /\ Len(EntriesIn(m)) = Len(m.questions) + Len(m.answers)
                                  + Len(m.authorities) + Len(m.additional)
<1> DEFINE k == Len(m.questions)
           a == m.questions \o m.answers
           b == a \o m.authorities
           c == b \o m.additional
<1>1. /\ m.questions \in Seq(Questions) /\ m.answers \in Seq(Records)
      /\ m.authorities \in Seq(Records) /\ m.additional \in Seq(Records)
  BY MessageIs
<1>2. Sorted(m.questions, k)
  <2>1. Questions \subseteq Questions \cup Records
    OBVIOUS
  <2>2. m.questions \in Seq(Questions \cup Records) /\ k \in Nat
    BY <1>1, <2>1, SeqMonotonic, LenProperties
  <2>3. \A j \in 1 .. Len(m.questions) : j <= k /\ m.questions[j] \in Questions
    BY <1>1, <2>2, ElementOfSeq
  <2> QED BY <2>2, <2>3 DEF Sorted
<1> HIDE DEF k
<1>3. Sorted(a, k) /\ Len(a) = Len(m.questions) + Len(m.answers)
  BY <1>1, <1>2, SortedOn
<1> HIDE DEF a
<1>4. Sorted(b, k) /\ Len(b) = Len(a) + Len(m.authorities)
  BY <1>1, <1>3, SortedOn
<1> HIDE DEF b
<1>5. Sorted(c, k) /\ Len(c) = Len(b) + Len(m.additional)
  BY <1>1, <1>4, SortedOn
<1>6. c = EntriesIn(m)
  BY DEF a, b, EntriesIn
<1> HIDE DEF c
<1>7. Len(c) = Len(m.questions) + Len(m.answers) + Len(m.authorities) + Len(m.additional)
  BY <1>3, <1>4, <1>5
<1> QED BY <1>5, <1>6, <1>7 DEF k

(* The fields of an entry                                                  *)
LEMMA EntryIs ==
  ASSUME NEW m \in Messages, NEW j \in 1 .. Len(EntriesIn(m))
  PROVE  LET e == EntriesIn(m)[j]
         IN  /\ e.domain_name \in Seq(Byte) /\ e.fixed \in Seq(Byte) /\ e.rdata \in Seq(Byte)
             /\ e = [domain_name |-> e.domain_name, fixed |-> e.fixed, rdata |-> e.rdata]
             /\ IF j <= Len(m.questions) THEN Len(e.fixed) = 4 /\ e.rdata = <<>>
                                         ELSE Len(e.fixed) = 8
<1> DEFINE e == EntriesIn(m)[j]
<1>1. IF j <= Len(m.questions) THEN e \in Questions ELSE e \in Records
  BY EntriesAre DEF Sorted
<1> HIDE DEF e
<1>2. \A g \in [1 .. 4 -> Byte] : g \in Seq(Byte) /\ Len(g) = 4
  <2>1. 4 \in Nat
    OBVIOUS
  <2> QED BY <2>1, ListIsSeq
<1>3. \A g \in [1 .. 8 -> Byte] : g \in Seq(Byte) /\ Len(g) = 8
  <2>1. 8 \in Nat
    OBVIOUS
  <2> QED BY <2>1, ListIsSeq
<1>4. <<>> \in Seq(Byte)
  OBVIOUS
<1>5. e \in Questions \cup Records
  BY <1>1
<1>6. /\ e.domain_name \in Seq(Byte) /\ e.fixed \in Seq(Byte) /\ e.rdata \in Seq(Byte)
      /\ e = [domain_name |-> e.domain_name, fixed |-> e.fixed, rdata |-> e.rdata]
  <2>1. CASE e \in Questions
    BY <1>2, <1>4, <2>1 DEF Questions
  <2>2. CASE e \in Records
    BY <1>3, <2>2 DEF Records
  <2> QED BY <1>5, <2>1, <2>2
<1>7. IF j <= Len(m.questions) THEN Len(e.fixed) = 4 /\ e.rdata = <<>>
                               ELSE Len(e.fixed) = 8
  <2>1. e \in Questions => Len(e.fixed) = 4 /\ e.rdata = <<>>
    BY <1>2 DEF Questions
  <2>2. e \in Records => Len(e.fixed) = 8
    BY <1>3 DEF Records
  <2> QED BY <1>1, <2>1, <2>2
<1> QED BY <1>6, <1>7 DEF e

(* The bytes of a name are numbers, though of a section that is too long   *)
(* the length is no byte.                                                  *)
LEMMA NameBytesAre ==
  ASSUME NEW nm \in Seq(Byte)
  PROVE  NameBytes(nm) \in Seq(Int) /\ Len(NameBytes(nm)) = Len(nm) + 2
<1> DEFINE k == Len(nm) + 2
           w == NameBytes(nm)
<1>1. Len(nm) \in Nat /\ k \in Nat
  BY LenProperties
<1>2. ASSUME NEW p \in 1 .. k, p # k PROVE Coded(nm, p) \in Int
  <2>1. p \in Nat /\ p - 1 \in Nat /\ p - 1 <= Len(nm)
    BY <1>1, <1>2
  <2>2. EndOf(nm, p - 1) \in Nat
    BY <2>1, EndIs DEF IsEnd
  <2>3. p # 1 => nm[p - 1] \in Int
    <3>1. p # 1 => p - 1 \in 1 .. Len(nm)
      BY <1>1, <1>2
    <3>2. \A i \in 1 .. Len(nm) : nm[i] \in Byte
      BY ElementOfSeq
    <3> QED BY <3>1, <3>2, ByteIs
  <2> QED BY <2>1, <2>2, <2>3 DEF Coded
<1>3. w \in [1 .. k -> Int]
  <2>1. w = [p \in 1 .. k |-> IF p = k THEN 0 ELSE Coded(nm, p)]
    BY DEF NameBytes
  <2> HIDE DEF w, k
  <2> QED BY <1>2, <2>1
<1> HIDE DEF w, k
<1>4. w \in Seq(Int) /\ Len(w) = k
  BY <1>1, <1>3, ListIsSeq
<1> QED BY <1>4 DEF w, k

(* All of what is known of w, which is s followed by t                     *)
IsJoin(w, s, t) ==
  /\ w \in Seq(Int) /\ Len(w) = Len(s) + Len(t)
  /\ \A i \in 1 .. Len(s) : w[i] = s[i]
  /\ \A i \in 1 .. Len(t) : w[Len(s) + i] = t[i]

LEMMA JoinIs ==
  ASSUME NEW s \in Seq(Int), NEW t \in Seq(Int), NEW w, w = s \o t
  PROVE  IsJoin(w, s, t)
<1>1. s \o t \in Seq(Int)
  BY JoinedIsSeq
<1>2. Len(s \o t) = Len(s) + Len(t)
  BY JoinedLen
<1>3. \A i \in 1 .. Len(s) : (s \o t)[i] = s[i]
  BY JoinedLeft
<1>4. \A i \in 1 .. Len(t) : (s \o t)[Len(s) + i] = t[i]
  BY JoinedRight
<1> QED BY <1>1, <1>2, <1>3, <1>4 DEF IsJoin

(* What follows the name of a record                                       *)
RecordSuffix(x, f, y) ==
  /\ f \in Seq(Int) /\ Len(f) = 8 /\ y \in Seq(Int)
  /\ Len(x) = 10 + Len(y)
  /\ \A i \in 1 .. 8 : x[i] = f[i]
  /\ x[9] = Len(y) \div Radix /\ x[10] = Len(y) % Radix
  /\ \A i \in 1 .. Len(y) : x[10 + i] = y[i]

(* What follows the name in an entry                                       *)
LEMMA SuffixIs ==
  ASSUME NEW m \in Messages, NEW j \in 1 .. Len(EntriesIn(m))
  PROVE  LET e == EntriesIn(m)[j]
         IN  /\ Suffix(m, j) \in Seq(Int)
             /\ j <= Len(m.questions) => /\ Suffix(m, j) = e.fixed
                                         /\ Len(Suffix(m, j)) = 4
             /\ ~(j <= Len(m.questions)) =>
                  RecordSuffix(Suffix(m, j), e.fixed, e.rdata)
<1> DEFINE e == EntriesIn(m)[j]
           f == e.fixed
           r == e.rdata
           l == Len(r)
           t == SplitBytes(l)
           u == f \o t
           w == u \o r
<1>1. /\ f \in Seq(Byte) /\ r \in Seq(Byte)
      /\ IF j <= Len(m.questions) THEN Len(f) = 4 ELSE Len(f) = 8
  BY EntryIs
<1>2. Suffix(m, j) = IF j <= Len(m.questions) THEN f ELSE w
  BY DEF Suffix
<1> HIDE DEF e, f, r
<1>3. f \in Seq(Int) /\ r \in Seq(Int) /\ l \in Nat
  <2>1. Byte \subseteq Int
    BY ByteIs
  <2> QED BY <1>1, <2>1, SeqMonotonic, LenProperties
<1>4. t \in Seq(Int) /\ Len(t) = 2 /\ t[1] = l \div Radix /\ t[2] = l % Radix
  <2>1. l \div Radix \in Int /\ l % Radix \in Int
    BY <1>3, ByteIs, DivMod
  <2> HIDE DEF l
  <2> QED BY <2>1 DEF SplitBytes
<1> HIDE DEF l, t
<1>5. CASE j <= Len(m.questions)
  BY <1>1, <1>2, <1>3, <1>5 DEF e, f, r, l
<1>6. CASE ~(j <= Len(m.questions))
  <2>1. Len(f) = 8
    BY <1>1, <1>6
  <2>2. IsJoin(u, f, t)
    <3>1. f \in Seq(Int) /\ t \in Seq(Int)
      BY <1>3, <1>4
    <3> QED BY <3>1, JoinIs
  <2> HIDE DEF u
  <2>3. /\ u \in Seq(Int) /\ Len(u) = 10
        /\ \A i \in 1 .. 8 : u[i] = f[i]
        /\ u[9] = t[1] /\ u[10] = t[2]
    <3>1. 1 \in 1 .. Len(t) /\ 2 \in 1 .. Len(t) /\ Len(f) + 1 = 9 /\ Len(f) + 2 = 10
      BY <1>4, <2>1
    <3> QED BY <1>4, <2>1, <2>2, <3>1 DEF IsJoin
  <2>4. IsJoin(w, u, r)
    <3>1. u \in Seq(Int) /\ r \in Seq(Int)
      BY <1>3, <2>3
    <3> QED BY <3>1, JoinIs
  <2> HIDE DEF w
  <2>5. /\ w \in Seq(Int) /\ Len(w) = 10 + l
        /\ \A i \in 1 .. 10 : w[i] = u[i]
        /\ \A i \in 1 .. l : w[10 + i] = r[i]
    BY <2>3, <2>4 DEF IsJoin, l
  <2>6. /\ \A i \in 1 .. 8 : w[i] = f[i]
        /\ w[9] = l \div Radix /\ w[10] = l % Radix
    <3>1. \A i \in 1 .. 8 : i \in 1 .. 10
      OBVIOUS
    <3>2. 9 \in 1 .. 10 /\ 10 \in 1 .. 10
      OBVIOUS
    <3> QED BY <1>4, <2>3, <2>5, <3>1, <3>2
  <2>7. Suffix(m, j) = w
    BY <1>2, <1>6
  <2>8. RecordSuffix(w, f, r)
    BY <1>3, <2>1, <2>5, <2>6 DEF RecordSuffix, l
  <2> QED BY <1>6, <2>5, <2>7, <2>8 DEF e, f, r
<1> QED BY <1>5, <1>6

LEMMA PieceIs ==
  ASSUME NEW m \in Messages, NEW j \in 1 .. Len(EntriesIn(m))
  PROVE  LET k == Len(EntriesIn(m)[j].domain_name) + 2
         IN  /\ Piece(m, j) \in Seq(Int) /\ k \in Nat
             /\ Len(Piece(m, j)) = k + Len(Suffix(m, j))
             /\ \A i \in 1 .. k :
                  Piece(m, j)[i] = NameBytes(EntriesIn(m)[j].domain_name)[i]
             /\ \A i \in 1 .. Len(Suffix(m, j)) : Piece(m, j)[k + i] = Suffix(m, j)[i]
<1> DEFINE nm == EntriesIn(m)[j].domain_name
           b == NameBytes(nm)
           x == Suffix(m, j)
           w == b \o x
<1>1. nm \in Seq(Byte)
  BY EntryIs
<1> HIDE DEF nm
<1>2. b \in Seq(Int) /\ Len(b) = Len(nm) + 2 /\ Len(nm) \in Nat
  BY <1>1, NameBytesAre, LenProperties
<1>3. x \in Seq(Int)
  BY SuffixIs
<1>4. w = Piece(m, j)
  BY DEF Piece, nm
<1> HIDE DEF b, x
<1>5. IsJoin(w, b, x)
  BY <1>2, <1>3, JoinIs
<1> HIDE DEF w
<1>6. Len(nm) + 2 \in Nat
  BY <1>2
<1> QED BY <1>2, <1>4, <1>5, <1>6 DEF nm, b, x, IsJoin

(* Where the entries end                                                   *)
LEMMA EndsAre ==
  ASSUME NEW m \in Messages
  PROVE  /\ Len(EntriesIn(m)) \in Nat
         /\ Ends(m) \in [0 .. Len(EntriesIn(m)) -> Nat]
         /\ Ends(m)[0] = 0
         /\ \A j \in 1 .. Len(EntriesIn(m)) :
              /\ Len(Piece(m, j)) \in Nat
              /\ Ends(m)[j] = Ends(m)[j - 1] + Len(Piece(m, j))
<1> DEFINE k == Len(EntriesIn(m))
           w == Lengths(m)
<1>1. k \in Nat
  BY EntriesAre, LenProperties DEF Sorted
<1>2. \A j \in 1 .. k : Len(Piece(m, j)) \in Nat /\ w[j] = Len(Piece(m, j))
  <2>1. \A j \in 1 .. k : Piece(m, j) \in Seq(Int)
    BY PieceIs
  <2> QED BY <2>1, LenProperties DEF Lengths
<1>3. w \in [1 .. k -> Nat]
  BY <1>2 DEF Lengths
<1> HIDE DEF w, k
<1>4. Len(w) = k /\ \A j \in 1 .. k : w[j] \in Nat
  BY <1>1, <1>3, ListIsSeq
<1>5. /\ SumsUpTo(w) \in [0 .. k -> Nat] /\ SumsUpTo(w)[0] = 0
      /\ \A j \in 1 .. k : SumsUpTo(w)[j] = SumsUpTo(w)[j - 1] + w[j]
  BY <1>1, <1>4, SumsAre
<1> QED BY <1>1, <1>2, <1>5 DEF Ends, w, k

-----------------------------------------------------------------------------
(* The reader of a body that spells the entries of m                       *)
Body(d, m) == Len(d) \in Nat /\ Spells(d, Ends(m), Pieces(m), Len(EntriesIn(m)))

(* Where the name and the rest of the next entry stand                     *)
LEMMA EntryStarts ==
  ASSUME NEW m \in Messages, NEW j \in 1 .. Len(EntriesIn(m))
  PROVE  /\ Ends(m)[j - 1] \in Nat
         /\ Len(EntriesIn(m)[j].domain_name) \in Nat
         /\ Ends(m)[j - 1] + Len(EntriesIn(m)[j].domain_name) + 2 \in Nat
<1>1. Ends(m)[j - 1] \in Nat
  <2>1. Len(EntriesIn(m)) \in Nat
    BY EndsAre
  <2>2. j - 1 \in 0 .. Len(EntriesIn(m))
    BY <2>1
  <2> QED BY <2>2, EndsAre
<1>2. Len(EntriesIn(m)[j].domain_name) \in Nat
  BY EntryIs, LenProperties
<1> QED BY <1>1, <1>2

(* Entry j begins behind position a with the name nm, whose bytes end at   *)
(* position c.                                                             *)
EntryAt(m, j, nm, a, c) ==
  /\ nm = EntriesIn(m)[j].domain_name
  /\ a = Ends(m)[j - 1]
  /\ c = a + Len(nm) + 2

LEMMA EntryPlaces ==
  ASSUME NEW m \in Messages, NEW j \in 1 .. Len(EntriesIn(m)),
         NEW nm, NEW a, NEW c, EntryAt(m, j, nm, a, c)
  PROVE  /\ nm \in Seq(Byte) /\ Len(nm) \in Nat /\ a \in Nat /\ c \in Nat
         /\ Len(nm) + 2 \in Nat /\ c = a + (Len(nm) + 2)
<1>1. nm \in Seq(Byte) /\ Len(nm) \in Nat /\ a \in Nat
  BY EntryIs, EntryStarts DEF EntryAt
<1>2. c = a + Len(nm) + 2
  BY DEF EntryAt
<1>3. \A p, q \in Nat : /\ p + q + 2 = p + (q + 2) /\ p + (q + 2) \in Nat
                        /\ q + 2 \in Nat
  OBVIOUS
<1>4. c = a + (Len(nm) + 2) /\ a + (Len(nm) + 2) \in Nat /\ Len(nm) + 2 \in Nat
  BY <1>1, <1>2, <1>3
<1> QED BY <1>1, <1>4

LEMMA EntryLies ==
  ASSUME NEW m \in Messages, NEW d, Body(d, m), NEW j \in 1 .. Len(EntriesIn(m)),
         NEW nm, NEW a, NEW c, EntryAt(m, j, nm, a, c)
  PROVE  /\ Lays(d, a, nm)
         /\ Stands(Int, d, c, Suffix(m, j))
         /\ Ends(m)[j] = c + Len(Suffix(m, j))
<1> DEFINE w == Piece(m, j)
           x == Suffix(m, j)
           k == Len(nm) + 2
<1>1. nm = EntriesIn(m)[j].domain_name /\ a = Ends(m)[j - 1]
  BY DEF EntryAt
<1>2. /\ w \in Seq(Int) /\ Len(w) = k + Len(x)
      /\ \A i \in 1 .. k : w[i] = NameBytes(nm)[i]
      /\ \A i \in 1 .. Len(x) : w[k + i] = x[i]
  BY <1>1, PieceIs
<1>3. x \in Seq(Int)
  BY SuffixIs
<1>4. Ends(m)[j] = a + Len(w)
  BY <1>1, EndsAre
<1>5. /\ Len(d) \in Nat /\ a + Len(w) <= Len(d)
      /\ \A i \in 1 .. Len(w) : d[a + i] = w[i]
  BY <1>1 DEF Body, Spells, Holds, Pieces
<1>6. a \in Nat /\ k \in Nat /\ c = a + k /\ a + Len(nm) + 2 = c
  <2>1. a + Len(nm) + 2 = c
    BY DEF EntryAt
  <2>2. a \in Nat /\ k \in Nat /\ c = a + k
    BY EntryPlaces
  <2> QED BY <2>1, <2>2
<1> HIDE DEF w, x, k
<1>7. Stands(Int, d, a, w)
  BY <1>2, <1>5, <1>6 DEF Stands
<1>8. /\ Stands(Int, d, c, x)
      /\ \A i \in 1 .. k : d[a + i] = w[i]
      /\ a + Len(w) = c + Len(x)
  <2>1. IsTail(Int, w, k, x)
    BY <1>2, <1>3, <1>6 DEF IsTail
  <2>2. Stands(Int, d, a + k, x) /\ a + Len(w) = (a + k) + Len(x)
    BY <1>7, <2>1, StandsParts
  <2>3. \A i \in 1 .. k : d[a + i] = w[i]
    <3>1. Leads(d, a, w, k)
      BY <1>7, <2>1, StandsParts
    <3> QED BY <3>1 DEF Leads
  <2>4. c = a + k
    BY <1>6
  <2> QED BY <2>2, <2>3, <2>4
<1>9. c <= Len(d)
  <2> DEFINE lx == Len(x)
             ld == Len(d)
  <2>1. lx \in Nat /\ c + lx <= ld /\ ld \in Nat
    BY <1>3, <1>5, <1>8, LenProperties
  <2>2. c \in Nat
    BY <1>6
  <2> HIDE DEF lx, ld
  <2>3. c <= ld
    BY <2>1, <2>2
  <2> QED BY <2>3 DEF ld
<1>10. Lays(d, a, nm)
  <2>1. \A p \in 1 .. k : d[a + p] = NameBytes(nm)[p]
    BY <1>2, <1>8
  <2>2. a + Len(nm) + 2 <= Len(d) /\ Len(d) \in Nat /\ a \in Nat
    BY <1>5, <1>6, <1>9
  <2> QED BY <2>1, <2>2 DEF Lays, k
<1>11. Ends(m)[j] = c + Len(x)
  BY <1>4, <1>8
<1> QED BY <1>8, <1>10, <1>11 DEF x

(* The first j entries have been read.                                     *)
HasEntries(m, j, r) ==
  r = [entries |-> SubSeq(EntriesIn(m), 1, j), at |-> Ends(m)[j]]

AllPlain(m) == \A j \in 1 .. Len(EntriesIn(m)) : Plain(EntriesIn(m)[j].domain_name)

(* A plain name is read as it is.                                          *)
LEMMA PlainIsRead ==
  ASSUME NEW nm \in Seq(Byte), Plain(nm), NEW b, NEW from, Lays(b, from, nm)
  PROVE  ReadName(b, from) = [name |-> nm, at |-> from + Len(nm) + 2, whole |-> TRUE]
<1>1. HasStopped(from, nm, ReadName(b, from))
  BY NameIsRead
<1>2. SubSeq(nm, 1, Len(nm)) = nm
  BY SubSeqFull
<1> QED BY <1>1, <1>2 DEF HasStopped

(* What the reader takes for an entry, when a name ends behind position c  *)
EndsName(r, nm, c) == ReadName(data, r.at) = [name |-> nm, at |-> c, whole |-> TRUE]

LEMMA QuestionRead ==
  ASSUME NEW q, NEW r, NEW nm, NEW c, EndsName(r, nm, c), Len(r.entries) < q
  PROVE  ReadEntry(q, r) =
           [entries |-> Append(r.entries, [domain_name |-> nm,
                                           fixed |-> SubSeq(data, c + 1, c + 4),
                                           rdata |-> <<>>]),
            at      |-> c + 4]
BY DEF ReadEntry, EndsName

LEMMA RecordRead ==
  ASSUME NEW q, NEW r, NEW nm, NEW c, EndsName(r, nm, c), ~(Len(r.entries) < q),
         NEW l, l = CombineBytes(data[c + 8 + 1], data[c + 8 + 2])
  PROVE  ReadEntry(q, r) =
           [entries |-> Append(r.entries,
                          [domain_name |-> nm,
                           fixed |-> SubSeq(data, c + 1, c + 8),
                           rdata |-> SubSeq(data, c + 8 + 3, c + 8 + 2 + l)]),
            at      |-> c + 8 + 2 + l]
BY DEF ReadEntry, EndsName

LEMMA RecordStands ==
  ASSUME NEW d, NEW c, NEW x, Stands(Int, d, c, x), NEW f, NEW y, RecordSuffix(x, f, y)
  PROVE  /\ Stands(Int, d, c, f) /\ Stands(Int, d, c + 10, y)
         /\ d[c + 9] = Len(y) \div Radix /\ d[c + 10] = Len(y) % Radix
<1> DEFINE l == Len(y)
<1>1. l \in Nat
  BY LenProperties DEF RecordSuffix
<1>2. /\ Len(x) = 10 + l
      /\ \A i \in 1 .. 8 : x[i] = f[i]
      /\ x[9] = l \div Radix /\ x[10] = l % Radix
      /\ \A i \in 1 .. l : x[10 + i] = y[i]
  BY DEF RecordSuffix
<1>3. c \in Nat /\ \A i \in 1 .. 10 + l : d[c + i] = x[i]
  BY <1>2 DEF Stands
<1> HIDE DEF l
<1>4. \A i \in 1 .. 10 : i \in 1 .. 10 + l
  BY <1>1
<1>5. \A i \in 1 .. l : 10 + i \in 1 .. 10 + l /\ c + (10 + i) = (c + 10) + i
  BY <1>1, <1>3
<1>6. \A i \in 1 .. 8 : d[c + i] = f[i]
  <2>1. \A i \in 1 .. 8 : i \in 1 .. 10
    OBVIOUS
  <2> QED BY <1>2, <1>3, <1>4, <2>1
<1>7. \A i \in 1 .. l : d[(c + 10) + i] = y[i]
  BY <1>2, <1>3, <1>5
<1>8. d[c + 9] = l \div Radix /\ d[c + 10] = l % Radix
  <2>1. 9 \in 1 .. 10 /\ 10 \in 1 .. 10
    OBVIOUS
  <2> QED BY <1>2, <1>3, <1>4, <2>1
<1>9. Stands(Int, d, c, f)
  BY <1>3, <1>6 DEF Stands, RecordSuffix
<1>10. Stands(Int, d, c + 10, y)
  <2>1. c + 10 \in Nat
    BY <1>3
  <2>2. y \in Seq(Int)
    BY DEF RecordSuffix
  <2> QED BY <1>7, <2>1, <2>2 DEF Stands, l
<1> QED BY <1>8, <1>9, <1>10 DEF l

(* The positions in a record, as the reader counts them                    *)
LEMMA RecordPlaces ==
  ASSUME NEW c \in Nat, NEW l \in Nat
  PROVE  /\ c + 8 + 1 = c + 9 /\ c + 8 + 2 = c + 10
         /\ c + 8 + 3 = (c + 10) + 1 /\ c + 8 + 2 + l = (c + 10) + l
         /\ c + 8 + 2 + l = c + (10 + l)
OBVIOUS

LEMMA LengthIs ==
  ASSUME NEW l \in Nat
  PROVE  CombineBytes(l \div Radix, l % Radix) = l
<1>1. l = (l \div Radix) * Radix + (l % Radix)
  BY ByteIs, DivMod
<1> QED BY <1>1 DEF CombineBytes

(* The bytes of a record behind its name                                   *)
LEMMA RecordBytes ==
  ASSUME NEW d, NEW c, NEW x, Stands(Int, d, c, x), NEW f, NEW y, RecordSuffix(x, f, y)
  PROVE  /\ SubSeq(d, c + 1, c + 8) = f
         /\ Len(y) = CombineBytes(d[c + 8 + 1], d[c + 8 + 2])
         /\ SubSeq(d, c + 8 + 3, c + 8 + 2 + Len(y)) = y
         /\ c + 8 + 2 + Len(y) = c + Len(x)
<1> DEFINE l == Len(y)
<1>1. c \in Nat /\ l \in Nat /\ Len(f) = 8 /\ Len(x) = 10 + l
  BY LenProperties DEF Stands, RecordSuffix
<1>2. /\ Stands(Int, d, c, f) /\ Stands(Int, d, c + 10, y)
      /\ d[c + 9] = l \div Radix /\ d[c + 10] = l % Radix
  BY RecordStands
<1>3. SubSeq(d, c + 1, c + Len(f)) = f /\ SubSeq(d, (c + 10) + 1, (c + 10) + l) = y
  BY <1>2, StandsIs
<1> HIDE DEF l
<1>4. /\ c + 8 + 1 = c + 9 /\ c + 8 + 2 = c + 10
      /\ c + 8 + 3 = (c + 10) + 1 /\ c + 8 + 2 + l = (c + 10) + l
      /\ c + 8 + 2 + l = c + (10 + l)
  BY <1>1, RecordPlaces
<1>5. CombineBytes(l \div Radix, l % Radix) = l
  BY <1>1, LengthIs
<1> QED BY <1>1, <1>2, <1>3, <1>4, <1>5, Zenon DEF l

LEMMA EntryIsRead ==
  ASSUME NEW m \in Messages, AllPlain(m), Body(data, m),
         NEW j \in 1 .. Len(EntriesIn(m)), NEW r, HasEntries(m, j - 1, r)
  PROVE  HasEntries(m, j, ReadEntry(Len(m.questions), r))
<1> DEFINE E == EntriesIn(m)
           e == E[j]
           f == e.fixed
           y == e.rdata
           x == Suffix(m, j)
           q == Len(m.questions)
<1>1. PICK nm, a, c : EntryAt(m, j, nm, a, c)
  BY DEF EntryAt
<1>2. nm = e.domain_name /\ a = Ends(m)[j - 1]
  BY <1>1 DEF EntryAt
<1>3. /\ nm \in Seq(Byte) /\ c = a + Len(nm) + 2
  BY <1>1, EntryPlaces DEF EntryAt
<1>4. /\ Lays(data, a, nm)
      /\ Stands(Int, data, c, x)
      /\ Ends(m)[j] = c + Len(x)
  BY <1>1, EntryLies
<1>5. /\ e = [domain_name |-> nm, fixed |-> f, rdata |-> y]
      /\ f \in Seq(Byte) /\ y \in Seq(Byte)
      /\ IF j <= q THEN Len(f) = 4 /\ y = <<>> ELSE Len(f) = 8
  BY <1>2, EntryIs
<1>6. j <= q => x = f /\ Len(x) = 4
  BY SuffixIs
<1>7. ~(j <= q) => RecordSuffix(x, f, y)
  BY SuffixIs
<1>8. r.entries = SubSeq(E, 1, j - 1) /\ r.at = a
  BY <1>2 DEF HasEntries
<1>9. EndsName(r, nm, c)
  <2>1. Plain(nm)
    BY <1>2 DEF AllPlain
  <2>2. ReadName(data, a) = [name |-> nm, at |-> a + Len(nm) + 2, whole |-> TRUE]
    BY <1>3, <1>4, <2>1, PlainIsRead
  <2> QED BY <1>3, <1>8, <2>2 DEF EndsName
<1>10. /\ E \in Seq(Questions \cup Records) /\ Len(E) \in Nat /\ q \in Nat
       /\ j - 1 \in 0 .. Len(E) - 1 /\ (j - 1) + 1 = j /\ j - 1 \in 0 .. Len(E)
  <2>1. E \in Seq(Questions \cup Records) /\ q \in Nat
    BY EntriesAre DEF Sorted
  <2>2. Len(E) \in Nat
    BY <2>1, LenProperties
  <2>3. j \in 1 .. Len(E)
    OBVIOUS
  <2> HIDE DEF E, q
  <2> QED BY <2>1, <2>2, <2>3
<1>11. Append(SubSeq(E, 1, j - 1), e) = SubSeq(E, 1, j)
  <2> DEFINE i == j - 1
  <2>1. i \in 0 .. Len(E) - 1 /\ i + 1 = j
    BY <1>10
  <2> HIDE DEF i, E, e
  <2>2. Append(SubSeq(E, 1, i), E[i + 1]) = SubSeq(E, 1, i + 1)
    BY <1>10, <2>1, PrefixNext
  <2>3. e = E[j]
    BY DEF e
  <2> QED BY <2>1, <2>2, <2>3 DEF i
<1>12. (Len(r.entries) < q) <=> (j <= q)
  <2>1. Len(r.entries) = j - 1
    BY <1>8, <1>10, PrefixIs
  <2> HIDE DEF q, E
  <2> QED BY <1>10, <2>1
<1> HIDE DEF E, e, f, y, x, q
<1>13. ReadEntry(q, r) = [entries |-> Append(r.entries, e), at |-> Ends(m)[j]]
  <2>1. CASE j <= q
    <3>1. Len(r.entries) < q /\ x = f /\ Len(x) = 4 /\ y = <<>>
      BY <1>5, <1>6, <1>12, <2>1
    <3>2. SubSeq(data, c + 1, c + Len(x)) = x
      BY <1>4, StandsIs
    <3>3. SubSeq(data, c + 1, c + 4) = f /\ Ends(m)[j] = c + 4
      BY <1>4, <3>1, <3>2
    <3>4. ReadEntry(q, r) =
            [entries |-> Append(r.entries, [domain_name |-> nm,
                                            fixed |-> SubSeq(data, c + 1, c + 4),
                                            rdata |-> <<>>]),
             at      |-> c + 4]
      BY <1>9, <3>1, QuestionRead
    <3> QED BY <1>5, <3>1, <3>3, <3>4
  <2>2. CASE ~(j <= q)
    <3> DEFINE l == Len(y)
    <3>1. ~(Len(r.entries) < q) /\ RecordSuffix(x, f, y)
      BY <1>7, <1>12, <2>2
    <3>2. /\ SubSeq(data, c + 1, c + 8) = f
          /\ l = CombineBytes(data[c + 8 + 1], data[c + 8 + 2])
          /\ SubSeq(data, c + 8 + 3, c + 8 + 2 + l) = y
          /\ c + 8 + 2 + l = c + Len(x)
      BY <1>4, <3>1, RecordBytes
    <3> HIDE DEF l
    <3>4. ~(Len(r.entries) < q)
      BY <3>1
    <3>5. l = CombineBytes(data[c + 8 + 1], data[c + 8 + 2])
      BY <3>2
    <3>3. ReadEntry(q, r) =
            [entries |-> Append(r.entries,
                           [domain_name |-> nm,
                            fixed |-> SubSeq(data, c + 1, c + 8),
                            rdata |-> SubSeq(data, c + 8 + 3, c + 8 + 2 + l)]),
             at      |-> c + 8 + 2 + l]
      BY <1>9, <3>4, <3>5, RecordRead
    <3> QED BY <1>4, <1>5, <3>2, <3>3
  <2> QED BY <2>1, <2>2
<1>14. ReadEntry(q, r) = [entries |-> SubSeq(E, 1, j), at |-> Ends(m)[j]]
  BY <1>8, <1>11, <1>13
<1> QED BY <1>14 DEF HasEntries, E, q

(* The steps of the reader of a body                                       *)
NoEntry == [entries |-> <<>>, at |-> 0]

AreEntrySteps(g, q, k) ==
  g = [j \in 0 .. k |-> IF j = 0 THEN NoEntry ELSE ReadEntry(q, g[j - 1])]

LEMMA EntryStepsExist ==
  ASSUME NEW q, NEW k \in Nat
  PROVE  \E g : AreEntrySteps(g, q, k)
<1> DEFINE Upto(g, m) == g = [j \in 0 .. m |-> IF j = 0 THEN NoEntry
                                               ELSE ReadEntry(q, g[j - 1])]
           S == {m \in Nat : \E g : Upto(g, m)}
<1>1. 0 \in S
  <2>1. Upto([j \in 0 .. 0 |-> NoEntry], 0)
    OBVIOUS
  <2> QED BY <2>1
<1>2. ASSUME NEW m \in Nat, m \in S PROVE m + 1 \in S
  <2>1. PICK g : Upto(g, m)
    BY <1>2
  <2> DEFINE h == [j \in 0 .. m + 1 |-> IF j <= m THEN g[j] ELSE ReadEntry(q, g[m])]
  <2>2. ASSUME NEW j \in 0 .. m + 1
        PROVE  h[j] = IF j = 0 THEN NoEntry ELSE ReadEntry(q, h[j - 1])
    <3>1. CASE j = m + 1
      <4>1. j - 1 = m /\ m \in 0 .. m + 1 /\ ~(j <= m) /\ j # 0
        BY <3>1
      <4> QED BY <3>1, <4>1
    <3>2. CASE j \in 1 .. m
      <4>1. j \in 0 .. m /\ j - 1 \in 0 .. m + 1 /\ j - 1 <= m /\ j # 0 /\ j <= m
        BY <3>2
      <4>2. g[j] = ReadEntry(q, g[j - 1])
        BY <2>1, <4>1
      <4> QED BY <4>1, <4>2
    <3>3. CASE j = 0
      <4>1. j \in 0 .. m /\ j <= m
        BY <3>3
      <4> QED BY <2>1, <3>3, <4>1
    <3> QED BY <3>1, <3>2, <3>3
  <2>3. h = [j \in 0 .. m + 1 |-> h[j]]
    OBVIOUS
  <2> HIDE DEF h
  <2>4. Upto(h, m + 1)
    BY <2>2, <2>3
  <2> QED BY <2>4
<1>3. k \in S
  <2> HIDE DEF S
  <2> QED BY <1>1, <1>2, Induction
<1> QED BY <1>3 DEF AreEntrySteps

LEMMA EntryStepsAre ==
  ASSUME NEW q, NEW k \in Nat
  PROVE  /\ EntrySteps(q, k)[0] = NoEntry
         /\ \A j \in Nat : j < k =>
              EntrySteps(q, k)[j + 1] = ReadEntry(q, EntrySteps(q, k)[j])
<1> DEFINE f == EntrySteps(q, k)
<1>1. f = [j \in 0 .. k |-> IF j = 0 THEN NoEntry ELSE ReadEntry(q, f[j - 1])]
  <2>1. \E g : AreEntrySteps(g, q, k)
    BY EntryStepsExist
  <2>2. \E g : g = [j \in 0 .. k |-> IF j = 0 THEN NoEntry ELSE ReadEntry(q, g[j - 1])]
    BY <2>1 DEF AreEntrySteps
  <2> QED BY <2>2 DEF EntrySteps, NoEntry
<1> HIDE DEF f
<1>2. f[0] = NoEntry
  <2>1. 0 \in 0 .. k
    OBVIOUS
  <2> QED BY <1>1, <2>1
<1>3. ASSUME NEW j \in Nat, j < k PROVE f[j + 1] = ReadEntry(q, f[j])
  <2>1. j + 1 \in 0 .. k /\ j + 1 # 0 /\ (j + 1) - 1 = j
    BY <1>3
  <2> QED BY <1>1, <2>1
<1> QED BY <1>2, <1>3 DEF f

(* The reader of a body that spells the entries of m, all with plain       *)
(* names, has read them and nothing else.                                  *)
LEMMA EntriesAreRead ==
  ASSUME NEW m \in Messages, AllPlain(m), Body(data, m)
  PROVE  ReadEntries(Len(m.questions), Len(EntriesIn(m))) =
           [entries |-> EntriesIn(m), at |-> Len(data)]
<1> DEFINE E == EntriesIn(m)
           k == Len(E)
           q == Len(m.questions)
           f == EntrySteps(q, k)
           S == {j \in Nat : j <= k => HasEntries(m, j, f[j])}
<1>1. k \in Nat /\ Ends(m)[0] = 0 /\ E \in Seq(Questions \cup Records)
  BY EndsAre, EntriesAre DEF Sorted
<1>2. f[0] = NoEntry /\ \A j \in Nat : j < k => f[j + 1] = ReadEntry(q, f[j])
  BY <1>1, EntryStepsAre
<1>3. \A j \in 1 .. k : \A r : HasEntries(m, j - 1, r) => HasEntries(m, j, ReadEntry(q, r))
  BY EntryIsRead
<1> HIDE DEF E, k, q, f
<1>4. 0 \in S
  <2>1. SubSeq(E, 1, 0) = <<>>
    BY SubSeqEmpty
  <2> QED BY <1>1, <1>2, <2>1 DEF HasEntries, NoEntry, E
<1>5. ASSUME NEW j \in Nat, j \in S PROVE j + 1 \in S
  <2> SUFFICES ASSUME j + 1 <= k PROVE HasEntries(m, j + 1, f[j + 1])
    OBVIOUS
  <2>1. j < k /\ j <= k /\ j + 1 \in 1 .. k /\ (j + 1) - 1 = j
    BY <1>1
  <2>2. HasEntries(m, j, f[j]) /\ f[j + 1] = ReadEntry(q, f[j])
    BY <1>2, <1>5, <2>1
  <2> QED BY <1>3, <2>1, <2>2
<1>6. HasEntries(m, k, f[k])
  <2>1. \A j \in Nat : j \in S
    <3> HIDE DEF S
    <3> QED BY <1>4, <1>5, Induction
  <2> QED BY <1>1, <2>1
<1>7. Ends(m)[k] = Len(data)
  BY DEF Body, Spells, k, E
<1>8. SubSeq(E, 1, k) = E
  BY <1>1, SubSeqFull DEF k
<1>9. f[k] = [entries |-> E, at |-> Len(data)]
  BY <1>6, <1>7, <1>8 DEF HasEntries, E
<1> QED BY <1>9 DEF ReadEntries, E, k, q, f

-----------------------------------------------------------------------------
(* The writer.  Before entry k, the body d spells the entries before it.   *)
BodyInv(m, k, d) ==
  /\ m \in Messages /\ k \in 1 .. Len(EntriesIn(m)) + 1 /\ d \in Seq(Byte)
  /\ Spells(d, Ends(m), Pieces(m), k - 1)

LEMMA NothingIsSpelt ==
  ASSUME NEW m \in Messages
  PROVE  BodyInv(m, 1, <<>>)
<1>1. Len(EntriesIn(m)) \in Nat /\ Ends(m)[0] = 0
  BY EndsAre
<1>2. <<>> \in Seq(Byte) /\ Len(<<>>) = 0
  OBVIOUS
<1>3. Spells(<<>>, Ends(m), Pieces(m), 0)
  BY <1>1, <1>2 DEF Spells, Holds
<1>4. 1 \in 1 .. Len(EntriesIn(m)) + 1 /\ 1 - 1 = 0
  BY <1>1
<1> QED BY <1>2, <1>3, <1>4 DEF BodyInv

LEMMA PieceIsSpelt ==
  ASSUME NEW m, NEW k, NEW d, BodyInv(m, k, d), k <= Len(EntriesIn(m)),
         Piece(m, k) \in Seq(Byte)
  PROVE  BodyInv(m, k + 1, d \o Piece(m, k))
<1> DEFINE N == Len(EntriesIn(m))
           p == Piece(m, k)
           f == Ends(m)
           u == Pieces(m)
           i == k - 1
<1>1. /\ m \in Messages /\ k \in 1 .. N + 1 /\ d \in Seq(Byte)
      /\ Spells(d, f, u, i) /\ k <= N /\ p \in Seq(Byte)
  BY DEF BodyInv
<1>2. /\ N \in Nat /\ f \in [0 .. N -> Nat]
      /\ \A j \in 1 .. N : Len(Piece(m, j)) \in Nat /\ f[j] = f[j - 1] + Len(Piece(m, j))
  BY <1>1, EndsAre
<1>3. \A j \in 1 .. N : u[j] = Piece(m, j)
  BY DEF Pieces
<1> HIDE DEF N, f, u
<1>4. /\ k \in 1 .. N /\ i \in 0 .. N - 1 /\ i + 1 = k /\ k + 1 \in 1 .. N + 1
      /\ (k + 1) - 1 = k
  BY <1>1, <1>2
<1>5. \A j \in 1 .. i : j \in 1 .. N
  BY <1>2, <1>4
<1>6. f[k] = f[k - 1] + Len(p) /\ u[k] = p
  BY <1>2, <1>3, <1>4
<1> HIDE DEF p
<1>7. f[i + 1] = f[i] + Len(p) /\ u[i + 1] = p
  BY <1>4, <1>6
<1> HIDE DEF i
<1>8. Spells(d \o p, f, u, i + 1)
  <2>1. \A j \in 1 .. i : Len(u[j]) \in Nat
    BY <1>2, <1>3, <1>5
  <2> QED BY <1>1, <1>2, <1>4, <1>7, <2>1, SpellsNext
<1>9. d \o p \in Seq(Byte)
  BY <1>1, JoinedIsSeq
<1> QED BY <1>1, <1>4, <1>8, <1>9 DEF BodyInv, N, f, u, p

HeaderBytes ==
  [flags  |-> FlagBytes,
   counts |-> [s \in DOMAIN Sections |-> SplitBytes(Len(Sections[s]))]]

HeaderDone == HeaderFits /\ header = HeaderBytes

LEMMA HeaderStays ==
  HeaderDone /\ UNCHANGED <<msg, header>> => HeaderDone'
BY DEF HeaderDone, HeaderFits, HeaderBytes, FlagBytes, Sections

(* The name that is being formatted is that of the entry build has reached.*)
ControlInv ==
  /\ building \in {"header", "body"} \cup Outcomes
  /\ header = NoHeader \/ HeaderDone
  /\ building \in {"body", "built"} => HeaderDone
  /\ naming # "idle" =>
       /\ building \in {"body", "runtime_error"}
       /\ n <= Len(Entries)
       /\ domain_name = entry.domain_name
  /\ building = "built" => n = Len(Entries) + 1

MessageInv == NameInv /\ BodyInv(msg, n, data) /\ ControlInv

LEMMA EntryOfMessage ==
  ASSUME MessageInv, n <= Len(Entries)
  PROVE  /\ msg \in Messages /\ n \in 1 .. Len(EntriesIn(msg))
         /\ entry = EntriesIn(msg)[n]
         /\ entry.domain_name \in Seq(Byte)
         /\ entry.fixed \in Seq(Byte) /\ entry.rdata \in Seq(Byte)
         /\ Entries = EntriesIn(msg)
<1>1. Entries = EntriesIn(msg)
  BY DEF Entries, EntriesIn
<1>2. msg \in Messages /\ n \in 1 .. Len(EntriesIn(msg)) + 1
  BY DEF MessageInv, BodyInv
<1>3. n \in 1 .. Len(EntriesIn(msg))
  <2> DEFINE N == Len(EntriesIn(msg))
  <2>1. N \in Nat /\ n \in 1 .. N + 1 /\ n <= N
    BY <1>1, <1>2, EndsAre
  <2> HIDE DEF N
  <2>2. n \in 1 .. N
    BY <2>1
  <2> QED BY <2>2 DEF N
<1>4. entry = EntriesIn(msg)[n]
  BY <1>1 DEF entry
<1> QED BY <1>1, <1>2, <1>3, <1>4, EntryIs

(* An entry is added, with its name and what follows it.                   *)
LEMMA EntryIsWritten ==
  ASSUME MessageInv, building = "body", naming = "named",
         Suffix(msg, n) \in Seq(Byte), WriteEntry(Suffix(msg, n))
  PROVE  MessageInv'
<1> DEFINE x == Suffix(msg, n)
           p == Piece(msg, n)
<1>1. /\ data' = data \o bytes \o x /\ n' = n + 1 /\ Release
      /\ UNCHANGED <<msg, building, header>>
  BY DEF WriteEntry
<1>2. /\ n <= Len(Entries) /\ domain_name = entry.domain_name
      /\ bytes = NameBytes(domain_name) /\ bytes \in Seq(Byte)
      /\ data \in Seq(Byte) /\ BodyInv(msg, n, data)
  BY DEF MessageInv, ControlInv, NameInv, NameTypeOK, BodyInv
<1>3. entry = EntriesIn(msg)[n] /\ Entries = EntriesIn(msg)
  BY <1>2, EntryOfMessage
<1>4. p = bytes \o x
  BY <1>2, <1>3 DEF Piece
<1>5. p \in Seq(Byte)
  BY <1>2, <1>4, JoinedIsSeq
<1>6. data' = data \o p
  <2>1. (data \o bytes) \o x = data \o (bytes \o x)
    BY <1>2, ConcatAssociative
  <2> QED BY <1>1, <1>4, <2>1
<1>7. BodyInv(msg', n', data')
  <2>1. BodyInv(msg, n + 1, data \o p)
    BY <1>2, <1>3, <1>5, PieceIsSpelt
  <2> QED BY <1>1, <1>6, <2>1
<1>8. NameInv'
  <2>1. <<>> \in Seq(Byte)
    OBVIOUS
  <2> QED BY <1>1, <2>1, EnterName DEF Release
<1>9. ControlInv'
  <2>1. naming' = "idle"
    BY <1>1 DEF Release, Enter
  <2>2. HeaderDone'
    <3>1. HeaderDone
      BY DEF MessageInv, ControlInv
    <3> QED BY <1>1, <3>1, HeaderStays
  <2>3. building' = "body"
    BY <1>1
  <2> QED BY <2>1, <2>2, <2>3 DEF ControlInv
<1> QED BY <1>7, <1>8, <1>9 DEF MessageInv

LEMMA QuestionSuffix ==
  ASSUME MessageInv, n <= Len(Entries), IsQuestion
  PROVE  Suffix(msg, n) = entry.fixed /\ Suffix(msg, n) \in Seq(Byte)
<1>1. entry = EntriesIn(msg)[n] /\ entry.fixed \in Seq(Byte)
  BY EntryOfMessage
<1> QED BY <1>1 DEF Suffix, IsQuestion

(* A number that fits in a word is two bytes.                              *)
LEMMA SplitIs ==
  ASSUME NEW l \in Nat, l < WordSize
  PROVE  /\ l \div Radix \in Byte /\ l % Radix \in Byte
         /\ SplitBytes(l) \in Seq(Byte) /\ SplitBytes(l) \in Byte \X Byte
<1>1. Radix \in Nat /\ Radix > 0 /\ l \in 0 .. Radix * Radix - 1
  BY ByteIs DEF WordSize
<1>2. l \div Radix \in Byte /\ l % Radix \in Byte
  BY <1>1, HalfIsBelow DEF Byte
<1> DEFINE a == l \div Radix
           b == l % Radix
<1> HIDE DEF a, b
<1>3. a \in Byte /\ b \in Byte
  BY <1>2 DEF a, b
<1>4. <<a, b>> \in Seq(Byte) /\ <<a, b>> \in Byte \X Byte
  BY <1>3
<1> QED BY <1>2, <1>4 DEF SplitBytes, a, b

LEMMA RecordSuffixIs ==
  ASSUME MessageInv, n <= Len(Entries), ~IsQuestion, RDataFits(entry)
  PROVE  /\ Suffix(msg, n) = entry.fixed \o SplitBytes(Len(entry.rdata) % WordSize)
                               \o entry.rdata
         /\ Suffix(msg, n) \in Seq(Byte)
<1> DEFINE f == entry.fixed
           y == entry.rdata
           l == Len(y)
           t == SplitBytes(l)
<1>1. entry = EntriesIn(msg)[n] /\ f \in Seq(Byte) /\ y \in Seq(Byte)
  BY EntryOfMessage
<1>2. Suffix(msg, n) = f \o t \o y
  BY <1>1 DEF Suffix, IsQuestion
<1>3. l \in Nat /\ l < WordSize
  BY <1>1, LenProperties DEF RDataFits
<1> HIDE DEF f, y, l, t
<1>4. l % WordSize = l
  <2>1. WordSize \in Nat
    BY ByteIs DEF WordSize
  <2>2. 0 \in Nat /\ 0 * WordSize + l = l
    BY <1>3, <2>1
  <2>3. (0 * WordSize + l) % WordSize = l
    BY <1>3, <2>1, <2>2, DivUnique
  <2> QED BY <2>2, <2>3
<1>5. t \in Seq(Byte)
  BY <1>3, SplitIs DEF t
<1>6. (f \o t) \o y \in Seq(Byte)
  <2>1. f \o t \in Seq(Byte)
    BY <1>1, <1>5, JoinedIsSeq
  <2> QED BY <1>1, <2>1, JoinedIsSeq
<1> QED BY <1>2, <1>4, <1>6 DEF f, y, l, t

LEMMA MessageInvInit == Init => MessageInv
<1> SUFFICES ASSUME Init PROVE MessageInv
  OBVIOUS
<1>1. NameInv
  BY IdleName DEF Init
<1>2. BodyInv(msg, n, data)
  BY NothingIsSpelt DEF Init
<1>3. ControlInv
  BY DEF Init, Idle, ControlInv
<1> QED BY <1>1, <1>2, <1>3 DEF MessageInv

LEMMA FitsStays ==
  HeaderFits /\ UNCHANGED msg => HeaderFits' /\ HeaderBytes' = HeaderBytes
BY DEF HeaderFits, HeaderBytes, FlagBytes, Sections

LEMMA EntriesStay ==
  UNCHANGED <<msg, n>> => Entries' = Entries /\ entry' = entry
BY DEF Entries, entry

(* A step that leaves the name, the object and the body alone              *)
LEMMA OutcomeInv ==
  MessageInv /\ UNCHANGED <<msg, header, n, data, nameVars>>
    /\ (\/ building' = "runtime_error"
        \/ /\ building = "body" /\ building' = "built"
           /\ naming = "idle" /\ n > Len(Entries))
    => MessageInv'
<1> SUFFICES ASSUME MessageInv, UNCHANGED <<msg, header, n, data, nameVars>>,
                    \/ building' = "runtime_error"
                    \/ /\ building = "body" /\ building' = "built"
                       /\ naming = "idle" /\ n > Len(Entries)
             PROVE  MessageInv'
  OBVIOUS
<1>1. NameInv'
  BY NameStays DEF MessageInv
<1>2. BodyInv(msg', n', data')
  BY DEF MessageInv
<1>3. Entries' = Entries /\ entry' = entry
  BY EntriesStay
<1>4. ControlInv'
  <2>1. (header = NoHeader \/ HeaderDone)'
    BY HeaderStays DEF MessageInv, ControlInv, NoHeader
  <2>2. (naming # "idle")' => /\ n' <= Len(Entries')
                              /\ domain_name' = entry'.domain_name
                              /\ building' = "runtime_error"
    BY <1>3 DEF MessageInv, ControlInv, nameVars
  <2>3. CASE building' = "runtime_error"
    BY <2>1, <2>2, <2>3 DEF ControlInv, Outcomes
  <2>4. CASE building' # "runtime_error"
    <3>1. /\ building = "body" /\ building' = "built" /\ naming' = "idle"
          /\ n > Len(Entries)
      BY <2>4 DEF nameVars
    <3>2. HeaderDone'
      BY <3>1, HeaderStays DEF MessageInv, ControlInv
    <3>3. n = Len(Entries) + 1
      <4> DEFINE N == Len(EntriesIn(msg))
      <4>1. N \in Nat /\ n \in 1 .. N + 1 /\ Entries = EntriesIn(msg)
        BY EndsAre DEF MessageInv, BodyInv, Entries, EntriesIn
      <4>2. n > N
        BY <3>1, <4>1
      <4> HIDE DEF N
      <4>3. n = N + 1
        BY <4>1, <4>2
      <4> QED BY <4>1, <4>3 DEF N
    <3>4. n' = Len(Entries') + 1
      BY <1>3, <3>3
    <3> QED BY <2>1, <3>1, <3>2, <3>4 DEF ControlInv, Outcomes
  <2> QED BY <2>3, <2>4
<1> QED BY <1>1, <1>2, <1>4 DEF MessageInv

LEMMA MessageInvNext == MessageInv /\ [Next]_dnsVars => MessageInv'
<1> SUFFICES ASSUME MessageInv, [Next]_dnsVars PROVE MessageInv'
  OBVIOUS
<1> DEFINE Quiet == BodyInv(msg', n', data') /\ Entries' = Entries /\ entry' = entry
<1>1. UNCHANGED <<msg, n, data>> => Quiet
  <2>1. UNCHANGED <<msg, n, data>> => BodyInv(msg', n', data')
    BY DEF MessageInv
  <2> QED BY <2>1, EntriesStay
<1> HIDE DEF Quiet
<1>2. CASE RejectHeader
  BY <1>2, OutcomeInv DEF RejectHeader
<1>3. CASE WriteHeader
  <2>1. /\ building = "header" /\ HeaderFits /\ header' = HeaderBytes
        /\ building' = "body" /\ UNCHANGED <<msg, n, data, nameVars>>
    BY <1>3 DEF WriteHeader, HeaderBytes
  <2>2. HeaderDone'
    BY <2>1, FitsStays DEF HeaderDone
  <2>3. naming' = "idle"
    BY <2>1 DEF MessageInv, ControlInv, nameVars
  <2>4. ControlInv'
    BY <2>1, <2>2, <2>3 DEF ControlInv
  <2>5. NameInv'
    BY <2>1, NameStays DEF MessageInv
  <2> QED BY <1>1, <2>1, <2>4, <2>5 DEF MessageInv, Quiet
<1>4. CASE CallName
  <2>1. /\ building = "body" /\ n <= Len(Entries) /\ Call(entry.domain_name)
        /\ UNCHANGED <<msg, building, header, n, data>>
    BY <1>4 DEF CallName, messageVars
  <2>2. entry.domain_name \in Seq(Byte)
    BY <2>1, EntryOfMessage
  <2>3. NameInv'
    BY <2>1, <2>2, EnterName DEF Call
  <2>4. Quiet
    BY <1>1, <2>1
  <2>5. HeaderDone'
    BY <2>1, HeaderStays DEF MessageInv, ControlInv
  <2>6. domain_name' = entry'.domain_name /\ n' <= Len(Entries')
    BY <2>1, <2>4 DEF Call, Enter, Quiet
  <2>7. ControlInv'
    BY <2>1, <2>5, <2>6 DEF ControlInv
  <2> QED BY <2>3, <2>4, <2>7 DEF MessageInv, Quiet
<1>5. CASE NameStep
  <2>1. NameNext /\ UNCHANGED <<msg, building, header, n, data>>
    BY <1>5 DEF NameStep, messageVars
  <2>2. NameInv'
    BY <2>1, NameStepInv DEF MessageInv
  <2>3. Quiet
    BY <1>1, <2>1
  <2>4. naming # "idle" /\ domain_name' = domain_name
    BY <2>1 DEF NameNext, WriteSection, SectionTooLong, Terminate
  <2>5. HeaderDone => HeaderDone'
    BY <2>1, HeaderStays
  <2>6. ControlInv'
    <3>1. /\ building' \in {"body", "runtime_error"} /\ n' <= Len(Entries')
          /\ domain_name' = entry'.domain_name
      BY <2>1, <2>3, <2>4 DEF MessageInv, ControlInv, Quiet
    <3>2. /\ (header = NoHeader)' \/ HeaderDone'
          /\ building' = "body" => HeaderDone'
      BY <2>1, <2>5 DEF MessageInv, ControlInv, NoHeader
    <3> QED BY <3>1, <3>2 DEF ControlInv, Outcomes
  <2> QED BY <2>2, <2>3, <2>6 DEF MessageInv, Quiet
<1>6. CASE NameThrows
  BY <1>6, OutcomeInv DEF NameThrows
<1>7. CASE WriteQuestion
  <2>1. building = "body" /\ naming = "named" /\ IsQuestion /\ WriteEntry(entry.fixed)
    BY <1>7 DEF WriteQuestion
  <2>2. n <= Len(Entries)
    BY <2>1 DEF MessageInv, ControlInv
  <2> QED BY <2>1, <2>2, QuestionSuffix, EntryIsWritten
<1>8. CASE RDataTooLong
  BY <1>8, OutcomeInv DEF RDataTooLong
<1>9. CASE WriteRecord
  <2>1. /\ building = "body" /\ naming = "named" /\ ~IsQuestion /\ RDataFits(entry)
        /\ WriteEntry(entry.fixed \o SplitBytes(Len(entry.rdata) % WordSize)
                        \o entry.rdata)
    BY <1>9 DEF WriteRecord
  <2>2. n <= Len(Entries)
    BY <2>1 DEF MessageInv, ControlInv
  <2> QED BY <2>1, <2>2, RecordSuffixIs, EntryIsWritten
<1>10. CASE Return
  BY <1>10, OutcomeInv DEF Return
<1>11. CASE UNCHANGED dnsVars
  <2>1. UNCHANGED <<msg, building, header, n, data, nameVars>>
    BY <1>11 DEF dnsVars, messageVars
  <2>2. Quiet /\ NameInv'
    BY <1>1, <2>1, NameStays DEF MessageInv
  <2>3. HeaderDone => HeaderDone'
    BY <2>1, HeaderStays
  <2>4. ControlInv'
    BY <2>1, <2>2, <2>3 DEF MessageInv, ControlInv, Quiet, nameVars, NoHeader
  <2> QED BY <2>2, <2>4 DEF MessageInv, Quiet
<1> QED BY <1>2, <1>3, <1>4, <1>5, <1>6, <1>7, <1>8, <1>9, <1>10, <1>11 DEF Next

-----------------------------------------------------------------------------
(* What the invariant implies                                              *)
LEMMA SectionsAre ==
  ASSUME msg \in Messages
  PROVE  /\ DOMAIN Sections = 1 .. 4
         /\ Sections[1] = msg.questions /\ Sections[2] = msg.answers
         /\ Sections[3] = msg.authorities /\ Sections[4] = msg.additional
         /\ \A s \in DOMAIN Sections : Len(Sections[s]) \in Nat
<1>1. /\ Len(msg.questions) \in Nat /\ Len(msg.answers) \in Nat
      /\ Len(msg.authorities) \in Nat /\ Len(msg.additional) \in Nat
  BY MessageIs, LenProperties
<1> DEFINE a == msg.questions  b == msg.answers  c == msg.authorities
           d == msg.additional
<1>2. Sections = <<a, b, c, d>>
  BY DEF Sections
<1>3. Len(a) \in Nat /\ Len(b) \in Nat /\ Len(c) \in Nat /\ Len(d) \in Nat
  BY <1>1
<1> HIDE DEF a, b, c, d
<1>4. /\ DOMAIN Sections = 1 .. 4
      /\ Sections[1] = a /\ Sections[2] = b /\ Sections[3] = c /\ Sections[4] = d
  BY <1>2
<1>5. \A s \in 1 .. 4 : s = 1 \/ s = 2 \/ s = 3 \/ s = 4
  OBVIOUS
<1>6. \A s \in 1 .. 4 : Len(Sections[s]) \in Nat
  BY <1>3, <1>4, <1>5
<1> QED BY <1>4, <1>6 DEF a, b, c, d

(* The fields that share the two bytes of flags                            *)
LEMMA FlagsAre ==
  ASSUME NEW qr \in {0, 1}, NEW op \in Nat, op <= 15, NEW fl \in Nat, fl <= 15,
         NEW rc \in Nat, rc <= 15
  PROVE  LET one == (qr * 128 + op * 8 + fl \div 2) % 256
             two == (fl % 2) * 128 + rc
         IN  /\ one \in Nat /\ one < 256 /\ two \in Nat /\ two < 256
             /\ one \div 128 = qr /\ (one \div 8) % 16 = op
             /\ (one % 8) * 2 + two \div 128 = fl /\ two % 128 = rc
<1> DEFINE h == fl \div 2
           b == fl % 2
           one == (qr * 128 + op * 8 + h) % 256
           two == b * 128 + rc
<1>1. h \in Nat /\ b \in Nat /\ b < 2 /\ fl = h * 2 + b /\ h < 8
  <2>1. 2 \in Nat /\ 2 > 0
    OBVIOUS
  <2>2. h \in Nat /\ b \in Nat /\ b < 2 /\ fl = h * 2 + b
    BY <2>1, DivMod
  <2> HIDE DEF h, b
  <2> QED BY <2>2
<1> HIDE DEF h, b
<1>2. qr \in Nat /\ qr <= 1
  OBVIOUS
<1>3. one = qr * 128 + op * 8 + h
  BY <1>1, <1>2
<1>4. one \in Nat /\ one < 256 /\ two \in Nat /\ two < 256
  BY <1>1, <1>2, <1>3
<1> HIDE DEF one
<1>5. one \div 128 = qr
  BY <1>1, <1>2, <1>3
<1>6. (one \div 8) % 16 = op
  <2>1. one \div 8 = qr * 16 + op
    BY <1>1, <1>2, <1>3
  <2> QED BY <1>2, <2>1
<1>7. one % 8 = h
  BY <1>1, <1>2, <1>3
<1>8. two \div 128 = b /\ two % 128 = rc
  BY <1>1
<1>9. (one % 8) * 2 + two \div 128 = fl
  BY <1>1, <1>7, <1>8
<1> QED BY <1>4, <1>5, <1>6, <1>8, <1>9 DEF one, h, b

LEMMA FlagBytesAre ==
  ASSUME msg \in Messages, HeaderFits
  PROVE  /\ FlagBytes[1] \in Nat /\ FlagBytes[1] < 256
         /\ FlagBytes[2] \in Nat /\ FlagBytes[2] < 256
         /\ FlagBytes[1] \div 128 = msg.qr /\ (FlagBytes[1] \div 8) % 16 = msg.opcode
         /\ (FlagBytes[1] % 8) * 2 + FlagBytes[2] \div 128 = msg.flags
         /\ FlagBytes[2] % 128 = msg.rcode
         /\ FlagBytes = <<FlagBytes[1], FlagBytes[2]>>
<1>1. /\ msg.qr \in {0, 1}
      /\ msg.opcode \in Nat /\ msg.opcode <= 15
      /\ msg.flags \in Nat /\ msg.flags <= 15
      /\ msg.rcode \in Nat /\ msg.rcode <= 15
  <2>1. \A x \in 0 .. 255 : x \in Nat
    OBVIOUS
  <2>2. /\ msg.qr \in {0, 1}
        /\ msg.opcode \in 0 .. 255 /\ msg.flags \in 0 .. 255 /\ msg.rcode \in 0 .. 255
    BY MessageIs
  <2>3. msg.opcode <= 15 /\ msg.flags <= 15 /\ msg.rcode <= 15
    BY DEF HeaderFits
  <2> QED BY <2>1, <2>2, <2>3
<1> DEFINE qr == msg.qr  op == msg.opcode  fl == msg.flags  rc == msg.rcode
           one == (qr * 128 + op * 8 + fl \div 2) % 256
           two == (fl % 2) * 128 + rc
<1>2. /\ one \in Nat /\ one < 256 /\ two \in Nat /\ two < 256
      /\ one \div 128 = qr /\ (one \div 8) % 16 = op
      /\ (one % 8) * 2 + two \div 128 = fl /\ two % 128 = rc
  <2>1. qr \in {0, 1} /\ op \in Nat /\ fl \in Nat /\ rc \in Nat
    BY <1>1
  <2>2. op <= 15 /\ fl <= 15 /\ rc <= 15
    BY <1>1
  <2> HIDE DEF qr, op, fl, rc
  <2> QED BY <2>1, <2>2, FlagsAre
<1>3. FlagBytes = <<one, two>>
  BY DEF FlagBytes
<1> HIDE DEF one, two
<1>4. FlagBytes[1] = one /\ FlagBytes[2] = two
  BY <1>3
<1> QED BY <1>2, <1>3, <1>4

LEMMA CountsAre ==
  ASSUME msg \in Messages, HeaderDone
  PROVE  \A s \in DOMAIN Sections : Count(s) = Len(Sections[s])
<1> TAKE s \in DOMAIN Sections
<1> DEFINE l == Len(Sections[s])
<1>1. l \in Nat
  BY SectionsAre
<1>2. header.counts[s] = SplitBytes(l)
  BY DEF HeaderDone, HeaderBytes
<1> HIDE DEF l
<1>3. SplitBytes(l)[1] = l \div Radix /\ SplitBytes(l)[2] = l % Radix
  BY DEF SplitBytes
<1>4. CombineBytes(l \div Radix, l % Radix) = l
  BY <1>1, LengthIs
<1>5. Count(s) = l
  BY <1>2, <1>3, <1>4 DEF Count
<1> QED BY <1>5 DEF l

LEMMA HeaderTypes ==
  ASSUME msg \in Messages, HeaderDone
  PROVE  /\ header.flags \in (0 .. 255) \X (0 .. 255)
         /\ header.counts \in [1 .. 4 -> Byte \X Byte]
<1>1. HeaderFits /\ header.flags = FlagBytes
      /\ header.counts = [s \in DOMAIN Sections |-> SplitBytes(Len(Sections[s]))]
  BY DEF HeaderDone, HeaderBytes
<1>2. header.flags \in (0 .. 255) \X (0 .. 255)
  <2> DEFINE a == FlagBytes[1]
             b == FlagBytes[2]
  <2>1. a \in Nat /\ a < 256 /\ b \in Nat /\ b < 256 /\ FlagBytes = <<a, b>>
    BY <1>1, FlagBytesAre
  <2> HIDE DEF a, b
  <2>2. a \in 0 .. 255 /\ b \in 0 .. 255
    BY <2>1
  <2> QED BY <1>1, <2>1, <2>2
<1>3. ASSUME NEW s \in 1 .. 4 PROVE header.counts[s] \in Byte \X Byte
  <2> DEFINE l == Len(Sections[s])
  <2>1. s \in DOMAIN Sections
    BY SectionsAre
  <2>2. l \in Nat /\ l < WordSize /\ header.counts[s] = SplitBytes(l)
    BY <1>1, <2>1, SectionsAre DEF HeaderFits
  <2> HIDE DEF l
  <2> QED BY <2>2, SplitIs
<1>4. header.counts = [s \in 1 .. 4 |-> header.counts[s]]
  BY <1>1, SectionsAre
<1> QED BY <1>2, <1>3, <1>4

LEMMA InvImpliesTypes == MessageInv => TypeOK
<1> SUFFICES ASSUME MessageInv PROVE TypeOK
  OBVIOUS
<1>1. NameTypeOK /\ building \in {"header", "body"} \cup Outcomes
  BY DEF MessageInv, NameInv, ControlInv
<1>2. n \in 1 .. Len(Entries) + 1 /\ data \in Seq(Byte) /\ msg \in Messages
  BY DEF MessageInv, BodyInv, Entries, EntriesIn
<1>3. header # NoHeader => HeaderDone
  BY DEF MessageInv, ControlInv
<1> QED BY <1>1, <1>2, <1>3, HeaderTypes DEF TypeOK

(* The receiver, of what build has returned                                *)
LEMMA InvImpliesReads == MessageInv => MessageReadsBack
<1> SUFFICES ASSUME MessageInv, building = "built"
             PROVE  EntriesReadBack /\ FieldsReadBack
  BY DEF MessageReadsBack
<1> DEFINE E == EntriesIn(msg)
           N == Len(E)
<1>1. Entries = E
  BY DEF Entries, EntriesIn
<1>2. msg \in Messages /\ data \in Seq(Byte) /\ n = N + 1 /\ HeaderDone /\ HeaderFits
  BY <1>1 DEF MessageInv, BodyInv, ControlInv, HeaderDone
<1>3. \A s \in DOMAIN Sections : Count(s) = Len(Sections[s])
  BY <1>2, CountsAre
<1>4. EntriesReadBack
  <2> SUFFICES ASSUME \A j \in DOMAIN Entries : Plain(Entries[j].domain_name)
               PROVE  ReadEntries(Count(1), Count(1) + Count(2) + Count(3) + Count(4)) =
                        [entries |-> Entries, at |-> Len(data)]
    BY DEF EntriesReadBack
  <2>1. Count(1) = Len(msg.questions) /\ Count(1) + Count(2) + Count(3) + Count(4) = N
    <3>1. 1 \in 1 .. 4 /\ 2 \in 1 .. 4 /\ 3 \in 1 .. 4 /\ 4 \in 1 .. 4
      OBVIOUS
    <3>2. /\ Count(1) = Len(msg.questions) /\ Count(2) = Len(msg.answers)
          /\ Count(3) = Len(msg.authorities) /\ Count(4) = Len(msg.additional)
      BY <1>2, <1>3, <3>1, SectionsAre
    <3> QED BY <1>2, <3>2, EntriesAre
  <2>2. AllPlain(msg)
    <3>1. E \in Seq(Questions \cup Records)
      BY <1>2, EntriesAre DEF Sorted
    <3>2. DOMAIN E = 1 .. N
      <4> HIDE DEF E
      <4> QED BY <3>1, LenProperties
    <3> QED BY <1>1, <3>2 DEF AllPlain
  <2>3. Body(data, msg)
    <3>1. N \in Nat /\ n - 1 = N
      <4>1. N \in Nat
        BY <1>2, EndsAre
      <4> HIDE DEF N
      <4> QED BY <1>2, <4>1
    <3>2. Spells(data, Ends(msg), Pieces(msg), N)
      BY <3>1 DEF MessageInv, BodyInv
    <3> QED BY <1>2, <3>2, LenProperties DEF Body
  <2> QED BY <1>1, <1>2, <2>1, <2>2, <2>3, EntriesAreRead
<1>5. FieldsReadBack
  <2>1. header.flags = FlagBytes
    BY <1>2 DEF HeaderDone, HeaderBytes
  <2> DEFINE first == FlagBytes[1]
             second == FlagBytes[2]
  <2>2. /\ first \div 128 = msg.qr /\ (first \div 8) % 16 = msg.opcode
        /\ (first % 8) * 2 + second \div 128 = msg.flags /\ second % 128 = msg.rcode
    BY <1>2, FlagBytesAre
  <2> HIDE DEF first, second
  <2>3. <<first \div 128, (first \div 8) % 16>> = <<msg.qr, msg.opcode>>
    BY <2>2
  <2>4. header.flags[1] = first /\ header.flags[2] = second
    BY <2>1 DEF first, second
  <2> QED BY <1>3, <2>2, <2>3, <2>4 DEF FieldsReadBack
<1> QED BY <1>4, <1>5

(* A reader never goes past the end of a name.                             *)
LEMMA InvImpliesNames == MessageInv => ReaderStaysInName
<1> SUFFICES ASSUME NameInv, naming = "named"
             PROVE  LET r == ReadName(bytes, 0)
                    IN  r.whole /\ r.name = SubSeq(domain_name, 1, Len(r.name))
  BY DEF MessageInv, ReaderStaysInName
<1> DEFINE nm == domain_name
           r == ReadName(bytes, 0)
<1>1. nm \in Seq(Byte) /\ bytes = NameBytes(nm)
  BY DEF NameInv, NameTypeOK
<1>2. Lays(bytes, 0, nm)
  <2>1. Len(nm) \in Nat /\ Len(bytes) = Len(nm) + 2
    BY <1>1, NameBytesAre, LenProperties
  <2>2. \A p \in 1 .. Len(nm) + 2 : 0 + p = p
    BY <2>1
  <2>3. 0 + Len(nm) + 2 <= Len(bytes) /\ Len(bytes) \in Nat
    BY <2>1
  <2> QED BY <1>1, <2>2, <2>3 DEF Lays
<1>3. HasStopped(0, nm, r)
  BY <1>1, <1>2, NameIsRead
<1> HIDE DEF r, nm
<1>4. PICK e \in Nat : e <= Len(nm) /\ r.name = SubSeq(nm, 1, e) /\ r.whole = TRUE
  BY <1>3 DEF HasStopped
<1>5. Len(nm) \in Nat
  BY <1>1, LenProperties
<1>6. e \in 0 .. Len(nm)
  BY <1>4, <1>5
<1>7. Len(SubSeq(nm, 1, e)) = e
  BY <1>1, <1>6, PrefixIs
<1> QED BY <1>4, <1>7 DEF r, nm

LEMMA InvHolds == Spec => []MessageInv
<1> QED BY MessageInvInit, MessageInvNext, PTL DEF Spec

-----------------------------------------------------------------------------
(* Names are bytes, the loops of build stay within the entries, and the    *)
(* header holds eight-bit bytes and counts of two bytes each               *)
(* (src/DNS.cpp:45-139).                                                   *)
THEOREM DNSTypeCorrect == Spec => []TypeOK
BY InvHolds, InvImpliesTypes, PTL

(* Whatever the name, a reader of what formatDomainName returned stays in  *)
(* it: it comes to a length of 0 within the bytes, with a beginning of the *)
(* name (src/DNS.cpp:116-139).                                             *)
THEOREM NamesAreRead == Spec => []ReaderStaysInName
BY InvHolds, InvImpliesNames, PTL

(* What Message::build returned is read back, entry by entry and field by  *)
(* field, when the names have no empty section (src/DNS.cpp:45-114).       *)
THEOREM MessagesComeBack == Spec => []MessageReadsBack
BY InvHolds, InvImpliesReads, PTL
=============================================================================
