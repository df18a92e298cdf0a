----------------------------- MODULE StackProofs -----------------------------
(***************************************************************************)
(* Proofs about Stack.tla, for any number of layers in any order, any      *)
(* contents and any size of words: the layers are a channel, up to         *)
(* liveness, no decoder makes up bytes, and the fields of ARP packets and  *)
(* timestamps that arrive are those that were sent.                        *)
(*                                                                         *)
(* The invariant names the size f[k] that the contents have with k headers *)
(* around them.  While they are decoded, the bytes in hand may be more or  *)
(* fewer (by less than a word: see Cuts) than that, as long as a length is *)
(* still to come, in a header or in the contents; once one has been passed *)
(* they are as many.                                                       *)
(***************************************************************************)
EXTENDS Stack, Lemmas

Framing == {"UDP", "IPv4"}

Headers == [kind : {"UDP", "TCP", "ICMP", "IPv4", "Ethernet", "Data"},
            header : Nat, length : Nat]

HeaderFits(h, before, after) ==
  /\ after = before + h.header
  /\ h.kind = "UDP" => h.length = after
  /\ h.kind = "IPv4" => h.length = after % WordSize

Sizes(hs, n, f) ==
  /\ f \in [0 .. Len(hs) -> Nat]
  /\ f[0] = n
  /\ \A k \in 1 .. Len(hs) : HeaderFits(hs[k], f[k - 1], f[k])

Marked(bytes, hs) ==
  bytes # <<>> \/ \E k \in 1 .. Len(hs) : hs[k].kind \in Framing

ContentsOK ==
  \/ given.by = "data" /\ message = <<>>
  \/ given.by = "clock" /\ Len(message) = TimestampLength /\ data = TimestampLength
  \/ /\ given.by = "ARP"
     /\ Len(message) = data /\ data >= 8
     /\ data = ARPLength(message)

Inv ==
  /\ phase \in {"contents", "clock", "building", "decoding"} \cup Outcomes
  /\ headers \in Seq(Headers) /\ message \in Seq(Byte)
  /\ data \in Nat /\ size \in Nat
  /\ framed \in BOOLEAN
  /\ phase \in {"contents", "clock"} =>
       headers = <<>> /\ message = <<>> /\ data = 0 /\ framed = FALSE
  /\ phase = "clock" => given.day \in Int
  /\ phase \notin {"contents", "clock"} => ContentsOK
  /\ phase = "building" =>
       /\ \E f : Sizes(headers, data, f) /\ f[Len(headers)] = size
       /\ framed => Marked(message, headers)
  /\ phase = "decoding" =>
       \E f : /\ Sizes(headers, data, f)
              /\ f[Len(headers)] < size + WordSize
              /\ framed => Marked(message, headers) \/ f[Len(headers)] = size

-----------------------------------------------------------------------------
(* The words that bytes make                                               *)
LEMMA WordSizes ==
  /\ Radix \in Nat /\ Radix >= 2
  /\ WordSize \in Nat /\ WordSize >= 2 * Radix
<1>1. Radix \in Nat /\ Radix >= 2
  BY RadixAssumption
<1>2. 2 * Radix <= Radix * Radix /\ Radix * Radix \in Nat
  BY <1>1, ProductMonotone
<1> QED BY <1>1, <1>2 DEF WordSize

(* splitBytesBigEndian gives two bytes.                                    *)
LEMMA SplitIsBytes ==
  ASSUME NEW w \in Word
  PROVE  SplitBytes(w) \in Seq(Byte) /\ Len(SplitBytes(w)) = 2
<1>1. w \div Radix \in Byte /\ w % Radix \in Byte
  BY WordSizes, HalfIsBelow DEF Word, WordSize, Byte
<1> QED BY <1>1 DEF SplitBytes

(* What the messages are made of                                           *)
LEMMA SmallWords == 5 \in Word /\ 0 \in Byte /\ WordSize > 16 /\ WordSize \in Nat
<1>1. Radix \in Nat /\ Radix >= 2 /\ WordSize \in Nat /\ 8 * Radix < WordSize
  BY WordSizes, StackAssumption DEF IPv4Type, Word
<1> QED BY <1>1 DEF Word, Byte

LEMMA ZerosAreBytes ==
  ASSUME NEW n \in Nat
  PROVE  Zeros(n) \in Seq(Byte) /\ Len(Zeros(n)) = n
BY SmallWords DEF Zeros

(* An ARP packet has the fields it was given, whichever class makes it.    *)
LEMMA ConstructedIsGiven ==
  ASSUME NEW a \in ARPs
  PROVE  Constructed(a) = a.given
<1> DEFINE g == a.given
<1>1. /\ a.class \in {"Packet", "Ethernet", "IPv4", "IPv4Ethernet"}
      /\ a.blank \in BOOLEAN /\ g \in ARPFields
      /\ Len(g.tha) = Len(g.sha) /\ Len(g.tpa) = Len(g.spa)
      /\ a.class \in {"Ethernet", "IPv4Ethernet"} => g.hardware_type = 1
      /\ a.class \in {"IPv4", "IPv4Ethernet"} => g.protocol_type = IPv4Type
      /\ a.blank => GivesNothing(a.class, g)
  BY StackAssumption
<1>2. g = ARPPacket(g.sha, g.spa, g.tha, g.tpa, g.hardware_type, g.protocol_type, g.opcode)
  BY <1>1 DEF ARPFields, ARPPacket
<1> DEFINE made(h, p) == ARPPacket(g.sha, g.spa, g.tha, g.tpa, h, p, g.opcode)
<1>3. CASE a.blank
  <2>1. Constructed(a) = BlankARP(a.class, Len(g.sha), Len(g.spa), g.opcode)
    BY <1>3 DEF Constructed
  <2>2. ASSUME NEW address \in Seq(Byte), \A j \in 1 .. Len(address) : address[j] = 0
        PROVE  Zeros(Len(address)) = address
    BY <2>2 DEF Zeros
  <2>3. /\ g.sha \in Seq(Byte) /\ g.spa \in Seq(Byte)
        /\ g.tha \in Seq(Byte) /\ g.tpa \in Seq(Byte)
    BY <1>1 DEF ARPFields
  <2>4. /\ Zeros(Len(g.sha)) = g.sha /\ Zeros(Len(g.spa)) = g.spa
        /\ Zeros(Len(g.tha)) = g.tha /\ Zeros(Len(g.tpa)) = g.tpa
    BY <1>1, <1>3, <2>2, <2>3 DEF GivesNothing
  <2>5. /\ g.hardware_type = IF a.class \in {"Ethernet", "IPv4Ethernet"} THEN 1 ELSE 0
        /\ g.protocol_type = IF a.class \in {"IPv4", "IPv4Ethernet"} THEN IPv4Type ELSE 0
    BY <1>1, <1>3 DEF GivesNothing
  <2>6. /\ Zeros(Len(g.sha)) = g.tha /\ Zeros(Len(g.spa)) = g.tpa
    BY <1>1, <2>4
  <2>7. BlankARP(a.class, Len(g.sha), Len(g.spa), g.opcode)
          = made(g.hardware_type, g.protocol_type)
    <3> HIDE DEF g
    <3> QED BY <2>4, <2>5, <2>6 DEF BlankARP
  <2> QED BY <1>2, <2>1, <2>7
<1>4. CASE ~a.blank
  <2>1. CASE a.class = "Packet"
    BY <1>2, <1>4, <2>1 DEF Constructed
  <2>2. CASE a.class = "Ethernet"
    <3>1. Constructed(a) = made(1, g.protocol_type)
      BY <1>4, <2>2 DEF Constructed, EthernetARP
    <3> QED BY <1>1, <1>2, <2>2, <3>1
  <2>3. CASE a.class = "IPv4"
    <3>1. Constructed(a) = made(g.hardware_type, IPv4Type)
      BY <1>4, <2>3 DEF Constructed, IPv4ARP
    <3> QED BY <1>1, <1>2, <2>3, <3>1
  <2>4. CASE a.class = "IPv4Ethernet"
    <3>1. Constructed(a) = made(1, IPv4Type)
      BY <1>4, <2>4 DEF Constructed, IPv4EthernetARP, EthernetARP
    <3> QED BY <1>1, <1>2, <2>4, <3>1
  <2> QED BY <1>1, <2>1, <2>2, <2>3, <2>4
<1> QED BY <1>1, <1>3, <1>4

LEMMA ARPIsGiven ==
  ASSUME NEW a \in ARPs
  PROVE  LET p == a.given
         IN  /\ Constructed(a) = p /\ p \in ARPFields
             /\ Len(p.sha) \in Byte /\ Len(p.spa) \in Byte
             /\ Len(p.tha) = Len(p.sha) /\ Len(p.tpa) = Len(p.spa)
BY ConstructedIsGiven, StackAssumption

-----------------------------------------------------------------------------
(* t stands behind the first n bytes of b.                                 *)
At(b, n, t) == \A i \in 1 .. Len(t) : b[n + i] = t[i]

LEMMA AtEnd ==
  ASSUME NEW s \in Seq(Byte), NEW t \in Seq(Byte)
  PROVE  At(s \o t, Len(s), t)
BY JoinedRight, Zenon DEF At

LEMMA AtKept ==
  ASSUME NEW s \in Seq(Byte), NEW t \in Seq(Byte), NEW n \in Nat,
         NEW part \in Seq(Byte), n + Len(part) <= Len(s), At(s, n, part)
  PROVE  At(s \o t, n, part)
<1> SUFFICES ASSUME NEW i \in 1 .. Len(part) PROVE (s \o t)[n + i] = part[i]
  BY DEF At
<1>1. n + i \in 1 .. Len(s)
  BY LenProperties
<1>2. (s \o t)[n + i] = s[n + i]
  BY <1>1, JoinedLeft
<1> QED BY <1>2 DEF At

(* Where the fields of an ARP packet are                                   *)
LEMMA ARPLayout ==
  ASSUME NEW p \in ARPFields, Len(p.sha) \in Byte, Len(p.spa) \in Byte,
         Len(p.tha) = Len(p.sha), Len(p.tpa) = Len(p.spa)
  PROVE  LET bytes == BuildARP(p)
             m == Len(p.sha)
             n == Len(p.spa)
         IN  /\ bytes \in Seq(Byte) /\ Len(bytes) = 8 + 2 * (m + n)
             /\ At(bytes, 0, SplitBytes(p.hardware_type))
             /\ At(bytes, 2, SplitBytes(p.protocol_type))
             /\ At(bytes, 4, <<m, n>>)
             /\ At(bytes, 6, SplitBytes(p.opcode))
             /\ At(bytes, 8, p.sha)
             /\ At(bytes, 8 + m, p.spa)
             /\ At(bytes, 8 + m + n, p.tha)
             /\ At(bytes, 8 + 2 * m + n, p.tpa)
<1> DEFINE m == Len(p.sha)
           n == Len(p.spa)
           t == SplitBytes(p.hardware_type)
           u == SplitBytes(p.protocol_type)
           v == <<m, n>>
           w == SplitBytes(p.opcode)
           sha == p.sha
           spa == p.spa
           tha == p.tha
           tpa == p.tpa
           x == t \o u
           y == x \o v
           z == y \o w
           b1 == z \o sha
           b2 == b1 \o spa
           b3 == b2 \o tha
           b4 == b3 \o tpa
<1>1. /\ sha \in Seq(Byte) /\ spa \in Seq(Byte)
      /\ tha \in Seq(Byte) /\ tpa \in Seq(Byte)
      /\ p.hardware_type \in Word /\ p.protocol_type \in Word /\ p.opcode \in Word
      /\ m \in Byte /\ n \in Byte
      /\ Len(sha) = m /\ Len(spa) = n /\ Len(tha) = m /\ Len(tpa) = n
  BY DEF ARPFields
<1>2. /\ t \in Seq(Byte) /\ u \in Seq(Byte) /\ w \in Seq(Byte)
      /\ Len(t) = 2 /\ Len(u) = 2 /\ Len(w) = 2
  BY <1>1, SplitIsBytes
<1>3. BuildARP(p) = b4
  BY DEF BuildARP
<1> HIDE DEF m, n
<1>4. m \in Nat /\ n \in Nat /\ v \in Seq(Byte) /\ Len(v) = 2
  BY <1>1 DEF Byte
<1> HIDE DEF t, u, v, w, sha, spa, tha, tpa
<1>5. x \in Seq(Byte) /\ Len(x) = Len(t) + Len(u) /\ At(x, 0, t) /\ At(x, Len(t), u)
  <2>1. At(x, 0, t)
    <3>1. \A i \in 1 .. Len(t) : x[i] = t[i]
      BY <1>2, JoinedLeft, Zenon
    <3> HIDE DEF x
    <3>2. \A i \in 1 .. Len(t) : 0 + i = i
      BY <1>2
    <3> QED BY <3>1, <3>2 DEF At
  <2> QED BY <1>2, <2>1, JoinedIsSeq, JoinedLen, AtEnd, Zenon
<1> HIDE DEF x
<1>6. Len(x) = 4 /\ At(x, 0, t) /\ At(x, 2, u)
  BY <1>2, <1>5
<1>7. y \in Seq(Byte) /\ Len(y) = Len(x) + Len(v) /\ At(y, Len(x), v)
  BY <1>4, <1>5, JoinedIsSeq, JoinedLen, AtEnd, Zenon
<1>8. Len(y) = 6 /\ At(y, 0, t) /\ At(y, 2, u) /\ At(y, 4, v)
  <2>1. 0 + Len(t) <= Len(x) /\ 2 + Len(u) <= Len(x)
    BY <1>2, <1>6
  <2>2. At(y, 0, t) /\ At(y, 2, u)
    BY <1>2, <1>4, <1>5, <1>6, <2>1, AtKept
  <2> QED BY <1>4, <1>6, <1>7, <2>2
<1> HIDE DEF y
<1>9. z \in Seq(Byte) /\ Len(z) = Len(y) + Len(w) /\ At(z, Len(y), w)
  BY <1>2, <1>7, JoinedIsSeq, JoinedLen, AtEnd, Zenon
<1>10. Len(z) = 8 /\ At(z, 0, t) /\ At(z, 2, u) /\ At(z, 4, v) /\ At(z, 6, w)
  <2>1. 0 + Len(t) <= Len(y) /\ 2 + Len(u) <= Len(y) /\ 4 + Len(v) <= Len(y)
    BY <1>2, <1>4, <1>8
  <2>2. At(z, 0, t) /\ At(z, 2, u) /\ At(z, 4, v)
    BY <1>2, <1>4, <1>7, <1>8, <2>1, AtKept
  <2> QED BY <1>2, <1>8, <1>9, <2>2
<1> HIDE DEF z
<1> DEFINE Top(b) == /\ At(b, 0, t) /\ At(b, 2, u) /\ At(b, 4, v) /\ At(b, 6, w)
<1>11. ASSUME NEW b \in Seq(Byte), NEW c \in Seq(Byte), Len(b) >= 8, Top(b)
       PROVE  Top(b \o c)
  <2>1. Len(b) \in Nat
    BY LenProperties
  <2>2. /\ 0 + Len(t) <= Len(b) /\ 2 + Len(u) <= Len(b)
        /\ 4 + Len(v) <= Len(b) /\ 6 + Len(w) <= Len(b)
    BY <1>2, <1>4, <1>11, <2>1
  <2> QED BY <1>2, <1>4, <1>11, <2>2, AtKept
<1>12. b1 \in Seq(Byte) /\ Len(b1) = Len(z) + Len(sha) /\ At(b1, Len(z), sha) /\ Top(b1)
  <2>1. Len(z) >= 8 /\ Top(z)
    BY <1>10
  <2>2. Top(b1)
    BY <1>1, <1>9, <1>11, <2>1
  <2> HIDE DEF Top
  <2> QED BY <1>1, <1>9, <2>2, JoinedIsSeq, JoinedLen, AtEnd, Zenon
<1> HIDE DEF b1, Top
<1>13. Len(b1) = 8 + m /\ Len(b1) >= 8 /\ At(b1, 8, sha)
  BY <1>1, <1>4, <1>10, <1>12
<1>14. b2 \in Seq(Byte) /\ Len(b2) = Len(b1) + Len(spa) /\ At(b2, Len(b1), spa) /\ Top(b2)
  BY <1>1, <1>11, <1>12, <1>13, JoinedIsSeq, JoinedLen, AtEnd, Zenon
<1>15. Len(b2) = 8 + m + n /\ Len(b2) >= 8 /\ At(b2, 8, sha) /\ At(b2, 8 + m, spa)
  <2>1. 8 + Len(sha) <= Len(b1) /\ 8 \in Nat
    BY <1>1, <1>4, <1>13
  <2>2. At(b2, 8, sha)
    BY <1>1, <1>12, <1>13, <2>1, AtKept
  <2> QED BY <1>1, <1>4, <1>13, <1>14, <2>2
<1> HIDE DEF b2
<1>16. b3 \in Seq(Byte) /\ Len(b3) = Len(b2) + Len(tha) /\ At(b3, Len(b2), tha) /\ Top(b3)
  BY <1>1, <1>11, <1>14, <1>15, JoinedIsSeq, JoinedLen, AtEnd, Zenon
<1>17. /\ Len(b3) = 8 + 2 * m + n /\ Len(b3) >= 8
       /\ At(b3, 8, sha) /\ At(b3, 8 + m, spa) /\ At(b3, 8 + m + n, tha)
  <2>1. /\ 8 + Len(sha) <= Len(b2) /\ 8 \in Nat
        /\ 8 + m + Len(spa) <= Len(b2) /\ 8 + m \in Nat
    BY <1>1, <1>4, <1>15
  <2>2. At(b3, 8, sha) /\ At(b3, 8 + m, spa)
    BY <1>1, <1>14, <1>15, <2>1, AtKept
  <2> QED BY <1>1, <1>4, <1>15, <1>16, <2>2
<1> HIDE DEF b3
<1>18. b4 \in Seq(Byte) /\ Len(b4) = Len(b3) + Len(tpa) /\ At(b4, Len(b3), tpa) /\ Top(b4)
  BY <1>1, <1>11, <1>16, <1>17, JoinedIsSeq, JoinedLen, AtEnd, Zenon
<1>19. /\ Len(b4) = 8 + 2 * (m + n)
       /\ At(b4, 8, sha) /\ At(b4, 8 + m, spa) /\ At(b4, 8 + m + n, tha)
       /\ At(b4, 8 + 2 * m + n, tpa)
  <2>1. /\ 8 + m <= Len(b3) /\ 8 + m + n <= Len(b3) /\ 8 + m + n + m <= Len(b3)
        /\ 8 \in Nat /\ 8 + m \in Nat /\ 8 + m + n \in Nat
    BY <1>4, <1>17
  <2>2. At(b4, 8, sha) /\ At(b4, 8 + m, spa) /\ At(b4, 8 + m + n, tha)
    BY <1>1, <1>16, <1>17, <2>1, AtKept
  <2>3. Len(b4) = 8 + 2 * m + n + n
    BY <1>1, <1>17, <1>18
  <2> QED BY <1>4, <1>17, <1>18, <2>2, <2>3
<1> HIDE DEF b4
<1> QED BY <1>3, <1>18, <1>19 DEF Top, m, n, t, u, v, w, sha, spa, tha, tpa

(* A word that stands in two bytes is read as it is.                       *)
LEMMA WordAt ==
  ASSUME NEW b, NEW n \in Nat, NEW w \in Word, At(b, n, SplitBytes(w))
  PROVE  CombineBytes(b[n + 1], b[n + 2]) = w
<1>1. b[n + 1] = w \div Radix /\ b[n + 2] = w % Radix
  <2>1. 1 \in 1 .. Len(SplitBytes(w)) /\ 2 \in 1 .. Len(SplitBytes(w))
    BY SplitIsBytes
  <2>2. b[n + 1] = SplitBytes(w)[1] /\ b[n + 2] = SplitBytes(w)[2]
    BY <2>1 DEF At
  <2> QED BY <2>2 DEF SplitBytes
<1>2. (w \div Radix) * Radix + (w % Radix) = w
  BY WordSizes, DivMod DEF Word
<1> QED BY <1>1, <1>2 DEF CombineBytes

(* The lengths are where a reader looks for them.                          *)
LEMMA ARPIsBytes ==
  ASSUME NEW a \in ARPs
  PROVE  LET bytes == BuildARP(Constructed(a))
         IN  /\ bytes \in Seq(Byte) /\ Len(bytes) \in Nat /\ Len(bytes) >= 8
             /\ Len(bytes) = ARPLength(bytes)
<1> DEFINE p == a.given
           b == BuildARP(p)
           m == Len(p.sha)
           n == Len(p.spa)
<1>1. m \in Byte /\ n \in Byte
  BY ARPIsGiven
<1>2. b \in Seq(Byte) /\ Len(b) = 8 + 2 * (m + n) /\ At(b, 4, <<m, n>>)
  BY ARPIsGiven, ARPLayout
<1>3. BuildARP(Constructed(a)) = b
  BY ARPIsGiven
<1> HIDE DEF b, m, n
<1>4. m \in Nat /\ n \in Nat
  BY <1>1 DEF Byte
<1>5. b[5] = m /\ b[6] = n
  <2>1. \A i \in 1 .. 2 : b[4 + i] = <<m, n>>[i]
    BY <1>2 DEF At
  <2> QED BY <2>1
<1>6. Len(b) \in Nat /\ Len(b) >= 8 /\ Len(b) = ARPLength(b)
  BY <1>2, <1>4, <1>5 DEF ARPLength
<1> QED BY <1>2, <1>3, <1>6

(* and so are the fields.                                                  *)
LEMMA ARPIsRead ==
  ASSUME NEW a \in ARPs
  PROVE  ReadARP(BuildARP(Constructed(a))) = a.given
<1> DEFINE p == a.given
           b == BuildARP(p)
           m == Len(p.sha)
           n == Len(p.spa)
           field(from, k) == SubSeq(b, from + 1, from + k)
<1>1. /\ p \in ARPFields /\ m \in Byte /\ n \in Byte
      /\ p.sha \in Seq(Byte) /\ p.spa \in Seq(Byte)
      /\ p.tha \in Seq(Byte) /\ p.tpa \in Seq(Byte)
      /\ Len(p.tha) = m /\ Len(p.tpa) = n
      /\ p.hardware_type \in Word /\ p.protocol_type \in Word /\ p.opcode \in Word
  BY ARPIsGiven DEF ARPFields
<1>2. /\ At(b, 0, SplitBytes(p.hardware_type)) /\ At(b, 2, SplitBytes(p.protocol_type))
      /\ At(b, 4, <<m, n>>) /\ At(b, 6, SplitBytes(p.opcode))
      /\ At(b, 8, p.sha) /\ At(b, 8 + m, p.spa)
      /\ At(b, 8 + m + n, p.tha) /\ At(b, 8 + 2 * m + n, p.tpa)
  BY ARPIsGiven, ARPLayout
<1>3. ReadARP(BuildARP(Constructed(a))) = ReadARP(b)
  BY ARPIsGiven
<1> HIDE DEF b
<1>4. m \in Nat /\ n \in Nat
  BY <1>1 DEF Byte
<1>5. b[5] = m /\ b[6] = n
  <2>1. \A i \in 1 .. 2 : b[4 + i] = <<m, n>>[i]
    BY <1>2 DEF At
  <2> HIDE DEF m, n
  <2> QED BY <2>1
<1>6. /\ CombineBytes(b[1], b[2]) = p.hardware_type
      /\ CombineBytes(b[3], b[4]) = p.protocol_type
      /\ CombineBytes(b[7], b[8]) = p.opcode
  <2>1. /\ CombineBytes(b[0 + 1], b[0 + 2]) = p.hardware_type
        /\ CombineBytes(b[2 + 1], b[2 + 2]) = p.protocol_type
        /\ CombineBytes(b[6 + 1], b[6 + 2]) = p.opcode
    BY <1>1, <1>2, WordAt
  <2> QED BY <2>1
<1>7. ASSUME NEW from \in Nat, NEW address \in Seq(Byte), At(b, from, address)
      PROVE  field(from, Len(address)) = address
  BY <1>7, SubSeqIs DEF At
<1>8. /\ field(8, m) = p.sha /\ field(8 + m, n) = p.spa
      /\ field(8 + m + n, m) = p.tha /\ field(8 + 2 * m + n, n) = p.tpa
  <2>1. 8 \in Nat /\ 8 + m \in Nat /\ 8 + m + n \in Nat /\ 8 + 2 * m + n \in Nat
    <3> HIDE DEF m, n
    <3> QED BY <1>4
  <2>2. /\ field(8, Len(p.sha)) = p.sha /\ field(8 + m, Len(p.spa)) = p.spa
        /\ field(8 + m + n, Len(p.tha)) = p.tha /\ field(8 + 2 * m + n, Len(p.tpa)) = p.tpa
    <3> HIDE DEF field, m, n
    <3> QED BY <1>1, <1>2, <1>7, <2>1
  <2> QED BY <1>1, <2>2
<1>9. ReadARP(b) = ARPPacket(p.sha, p.spa, p.tha, p.tpa,
                             p.hardware_type, p.protocol_type, p.opcode)
  <2>1. ReadARP(b) = ARPPacket(field(8, m), field(8 + m, n),
                               field(8 + m + n, m), field(8 + 2 * m + n, n),
                               CombineBytes(b[1], b[2]), CombineBytes(b[3], b[4]),
                               CombineBytes(b[7], b[8]))
    BY <1>5, Zenon DEF ReadARP
  <2> QED BY <1>6, <1>8, <2>1, Zenon
<1>10. ARPPacket(p.sha, p.spa, p.tha, p.tpa,
                 p.hardware_type, p.protocol_type, p.opcode) = p
  BY <1>1 DEF ARPFields, ARPPacket
<1> QED BY <1>3, <1>9, <1>10

LEMMA DWordSizes == DWordSize \in Nat /\ DWordSize > 16
<1>1. 16 * WordSize <= WordSize * WordSize /\ WordSize * WordSize \in Nat
  BY SmallWords, ProductMonotone
<1> QED BY <1>1, SmallWords DEF DWordSize

LEMMA SplitIsBytes4 ==
  ASSUME NEW w \in 0 .. DWordSize - 1
  PROVE  SplitBytes4(w) \in Seq(Byte) /\ Len(SplitBytes4(w)) = 4
<1>1. w \div WordSize \in Word /\ w % WordSize \in Word
  BY SmallWords, HalfIsBelow DEF DWordSize, Word
<1> DEFINE b == SplitBytes(w \div WordSize)
           c == SplitBytes(w % WordSize)
<1>2. b \in Seq(Byte) /\ Len(b) = 2 /\ c \in Seq(Byte) /\ Len(c) = 2
  BY <1>1, SplitIsBytes
<1>3. b \o c \in Seq(Byte) /\ Len(b \o c) = Len(b) + Len(c)
  BY <1>2, JoinedIsSeq, JoinedLen, Zenon
<1>4. SplitBytes4(w) = b \o c
  BY DEF SplitBytes4
<1> HIDE DEF b, c
<1> QED BY <1>2, <1>3, <1>4

(* A word of four bytes is read as it is.                                  *)
LEMMA DWordAt ==
  ASSUME NEW b, NEW n \in Nat, NEW w \in 0 .. DWordSize - 1, At(b, n, SplitBytes4(w))
  PROVE  CombineBytes4(b, n + 1) = w
<1> DEFINE u == w \div WordSize
           l == w % WordSize
           c == SplitBytes(u)
           d == SplitBytes(l)
<1>1. u \in Word /\ l \in Word
  BY SmallWords, HalfIsBelow DEF DWordSize, Word
<1>2. c \in Seq(Byte) /\ Len(c) = 2 /\ d \in Seq(Byte) /\ Len(d) = 2
  BY <1>1, SplitIsBytes
<1>3. SplitBytes4(w) = c \o d /\ Len(SplitBytes4(w)) = 4
  BY SplitIsBytes4 DEF SplitBytes4
<1>4. u * WordSize + l = w
  BY SmallWords, DivMod DEF DWordSize
<1> HIDE DEF u, l
<1>5. At(b, n, c) /\ At(b, n + 2, d)
  <2> HIDE DEF c, d
  <2>1. \A i \in 1 .. 2 : (c \o d)[i] = c[i] /\ (c \o d)[2 + i] = d[i]
    <3>1. c \in Seq(Byte) /\ d \in Seq(Byte)
      BY <1>2
    <3>2. \A i \in 1 .. Len(c) : (c \o d)[i] = c[i]
      BY <3>1, JoinedLeft, Zenon
    <3>3. \A i \in 1 .. Len(d) : (c \o d)[Len(c) + i] = d[i]
      BY <3>1, JoinedRight, Zenon
    <3> QED BY <1>2, <3>2, <3>3, Zenon
  <2>2. \A i \in 1 .. 4 : b[n + i] = (c \o d)[i]
    BY <1>3 DEF At
  <2>3. ASSUME NEW i \in 1 .. 2
        PROVE  b[n + i] = c[i] /\ b[(n + 2) + i] = d[i]
    <3>1. i \in 1 .. 4 /\ 2 + i \in 1 .. 4 /\ (n + 2) + i = n + (2 + i)
      OBVIOUS
    <3> QED BY <2>1, <2>2, <3>1, Zenon
  <2> QED BY <1>2, <2>3 DEF At
<1>6. CombineBytes(b[n + 1], b[n + 2]) = u /\ CombineBytes(b[(n + 2) + 1], b[(n + 2) + 2]) = l
  <2>1. n + 2 \in Nat
    OBVIOUS
  <2> QED BY <1>1, <1>5, <2>1, WordAt
<1>7. /\ (n + 1) + 1 = n + 2 /\ (n + 1) + 2 = (n + 2) + 1 /\ (n + 1) + 3 = (n + 2) + 2
  OBVIOUS
<1>8. CombineBytes4(b, n + 1) = u * WordSize + l
  BY <1>6, <1>7, Zenon DEF CombineBytes4
<1> QED BY <1>4, <1>8

LEMMA TimestampIsBytes ==
  ASSUME NEW s \in 0 .. DWordSize - 1
  PROVE  /\ TimestampMessage(s) \in Seq(Byte)
         /\ Len(TimestampMessage(s)) = TimestampLength
         /\ CombineBytes4(TimestampMessage(s), 1) = s
         /\ TimestampReply(Originate, s, s) \in Seq(Byte)
         /\ Len(TimestampReply(Originate, s, s)) = TimestampLength
         /\ CombineBytes4(TimestampReply(Originate, s, s), 5) = s
         /\ CombineBytes4(TimestampReply(Originate, s, s), 9) = s
<1> DEFINE b == SplitBytes4(s)
           o == SplitBytes4(Originate)
           ob == o \o b
           reply == ob \o b
           ask == b \o Zeros(8)
<1>1. Originate \in 0 .. DWordSize - 1
  BY DWordSizes DEF Originate
<1>2. b \in Seq(Byte) /\ Len(b) = 4 /\ o \in Seq(Byte) /\ Len(o) = 4
  BY <1>1, SplitIsBytes4
<1>3. Zeros(8) \in Seq(Byte) /\ Len(Zeros(8)) = 8
  BY ZerosAreBytes
<1>4. TimestampMessage(s) = ask /\ TimestampReply(Originate, s, s) = reply
  BY DEF TimestampMessage, TimestampReply
<1> HIDE DEF b, o
<1>5. /\ ask \in Seq(Byte) /\ Len(ask) = Len(b) + Len(Zeros(8))
      /\ \A i \in 1 .. Len(b) : ask[i] = b[i]
  BY <1>2, <1>3, JoinedIsSeq, JoinedLen, JoinedLeft, Zenon
<1>6. ob \in Seq(Byte) /\ Len(ob) = Len(o) + Len(b) /\ At(ob, Len(o), b)
  BY <1>2, JoinedIsSeq, JoinedLen, AtEnd, Zenon
<1> HIDE DEF ob, ask
<1>7. reply \in Seq(Byte) /\ Len(reply) = Len(ob) + Len(b) /\ At(reply, Len(ob), b)
  BY <1>2, <1>6, JoinedIsSeq, JoinedLen, AtEnd, Zenon
<1>8. Len(ask) = TimestampLength /\ At(ask, 0, b)
  <2>1. \A i \in 1 .. Len(b) : 0 + i = i
    BY <1>2
  <2>2. Len(ask) = 4 + 8
    BY <1>2, <1>3, <1>5, Zenon
  <2>3. At(ask, 0, b)
    BY <1>5, <2>1 DEF At
  <2> QED BY <2>2, <2>3 DEF TimestampLength
<1>9. Len(ob) = 8 /\ At(ob, 4, b)
  BY <1>2, <1>6
<1>10. At(reply, 4, b)
  <2>1. 4 + Len(b) <= Len(ob)
    BY <1>2, <1>9
  <2> QED BY <1>2, <1>6, <1>9, <2>1, AtKept
<1> HIDE DEF reply
<1>11. Len(reply) = TimestampLength /\ At(reply, 8, b)
  BY <1>2, <1>7, <1>9 DEF TimestampLength
<1>12. /\ CombineBytes4(ask, 0 + 1) = s
       /\ CombineBytes4(reply, 4 + 1) = s /\ CombineBytes4(reply, 8 + 1) = s
  BY <1>8, <1>10, <1>11, DWordAt DEF b
<1> QED BY <1>4, <1>5, <1>7, <1>8, <1>11, <1>12

-----------------------------------------------------------------------------
(* Headers are put around and taken off at the end of the list.            *)
LEMMA SizesAppended ==
  ASSUME NEW hs \in Seq(Headers), NEW d, NEW f, Sizes(hs, d, f),
         NEW h \in Headers, NEW s \in Nat, HeaderFits(h, f[Len(hs)], s)
  PROVE  \E g : Sizes(Append(hs, h), d, g) /\ g[Len(Append(hs, h))] = s
<1> DEFINE n == Len(hs)
           g == [k \in 0 .. n + 1 |-> IF k <= n THEN f[k] ELSE s]
           new == Append(hs, h)
<1>1. n \in Nat /\ new \in Seq(Headers) /\ Len(new) = n + 1 /\ new[n + 1] = h
  BY AppendProperties, LenProperties
<1>2. \A k \in 1 .. n : new[k] = hs[k]
  BY AppendProperties
<1>3. f \in [0 .. n -> Nat] /\ f[0] = d /\ HeaderFits(h, f[n], s)
      /\ \A k \in 1 .. n : HeaderFits(hs[k], f[k - 1], f[k])
  BY DEF Sizes
<1> HIDE DEF n, new
<1>4. g \in [0 .. n + 1 -> Nat] /\ g[0] = d /\ g[n + 1] = s /\ g[n] = f[n]
  BY <1>1, <1>3
<1>5. ASSUME NEW k \in 1 .. n + 1
      PROVE  HeaderFits(new[k], g[k - 1], g[k])
  <2>1. CASE k = n + 1
    <3>1. k - 1 = n
      BY <1>1, <2>1
    <3> QED BY <1>1, <1>3, <1>4, <2>1, <3>1
  <2>2. CASE k <= n
    <3>1. k \in 1 .. n /\ g[k - 1] = f[k - 1] /\ g[k] = f[k]
      BY <1>1, <2>2
    <3> QED BY <1>2, <1>3, <3>1
  <2> QED BY <1>1, <2>1, <2>2
<1> HIDE DEF g
<1>6. Sizes(new, d, g) /\ g[Len(new)] = s
  BY <1>1, <1>4, <1>5 DEF Sizes
<1> QED BY <1>6 DEF new

LEMMA SizesRemoved ==
  ASSUME NEW hs \in Seq(Headers), hs # <<>>, NEW d, NEW f, Sizes(hs, d, f)
  PROVE  LET n == Len(hs)
             rest == SubSeq(hs, 1, n - 1)
         IN  /\ n \in Nat \ {0} /\ hs[n] \in Headers
             /\ f[n] \in Nat /\ f[n - 1] \in Nat
             /\ HeaderFits(hs[n], f[n - 1], f[n])
             /\ rest \in Seq(Headers) /\ Len(rest) = n - 1
             /\ \A k \in 1 .. n - 1 : rest[k] = hs[k]
             /\ \E g : Sizes(rest, d, g) /\ g[Len(rest)] = f[n - 1]
<1> DEFINE n == Len(hs)
           rest == SubSeq(hs, 1, n - 1)
           g == [k \in 0 .. n - 1 |-> f[k]]
<1>1. n \in Nat \ {0}
  BY EmptySeq
<1>2. \A k \in 1 .. n : hs[k] \in Headers
  BY ElementOfSeq
<1>3. f \in [0 .. n -> Nat] /\ f[0] = d
      /\ \A k \in 1 .. n : HeaderFits(hs[k], f[k - 1], f[k])
  BY DEF Sizes
<1>4. rest \in Seq(Headers) /\ Len(rest) = n - 1 /\ \A k \in 1 .. n - 1 : rest[k] = hs[k]
  <2> HIDE DEF n
  <2>1. 1 \in Int /\ n - 1 \in Int /\ \A k \in 1 .. n - 1 : hs[k] \in Headers
    BY <1>1, <1>2
  <2>2. /\ rest \in Seq(Headers)
        /\ Len(rest) = IF 1 <= n - 1 THEN n - 1 - 1 + 1 ELSE 0
        /\ \A k \in 1 .. n - 1 - 1 + 1 : rest[k] = hs[1 + k - 1]
    BY <2>1, SubSeqProperties
  <2> HIDE DEF rest
  <2>3. Len(rest) = n - 1
    BY <1>1, <2>2
  <2>4. ASSUME NEW k \in 1 .. n - 1 PROVE rest[k] = hs[k]
    <3>1. k \in 1 .. n - 1 - 1 + 1 /\ 1 + k - 1 = k
      BY <1>1
    <3> QED BY <2>2, <3>1
  <2> QED BY <2>2, <2>3, <2>4
<1> HIDE DEF n, rest
<1>5. n \in 1 .. n /\ n \in 0 .. n /\ n - 1 \in 0 .. n
  BY <1>1
<1>6. g \in [0 .. n - 1 -> Nat] /\ g[0] = d /\ g[n - 1] = f[n - 1]
  BY <1>1, <1>3
<1>7. ASSUME NEW k \in 1 .. n - 1
      PROVE  HeaderFits(rest[k], g[k - 1], g[k])
  <2>1. k \in 1 .. n /\ g[k - 1] = f[k - 1] /\ g[k] = f[k]
    BY <1>1
  <2> QED BY <1>3, <1>4, <2>1
<1> HIDE DEF g
<1>8. Sizes(rest, d, g) /\ g[Len(rest)] = f[n - 1]
  BY <1>4, <1>6, <1>7 DEF Sizes
<1>9. /\ hs[n] \in Headers /\ f[n] \in Nat /\ f[n - 1] \in Nat
      /\ HeaderFits(hs[n], f[n - 1], f[n])
  BY <1>2, <1>3, <1>5
<1> QED BY <1>1, <1>4, <1>8, <1>9 DEF n, rest

LEMMA MarkedAppended ==
  ASSUME NEW bytes, NEW hs \in Seq(Headers), NEW h \in Headers,
         Marked(bytes, hs) \/ h.kind \in Framing
  PROVE  Marked(bytes, Append(hs, h))
<1>1. /\ Len(hs) \in Nat /\ Len(Append(hs, h)) = Len(hs) + 1
      /\ Append(hs, h)[Len(hs) + 1] = h
      /\ \A k \in 1 .. Len(hs) : Append(hs, h)[k] = hs[k]
  BY AppendProperties, LenProperties
<1>2. /\ Len(hs) + 1 \in 1 .. Len(Append(hs, h))
      /\ \A k \in 1 .. Len(hs) : k \in 1 .. Len(Append(hs, h))
  BY <1>1
<1> QED BY <1>1, <1>2, Zenon DEF Marked

LEMMA MarkedRemoved ==
  ASSUME NEW bytes, NEW hs, NEW rest, NEW n \in Nat,
         Len(hs) = n, Len(rest) = n - 1, \A k \in 1 .. n - 1 : rest[k] = hs[k],
         Marked(bytes, hs), hs[n].kind \notin Framing
  PROVE  Marked(bytes, rest)
<1>1. CASE \E k \in 1 .. n : hs[k].kind \in Framing
  <2>1. PICK k \in 1 .. n : hs[k].kind \in Framing
    BY <1>1
  <2>2. k \in 1 .. n - 1
    BY <2>1
  <2> QED BY <2>1, <2>2 DEF Marked
<1> QED BY <1>1 DEF Marked

-----------------------------------------------------------------------------
LEMMA InitInv == Init => Inv
<1> SUFFICES ASSUME Init PROVE Inv
  OBVIOUS
<1>1. headers \in Seq(Headers) /\ message \in Seq(Byte)
  BY EmptySeq DEF Init
<1>2. framed \in BOOLEAN /\ framed = FALSE /\ phase = "contents"
  BY DEF Init
<1>3. headers = <<>> /\ message = <<>> /\ data = 0 /\ size = 0
  BY DEF Init
<1> QED BY <1>1, <1>2, <1>3 DEF Inv

(* Contents are made.                                                      *)
LEMMA ContainInv ==
  ASSUME Inv, phase \in {"contents", "clock"},
         NEW made_of, NEW bytes \in Seq(Byte), NEW n \in Nat,
         Contain(made_of, bytes, n), ContentsOK'
  PROVE  Inv'
<1>1. /\ headers' = <<>> /\ message' = bytes /\ data' = n /\ size' = n
      /\ framed' = (bytes # <<>>) /\ phase' = "building"
  BY DEF Contain, Inv
<1> DEFINE f == [k \in {0} |-> n]
<1>2. Sizes(<<>>, n, f) /\ f[0] = n
  BY DEF Sizes
<1>3. framed' \in BOOLEAN /\ (framed' => Marked(message', headers'))
  BY <1>1, Zenon DEF Marked
<1>4. \E g : Sizes(headers', data', g) /\ g[Len(headers')] = size'
  BY <1>1, <1>2
<1> QED BY <1>1, <1>3, <1>4 DEF Inv

LEMMA SendDataInv == Inv /\ SendData => Inv'
<1> SUFFICES ASSUME Inv, SendData PROVE Inv'
  OBVIOUS
<1>1. PICK n \in DataSizes : Contain([by |-> "data"], <<>>, n)
  BY DEF SendData
<1>2. ContentsOK'
  BY <1>1 DEF Contain, ContentsOK
<1>3. n \in Nat /\ <<>> \in Seq(Byte)
  BY StackAssumption, EmptySeq
<1> QED BY <1>1, <1>2, <1>3, ContainInv DEF SendData

LEMMA SendARPInv == Inv /\ SendARP => Inv'
<1> SUFFICES ASSUME Inv, SendARP PROVE Inv'
  OBVIOUS
<1>1. PICK a \in ARPs :
        LET bytes == BuildARP(Constructed(a))
        IN  Contain([by |-> "ARP", packet |-> a.given], bytes, Len(bytes))
  BY DEF SendARP
<1> DEFINE bytes == BuildARP(Constructed(a))
<1>2. /\ bytes \in Seq(Byte) /\ Len(bytes) \in Nat /\ Len(bytes) >= 8
      /\ Len(bytes) = ARPLength(bytes)
  BY ARPIsBytes
<1>3. Contain([by |-> "ARP", packet |-> a.given], bytes, Len(bytes))
  BY <1>1
<1> HIDE DEF bytes
<1>4. ContentsOK'
  BY <1>2, <1>3 DEF Contain, ContentsOK
<1> QED BY <1>2, <1>3, <1>4, ContainInv DEF SendARP

LEMMA ReadDayInv == Inv /\ ReadDay => Inv'
<1> SUFFICES ASSUME Inv, ReadDay PROVE Inv'
  OBVIOUS
<1>1. PICK t \in Clocks, reply \in BOOLEAN :
        given' = [by |-> "clock", reply |-> reply, started |-> t, day |-> StartOfDay(t)]
  BY DEF ReadDay
<1>2. Day \in Int /\ Day > 0 /\ t \in Int
  BY StackAssumption
<1>3. StartOfDay(t) \in Int
  BY <1>2 DEF StartOfDay
<1> QED BY <1>1, <1>3 DEF Inv, ReadDay

LEMMA ReadTimeInv == Inv /\ ReadTime => Inv'
<1> SUFFICES ASSUME Inv, ReadTime PROVE Inv'
  OBVIOUS
<1>1. PICK t \in Clocks :
        LET since_midnight == (t - given.day) % DWordSize
            bytes == IF given.reply
                     THEN TimestampReply(Originate, since_midnight, since_midnight)
                     ELSE TimestampMessage(since_midnight)
        IN  Contain([by |-> "clock", reply |-> given.reply, started |-> given.started,
                     ended |-> t], bytes, TimestampLength)
  BY DEF ReadTime
<1> DEFINE s == (t - given.day) % DWordSize
           bytes == IF given.reply THEN TimestampReply(Originate, s, s)
                    ELSE TimestampMessage(s)
           made_of == [by |-> "clock", reply |-> given.reply, started |-> given.started,
                       ended |-> t]
<1>2. t - given.day \in Int
  BY StackAssumption DEF Inv, ReadTime
<1>3. bytes \in Seq(Byte) /\ Len(bytes) = TimestampLength
  <2>1. s \in 0 .. DWordSize - 1
    BY <1>2, DWordSizes
  <2> HIDE DEF s
  <2> QED BY <2>1, TimestampIsBytes
<1>4. Contain(made_of, bytes, TimestampLength) /\ made_of.by = "clock"
  BY <1>1
<1> HIDE DEF bytes, made_of
<1>5. ContentsOK'
  BY <1>3, <1>4 DEF Contain, ContentsOK
<1>6. TimestampLength \in Nat
  BY DEF TimestampLength
<1> QED BY <1>3, <1>4, <1>5, <1>6, ContainInv DEF ReadTime

-----------------------------------------------------------------------------
(* A layer is put around the bytes.                                        *)
LEMMA WrapInv ==
  ASSUME Inv, NEW kind, NEW header \in Nat, NEW length \in Nat,
         Wrap(kind, header, length),
         kind \in {"UDP", "TCP", "ICMP", "IPv4", "Ethernet", "Data"},
         kind = "UDP" => length = size + header,
         kind = "IPv4" => length = (size + header) % WordSize
  PROVE  Inv'
<1> DEFINE h == [kind |-> kind, header |-> header, length |-> length]
<1>1. /\ phase = "building" /\ phase' = "building"
      /\ headers' = Append(headers, h) /\ size' = size + header
      /\ framed' = (framed \/ kind \in Framing)
      /\ UNCHANGED <<given, message, data>>
  BY DEF Wrap, contentsVars, Framing
<1>2. PICK f : Sizes(headers, data, f) /\ f[Len(headers)] = size
  BY <1>1 DEF Inv
<1>3. /\ headers \in Seq(Headers) /\ message \in Seq(Byte) /\ size \in Nat
      /\ data \in Nat /\ framed \in BOOLEAN /\ ContentsOK
      /\ framed => Marked(message, headers)
  BY <1>1 DEF Inv
<1>4. h \in Headers /\ h.kind = kind /\ HeaderFits(h, size, size + header)
  BY <1>3 DEF Headers, HeaderFits
<1> HIDE DEF h
<1>5. size + header \in Nat /\ headers' \in Seq(Headers)
  BY <1>1, <1>3, <1>4, AppendProperties
<1>6. \E g : Sizes(headers', data', g) /\ g[Len(headers')] = size'
  BY <1>1, <1>2, <1>3, <1>4, <1>5, SizesAppended
<1>7. framed' \in BOOLEAN /\ (framed' => Marked(message', headers'))
  <2>1. (framed \/ kind \in Framing) \in BOOLEAN
    OBVIOUS
  <2> QED BY <1>1, <1>3, <1>4, <2>1, MarkedAppended, Zenon
<1>8. ContentsOK'
  BY <1>1, <1>3 DEF ContentsOK
<1> QED BY <1>1, <1>3, <1>5, <1>6, <1>7, <1>8 DEF Inv

LEMMA BuildInv ==
  ASSUME Inv, BuildUDP \/ BuildTCP \/ BuildICMP \/ BuildIPv4 \/ BuildEthernet \/ BuildData
  PROVE  Inv'
<1>1. size \in Nat /\ WordSize \in Nat /\ WordSize > 0
  BY SmallWords DEF Inv
<1>2. CASE BuildUDP
  <2>1. size + 8 \in Nat /\ size + 8 < WordSize
    BY <1>1, <1>2 DEF BuildUDP, Counts, MaxUInt16
  <2>2. 0 \in Nat /\ 0 * WordSize + (size + 8) = size + 8
    BY <1>1
  <2>3. (size + 8) % WordSize = size + 8
    BY <1>1, <2>1, <2>2, DivUnique
  <2>4. Wrap("UDP", 8, size + 8)
    BY <1>2, <2>3 DEF BuildUDP
  <2> QED BY <2>1, <2>4, WrapInv
<1>3. CASE BuildTCP
  <2>1. PICK h \in HeaderLengths : Wrap("TCP", h, 0)
    BY <1>3 DEF BuildTCP
  <2>2. h \in Nat
    BY DEF HeaderLengths
  <2> QED BY <2>1, <2>2, WrapInv
<1>4. CASE BuildIPv4
  <2>1. PICK h \in HeaderLengths : Wrap("IPv4", h, (h + (size % WordSize)) % WordSize)
    BY <1>4 DEF BuildIPv4
  <2>2. h \in Nat
    BY DEF HeaderLengths
  <2>3. (h + (size % WordSize)) % WordSize = (h + size) % WordSize
    BY <1>1, <2>2, ModAdd
  <2>4. h + size = size + h /\ size + h \in Nat
    BY <1>1, <2>2
  <2>5. (size + h) % WordSize \in Nat
    BY <1>1, <2>4, DivMod
  <2> QED BY <2>1, <2>2, <2>3, <2>4, <2>5, WrapInv
<1>5. CASE BuildICMP \/ BuildEthernet \/ BuildData
  BY <1>5, WrapInv DEF BuildICMP, BuildEthernet, BuildData
<1> QED BY <1>2, <1>3, <1>4, <1>5

(* The program gives up, or the receiver does.                             *)
LEMMA StopInv ==
  ASSUME Inv, TooLarge \/ Reject \/ Incomplete
  PROVE  Inv'
<1>1. /\ phase \in {"building", "decoding"} /\ phase' \in Outcomes
      /\ UNCHANGED <<given, message, data, headers, size, framed>>
  BY DEF TooLarge, Reject, Incomplete, contentsVars, Outcomes
<1>2. phase' \notin {"contents", "clock", "building", "decoding"}
  BY <1>1 DEF Outcomes
<1> QED BY <1>1, <1>2 DEF Inv, ContentsOK

(* A link adds less than it may, and a capture lacks less than a word.     *)
LEMMA DeliverInv == Inv /\ Deliver => Inv'
<1> SUFFICES ASSUME Inv, Deliver PROVE Inv'
  OBVIOUS
<1>1. /\ phase = "building" /\ phase' = "decoding"
      /\ UNCHANGED <<given, message, data, headers, framed>>
  BY DEF Deliver, contentsVars
<1>2. PICK f : Sizes(headers, data, f) /\ f[Len(headers)] = size
  BY <1>1 DEF Inv
<1>3. size \in Nat /\ WordSize \in Nat /\ WordSize > 16
  BY SmallWords DEF Inv
<1>4. OnTheLink \in Nat /\ OnTheLink >= size
  BY <1>3, StackAssumption DEF OnTheLink
<1>5. size' \in Nat /\ size < size' + WordSize
  <2>1. CASE size' = OnTheLink
    BY <1>3, <1>4, <2>1
  <2>2. CASE \E n \in Cuts : n <= OnTheLink /\ size' = OnTheLink - n
    <3>1. PICK n \in Cuts : n <= OnTheLink /\ size' = OnTheLink - n
      BY <2>2
    <3>2. n \in 1 .. WordSize - 1
      BY StackAssumption
    <3> QED BY <1>3, <1>4, <3>1, <3>2
  <2> QED BY <2>1, <2>2 DEF Deliver
<1>6. framed => Marked(message, headers)
  BY <1>1 DEF Inv
<1>7. \E g : /\ Sizes(headers', data', g)
             /\ g[Len(headers')] < size' + WordSize
             /\ framed' => Marked(message', headers') \/ g[Len(headers')] = size'
  BY <1>1, <1>2, <1>5, <1>6
<1> QED BY <1>1, <1>5, <1>7 DEF Inv, ContentsOK

-----------------------------------------------------------------------------
(* What decodeFrom makes of the bytes in hand: with a length it finds the  *)
(* end of its payload, without one it keeps what is too much or too few.   *)
LEMMA PayloadIs ==
  ASSUME Inv, phase = "decoding", headers # <<>>, Accepted,
         NEW before \in Nat, NEW after \in Nat,
         Outer \in Headers, HeaderFits(Outer, before, after), after < size + WordSize
  PROVE  /\ Payload \in Nat /\ Payload + Outer.header <= size
         /\ before < Payload + WordSize
         /\ Outer.kind \in Framing \/ after = size => before = Payload
<1> DEFINE h == Outer.header
           l == Outer.length
<1>1. /\ size \in Nat /\ h \in Nat /\ l \in Nat /\ h <= size /\ after = before + h
      /\ WordSize \in Nat /\ WordSize > 0
  BY SmallWords DEF Inv, Headers, Accepted, HeaderFits
<1>2. CASE Outer.kind = "UDP"
  <2>1. l = after /\ l <= size /\ Payload = IF l > h THEN l - h ELSE 0
    BY <1>2 DEF HeaderFits, Accepted, Payload
  <2> HIDE DEF h, l
  <2>2. Payload = before /\ before + h <= size
    BY <1>1, <2>1
  <2> QED BY <1>1, <2>2 DEF h
<1>3. CASE Outer.kind = "IPv4"
  <2>1. l = after % WordSize /\ l = size /\ Payload = IF l > h THEN l - h ELSE 0
    BY <1>3 DEF HeaderFits, Accepted, TotalFits, Payload
  <2> HIDE DEF h, l
  <2>2. size = after
    BY <1>1, <2>1, RemainderIsExact
  <2>3. Payload = before /\ before + h <= size
    BY <1>1, <2>1, <2>2
  <2> QED BY <1>1, <2>3 DEF h
<1>4. CASE Outer.kind \notin Framing
  <2>1. Payload = IF size > h THEN size - h ELSE 0
    BY <1>4 DEF Payload, Framing
  <2> HIDE DEF h, l
  <2>2. Payload = size - h
    BY <1>1, <2>1
  <2> QED BY <1>1, <1>4, <2>2, SMTT(30) DEF h
<1> QED BY <1>2, <1>3, <1>4 DEF Framing

LEMMA DecodeStep ==
  ASSUME Inv, Decode
  PROVE  Inv' /\ size' + Outer.header <= size
<1>1. /\ phase = "decoding" /\ headers # <<>> /\ Accepted
      /\ headers' = SubSeq(headers, 1, Len(headers) - 1) /\ size' = Payload
      /\ UNCHANGED <<phase, given, message, data, framed>>
  BY DEF Decode, contentsVars
<1>2. PICK f : /\ Sizes(headers, data, f)
               /\ f[Len(headers)] < size + WordSize
               /\ framed => Marked(message, headers) \/ f[Len(headers)] = size
  BY <1>1 DEF Inv
<1> DEFINE n == Len(headers)
<1>3. headers \in Seq(Headers)
  BY DEF Inv
<1>4. /\ n \in Nat \ {0} /\ Outer \in Headers
      /\ f[n] \in Nat /\ f[n - 1] \in Nat
      /\ HeaderFits(Outer, f[n - 1], f[n])
      /\ headers' \in Seq(Headers) /\ Len(headers') = n - 1
      /\ \A k \in 1 .. n - 1 : headers'[k] = headers[k]
      /\ \E g : Sizes(headers', data, g) /\ g[Len(headers')] = f[n - 1]
  BY <1>1, <1>2, <1>3, SizesRemoved DEF Outer
<1>5. /\ Payload \in Nat /\ Payload + Outer.header <= size
      /\ f[n - 1] < Payload + WordSize
      /\ Outer.kind \in Framing \/ f[n] = size => f[n - 1] = Payload
  BY <1>1, <1>2, <1>4, PayloadIs
<1>6. framed => Marked(message, headers') \/ f[n - 1] = Payload
  <2> SUFFICES ASSUME framed, f[n - 1] # Payload PROVE Marked(message, headers')
    OBVIOUS
  <2>1. Marked(message, headers) /\ Outer.kind \notin Framing
    BY <1>2, <1>5
  <2> QED BY <1>4, <2>1, MarkedRemoved DEF Outer
<1>7. PICK g : Sizes(headers', data, g) /\ g[Len(headers')] = f[n - 1]
  BY <1>4
<1> HIDE DEF n
<1>8. /\ Sizes(headers', data', g)
      /\ g[Len(headers')] < size' + WordSize
      /\ framed' => Marked(message', headers') \/ g[Len(headers')] = size'
  BY <1>1, <1>5, <1>6, <1>7
<1>9. size' \in Nat /\ headers' \in Seq(Headers)
  BY <1>1, <1>4, <1>5
<1> QED BY <1>1, <1>5, <1>8, <1>9 DEF Inv, ContentsOK

(* When the headers are off, what a reader takes is what was sent, if      *)
(* anything said how much that is.                                         *)
LEMMA ReadTakes ==
  ASSUME Inv, phase = "decoding", headers = <<>>, MessageLength <= size
  PROVE  /\ MessageLength \in Nat
         /\ message = <<>> => MessageLength = size /\ (framed => size = data)
         /\ message # <<>> => MessageLength = data /\ Len(message) = data
<1>1. /\ ContentsOK /\ size \in Nat /\ data \in Nat /\ message \in Seq(Byte)
  BY DEF Inv
<1>2. framed /\ message = <<>> => size = data
  <2> SUFFICES ASSUME framed, message = <<>> PROVE size = data
    OBVIOUS
  <2>1. PICK f : /\ Sizes(headers, data, f)
                 /\ framed => Marked(message, headers) \/ f[Len(headers)] = size
    BY DEF Inv
  <2>2. Len(headers) = 0 /\ 1 .. 0 = {}
    OBVIOUS
  <2>3. ~Marked(message, headers)
    BY <2>2 DEF Marked
  <2> QED BY <2>1, <2>2, <2>3 DEF Sizes
<1>3. CASE given.by = "data" /\ message = <<>>
  BY <1>1, <1>2, <1>3 DEF MessageLength
<1>4. CASE given.by = "clock" /\ Len(message) = TimestampLength /\ data = TimestampLength
  <2>1. TimestampLength \in Nat /\ TimestampLength # 0 /\ Len(<<>>) = 0
    BY EmptySeq DEF TimestampLength
  <2>2. message # <<>>
    BY <1>4, <2>1
  <2> QED BY <1>1, <1>4, <2>1, <2>2 DEF MessageLength
<1>5. CASE /\ given.by = "ARP"
           /\ Len(message) = data /\ data >= 8 /\ data = ARPLength(message)
  <2>1. message # <<>>
    BY <1>5, EmptySeq
  <2>2. MessageLength = IF size < 8 THEN 8 ELSE ARPLength(Arrived)
    BY <1>5 DEF MessageLength
  <2>3. ~(size < 8)
    BY <1>1, <2>2
  <2>4. Arrived[5] = message[5] /\ Arrived[6] = message[6]
    BY <1>1, <1>5, <2>3 DEF Arrived
  <2>5. ARPLength(Arrived) = ARPLength(message)
    BY <2>4 DEF ARPLength
  <2> QED BY <1>1, <1>5, <2>1, <2>2, <2>3, <2>5
<1> QED BY <1>1, <1>3, <1>4, <1>5 DEF ContentsOK

LEMMA ReadInv == Inv /\ Read => Inv'
<1> SUFFICES ASSUME Inv, Read PROVE Inv'
  OBVIOUS
<1>1. /\ phase' = "decoded" /\ size' = MessageLength /\ MessageLength \in Nat
      /\ UNCHANGED <<given, message, data, headers, framed>>
  BY ReadTakes DEF Read, contentsVars
<1>2. phase' \in Outcomes /\ phase = "decoding"
  BY <1>1 DEF Read, Outcomes
<1> QED BY <1>1, <1>2 DEF Inv, ContentsOK

LEMMA StepInv == Inv /\ [Next]_stackVars => Inv'
<1>1. Inv /\ UNCHANGED stackVars => Inv'
  BY DEF Inv, ContentsOK, stackVars, contentsVars
<1> QED BY <1>1, SendDataInv, SendARPInv, ReadDayInv, ReadTimeInv, BuildInv,
           StopInv, DeliverInv, DecodeStep, ReadInv DEF Next

LEMMA InvHolds == Spec => []Inv
BY InitInv, StepInv, PTL DEF Spec

-----------------------------------------------------------------------------
(* No decodeFrom makes its payload out of more bytes than it was handed,   *)
(* less its header, whatever its length fields say.                        *)
THEOREM PayloadIsPartOfWhatCame == Spec => NothingIsMadeUp
<1>1. Inv /\ [Next]_stackVars =>
        [phase = "decoding" /\ headers' # headers => size' + Outer.header <= size]_stackVars
  <2> SUFFICES ASSUME Inv, Next, phase = "decoding", headers' # headers
               PROVE  size' + Outer.header <= size
    OBVIOUS
  <2>1. Decode
    BY DEF Next, SendData, SendARP, ReadDay, ReadTime, Contain, BuildUDP, BuildTCP,
           BuildICMP, BuildIPv4, BuildEthernet, BuildData, Wrap, TooLarge, Deliver,
           Reject, Read, Incomplete
  <2> QED BY <2>1, DecodeStep
<1> QED BY <1>1, InvHolds, PTL DEF Spec, NothingIsMadeUp

-----------------------------------------------------------------------------
(* What the contents say, and that nothing behind them is taken for them   *)
SinceMidnight == (given.ended - StartOfDay(given.started)) % DWordSize

Genuine ==
  /\ phase = "clock" => given.day = StartOfDay(given.started) /\ given.started \in Nat
  /\ phase \notin {"contents", "clock"} =>
       /\ given.by = "ARP" => ReadARP(message) = given.packet /\ message # <<>>
       /\ given.by = "clock" =>
            /\ given.started \in Nat /\ given.ended \in Nat /\ message # <<>>
            /\ \A at \in Stamps : CombineBytes4(message, at) = SinceMidnight
  /\ phase = "decoded" /\ message # <<>> => Arrived = message

LEMMA InitGenuine == Init => Genuine
BY DEF Init, Genuine

LEMMA SendARPGenuine == SendARP => Genuine'
<1> SUFFICES ASSUME SendARP PROVE Genuine'
  OBVIOUS
<1>1. PICK a \in ARPs :
        LET bytes == BuildARP(Constructed(a))
        IN  Contain([by |-> "ARP", packet |-> a.given], bytes, Len(bytes))
  BY DEF SendARP
<1> DEFINE bytes == BuildARP(Constructed(a))
<1>2. bytes # <<>> /\ ReadARP(bytes) = a.given
  BY ARPIsBytes, ARPIsRead, EmptySeq
<1>3. given' = [by |-> "ARP", packet |-> a.given] /\ message' = bytes /\ phase' = "building"
  BY <1>1 DEF Contain
<1> HIDE DEF bytes
<1> QED BY <1>2, <1>3 DEF Genuine

LEMMA ReadDayGenuine == ReadDay => Genuine'
<1> SUFFICES ASSUME ReadDay PROVE Genuine'
  OBVIOUS
<1>1. PICK t \in Clocks, reply \in BOOLEAN :
        given' = [by |-> "clock", reply |-> reply, started |-> t, day |-> StartOfDay(t)]
  BY DEF ReadDay
<1>2. t \in Nat /\ phase' = "clock"
  BY StackAssumption DEF ReadDay
<1> QED BY <1>1, <1>2 DEF Genuine

LEMMA ReadTimeGenuine == Inv /\ Genuine /\ ReadTime => Genuine'
<1> SUFFICES ASSUME Inv, Genuine, ReadTime PROVE Genuine'
  OBVIOUS
<1>1. PICK t \in Clocks :
        LET since_midnight == (t - given.day) % DWordSize
            bytes == IF given.reply
                     THEN TimestampReply(Originate, since_midnight, since_midnight)
                     ELSE TimestampMessage(since_midnight)
        IN  Contain([by |-> "clock", reply |-> given.reply, started |-> given.started,
                     ended |-> t], bytes, TimestampLength)
  BY DEF ReadTime
<1> DEFINE s == (t - given.day) % DWordSize
           bytes == IF given.reply THEN TimestampReply(Originate, s, s)
                    ELSE TimestampMessage(s)
<1>2. t - given.day \in Int /\ t \in Nat /\ phase = "clock"
  BY StackAssumption DEF Inv, ReadTime
<1>3. given.started \in Nat /\ given.day = StartOfDay(given.started)
  BY <1>2 DEF Genuine
<1>4. /\ given' = [by |-> "clock", reply |-> given.reply, started |-> given.started,
                   ended |-> t]
      /\ message' = bytes /\ phase' = "building"
  BY <1>1 DEF Contain
<1>5. s \in 0 .. DWordSize - 1
  BY <1>2, DWordSizes
<1>6. /\ Len(bytes) = TimestampLength
      /\ \A at \in IF given.reply THEN {5, 9} ELSE {1} : CombineBytes4(bytes, at) = s
  <2> HIDE DEF s
  <2> QED BY <1>5, TimestampIsBytes
<1>7. SinceMidnight' = s /\ Stamps' = IF given.reply THEN {5, 9} ELSE {1}
  BY <1>3, <1>4 DEF SinceMidnight, Stamps
<1>8. given'.started \in Nat /\ given'.ended \in Nat /\ given'.by = "clock"
  BY <1>2, <1>3, <1>4
<1> HIDE DEF s, bytes
<1>9. message' # <<>>
  BY <1>4, <1>6, EmptySeq, SMTT(30) DEF TimestampLength
<1>10. \A at \in Stamps' : CombineBytes4(message', at) = SinceMidnight'
  BY <1>4, <1>6, <1>7
<1> QED BY <1>4, <1>8, <1>9, <1>10 DEF Genuine

(* A reader that takes as much as the message says has the message.        *)
LEMMA ReadArrives ==
  ASSUME Inv, Read, message # <<>>
  PROVE  Arrived' = message
<1>1. size' = Len(message) /\ message' = message
  BY ReadTakes DEF Read, contentsVars
<1>2. Arrived' = [j \in 1 .. Len(message) |->
                    IF j <= Len(message) THEN message[j] ELSE 0]
  BY <1>1 DEF Arrived
<1>3. message \in Seq(Byte)
  BY DEF Inv
<1> QED BY <1>2, <1>3

LEMMA StepGenuine == Inv /\ Genuine /\ [Next]_stackVars => Genuine'
<1> SUFFICES ASSUME Inv, Genuine, [Next]_stackVars PROVE Genuine'
  OBVIOUS
<1>1. CASE SendData
  <2>1. given'.by = "data" /\ phase' = "building"
    BY <1>1 DEF SendData, Contain
  <2> QED BY <2>1 DEF Genuine
<1>2. CASE \/ BuildUDP \/ BuildTCP \/ BuildICMP \/ BuildIPv4 \/ BuildEthernet \/ BuildData
           \/ Deliver \/ Decode \/ TooLarge \/ Reject \/ Incomplete
  <2>1. /\ phase \in {"building", "decoding"}
        /\ phase' \in {"building", "decoding", "runtime_error", "invalid_argument",
                       "incomplete"}
        /\ given' = given /\ message' = message
    BY <1>2 DEF BuildUDP, BuildTCP, BuildICMP, BuildIPv4, BuildEthernet, BuildData,
                Wrap, Deliver, Decode, TooLarge, Reject, Incomplete, contentsVars
  <2> QED BY <2>1 DEF Genuine, SinceMidnight, Stamps
<1>3. CASE Read
  <2>1. /\ phase = "decoding" /\ phase' = "decoded"
        /\ given' = given /\ message' = message
    BY <1>3 DEF Read, contentsVars
  <2>2. message' # <<>> => Arrived' = message'
    BY <1>3, <2>1, ReadArrives
  <2> QED BY <2>1, <2>2 DEF Genuine, SinceMidnight, Stamps
<1>4. CASE UNCHANGED stackVars
  BY <1>4 DEF stackVars, contentsVars, Genuine, SinceMidnight, Stamps, Arrived
<1> QED BY <1>1, <1>2, <1>3, <1>4, SendARPGenuine, ReadDayGenuine, ReadTimeGenuine DEF Next

LEMMA GenuineHolds == Spec => []Genuine
BY InvHolds, InitGenuine, StepGenuine, PTL DEF Spec

(* Every field of an ARP packet that arrives is what the program gave,     *)
(* whichever class made the packet, under layers in any order and number,  *)
(* with addresses of any length and whatever the link put behind it.       *)
THEOREM ARPFieldsArrive == Spec => []ARPReadsBack
<1>1. Genuine => ARPReadsBack
  BY DEF Genuine, ARPReadsBack
<1> QED BY <1>1, GenuineHolds, PTL

(* A timestamp that arrives names the instant of the second reading of the *)
(* clock, for clocks and days of any length, although the day was read     *)
(* first: as long as the clock does not go back to the day before, or on   *)
(* by more milliseconds than 32 bits hold.                                 *)
THEOREM TimestampsNameTheInstant == Spec => []TimestampNamesTheInstant
<1>1. Genuine => TimestampNamesTheInstant
  <2> DEFINE midnight == (given.started \div Day) * Day
  <2> SUFFICES ASSUME Genuine, phase = "decoded", given.by = "clock",
                      given.ended >= midnight, given.ended < midnight + DWordSize,
                      NEW at \in Stamps
               PROVE  midnight + CombineBytes4(Arrived, at) = given.ended
    BY DEF TimestampNamesTheInstant
  <2>1. /\ given.started \in Nat /\ given.ended \in Nat /\ Arrived = message
        /\ CombineBytes4(message, at) = SinceMidnight
    BY DEF Genuine
  <2>2. midnight = StartOfDay(given.started)
    BY DEF StartOfDay
  <2>3. midnight \in Nat
    <3>1. Day \in Nat /\ Day > 0
      BY StackAssumption, DWordSizes
    <3>2. given.started \div Day \in Nat
      BY <2>1, <3>1, DivMod
    <3> QED BY <3>1, <3>2
  <2> DEFINE s == given.ended - midnight
  <2>4. SinceMidnight = s % DWordSize
    BY <2>2 DEF SinceMidnight
  <2> HIDE DEF midnight
  <2>5. s \in Nat /\ s < DWordSize /\ midnight + s = given.ended
    BY <2>1, <2>3, DWordSizes
  <2> HIDE DEF s
  <2>6. s % DWordSize = s
    <3>1. 0 \in Nat /\ 0 * DWordSize + s = s
      BY <2>5, DWordSizes
    <3> QED BY <2>5, <3>1, DWordSizes, DivUnique
  <2> QED BY <2>1, <2>4, <2>5, <2>6
<1> QED BY <1>1, GenuineHolds, PTL

-----------------------------------------------------------------------------
(* The layers as a channel                                                 *)
LEMMA OutcomeIs ==
  /\ OutcomeOf("contents") = "idle" /\ OutcomeOf("clock") = "idle"
  /\ OutcomeOf("building") = "pending" /\ OutcomeOf("decoding") = "pending"
  /\ OutcomeOf("decoded") = "delivered"
  /\ \A p \in Outcomes \ {"decoded"} : OutcomeOf(p) = "reported"
BY DEF OutcomeOf, Outcomes

LEMMA RefinesInit == Init => Abstract!Init
<1> SUFFICES ASSUME Init PROVE Abstract!Init
  OBVIOUS
<1>1. <<>> \in Seq(Byte)
  BY EmptySeq
<1> QED BY <1>1, OutcomeIs DEF Init, Abstract!Init, sent, received, outcome

LEMMA SendRefines ==
  ASSUME Inv, phase \in {"contents", "clock"}, NEW made_of, NEW bytes, NEW n,
         Contain(made_of, bytes, n), Inv'
  PROVE  Abstract!Send
<1>1. /\ phase' = "building" /\ message' \in Seq(Byte) /\ data' \in Nat
      /\ framed' \in BOOLEAN
  BY DEF Contain, Inv
<1>2. sent' \in [bytes : Seq(Byte), size : Nat]
  BY <1>1 DEF sent
<1>3. received' = sent' /\ outcome = "idle" /\ outcome' = "pending"
  BY <1>1, OutcomeIs DEF received, outcome, sent
<1> QED BY <1>1, <1>2, <1>3 DEF Abstract!Send

LEMMA WrapRefines ==
  ASSUME Inv, Inv', NEW kind, NEW header, NEW length, Wrap(kind, header, length)
  PROVE  Abstract!Frame \/ UNCHANGED Abstract!channelVars
<1>1. /\ phase = "building" /\ phase' = "building" /\ UNCHANGED <<message, data>>
      /\ framed \in BOOLEAN /\ framed' \in BOOLEAN /\ (framed => framed')
  BY DEF Wrap, contentsVars, Inv
<1>2. outcome = "pending" /\ UNCHANGED <<sent, outcome, received>>
  BY <1>1, OutcomeIs DEF sent, outcome, received
<1> QED BY <1>1, <1>2 DEF Abstract!Frame, Abstract!channelVars

LEMMA ReadRefines == Inv /\ Read => Abstract!Deliver
<1> SUFFICES ASSUME Inv, Read PROVE Abstract!Deliver
  OBVIOUS
<1>1. /\ phase = "decoding" /\ phase' = "decoded" /\ headers = <<>>
      /\ MessageLength <= size /\ size' = MessageLength
      /\ UNCHANGED <<message, data, framed>>
  BY DEF Read, contentsVars
<1>2. /\ size' \in Nat
      /\ message = <<>> => (framed => size' = data)
      /\ message # <<>> => size' = data /\ Len(message) = data
  BY <1>1, ReadTakes
<1>3. message \in Seq(Byte)
  BY DEF Inv
<1>4. outcome = "pending" /\ outcome' = "delivered" /\ sent' = sent
  BY <1>1, OutcomeIs DEF outcome, sent
<1>5. received' = [bytes |-> IF message = <<>> THEN <<>> ELSE Arrived', size |-> size']
  BY <1>1 DEF received
<1>6. message # <<>> => Arrived' = message
  BY ReadArrives
<1>7. received' = [bytes |-> message, size |-> size']
  BY <1>5, <1>6
<1>8. received' \in [bytes : Seq(Byte), size : Nat]
  BY <1>2, <1>3, <1>7
<1>9. framed => received' = sent
  BY <1>2, <1>7 DEF sent
<1> QED BY <1>1, <1>4, <1>8, <1>9 DEF Abstract!Deliver

LEMMA StopRefines ==
  ASSUME TooLarge \/ Reject \/ Incomplete
  PROVE  Abstract!Report
<1>1. /\ phase \in {"building", "decoding"}
      /\ phase' \in {"runtime_error", "invalid_argument", "incomplete"}
      /\ UNCHANGED <<message, data, framed>>
  BY DEF TooLarge, Reject, Incomplete, contentsVars
<1>2. phase' \in Outcomes \ {"decoded"} /\ phase # "decoded"
  BY <1>1 DEF Outcomes
<1>3. /\ outcome = "pending" /\ outcome' = "reported"
      /\ UNCHANGED <<sent, received>>
  BY <1>1, <1>2, OutcomeIs DEF outcome, sent, received
<1> QED BY <1>1, <1>3 DEF Abstract!Report

LEMMA OtherRefines ==
  ASSUME Inv, ReadDay \/ Deliver \/ Decode \/ UNCHANGED stackVars
  PROVE  UNCHANGED Abstract!channelVars
<1>1. CASE ReadDay
  <2>1. /\ phase = "contents" /\ phase' = "clock" /\ UNCHANGED <<message, data, framed>>
    BY <1>1 DEF ReadDay
  <2> QED BY <2>1, OutcomeIs DEF Abstract!channelVars, sent, received, outcome
<1>2. CASE Deliver \/ Decode
  <2>1. /\ phase \in {"building", "decoding"} /\ phase' = "decoding"
        /\ UNCHANGED <<message, data, framed>>
    BY <1>2 DEF Deliver, Decode, contentsVars
  <2> QED BY <2>1, OutcomeIs DEF Abstract!channelVars, sent, received, outcome
<1>3. CASE UNCHANGED stackVars
  <2>1. UNCHANGED <<phase, message, data, framed, size>>
    BY <1>3 DEF stackVars, contentsVars
  <2> QED BY <2>1, OutcomeIs DEF Abstract!channelVars, sent, received, outcome, Arrived
<1> QED BY <1>1, <1>2, <1>3

LEMMA RefinesStep ==
  Inv /\ Inv' /\ [Next]_stackVars => [Abstract!Next]_Abstract!channelVars
<1> SUFFICES ASSUME Inv, Inv', [Next]_stackVars
             PROVE  Abstract!Next \/ UNCHANGED Abstract!channelVars
  OBVIOUS
<1>1. CASE SendData \/ SendARP \/ ReadTime
  <2>1. /\ phase \in {"contents", "clock"}
        /\ \E made_of, bytes, n : Contain(made_of, bytes, n)
    BY <1>1 DEF SendData, SendARP, ReadTime
  <2> QED BY <2>1, SendRefines DEF Abstract!Next
<1>2. CASE BuildUDP \/ BuildTCP \/ BuildICMP \/ BuildIPv4 \/ BuildEthernet \/ BuildData
  <2>1. \E kind, header, length : Wrap(kind, header, length)
    BY <1>2 DEF BuildUDP, BuildTCP, BuildICMP, BuildIPv4, BuildEthernet, BuildData
  <2> QED BY <2>1, WrapRefines DEF Abstract!Next
<1>3. CASE Read
  BY <1>3, ReadRefines DEF Abstract!Next
<1>4. CASE TooLarge \/ Reject \/ Incomplete
  BY <1>4, StopRefines DEF Abstract!Next
<1>5. CASE ReadDay \/ Deliver \/ Decode \/ UNCHANGED stackVars
  BY <1>5, OtherRefines
<1> QED BY <1>1, <1>2, <1>3, <1>4, <1>5 DEF Next

(* Layers in any order and number, around any contents, deliver these as   *)
(* they were sent or report a failure, as soon as UDP, IPv4 or the         *)
(* contents say how long they are: although lengths wrap in build, links   *)
(* pad and captures are cut short.                                         *)
THEOREM LayersAreAChannel == Spec => Abstract!Safety
<1>1. Inv /\ [Next]_stackVars => [Abstract!Next]_Abstract!channelVars
  BY StepInv, RefinesStep
<1> QED BY <1>1, RefinesInit, InvHolds, PTL DEF Spec, Abstract!Safety
=============================================================================
