--------------------------- MODULE TCPCodecProofs ---------------------------
(***************************************************************************)
(* Proofs about TCPDecode.tla and TCPCodec.tla, for every segment and      *)
(* every packet.  First decodeFrom alone: types, that the option loop      *)
(* stays inside the header it was told of, and that no byte belongs to two *)
(* options.  Unlike in IPv4, the loop may end exactly with the header, so  *)
(* that a kind byte may be its last byte, and no length byte is read       *)
(* behind that one.  Then a packet on its way through build and            *)
(* decodeFrom: the invariant says which bytes each option became, and, for *)
(* options that carry their length, that the decoder stands before the NOP *)
(* or the kind of one of them, or behind the last.                         *)
(***************************************************************************)
EXTENDS TCPCodec, Lemmas

FreshCursor == decoding = "header" => option_start = 20

Inv == TypeOK /\ StaysInHeader /\ FreshCursor /\ OptionsDisjoint

PacketsOver(S) == [opts : S, payload : Nat]

(* The numbers of the type invariant, with no sequence in sight            *)
LEMMA Numbers ==
  ASSUME Inv
  PROVE  /\ wire.data_offset \in 0 .. 15 /\ wire.size \in Nat
         /\ option_start \in 20 .. 60
<1>1. wire \in Wires /\ option_start \in 20 .. 60
  BY DEF Inv, TypeOK, WellFormed
<1> QED BY <1>1 DEF Wires

LEMMA AreaIsBytes == ASSUME Inv PROVE wire.area \in Seq(UInt8)
<1>1. wire \in Wires
  BY DEF Inv, TypeOK, WellFormed
<1> QED BY <1>1 DEF Wires

(* Changing one part of a packet keeps the other.                          *)
LEMMA SetParts ==
  ASSUME NEW S, NEW g \in PacketsOver(S), NEW o \in S, NEW n \in Nat
  PROVE  /\ g.opts \in S
         /\ [g EXCEPT !.opts = o].opts = o /\ [g EXCEPT !.payload = n].opts = g.opts
         /\ [g EXCEPT !.opts = o].payload = g.payload
         /\ [g EXCEPT !.payload = n].payload = n
         /\ [g EXCEPT !.opts = o] \in PacketsOver(S)
         /\ [g EXCEPT !.payload = n] \in PacketsOver(S)
BY DEF PacketsOver

(* A byte of the header behind its first twenty, wherever the loop has     *)
(* come to: At never leaves the area.                                      *)
LEMMA HeaderByte ==
  ASSUME Inv, decoding = "options", NEW o \in 20 .. header_length - 1
  PROVE  At(o) \in UInt8
<1>1. wire.data_offset \in 0 .. 15 /\ wire.size \in Nat
  BY Numbers
<1>2. header_length \in Nat /\ 20 <= header_length /\ header_length <= wire.size
  BY <1>1 DEF Inv, StaysInHeader, header_length
<1>3. header_length - 20 <= Len(wire.area)
  BY <1>2 DEF Inv, TypeOK, WellFormed, header_length
<1>4. wire.area \in Seq(UInt8) /\ Len(wire.area) \in Nat
  BY AreaIsBytes, LenProperties
<1>5. o - 19 \in 1 .. Len(wire.area)
  BY <1>2, <1>3, <1>4
<1> QED BY <1>4, <1>5, ElementOfSeq DEF At

(* Where a pass of the loop stands                                         *)
LEMMA LoopBounds ==
  ASSUME Inv, MoreOptions
  PROVE  /\ decoding = "options" /\ header_length \in 20 .. 60
         /\ header_length <= wire.size
         /\ option_start \in 20 .. header_length - 1
         /\ option_kind \in UInt8
<1>1. /\ decoding = "options" /\ option_start < header_length
      /\ header_length <= wire.size
  BY DEF MoreOptions, Inv, StaysInHeader
<1>2. wire.data_offset \in 0 .. 15 /\ option_start \in 20 .. 60
  BY Numbers
<1>3. header_length \in 20 .. 60 /\ option_start \in 20 .. header_length - 1
  BY <1>1, <1>2 DEF header_length
<1> QED BY <1>1, <1>3, HeaderByte DEF option_kind

(* An option is taken: its length byte and all its data are header bytes.  *)
LEMMA OptionTaken ==
  ASSUME Inv, TakeOption
  PROVE  /\ option_data \in Seq(UInt8)
         /\ option_start' \in option_start + 2 .. header_length
         /\ option_start' = option_start + (2 + Len(option_data))
<1>1. /\ MoreOptions /\ ~(option_start = header_length - 1)
      /\ ~(option_length < 2) /\ option_start + option_length <= header_length
      /\ option_start' = option_start + option_length
  BY DEF TakeOption, LengthMissing, TooShort, FitsHeader, NextOption
<1>2. /\ decoding = "options" /\ header_length \in 20 .. 60
      /\ option_start \in 20 .. header_length - 1
  BY <1>1, LoopBounds
<1>3. option_length \in 0 .. 255
  <2>1. option_start + 1 \in 20 .. header_length - 1
    BY <1>1, <1>2
  <2> QED BY <1>2, <2>1, HeaderByte DEF option_length, UInt8
<1> DEFINE m == option_start - 17
           n == option_start + option_length - 20
<1>4. /\ m \in Int /\ n \in Int /\ m >= 3 /\ n + 20 <= header_length
      /\ header_length \in Nat
      /\ (IF m <= n THEN n - m + 1 ELSE 0) = option_length - 2
  BY <1>1, <1>2, <1>3
<1> HIDE DEF m, n
<1>5. \A o \in m .. n : wire.area[o] \in UInt8
  <2> SUFFICES ASSUME NEW o \in m .. n PROVE wire.area[o] \in UInt8
    OBVIOUS
  <2>1. o + 19 \in 20 .. header_length - 1 /\ (o + 19) - 19 = o
    BY <1>4
  <2>2. wire.area[(o + 19) - 19] \in UInt8
    BY <1>2, <2>1, HeaderByte DEF At
  <2> QED BY <2>1, <2>2
<1>6. option_data \in Seq(UInt8) /\ Len(option_data) = option_length - 2
  <2>1. /\ SubSeq(wire.area, m, n) \in Seq(UInt8)
        /\ Len(SubSeq(wire.area, m, n)) = IF m <= n THEN n - m + 1 ELSE 0
    BY <1>4, <1>5, SubSeqProperties
  <2> QED BY <1>4, <2>1 DEF option_data, m, n
<1>7. option_start' \in option_start + 2 .. header_length
  BY <1>1, <1>2, <1>3
<1>8. option_start' = option_start + (2 + Len(option_data))
  BY <1>1, <1>2, <1>3, <1>6
<1> QED BY <1>6, <1>7, <1>8

(* The size of the options, as numbers that are added                      *)
LEMMA SizesAre ==
  ASSUME NEW s \in Seq(Options)
  PROVE  LET w == [j \in 1 .. Len(s) |-> 2 + Len(s[j].value)]
         IN  Len(w) = Len(s) /\ \A j \in 1 .. Len(s) : w[j] \in Nat
<1>1. Len(s) \in Nat /\ \A j \in 1 .. Len(s) : s[j] \in Options
  BY LenProperties, ElementOfSeq
<1>2. \A o \in Options : Len(o.value) \in Nat
  BY LenProperties DEF Options
<1>3. \A j \in 1 .. Len(s) : 2 + Len(s[j].value) \in Nat
  BY <1>1, <1>2
<1> QED BY <1>1, <1>3

LEMMA SizeAppended ==
  ASSUME NEW s \in Seq(Options), NEW o \in Options
  PROVE  /\ TotalSize(s) \in Nat
         /\ TotalSize(Append(s, o)) = TotalSize(s) + (2 + Len(o.value))
<1> DEFINE n == Len(s)
           t == Append(s, o)
           w == [j \in 1 .. Len(s) |-> 2 + Len(s[j].value)]
           v == [j \in 1 .. Len(t) |-> 2 + Len(t[j].value)]
<1>1. /\ n \in Nat /\ t \in Seq(Options) /\ Len(t) = n + 1 /\ t[n + 1] = o
      /\ \A j \in 1 .. n : t[j] = s[j]
  BY AppendProperties, LenProperties
<1> HIDE DEF t
<1>2. /\ Len(w) = n /\ \A j \in 1 .. n : w[j] \in Nat
      /\ Len(v) = Len(t) /\ \A j \in 1 .. Len(t) : v[j] \in Nat
  BY <1>1, SizesAre
<1>3. v[n + 1] = 2 + Len(o.value) /\ \A j \in 1 .. n : v[j] = w[j]
  BY <1>1
<1>4. TotalSize(s) = Total(w) /\ TotalSize(t) = Total(v)
  BY DEF TotalSize
<1> HIDE DEF n, w, v
<1>5. Len(v) = n + 1 /\ \A j \in 1 .. n + 1 : v[j] \in Nat
  BY <1>1, <1>2
<1>6. Total(w) \in Nat /\ Total(v) = Total(w) + v[n + 1]
  <2>1. n \in Nat /\ Len(w) = n /\ \A j \in 1 .. n : w[j] \in Nat
    BY <1>1, <1>2
  <2>2. \A j \in 1 .. n : v[j] = w[j]
    BY <1>3
  <2> QED BY <1>5, <2>1, <2>2, TotalAppended, ZenonT(30)
<1> QED BY <1>3, <1>4, <1>6 DEF t

LEMMA NoSize == TotalSize(<<>>) = 0
<1> DEFINE w == [j \in 1 .. Len(<<>>) |-> 2 + Len(<<>>[j].value)]
<1>1. Len(w) = 0 /\ \A j \in 1 .. 0 : w[j] \in Nat
  BY EmptySeq
<1>2. TotalSize(<<>>) = SumsUpTo(w)[Len(w)]
  BY DEF TotalSize, Total
<1> HIDE DEF w
<1>3. SumsUpTo(w)[0] = 0
  BY <1>1, SumsAre
<1> QED BY <1>1, <1>2, <1>3

-----------------------------------------------------------------------------
LEMMA StartsInvariant ==
  ASSUME WellFormed(wire), decoding = "header", option_start = 20,
         got = EmptyPacket
  PROVE  Inv
<1>1. EmptyPacket \in [opts : Seq(Options), payload : Nat] /\ got.opts = <<>>
  <2>1. <<>> \in Seq(Options)
    OBVIOUS
  <2> QED BY <2>1 DEF EmptyPacket
<1>2. option_start \in 20 .. 60 /\ decoding # "options"
  OBVIOUS
<1>3. OptionsDisjoint
  BY <1>1, NoSize DEF OptionsDisjoint
<1> QED BY <1>1, <1>2, <1>3 DEF Inv, TypeOK, StaysInHeader, FreshCursor

LEMMA InitInv == Init => Inv
BY SegmentsAssumption, StartsInvariant DEF Init, Start

(* The invariant, put together again after a step of which the parts are   *)
(* known                                                                   *)
LEMMA PutTogether ==
  ASSUME Inv, wire' = wire,
         decoding' \in {"header", "options"} \cup Outcomes,
         option_start' \in 20 .. 60,
         got' \in PacketsOver(Seq(Options)),
         StaysInHeader', FreshCursor', OptionsDisjoint'
  PROVE  Inv'
BY DEF Inv, TypeOK, WellFormed, PacketsOver

LEMMA SameOptions ==
  ASSUME Inv, got'.opts = got.opts, option_start' = option_start
  PROVE  OptionsDisjoint'
BY DEF Inv, OptionsDisjoint

LEMMA StepInv == Inv /\ [Next]_decodeVars => Inv'
<1> SUFFICES ASSUME Inv, [Next]_decodeVars PROVE Inv'
  OBVIOUS
<1>0. /\ got \in PacketsOver(Seq(Options)) /\ option_start \in 20 .. 60
      /\ wire.data_offset \in 0 .. 15 /\ wire.size \in Nat
  BY Numbers DEF Inv, TypeOK, PacketsOver
<1>1. CASE RejectHeader \/ OptionLengthRequired \/ OptionTooLong \/ ReversedRange
  <2>1. /\ UNCHANGED <<wire, option_start, got>>
        /\ decoding' \in {"invalid_argument", "length_error"}
    BY <1>1 DEF RejectHeader, OptionLengthRequired, OptionTooLong, ReversedRange
  <2>2. StaysInHeader' /\ FreshCursor' /\ decoding' \in Outcomes
    BY <2>1 DEF StaysInHeader, FreshCursor, Outcomes
  <2> QED BY <1>0, <2>1, <2>2, SameOptions, PutTogether
<1>2. CASE AcceptHeader
  <2>1. /\ UNCHANGED <<wire, option_start, got>> /\ decoding' = "options"
        /\ decoding = "header"
        /\ ~(header_length < 20) /\ ~(header_length > wire.size)
    BY <1>2 DEF AcceptHeader, HeaderRejected
  <2>2. option_start = 20
    BY <2>1 DEF Inv, FreshCursor
  <2>3. header_length' = header_length /\ header_length \in Nat
    BY <1>0, <2>1 DEF header_length
  <2>4. header_length <= wire.size /\ 20 <= header_length
    BY <1>0, <2>1, <2>3
  <2>5. StaysInHeader' /\ FreshCursor'
    BY <2>1, <2>2, <2>3, <2>4 DEF StaysInHeader, FreshCursor
  <2> QED BY <1>0, <2>1, <2>5, SameOptions, PutTogether
<1>3. CASE SkipNOP \/ TakeOption
  <2>1. MoreOptions /\ UNCHANGED <<wire, decoding>>
    BY <1>3 DEF SkipNOP, TakeOption
  <2>2. /\ decoding = "options" /\ header_length \in 20 .. 60
        /\ header_length <= wire.size
        /\ option_start \in 20 .. header_length - 1 /\ option_kind \in UInt8
    BY <2>1, LoopBounds
  <2>7. TotalSize(got.opts) <= option_start - 20 /\ TotalSize(got.opts) \in Nat
    <3>1. got.opts \in Seq(Options)
      BY <1>0 DEF PacketsOver
    <3>2. [kind |-> NOP, value |-> <<>>] \in Options
      BY DEF Options, NOP, UInt8
    <3> QED BY <3>1, <3>2, SizeAppended DEF Inv, OptionsDisjoint
  <2>3. /\ option_start' \in option_start + 1 .. header_length
        /\ got' \in PacketsOver(Seq(Options))
        /\ TotalSize(got'.opts) <= option_start' - 20
    <3>1. CASE SkipNOP
      <4>1. option_start' = option_start + 1 /\ got' = got
        BY <3>1 DEF SkipNOP, BehindNOP
      <4> QED BY <1>0, <2>2, <2>7, <4>1
    <3>2. CASE TakeOption
      <4> DEFINE o == [kind |-> option_kind, value |-> option_data]
      <4>1. o \in Options
        BY <2>2, <3>2, OptionTaken DEF Options
      <4>2. got' = [got EXCEPT !.opts = Append(got.opts, o)]
        BY <3>2 DEF TakeOption
      <4> HIDE DEF o
      <4>3. got.opts \in Seq(Options)
        BY <1>0 DEF PacketsOver
      <4>4. Append(got.opts, o) \in Seq(Options)
        BY <4>1, <4>3, AppendProperties
      <4>5. got' \in PacketsOver(Seq(Options))
        BY <1>0, <4>2, <4>4, SetParts
      <4>6. option_start' \in option_start + 2 .. header_length
        BY <3>2, OptionTaken
      <4>7. option_start' \in option_start + 1 .. header_length
        BY <2>2, <4>6
      <4>8. got'.opts = Append(got.opts, o)
        BY <1>0, <4>2, <4>4, SetParts
      <4>9. TotalSize(got'.opts) = TotalSize(got.opts) + (2 + Len(option_data))
        BY <4>1, <4>3, <4>8, SizeAppended DEF o
      <4>10. option_start' = option_start + (2 + Len(option_data))
             /\ Len(option_data) \in Nat
        BY <3>2, OptionTaken, LenProperties
      <4>11. TotalSize(got'.opts) <= option_start' - 20
        BY <2>2, <2>7, <4>9, <4>10
      <4> QED BY <4>5, <4>7, <4>11
    <3> QED BY <1>3, <3>1, <3>2
  <2>4. option_start' \in 20 .. 60 /\ option_start' <= header_length
    BY <2>2, <2>3
  <2>5. header_length' = header_length
    BY <2>1 DEF header_length
  <2>6. StaysInHeader' /\ FreshCursor'
    BY <2>1, <2>2, <2>4, <2>5 DEF StaysInHeader, FreshCursor
  <2>8. OptionsDisjoint'
    BY <2>3 DEF OptionsDisjoint
  <2> QED BY <2>1, <2>2, <2>3, <2>4, <2>6, <2>8, PutTogether
<1>4. CASE TakePayload
  <2>1. /\ decoding = "options" /\ decoding' = "decoded"
        /\ UNCHANGED <<wire, option_start>>
        /\ got' = [got EXCEPT !.payload = wire.size - header_length]
    BY <1>4 DEF TakePayload, PayloadSize
  <2>2. header_length <= wire.size
    BY <2>1 DEF Inv, StaysInHeader
  <2>3. wire.size - header_length \in Nat
    <3>1. wire.data_offset * 4 \in Nat /\ wire.size \in Nat
      BY <1>0
    <3>2. wire.data_offset * 4 <= wire.size
      BY <2>2 DEF header_length
    <3> QED BY <3>1, <3>2 DEF header_length
  <2>4. got.opts \in Seq(Options)
    BY <1>0 DEF PacketsOver
  <2>5. got' \in PacketsOver(Seq(Options))
    BY <1>0, <2>1, <2>3, <2>4, SetParts
  <2>6. StaysInHeader' /\ FreshCursor' /\ decoding' \in Outcomes
    BY <2>1 DEF StaysInHeader, FreshCursor, Outcomes
  <2>7. got'.opts = got.opts
    BY <1>0, <2>1, <2>3, <2>4, SetParts
  <2> QED BY <1>0, <2>1, <2>5, <2>6, <2>7, SameOptions, PutTogether
<1>5. CASE UNCHANGED decodeVars
  <2>1. UNCHANGED <<wire, option_start, got, decoding>>
    BY <1>5 DEF decodeVars
  <2>2. StaysInHeader' /\ FreshCursor'
    BY <2>1 DEF Inv, StaysInHeader, header_length, FreshCursor
  <2>3. decoding \in {"header", "options"} \cup Outcomes
    BY DEF Inv, TypeOK
  <2> QED BY <1>0, <2>1, <2>2, <2>3, SameOptions, PutTogether
<1> QED BY <1>1, <1>2, <1>3, <1>4, <1>5 DEF Next

(* decodeFrom of src/TCP.cpp keeps its types for every segment it may be   *)
(* called on; in particular the size of the payload never wraps.           *)
THEOREM SegmentTypeCorrect == Spec => []TypeOK
<1>1. Inv => TypeOK
  BY DEF Inv
<1> QED BY InitInv, StepInv, <1>1, PTL DEF Spec

(* The option loop never stands outside the header, and no kind, length or *)
(* data byte that it reads is behind it, whatever lengths are claimed.     *)
THEOREM SegmentLoopStaysInHeader == Spec => []StaysInHeader
<1>1. Inv => StaysInHeader
  BY DEF Inv
<1> QED BY InitInv, StepInv, <1>1, PTL DEF Spec

-----------------------------------------------------------------------------
(* The options of the packet, as the loops of build see them: the bytes    *)
(* that each becomes, and where it ends among them.                        *)
Sizes   == [j \in 1 .. Len(pkt.opts) |-> Build!SizeOf(pkt.opts[j])]
Written == [j \in 1 .. Len(pkt.opts) |-> Build!Emitted(pkt.opts[j])]
End     == SumsUpTo(Sizes)
Length  == End[Len(pkt.opts)]

(* While the first loop counts, its counter is the end of an option, up to *)
(* its width.                                                              *)
Sizing ==
  /\ pkt \in PacketTypes
  /\ k \in 1 .. Len(pkt.opts) + 1
  /\ header_size = (20 + End[k - 1]) % 256
  /\ data = <<>>

(* While the second emits, the header length is fixed, and what is emitted *)
(* are the options up to k.                                                *)
Emitting ==
  /\ pkt \in PacketTypes
  /\ k \in 1 .. Len(pkt.opts) + 1
  /\ padding_bytes \in 0 .. 3
  /\ header_size % 4 = 0
  /\ header_size = (20 + Length + padding_bytes) % 256
  /\ data \in Seq(UInt8)
  /\ Spells(data, End, Written, k - 1)

(* The area of the segment: the options, and zeros up to a multiple of 4   *)
AreaHolds ==
  /\ padding_bytes \in 0 .. 3
  /\ Len(wire.area) = Length + padding_bytes
  /\ Len(wire.area) % 4 = 0
  /\ Holds(wire.area, End, Written, Len(pkt.opts))
  /\ \A i \in Length + 1 .. Length + padding_bytes : wire.area[i] = 0

HeaderBytes == 20 + Len(wire.area)

(* The data offset is as wide as its field.                                *)
LengthsHold ==
  /\ wire.size = HeaderBytes + pkt.payload
  /\ wire.data_offset * 4 = HeaderBytes % 64

AsBuilt ==
  /\ pkt \in PacketTypes
  /\ WellFormed(wire)
  /\ AreaHolds
  /\ LengthsHold

AllCarry == \A j \in DOMAIN pkt.opts : CarriesLength(pkt.opts[j])

(* The options without their length bytes                                  *)
Tails == [j \in DOMAIN pkt.opts |-> [pkt.opts[j] EXCEPT !.value = Tail(@)]]

(* The decoder has m of the options, and stands before the NOP of the next *)
(* one, or before its kind, or behind the last.                            *)
StandsBehind(m) ==
  /\ \/ option_start = 20 + End[m]
     \/ m < Len(pkt.opts) /\ option_start = 20 + End[m] + 1
  /\ got.opts = SubSeq(Tails, 1, m)

Decoding ==
  /\ Fits /\ AllCarry =>
       /\ \E m \in 0 .. Len(pkt.opts) : StandsBehind(m)
       /\ decoding \in {"header", "options", "decoded"}
       /\ decoding = "decoded" => got.opts = Tails
  /\ Fits /\ decoding = "decoded" => got.payload = pkt.payload

Fresh == option_start = 20 /\ got = EmptyPacket

CodecInv ==
  /\ building \in {"sizing", "emitting", "built", "runtime_error", "elsewhere"}
  /\ building = "sizing" => Sizing
  /\ building = "emitting" => Emitting
  /\ building = "built" => AsBuilt
  /\ IF decoding = "waiting" THEN building # "elsewhere" /\ Fresh
     ELSE building \in {"built", "elsewhere"} /\ Inv
  /\ building = "built" /\ decoding # "waiting" => Decoding

(* What an option becomes: as many bytes as the first loop counts.         *)
LEMMA EmittedIs ==
  ASSUME NEW o \in Options
  PROVE  /\ Build!SizeOf(o) = 2 + Len(o.value)
         /\ Build!SizeOf(o) \in Nat /\ Build!SizeOf(o) >= 1
         /\ Build!Emitted(o) \in Seq(UInt8)
         /\ Len(Build!Emitted(o)) = Build!SizeOf(o)
         /\ Build!Emitted(o)[1] = NOP /\ Build!Emitted(o)[2] = o.kind
         /\ \A i \in 1 .. Len(o.value) : Build!Emitted(o)[2 + i] = o.value[i]
<1> DEFINE n == Len(o.value)
           head == <<NOP, o.kind>>
<1>1. n \in Nat /\ o.value \in Seq(UInt8) /\ o.kind \in UInt8
  BY LenProperties DEF Options
<1>2. NOP \in UInt8
  BY DEF NOP, UInt8
<1>3. head \in Seq(UInt8) /\ Len(head) = 2 /\ head[1] = NOP /\ head[2] = o.kind
  BY <1>1, <1>2
<1>4. Build!SizeOf(o) = 2 + n /\ Build!Emitted(o) = head \o o.value
  BY DEF Build!SizeOf, Build!Emitted, Build!NOP, NOP
<1> HIDE DEF n, head
<1>5. head \o o.value \in Seq(UInt8) /\ Len(head \o o.value) = 2 + n
  BY <1>1, <1>3, JoinedIsSeq, JoinedLen DEF n
<1>6. (head \o o.value)[1] = NOP /\ (head \o o.value)[2] = o.kind
  <2> DEFINE u == head \o o.value
  <2>1. \A i \in 1 .. Len(head) : u[i] = head[i]
    BY <1>1, <1>3, JoinedLeft
  <2>2. 1 \in 1 .. Len(head) /\ 2 \in 1 .. Len(head)
    BY <1>3
  <2> HIDE DEF u
  <2>3. u[1] = NOP /\ u[2] = o.kind
    BY <1>3, <2>1, <2>2
  <2> QED BY <2>3 DEF u
<1>7. \A i \in 1 .. n : (head \o o.value)[2 + i] = o.value[i]
  <2>2. head \in Seq(UInt8) /\ o.value \in Seq(UInt8)
    BY <1>1, <1>3
  <2>1. \A i \in 1 .. Len(o.value) : (head \o o.value)[Len(head) + i] = o.value[i]
    BY <2>2, JoinedRight
  <2> QED BY <1>3, <2>1 DEF n
<1> QED BY <1>1, <1>4, <1>5, <1>6, <1>7 DEF n

(* Where the options end: one after the other                              *)
LEMMA EndsAre ==
  ASSUME pkt \in PacketTypes
  PROVE  /\ pkt.opts \in Seq(Options) /\ Len(pkt.opts) \in Nat
         /\ DOMAIN pkt.opts = 1 .. Len(pkt.opts)
         /\ \A j \in 1 .. Len(pkt.opts) : pkt.opts[j] \in Options
         /\ End \in [0 .. Len(pkt.opts) -> Nat] /\ Length \in Nat
         /\ End[0] = 0
         /\ \A j \in 1 .. Len(pkt.opts) :
              /\ End[j] = End[j - 1] + Build!SizeOf(pkt.opts[j])
              /\ Written[j] = Build!Emitted(pkt.opts[j])
         /\ \A j \in 0 .. Len(pkt.opts) : End[j] <= Length
<1> DEFINE n == Len(pkt.opts)
<1>1. pkt.opts \in Seq(Options)
  BY DEF PacketTypes
<1>2. /\ n \in Nat /\ DOMAIN pkt.opts = 1 .. n
      /\ \A j \in 1 .. n : pkt.opts[j] \in Options
  BY <1>1, LenProperties, ElementOfSeq
<1>3. \A j \in 1 .. n : Sizes[j] = Build!SizeOf(pkt.opts[j])
                        /\ Written[j] = Build!Emitted(pkt.opts[j])
  BY DEF Sizes, Written
<1>4. \A j \in 1 .. n : Sizes[j] \in Nat
  <2> SUFFICES ASSUME NEW j \in 1 .. n PROVE Sizes[j] \in Nat
    OBVIOUS
  <2>1. pkt.opts[j] \in Options /\ Sizes[j] = Build!SizeOf(pkt.opts[j])
    BY <1>2, <1>3
  <2> QED BY <2>1, EmittedIs
<1>5. Len(Sizes) = n
  BY <1>2 DEF Sizes
<1> HIDE DEF n
<1>6. /\ End \in [0 .. n -> Nat] /\ End[0] = 0
      /\ \A j \in 1 .. n : End[j] = End[j - 1] + Sizes[j]
  BY <1>2, <1>4, <1>5, SumsAre DEF End
<1>7. ASSUME NEW j \in 0 .. n PROVE End[j] <= End[n]
  <2>1. \A i \in j .. n : End[j] <= End[i]
    BY <1>2, <1>4, <1>5, SumsGrow DEF End
  <2>2. n \in j .. n
    BY <1>2
  <2> QED BY <2>1, <2>2
<1>8. Length = End[n] /\ End[n] \in Nat
  <2>1. n \in 0 .. n
    BY <1>2
  <2> QED BY <1>6, <2>1 DEF Length, n
<1> QED BY <1>1, <1>2, <1>3, <1>6, <1>7, <1>8 DEF n

(* The options take the bytes that are counted for them.                   *)
LEMMA LengthIsTotal == ASSUME pkt \in PacketTypes PROVE TotalSize(pkt.opts) = Length
<1>1. Len(pkt.opts) \in Nat
  BY EndsAre
<1>2. [j \in 1 .. Len(pkt.opts) |-> 2 + Len(pkt.opts[j].value)] = Sizes
  BY DEF Sizes, Build!SizeOf
<1>3. Len(Sizes) = Len(pkt.opts)
  BY <1>1 DEF Sizes
<1> QED BY <1>2, <1>3 DEF TotalSize, Total, End, Length

-----------------------------------------------------------------------------
(* The object is not changed, and with it neither is what it becomes.      *)
LEMMA SamePacket ==
  ASSUME pkt' = pkt
  PROVE  End' = End /\ Written' = Written /\ Length' = Length
BY DEF End, Written, Length, Sizes

LEMMA InitCodecInv == CodecInit => CodecInv
<1>1. CASE FromBuild
  <2>1. /\ pkt \in Packets /\ building = "sizing" /\ k = 1 /\ header_size = 20
        /\ data = <<>> /\ decoding = "waiting" /\ Fresh
    BY <1>1 DEF FromBuild, Build!Init, Fresh
  <2>2. pkt \in PacketTypes
    BY <2>1, PacketsAssumption
  <2>3. End[0] = 0 /\ Len(pkt.opts) \in Nat
    BY <2>2, EndsAre
  <2>4. k \in 1 .. Len(pkt.opts) + 1 /\ k - 1 = 0 /\ 20 = (20 + 0) % 256
    BY <2>1, <2>3
  <2>5. Sizing
    BY <2>1, <2>2, <2>3, <2>4 DEF Sizing
  <2> QED BY <2>1, <2>5 DEF CodecInv
<1>2. CASE FromElsewhere
  <2>1. building = "elsewhere" /\ Init
    BY <1>2 DEF FromElsewhere
  <2>2. decoding # "waiting" /\ Inv
    BY <2>1, InitInv DEF Init, Start
  <2> QED BY <2>1, <2>2 DEF CodecInv
<1> QED BY <1>1, <1>2 DEF CodecInit

LEMMA SizeOptionKeeps ==
  ASSUME Sizing, Build!SizeOption
  PROVE  building' = "sizing" /\ Sizing'
<1> DEFINE s == Build!SizeOf(pkt.opts[k])
<1>1. /\ k <= Len(pkt.opts) /\ k' = k + 1 /\ pkt' = pkt /\ data' = data
      /\ header_size' = (header_size + s) % 256 /\ building' = "sizing"
  BY DEF Build!SizeOption, Build!option
<1>2. pkt \in PacketTypes /\ Len(pkt.opts) \in Nat /\ k \in 1 .. Len(pkt.opts)
  BY <1>1, EndsAre DEF Sizing
<1>3. pkt.opts[k] \in Options /\ End[k] = End[k - 1] + s
  BY <1>2, EndsAre
<1>4. s \in Nat
  BY <1>3, EmittedIs
<1>5. End[k - 1] \in Nat
  <2>1. k - 1 \in 0 .. Len(pkt.opts)
    BY <1>2
  <2> QED BY <1>2, <2>1, EndsAre
<1> DEFINE e == End[k - 1]
<1>6. header_size = (20 + e) % 256
  BY DEF Sizing
<1> HIDE DEF s, e
<1>7. header_size' = (20 + (e + s)) % 256
  <2>1. e \in Nat /\ s \in Nat
    BY <1>4, <1>5 DEF e
  <2>2. (((20 + e) % 256) + s) % 256 = (20 + (e + s)) % 256
    BY <2>1
  <2> QED BY <1>1, <1>6, <2>2
<1>8. k' - 1 = k /\ k' \in 1 .. Len(pkt.opts) + 1
  BY <1>1, <1>2
<1>9. header_size' = (20 + End'[k' - 1]) % 256
  BY <1>1, <1>3, <1>7, <1>8, SamePacket DEF e
<1> QED BY <1>1, <1>2, <1>8, <1>9 DEF Sizing

LEMMA PadKeeps ==
  ASSUME Sizing, Build!Pad
  PROVE  building' = "emitting" /\ Emitting'
<1> DEFINE p == (4 - (header_size % 4)) % 4
           t == 20 + Length
<1>1. /\ k > Len(pkt.opts) /\ k' = 1 /\ pkt' = pkt /\ data' = data
      /\ padding_bytes' = p /\ header_size' = (header_size + p) % 256
      /\ building' = "emitting"
  BY DEF Build!Pad, Build!Padding
<1>2. /\ pkt \in PacketTypes /\ Len(pkt.opts) \in Nat
      /\ k \in 1 .. Len(pkt.opts) + 1 /\ data = <<>>
      /\ header_size = (20 + End[k - 1]) % 256
  BY EndsAre DEF Sizing
<1>3. k - 1 = Len(pkt.opts)
  <2>1. Len(pkt.opts) \in Nat /\ k \in 1 .. Len(pkt.opts) + 1 /\ k > Len(pkt.opts)
    BY <1>1, <1>2
  <2> QED BY <2>1
<1>4. t \in Nat /\ header_size = t % 256
  BY <1>2, <1>3, EndsAre DEF Length
<1> HIDE DEF t
<1>5. /\ p \in 0 .. 3 /\ (header_size + p) % 256 = (t + p) % 256
      /\ ((header_size + p) % 256) % 4 = 0
  <2>1. header_size \in Nat /\ p \in 0 .. 3 /\ (header_size + p) % 4 = 0
    BY <1>4
  <2> HIDE DEF p
  <2>2. ((header_size + p) % 256) % 4 = 0
    BY <2>1
  <2>3. (header_size + p) % 256 = (t + p) % 256
    BY <1>4, <2>1
  <2> QED BY <2>1, <2>2, <2>3
<1> HIDE DEF p
<1>6. Len(data) = 0 /\ End[0] = 0 /\ data \in Seq(UInt8)
  BY <1>2, EndsAre
<1>7. Spells(data, End, Written, 0)
  BY <1>6 DEF Spells, Holds
<1>8. k' - 1 = 0 /\ k' \in 1 .. Len(pkt.opts) + 1
  BY <1>1, <1>2
<1>9. Spells(data', End', Written', k' - 1)
  BY <1>1, <1>7, <1>8, SamePacket
<1>10. header_size' = (20 + Length' + padding_bytes') % 256
  BY <1>1, <1>5, SamePacket DEF t
<1>11. padding_bytes' \in 0 .. 3 /\ header_size' % 4 = 0
  BY <1>1, <1>5
<1> QED BY <1>1, <1>2, <1>6, <1>8, <1>9, <1>10, <1>11 DEF Emitting

LEMMA EmitOptionKeeps ==
  ASSUME Emitting, Build!EmitOption
  PROVE  building' = "emitting" /\ Emitting'
<1> DEFINE n == Len(pkt.opts)
           part == Build!Emitted(pkt.opts[k])
<1>1. /\ k <= n /\ k' = k + 1 /\ data' = data \o part /\ building' = "emitting"
      /\ UNCHANGED <<pkt, header_size, padding_bytes>>
  BY DEF Build!EmitOption, Build!option
<1>2. /\ pkt \in PacketTypes /\ n \in Nat /\ k \in 1 .. n
      /\ data \in Seq(UInt8) /\ Spells(data, End, Written, k - 1)
  BY <1>1, EndsAre DEF Emitting
<1>3. /\ pkt.opts[k] \in Options /\ Written[k] = part
      /\ End[k] = End[k - 1] + Build!SizeOf(pkt.opts[k])
      /\ End \in [0 .. n -> Nat]
  BY <1>2, EndsAre
<1>4. part \in Seq(UInt8) /\ Len(part) = Build!SizeOf(pkt.opts[k])
  BY <1>3, EmittedIs
<1>5. \A j \in 1 .. n : Len(Written[j]) \in Nat
  <2>1. \A j \in 1 .. n : pkt.opts[j] \in Options
                          /\ Written[j] = Build!Emitted(pkt.opts[j])
    BY <1>2, EndsAre
  <2>2. \A o \in Options : Len(Build!Emitted(o)) \in Nat
    <3> SUFFICES ASSUME NEW o \in Options PROVE Len(Build!Emitted(o)) \in Nat
      OBVIOUS
    <3>1. Build!Emitted(o) \in Seq(UInt8)
      BY EmittedIs
    <3> QED BY <3>1, LenProperties
  <2> QED BY <2>1, <2>2
<1> HIDE DEF n, part
<1> DEFINE m == k - 1
<1>6. m \in 0 .. n - 1 /\ m + 1 = k /\ k' - 1 = k
  BY <1>1, <1>2
<1>7. \A j \in 1 .. m : Len(Written[j]) \in Nat
  BY <1>2, <1>5, <1>6
<1>8. Written[m + 1] = part /\ End[m + 1] = End[m] + Len(part)
  BY <1>3, <1>4, <1>6
<1>9. Spells(data \o part, End, Written, m + 1)
  <2>1. Spells(data, End, Written, m)
    BY <1>2
  <2> HIDE DEF m
  <2> QED BY <1>2, <1>3, <1>4, <1>6, <1>7, <1>8, <2>1, SpellsNext
<1>10. Spells(data', End', Written', k' - 1)
  BY <1>1, <1>6, <1>9, SamePacket
<1>11. data' \in Seq(UInt8)
  BY <1>1, <1>2, <1>4, JoinedIsSeq
<1>12. k' \in 1 .. Len(pkt'.opts) + 1
  BY <1>1, <1>2 DEF n
<1>14. /\ padding_bytes' \in 0 .. 3 /\ header_size' % 4 = 0
       /\ header_size' = (20 + Length' + padding_bytes') % 256
  BY <1>1, SamePacket DEF Emitting
<1> QED BY <1>1, <1>2, <1>10, <1>11, <1>12, <1>14 DEF Emitting

(* The padding bytes                                                       *)
LEMMA ZerosAre ==
  ASSUME NEW n \in Nat
  PROVE  /\ Build!Zeros(n) \in Seq(UInt8) /\ Len(Build!Zeros(n)) = n
         /\ \A i \in 1 .. n : Build!Zeros(n)[i] = 0
<1>1. 0 \in UInt8
  BY DEF UInt8
<1> QED BY <1>1 DEF Build!Zeros

LEMMA FinishKeeps ==
  ASSUME Emitting, Build!Finish
  PROVE  building' = "built" /\ AsBuilt'
<1> DEFINE n == Len(pkt.opts)
           zeros == Build!Zeros(padding_bytes)
           area == data \o zeros
           pad == padding_bytes
<1>1. /\ k > n /\ building' = "built"
      /\ UNCHANGED <<pkt, k, header_size, padding_bytes, data>>
  BY DEF Build!Finish
<1>2. wire' = [size        |-> ((20 + Len(data)) + padding_bytes) + pkt.payload,
               data_offset |-> (header_size \div 4) % 16,
               area        |-> area]
  BY DEF Build!Finish, Build!SegmentSize, Build!DataOffset
<1>3. /\ pkt \in PacketTypes /\ n \in Nat /\ k \in 1 .. n + 1
      /\ pad \in 0 .. 3 /\ data \in Seq(UInt8)
      /\ header_size % 4 = 0
      /\ header_size = (20 + Length + pad) % 256
      /\ Spells(data, End, Written, k - 1)
  BY EndsAre DEF Emitting
<1>4. k - 1 = n
  <2>1. n \in Nat /\ k \in 1 .. n + 1 /\ k > n
    BY <1>1, <1>3
  <2> HIDE DEF n
  <2> QED BY <2>1
<1>5. /\ End \in [0 .. n -> Nat] /\ Length \in Nat /\ Length = End[n]
      /\ \A j \in 1 .. n : /\ pkt.opts[j] \in Options
                           /\ Written[j] = Build!Emitted(pkt.opts[j])
  BY <1>3, EndsAre DEF Length
<1>6. \A j \in 1 .. n : Len(Written[j]) \in Nat
  <2> SUFFICES ASSUME NEW j \in 1 .. n PROVE Len(Written[j]) \in Nat
    OBVIOUS
  <2>1. Written[j] \in Seq(UInt8)
    BY <1>5, EmittedIs
  <2> QED BY <2>1, LenProperties
<1>7. zeros \in Seq(UInt8) /\ Len(zeros) = pad /\ \A i \in 1 .. pad : zeros[i] = 0
  <2>1. pad \in Nat
    BY <1>3
  <2> QED BY <2>1, ZerosAre
<1>8. Spells(data, End, Written, n) /\ Len(data) = Length
  BY <1>3, <1>4, <1>5 DEF Spells
<1> HIDE DEF zeros, n
<1>9. area \in Seq(UInt8) /\ Len(area) = Length + pad
  BY <1>3, <1>7, <1>8, JoinedIsSeq, JoinedLen
<1>10. /\ Holds(area, End, Written, n)
       /\ \A i \in Length + 1 .. Length + pad : area[i] = 0
  <2>1. Holds(area, End, Written, n)
    <3>1. n \in Nat /\ data \in Seq(UInt8)
      BY <1>3
    <3>2. End \in [0 .. n -> Nat] /\ \A j \in 1 .. n : Len(Written[j]) \in Nat
      BY <1>5, <1>6
    <3>3. Spells(data, End, Written, n) /\ zeros \in Seq(UInt8)
      BY <1>7, <1>8
    <3> QED BY <3>1, <3>2, <3>3, SpellsOn
  <2>2. \A i \in 1 .. pad : area[Length + i] = 0
    <3>1. \A i \in 1 .. Len(zeros) : area[Len(data) + i] = zeros[i]
      BY <1>3, <1>7, JoinedRight
    <3> QED BY <1>7, <1>8, <3>1
  <2>3. \A i \in Length + 1 .. Length + pad :
          i - Length \in 1 .. pad /\ Length + (i - Length) = i
    <3>1. Length \in Nat /\ pad \in Nat
      BY <1>3, <1>5
    <3> HIDE DEF pad
    <3> QED BY <3>1
  <2> HIDE DEF area, pad
  <2> QED BY <1>6, <2>1, <2>2, <2>3
<1> HIDE DEF area, pad
<1> DEFINE h == 20 + Len(area)
           q == (header_size \div 4) % 16
<1>11. /\ h \in Nat /\ h = 20 + Length + pad /\ Len(area) % 4 = 0
       /\ q \in 0 .. 15 /\ q * 4 = h % 64 /\ q * 4 <= h
  <2>1. pad \in 0 .. 3 /\ Length \in Nat
    BY <1>3, <1>5 DEF pad
  <2>2. h = 20 + Length + pad /\ header_size = h % 256
    BY <1>3, <1>9, <2>1 DEF pad
  <2>3. h \in Nat
    BY <2>1, <2>2
  <2>4. header_size \in Nat /\ header_size % 4 = 0
    BY <1>3, <2>2, <2>3
  <2>5. q * 4 = header_size % 64 /\ q \in 0 .. 15
    BY <2>4
  <2>6. Len(area) = Length + pad
    BY <1>9
  <2> HIDE DEF q
  <2>7. h % 4 = 0 /\ (h % 256) % 64 = h % 64 /\ h % 64 <= h
    <3> HIDE DEF h
    <3> QED BY <2>2, <2>3, <2>4
  <2>8. Len(area) % 4 = 0
    BY <2>1, <2>6, <2>7
  <2> HIDE DEF h
  <2> QED BY <2>2, <2>3, <2>5, <2>7, <2>8
<1>15. pkt.payload \in Nat
  BY <1>3 DEF PacketTypes
<1>14. ((20 + Len(data)) + padding_bytes) + pkt.payload = h + pkt.payload
  BY <1>3, <1>5, <1>8, <1>9, <1>15 DEF pad
<1> HIDE DEF q
<1>16. /\ wire' = [size |-> h + pkt.payload, data_offset |-> q, area |-> area]
       /\ wire'.size = h + pkt.payload /\ wire'.data_offset = q
       /\ wire'.area = area
  <2> HIDE DEF h
  <2> QED BY <1>2, <1>14 DEF q
<1>17. wire' \in Wires
  <2>1. h + pkt.payload \in Nat
    BY <1>11, <1>15
  <2> HIDE DEF h
  <2> QED BY <1>9, <1>11, <1>16, <2>1 DEF Wires
<1>18. WellFormed(wire')
  <2>1. wire'.data_offset * 4 - 20 <= Len(wire'.area)
    <3>1. q * 4 <= h /\ q \in 0 .. 15
      BY <1>11
    <3>2. Len(area) \in Nat
      BY <1>9, LenProperties
    <3>3. q * 4 - 20 <= Len(area)
      BY <3>1, <3>2
    <3> QED BY <1>16, <3>3
  <2> QED BY <1>17, <2>1 DEF WellFormed
<1>19. AreaHolds'
  <2>2. pad \in 0 .. 3 /\ pad = padding_bytes
    BY <1>3 DEF pad
  <2>3. wire'.area = area /\ pkt' = pkt /\ padding_bytes' = padding_bytes
        /\ Length' = Length /\ End' = End /\ Written' = Written
    BY <1>1, <1>16, SamePacket
  <2>4. Len(area) % 4 = 0
    BY <1>11
  <2> QED BY <1>9, <1>10, <2>2, <2>3, <2>4 DEF AreaHolds, n
<1>20. LengthsHold'
  <2> HIDE DEF h
  <2>1. HeaderBytes' = h
    BY <1>16 DEF h, HeaderBytes
  <2> QED BY <1>1, <1>11, <1>16, <2>1 DEF LengthsHold
<1>22. pkt' \in PacketTypes
  BY <1>1, <1>3
<1> QED BY <1>1, <1>18, <1>19, <1>20, <1>22 DEF AsBuilt, WellFormed, Wires

-----------------------------------------------------------------------------
(* A header that fits is announced as it is.                               *)
LEMMA Announced ==
  ASSUME AsBuilt, Fits
  PROVE  /\ Length \in Nat /\ padding_bytes \in 0 .. 3
         /\ header_length = 20 + Length + padding_bytes
         /\ header_length \in 20 .. 60
         /\ wire.size = header_length + pkt.payload
         /\ pkt.payload \in Nat
<1> DEFINE h == HeaderBytes
           q == wire.data_offset * 4
           p == pkt.payload
<1>1. Length \in Nat /\ padding_bytes \in 0 .. 3
      /\ Len(wire.area) = Length + padding_bytes /\ Len(wire.area) % 4 = 0
  BY EndsAre DEF AsBuilt, AreaHolds
<1>2. h = 20 + (Length + padding_bytes) /\ p \in Nat
  BY <1>1 DEF AsBuilt, HeaderBytes, PacketTypes
<1>3. 20 + Length <= 60
  BY LengthIsTotal DEF AsBuilt, Fits, EmittedSize
<1>4. wire.size = h + p /\ q = h % 64
  BY DEF AsBuilt, LengthsHold
<1>5. header_length = q
  BY DEF header_length
<1> HIDE DEF h, q, p
<1>6. h \in 20 .. 60
  <2> DEFINE l == Length + padding_bytes
  <2>1. l \in Nat /\ l % 4 = 0 /\ l < 44 /\ h = 20 + l
    BY <1>1, <1>2, <1>3
  <2> HIDE DEF l
  <2> QED BY <2>1
<1>7. q = h
  BY <1>4, <1>6
<1> QED BY <1>1, <1>2, <1>4, <1>5, <1>6, <1>7 DEF p

(* The bytes of an option that stands where the decoder reads: the NOP,    *)
(* the kind, and, where the data begin with it, the length                 *)
LEMMA OptionWritten ==
  ASSUME AsBuilt, NEW m \in 0 .. Len(pkt.opts) - 1
  PROVE  LET o == pkt.opts[m + 1]
         IN  /\ o \in Options
             /\ End[m] \in Nat /\ End[m + 1] <= Length
             /\ End[m + 1] = End[m] + (2 + Len(o.value))
             /\ wire.area[End[m] + 1] = NOP /\ wire.area[End[m] + 2] = o.kind
             /\ \A i \in 1 .. Len(o.value) : wire.area[(End[m] + 2) + i] = o.value[i]
<1> DEFINE n == Len(pkt.opts)
           o == pkt.opts[m + 1]
           l == Len(o.value)
           e == End[m]
           bytes == Build!Emitted(o)
<1>1. n \in Nat /\ m + 1 \in 1 .. n /\ m \in 0 .. n /\ m + 1 \in 0 .. n /\ (m + 1) - 1 = m
  BY EndsAre DEF AsBuilt
<1>2. /\ o \in Options /\ e \in Nat /\ End[m + 1] <= Length
      /\ End[m + 1] = e + Build!SizeOf(o) /\ Written[m + 1] = bytes
  BY <1>1, EndsAre DEF AsBuilt
<1>3. \A i \in 1 .. Len(bytes) : wire.area[e + i] = bytes[i]
  <2>1. Holds(wire.area, End, Written, n)
    BY DEF AsBuilt, AreaHolds
  <2> HIDE DEF n, e, bytes
  <2>2. \A i \in 1 .. Len(Written[m + 1]) :
          wire.area[End[(m + 1) - 1] + i] = Written[m + 1][i]
    BY <1>1, <2>1 DEF Holds
  <2> QED BY <1>1, <1>2, <2>2 DEF e
<1>4. /\ Len(bytes) = 2 + l /\ Build!SizeOf(o) = 2 + l
      /\ bytes[1] = NOP /\ bytes[2] = o.kind
      /\ \A i \in 1 .. l : bytes[2 + i] = o.value[i]
  BY <1>2, EmittedIs
<1>5. l \in Nat
  BY <1>2, LenProperties DEF Options
<1> HIDE DEF o, bytes, n, e, l
<1>6. 1 \in 1 .. Len(bytes) /\ 2 \in 1 .. Len(bytes)
      /\ \A i \in 1 .. l : 2 + i \in 1 .. Len(bytes) /\ (e + 2) + i = e + (2 + i)
  BY <1>2, <1>4, <1>5
<1>7. wire.area[e + 1] = NOP /\ wire.area[e + 2] = o.kind
      /\ \A i \in 1 .. l : wire.area[(e + 2) + i] = o.value[i]
  BY <1>3, <1>4, <1>6
<1> QED BY <1>2, <1>4, <1>7 DEF o, e, l

-----------------------------------------------------------------------------
(* What decodeFrom makes of a segment that build returned.                 *)
LEMMA BuiltStays ==
  ASSUME AsBuilt, UNCHANGED <<pkt, wire, padding_bytes>>
  PROVE  AsBuilt'
<1>1. pkt' = pkt /\ wire' = wire /\ padding_bytes' = padding_bytes
      /\ End' = End /\ Written' = Written /\ Length' = Length
  BY SamePacket
<1>2. pkt' \in PacketTypes /\ WellFormed(wire')
  BY <1>1 DEF AsBuilt
<1>3. AreaHolds'
  BY <1>1 DEF AsBuilt, AreaHolds
<1>4. HeaderBytes' = HeaderBytes
  BY <1>1 DEF HeaderBytes
<1>5. LengthsHold'
  BY <1>1, <1>4 DEF AsBuilt, LengthsHold
<1> QED BY <1>2, <1>3, <1>5 DEF AsBuilt, WellFormed, Wires

LEMMA SamePremises ==
  ASSUME pkt' = pkt
  PROVE  (Fits' <=> Fits) /\ (AllCarry' <=> AllCarry) /\ Tails' = Tails
BY DEF Fits, EmittedSize, AllCarry, Tails

(* The options without their length bytes, of which there are as many      *)
LEMMA TailsAre ==
  ASSUME AsBuilt, AllCarry
  PROVE  /\ Tails \in Seq(Options) /\ Len(Tails) = Len(pkt.opts)
         /\ \A j \in 1 .. Len(pkt.opts) :
              LET o == pkt.opts[j]
              IN  /\ Tails[j] = [kind |-> o.kind, value |-> Tail(o.value)]
                  /\ Len(o.value) \in Nat /\ Len(o.value) >= 1
                  /\ o.value[1] = Len(o.value) + 1
                  /\ o.kind \notin {EOL, NOP}
                  /\ Tail(o.value) \in Seq(UInt8)
                  /\ Len(Tail(o.value)) = Len(o.value) - 1
                  /\ \A i \in 1 .. Len(o.value) - 1 : Tail(o.value)[i] = o.value[i + 1]
<1> DEFINE n == Len(pkt.opts)
<1>1. n \in Nat /\ DOMAIN pkt.opts = 1 .. n /\ \A j \in 1 .. n : pkt.opts[j] \in Options
  BY EndsAre DEF AsBuilt
<1>2. ASSUME NEW o \in Options, CarriesLength(o)
      PROVE  /\ [o EXCEPT !.value = Tail(@)] = [kind |-> o.kind, value |-> Tail(o.value)]
             /\ [o EXCEPT !.value = Tail(@)] \in Options
             /\ Len(o.value) \in Nat /\ Len(o.value) >= 1
             /\ o.value[1] = Len(o.value) + 1
             /\ o.kind \notin {EOL, NOP}
             /\ Tail(o.value) \in Seq(UInt8)
             /\ Len(Tail(o.value)) = Len(o.value) - 1
             /\ \A i \in 1 .. Len(o.value) - 1 : Tail(o.value)[i] = o.value[i + 1]
  <2>1. o.value \in Seq(UInt8) /\ o.kind \in UInt8
    BY DEF Options
  <2>2. o.kind \notin {0, 1} /\ o.value # <<>> /\ Head(o.value) = Len(o.value) + 1
    BY <1>2 DEF CarriesLength
  <2>3. Len(o.value) \in Nat /\ Len(o.value) # 0
    BY <2>1, <2>2, LenProperties, EmptySeq
  <2>4. Head(o.value) = o.value[1]
    BY <2>1, <2>2, HeadTailProperties
  <2>5. /\ Tail(o.value) \in Seq(UInt8) /\ Len(Tail(o.value)) = Len(o.value) - 1
        /\ \A i \in 1 .. Len(o.value) - 1 : Tail(o.value)[i] = o.value[i + 1]
    BY <2>1, <2>2, HeadTailProperties
  <2>6. /\ [o EXCEPT !.value = Tail(@)] = [kind |-> o.kind, value |-> Tail(o.value)]
        /\ [o EXCEPT !.value = Tail(@)] \in Options
    <3> DEFINE v == Tail(o.value)
    <3>1. v \in Seq(UInt8)
      BY <2>5
    <3> HIDE DEF v
    <3>2. [o EXCEPT !.value = v] = [kind |-> o.kind, value |-> v]
      BY DEF Options
    <3>3. [o EXCEPT !.value = v] \in Options
      BY <2>1, <3>1, <3>2 DEF Options
    <3> QED BY <3>2, <3>3 DEF v
  <2> QED BY <2>2, <2>3, <2>4, <2>5, <2>6 DEF EOL, NOP
<1>3. \A j \in 1 .. n : CarriesLength(pkt.opts[j])
                        /\ Tails[j] = [pkt.opts[j] EXCEPT !.value = Tail(@)]
  BY <1>1 DEF AllCarry, Tails
<1>4. Tails \in [1 .. n -> Options]
  <2>1. \A j \in 1 .. n : [pkt.opts[j] EXCEPT !.value = Tail(@)] \in Options
    <3> SUFFICES ASSUME NEW j \in 1 .. n
                 PROVE  [pkt.opts[j] EXCEPT !.value = Tail(@)] \in Options
      OBVIOUS
    <3>1. pkt.opts[j] \in Options /\ CarriesLength(pkt.opts[j])
      BY <1>1, <1>3
    <3> HIDE DEF n
    <3> QED BY <3>1, <1>2
  <2>2. Tails = [j \in 1 .. n |-> [pkt.opts[j] EXCEPT !.value = Tail(@)]]
    BY <1>1 DEF Tails
  <2> QED BY <2>1, <2>2
<1>5. Tails \in Seq(Options) /\ Len(Tails) = n
  <2> DEFINE t == Tails
  <2>1. t \in [1 .. n -> Options]
    BY <1>4
  <2> HIDE DEF t, n
  <2>2. t \in Seq(Options)
    BY <1>1, <2>1 DEF n
  <2>3. Len(t) = n
    BY <1>1, <2>1, <2>2, LenProperties
  <2> QED BY <2>2, <2>3 DEF t
<1>6. ASSUME NEW j \in 1 .. n
      PROVE  LET o == pkt.opts[j]
             IN  /\ Tails[j] = [kind |-> o.kind, value |-> Tail(o.value)]
                 /\ Len(o.value) \in Nat /\ Len(o.value) >= 1
                 /\ o.value[1] = Len(o.value) + 1
                 /\ o.kind \notin {EOL, NOP}
                 /\ Tail(o.value) \in Seq(UInt8)
                 /\ Len(Tail(o.value)) = Len(o.value) - 1
                 /\ \A i \in 1 .. Len(o.value) - 1 : Tail(o.value)[i] = o.value[i + 1]
  <2>1. pkt.opts[j] \in Options /\ CarriesLength(pkt.opts[j])
        /\ Tails[j] = [pkt.opts[j] EXCEPT !.value = Tail(@)]
    BY <1>1, <1>3
  <2> HIDE DEF n
  <2> QED BY <2>1, <1>2
<1> QED BY <1>5, <1>6

(* What decodeFrom reads where the next option begins, and behind its NOP  *)
LEMMA PlaceRead ==
  ASSUME AsBuilt, Fits, AllCarry, NEW m \in 0 .. Len(pkt.opts) - 1
  PROVE  LET o == pkt.opts[m + 1]
         IN  /\ option_start = 20 + End[m] =>
                  option_kind = NOP /\ option_start < header_length
             /\ option_start = 20 + End[m] + 1 =>
                  /\ option_kind = o.kind /\ o.kind \notin {EOL, NOP}
                  /\ option_start < header_length
                  /\ ~LengthMissing /\ ~TooShort /\ FitsHeader
                  /\ option_start + option_length = 20 + End[m + 1]
                  /\ option_data = Tail(o.value)
<1> DEFINE n == Len(pkt.opts)
           o == pkt.opts[m + 1]
           l == Len(o.value)
           e == End[m]
           t == Tail(o.value)
<1>1. n \in Nat /\ m + 1 \in 1 .. n
  BY EndsAre DEF AsBuilt
<1>2. /\ e \in Nat /\ End[m + 1] <= Length /\ End[m + 1] = e + (2 + l)
      /\ wire.area[e + 1] = NOP /\ wire.area[e + 2] = o.kind
      /\ \A i \in 1 .. l : wire.area[(e + 2) + i] = o.value[i]
  BY OptionWritten
<1>3. /\ l \in Nat /\ l >= 1 /\ o.value[1] = l + 1 /\ o.kind \notin {EOL, NOP}
      /\ t \in Seq(UInt8) /\ Len(t) = l - 1
      /\ \A i \in 1 .. l - 1 : t[i] = o.value[i + 1]
  BY <1>1, TailsAre
<1>4. /\ Length \in Nat /\ padding_bytes \in 0 .. 3
      /\ header_length = 20 + Length + padding_bytes /\ header_length \in Nat
  <2>1. /\ Length \in Nat /\ padding_bytes \in 0 .. 3
        /\ header_length = 20 + Length + padding_bytes /\ header_length \in 20 .. 60
    BY Announced
  <2> QED BY <2>1
<1> DEFINE f == End[m + 1]
<1> HIDE DEF n, o, l, e, t, f
<1>5. f = e + (2 + l) /\ f \in Nat /\ 20 + f <= header_length
  <2>1. f = e + (2 + l) /\ f <= Length
    BY <1>2 DEF f
  <2> QED BY <1>2, <1>3, <1>4, <2>1
<1>6. ASSUME option_start = 20 + e
      PROVE  option_kind = NOP /\ option_start < header_length
  <2>1. option_start - 19 = e + 1 /\ option_start < header_length
    BY <1>2, <1>3, <1>4, <1>5, <1>6
  <2> QED BY <1>2, <2>1 DEF option_kind, At
<1>7. ASSUME option_start = 20 + e + 1
      PROVE  /\ option_kind = o.kind /\ option_start < header_length
             /\ ~LengthMissing /\ ~TooShort /\ FitsHeader
             /\ option_start + option_length = 20 + f
             /\ option_data = t
  <2>1. /\ option_start - 19 = e + 2 /\ (option_start + 1) - 19 = (e + 2) + 1
        /\ 1 \in 1 .. l
        /\ option_start < header_length /\ option_start # header_length - 1
    BY <1>2, <1>3, <1>4, <1>5, <1>7
  <2>2. option_kind = o.kind
    BY <1>2, <2>1 DEF option_kind, At
  <2>3. option_length = l + 1
    BY <1>2, <1>3, <2>1 DEF option_length, At
  <2>4. ~TooShort
    BY <1>3, <2>3 DEF TooShort
  <2>5. option_start + option_length = 20 + f
    BY <1>2, <1>3, <1>5, <1>7, <2>3
  <2>6. FitsHeader
    BY <1>5, <2>5 DEF FitsHeader
  <2> DEFINE a == e + 3
  <2>7. a \in Nat /\ \A i \in 1 .. Len(t) : wire.area[a + i] = t[i]
    <3>1. a \in Nat /\ \A i \in 1 .. l - 1 :
                         i + 1 \in 1 .. l /\ a + i = (e + 2) + (i + 1)
      BY <1>2, <1>3
    <3> HIDE DEF a
    <3>2. \A i \in 1 .. l - 1 : wire.area[a + i] = t[i]
      <4> SUFFICES ASSUME NEW i \in 1 .. l - 1 PROVE wire.area[a + i] = t[i]
        OBVIOUS
      <4>1. t[i] = o.value[i + 1] /\ i + 1 \in 1 .. l /\ a + i = (e + 2) + (i + 1)
        BY <1>3, <3>1
      <4>2. wire.area[(e + 2) + (i + 1)] = o.value[i + 1]
        BY <1>2, <4>1
      <4> QED BY <4>1, <4>2
    <3>3. Len(t) = l - 1
      BY <1>3
    <3> QED BY <3>1, <3>2, <3>3
  <2>8. option_start - 17 = a + 1 /\ option_start + option_length - 20 = a + Len(t)
    BY <1>2, <1>3, <1>7, <2>3
  <2> HIDE DEF a
  <2>9. SubSeq(wire.area, a + 1, a + Len(t)) = t
    BY <1>3, <2>7, SubSeqIs
  <2>10. option_data = t
    BY <2>8, <2>9 DEF option_data
  <2> QED BY <2>1, <2>2, <2>4, <2>5, <2>6, <2>10 DEF LengthMissing
<1> QED BY <1>3, <1>6, <1>7 DEF o, e, t, f

(* Behind the options there is a zero, or the header ends.                 *)
LEMMA PaddingRead ==
  ASSUME AsBuilt, Fits, option_start = 20 + Length, option_start < header_length
  PROVE  option_kind = EOL
<1>1. /\ Length \in Nat /\ padding_bytes \in 0 .. 3
      /\ header_length = 20 + Length + padding_bytes
  BY Announced
<1>2. option_start - 19 \in Length + 1 .. Length + padding_bytes
  BY <1>1
<1>3. wire.area[option_start - 19] = 0
  BY <1>2 DEF AsBuilt, AreaHolds
<1> QED BY <1>3 DEF option_kind, At, EOL

LEMMA StandsAgain ==
  ASSUME pkt' = pkt, NEW m \in 0 .. Len(pkt.opts),
         \/ option_start' = 20 + End[m]
         \/ m < Len(pkt.opts) /\ option_start' = 20 + End[m] + 1,
         got'.opts = SubSeq(Tails, 1, m)
  PROVE  (\E j \in 0 .. Len(pkt.opts) : StandsBehind(j))'
<1>1. End' = End /\ Tails' = Tails
  BY SamePacket, SamePremises
<1>2. StandsBehind(m)'
  BY <1>1 DEF StandsBehind
<1>3. (0 .. Len(pkt.opts))' = 0 .. Len(pkt.opts)
  OBVIOUS
<1> QED BY <1>2, <1>3

LEMMA SamePlace ==
  ASSUME pkt' = pkt, option_start' = option_start, got'.opts = got.opts,
         \E m \in 0 .. Len(pkt.opts) : StandsBehind(m)
  PROVE  (\E m \in 0 .. Len(pkt.opts) : StandsBehind(m))'
<1>1. PICK m \in 0 .. Len(pkt.opts) : StandsBehind(m)
  OBVIOUS
<1> QED BY <1>1, StandsAgain DEF StandsBehind

(* decodeFrom is called: it stands before the first option and has none.   *)
LEMMA StartDecoding ==
  ASSUME AsBuilt, Fresh, pkt' = pkt, option_start' = option_start, got' = got,
         decoding' = "header"
  PROVE  Decoding'
<1>1. got'.opts = <<>> /\ option_start' = 20
  BY DEF Fresh, EmptyPacket
<1>2. ASSUME AllCarry PROVE (\E m \in 0 .. Len(pkt.opts) : StandsBehind(m))'
  <2>1. End[0] = 0 /\ Len(pkt.opts) \in Nat
    BY EndsAre DEF AsBuilt
  <2>2. Tails \in Seq(Options)
    BY <1>2, TailsAre
  <2>3. SubSeq(Tails, 1, 0) = <<>>
    BY <2>2, SubSeqEmpty
  <2>4. option_start' = 20 + End[0] /\ 0 \in 0 .. Len(pkt.opts)
    BY <1>1, <2>1
  <2> QED BY <1>1, <2>3, <2>4, StandsAgain
<1>3. AllCarry' <=> AllCarry
  BY SamePremises
<1> QED BY <1>2, <1>3 DEF Decoding

(* Where options carry their length, a step of the loop passes the NOP of  *)
(* the next one, or takes it.                                              *)
LEMMA LoopDecoding ==
  ASSUME AsBuilt, Inv, Decoding, pkt' = pkt, Fits, AllCarry, MoreOptions,
         SkipNOP \/ TakeOption \/ OptionLengthRequired \/ OptionTooLong \/ ReversedRange
  PROVE  /\ (\E m \in 0 .. Len(pkt.opts) : StandsBehind(m))'
         /\ decoding' = "options"
<1> DEFINE n == Len(pkt.opts)
<1>1. PICK m \in 0 .. n : StandsBehind(m)
  BY DEF Decoding
<1>2. /\ decoding = "options" /\ option_start < header_length /\ option_kind # EOL
  BY DEF MoreOptions, option_kind
<1>3. /\ n \in Nat /\ Length = End[n] /\ End[m] \in Nat
      /\ got \in PacketsOver(Seq(Options))
  BY EndsAre DEF AsBuilt, Length, Inv, TypeOK, PacketsOver
<1>4. m \in 0 .. n - 1
  <2> SUFFICES ASSUME m = n PROVE FALSE
    BY <1>3
  <2>1. option_start = 20 + Length
    BY <1>1, <1>3 DEF StandsBehind
  <2> QED BY <1>2, <2>1, PaddingRead
<1>5. got.opts = SubSeq(Tails, 1, m)
  BY <1>1 DEF StandsBehind
<1>6. CASE option_start = 20 + End[m]
  <2>1. option_kind = NOP
    BY <1>4, <1>6, PlaceRead
  <2>2. /\ decoding' = decoding /\ got' = got
        /\ option_start' = 20 + End[m] + 1
    BY <1>6, <2>1 DEF SkipNOP, TakeOption, OptionLengthRequired, OptionTooLong,
                      ReversedRange, BehindNOP
  <2>3. m < n
    BY <1>3, <1>4
  <2> QED BY <1>2, <1>5, <2>2, <2>3, StandsAgain
<1>7. CASE option_start = 20 + End[m] + 1
  <2> DEFINE o == pkt.opts[m + 1]
  <2>1. /\ option_kind = o.kind /\ option_kind # NOP
        /\ ~LengthMissing /\ ~TooShort /\ FitsHeader
        /\ option_start + option_length = 20 + End[m + 1]
        /\ option_data = Tail(o.value)
    BY <1>4, <1>7, PlaceRead
  <2>2. TakeOption
    BY <2>1 DEF SkipNOP, OptionLengthRequired, OptionTooLong, ReversedRange
  <2>3. /\ decoding' = decoding /\ option_start' = 20 + End[m + 1]
        /\ got' = [got EXCEPT !.opts = Append(got.opts,
                     [kind |-> o.kind, value |-> Tail(o.value)])]
    BY <2>1, <2>2 DEF TakeOption, NextOption
  <2>4. m + 1 \in 1 .. n /\ m + 1 \in 0 .. n
    BY <1>3, <1>4
  <2>5. /\ Tails \in Seq(Options) /\ Len(Tails) = n
        /\ Tails[m + 1] = [kind |-> o.kind, value |-> Tail(o.value)]
    BY <2>4, TailsAre
  <2>6. Append(SubSeq(Tails, 1, m), Tails[m + 1]) = SubSeq(Tails, 1, m + 1)
    BY <1>4, <2>5, PrefixNext
  <2>7. got'.opts = SubSeq(Tails, 1, m + 1)
    <3>1. got' = [got EXCEPT !.opts = SubSeq(Tails, 1, m + 1)]
      BY <1>5, <2>3, <2>5, <2>6
    <3> QED BY <1>3, <3>1 DEF PacketsOver
  <2> QED BY <1>2, <2>3, <2>4, <2>7, StandsAgain
<1> QED BY <1>1, <1>6, <1>7 DEF StandsBehind

LEMMA OptionStepDecoding ==
  ASSUME AsBuilt, Inv, Decoding, pkt' = pkt,
         SkipNOP \/ TakeOption \/ OptionLengthRequired \/ OptionTooLong \/ ReversedRange
  PROVE  Decoding'
<1>1. MoreOptions /\ decoding' # "decoded"
  BY DEF SkipNOP, TakeOption, OptionLengthRequired, OptionTooLong, ReversedRange,
         MoreOptions
<1>2. Fits /\ AllCarry => /\ (\E m \in 0 .. Len(pkt.opts) : StandsBehind(m))'
                          /\ decoding' = "options"
  BY <1>1, LoopDecoding
<1> QED BY <1>1, <1>2, SamePremises DEF Decoding

(* A header that fits is accepted.                                         *)
LEMMA HeaderDecoding ==
  ASSUME AsBuilt, Decoding, pkt' = pkt, RejectHeader \/ AcceptHeader
  PROVE  Decoding'
<1>1. /\ option_start' = option_start /\ got' = got /\ decoding' # "decoded"
      /\ decoding' = "options" \/ HeaderRejected
  BY DEF RejectHeader, AcceptHeader
<1>2. ASSUME Fits PROVE ~HeaderRejected
  <2>1. header_length \in 20 .. 60 /\ wire.size = header_length + pkt.payload
        /\ pkt.payload \in Nat
    BY <1>2, Announced
  <2> DEFINE s == wire.size
             h == header_length
             p == pkt.payload
  <2>2. ~(s < 20) /\ ~(h > s) /\ ~(h < 20)
    <3>1. h \in 20 .. 60 /\ s = h + p /\ p \in Nat
      BY <2>1
    <3> HIDE DEF s, h, p
    <3> QED BY <3>1
  <2> QED BY <2>2 DEF HeaderRejected
<1>3. (\E m \in 0 .. Len(pkt.opts) : StandsBehind(m))
        => (\E m \in 0 .. Len(pkt.opts) : StandsBehind(m))'
  BY <1>1, SamePlace
<1> QED BY <1>1, <1>2, <1>3, SamePremises DEF Decoding

(* The loop ends behind the last option, and the payload is what lies      *)
(* behind the header.                                                      *)
LEMMA TakePayloadDecoding ==
  ASSUME AsBuilt, Inv, Decoding, TakePayload, pkt' = pkt
  PROVE  Decoding'
<1> DEFINE n == Len(pkt.opts)
<1>1. /\ decoding = "options" /\ decoding' = "decoded" /\ ~MoreOptions
      /\ option_start' = option_start
      /\ got' = [got EXCEPT !.payload = wire.size - header_length]
  BY DEF TakePayload, PayloadSize
<1>2. got \in PacketsOver(Seq(Options))
  BY DEF Inv, TypeOK, PacketsOver
<1>3. got'.opts = got.opts /\ got'.payload = wire.size - header_length
  BY <1>1, <1>2 DEF PacketsOver
<1>4. Fits => got'.payload = pkt.payload
  <2> SUFFICES ASSUME Fits PROVE got'.payload = pkt.payload
    OBVIOUS
  <2>1. header_length \in 20 .. 60 /\ wire.size = header_length + pkt.payload
        /\ pkt.payload \in Nat
    BY Announced
  <2> DEFINE s == wire.size
             h == header_length
             p == pkt.payload
  <2>2. s - h = p
    <3>1. h \in 20 .. 60 /\ s = h + p /\ p \in Nat
      BY <2>1
    <3> HIDE DEF s, h, p
    <3> QED BY <3>1
  <2> QED BY <1>3, <2>2
<1>5. ASSUME Fits, AllCarry
      PROVE  (\E m \in 0 .. n : StandsBehind(m))' /\ got'.opts = Tails
  <2>1. PICK m \in 0 .. n : StandsBehind(m)
    BY <1>5 DEF Decoding
  <2>2. n \in Nat /\ Tails \in Seq(Options) /\ Len(Tails) = n
    BY <1>5, EndsAre, TailsAre DEF AsBuilt
  <2>3. m = n
    <3> SUFFICES ASSUME m # n PROVE FALSE
      OBVIOUS
    <3>1. m \in 0 .. n - 1
      BY <2>2
    <3>2. option_start < header_length /\ option_kind # EOL
      BY <1>5, <2>1, <3>1, PlaceRead DEF StandsBehind, EOL, NOP
    <3> QED BY <1>1, <3>2 DEF MoreOptions, option_kind
  <2>4. got.opts = SubSeq(Tails, 1, n)
    BY <2>1, <2>3 DEF StandsBehind
  <2>5. got.opts = Tails
    BY <2>2, <2>4, SubSeqFull
  <2>6. (\E j \in 0 .. n : StandsBehind(j))'
    BY <1>1, <1>3, <2>1, SamePlace
  <2> QED BY <1>3, <2>5, <2>6
<1> QED BY <1>1, <1>4, <1>5, SamePremises DEF Decoding

-----------------------------------------------------------------------------
LEMMA BuildKeeps == CodecInv /\ BuildStep => CodecInv'
<1> SUFFICES ASSUME CodecInv, BuildStep PROVE CodecInv'
  OBVIOUS
<1>1. building \in {"sizing", "emitting"}
  BY DEF BuildStep, Build!Next, Build!SizeOption, Build!Pad, Build!EmitOption,
         Build!TooLarge, Build!Finish
<1>2. decoding = "waiting" /\ Fresh
  BY <1>1 DEF CodecInv
<1>3. decoding' = "waiting" /\ Fresh'
  BY <1>2 DEF BuildStep, decodeOnly, Fresh
<1>4. CASE Build!SizeOption
  <2>1. Sizing
    BY <1>4 DEF CodecInv, Build!SizeOption
  <2> QED BY <1>3, <1>4, <2>1, SizeOptionKeeps DEF CodecInv
<1>5. CASE Build!Pad
  <2>1. Sizing
    BY <1>5 DEF CodecInv, Build!Pad
  <2> QED BY <1>3, <1>5, <2>1, PadKeeps DEF CodecInv
<1>6. CASE Build!TooLarge
  <2>1. building' = "runtime_error"
    BY <1>6 DEF Build!TooLarge
  <2> QED BY <1>3, <2>1 DEF CodecInv
<1>7. CASE Build!EmitOption
  <2>1. Emitting
    BY <1>7 DEF CodecInv, Build!EmitOption
  <2> QED BY <1>3, <1>7, <2>1, EmitOptionKeeps DEF CodecInv
<1>8. CASE Build!Finish
  <2>1. Emitting
    BY <1>8 DEF CodecInv, Build!Finish
  <2> QED BY <1>3, <1>8, <2>1, FinishKeeps DEF CodecInv
<1> QED BY <1>4, <1>5, <1>6, <1>7, <1>8 DEF BuildStep, Build!Next

LEMMA DeliverKeeps == CodecInv /\ Deliver => CodecInv'
<1> SUFFICES ASSUME CodecInv, Deliver PROVE CodecInv'
  OBVIOUS
<1>1. /\ building = "built" /\ decoding = "waiting" /\ decoding' = "header"
      /\ UNCHANGED <<pkt, building, padding_bytes, wire, option_start, got>>
  BY DEF Deliver, buildOnly
<1>2. AsBuilt /\ Fresh
  BY <1>1 DEF CodecInv
<1>3. AsBuilt'
  BY <1>1, <1>2, BuiltStays
<1>4. Decoding'
  BY <1>1, <1>2, StartDecoding
<1>5. Inv'
  <2>1. /\ WellFormed(wire)' /\ (decoding = "header")'
        /\ (option_start = 20)' /\ (got = EmptyPacket)'
    BY <1>1, <1>2, <1>3 DEF AsBuilt, Fresh, EmptyPacket
  <2> QED BY <2>1, StartsInvariant, PTL
<1> QED BY <1>1, <1>3, <1>4, <1>5 DEF CodecInv

LEMMA DecodeKeeps == CodecInv /\ DecodeStep => CodecInv'
<1> SUFFICES ASSUME CodecInv, DecodeStep PROVE CodecInv'
  OBVIOUS
<1>1. Next /\ UNCHANGED <<pkt, building, padding_bytes>>
  BY DEF DecodeStep, buildOnly
<1>2. decoding # "waiting" /\ decoding' # "waiting" /\ wire' = wire
  BY <1>1 DEF Next, RejectHeader, AcceptHeader, SkipNOP, OptionLengthRequired,
              OptionTooLong, ReversedRange, TakeOption, TakePayload, MoreOptions
<1>3. building \in {"built", "elsewhere"} /\ Inv
  BY <1>2 DEF CodecInv
<1>4. Inv'
  BY <1>1, <1>3, StepInv
<1>5. CASE building = "built"
  <2>1. AsBuilt /\ Decoding
    BY <1>2, <1>5 DEF CodecInv
  <2>2. AsBuilt'
    BY <1>1, <1>2, <2>1, BuiltStays
  <2>3. Decoding'
    BY <1>1, <1>3, <2>1, HeaderDecoding, TakePayloadDecoding, OptionStepDecoding
       DEF Next
  <2> QED BY <1>1, <1>2, <1>4, <1>5, <2>2, <2>3 DEF CodecInv
<1>6. CASE building = "elsewhere"
  BY <1>1, <1>2, <1>4, <1>6 DEF CodecInv
<1> QED BY <1>3, <1>5, <1>6

LEMMA StutterKeeps == CodecInv /\ UNCHANGED codecVars => CodecInv'
<1> SUFFICES ASSUME CodecInv, UNCHANGED codecVars PROVE CodecInv'
  OBVIOUS
<1>1. UNCHANGED <<pkt, building, k, header_size, padding_bytes, data, wire,
                  decoding, option_start, got>>
  BY DEF codecVars, buildOnly, decodeOnly
<1>2. End' = End /\ Written' = Written /\ Length' = Length
  BY <1>1, SamePacket
<1>3. building = "sizing" => Sizing'
  BY <1>1, <1>2 DEF CodecInv, Sizing
<1>4. building = "emitting" => Emitting'
  BY <1>1, <1>2 DEF CodecInv, Emitting
<1>5. building = "built" => AsBuilt'
  BY <1>1, BuiltStays DEF CodecInv
<1>6. decoding # "waiting" => Inv'
  BY <1>1, StepInv DEF CodecInv, decodeVars
<1>7. Fresh => Fresh'
  BY <1>1 DEF Fresh
<1>8. ASSUME Decoding PROVE Decoding'
  <2>1. Fits /\ AllCarry => (\E m \in 0 .. Len(pkt.opts) : StandsBehind(m))'
    BY <1>1, <1>8, SamePlace DEF Decoding
  <2>2. (Fits' <=> Fits) /\ (AllCarry' <=> AllCarry) /\ Tails' = Tails
    BY <1>1, SamePremises
  <2> QED BY <1>1, <1>8, <2>1, <2>2 DEF Decoding
<1> QED BY <1>1, <1>3, <1>4, <1>5, <1>6, <1>7, <1>8 DEF CodecInv

LEMMA CodecInvHolds == CodecSpec => []CodecInv
<1>1. CodecInv /\ [CodecNext]_codecVars => CodecInv'
  BY BuildKeeps, DeliverKeeps, DecodeKeeps, StutterKeeps DEF CodecNext
<1> QED BY <1>1, InitCodecInv, PTL DEF CodecSpec

-----------------------------------------------------------------------------
(* Decoding its own segments or others', the option loop of decodeFrom     *)
(* never stands outside the header.                                        *)
THEOREM CodecStaysInHeader == CodecSpec => []StaysInHeader
<1>1. CodecInv => StaysInHeader
  BY DEF CodecInv, Inv, StaysInHeader
<1> QED BY <1>1, CodecInvHolds, PTL

(* No byte of the header belongs to two options that decodeFrom found,     *)
(* whatever lengths the options claim.                                     *)
THEOREM OptionsNeverOverlap == CodecSpec => []OptionsDisjoint
<1>1. CodecInv => OptionsDisjoint
  <2> SUFFICES ASSUME CodecInv PROVE OptionsDisjoint
    OBVIOUS
  <2>1. CASE decoding = "waiting"
    <3>1. option_start = 20 /\ got.opts = <<>>
      BY <2>1 DEF CodecInv, Fresh, EmptyPacket
    <3> QED BY <3>1, NoSize DEF OptionsDisjoint
  <2>2. CASE decoding # "waiting"
    BY <2>2 DEF CodecInv, Inv
  <2> QED BY <2>1, <2>2
<1> QED BY <1>1, CodecInvHolds, PTL

(* The data offset that build computes in its first loop is that of the    *)
(* options its second loop emits, up to its four bits.                     *)
THEOREM LoopsOfBuildAgree == CodecSpec => []OffsetMatchesHeader
<1>1. CodecInv => OffsetMatchesHeader
  <2>1. CodecInv /\ building = "built" => wire.data_offset * 4 = HeaderBytes % 64
    BY DEF CodecInv, AsBuilt, LengthsHold
  <2>2. HeaderBytes = 20 + Len(wire.area)
    BY DEF HeaderBytes
  <2> QED BY <2>1, <2>2 DEF OffsetMatchesHeader, Build!OffsetMatchesHeader
<1> QED BY <1>1, CodecInvHolds, PTL

(* What decodeFrom accepts of a header that fits has the size of payload   *)
(* that build put behind it, whatever became of the options.               *)
THEOREM PayloadComesBack == CodecSpec => []PayloadSurvives
<1>1. CodecInv => PayloadSurvives
  BY DEF CodecInv, Decoding, PayloadSurvives, Returned, Outcomes
<1> QED BY <1>1, CodecInvHolds, PTL

(* Options that carry their own length, in a header that fits, are decoded *)
(* and come back without it, however many there are, whatever their data,  *)
(* and also when the last one ends with the header.                        *)
THEOREM CarriedLengthsComeBack == CodecSpec => []OptionsWithLengthComeBack
<1>1. CodecInv => OptionsWithLengthComeBack
  <2> SUFFICES ASSUME CodecInv, Returned, Fits, AllCarry
               PROVE  decoding = "decoded" /\ got.opts = Tails
    BY DEF OptionsWithLengthComeBack, AllCarry, Tails
  <2>1. Decoding /\ decoding \in Outcomes
    BY DEF CodecInv, Returned, Outcomes
  <2>2. decoding \in {"header", "options", "decoded"}
        /\ (decoding = "decoded" => got.opts = Tails)
    BY <2>1 DEF Decoding
  <2>3. decoding = "decoded"
    BY <2>1, <2>2 DEF Outcomes
  <2> QED BY <2>2, <2>3
<1> QED BY <1>1, CodecInvHolds, PTL
=============================================================================
