-------------------------- MODULE IPv4CodecProofs --------------------------
(***************************************************************************)
(* Proofs about IPv4Decode.tla and IPv4Codec.tla, for every datagram and   *)
(* every packet.  First decodeFrom alone: types, that the option loop      *)
(* stays inside the header it was told of and moves forward, and that no   *)
(* byte belongs to two options; the invariant adds to the type invariant   *)
(* where the loop stands.  Then a packet on its way through build and      *)
(* decodeFrom: the invariant says which bytes each option became, and that *)
(* the decoder stands where an option begins, or in the padding.           *)
(***************************************************************************)
EXTENDS IPv4Codec, Lemmas

FreshCursor == decoding = "header" => prev_opt_end = 20

Inv == TypeOK /\ StaysInHeader /\ FreshCursor /\ OptionsDisjoint

(* The parts of the type invariant, one by one: the prover reasons about   *)
(* numbers best where no sequence is in sight.                             *)
PacketsOver(S) == [dscp : 0 .. 63, ecn : 0 .. 3, df : BOOLEAN, mf : BOOLEAN,
                   frag : 0 .. MaxOffset, opts : S, payload : UInt16]

LEMMA Limits == MaxUInt16 \in Nat /\ MaxOffset \in Nat
BY DEF MaxUInt16, MaxOffset

LEMMA Parts ==
  ASSUME Inv
  PROVE  /\ wire.ihl \in 0 .. 15 /\ wire.size \in Nat /\ wire.tos \in UInt8
         /\ wire.total \in UInt16 /\ wire.flagsFrag \in UInt16
         /\ prev_opt_end \in 20 .. 59
<1>1. wire \in Wires /\ prev_opt_end \in 20 .. 59
  BY DEF Inv, TypeOK, WellFormed
<1>2. wire.ihl \in 0 .. 15 /\ wire.size \in Nat /\ wire.tos \in UInt8
      /\ wire.total \in UInt16 /\ wire.flagsFrag \in UInt16
  BY <1>1 DEF Wires
<1> QED BY <1>1, <1>2

LEMMA AreaIsBytes == ASSUME Inv PROVE wire.area \in Seq(UInt8)
<1>1. wire \in Wires
  BY DEF Inv, TypeOK, WellFormed
<1> QED BY <1>1 DEF Wires

LEMMA GotIsPacket == ASSUME Inv PROVE got \in PacketsOver(Seq(Options))
BY DEF Inv, TypeOK, PacketsOver

(* Changing one part of a packet keeps the others.                         *)
LEMMA SetOpts ==
  ASSUME NEW S, NEW g \in PacketsOver(S), NEW o \in S
  PROVE  /\ [g EXCEPT !.opts = o] \in PacketsOver(S)
         /\ [g EXCEPT !.opts = o].opts = o
BY DEF PacketsOver

LEMMA GetOpts == ASSUME NEW S, NEW g \in PacketsOver(S) PROVE g.opts \in S
BY DEF PacketsOver

LEMMA SetPayload ==
  ASSUME NEW S, NEW g \in PacketsOver(S), NEW n \in UInt16
  PROVE  [g EXCEPT !.payload = n] \in PacketsOver(S)
BY DEF PacketsOver

LEMMA SetHeader ==
  ASSUME NEW S, NEW g \in PacketsOver(S), NEW dscp \in 0 .. 63, NEW ecn \in 0 .. 3,
         NEW df \in BOOLEAN, NEW mf \in BOOLEAN, NEW frag \in 0 .. MaxOffset
  PROVE  [g EXCEPT !.dscp = dscp, !.ecn = ecn, !.df = df, !.mf = mf,
                   !.frag = frag] \in PacketsOver(S)
BY DEF PacketsOver

(* Once the header is accepted it is inside the datagram, and the area     *)
(* holds the rest of it.                                                   *)
LEMMA HeaderBounds ==
  ASSUME Inv, header_length >= 20, header_length <= wire.size
  PROVE  header_length \in 20 .. 60 /\ header_length - 20 <= Len(wire.area)
<1>1. header_length \in 20 .. 60
  BY Parts DEF header_length
<1>2. header_length - 20 <= Len(wire.area)
  BY DEF Inv, TypeOK, WellFormed, header_length
<1> QED BY <1>1, <1>2

(* A byte of the area                                                      *)
LEMMA AreaByte ==
  ASSUME NEW S, NEW area \in Seq(S), NEW h \in Nat, h - 20 <= Len(area),
         NEW o \in 20 .. h - 1
  PROVE  area[o - 19] \in S
<1>1. Len(area) \in Nat
  OBVIOUS
<1>2. o - 19 \in 1 .. Len(area)
  BY <1>1
<1> QED BY <1>2, ElementOfSeq

(* What a pass of the loop knows: the type byte and the length byte that   *)
(* it reads are bytes of the option area.                                  *)
LEMMA OptionBytes ==
  ASSUME Inv, MoreOptions
  PROVE  /\ prev_opt_end \in 20 .. header_length - 2
         /\ header_length \in 20 .. 60
         /\ header_length - 20 <= Len(wire.area)
         /\ option_type \in UInt8
         /\ option_len \in UInt8
<1>1. prev_opt_end < header_length - 1 /\ header_length <= wire.size
  BY DEF Inv, StaysInHeader, MoreOptions
<1>2. wire.ihl \in 0 .. 15 /\ prev_opt_end \in 20 .. 59
  BY Parts
<1>3. header_length >= 20 /\ prev_opt_end \in 20 .. header_length - 2
  BY <1>1, <1>2 DEF header_length
<1>4. header_length \in 20 .. 60 /\ header_length - 20 <= Len(wire.area)
  BY <1>1, <1>3, HeaderBounds
<1>5. header_length \in Nat /\ prev_opt_end \in 20 .. header_length - 1
      /\ prev_opt_end + 1 \in 20 .. header_length - 1
  BY <1>3, <1>4
<1>6. wire.area[prev_opt_end - 19] \in UInt8
  BY <1>4, <1>5, AreaIsBytes, AreaByte
<1>7. wire.area[(prev_opt_end + 1) - 19] \in UInt8
  BY <1>4, <1>5, AreaIsBytes, AreaByte
<1> QED BY <1>3, <1>4, <1>6, <1>7 DEF option_type, option_len, At

(* The value that TakeOption copies is a sequence of bytes.                *)
LEMMA ValueIsBytes ==
  ASSUME Inv, TakeOption
  PROVE  option_value \in Seq(UInt8) /\ Len(option_value) = option_len - 2
<1> DEFINE m == prev_opt_end - 17
           n == prev_opt_end + option_len - 20
<1>1. /\ prev_opt_end \in 20 .. header_length - 2 /\ header_length \in 20 .. 60
      /\ option_len \in 0 .. 255
      /\ prev_opt_end + option_len < header_length
      /\ ~(option_len < 2)
  BY OptionBytes DEF TakeOption, FitsHeader, UInt8, TooShort
<1>2. m \in Int /\ n \in Int /\ m >= 1 /\ n + 20 < header_length
      /\ header_length \in Nat
      /\ (IF m <= n THEN n - m + 1 ELSE 0) = option_len - 2
  BY <1>1
<1>3. header_length - 20 <= Len(wire.area) /\ wire.area \in Seq(UInt8)
  BY OptionBytes, AreaIsBytes DEF TakeOption
<1> HIDE DEF m, n
<1>4. \A o \in m .. n : wire.area[o] \in UInt8
  <2> SUFFICES ASSUME NEW o \in m .. n PROVE wire.area[o] \in UInt8
    OBVIOUS
  <2>1. o + 19 \in 20 .. header_length - 1 /\ (o + 19) - 19 = o
    BY <1>2
  <2>2. wire.area[(o + 19) - 19] \in UInt8
    BY <1>2, <1>3, <2>1, AreaByte
  <2> QED BY <2>1, <2>2
<1>5. /\ SubSeq(wire.area, m, n) \in Seq(UInt8)
      /\ Len(SubSeq(wire.area, m, n)) = IF m <= n THEN n - m + 1 ELSE 0
  BY <1>2, <1>4, SubSeqProperties
<1> QED BY <1>2, <1>5 DEF m, n, option_value

(* The size of the options, as numbers that are added                      *)
LEMMA EncodedSizeIs ==
  ASSUME NEW o \in Options
  PROVE  /\ EncodedSize(o) \in Nat /\ EncodedSize(o) >= 1
         /\ EncodedSize(o) <= 2 + Len(o.value)
         /\ o.type = NOP => EncodedSize(o) = 1
<1>1. Len(o.value) \in Nat
  BY LenProperties DEF Options
<1> QED BY <1>1 DEF EncodedSize

LEMMA SizesAre ==
  ASSUME NEW s \in Seq(Options)
  PROVE  LET w == [j \in 1 .. Len(s) |-> EncodedSize(s[j])]
         IN  Len(w) = Len(s) /\ \A j \in 1 .. Len(s) : w[j] \in Nat
<1>1. Len(s) \in Nat /\ \A j \in 1 .. Len(s) : s[j] \in Options
  BY LenProperties, ElementOfSeq
<1> QED BY <1>1, EncodedSizeIs

LEMMA SizeAppended ==
  ASSUME NEW s \in Seq(Options), NEW o \in Options
  PROVE  /\ TotalSize(s) \in Nat
         /\ TotalSize(Append(s, o)) = TotalSize(s) + EncodedSize(o)
<1> DEFINE n == Len(s)
           t == Append(s, o)
           w == [j \in 1 .. Len(s) |-> EncodedSize(s[j])]
           v == [j \in 1 .. Len(t) |-> EncodedSize(t[j])]
<1>1. /\ n \in Nat /\ t \in Seq(Options) /\ Len(t) = n + 1 /\ t[n + 1] = o
      /\ \A j \in 1 .. n : t[j] = s[j]
  BY AppendProperties, LenProperties
<1> HIDE DEF t
<1>2. /\ Len(w) = n /\ \A j \in 1 .. n : w[j] \in Nat
      /\ Len(v) = Len(t) /\ \A j \in 1 .. Len(t) : v[j] \in Nat
  BY <1>1, SizesAre
<1>3. v[n + 1] = EncodedSize(o) /\ \A j \in 1 .. n : v[j] = w[j]
  BY <1>1
<1>4. TotalSize(s) = Total(w) /\ TotalSize(t) = Total(v)
  BY DEF TotalSize
<1> HIDE DEF n, w, v
<1>5. Len(v) = n + 1 /\ \A j \in 1 .. n + 1 : v[j] \in Nat
  BY <1>1, <1>2
<1>6. Total(w) \in Nat /\ Total(v) = Total(w) + v[n + 1]
  <2>1. n \in Nat /\ Len(w) = n /\ \A j \in 1 .. n : w[j] \in Nat
    BY <1>1, <1>2
  <2>2. \A j \in 1 .. n : v[j] = w[j]
    BY <1>3
  <2> QED BY <1>5, <2>1, <2>2, TotalAppended, ZenonT(30)
<1> QED BY <1>3, <1>4, <1>6 DEF t

LEMMA NoSize == TotalSize(<<>>) = 0
<1> DEFINE w == [j \in 1 .. Len(<<>>) |-> EncodedSize(<<>>[j])]
<1>1. Len(w) = 0 /\ \A j \in 1 .. 0 : w[j] \in Nat
  BY EmptySeq
<1>2. TotalSize(<<>>) = SumsUpTo(w)[Len(w)]
  BY DEF TotalSize, Total
<1> HIDE DEF w
<1>3. SumsUpTo(w)[0] = 0
  BY <1>1, SumsAre
<1> QED BY <1>1, <1>2, <1>3

(* An option step appends an option, or nothing.                           *)
LEMMA OptionStep ==
  ASSUME Inv, TakeOption \/ SkipPad
  PROVE  /\ \/ \E o \in Options :
                 /\ got' = [got EXCEPT !.opts = Append(got.opts, o)]
                 /\ prev_opt_end' >= prev_opt_end + EncodedSize(o)
            \/ got' = got
         /\ UNCHANGED <<wire, verify, decoding>>
         /\ decoding = "options"
         /\ prev_opt_end' \in prev_opt_end + 1 .. header_length - 1
<1>1. MoreOptions /\ decoding = "options" /\ UNCHANGED <<wire, verify, decoding>>
  BY DEF TakeOption, SkipPad, BehindPad, MoreOptions
<1>2. /\ prev_opt_end \in 20 .. header_length - 2 /\ header_length \in 20 .. 60
      /\ option_type \in UInt8 /\ option_len \in 0 .. 255
  BY <1>1, OptionBytes DEF UInt8
<1>3. CASE TakeOption
  <2>1. /\ option_len >= 2 /\ prev_opt_end + option_len < header_length
        /\ prev_opt_end' = prev_opt_end + option_len
    <3>1. /\ ~(option_len < 2) /\ prev_opt_end + option_len < header_length
          /\ prev_opt_end' = prev_opt_end + option_len
      BY <1>3 DEF TakeOption, TooShort, FitsHeader, NextOption
    <3>2. option_len \in Int
      BY <1>2
    <3> QED BY <3>1, <3>2
  <2>2. prev_opt_end' \in prev_opt_end + 1 .. header_length - 1
    BY <1>2, <2>1
  <2> DEFINE o == [type |-> option_type, value |-> option_value]
  <2>3. o \in Options
    BY <1>2, <1>3, ValueIsBytes DEF Options
  <2>5. prev_opt_end' >= prev_opt_end + EncodedSize(o)
    <3>1. EncodedSize(o) \in Nat /\ EncodedSize(o) <= 2 + Len(o.value)
          /\ Len(o.value) = option_len - 2
      BY <1>3, <2>3, EncodedSizeIs, ValueIsBytes
    <3> HIDE DEF o
    <3> QED BY <1>2, <2>1, <3>1
  <2>4. got' = [got EXCEPT !.opts = Append(got.opts, o)]
    BY <1>3 DEF TakeOption
  <2> HIDE DEF o
  <2> QED BY <1>1, <2>2, <2>3, <2>4, <2>5
<1>4. CASE SkipPad
  <2>1. prev_opt_end' = prev_opt_end + 1
    BY <1>4 DEF SkipPad, BehindPad
  <2>2. prev_opt_end' \in prev_opt_end + 1 .. header_length - 1
    BY <1>2, <2>1
  <2> DEFINE o == [type |-> NOP, value |-> <<>>]
  <2>3. o \in Options
    <3>1. NOP \in UInt8
      BY DEF NOP, UInt8
    <3> QED BY <3>1 DEF Options
  <2>4. got' = [got EXCEPT !.opts = Append(got.opts, o)] \/ got' = got
    BY <1>4 DEF SkipPad, BehindPad
  <2>5. prev_opt_end' >= prev_opt_end + EncodedSize(o)
    <3>1. EncodedSize(o) = 1
      BY <2>3, EncodedSizeIs
    <3> HIDE DEF o
    <3> QED BY <1>2, <2>1, <3>1
  <2> HIDE DEF o
  <2> QED BY <1>1, <2>2, <2>3, <2>4, <2>5
<1> QED BY <1>3, <1>4
-----------------------------------------------------------------------------
LEMMA EmptyIsPacket == EmptyPacket \in PacketsOver(Seq(Options))
<1>1. <<>> \in Seq(Options)
  OBVIOUS
<1>2. \A S : <<>> \in S => EmptyPacket \in PacketsOver(S)
  BY Limits DEF EmptyPacket, PacketsOver, UInt16
<1> QED BY <1>1, <1>2

LEMMA InitInv == Init => Inv
<1> SUFFICES ASSUME Init PROVE Inv
  OBVIOUS
<1>1. WellFormed(wire) /\ verify \in BOOLEAN /\ decoding = "header"
      /\ prev_opt_end = 20 /\ got = EmptyPacket
  BY DatagramsAssumption DEF Init, Start
<1>2. EmptyPacket \in PacketsOver(Seq(Options))
  BY EmptyIsPacket
<1>3. prev_opt_end \in 20 .. 59 /\ decoding # "options"
  BY <1>1
<1>4. OptionsDisjoint
  <2>1. got.opts = <<>>
    BY <1>1 DEF EmptyPacket
  <2> QED BY <1>1, <2>1, NoSize DEF OptionsDisjoint
<1> QED BY <1>1, <1>2, <1>3, <1>4
           DEF Inv, TypeOK, StaysInHeader, PacketsOver, FreshCursor

(* The invariant, put together again after a step of which the parts are   *)
(* known                                                                   *)
LEMMA PutTogether ==
  ASSUME Inv, UNCHANGED <<wire, verify>>,
         decoding' \in {"header", "options"} \cup Outcomes,
         prev_opt_end' \in 20 .. 59,
         got' \in PacketsOver(Seq(Options)),
         StaysInHeader', FreshCursor', OptionsDisjoint'
  PROVE  Inv'
BY DEF Inv, TypeOK, WellFormed, PacketsOver

LEMMA SameOptions ==
  ASSUME Inv, got'.opts = got.opts, prev_opt_end' = prev_opt_end
  PROVE  OptionsDisjoint'
BY DEF Inv, OptionsDisjoint

LEMMA StepInv == Inv /\ [Next]_decodeVars => Inv'
<1> SUFFICES ASSUME Inv, [Next]_decodeVars PROVE Inv'
  OBVIOUS
<1>1. CASE RejectHeader \/ OptionTooLong \/ ReversedRange
  <2>1. /\ UNCHANGED <<wire, verify, prev_opt_end, got>>
        /\ decoding' \in {"invalid_argument", "length_error"}
    BY <1>1 DEF RejectHeader, OptionTooLong, ReversedRange
  <2>2. StaysInHeader' /\ FreshCursor' /\ decoding' \in Outcomes
    BY <2>1 DEF StaysInHeader, FreshCursor, Outcomes
  <2> QED BY <2>1, <2>2, Parts, GotIsPacket, SameOptions, PutTogether
<1>2. CASE AcceptHeader
  <2>0. wire.tos \in 0 .. 255 /\ wire.flagsFrag \in Nat
        /\ wire.ihl \in 0 .. 15 /\ wire.size \in Nat
    BY Parts, Limits DEF UInt8, UInt16
  <2>1. /\ UNCHANGED <<wire, verify, prev_opt_end>> /\ decoding' = "options"
        /\ decoding = "header"
        /\ ~(header_length < 20) /\ ~(header_length > wire.size)
    BY <1>2 DEF AcceptHeader, HeaderRejected
  <2>2. header_length \in Nat /\ header_length >= 20 /\ header_length <= wire.size
    BY <2>0, <2>1 DEF header_length
  <2>3. header_length \in 20 .. 60
    BY <2>2, HeaderBounds
  <2>4. wire.tos \div 4 \in 0 .. 63 /\ wire.tos % 4 \in 0 .. 3
        /\ wire.flagsFrag % (MaxOffset + 1) \in 0 .. MaxOffset
    BY <2>0, Limits
  <2>5. Bit(wire.flagsFrag, 14) \in BOOLEAN /\ Bit(wire.flagsFrag, 13) \in BOOLEAN
    BY DEF Bit
  <2>6. got' \in PacketsOver(Seq(Options))
    BY <1>2, <2>4, <2>5, GotIsPacket, SetHeader, ZenonT(30) DEF AcceptHeader
  <2>7. prev_opt_end \in 20 .. 59 /\ (decoding = "header" => prev_opt_end = 20)
    BY Parts DEF Inv, FreshCursor
  <2>8. prev_opt_end = 20
    BY <2>1, <2>7
  <2>9. header_length' = header_length /\ prev_opt_end' = 20 /\ wire' = wire
    BY <2>1, <2>8 DEF header_length
  <2>10. StaysInHeader'
    BY <2>0, <2>1, <2>2, <2>9 DEF StaysInHeader, MoreOptions
  <2>11. FreshCursor'
    BY <2>1 DEF FreshCursor
  <2>12. got'.opts = got.opts
    BY <1>2 DEF AcceptHeader
  <2> QED BY <2>1, <2>6, <2>7, <2>10, <2>11, <2>12, SameOptions, PutTogether
<1>3. CASE TakeOption \/ SkipPad
  <2>1. /\ \/ \E o \in Options :
                /\ got' = [got EXCEPT !.opts = Append(got.opts, o)]
                /\ prev_opt_end' >= prev_opt_end + EncodedSize(o)
           \/ got' = got
        /\ UNCHANGED <<wire, verify, decoding>>
        /\ decoding = "options"
        /\ prev_opt_end' \in prev_opt_end + 1 .. header_length - 1
    BY <1>3, OptionStep
  <2>2. got' \in PacketsOver(Seq(Options))
    <3>1. got \in PacketsOver(Seq(Options)) /\ got.opts \in Seq(Options)
      BY GotIsPacket, GetOpts
    <3>2. ASSUME NEW o \in Options
          PROVE  [got EXCEPT !.opts = Append(got.opts, o)] \in PacketsOver(Seq(Options))
      <4>1. Append(got.opts, o) \in Seq(Options)
        BY <3>1, AppendProperties
      <4> QED BY <3>1, <4>1, SetOpts
    <3> QED BY <2>1, <3>1, <3>2
  <2>3. MoreOptions
    BY <1>3 DEF TakeOption, SkipPad, BehindPad
  <2>4. header_length \in 20 .. 60 /\ prev_opt_end \in 20 .. 59
        /\ header_length <= wire.size
    BY <2>3, OptionBytes, Parts DEF Inv, StaysInHeader, MoreOptions
  <2>5. prev_opt_end' \in 20 .. 59 /\ prev_opt_end' <= header_length - 1
    <3>1. prev_opt_end' \in prev_opt_end + 1 .. header_length - 1
      BY <2>1
    <3> QED BY <3>1, <2>4
  <2>6. header_length' = header_length
    BY <2>1 DEF header_length
  <2>7. StaysInHeader'
    <3>1. header_length' <= wire'.size
      BY <2>1, <2>4, <2>6
    <3>2. prev_opt_end' <= header_length
      BY <2>4, <2>5
    <3> QED BY <2>6, <3>1, <3>2 DEF StaysInHeader
  <2>8. FreshCursor'
    BY <2>1 DEF FreshCursor
  <2>9. OptionsDisjoint'
    <3>1. got \in PacketsOver(Seq(Options)) /\ got.opts \in Seq(Options)
      BY GotIsPacket, GetOpts
    <3>2. prev_opt_end \in 20 .. 59 /\ prev_opt_end' > prev_opt_end
          /\ prev_opt_end' \in 20 .. 59
      <4>1. prev_opt_end' \in prev_opt_end + 1 .. header_length - 1
        BY <2>1
      <4> QED BY <2>4, <2>5, <4>1
    <3>3. TotalSize(got.opts) <= prev_opt_end - 20 /\ TotalSize(got.opts) \in Nat
      <4>1. NOP \in UInt8
        BY DEF NOP, UInt8
      <4>2. [type |-> NOP, value |-> <<>>] \in Options
        BY <4>1 DEF Options
      <4> QED BY <3>1, <4>2, SizeAppended DEF Inv, OptionsDisjoint
    <3>4. CASE got' = got
      <4>1. TotalSize(got'.opts) <= prev_opt_end' - 20
        BY <3>2, <3>3, <3>4
      <4> QED BY <4>1 DEF OptionsDisjoint
    <3>5. CASE \E o \in Options :
                 /\ got' = [got EXCEPT !.opts = Append(got.opts, o)]
                 /\ prev_opt_end' >= prev_opt_end + EncodedSize(o)
      <4>1. PICK o \in Options :
                 /\ got' = [got EXCEPT !.opts = Append(got.opts, o)]
                 /\ prev_opt_end' >= prev_opt_end + EncodedSize(o)
        BY <3>5
      <4>2. Append(got.opts, o) \in Seq(Options)
        BY <3>1, AppendProperties
      <4>3. got'.opts = Append(got.opts, o)
        BY <3>1, <4>1, <4>2, SetOpts
      <4>4. TotalSize(got'.opts) = TotalSize(got.opts) + EncodedSize(o)
            /\ EncodedSize(o) \in Nat
        BY <3>1, <4>3, SizeAppended, EncodedSizeIs
      <4>5. TotalSize(got'.opts) <= prev_opt_end' - 20
        <5>1. prev_opt_end' >= prev_opt_end + EncodedSize(o)
          BY <4>1
        <5>2. prev_opt_end \in Int /\ prev_opt_end' \in Int
          BY <3>2
        <5> QED BY <3>3, <4>4, <5>1, <5>2
      <4> QED BY <4>5 DEF OptionsDisjoint
    <3> QED BY <2>1, <3>4, <3>5
  <2> QED BY <2>1, <2>2, <2>5, <2>7, <2>8, <2>9, PutTogether
<1>4. CASE TakePayload
  <2>1. wire.ihl \in 0 .. 15 /\ wire.total \in 0 .. MaxUInt16
    BY Parts DEF UInt16
  <2> DEFINE n == IF wire.total > header_length
                  THEN wire.total - header_length ELSE 0
  <2>2. n \in UInt16
    BY <2>1, Limits DEF header_length, UInt16
  <2>3. got' = [got EXCEPT !.payload = n] /\ decoding' = "decoded"
        /\ UNCHANGED <<wire, verify, prev_opt_end>>
    BY <1>4 DEF TakePayload
  <2> HIDE DEF n
  <2>4. got' \in PacketsOver(Seq(Options))
    BY <2>2, <2>3, GotIsPacket, SetPayload
  <2>5. StaysInHeader' /\ FreshCursor' /\ decoding' \in Outcomes
    BY <2>3 DEF StaysInHeader, Outcomes, FreshCursor
  <2>6. got'.opts = got.opts
    BY <2>3
  <2> QED BY <2>3, <2>4, <2>5, <2>6, Parts, SameOptions, PutTogether
<1>5. CASE UNCHANGED decodeVars
  <2>1. UNCHANGED <<wire, verify, prev_opt_end, got, decoding>>
    BY <1>5 DEF decodeVars
  <2>2. StaysInHeader' /\ FreshCursor'
    BY <2>1 DEF Inv, StaysInHeader, header_length, FreshCursor
  <2>3. decoding \in {"header", "options"} \cup Outcomes
    BY DEF Inv, TypeOK
  <2> QED BY <2>1, <2>2, <2>3, Parts, GotIsPacket, SameOptions, PutTogether
<1> QED BY <1>1, <1>2, <1>3, <1>4, <1>5 DEF Next

(* decodeFrom keeps its types for every datagram it may be called on.      *)
THEOREM DecodeTypeCorrect == Spec => []TypeOK
<1>1. Inv => TypeOK
  BY DEF Inv
<1> QED BY InitInv, StepInv, <1>1, PTL DEF Spec

(* The option loop never stands outside the header nor reads a byte behind *)
(* it, whatever lengths the options claim.                                 *)
THEOREM OptionLoopStaysInHeader == Spec => []StaysInHeader
<1>1. Inv => StaysInHeader
  BY DEF Inv
<1> QED BY InitInv, StepInv, <1>1, PTL DEF Spec

(* A pass of the loop that goes on moves forward and keeps what it has.     *)
LEMMA StepAdvances ==
  ASSUME Inv, Next, MoreOptions, decoding' = "options"
  PROVE  /\ prev_opt_end' > prev_opt_end
         /\ SubSeq(got'.opts, 1, Len(got.opts)) = got.opts
<1>1. TakeOption \/ SkipPad
  BY DEF Next, RejectHeader, AcceptHeader, OptionTooLong, ReversedRange,
         TakePayload, MoreOptions
<1>2. /\ \/ \E o \in Options : got' = [got EXCEPT !.opts = Append(got.opts, o)]
         \/ got' = got
      /\ prev_opt_end' \in prev_opt_end + 1 .. header_length - 1
  BY <1>1, OptionStep
<1>3. prev_opt_end \in 20 .. 59 /\ header_length \in 20 .. 60
  BY Parts, OptionBytes
<1>4. prev_opt_end' > prev_opt_end
  <2>1. prev_opt_end' \in prev_opt_end + 1 .. header_length - 1
    BY <1>2
  <2> QED BY <2>1, <1>3
<1>5. got.opts \in Seq(Options)
  BY GotIsPacket, GetOpts
<1>6. \A o \in Options : SubSeq(Append(got.opts, o), 1, Len(got.opts)) = got.opts
  BY <1>5
<1>7. SubSeq(got.opts, 1, Len(got.opts)) = got.opts
  BY <1>5
<1>8. \A o \in Options :
        got' = [got EXCEPT !.opts = Append(got.opts, o)]
          => got'.opts = Append(got.opts, o)
  <2>1. \A o \in Options : Append(got.opts, o) \in Seq(Options)
    BY <1>5, AppendProperties
  <2> QED BY <2>1, GotIsPacket, SetOpts
<1> QED BY <1>2, <1>4, <1>6, <1>7, <1>8

(* Every pass of the loop that goes on moves forward, and keeps what was   *)
(* decoded before; with the bound above this is why the loop ends.         *)
THEOREM OptionLoopAdvances == Spec => LoopAdvances
<1> DEFINE Advance ==
      MoreOptions /\ decoding' = "options" =>
        /\ prev_opt_end' > prev_opt_end
        /\ SubSeq(got'.opts, 1, Len(got.opts)) = got.opts
<1>1. Inv /\ [Next]_decodeVars => [Advance]_decodeVars
  BY StepAdvances
<1> QED BY InitInv, StepInv, <1>1, PTL DEF Spec, LoopAdvances

-----------------------------------------------------------------------------
(* The options of the packet, as the loops of build see them: the bytes    *)
(* that each becomes, and where it ends among them.                        *)
Sizes   == [j \in 1 .. Len(pkt.opts) |-> Build!SizeOf(pkt.opts[j])]
Written == [j \in 1 .. Len(pkt.opts) |-> Build!Emitted(pkt.opts[j])]
End     == SumsUpTo(Sizes)
Length  == End[Len(pkt.opts)]

(* While the first loop counts, its counter is the end of an option, up to *)
(* its width.                                                              *)
Sizing ==
  /\ pkt \in PacketTypes
  /\ k \in 1 .. Len(pkt.opts) + 1
  /\ ihl_bytes = (20 + End[k - 1]) % 256
  /\ data = <<>>

(* While the second emits, the header length is fixed, and what is emitted *)
(* are the options up to k.                                                *)
Emitting ==
  /\ pkt \in PacketTypes
  /\ k \in 1 .. Len(pkt.opts) + 1
  /\ option_padding \in 0 .. 3
  /\ ihl_bytes \in 0 .. 63 /\ ihl_bytes % 4 = 0
  /\ ihl_bytes = (20 + Length + option_padding) % 256
  /\ data \in Seq(UInt8)
  /\ Spells(data, End, Written, k - 1)
  /\ \A j \in 1 .. k - 1 : Len(pkt.opts[j].value) <= 253

(* The area of the datagram: the options, and zeros up to a multiple of 4  *)
AreaHolds ==
  /\ option_padding \in 0 .. 3
  /\ Len(wire.area) = Length + option_padding
  /\ Len(wire.area) % 4 = 0
  /\ Holds(wire.area, End, Written, Len(pkt.opts))
  /\ \A j \in 1 .. Len(pkt.opts) : Len(pkt.opts[j].value) <= 253
  /\ \A i \in Length + 1 .. Length + option_padding : wire.area[i] = 0

HeaderBytes == 20 + Len(wire.area)

(* Its lengths are as wide as their fields.                                *)
LengthsHold ==
  /\ wire.size = HeaderBytes + pkt.payload
  /\ wire.ihl * 4 = HeaderBytes % 256
  /\ wire.total = (wire.ihl * 4 + (pkt.payload % 65536)) % 65536

(* The checksum is right where the header that is announced is the one     *)
(* that was emitted.                                                       *)
SumHolds == wire.ihl * 4 = HeaderBytes => wire.sumOK

FieldsHold ==
  /\ wire.tos = ((pkt.dscp * 4) % 256) + pkt.ecn
  /\ wire.flagsFrag = Build!FlagsFrag(pkt)

AsBuilt ==
  /\ pkt \in PacketTypes
  /\ WellFormed(wire)
  /\ AreaHolds
  /\ LengthsHold
  /\ SumHolds
  /\ FieldsHold

(* The decoder stands behind m of the options, which it has, or in the     *)
(* padding behind all of them.                                             *)
StandsBehind(m) ==
  /\ \/ prev_opt_end = 20 + End[m]
     \/ m = Len(pkt.opts) /\ prev_opt_end >= 20 + Length
  /\ NoTerminator(pkt) => got.opts = SubSeq(pkt.opts, 1, m)

Genuine ==
  /\ <<got.dscp, got.ecn>> = <<pkt.dscp % 64, pkt.ecn>>
  /\ pkt.frag < 8192 =>
       <<got.df, got.mf, got.frag>> = <<pkt.df, pkt.mf, pkt.frag>>

ComesBack == Fits(pkt) /\ NoTerminator(pkt) /\ PaddingFollows(pkt)

Decoding ==
  /\ \E m \in 0 .. Len(pkt.opts) : StandsBehind(m)
  /\ decoding \in {"options", "decoded"} => wire.total = wire.size /\ Genuine
  /\ decoding = "decoded" =>
       got.payload = pkt.payload /\ prev_opt_end >= header_length - 1
  /\ decoding # "length_error"
  /\ decoding = "invalid_argument" => ~ComesBack

Fresh == prev_opt_end = 20 /\ got = EmptyPacket /\ verify \in BOOLEAN

CodecInv ==
  /\ building \in {"sizing", "emitting", "built", "runtime_error", "elsewhere"}
  /\ building = "sizing" => Sizing
  /\ building = "emitting" => Emitting
  /\ building = "built" => AsBuilt
  /\ IF decoding = "waiting" THEN building # "elsewhere" /\ Fresh
     ELSE building \in {"built", "elsewhere"} /\ Inv
  /\ building = "built" /\ decoding # "waiting" => Decoding

(* What an option becomes: as many bytes as the first loop counts.         *)
LEMMA EmittedIs ==
  ASSUME NEW o \in Options
  PROVE  /\ Build!SizeOf(o) \in Nat /\ Build!SizeOf(o) >= 1
         /\ Build!Emitted(o) \in Seq(UInt8)
         /\ Len(Build!Emitted(o)) = Build!SizeOf(o)
         /\ Build!Emitted(o)[1] = o.type
         /\ Build!HasLength(o) =>
              /\ Build!SizeOf(o) = 2 + Len(o.value)
              /\ Build!Emitted(o)[2] = (Len(o.value) + 2) % 256
              /\ \A i \in 1 .. Len(o.value) : Build!Emitted(o)[2 + i] = o.value[i]
         /\ ~Build!HasLength(o) => Build!SizeOf(o) = 1
<1> DEFINE n == Len(o.value)
           l == (n + 2) % 256
<1>1. n \in Nat /\ o.value \in Seq(UInt8) /\ o.type \in UInt8
  BY LenProperties DEF Options
<1> HIDE DEF n
<1>2. l \in UInt8
  <2>1. n \in Nat
    BY <1>1
  <2>2. (n + 2) % 256 \in 0 .. 255
    BY <2>1
  <2> QED BY <2>2 DEF UInt8
<1> HIDE DEF l
<1>3. CASE Build!HasLength(o)
  <2> DEFINE head == <<o.type, l>>
  <2>1. head \in Seq(UInt8) /\ Len(head) = 2 /\ head[1] = o.type /\ head[2] = l
    BY <1>1, <1>2
  <2>2. Build!SizeOf(o) = 2 + n /\ Build!Emitted(o) = head \o o.value
    BY <1>3 DEF Build!SizeOf, Build!Emitted, n, l
  <2> HIDE DEF head
  <2>3. head \o o.value \in Seq(UInt8) /\ Len(head \o o.value) = 2 + n
    BY <1>1, <2>1, JoinedIsSeq, JoinedLen DEF n
  <2>4. (head \o o.value)[1] = o.type /\ (head \o o.value)[2] = l
    <3>1. \A i \in 1 .. Len(head) : (head \o o.value)[i] = head[i]
      BY <1>1, <2>1, JoinedLeft
    <3> QED BY <2>1, <3>1
  <2>5. \A i \in 1 .. n : (head \o o.value)[2 + i] = o.value[i]
    <3>1. \A i \in 1 .. Len(o.value) : (head \o o.value)[Len(head) + i] = o.value[i]
      BY <1>1, <2>1, JoinedRight, SMTT(30)
    <3>2. Len(head) = 2 /\ Len(o.value) = n
      BY <2>1 DEF n
    <3> QED BY <3>1, <3>2
  <2> QED BY <1>1, <1>3, <2>2, <2>3, <2>4, <2>5 DEF n, l
<1>4. CASE ~Build!HasLength(o)
  <2>1. Build!SizeOf(o) = 1 /\ Build!Emitted(o) = <<o.type>>
    BY <1>4 DEF Build!SizeOf, Build!Emitted
  <2>2. <<o.type>> \in Seq(UInt8) /\ Len(<<o.type>>) = 1 /\ <<o.type>>[1] = o.type
    BY <1>1
  <2>3. /\ Build!SizeOf(o) \in Nat /\ Build!SizeOf(o) >= 1
        /\ Build!Emitted(o) \in Seq(UInt8)
        /\ Len(Build!Emitted(o)) = Build!SizeOf(o)
        /\ Build!Emitted(o)[1] = o.type
    BY <2>1, <2>2
  <2> QED BY <1>4, <2>1, <2>3
<1> QED BY <1>3, <1>4

LEMMA SizeOfIs ==
  ASSUME NEW o \in Options
  PROVE  Build!SizeOf(o) \in Nat /\ Build!SizeOf(o) >= 1
BY EmittedIs

(* Where the options end: one after the other, each at least a byte long   *)
LEMMA EndsAre ==
  ASSUME pkt \in PacketTypes
  PROVE  /\ pkt.opts \in Seq(Options) /\ Len(pkt.opts) \in Nat
         /\ \A j \in 1 .. Len(pkt.opts) : pkt.opts[j] \in Options
         /\ End \in [0 .. Len(pkt.opts) -> Nat] /\ Length \in Nat
         /\ End[0] = 0
         /\ \A j \in 1 .. Len(pkt.opts) :
              /\ End[j] = End[j - 1] + Build!SizeOf(pkt.opts[j])
              /\ Written[j] = Build!Emitted(pkt.opts[j])
         /\ \A j \in 0 .. Len(pkt.opts) : End[j] <= Length
         /\ \A j \in 0 .. Len(pkt.opts) - 1 : End[j] < Length
<1> DEFINE n == Len(pkt.opts)
<1>1. pkt.opts \in Seq(Options)
  BY DEF PacketTypes
<1>2. n \in Nat /\ \A j \in 1 .. n : pkt.opts[j] \in Options
  BY <1>1, LenProperties, ElementOfSeq
<1>3. \A j \in 1 .. n : Sizes[j] = Build!SizeOf(pkt.opts[j])
                        /\ Written[j] = Build!Emitted(pkt.opts[j])
  BY DEF Sizes, Written
<1>4. \A j \in 1 .. n : Sizes[j] \in Nat /\ Sizes[j] >= 1
  <2> SUFFICES ASSUME NEW j \in 1 .. n PROVE Sizes[j] \in Nat /\ Sizes[j] >= 1
    OBVIOUS
  <2>1. pkt.opts[j] \in Options /\ Sizes[j] = Build!SizeOf(pkt.opts[j])
    BY <1>2, <1>3
  <2> QED BY <2>1, SizeOfIs
<1>5. Len(Sizes) = n
  BY <1>2 DEF Sizes
<1> HIDE DEF n
<1>6. /\ End \in [0 .. n -> Nat] /\ End[0] = 0
      /\ \A j \in 1 .. n : End[j] = End[j - 1] + Sizes[j]
  BY <1>2, <1>4, <1>5, SumsAre DEF End
<1>7. ASSUME NEW j \in 0 .. n
      PROVE  End[j] <= End[n] /\ (j < n => End[j] < End[n])
  <2>1. /\ \A i \in j .. n : End[j] <= End[i]
        /\ \A i \in j + 1 .. n : End[j] < End[i]
    BY <1>2, <1>4, <1>5, SumsGrow DEF End
  <2>2. n \in j .. n /\ (j < n => n \in j + 1 .. n)
    BY <1>2
  <2> QED BY <2>1, <2>2
<1>8. /\ \A j \in 0 .. n : End[j] <= End[n]
      /\ \A j \in 0 .. n - 1 : End[j] < End[n]
  <2>1. \A j \in 0 .. n - 1 : j \in 0 .. n /\ j < n
    BY <1>2
  <2> QED BY <1>7, <2>1
<1>9. Length = End[n] /\ End[n] \in Nat
  <2>1. n \in 0 .. n
    BY <1>2
  <2> QED BY <1>6, <2>1 DEF Length, n
<1> QED BY <1>1, <1>2, <1>3, <1>6, <1>8, <1>9 DEF n

(* Without an EOOL among them, the options take the bytes that are counted *)
(* for them.                                                               *)
LEMMA LengthIsTotal ==
  ASSUME pkt \in PacketTypes, NoTerminator(pkt)
  PROVE  TotalSize(pkt.opts) = Length
<1>1. Len(pkt.opts) \in Nat /\ \A j \in 1 .. Len(pkt.opts) : pkt.opts[j] \in Options
  BY EndsAre
<1>2. \A j \in 1 .. Len(pkt.opts) :
        EncodedSize(pkt.opts[j]) = Build!SizeOf(pkt.opts[j])
  <2> SUFFICES ASSUME NEW j \in 1 .. Len(pkt.opts)
               PROVE  EncodedSize(pkt.opts[j]) = Build!SizeOf(pkt.opts[j])
    OBVIOUS
  <2>1. pkt.opts[j].type # 0
    <3>1. j \in DOMAIN pkt.opts
      BY EndsAre, LenProperties
    <3> QED BY <3>1 DEF NoTerminator
  <2> QED BY <2>1 DEF EncodedSize, Build!SizeOf, Build!HasLength, Build!EOOL, Build!NOP, NOP
<1>3. [j \in 1 .. Len(pkt.opts) |-> EncodedSize(pkt.opts[j])] = Sizes
  BY <1>2 DEF Sizes
<1>4. Len(Sizes) = Len(pkt.opts)
  BY <1>1 DEF Sizes
<1> QED BY <1>3, <1>4 DEF TotalSize, Total, End, Length

-----------------------------------------------------------------------------
(* The object is not changed, and with it neither is what it becomes.      *)
LEMMA SamePacket ==
  ASSUME pkt' = pkt
  PROVE  End' = End /\ Written' = Written /\ Length' = Length
BY DEF End, Written, Length, Sizes

LEMMA InitCodecInv == CodecInit => CodecInv
<1>1. CASE FromBuild
  <2>1. /\ pkt \in Packets /\ building = "sizing" /\ k = 1 /\ ihl_bytes = 20
        /\ data = <<>> /\ decoding = "waiting" /\ Fresh
    BY <1>1 DEF FromBuild, Build!Init, Fresh
  <2>2. pkt \in PacketTypes
    BY <2>1, PacketsAssumption
  <2>3. End[0] = 0 /\ Len(pkt.opts) \in Nat
    BY <2>2, EndsAre
  <2>4. k \in 1 .. Len(pkt.opts) + 1 /\ k - 1 = 0 /\ 20 = (20 + 0) % 256
    BY <2>1, <2>3
  <2>5. Sizing
    BY <2>1, <2>2, <2>3, <2>4 DEF Sizing
  <2> QED BY <2>1, <2>5 DEF CodecInv
<1>2. CASE FromElsewhere
  <2>1. building = "elsewhere" /\ Init
    BY <1>2 DEF FromElsewhere
  <2>2. decoding # "waiting" /\ Inv
    BY <2>1, InitInv DEF Init, Start
  <2> QED BY <2>1, <2>2 DEF CodecInv
<1> QED BY <1>1, <1>2 DEF CodecInit

LEMMA SizeOptionKeeps ==
  ASSUME Sizing, Build!SizeOption
  PROVE  building' = "sizing" /\ Sizing'
<1> DEFINE s == Build!SizeOf(pkt.opts[k])
<1>1. /\ k <= Len(pkt.opts) /\ k' = k + 1 /\ pkt' = pkt /\ data' = data
      /\ ihl_bytes' = (ihl_bytes + s) % 256 /\ building' = "sizing"
  BY DEF Build!SizeOption, Build!option
<1>2. pkt \in PacketTypes /\ Len(pkt.opts) \in Nat /\ k \in 1 .. Len(pkt.opts)
  BY <1>1, EndsAre DEF Sizing
<1>3. pkt.opts[k] \in Options /\ End[k] = End[k - 1] + s
  BY <1>2, EndsAre
<1>4. s \in Nat
  BY <1>3, SizeOfIs
<1>5. End[k - 1] \in Nat
  <2>1. k - 1 \in 0 .. Len(pkt.opts)
    BY <1>2
  <2> QED BY <1>2, <2>1, EndsAre
<1> DEFINE e == End[k - 1]
<1>6. ihl_bytes = (20 + e) % 256
  BY DEF Sizing
<1> HIDE DEF s, e
<1>7. ihl_bytes' = (20 + (e + s)) % 256
  <2>1. e \in Nat /\ s \in Nat
    BY <1>4, <1>5 DEF e
  <2>2. (((20 + e) % 256) + s) % 256 = (20 + (e + s)) % 256
    BY <2>1
  <2> QED BY <1>1, <1>6, <2>2
<1>8. k' - 1 = k /\ k' \in 1 .. Len(pkt.opts) + 1
  BY <1>1, <1>2
<1>9. ihl_bytes' = (20 + End'[k' - 1]) % 256
  BY <1>1, <1>3, <1>7, <1>8, SamePacket DEF e
<1> QED BY <1>1, <1>2, <1>8, <1>9 DEF Sizing

LEMMA PadKeeps ==
  ASSUME Sizing, Build!Pad
  PROVE  building' = "emitting" /\ Emitting'
<1> DEFINE p == (4 - (ihl_bytes % 4)) % 4
           t == 20 + Length
<1>1. /\ k > Len(pkt.opts) /\ k' = 1 /\ pkt' = pkt /\ data' = data
      /\ option_padding' = p /\ ihl_bytes' = (ihl_bytes + p) % 256
      /\ ((ihl_bytes + p) % 256) \div 4 <= 15 /\ building' = "emitting"
  BY DEF Build!Pad, Build!PaddedBytes, Build!Padding
<1>2. /\ pkt \in PacketTypes /\ Len(pkt.opts) \in Nat
      /\ k \in 1 .. Len(pkt.opts) + 1 /\ data = <<>>
      /\ ihl_bytes = (20 + End[k - 1]) % 256
  BY EndsAre DEF Sizing
<1>3. k - 1 = Len(pkt.opts)
  <2>1. Len(pkt.opts) \in Nat /\ k \in 1 .. Len(pkt.opts) + 1 /\ k > Len(pkt.opts)
    BY <1>1, <1>2
  <2> QED BY <2>1
<1>4. t \in Nat /\ ihl_bytes = t % 256
  BY <1>2, <1>3, EndsAre DEF Length
<1> HIDE DEF t
<1>5. /\ p \in 0 .. 3 /\ (ihl_bytes + p) % 256 = (t + p) % 256
      /\ ((ihl_bytes + p) % 256) % 4 = 0
      /\ (ihl_bytes + p) % 256 \in 0 .. 63
  <2>1. ihl_bytes \in Nat /\ p \in 0 .. 3 /\ (ihl_bytes + p) % 4 = 0
    BY <1>4
  <2> HIDE DEF p
  <2>2. ((ihl_bytes + p) % 256) % 4 = 0
    BY <2>1
  <2>3. (ihl_bytes + p) % 256 = (t + p) % 256
    BY <1>4, <2>1
  <2>4. (ihl_bytes + p) % 256 \in 0 .. 63
    BY <1>1, <2>1
  <2> QED BY <2>1, <2>2, <2>3, <2>4
<1> HIDE DEF p
<1>6. Len(data) = 0 /\ End[0] = 0 /\ data \in Seq(UInt8)
  BY <1>2, EndsAre
<1>7. Spells(data, End, Written, 0)
  BY <1>6 DEF Spells, Holds
<1>8. k' - 1 = 0 /\ k' \in 1 .. Len(pkt.opts) + 1
  BY <1>1, <1>2
<1>9. Spells(data', End', Written', k' - 1)
  BY <1>1, <1>7, <1>8, SamePacket
<1>10. ihl_bytes' = (20 + Length' + option_padding') % 256
  BY <1>1, <1>5, SamePacket DEF t
<1>11. /\ option_padding' \in 0 .. 3
       /\ ihl_bytes' \in 0 .. 63 /\ ihl_bytes' % 4 = 0
  BY <1>1, <1>5
<1>12. \A j \in 1 .. k' - 1 : Len(pkt'.opts[j].value) <= 253
  BY <1>8
<1> QED BY <1>1, <1>2, <1>6, <1>8, <1>9, <1>10, <1>11, <1>12 DEF Emitting

LEMMA EmitOptionKeeps ==
  ASSUME Emitting, Build!EmitOption
  PROVE  building' = "emitting" /\ Emitting'
<1> DEFINE n == Len(pkt.opts)
           part == Build!Emitted(pkt.opts[k])
<1>1. /\ k <= n /\ k' = k + 1 /\ data' = data \o part /\ building' = "emitting"
      /\ Len(pkt.opts[k].value) <= 253
      /\ UNCHANGED <<pkt, ihl_bytes, option_padding>>
  BY DEF Build!EmitOption, Build!option
<1>2. /\ pkt \in PacketTypes /\ n \in Nat /\ k \in 1 .. n
      /\ data \in Seq(UInt8) /\ Spells(data, End, Written, k - 1)
  <2>1. /\ pkt \in PacketTypes /\ k \in 1 .. n + 1
        /\ data \in Seq(UInt8) /\ Spells(data, End, Written, k - 1)
    BY DEF Emitting
  <2>2. n \in Nat
    BY <2>1, EndsAre
  <2> HIDE DEF n
  <2> QED BY <1>1, <2>1, <2>2
<1>3. /\ pkt.opts[k] \in Options /\ Written[k] = part
      /\ End[k] = End[k - 1] + Build!SizeOf(pkt.opts[k])
      /\ End \in [0 .. n -> Nat]
  BY <1>2, EndsAre
<1>4. part \in Seq(UInt8) /\ Len(part) = Build!SizeOf(pkt.opts[k])
  BY <1>3, EmittedIs
<1>5. \A j \in 1 .. n : Len(Written[j]) \in Nat
  BY <1>2, EndsAre, EmittedIs
<1> HIDE DEF n, part
<1> DEFINE m == k - 1
<1>6. m \in 0 .. n - 1 /\ m + 1 = k /\ k' - 1 = k
  BY <1>1, <1>2
<1>7. \A j \in 1 .. m : Len(Written[j]) \in Nat
  BY <1>2, <1>5, <1>6
<1>8. Written[m + 1] = part /\ End[m + 1] = End[m] + Len(part)
  BY <1>3, <1>4, <1>6
<1>9. Spells(data \o part, End, Written, m + 1)
  <2>1. Spells(data, End, Written, m)
    BY <1>2
  <2> HIDE DEF m
  <2> QED BY <1>2, <1>3, <1>4, <1>6, <1>7, <1>8, <2>1, SpellsNext
<1>10. Spells(data', End', Written', k' - 1)
  BY <1>1, <1>6, <1>9, SamePacket
<1>11. data' \in Seq(UInt8)
  BY <1>1, <1>2, <1>4, JoinedIsSeq
<1>12. k' \in 1 .. Len(pkt'.opts) + 1
  BY <1>1, <1>2 DEF n
<1>13. \A j \in 1 .. k' - 1 : Len(pkt'.opts[j].value) <= 253
  <2>1. \A j \in 1 .. k - 1 : Len(pkt.opts[j].value) <= 253
    BY DEF Emitting
  <2>2. \A j \in 1 .. k' - 1 : j \in 1 .. k - 1 \/ j = k
    BY <1>2, <1>6
  <2> QED BY <1>1, <2>1, <2>2
<1>14. /\ option_padding' \in 0 .. 3
       /\ ihl_bytes' \in 0 .. 63 /\ ihl_bytes' % 4 = 0
       /\ ihl_bytes' = (20 + Length' + option_padding') % 256
  BY <1>1, SamePacket DEF Emitting
<1> QED BY <1>1, <1>2, <1>10, <1>11, <1>12, <1>13, <1>14 DEF Emitting

LEMMA Words ==
  ASSUME NEW x
  PROVE  x \in UInt16 <=> x \in Nat /\ x <= 65535
<1>1. MaxUInt16 \in Nat /\ MaxUInt16 = 65535
  BY DEF MaxUInt16
<1>2. MaxUInt16 \in Nat
  BY <1>1
<1>3. x \in UInt16 <=> x \in Nat /\ x <= MaxUInt16
  BY <1>2 DEF UInt16
<1> QED BY <1>1, <1>3

(* The word of flags and fragment offset: the bits decodeFrom takes it for *)
(* are those that were put there, when the offset has thirteen of them.    *)
LEMMA FlagsFragIs ==
  ASSUME NEW df \in BOOLEAN, NEW mf \in BOOLEAN, NEW frag \in Nat, frag <= 65535,
         NEW p, p.df = df, p.mf = mf, p.frag = frag
  PROVE  LET w == Build!FlagsFrag(p)
         IN  /\ w \in Nat /\ w <= 65535
             /\ frag < 8192 =>
                  /\ Bit(w, 14) = df /\ Bit(w, 13) = mf
                  /\ w % (MaxOffset + 1) = frag
<1> DEFINE d == Build!Flag(df)
           m == Build!Flag(mf)
           h == frag \div 8192
           dd == Build!Or(d, (h \div 2) % 2)
           mm == Build!Or(m, h % 2)
           a == h \div 4
           r == frag % 8192
           w == a * 32768 + dd * 16384 + mm * 8192 + r
<1>2. d \in {0, 1} /\ m \in {0, 1} /\ (d = 1) = df /\ (m = 1) = mf
  BY DEF Build!Flag
<1>3. h \in 0 .. 7 /\ (frag < 8192 => h = 0 /\ r = frag)
      /\ r \in Nat /\ r < 8192
  OBVIOUS
<1> HIDE DEF d, m, h
<1>4. dd \in {0, 1} /\ mm \in {0, 1} /\ (h = 0 => dd = d /\ mm = m)
  BY <1>2, <1>3 DEF Build!Or
<1>5. Build!FlagsFrag(p) = w
  BY DEF Build!FlagsFrag, d, m, h
<1>6. a \in 0 .. 1 /\ (h = 0 => a = 0)
  BY <1>3
<1> HIDE DEF dd, mm, a, r
<1>10. w \in Nat /\ w <= 65535
  <2>1. r \in Nat /\ r < 8192 /\ dd \in 0 .. 1 /\ mm \in 0 .. 1
    BY <1>3, <1>4
  <2> QED BY <1>6, <2>1
<1>7. ASSUME frag < 8192
      PROVE  /\ ((w \div 16384) % 2 = 1) = df
             /\ ((w \div 8192) % 2 = 1) = mf
             /\ w % 8192 = frag
  <2>1. a = 0 /\ dd = d /\ mm = m /\ r = frag
    BY <1>3, <1>4, <1>6, <1>7
  <2>2. w = d * 16384 + m * 8192 + frag
    BY <1>2, <1>7, <2>1
  <2> HIDE DEF w
  <2>3. (w \div 16384) % 2 = d /\ (w \div 8192) % 2 = m /\ w % 8192 = frag
    BY <1>2, <1>7, <2>2
  <2> QED BY <1>2, <2>3
<1> HIDE DEF w
<1>8. 2 ^ 14 = 16384 /\ 2 ^ 13 = 8192 /\ MaxOffset + 1 = 8192
  BY DEF MaxOffset
<1> QED BY <1>5, <1>7, <1>8, <1>10 DEF Bit

(* The padding bytes                                                       *)
LEMMA ZerosAre ==
  ASSUME NEW n \in Nat
  PROVE  /\ Build!Zeros(n) \in Seq(UInt8) /\ Len(Build!Zeros(n)) = n
         /\ \A i \in 1 .. n : Build!Zeros(n)[i] = 0
<1>1. 0 \in UInt8
  BY DEF UInt8
<1> QED BY <1>1 DEF Build!Zeros

LEMMA PacketParts ==
  ASSUME pkt \in PacketTypes
  PROVE  /\ pkt.dscp \in 0 .. 255 /\ pkt.ecn \in 0 .. 3
         /\ pkt.df \in BOOLEAN /\ pkt.mf \in BOOLEAN
         /\ pkt.frag \in Nat /\ pkt.frag <= 65535 /\ pkt.payload \in Nat
<1>1. pkt.frag \in UInt16
  BY DEF PacketTypes
<1>2. pkt.frag \in Nat /\ pkt.frag <= 65535
  BY <1>1, Words
<1> QED BY <1>2 DEF PacketTypes, UInt8

LEMMA FinishKeeps ==
  ASSUME Emitting, Build!Finish
  PROVE  building' = "built" /\ AsBuilt'
<1> DEFINE n == Len(pkt.opts)
           zeros == Build!Zeros(option_padding)
           area == data \o zeros
           pad == option_padding
<1>1. /\ k > n /\ building' = "built"
      /\ UNCHANGED <<pkt, k, ihl_bytes, option_padding, data>>
  BY DEF Build!Finish
<1>2. PICK ok \in BOOLEAN :
        /\ (ihl_bytes \div 4) * 4 = 20 + Len(area) => ok
        /\ wire' = [size      |-> (20 + Len(area)) + pkt.payload,
                    ihl       |-> ihl_bytes \div 4,
                    tos       |-> ((pkt.dscp * 4) % 256) + pkt.ecn,
                    total     |-> Build!total_length,
                    flagsFrag |-> Build!FlagsFrag(pkt),
                    sumOK     |-> ok,
                    area      |-> area]
  BY ZenonT(30) DEF Build!Finish
<1>3. /\ pkt \in PacketTypes /\ n \in Nat /\ k \in 1 .. n + 1
      /\ pad \in 0 .. 3 /\ data \in Seq(UInt8)
      /\ ihl_bytes \in 0 .. 63 /\ ihl_bytes % 4 = 0
      /\ ihl_bytes = (20 + Length + pad) % 256
      /\ Spells(data, End, Written, k - 1)
      /\ \A j \in 1 .. k - 1 : Len(pkt.opts[j].value) <= 253
  BY EndsAre DEF Emitting
<1>4. k - 1 = n
  <2>1. n \in Nat /\ k \in 1 .. n + 1 /\ k > n
    BY <1>1, <1>3
  <2> HIDE DEF n
  <2> QED BY <2>1
<1>5. /\ End \in [0 .. n -> Nat] /\ Length \in Nat /\ Length = End[n]
      /\ \A j \in 1 .. n : /\ pkt.opts[j] \in Options
                           /\ Written[j] = Build!Emitted(pkt.opts[j])
  BY <1>3, EndsAre DEF Length
<1>6. ASSUME NEW j \in 1 .. n
      PROVE  Len(Written[j]) = Build!SizeOf(pkt.opts[j]) /\ Len(Written[j]) \in Nat
  <2>1. pkt.opts[j] \in Options /\ Written[j] = Build!Emitted(pkt.opts[j])
    BY <1>5
  <2>2. /\ Len(Build!Emitted(pkt.opts[j])) = Build!SizeOf(pkt.opts[j])
        /\ Build!SizeOf(pkt.opts[j]) \in Nat
    BY <2>1, EmittedIs, Zenon
  <2> QED BY <2>1, <2>2
<1>7. zeros \in Seq(UInt8) /\ Len(zeros) = pad /\ \A i \in 1 .. pad : zeros[i] = 0
  <2>1. pad \in Nat
    BY <1>3
  <2> QED BY <2>1, ZerosAre
<1>8. Spells(data, End, Written, n) /\ Len(data) = Length
  BY <1>3, <1>4, <1>5 DEF Spells
<1> HIDE DEF zeros, n
<1>9. area \in Seq(UInt8) /\ Len(area) = Length + pad
  BY <1>3, <1>7, <1>8, JoinedIsSeq, JoinedLen
<1>10. /\ Holds(area, End, Written, n)
       /\ \A i \in Length + 1 .. Length + pad : area[i] = 0
  <2>1. Holds(area, End, Written, n)
    <3>1. n \in Nat /\ data \in Seq(UInt8)
      BY <1>3
    <3>2. End \in [0 .. n -> Nat] /\ \A j \in 1 .. n : Len(Written[j]) \in Nat
      BY <1>5, <1>6
    <3>3. Spells(data, End, Written, n) /\ zeros \in Seq(UInt8)
      BY <1>7, <1>8
    <3> QED BY <3>1, <3>2, <3>3, SpellsOn
  <2>2. \A i \in 1 .. pad : area[Length + i] = 0
    <3>1. \A i \in 1 .. Len(zeros) : area[Len(data) + i] = zeros[i]
      BY <1>3, <1>7, JoinedRight
    <3> QED BY <1>7, <1>8, <3>1
  <2> HIDE DEF area, pad
  <2>3. \A i \in Length + 1 .. Length + pad :
          i - Length \in 1 .. pad /\ Length + (i - Length) = i
    <3>1. Length \in Nat /\ pad \in Nat
      BY <1>3, <1>5
    <3> QED BY <3>1
  <2> QED BY <1>6, <2>1, <2>2, <2>3
<1> HIDE DEF area, pad
<1> DEFINE h == 20 + Len(area)
<1>11. /\ h \in Nat /\ h = 20 + Length + pad /\ Len(area) % 4 = 0
       /\ ihl_bytes = h % 256 /\ ihl_bytes \div 4 \in 0 .. 15
       /\ (ihl_bytes \div 4) * 4 = h % 256
       /\ (ihl_bytes \div 4) * 4 <= h
  <2>1. pad \in 0 .. 3 /\ Length \in Nat
    BY <1>3, <1>5 DEF pad
  <2>2. h = 20 + Length + pad /\ ihl_bytes = h % 256
    BY <1>3, <1>9, <2>1 DEF pad
  <2>3. h \in Nat
    BY <2>1, <2>2
  <2>4. ihl_bytes \in 0 .. 63 /\ ihl_bytes % 4 = 0
    BY <1>3
  <2>5. (ihl_bytes \div 4) * 4 = ihl_bytes /\ ihl_bytes \div 4 \in 0 .. 15
    BY <2>4
  <2>6. Len(area) = Length + pad
    BY <1>9
  <2>7. h % 4 = 0 /\ h % 256 <= h
    <3> HIDE DEF h
    <3> QED BY <2>2, <2>3, <2>4
  <2>8. Len(area) % 4 = 0
    BY <2>1, <2>6, <2>7
  <2> HIDE DEF h
  <2> QED BY <2>2, <2>3, <2>5, <2>7, <2>8
<1>12. /\ Build!total_length
            = ((ihl_bytes \div 4) * 4 + (pkt.payload % 65536)) % 65536
       /\ Build!total_length \in UInt16
  <2> DEFINE q == (ihl_bytes \div 4) * 4
             pp == pkt.payload
  <2>1. pp \in Nat /\ q \in Nat
    <3>1. ihl_bytes \in 0 .. 63
      BY <1>3
    <3>2. q \in Nat
      BY <3>1
    <3> QED BY <1>3, <3>2, PacketParts
  <2>2. Build!total_length = (q + (pp % 65536)) % 65536
    BY DEF Build!total_length
  <2> HIDE DEF q, pp
  <2> DEFINE t == (q + (pp % 65536)) % 65536
  <2>3. t \in Nat /\ t <= 65535
    BY <2>1
  <2> HIDE DEF t
  <2>4. t \in UInt16
    BY <2>3, Words
  <2> QED BY <2>2, <2>4 DEF q, pp, t
<1>13. ((pkt.dscp * 4) % 256) + pkt.ecn \in UInt8
  <2>1. pkt.dscp \in 0 .. 255 /\ pkt.ecn \in 0 .. 3
    BY <1>3, PacketParts
  <2>2. ((pkt.dscp * 4) % 256) + pkt.ecn \in 0 .. 255
    BY <2>1
  <2> QED BY <2>2 DEF UInt8
<1>14. Build!FlagsFrag(pkt) \in UInt16
  <2>1. /\ pkt.df \in BOOLEAN /\ pkt.mf \in BOOLEAN
        /\ pkt.frag \in Nat /\ pkt.frag <= 65535
    BY <1>3, PacketParts
  <2>2. Build!FlagsFrag(pkt) \in Nat /\ Build!FlagsFrag(pkt) <= 65535
    BY <2>1, FlagsFragIs
  <2> QED BY <2>2, Words
<1>15. pkt.payload \in Nat
  BY <1>3, PacketParts
<1>16. /\ wire'.size = h + pkt.payload /\ wire'.ihl = ihl_bytes \div 4
       /\ wire'.tos = ((pkt.dscp * 4) % 256) + pkt.ecn
       /\ wire'.total = Build!total_length
       /\ wire'.flagsFrag = Build!FlagsFrag(pkt)
       /\ wire'.area = area
       /\ (ihl_bytes \div 4) * 4 = h => wire'.sumOK
  BY <1>2
<1>17. wire' \in Wires
  <2>1. h + pkt.payload \in Nat
    BY <1>11, <1>15
  <2> HIDE DEF h
  <2> QED BY <1>2, <1>9, <1>11, <1>12, <1>13, <1>14, <2>1 DEF Wires, h
<1>18. WellFormed(wire')
  <2>1. wire'.ihl * 4 - 20 <= Len(wire'.area)
    <3>1. (ihl_bytes \div 4) * 4 <= h /\ (ihl_bytes \div 4) * 4 \in Nat
          /\ h \in Nat
      BY <1>11
    <3>2. Len(area) \in Nat
      BY <1>9, LenProperties
    <3> DEFINE q == (ihl_bytes \div 4) * 4
    <3> HIDE DEF q
    <3>3. q - 20 <= Len(area)
      BY <3>1, <3>2 DEF q
    <3> QED BY <1>16, <3>3 DEF q
  <2> QED BY <1>17, <2>1 DEF WellFormed
<1>19. AreaHolds'
  <2>1. \A j \in 1 .. n : Len(pkt.opts[j].value) <= 253
    BY <1>3, <1>4
  <2>2. pad \in 0 .. 3 /\ pad = option_padding
    BY <1>3 DEF pad
  <2>3. wire'.area = area /\ pkt' = pkt /\ option_padding' = option_padding
        /\ Length' = Length /\ End' = End /\ Written' = Written
    BY <1>1, <1>16, SamePacket
  <2>4. Len(area) % 4 = 0
    BY <1>11
  <2> QED BY <1>9, <1>10, <2>1, <2>2, <2>3, <2>4 DEF AreaHolds, n
<1>20. LengthsHold'
  <2> HIDE DEF h
  <2>1. HeaderBytes' = h
    BY <1>16 DEF h, HeaderBytes
  <2> QED BY <1>1, <1>11, <1>12, <1>16, <2>1 DEF LengthsHold
<1>23. SumHolds'
  <2>1. HeaderBytes' = h
    BY <1>16 DEF HeaderBytes
  <2> HIDE DEF h
  <2> QED BY <1>16, <2>1 DEF SumHolds
<1>21. FieldsHold'
  BY <1>1, <1>16 DEF FieldsHold, Build!FlagsFrag
<1>22. pkt' \in PacketTypes
  BY <1>1, <1>3
<1> QED BY <1>1, <1>18, <1>19, <1>20, <1>21, <1>22, <1>23 DEF AsBuilt, WellFormed, Wires

-----------------------------------------------------------------------------
(* A datagram that passes the check of its total length is announced as it *)
(* is: build's two lengths cannot both have wrapped and agree.             *)
LEMMA Announced ==
  ASSUME AsBuilt, wire.total = wire.size
  PROVE  /\ Length \in Nat /\ option_padding \in 0 .. 3
         /\ header_length = 20 + Length + option_padding
         /\ header_length = HeaderBytes
         /\ wire.size = header_length + pkt.payload
         /\ pkt.payload \in Nat
<1> DEFINE h == HeaderBytes
           q == wire.ihl * 4
           p == pkt.payload
<1>1. Length \in Nat /\ option_padding \in 0 .. 3
      /\ Len(wire.area) = Length + option_padding
  BY EndsAre DEF AsBuilt, AreaHolds
<1>2. h \in Nat /\ p \in Nat /\ h = 20 + Length + option_padding
  BY <1>1, PacketParts DEF AsBuilt, HeaderBytes
<1>3. /\ wire.size = h + p /\ q = h % 256
      /\ wire.total = (q + (p % 65536)) % 65536
  BY DEF AsBuilt, LengthsHold
<1>4. header_length = q
  BY DEF header_length
<1> HIDE DEF h, q, p
<1>5. q = h
  <2>1. h + p = (q + (p % 65536)) % 65536
    BY <1>3
  <2>2. q \in Nat /\ q <= h
    BY <1>2, <1>3
  <2>3. h + p <= 65535
    BY <1>2, <2>1, <2>2
  <2>4. p % 65536 = p
    BY <1>2, <2>3
  <2>5. q + p <= 65535 /\ q + p \in Nat
    BY <1>2, <2>2, <2>3
  <2>6. h + p = q + p
    BY <2>1, <2>4, <2>5
  <2> QED BY <1>2, <2>2, <2>6
<1>6. h = q /\ wire.size = h + p /\ p \in Nat
  BY <1>2, <1>3, <1>5
<1> QED BY <1>1, <1>2, <1>4, <1>6 DEF h, p

(* The bytes of an option that stands where the decoder reads              *)
LEMMA OptionRead ==
  ASSUME AsBuilt, NEW m \in 0 .. Len(pkt.opts) - 1, prev_opt_end = 20 + End[m]
  PROVE  LET o == pkt.opts[m + 1]
         IN  /\ o \in Options
             /\ option_type = o.type
             /\ End[m] \in Nat /\ End[m + 1] \in Nat /\ End[m + 1] <= Length
             /\ End[m + 1] = End[m] + Build!SizeOf(o)
             /\ HasLength =>
                  /\ option_len = 2 + Len(o.value)
                  /\ Len(o.value) \in Nat /\ Len(o.value) <= 253
                  /\ Build!SizeOf(o) = 2 + Len(o.value)
                  /\ option_value = o.value
             /\ ~HasLength => Build!SizeOf(o) = 1
<1> DEFINE n == Len(pkt.opts)
           o == pkt.opts[m + 1]
           e == End[m]
           bytes == Build!Emitted(o)
<1>1. n \in Nat /\ m + 1 \in 1 .. n /\ m \in 0 .. n /\ m + 1 \in 0 .. n /\ (m + 1) - 1 = m
  BY EndsAre DEF AsBuilt
<1>2. /\ o \in Options /\ e \in Nat /\ End[m + 1] \in Nat /\ End[m + 1] <= Length
      /\ End[m + 1] = e + Build!SizeOf(o) /\ Written[m + 1] = bytes
  BY <1>1, EndsAre DEF AsBuilt
<1>3. \A i \in 1 .. Len(bytes) : wire.area[e + i] = bytes[i]
  <2>1. Holds(wire.area, End, Written, n)
    BY DEF AsBuilt, AreaHolds
  <2> HIDE DEF n, e, bytes
  <2>2. \A i \in 1 .. Len(Written[m + 1]) :
          wire.area[End[(m + 1) - 1] + i] = Written[m + 1][i]
    BY <1>1, <2>1 DEF Holds
  <2> QED BY <1>1, <1>2, <2>2 DEF e
<1>4. Len(o.value) <= 253
  BY <1>1 DEF AsBuilt, AreaHolds
<1>5. /\ Len(bytes) = Build!SizeOf(o) /\ Build!SizeOf(o) \in Nat /\ Build!SizeOf(o) >= 1
      /\ bytes[1] = o.type
  BY <1>2, EmittedIs
<1>6. o.value \in Seq(UInt8) /\ Len(o.value) \in Nat
  BY <1>2, LenProperties DEF Options
<1>7. ASSUME Build!HasLength(o)
      PROVE  /\ Build!SizeOf(o) = 2 + Len(o.value)
             /\ bytes[2] = (Len(o.value) + 2) % 256
             /\ \A i \in 1 .. Len(o.value) : bytes[2 + i] = o.value[i]
  BY <1>2, <1>7, EmittedIs
<1>8. ASSUME ~Build!HasLength(o) PROVE Build!SizeOf(o) = 1
  BY <1>2, <1>8, EmittedIs
<1> HIDE DEF o, bytes, n
<1>9. option_type = o.type
  <2>1. prev_opt_end - 19 = e + 1
    BY <1>2
  <2>2. 1 \in 1 .. Len(bytes)
    BY <1>5
  <2> QED BY <1>3, <1>5, <2>1, <2>2 DEF option_type, At
<1>10. HasLength <=> Build!HasLength(o)
  BY <1>9 DEF HasLength, Build!HasLength, EOOL, NOP, Build!EOOL, Build!NOP
<1>11. ASSUME HasLength
       PROVE  option_len = 2 + Len(o.value) /\ option_value = o.value
  <2> DEFINE l == Len(o.value)
  <2>1. Build!HasLength(o)
    BY <1>10, <1>11
  <2>2. Len(bytes) = 2 + l /\ l \in Nat /\ l <= 253
    BY <1>4, <1>5, <1>6, <1>7, <2>1
  <2> HIDE DEF l
  <2>3. (prev_opt_end + 1) - 19 = e + 2 /\ 2 \in 1 .. Len(bytes)
    BY <1>2, <2>2, SMTT(30)
  <2>4. option_len = bytes[2]
    BY <1>3, <2>3 DEF option_len, At
  <2>5. option_len = 2 + l
    <3>1. bytes[2] = (l + 2) % 256
      BY <1>7, <2>1 DEF l
    <3>2. (l + 2) % 256 = 2 + l
      BY <2>2
    <3> QED BY <2>4, <3>1, <3>2
  <2> DEFINE a == e + 2
  <2>6. a \in Nat /\ \A i \in 1 .. l : wire.area[a + i] = o.value[i]
    <3>0. e \in Nat /\ l \in Nat /\ Len(bytes) = 2 + l
      BY <1>2, <2>2
    <3> HIDE DEF e
    <3>1. a \in Nat /\ \A i \in 1 .. l : 2 + i \in 1 .. Len(bytes) /\ a + i = e + (2 + i)
      BY <3>0
    <3>2. \A i \in 1 .. l : bytes[2 + i] = o.value[i]
      BY <1>7, <2>1 DEF l
    <3> HIDE DEF a
    <3>3. ASSUME NEW i \in 1 .. l PROVE wire.area[a + i] = o.value[i]
      <4>1. wire.area[e + (2 + i)] = bytes[2 + i] /\ a + i = e + (2 + i)
        BY <1>3, <3>1
      <4> QED BY <3>2, <4>1
    <3> QED BY <3>1, <3>3
  <2>7. prev_opt_end - 17 = a + 1 /\ prev_opt_end + option_len - 20 = a + l
    <3>1. prev_opt_end = 20 + e /\ e \in Nat
      BY <1>2
    <3> HIDE DEF e
    <3> QED BY <2>2, <2>5, <3>1
  <2> HIDE DEF a
  <2>8. SubSeq(wire.area, a + 1, a + l) = o.value
    <3>1. o.value \in Seq(UInt8) /\ Len(o.value) = l
      BY <1>6 DEF l
    <3>2. SubSeq(wire.area, a + 1, a + Len(o.value)) = o.value
      BY <2>6, <3>1, SubSeqIs
    <3> QED BY <3>1, <3>2
  <2> QED BY <2>5, <2>7, <2>8 DEF option_value, l
<1> QED BY <1>2, <1>4, <1>6, <1>7, <1>8, <1>9, <1>10, <1>11 DEF o, e

(* Behind the options there are zeros up to the end of the header.         *)
LEMMA PaddingRead ==
  ASSUME AsBuilt, wire.total = wire.size, prev_opt_end \in Nat,
         prev_opt_end >= 20 + Length, prev_opt_end < header_length
  PROVE  option_type = EOOL
<1>1. /\ Length \in Nat /\ option_padding \in 0 .. 3
      /\ header_length = 20 + Length + option_padding
  BY Announced
<1>2. prev_opt_end - 19 \in Length + 1 .. Length + option_padding
  BY <1>1
<1>3. wire.area[prev_opt_end - 19] = 0
  BY <1>2 DEF AsBuilt, AreaHolds
<1> QED BY <1>3 DEF option_type, At, EOOL

-----------------------------------------------------------------------------
(* What decodeFrom makes of a datagram that build returned.                *)
LEMMA BuiltStays ==
  ASSUME AsBuilt, UNCHANGED <<pkt, wire, option_padding>>
  PROVE  AsBuilt'
<1>1. pkt' = pkt /\ wire' = wire /\ option_padding' = option_padding
      /\ End' = End /\ Written' = Written /\ Length' = Length
  BY SamePacket
<1>2. pkt' \in PacketTypes /\ WellFormed(wire')
  BY <1>1 DEF AsBuilt
<1>3. AreaHolds'
  BY <1>1 DEF AsBuilt, AreaHolds
<1>4. HeaderBytes' = HeaderBytes
  BY <1>1 DEF HeaderBytes
<1>5. LengthsHold'
  BY <1>1, <1>4 DEF AsBuilt, LengthsHold
<1>6. SumHolds'
  BY <1>1, <1>4 DEF AsBuilt, SumHolds
<1>7. FieldsHold'
  BY <1>1 DEF AsBuilt, FieldsHold, Build!FlagsFrag
<1> QED BY <1>2, <1>3, <1>5, <1>6, <1>7 DEF AsBuilt, WellFormed, Wires

LEMMA StandsAgain ==
  ASSUME pkt' = pkt, NEW m \in 0 .. Len(pkt.opts),
         \/ prev_opt_end' = 20 + End[m]
         \/ m = Len(pkt.opts) /\ prev_opt_end' >= 20 + Length,
         NoTerminator(pkt) => got'.opts = SubSeq(pkt.opts, 1, m)
  PROVE  (\E j \in 0 .. Len(pkt.opts) : StandsBehind(j))'
<1>1. End' = End /\ Length' = Length
  BY SamePacket
<1>2. NoTerminator(pkt)' <=> NoTerminator(pkt)
  BY DEF NoTerminator
<1>3. StandsBehind(m)'
  BY <1>1, <1>2 DEF StandsBehind
<1>4. (0 .. Len(pkt.opts))' = 0 .. Len(pkt.opts)
  OBVIOUS
<1> QED BY <1>3, <1>4

LEMMA SamePlace ==
  ASSUME pkt' = pkt, prev_opt_end' = prev_opt_end, got'.opts = got.opts,
         \E m \in 0 .. Len(pkt.opts) : StandsBehind(m)
  PROVE  (\E m \in 0 .. Len(pkt.opts) : StandsBehind(m))'
<1>1. PICK m \in 0 .. Len(pkt.opts) : StandsBehind(m)
  OBVIOUS
<1> QED BY <1>1, StandsAgain DEF StandsBehind

(* decodeFrom is called: it stands before the first option and has none.   *)
LEMMA StartDecoding ==
  ASSUME AsBuilt, Fresh, pkt' = pkt, prev_opt_end' = prev_opt_end, got' = got,
         decoding' = "header"
  PROVE  Decoding'
<1>1. pkt.opts \in Seq(Options) /\ End[0] = 0 /\ Len(pkt.opts) \in Nat
  BY EndsAre DEF AsBuilt
<1>2. SubSeq(pkt.opts, 1, 0) = <<>>
  BY <1>1, SubSeqEmpty
<1>3. got'.opts = <<>> /\ prev_opt_end' = 20
  BY DEF Fresh, EmptyPacket
<1>4. prev_opt_end' = 20 + End[0] /\ 0 \in 0 .. Len(pkt.opts)
  BY <1>1, <1>3
<1>5. (\E m \in 0 .. Len(pkt.opts) : StandsBehind(m))'
  BY <1>2, <1>3, <1>4, StandsAgain
<1> QED BY <1>5 DEF Decoding

(* Other fields than the one that is set keep their values.                *)
LEMMA OtherFields ==
  ASSUME NEW S, NEW g \in PacketsOver(S)
  PROVE  /\ \A o : LET h == [g EXCEPT !.opts = o]
                   IN  /\ <<h.dscp, h.ecn, h.df, h.mf, h.frag, h.payload>>
                          = <<g.dscp, g.ecn, g.df, g.mf, g.frag, g.payload>>
                       /\ h.opts = o
         /\ \A n : LET h == [g EXCEPT !.payload = n]
                   IN  /\ <<h.dscp, h.ecn, h.df, h.mf, h.frag, h.opts>>
                          = <<g.dscp, g.ecn, g.df, g.mf, g.frag, g.opts>>
                       /\ h.payload = n
BY DEF PacketsOver

LEMMA SameGenuine ==
  ASSUME pkt' = pkt, Genuine,
         <<got'.dscp, got'.ecn, got'.df, got'.mf, got'.frag>>
           = <<got.dscp, got.ecn, got.df, got.mf, got.frag>>
  PROVE  Genuine'
BY DEF Genuine

(* A pass of the loop reads the option behind those it has, or padding.    *)
LEMMA OptionStepDecoding ==
  ASSUME AsBuilt, Inv, Decoding, TakeOption \/ SkipPad, pkt' = pkt
  PROVE  Decoding'
<1> DEFINE n == Len(pkt.opts)
<1>1. /\ decoding = "options" /\ decoding' = "options" /\ MoreOptions /\ wire' = wire
  BY DEF TakeOption, SkipPad, BehindPad, MoreOptions
<1>2. PICK m \in 0 .. n : StandsBehind(m)
  BY DEF Decoding
<1>3. wire.total = wire.size /\ Genuine
  BY <1>1 DEF Decoding
<1>4. /\ n \in Nat /\ Length \in Nat /\ pkt.opts \in Seq(Options)
      /\ End \in [0 .. n -> Nat] /\ Length = End[n]
  BY EndsAre DEF AsBuilt, Length
<1>5. prev_opt_end \in 20 .. header_length - 2 /\ header_length \in 20 .. 60
      /\ prev_opt_end \in Nat
  <2>1. prev_opt_end \in 20 .. 59
    BY Parts
  <2> QED BY <1>1, <2>1, OptionBytes
<1>6. got \in PacketsOver(Seq(Options))
  BY GotIsPacket
<1>7. Genuine' /\ (\E j \in 0 .. n : StandsBehind(j))'
  <2>1. CASE m < n /\ prev_opt_end = 20 + End[m]
    <3> DEFINE o == pkt.opts[m + 1]
    <3>1. m \in 0 .. n - 1 /\ m + 1 \in 0 .. n /\ m + 1 \in 1 .. n
      BY <1>4, <2>1
    <3>2. /\ o \in Options /\ option_type = o.type
          /\ End[m + 1] = End[m] + Build!SizeOf(o)
          /\ End[m] \in Nat /\ Build!SizeOf(o) \in Nat
          /\ HasLength => /\ option_len = Build!SizeOf(o)
                          /\ option_value = o.value
          /\ ~HasLength => Build!SizeOf(o) = 1
      BY <2>1, <3>1, OptionRead, SizeOfIs
    <3>3. Append(SubSeq(pkt.opts, 1, m), o) = SubSeq(pkt.opts, 1, m + 1)
      BY <1>4, <3>1, PrefixNext
    <3>4. NoTerminator(pkt) =>
            o.type # EOOL /\ (o.type = NOP => o.value = <<>>)
      <4>1. m + 1 \in DOMAIN pkt.opts
        BY <1>4, <3>1
      <4> QED BY <4>1 DEF NoTerminator, EOOL, NOP
    <3>5. NoTerminator(pkt) => got.opts = SubSeq(pkt.opts, 1, m)
      BY <1>2 DEF StandsBehind
    <3>6. o = [type |-> o.type, value |-> o.value]
      BY <3>2 DEF Options
    <3> HIDE DEF o
    <3>7. CASE TakeOption
      <4>1. /\ HasLength /\ prev_opt_end' = prev_opt_end + option_len
            /\ got' = [got EXCEPT !.opts = Append(got.opts,
                         [type |-> option_type, value |-> option_value])]
        BY <3>7 DEF TakeOption, NextOption
      <4>2. prev_opt_end' = 20 + End[m + 1]
        BY <2>1, <3>2, <4>1
      <4>3. got' = [got EXCEPT !.opts = Append(got.opts, o)]
        BY <3>2, <3>6, <4>1
      <4>4. Genuine' /\ got'.opts = Append(got.opts, o)
        BY <1>3, <1>6, <4>3, OtherFields, SameGenuine
      <4>5. NoTerminator(pkt) => got'.opts = SubSeq(pkt.opts, 1, m + 1)
        BY <3>3, <3>5, <4>4
      <4> QED BY <3>1, <4>2, <4>4, <4>5, StandsAgain
    <3>8. CASE SkipPad
      <4>1. /\ ~HasLength /\ prev_opt_end' = prev_opt_end + 1
            /\ got' = IF option_type = NOP
                      THEN [got EXCEPT !.opts = Append(got.opts,
                              [type |-> NOP, value |-> <<>>])]
                      ELSE got
        BY <3>8 DEF SkipPad, BehindPad, Kept
      <4>2. prev_opt_end' = 20 + End[m + 1]
        BY <2>1, <3>2, <4>1
      <4>3. CASE option_type = NOP
        <5>1. Genuine' /\ got'.opts = Append(got.opts, [type |-> NOP, value |-> <<>>])
          BY <1>3, <1>6, <4>1, <4>3, OtherFields, SameGenuine
        <5>2. NoTerminator(pkt) => o = [type |-> NOP, value |-> <<>>]
          BY <3>2, <3>4, <3>6, <4>3
        <5>3. NoTerminator(pkt) => got'.opts = SubSeq(pkt.opts, 1, m + 1)
          BY <3>3, <3>5, <5>1, <5>2
        <5> QED BY <3>1, <4>2, <5>1, <5>3, StandsAgain
      <4>4. CASE option_type # NOP
        <5>1. got' = got
          BY <4>1, <4>4
        <5>2. Genuine'
          BY <1>3, <5>1, SameGenuine
        <5>3. ~NoTerminator(pkt)
          BY <3>2, <3>4, <4>1, <4>4 DEF HasLength
        <5> QED BY <3>1, <4>2, <5>2, <5>3, StandsAgain
      <4> QED BY <4>3, <4>4
    <3> QED BY <3>7, <3>8
  <2>2. CASE m = n /\ prev_opt_end >= 20 + Length
    <3>1. option_type = EOOL
      <4>1. prev_opt_end < header_length
        BY <1>5
      <4> QED BY <1>3, <1>5, <2>2, <4>1, PaddingRead
    <3>2. SkipPad /\ option_type # NOP
      BY <3>1 DEF TakeOption, HasLength, EOOL, NOP
    <3>3. got' = got /\ prev_opt_end' = prev_opt_end + 1
      BY <3>2 DEF SkipPad, BehindPad, Kept
    <3>4. Genuine'
      BY <1>3, <3>3, SameGenuine
    <3>5. NoTerminator(pkt) => got'.opts = SubSeq(pkt.opts, 1, m)
      BY <1>2, <3>3 DEF StandsBehind
    <3>6. prev_opt_end' >= 20 + Length
      BY <1>4, <1>5, <2>2, <3>3
    <3> QED BY <2>2, <3>4, <3>5, <3>6, StandsAgain
  <2>3. \/ m < n /\ prev_opt_end = 20 + End[m]
        \/ m = n /\ prev_opt_end >= 20 + Length
    <3>1. prev_opt_end = 20 + End[m] \/ (m = n /\ prev_opt_end >= 20 + Length)
      BY <1>2 DEF StandsBehind
    <3>2. m < n \/ m = n
      BY <1>4
    <3>3. m = n /\ prev_opt_end = 20 + End[m] => prev_opt_end >= 20 + Length
      BY <1>4
    <3> QED BY <3>1, <3>2, <3>3
  <2> QED BY <2>1, <2>2, <2>3
<1> QED BY <1>1, <1>3, <1>7 DEF Decoding

(* Packets with the same fields are the same.                              *)
LEMMA SamePackets ==
  ASSUME NEW S, NEW g \in PacketsOver(S), NEW p \in PacketTypes,
         g.dscp = p.dscp, g.ecn = p.ecn, g.df = p.df, g.mf = p.mf, g.frag = p.frag,
         g.opts = p.opts, g.payload = p.payload
  PROVE  g = p
BY DEF PacketsOver, PacketTypes

(* A packet that comes back has a header that decodeFrom accepts, and that *)
(* ends behind the last option.                                            *)
LEMMA ComesBackFits ==
  ASSUME AsBuilt, ComesBack
  PROVE  /\ ~HeaderRejected
         /\ header_length = 20 + Length + option_padding
         /\ Len(pkt.opts) > 0 => option_padding > 0
<1> DEFINE q == wire.ihl * 4
           h == HeaderBytes
           p == pkt.payload
<1>1. /\ Length \in Nat /\ option_padding \in 0 .. 3
      /\ h = 20 + Length + option_padding /\ h % 4 = 0 /\ p \in Nat
  <2>1. /\ Length \in Nat /\ option_padding \in 0 .. 3
        /\ Len(wire.area) = Length + option_padding /\ Len(wire.area) % 4 = 0
    BY EndsAre DEF AsBuilt, AreaHolds
  <2>2. h = 20 + (Length + option_padding)
    BY <2>1 DEF HeaderBytes
  <2> QED BY <2>1, <2>2, PacketParts DEF AsBuilt
<1>2. Length = TotalSize(pkt.opts)
  BY LengthIsTotal DEF AsBuilt, ComesBack
<1>3. 20 + Length <= 60 /\ 60 + p <= 65535
  BY <1>2 DEF ComesBack, Fits
<1>4. Len(pkt.opts) > 0 => option_padding > 0
  <2> SUFFICES ASSUME Len(pkt.opts) > 0 PROVE option_padding > 0
    OBVIOUS
  <2>1. pkt.opts # <<>>
    BY EndsAre, EmptySeq DEF AsBuilt
  <2>2. Length % 4 # 0
    BY <1>2, <2>1 DEF ComesBack, PaddingFollows
  <2> HIDE DEF h
  <2> QED BY <1>1, <2>2
<1>5. /\ wire.size = h + p /\ q = h % 256
      /\ wire.total = (q + (p % 65536)) % 65536
  BY DEF AsBuilt, LengthsHold
<1>6. header_length = q
  BY DEF header_length
<1> HIDE DEF h, q, p
<1>7. h >= 20 /\ h <= 60 /\ q = h
  <2>1. h >= 20 /\ h <= 60
    BY <1>1, <1>3
  <2> QED BY <1>1, <1>5, <2>1
<1>8. wire.total = h + p
  <2>1. p % 65536 = p
    BY <1>1, <1>3
  <2>2. h \in Nat /\ h + p <= 65535
    BY <1>1, <1>3, <1>7
  <2>3. (h + p) % 65536 = h + p
    BY <1>1, <2>2
  <2> QED BY <1>5, <1>7, <2>1, <2>3
<1>9. wire.sumOK
  BY <1>7 DEF AsBuilt, SumHolds, q, h
<1>10. /\ ~(wire.size < 20) /\ ~(header_length < 20)
       /\ ~(header_length > wire.size) /\ wire.total = wire.size
  BY <1>1, <1>5, <1>6, <1>7, <1>8
<1> QED BY <1>1, <1>4, <1>6, <1>7, <1>9, <1>10 DEF HeaderRejected

(* The fields that decodeFrom takes from an accepted header                *)
LEMMA AcceptHeaderDecoding ==
  ASSUME AsBuilt, Inv, Decoding, AcceptHeader, pkt' = pkt
  PROVE  Decoding'
<1>1. /\ decoding' = "options" /\ wire' = wire /\ prev_opt_end' = prev_opt_end
      /\ wire.total = wire.size
      /\ got' = [got EXCEPT !.dscp = wire.tos \div 4,
                            !.ecn  = wire.tos % 4,
                            !.df   = Bit(wire.flagsFrag, 14),
                            !.mf   = Bit(wire.flagsFrag, 13),
                            !.frag = wire.flagsFrag % (MaxOffset + 1)]
  BY DEF AcceptHeader, HeaderRejected
<1>2. got \in PacketsOver(Seq(Options))
  BY GotIsPacket
<1>3. /\ got'.opts = got.opts
      /\ got'.dscp = wire.tos \div 4 /\ got'.ecn = wire.tos % 4
      /\ got'.df = Bit(wire.flagsFrag, 14) /\ got'.mf = Bit(wire.flagsFrag, 13)
      /\ got'.frag = wire.flagsFrag % (MaxOffset + 1)
  BY <1>1, <1>2 DEF PacketsOver
<1>4. (\E m \in 0 .. Len(pkt.opts) : StandsBehind(m))'
  BY <1>1, <1>3, SamePlace DEF Decoding
<1>5. wire.tos = ((pkt.dscp * 4) % 256) + pkt.ecn
      /\ wire.flagsFrag = Build!FlagsFrag(pkt)
  BY DEF AsBuilt, FieldsHold
<1>6. /\ pkt.dscp \in 0 .. 255 /\ pkt.ecn \in 0 .. 3
      /\ pkt.df \in BOOLEAN /\ pkt.mf \in BOOLEAN
      /\ pkt.frag \in Nat /\ pkt.frag <= 65535
  BY PacketParts DEF AsBuilt
<1>7. wire.tos \div 4 = pkt.dscp % 64 /\ wire.tos % 4 = pkt.ecn
  <2> DEFINE d == pkt.dscp
             e == pkt.ecn
  <2>1. d \in Nat /\ e \in 0 .. 3
    BY <1>6
  <2> HIDE DEF d, e
  <2>2. (((d * 4) % 256) + e) \div 4 = d % 64 /\ (((d * 4) % 256) + e) % 4 = e
    BY <2>1
  <2> QED BY <1>5, <2>2 DEF d, e
<1>8. pkt.frag < 8192 =>
        /\ Bit(wire.flagsFrag, 14) = pkt.df /\ Bit(wire.flagsFrag, 13) = pkt.mf
        /\ wire.flagsFrag % (MaxOffset + 1) = pkt.frag
  BY <1>5, <1>6, FlagsFragIs
<1>9. Genuine'
  BY <1>1, <1>3, <1>7, <1>8 DEF Genuine
<1> QED BY <1>1, <1>4, <1>9 DEF Decoding

(* The payload is what lies behind the header.                             *)
LEMMA TakePayloadDecoding ==
  ASSUME AsBuilt, Inv, Decoding, TakePayload, pkt' = pkt
  PROVE  Decoding'
<1> DEFINE size == IF wire.total > header_length THEN wire.total - header_length ELSE 0
<1>1. /\ decoding = "options" /\ decoding' = "decoded" /\ ~MoreOptions
      /\ wire' = wire /\ prev_opt_end' = prev_opt_end
      /\ got' = [got EXCEPT !.payload = size]
  BY DEF TakePayload
<1>2. wire.total = wire.size /\ Genuine
  BY <1>1 DEF Decoding
<1>3. /\ Length \in Nat /\ option_padding \in 0 .. 3 /\ pkt.payload \in Nat
      /\ header_length = 20 + Length + option_padding
      /\ wire.size = header_length + pkt.payload
  BY <1>2, Announced
<1>4. size = pkt.payload
  BY <1>2, <1>3
<1>5. got \in PacketsOver(Seq(Options))
  BY GotIsPacket
<1> HIDE DEF size
<1>6. got'.payload = pkt.payload /\ got'.opts = got.opts /\ Genuine'
  BY <1>1, <1>2, <1>4, <1>5, OtherFields, SameGenuine
<1>7. prev_opt_end >= header_length - 1
  <2>1. prev_opt_end \in 20 .. 59
    BY Parts
  <2> QED BY <1>1, <1>3, <2>1 DEF MoreOptions
<1>8. header_length' = header_length
  BY <1>1 DEF header_length
<1>9. (\E m \in 0 .. Len(pkt.opts) : StandsBehind(m))'
  BY <1>1, <1>6, SamePlace DEF Decoding
<1> QED BY <1>1, <1>2, <1>6, <1>7, <1>8, <1>9 DEF Decoding

(* decodeFrom throws for such a datagram only when an option ends with the *)
(* header, or when the header is not announced as it is.                   *)
LEMMA FailureDecoding ==
  ASSUME AsBuilt, Inv, Decoding, RejectHeader \/ OptionTooLong \/ ReversedRange,
         pkt' = pkt
  PROVE  Decoding'
<1>1. (\E m \in 0 .. Len(pkt.opts) : StandsBehind(m))'
  <2>1. prev_opt_end' = prev_opt_end /\ got'.opts = got.opts
    BY DEF RejectHeader, OptionTooLong, ReversedRange
  <2> QED BY <2>1, SamePlace DEF Decoding
<1>2. ComesBack' <=> ComesBack
  BY DEF ComesBack, Fits, NoTerminator, PaddingFollows
<1>3. CASE RejectHeader
  <2>1. HeaderRejected /\ decoding' = "invalid_argument"
    BY <1>3 DEF RejectHeader
  <2>2. ~ComesBack
    BY <2>1, ComesBackFits
  <2> QED BY <1>1, <1>2, <2>1, <2>2 DEF Decoding
<1>4. CASE OptionTooLong \/ ReversedRange
  <2> DEFINE n == Len(pkt.opts)
  <2>1. /\ decoding = "options" /\ MoreOptions /\ HasLength
        /\ OptionTooLong => ~FitsHeader /\ decoding' = "invalid_argument"
        /\ ReversedRange => TooShort
    BY <1>4 DEF OptionTooLong, ReversedRange, MoreOptions
  <2>2. PICK m \in 0 .. n : StandsBehind(m)
    BY DEF Decoding
  <2>3. wire.total = wire.size
    BY <2>1 DEF Decoding
  <2>4. /\ n \in Nat /\ Length \in Nat /\ End \in [0 .. n -> Nat] /\ Length = End[n]
    BY EndsAre DEF AsBuilt, Length
  <2>5. prev_opt_end \in 20 .. header_length - 2 /\ header_length \in 20 .. 60
        /\ prev_opt_end \in Nat
    <3>1. prev_opt_end \in 20 .. 59
      BY Parts
    <3> QED BY <2>1, <3>1, OptionBytes
  <2>6. ~(prev_opt_end >= 20 + Length)
    <3> SUFFICES ASSUME prev_opt_end >= 20 + Length PROVE FALSE
      OBVIOUS
    <3>1. prev_opt_end < header_length
      BY <2>5
    <3>2. option_type = EOOL
      BY <2>3, <2>5, <3>1, PaddingRead
    <3> QED BY <2>1, <3>2 DEF HasLength
  <2>7. m \in 0 .. n - 1 /\ prev_opt_end = 20 + End[m]
    <3>1. prev_opt_end = 20 + End[m]
      BY <2>2, <2>6 DEF StandsBehind
    <3>2. m # n
      BY <2>4, <2>6, <3>1
    <3> QED BY <2>4, <3>1, <3>2
  <2> DEFINE l == Len(pkt.opts[m + 1].value)
  <2>8. /\ option_len = 2 + l /\ l \in Nat
        /\ End[m] \in Nat /\ End[m + 1] = End[m] + (2 + l) /\ End[m + 1] <= Length
    BY <2>1, <2>7, OptionRead
  <2> HIDE DEF l
  <2>9. ~TooShort
    BY <2>8 DEF TooShort
  <2>10. OptionTooLong
    BY <1>4, <2>1, <2>9
  <2>11. ~ComesBack
    <3> SUFFICES ASSUME ComesBack PROVE FALSE
      OBVIOUS
    <3>1. header_length = 20 + Length + option_padding /\ (n > 0 => option_padding > 0)
          /\ option_padding \in 0 .. 3
      BY ComesBackFits DEF AsBuilt, AreaHolds
    <3>2. n > 0
      BY <2>4, <2>7
    <3>3. ~(prev_opt_end + option_len < header_length)
      BY <2>1, <2>10 DEF FitsHeader
    <3>4. header_length = 20 + Length + option_padding /\ option_padding \in 1 .. 3
      BY <3>1, <3>2
    <3> QED BY <2>4, <2>7, <2>8, <3>3, <3>4, SMTT(30)
  <2> QED BY <1>1, <1>2, <2>1, <2>10, <2>11 DEF Decoding
<1> QED BY <1>3, <1>4

-----------------------------------------------------------------------------
LEMMA StartsInvariant ==
  WellFormed(wire) /\ verify \in BOOLEAN /\ decoding = "header"
  /\ prev_opt_end = 20 /\ got = EmptyPacket => Inv
<1> SUFFICES ASSUME WellFormed(wire), verify \in BOOLEAN, decoding = "header",
                    prev_opt_end = 20, got = EmptyPacket
             PROVE  Inv
  OBVIOUS
<1>1. EmptyPacket \in PacketsOver(Seq(Options))
  BY EmptyIsPacket
<1>2. prev_opt_end \in 20 .. 59 /\ got.opts = <<>>
  BY DEF EmptyPacket
<1> QED BY <1>1, <1>2, NoSize
           DEF Inv, TypeOK, StaysInHeader, PacketsOver, FreshCursor, OptionsDisjoint

LEMMA BuildKeeps == CodecInv /\ BuildStep => CodecInv'
<1> SUFFICES ASSUME CodecInv, BuildStep PROVE CodecInv'
  OBVIOUS
<1>1. building \in {"sizing", "emitting"}
  BY DEF BuildStep, Build!Next, Build!SizeOption, Build!HeaderTooLarge, Build!Pad,
         Build!OptionTooLarge, Build!EmitOption, Build!Finish
<1>2. decoding = "waiting" /\ Fresh
  BY <1>1 DEF CodecInv
<1>3. decoding' = "waiting" /\ Fresh'
  BY <1>2 DEF BuildStep, decodeOnly, Fresh
<1>4. CASE Build!SizeOption
  <2>1. Sizing
    BY <1>4 DEF CodecInv, Build!SizeOption
  <2> QED BY <1>3, <1>4, <2>1, SizeOptionKeeps DEF CodecInv
<1>5. CASE Build!Pad
  <2>1. Sizing
    BY <1>5 DEF CodecInv, Build!Pad
  <2> QED BY <1>3, <1>5, <2>1, PadKeeps DEF CodecInv
<1>6. CASE Build!HeaderTooLarge \/ Build!OptionTooLarge
  <2>1. building' = "runtime_error"
    BY <1>6 DEF Build!HeaderTooLarge, Build!OptionTooLarge
  <2> QED BY <1>3, <2>1 DEF CodecInv
<1>7. CASE Build!EmitOption
  <2>1. Emitting
    BY <1>7 DEF CodecInv, Build!EmitOption
  <2> QED BY <1>3, <1>7, <2>1, EmitOptionKeeps DEF CodecInv
<1>8. CASE Build!Finish
  <2>1. Emitting
    BY <1>8 DEF CodecInv, Build!Finish
  <2> QED BY <1>3, <1>8, <2>1, FinishKeeps DEF CodecInv
<1> QED BY <1>4, <1>5, <1>6, <1>7, <1>8 DEF BuildStep, Build!Next

LEMMA DeliverKeeps == CodecInv /\ Deliver => CodecInv'
<1> SUFFICES ASSUME CodecInv, Deliver PROVE CodecInv'
  OBVIOUS
<1>1. /\ building = "built" /\ decoding = "waiting" /\ decoding' = "header"
      /\ UNCHANGED <<pkt, building, option_padding, wire, verify, prev_opt_end, got>>
  BY DEF Deliver, buildOnly
<1>2. AsBuilt /\ Fresh
  BY <1>1 DEF CodecInv
<1>3. AsBuilt'
  BY <1>1, <1>2, BuiltStays
<1>4. Decoding'
  BY <1>1, <1>2, StartDecoding
<1>5. Inv'
  <2>1. /\ WellFormed(wire)' /\ (verify \in BOOLEAN)' /\ (decoding = "header")'
        /\ (prev_opt_end = 20)' /\ (got = EmptyPacket)'
    BY <1>1, <1>2, <1>3 DEF AsBuilt, Fresh, EmptyPacket
  <2> QED BY <2>1, StartsInvariant, PTL
<1> QED BY <1>1, <1>3, <1>4, <1>5 DEF CodecInv

LEMMA DecodeKeeps == CodecInv /\ DecodeStep => CodecInv'
<1> SUFFICES ASSUME CodecInv, DecodeStep PROVE CodecInv'
  OBVIOUS
<1>1. Next /\ UNCHANGED <<pkt, building, option_padding>>
  BY DEF DecodeStep, buildOnly
<1>2. decoding # "waiting" /\ decoding' # "waiting" /\ wire' = wire
  BY <1>1 DEF Next, RejectHeader, AcceptHeader, OptionTooLong, ReversedRange,
              TakeOption, SkipPad, TakePayload, MoreOptions, BehindPad
<1>3. building \in {"built", "elsewhere"} /\ Inv
  BY <1>2 DEF CodecInv
<1>4. Inv'
  BY <1>1, <1>3, StepInv
<1>5. CASE building = "built"
  <2>1. AsBuilt /\ Decoding
    BY <1>2, <1>5 DEF CodecInv
  <2>2. AsBuilt'
    BY <1>1, <1>2, <2>1, BuiltStays
  <2>3. Decoding'
    BY <1>1, <1>3, <2>1, AcceptHeaderDecoding, TakePayloadDecoding,
       OptionStepDecoding, FailureDecoding DEF Next
  <2> QED BY <1>1, <1>2, <1>4, <1>5, <2>2, <2>3 DEF CodecInv
<1>6. CASE building = "elsewhere"
  BY <1>1, <1>2, <1>4, <1>6 DEF CodecInv
<1> QED BY <1>3, <1>5, <1>6

LEMMA StutterKeeps == CodecInv /\ UNCHANGED codecVars => CodecInv'
<1> SUFFICES ASSUME CodecInv, UNCHANGED codecVars PROVE CodecInv'
  OBVIOUS
<1>1. UNCHANGED <<pkt, building, k, ihl_bytes, option_padding, data, wire, verify,
                  decoding, prev_opt_end, got>>
  BY DEF codecVars, buildOnly, decodeOnly
<1>2. End' = End /\ Written' = Written /\ Length' = Length
  BY <1>1, SamePacket
<1>3. building = "sizing" => Sizing'
  BY <1>1, <1>2 DEF CodecInv, Sizing
<1>4. building = "emitting" => Emitting'
  BY <1>1, <1>2 DEF CodecInv, Emitting
<1>5. building = "built" => AsBuilt'
  BY <1>1, BuiltStays DEF CodecInv
<1>6. decoding # "waiting" => Inv'
  BY <1>1, StepInv DEF CodecInv, decodeVars
<1>7. Fresh => Fresh'
  BY <1>1 DEF Fresh
<1>8. ASSUME Decoding PROVE Decoding'
  <2>1. (\E m \in 0 .. Len(pkt.opts) : StandsBehind(m))'
    BY <1>1, <1>8, SamePlace DEF Decoding
  <2>2. (Genuine' <=> Genuine) /\ (ComesBack' <=> ComesBack)
        /\ header_length' = header_length
    BY <1>1 DEF Genuine, ComesBack, Fits, NoTerminator, PaddingFollows, header_length
  <2> QED BY <1>1, <1>8, <2>1, <2>2 DEF Decoding
<1> QED BY <1>1, <1>3, <1>4, <1>5, <1>6, <1>7, <1>8 DEF CodecInv

LEMMA CodecInvHolds == CodecSpec => []CodecInv
<1>1. CodecInv /\ [CodecNext]_codecVars => CodecInv'
  BY BuildKeeps, DeliverKeeps, DecodeKeeps, StutterKeeps DEF CodecNext
<1> QED BY <1>1, InitCodecInv, PTL DEF CodecSpec

-----------------------------------------------------------------------------
(* Decoding its own packets or others', the option loop of decodeFrom never *)
(* stands outside the header.                                              *)
THEOREM CodecStaysInHeader == CodecSpec => []StaysInHeader
<1>1. CodecInv => StaysInHeader
  BY DEF CodecInv, Inv, StaysInHeader
<1> QED BY <1>1, CodecInvHolds, PTL

(* No byte of the header belongs to two options that decodeFrom found,     *)
(* whatever lengths the options claim.                                     *)
THEOREM OptionsNeverOverlap == CodecSpec => []OptionsDisjoint
<1>1. CodecInv => OptionsDisjoint
  <2> SUFFICES ASSUME CodecInv PROVE OptionsDisjoint
    OBVIOUS
  <2>1. CASE decoding = "waiting"
    <3>1. prev_opt_end = 20 /\ got.opts = <<>>
      BY <2>1 DEF CodecInv, Fresh, EmptyPacket
    <3> QED BY <3>1, NoSize DEF OptionsDisjoint
  <2>2. CASE decoding # "waiting"
    BY <2>2 DEF CodecInv, Inv
  <2> QED BY <2>1, <2>2
<1> QED BY <1>1, CodecInvHolds, PTL

(* Every pass of the loop that goes on moves forward and keeps the options *)
(* it has.                                                                 *)
THEOREM CodecLoopAdvances == CodecSpec => LoopAdvances
<1> DEFINE Advance ==
      MoreOptions /\ decoding' = "options" =>
        /\ prev_opt_end' > prev_opt_end
        /\ SubSeq(got'.opts, 1, Len(got.opts)) = got.opts
<1>1. CodecInv /\ [CodecNext]_codecVars => [Advance]_decodeVars
  <2> SUFFICES ASSUME CodecInv, [CodecNext]_codecVars PROVE [Advance]_decodeVars
    OBVIOUS
  <2>1. CASE BuildStep
    BY <2>1 DEF BuildStep, decodeOnly, decodeVars, MoreOptions, CodecInv,
                Build!Next, Build!SizeOption, Build!HeaderTooLarge, Build!Pad,
                Build!OptionTooLarge, Build!EmitOption, Build!Finish
  <2>4. CASE Deliver
    BY <2>4 DEF Deliver, MoreOptions
  <2>2. CASE DecodeStep
    <3>1. Next
      BY <2>2 DEF DecodeStep
    <3>2. CASE MoreOptions
      <4>1. Inv
        BY <3>2 DEF CodecInv, MoreOptions
      <4> QED BY <3>1, <4>1, StepAdvances
    <3> QED BY <3>2
  <2>3. CASE UNCHANGED codecVars
    BY <2>3 DEF codecVars, decodeOnly, decodeVars
  <2> QED BY <2>1, <2>2, <2>3, <2>4 DEF CodecNext
<1> QED BY <1>1, CodecInvHolds, PTL DEF LoopAdvances, CodecSpec

(* The length field that build computes in its first loop is that of the   *)
(* options its second loop emits, up to the width of the counter.          *)
THEOREM LoopsOfBuildAgree == CodecSpec => []LengthFieldMatchesHeader
<1>1. CodecInv => LengthFieldMatchesHeader
  <2>1. CodecInv /\ building = "built" => wire.ihl * 4 = HeaderBytes % 256
    BY DEF CodecInv, AsBuilt, LengthsHold
  <2>2. HeaderBytes = 20 + Len(wire.area)
    BY DEF HeaderBytes
  <2> QED BY <2>1, <2>2 DEF LengthFieldMatchesHeader, Build!LengthFieldMatchesHeader
<1> QED BY <1>1, CodecInvHolds, PTL

(* A datagram whose header length wrapped never has a matching total       *)
(* length.                                                                 *)
THEOREM WrappingShows == CodecSpec => []WrappedLengthIsVisible
<1>1. CodecInv => WrappedLengthIsVisible
  <2> SUFFICES ASSUME CodecInv, building = "built", wire.total = wire.size
               PROVE  /\ wire.ihl * 4 = 20 + Len(wire.area)
                      /\ wire.size = wire.ihl * 4 + pkt.payload
    BY DEF WrappedLengthIsVisible, Build!WrappedLengthIsVisible
  <2>1. AsBuilt
    BY DEF CodecInv
  <2> QED BY <2>1, Announced DEF header_length, HeaderBytes
<1> QED BY <1>1, CodecInvHolds, PTL

(* What decodeFrom makes of a datagram that build returned has the fields  *)
(* and the payload size of the packet.                                     *)
THEOREM FieldsSurvive == CodecSpec => []AcceptedFieldsAreGenuine
<1>1. CodecInv => AcceptedFieldsAreGenuine
  <2> SUFFICES ASSUME CodecInv, building = "built", decoding = "decoded",
                      pkt.frag < 8192
               PROVE  /\ got.payload = pkt.payload
                      /\ <<got.ecn, got.df, got.mf, got.frag>> =
                         <<pkt.ecn, pkt.df, pkt.mf, pkt.frag>>
                      /\ got.dscp = pkt.dscp % 64
    BY DEF AcceptedFieldsAreGenuine, FromHere
  <2>1. Genuine /\ got.payload = pkt.payload
    BY DEF CodecInv, Decoding
  <2> QED BY <2>1 DEF Genuine
<1> QED BY <1>1, CodecInvHolds, PTL

(* decodeFrom never takes a length byte below 2 from build's output.       *)
THEOREM OwnLengthsAreSound == CodecSpec => []NoLengthError
<1>1. CodecInv => NoLengthError
  BY DEF CodecInv, Decoding, NoLengthError, FromHere
<1> QED BY <1>1, CodecInvHolds, PTL

(* Of the options of a packet without EOOLs, decodeFrom finds the first so *)
(* many.                                                                   *)
THEOREM OnlyATailIsLost == CodecSpec => []OptionsAreAPrefix
<1>1. CodecInv => OptionsAreAPrefix
  <2> SUFFICES ASSUME CodecInv, building = "built", decoding # "waiting",
                      NoTerminator(pkt)
               PROVE  /\ Len(got.opts) <= Len(pkt.opts)
                      /\ SubSeq(pkt.opts, 1, Len(got.opts)) = got.opts
    BY DEF OptionsAreAPrefix, FromHere
  <2>1. AsBuilt /\ Decoding
    BY DEF CodecInv
  <2>2. PICK m \in 0 .. Len(pkt.opts) : StandsBehind(m)
    BY <2>1 DEF Decoding
  <2>3. got.opts = SubSeq(pkt.opts, 1, m)
    BY <2>2 DEF StandsBehind
  <2>4. pkt.opts \in Seq(Options) /\ Len(pkt.opts) \in Nat
    BY <2>1, EndsAre DEF AsBuilt
  <2>5. Len(got.opts) = m
    BY <2>3, <2>4, PrefixIs
  <2> QED BY <2>3, <2>4, <2>5
<1> QED BY <1>1, CodecInvHolds, PTL

(* A packet that fits, has no EOOL, and has padding behind its options     *)
(* comes back as it was, whether or not the checksum is verified.          *)
THEOREM PacketsComeBack == CodecSpec => []RoundTripWhenPadded
<1>1. CodecInv => RoundTripWhenPadded
  <2> SUFFICES ASSUME CodecInv, building = "built", decoding \in Outcomes, ComesBack
               PROVE  decoding = "decoded" /\ got = pkt
    BY DEF RoundTripWhenPadded, Returned, FromHere, ComesBack
  <2>1. AsBuilt /\ Decoding /\ Inv
    BY DEF CodecInv, Outcomes
  <2>2. decoding = "decoded"
    BY <2>1 DEF Decoding, Outcomes
  <2>3. /\ Genuine /\ got.payload = pkt.payload /\ prev_opt_end >= header_length - 1
    BY <2>1, <2>2 DEF Decoding
  <2>4. PICK m \in 0 .. Len(pkt.opts) : StandsBehind(m)
    BY <2>1 DEF Decoding
  <2> DEFINE n == Len(pkt.opts)
  <2>5. /\ n \in Nat /\ Length \in Nat /\ End \in [0 .. n -> Nat] /\ Length = End[n]
        /\ pkt.opts \in Seq(Options)
        /\ \A j \in 0 .. n - 1 : End[j] < Length
    BY <2>1, EndsAre DEF AsBuilt, Length
  <2>6. m = n
    <3> SUFFICES ASSUME m # n PROVE FALSE
      OBVIOUS
    <3>1. m \in 0 .. n - 1 /\ n > 0 /\ m \in 0 .. n
      BY <2>5
    <3>2. header_length = 20 + Length + option_padding /\ option_padding > 0
          /\ option_padding \in 0 .. 3
      BY <2>1, <3>1, ComesBackFits DEF AsBuilt, AreaHolds
    <3>3. prev_opt_end = 20 + End[m]
      BY <2>4 DEF StandsBehind
    <3>4. End[m] < Length /\ End[m] \in Nat
      BY <2>5, <3>1
    <3> QED BY <2>3, <2>5, <3>2, <3>3, <3>4
  <2>7. got.opts = pkt.opts
    <3>1. got.opts = SubSeq(pkt.opts, 1, n)
      BY <2>4, <2>6 DEF StandsBehind, ComesBack
    <3> QED BY <2>5, <3>1, SubSeqFull
  <2>8. got.dscp = pkt.dscp
    <3> DEFINE d == pkt.dscp
    <3>0. pkt.dscp < 64
      BY DEF ComesBack, Fits
    <3>3. pkt.dscp \in 0 .. 255
      BY <2>1, PacketParts DEF AsBuilt
    <3>1. d \in Nat /\ d < 64
      <4> DEFINE u == 0 .. 255
      <4>1. \A x \in u : x \in Nat
        OBVIOUS
      <4> HIDE DEF u
      <4> QED BY <3>0, <3>3, <4>1 DEF u
    <3>2. d % 64 = d
      <4> HIDE DEF d
      <4> QED BY <3>1
    <3> QED BY <2>3, <3>2 DEF Genuine
  <2>9. /\ got.ecn = pkt.ecn /\ got.df = pkt.df /\ got.mf = pkt.mf
        /\ got.frag = pkt.frag
    BY <2>3 DEF Genuine, ComesBack, Fits
  <2>10. got \in PacketsOver(Seq(Options)) /\ pkt \in PacketTypes
    BY <2>1, GotIsPacket DEF AsBuilt
  <2> QED BY <2>2, <2>3, <2>7, <2>8, <2>9, <2>10, SamePackets
<1> QED BY <1>1, CodecInvHolds, PTL
=============================================================================
