----------------------------- MODULE TCPDecode -----------------------------
(***************************************************************************)
(* TCP::Packet::decodeFrom (src/TCP.cpp:143-191), on whatever bytes the    *)
(* caller passes:                                                          *)
(*   size          length                                                  *)
(*   data_offset   data[12] >> 4                                           *)
(*   area          the bytes from data[20] on, at least those of the header*)
(* No checksum is verified, and of the payload only the size is kept.      *)
(***************************************************************************)
EXTENDS Integers, Sequences, Sums

CONSTANT Segments    \* what decodeFrom is called with

UInt8 == 0 .. 255

Wires == [size : Nat, data_offset : 0 .. 15, area : Seq(UInt8)]

(* The area holds every option byte of the header that is announced, when  *)
(* the segment is that long.                                               *)
WellFormed(w) ==
  /\ w \in Wires
  /\ 20 <= w.data_offset * 4 /\ w.data_offset * 4 <= w.size
       => w.data_offset * 4 - 20 <= Len(w.area)

ASSUME SegmentsAssumption == \A w \in Segments : WellFormed(w)

VARIABLES
  wire,
  decoding,        \* "header", "options", or the outcome: "decoded",
                   \* "invalid_argument", "length_error"
  option_start,
  got              \* the packet decoded so far

decodeVars == <<wire, decoding, option_start, got>>

EOL == 0
NOP == 1

Options == [kind : UInt8, value : Seq(UInt8)]

EmptyPacket == [opts |-> <<>>, payload |-> 0]

header_length == wire.data_offset * 4

(* data[o], for an offset o among the option bytes                         *)
At(o) == wire.area[o - 19]

Start ==
  /\ decoding = "header"
  /\ option_start = 20
  /\ got = EmptyPacket

Init ==
  /\ wire \in Segments
  /\ Start

HeaderRejected ==
  \/ wire.size < 20
  \/ header_length > wire.size \/ header_length < 20

RejectHeader ==
  /\ decoding = "header"
  /\ HeaderRejected
  /\ decoding' = "invalid_argument"
  /\ UNCHANGED <<wire, option_start, got>>

AcceptHeader ==
  /\ decoding = "header"
  /\ ~HeaderRejected
  /\ decoding' = "options"
  /\ UNCHANGED <<wire, option_start, got>>

(* while (option_start < header_length), until the break at an EOL         *)
MoreOptions ==
  /\ decoding = "options"
  /\ option_start < header_length
  /\ At(option_start) # EOL

option_kind   == At(option_start)
option_length == At(option_start + 1)
LengthMissing == option_start = header_length - 1

(* Mutant: the bound is checked with the length of the data                *)
FitsHeader_DataOnly == option_start + option_length - 2 <= header_length

FitsHeader == option_start + option_length <= header_length

(* Mutant: the length of the data does not wrap                            *)
TooShort_Never == FALSE

TooShort == option_length < 2

(* Mutant: a NOP ends the list                                             *)
BehindNOP_End == header_length

(* Mutant: a NOP is not passed over                                        *)
BehindNOP_Stays == option_start

BehindNOP == option_start + 1

(* NOPs are not kept.                                                      *)
SkipNOP ==
  /\ MoreOptions /\ option_kind = NOP
  /\ option_start' = BehindNOP
  /\ UNCHANGED <<wire, decoding, got>>

OptionLengthRequired ==
  /\ MoreOptions /\ option_kind # NOP
  /\ LengthMissing
  /\ decoding' = "invalid_argument"
  /\ UNCHANGED <<wire, option_start, got>>

OptionTooLong ==
  /\ MoreOptions /\ option_kind # NOP
  /\ ~LengthMissing /\ ~FitsHeader
  /\ decoding' = "invalid_argument"
  /\ UNCHANGED <<wire, option_start, got>>

(* A length below 2: insert is given a range that ends before it begins,   *)
(* which the standard leaves undefined and libstdc++ answers with          *)
(* length_error.                                                           *)
ReversedRange ==
  /\ MoreOptions /\ option_kind # NOP
  /\ ~LengthMissing /\ TooShort /\ FitsHeader
  /\ decoding' = "length_error"
  /\ UNCHANGED <<wire, option_start, got>>

(* The option's data: option_length - 2 bytes behind the length byte       *)
option_data == SubSeq(wire.area, option_start - 17,
                      option_start + option_length - 20)

(* Mutant: the loop advances by the length of the data                     *)
NextOption_Data == option_start + option_length - 2

NextOption == option_start + option_length

TakeOption ==
  /\ MoreOptions /\ option_kind # NOP
  /\ ~LengthMissing /\ ~TooShort /\ FitsHeader
  /\ got' = [got EXCEPT !.opts = Append(@,
               [kind |-> option_kind, value |-> option_data])]
  /\ option_start' = NextOption
  /\ UNCHANGED <<wire, decoding>>

(* Mutant: the payload begins where the options ended                      *)
PayloadSize_BehindOptions == wire.size - option_start

PayloadSize == wire.size - header_length

TakePayload ==
  /\ decoding = "options"
  /\ ~MoreOptions
  /\ got' = [got EXCEPT !.payload = PayloadSize]
  /\ decoding' = "decoded"
  /\ UNCHANGED <<wire, option_start>>

Next == \/ RejectHeader \/ AcceptHeader
        \/ SkipNOP \/ OptionLengthRequired \/ OptionTooLong
        \/ ReversedRange \/ TakeOption
        \/ TakePayload

Spec == Init /\ [][Next]_decodeVars
-----------------------------------------------------------------------------
Outcomes == {"decoded", "invalid_argument", "length_error"}

TypeOK ==
  /\ WellFormed(wire)
  /\ decoding \in {"header", "options"} \cup Outcomes
  /\ option_start \in 20 .. 60
  /\ got \in [opts : Seq(Options), payload : Nat]

(* However the length bytes of the options are chosen, the loop never      *)
(* stands beyond the end of the header, and the header never beyond the    *)
(* bytes that were passed: every type, length and data byte that is read   *)
(* is a header byte.                                                       *)
StaysInHeader ==
  decoding = "options" =>
    header_length <= wire.size /\ option_start <= header_length

(* Kind, length and data of the options found so far fit into the bytes    *)
(* that were read: no byte belongs to two options.                         *)
TotalSize(s) == Total([j \in 1 .. Len(s) |-> 2 + Len(s[j].value)])

OptionsDisjoint == TotalSize(got.opts) <= option_start - 20
=============================================================================
