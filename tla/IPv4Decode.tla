----------------------------- MODULE IPv4Decode -----------------------------
(***************************************************************************)
(* IPv4::Packet::decodeFrom (src/IPv4.cpp:47-113): the checks on the fixed *)
(* header, then the loop over the option bytes.  The datagram is whatever  *)
(* the caller passes; its fields are the ones the function reads:          *)
(*   size       len, the number of bytes passed                            *)
(*   ihl        data[0] & 0x0f                                             *)
(*   tos        data[1]                                                    *)
(*   total      data[2..3]                                                 *)
(*   flagsFrag  data[6..7]                                                 *)
(*   sumOK      calculateInternetChecksum(data, header_length) == 0        *)
(*   area       the bytes from data[20] on, at least those of the header   *)
(* The identification, TTL, protocol and addresses are copied as they are, *)
(* and of the payload only the size is kept.                               *)
(***************************************************************************)
EXTENDS Integers, Sequences, Sums

CONSTANT Datagrams    \* the datagrams decodeFrom is called with

MaxUInt16 == 65535
MaxOffset == 8191     \* thirteen bits

UInt8  == 0 .. 255
UInt16 == 0 .. MaxUInt16

Wires == [size : Nat, ihl : 0 .. 15, tos : UInt8, total : UInt16,
          flagsFrag : UInt16, sumOK : BOOLEAN, area : Seq(UInt8)]

(* What the model takes a datagram to be: its area holds every option byte *)
(* of the header it announces, when the datagram is that long.             *)
WellFormed(w) ==
  /\ w \in Wires
  /\ 20 <= w.ihl * 4 /\ w.ihl * 4 <= w.size => w.ihl * 4 - 20 <= Len(w.area)

ASSUME DatagramsAssumption == \A w \in Datagrams : WellFormed(w)

VARIABLES
  wire,            \* the datagram
  verify,          \* verify_checksum
  decoding,        \* "header", "options", or the outcome: "decoded",
                   \* "invalid_argument", "length_error"
  prev_opt_end,
  got              \* the packet decoded so far

decodeVars == <<wire, verify, decoding, prev_opt_end, got>>

EOOL == 0
NOP  == 1

Options == [type : UInt8, value : Seq(UInt8)]

(* The object Packet() makes                                               *)
EmptyPacket == [dscp |-> 0, ecn |-> 0, df |-> FALSE, mf |-> FALSE,
                frag |-> 0, opts |-> <<>>, payload |-> 0]

header_length == wire.ihl * 4

(* data[o], for an offset o among the option bytes                         *)
At(o) == wire.area[o - 19]

Bit(n, b) == (n \div 2 ^ b) % 2 = 1

Start ==
  /\ decoding = "header"
  /\ prev_opt_end = 20
  /\ got = EmptyPacket

Init ==
  /\ wire \in Datagrams
  /\ verify \in BOOLEAN
  /\ Start

(* Mutant: the total length field is not compared                          *)
HeaderRejected_AnyTotal ==
  \/ wire.size < 20
  \/ header_length < 20 \/ header_length > wire.size
  \/ verify /\ ~wire.sumOK

(* The four invalid_arguments thrown before any option is read, in order   *)
HeaderRejected ==
  \/ wire.size < 20
  \/ header_length < 20 \/ header_length > wire.size
  \/ verify /\ ~wire.sumOK
  \/ wire.total # wire.size

RejectHeader ==
  /\ decoding = "header"
  /\ HeaderRejected
  /\ decoding' = "invalid_argument"
  /\ UNCHANGED <<wire, verify, prev_opt_end, got>>

AcceptHeader ==
  /\ decoding = "header"
  /\ ~HeaderRejected
  /\ got' = [got EXCEPT !.dscp = wire.tos \div 4,
                        !.ecn  = wire.tos % 4,
                        !.df   = Bit(wire.flagsFrag, 14),
                        !.mf   = Bit(wire.flagsFrag, 13),
                        !.frag = wire.flagsFrag % (MaxOffset + 1)]
  /\ decoding' = "options"
  /\ UNCHANGED <<wire, verify, prev_opt_end>>

(* while (prev_opt_end < header_length - 1)                                *)
MoreOptions == decoding = "options" /\ prev_opt_end < header_length - 1

option_type == At(prev_opt_end)
option_len  == At(prev_opt_end + 1)
HasLength   == option_type \notin {EOOL, NOP}

(* Mutant: the bound is checked with the length of the value               *)
FitsHeader_ValueOnly == prev_opt_end + option_len - 2 < header_length

FitsHeader == prev_opt_end + option_len < header_length

(* Mutant: the length of the value does not wrap                           *)
TooShort_Never == FALSE

TooShort == option_len < 2

OptionTooLong ==
  /\ MoreOptions /\ HasLength
  /\ ~FitsHeader
  /\ decoding' = "invalid_argument"
  /\ UNCHANGED <<wire, verify, prev_opt_end, got>>

(* option_value_len = option_len - 2 wraps to 254 or 255: the range given  *)
(* to insert ends before it begins, which the standard leaves undefined    *)
(* and libstdc++ answers with length_error.                                *)
ReversedRange ==
  /\ MoreOptions /\ HasLength
  /\ TooShort /\ FitsHeader
  /\ decoding' = "length_error"
  /\ UNCHANGED <<wire, verify, prev_opt_end, got>>

(* The option's value: option_len - 2 bytes behind the length byte         *)
option_value == SubSeq(wire.area, prev_opt_end - 17,
                       prev_opt_end + option_len - 20)

(* Mutant: the loop advances by the length of the value                    *)
NextOption_Value == prev_opt_end + option_len - 2

NextOption == prev_opt_end + option_len

TakeOption ==
  /\ MoreOptions /\ HasLength
  /\ ~TooShort /\ FitsHeader
  /\ got' = [got EXCEPT !.opts = Append(@,
               [type |-> option_type, value |-> option_value])]
  /\ prev_opt_end' = NextOption
  /\ UNCHANGED <<wire, verify, decoding>>

(* Mutant: NOPs are dropped as well                                        *)
Kept_None(type) == FALSE

Kept(type) == type = NOP

(* Mutant: an EOOL is not passed over                                      *)
BehindPad_AtEOOL == IF option_type = EOOL THEN prev_opt_end ELSE prev_opt_end + 1

BehindPad == prev_opt_end + 1

(* NOPs are kept, EOOLs dropped: build writes them as padding.             *)
SkipPad ==
  /\ MoreOptions /\ ~HasLength
  /\ got' = IF Kept(option_type)
            THEN [got EXCEPT !.opts = Append(@, [type |-> NOP, value |-> <<>>])]
            ELSE got
  /\ prev_opt_end' = BehindPad
  /\ UNCHANGED <<wire, verify, decoding>>

(* if (total_length > header_length) the rest is the payload               *)
TakePayload ==
  /\ decoding = "options"
  /\ ~MoreOptions
  /\ got' = [got EXCEPT !.payload = IF wire.total > header_length
                                    THEN wire.total - header_length ELSE 0]
  /\ decoding' = "decoded"
  /\ UNCHANGED <<wire, verify, prev_opt_end>>

Next == \/ RejectHeader \/ AcceptHeader
        \/ OptionTooLong \/ ReversedRange \/ TakeOption \/ SkipPad
        \/ TakePayload

Spec == Init /\ [][Next]_decodeVars
-----------------------------------------------------------------------------
Outcomes == {"decoded", "invalid_argument", "length_error"}

TypeOK ==
  /\ WellFormed(wire)
  /\ verify \in BOOLEAN
  /\ decoding \in {"header", "options"} \cup Outcomes
  /\ prev_opt_end \in 20 .. 59
  /\ got \in [dscp : 0 .. 63, ecn : 0 .. 3, df : BOOLEAN, mf : BOOLEAN,
              frag : 0 .. MaxOffset, opts : Seq(Options), payload : UInt16]

(* However the length bytes of the options are chosen, the loop never      *)
(* stands beyond the end of the header, and the header never beyond the    *)
(* bytes that were passed: every type, length and value byte that is read  *)
(* is a header byte.                                                       *)
StaysInHeader ==
  decoding = "options" =>
    /\ header_length <= wire.size
    /\ prev_opt_end <= header_length

(* The options found so far, written back one after the other, take no     *)
(* more bytes than were read: none is read twice and none overlaps another.*)
EncodedSize(o) == IF o.type = NOP THEN 1 ELSE 2 + Len(o.value)

TotalSize(s) == Total([j \in 1 .. Len(s) |-> EncodedSize(s[j])])

OptionsDisjoint == TotalSize(got.opts) <= prev_opt_end - 20

(* An iteration of the loop moves forward and only adds to the options.    *)
LoopAdvances ==
  [][MoreOptions /\ decoding' = "options" =>
       /\ prev_opt_end' > prev_opt_end
       /\ SubSeq(got'.opts, 1, Len(got.opts)) = got.opts]_decodeVars
=============================================================================
