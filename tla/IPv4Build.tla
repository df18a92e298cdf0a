----------------------------- MODULE IPv4Build -----------------------------
(***************************************************************************)
(* IPv4::Packet::build (src/IPv4.cpp:114-180): a first loop over the       *)
(* options computes the header length in a uint8_t, the fixed header is    *)
(* emitted from it, a second loop emits the options, then the padding, the *)
(* checksum and the payload.  A packet is the object's fields, as the      *)
(* constructor stores them without any check:                              *)
(*   dscp, ecn, df, mf, frag   dscp, ecn, dont_fragment, more_fragments,   *)
(*                             fragment_offset                             *)
(*   opts                      options                                     *)
(*   payload                   payload.size()                              *)
(* What is built is described by the fields a receiver reads: see          *)
(* IPv4Decode.tla.                                                         *)
(***************************************************************************)
EXTENDS Integers, Sequences

CONSTANT Packets     \* the packets build is called on

VARIABLES
  pkt,             \* the object, which build does not change
  building,        \* "sizing", "emitting", or the outcome: "built",
                   \* "runtime_error"
  k,               \* the option either loop has reached
  ihl_bytes,       \* uint8_t
  option_padding,  \* uint8_t
  data,            \* the option bytes emitted so far
  wire             \* the datagram returned

buildVars == <<pkt, building, k, ihl_bytes, option_padding, data, wire>>

UInt8  == 0 .. 255
UInt16 == 0 .. 65535

EOOL == 0
NOP  == 1

NoDatagram == <<>>

option == pkt.opts[k]

HasLength(o) == o.type \notin {EOOL, NOP}

(* Mutants: the length byte is not counted; it counts the value only       *)
SizeOf_NoLengthByte(o) == IF HasLength(o) THEN 1 + Len(o.value) ELSE 1

Emitted_ValueLength(o) ==
  IF HasLength(o) THEN <<o.type, Len(o.value) % 256>> \o o.value
  ELSE <<o.type>>

(* What the first loop counts for an option, and what the second emits     *)
SizeOf(o) == IF HasLength(o) THEN 2 + Len(o.value) ELSE 1

Emitted(o) ==
  IF HasLength(o) THEN <<o.type, (Len(o.value) + 2) % 256>> \o o.value
  ELSE <<o.type>>

Zeros(n) == [j \in 1 .. n |-> 0]

Init ==
  /\ pkt \in Packets
  /\ building = "sizing"
  /\ k = 1
  /\ ihl_bytes = 20
  /\ option_padding = 0
  /\ data = <<>>
  /\ wire = NoDatagram

SizeOption ==
  /\ building = "sizing"
  /\ k <= Len(pkt.opts)
  /\ ihl_bytes' = (ihl_bytes + SizeOf(option)) % 256
  /\ k' = k + 1
  /\ UNCHANGED <<pkt, building, option_padding, data, wire>>

(* ceil(ihl_bytes / 4.) * 4 - ihl_bytes, 0 for a multiple of 4             *)
Padding == (4 - (ihl_bytes % 4)) % 4

PaddedBytes == (ihl_bytes + Padding) % 256

(* if (ihl != (ihl & 0x0f)) throw                                          *)
HeaderTooLarge ==
  /\ building = "sizing"
  /\ k > Len(pkt.opts)
  /\ PaddedBytes \div 4 > 15
  /\ building' = "runtime_error"
  /\ UNCHANGED <<pkt, k, ihl_bytes, option_padding, data, wire>>

Pad ==
  /\ building = "sizing"
  /\ k > Len(pkt.opts)
  /\ PaddedBytes \div 4 <= 15
  /\ option_padding' = Padding
  /\ ihl_bytes' = PaddedBytes
  /\ k' = 1
  /\ building' = "emitting"
  /\ UNCHANGED <<pkt, data, wire>>

(* option_value.size() > UINT8_MAX - 2, for an option of any type          *)
OptionTooLarge ==
  /\ building = "emitting"
  /\ k <= Len(pkt.opts)
  /\ Len(option.value) > 253
  /\ building' = "runtime_error"
  /\ UNCHANGED <<pkt, k, ihl_bytes, option_padding, data, wire>>

EmitOption ==
  /\ building = "emitting"
  /\ k <= Len(pkt.opts)
  /\ Len(option.value) <= 253
  /\ data' = data \o Emitted(option)
  /\ k' = k + 1
  /\ UNCHANGED <<pkt, building, ihl_bytes, option_padding, wire>>

Flag(b) == IF b THEN 1 ELSE 0

Or(a, b) == IF a + b > 0 THEN 1 ELSE 0

(* Mutant: DF and MF change places                                         *)
FlagsFrag_Swapped(p) ==
  Flag(p.mf) * 16384 + Flag(p.df) * 8192 + (p.frag % 8192)

(* flags << 13 | fragment_offset: an offset of more than 13 bits reaches   *)
(* into the flags.                                                         *)
FlagsFrag(p) ==
  LET high == p.frag \div 8192
  IN  (high \div 4) * 32768
      + Or(Flag(p.df), (high \div 2) % 2) * 16384
      + Or(Flag(p.mf), high % 2) * 8192
      + (p.frag % 8192)

(* Mutant: the total length is taken from the bytes that were emitted      *)
total_length_OfData == (20 + Len(data) + option_padding + pkt.payload) % 65536

total_length == ((ihl_bytes \div 4) * 4 + (pkt.payload % 65536)) % 65536

(* The checksum covers the header that was emitted; a receiver sums the    *)
(* bytes the header length field announces.  When the two agree it finds 0 *)
(* (ChecksumField.tla), otherwise anything.                                *)
Finish ==
  /\ building = "emitting"
  /\ k > Len(pkt.opts)
  /\ LET ihl    == ihl_bytes \div 4
         area   == data \o Zeros(option_padding)
         header == 20 + Len(area)
     IN  \E sumOK \in IF ihl * 4 = header THEN {TRUE} ELSE BOOLEAN :
           wire' = [size      |-> header + pkt.payload,
                    ihl       |-> ihl,
                    tos       |-> ((pkt.dscp * 4) % 256) + pkt.ecn,
                    total     |-> total_length,
                    flagsFrag |-> FlagsFrag(pkt),
                    sumOK     |-> sumOK,
                    area      |-> area]
  /\ building' = "built"
  /\ UNCHANGED <<pkt, k, ihl_bytes, option_padding, data>>

Next == \/ SizeOption \/ HeaderTooLarge \/ Pad
        \/ OptionTooLarge \/ EmitOption \/ Finish

Spec == Init /\ [][Next]_buildVars
-----------------------------------------------------------------------------
TypeOK ==
  /\ building \in {"sizing", "emitting", "built", "runtime_error"}
  /\ k \in 1 .. Len(pkt.opts) + 1
  /\ ihl_bytes \in UInt8
  /\ option_padding \in 0 .. 3
  /\ data \in Seq(UInt8)
  /\ building = "built" =>
       /\ wire.ihl \in 0 .. 15 /\ wire.tos \in UInt8
       /\ wire.total \in UInt16 /\ wire.flagsFrag \in UInt16
       /\ wire.area \in Seq(UInt8)
  /\ building # "built" => wire = NoDatagram

(* The two loops agree: the length field of the header (line 134), which   *)
(* the first computed, is what the second emitted, up to the width of the  *)
(* counter.  A header of less than 256 bytes is announced as it is.        *)
LengthFieldMatchesHeader ==
  building = "built" => wire.ihl * 4 = (20 + Len(wire.area)) % 256

(* A header that is not announced as it is never hides behind a matching   *)
(* total length: a receiver that compares it with the datagram's size      *)
(* (IPv4.cpp:64) drops a datagram whose length fields wrapped.             *)
WrappedLengthIsVisible ==
  building = "built" /\ wire.total = wire.size =>
    /\ wire.ihl * 4 = 20 + Len(wire.area)
    /\ wire.size = wire.ihl * 4 + pkt.payload
=============================================================================
