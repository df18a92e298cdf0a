------------------------------ MODULE TCPBuild ------------------------------
(***************************************************************************)
(* TCP::Packet::build (src/TCP.cpp:77-141): a loop over the options        *)
(* computes the header length in a uint8_t, the fixed header is emitted    *)
(* with the data offset made of it, a second loop emits the options, then  *)
(* the padding, the payload and the checksum.  Of the packet only the      *)
(* options and the size of the payload matter here; the ports, numbers and *)
(* flags are copied, and the checksum is that of ChecksumField.tla.  What  *)
(* is built is described as TCPDecode.tla reads it.                        *)
(***************************************************************************)
EXTENDS Integers, Sequences

CONSTANT Packets     \* the packets build is called on

VARIABLES
  pkt,             \* the object, which build does not change
  building,        \* "sizing", "emitting", or the outcome: "built",
                   \* "runtime_error"
  k,               \* the option either loop has reached
  header_size,     \* uint8_t
  padding_bytes,   \* uint8_t
  data,            \* the option bytes emitted so far
  wire             \* the bytes returned

buildVars == <<pkt, building, k, header_size, padding_bytes, data, wire>>

UInt8 == 0 .. 255
MaxUInt16 == 65535

NOP == 1

NothingBuilt == <<>>

option == pkt.opts[k]

Init ==
  /\ pkt \in Packets
  /\ building = "sizing"
  /\ k = 1
  /\ header_size = 20
  /\ padding_bytes = 0
  /\ data = <<>>
  /\ wire = NothingBuilt

(* Mutant: the NOP in front of the option is not counted                   *)
SizeOf_NoNOP(o) == 1 + Len(o.value)

(* header_size += 2 + option_data.size(): a NOP, the kind and the data     *)
SizeOf(o) == 2 + Len(o.value)

SizeOption ==
  /\ building = "sizing"
  /\ k <= Len(pkt.opts)
  /\ header_size' = (header_size + SizeOf(option)) % 256
  /\ k' = k + 1
  /\ UNCHANGED <<pkt, building, padding_bytes, data, wire>>

(* ceil(header_size / 4.) * 4 - header_size, 0 for a multiple of 4         *)
Padding == (4 - (header_size % 4)) % 4

(* data_offset is at most 63, so that data_offset != (data_offset &        *)
(* 0xffff), the condition of "TCP Header too long", is never true.         *)
Pad ==
  /\ building = "sizing"
  /\ k > Len(pkt.opts)
  /\ padding_bytes' = Padding
  /\ header_size' = (header_size + Padding) % 256
  /\ k' = 1
  /\ building' = "emitting"
  /\ UNCHANGED <<pkt, data, wire>>

(* A NOP, the kind and the data: the length byte that decodeFrom reads is  *)
(* there only if the program put it first in option_data.                  *)
Emitted(o) == <<NOP, o.kind>> \o o.value

EmitOption ==
  /\ building = "emitting"
  /\ k <= Len(pkt.opts)
  /\ data' = data \o Emitted(option)
  /\ k' = k + 1
  /\ UNCHANGED <<pkt, building, header_size, padding_bytes, wire>>

Zeros(n) == [j \in 1 .. n |-> 0]

(* The upper four bits of data_offset << 4u, kept in a byte                *)
DataOffset == (header_size \div 4) % 16

SegmentSize == 20 + Len(data) + padding_bytes + pkt.payload

(* tcp_length is 16 bits wide: "TCP Packet too large for pseudoheader"     *)
TooLarge ==
  /\ building = "emitting"
  /\ k > Len(pkt.opts)
  /\ SegmentSize > MaxUInt16
  /\ building' = "runtime_error"
  /\ UNCHANGED <<pkt, k, header_size, padding_bytes, data, wire>>

Finish ==
  /\ building = "emitting"
  /\ k > Len(pkt.opts)
  /\ SegmentSize <= MaxUInt16
  /\ wire' = [size        |-> SegmentSize,
              data_offset |-> DataOffset,
              area        |-> data \o Zeros(padding_bytes)]
  /\ building' = "built"
  /\ UNCHANGED <<pkt, k, header_size, padding_bytes, data>>

Next == \/ SizeOption \/ Pad
        \/ EmitOption \/ TooLarge \/ Finish

Spec == Init /\ [][Next]_buildVars
-----------------------------------------------------------------------------
TypeOK ==
  /\ building \in {"sizing", "emitting", "built", "runtime_error"}
  /\ k \in 1 .. Len(pkt.opts) + 1
  /\ header_size \in UInt8
  /\ padding_bytes \in 0 .. 3
  /\ data \in Seq(UInt8)
  /\ building = "built" =>
       /\ wire.data_offset \in 0 .. 15
       /\ wire.size \in 0 .. MaxUInt16
       /\ wire.area \in Seq(UInt8)
  /\ building # "built" => wire = NothingBuilt

(* The two loops agree: the data offset that the first one led to is what  *)
(* the second one emitted, in 32-bit words, up to its four bits.           *)
OffsetMatchesHeader ==
  building = "built" => wire.data_offset * 4 = (20 + Len(wire.area)) % 64
=============================================================================
