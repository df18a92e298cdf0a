------------------------------ MODULE TCPCodec ------------------------------
(***************************************************************************)
(* A TCP packet object, the bytes its build returns, and the object that   *)
(* decodeFrom makes of them: TCPBuild and TCPDecode, joined by the bytes.  *)
(* decodeFrom is also called on segments that come from elsewhere.         *)
(***************************************************************************)
EXTENDS TCPDecode

CONSTANT Packets

(* A packet object, as its class has it                                    *)
PacketTypes == [opts : Seq(Options), payload : Nat]

ASSUME PacketsAssumption == \A p \in Packets : p \in PacketTypes

VARIABLES pkt, building, k, header_size, padding_bytes, data

buildOnly  == <<pkt, building, k, header_size, padding_bytes, data>>
decodeOnly == <<decoding, option_start, got>>
codecVars  == <<buildOnly, wire, decodeOnly>>

Build == INSTANCE TCPBuild

(* A packet is about to be built.                                          *)
FromBuild ==
  /\ Build!Init
  /\ decoding = "waiting"
  /\ option_start = 20
  /\ got = EmptyPacket

(* A segment that this library did not build is about to be decoded.       *)
FromElsewhere ==
  /\ Init
  /\ pkt = EmptyPacket
  /\ building = "elsewhere"
  /\ k = 1
  /\ header_size = 20
  /\ padding_bytes = 0
  /\ data = <<>>

CodecInit == FromBuild \/ FromElsewhere

BuildStep == Build!Next /\ UNCHANGED decodeOnly

(* What was built arrives and decodeFrom is called on it.                  *)
Deliver ==
  /\ building = "built"
  /\ decoding = "waiting"
  /\ decoding' = "header"
  /\ UNCHANGED <<buildOnly, wire, option_start, got>>

DecodeStep == Next /\ UNCHANGED buildOnly

CodecNext == BuildStep \/ Deliver \/ DecodeStep

CodecSpec == CodecInit /\ [][CodecNext]_codecVars /\ WF_codecVars(CodecNext)
-----------------------------------------------------------------------------
(* The data offset build announces is that of the options it emitted, up   *)
(* to its four bits.                                                       *)
OffsetMatchesHeader == Build!OffsetMatchesHeader

Returned == decoding \in Outcomes /\ building = "built"

(* build puts a NOP before every option.                                   *)
EmittedSize == 20 + TotalSize(pkt.opts)

Fits == EmittedSize <= 60

(* Where the header fits, what decodeFrom accepts has its payload where it *)
(* was put, whatever became of the options.                                *)
PayloadSurvives ==
  Returned /\ decoding = "decoded" /\ Fits => got.payload = pkt.payload

(* An option that carries its own length as the first byte of its data     *)
CarriesLength(o) ==
  o.kind \notin {0, 1} /\ o.value # <<>> /\ Head(o.value) = Len(o.value) + 1

(* A program that puts the length byte into option_data itself gets every  *)
(* option back, without that byte: also when the last one ends with the    *)
(* header, and whatever the bytes of the data look like.                   *)
OptionsWithLengthComeBack ==
  Returned /\ Fits /\ (\A j \in DOMAIN pkt.opts : CarriesLength(pkt.opts[j])) =>
    /\ decoding = "decoded"
    /\ got.opts = [j \in DOMAIN pkt.opts |->
                     [pkt.opts[j] EXCEPT !.value = Tail(@)]]

(* decodeFrom returns or throws, whatever bytes it is given: those that    *)
(* build returned, and any others.                                         *)
EveryDeliveryIsAnswered == (decoding = "header") ~> (decoding \in Outcomes)
-----------------------------------------------------------------------------
(* What tests/unit/decoding/tcpPacket.cpp:24-25 says an Option is: the     *)
(* kind and the bytes behind the length byte.  build takes it for that     *)
(* nowhere: the options it is given do not come back.                      *)
OptionsComeBack ==
  Returned /\ Fits /\ (\A j \in DOMAIN pkt.opts : pkt.opts[j].kind > 1) =>
    got.opts = pkt.opts
=============================================================================
