----------------------------- MODULE IPv4Codec -----------------------------
(***************************************************************************)
(* A packet object, the datagram its build returns, and the object that    *)
(* decodeFrom makes of that datagram on the other side: IPv4Build and      *)
(* IPv4Decode, joined by the datagram.  decodeFrom is also called on       *)
(* datagrams that come from elsewhere.                                     *)
(***************************************************************************)
EXTENDS IPv4Decode

CONSTANT Packets

(* A packet object, as its class has it                                    *)
PacketTypes == [dscp : UInt8, ecn : 0 .. 3, df : BOOLEAN, mf : BOOLEAN,
                frag : UInt16, opts : Seq(Options), payload : Nat]

ASSUME PacketsAssumption == \A p \in Packets : p \in PacketTypes

VARIABLES pkt, building, k, ihl_bytes, option_padding, data

buildOnly  == <<pkt, building, k, ihl_bytes, option_padding, data>>
decodeOnly == <<verify, decoding, prev_opt_end, got>>
codecVars  == <<buildOnly, wire, decodeOnly>>

Build == INSTANCE IPv4Build

(* A packet is about to be built.                                          *)
FromBuild ==
  /\ Build!Init
  /\ verify \in BOOLEAN
  /\ decoding = "waiting"
  /\ prev_opt_end = 20
  /\ got = EmptyPacket

(* A datagram that this library did not build is about to be decoded.      *)
FromElsewhere ==
  /\ Init
  /\ pkt = EmptyPacket
  /\ building = "elsewhere"
  /\ k = 1
  /\ ihl_bytes = 20
  /\ option_padding = 0
  /\ data = <<>>

CodecInit == FromBuild \/ FromElsewhere

BuildStep == Build!Next /\ UNCHANGED decodeOnly

(* What was built arrives and decodeFrom is called on it.                  *)
Deliver ==
  /\ building = "built"
  /\ decoding = "waiting"
  /\ decoding' = "header"
  /\ UNCHANGED <<buildOnly, wire, verify, prev_opt_end, got>>

DecodeStep == Next /\ UNCHANGED buildOnly

CodecNext == BuildStep \/ Deliver \/ DecodeStep

CodecSpec == CodecInit /\ [][CodecNext]_codecVars /\ WF_codecVars(CodecNext)
-----------------------------------------------------------------------------
(* The header length build announces is that of the options it emitted, up *)
(* to the width of its counter.                                            *)
LengthFieldMatchesHeader == Build!LengthFieldMatchesHeader

(* A header whose length wrapped never has a total length that matches.    *)
WrappedLengthIsVisible == Build!WrappedLengthIsVisible

FromHere == building = "built"

Returned == FromHere /\ decoding \in Outcomes

(* The packets the wire format can carry and whose options end before the  *)
(* last byte of the header: no EOOL among them, and padding behind them.   *)
Fits(p) == 20 + TotalSize(p.opts) <= 60
           /\ 60 + p.payload <= 65535 /\ p.dscp < 64 /\ p.frag < 8192

NoTerminator(p) ==
  \A j \in DOMAIN p.opts :
     /\ p.opts[j].type # 0
     /\ p.opts[j].type = 1 => p.opts[j].value = <<>>

PaddingFollows(p) == p.opts = <<>> \/ TotalSize(p.opts) % 4 # 0

(* Such a packet survives the round trip whole, flags, options, payload    *)
(* size and all, whether or not the checksum is verified, and in spite of  *)
(* decodeFrom dropping EOOLs wherever they stand.                          *)
RoundTripWhenPadded ==
  Returned /\ Fits(pkt) /\ NoTerminator(pkt) /\ PaddingFollows(pkt) =>
    decoding = "decoded" /\ got = pkt

(* Whatever is decoded came through unharmed but for its options: a packet *)
(* whose lengths wrapped in build is never taken for another one.          *)
AcceptedFieldsAreGenuine ==
  FromHere /\ decoding = "decoded" /\ pkt.frag < 8192 =>
    /\ got.payload = pkt.payload
    /\ <<got.ecn, got.df, got.mf, got.frag>> =
       <<pkt.ecn, pkt.df, pkt.mf, pkt.frag>>
    /\ got.dscp = pkt.dscp % 64

(* At most the tail of the option list is lost, never a part in the middle *)
(* and nothing is made up, when no EOOL stands among the options.          *)
OptionsAreAPrefix ==
  FromHere /\ decoding # "waiting" /\ NoTerminator(pkt) =>
    /\ Len(got.opts) <= Len(pkt.opts)
    /\ SubSeq(pkt.opts, 1, Len(got.opts)) = got.opts

(* build's own output never makes decodeFrom form the reversed range of a  *)
(* length byte below 2 (IPv4.cpp:86-91).                                   *)
NoLengthError == FromHere => decoding # "length_error"

(* decodeFrom returns or throws, whatever bytes it is given: those that    *)
(* build returned, and any others.                                         *)
EveryDeliveryIsAnswered == (decoding = "header") ~> (decoding \in Outcomes)
-----------------------------------------------------------------------------
(* What tests/unit/decoding/ipv4Packet.cpp:65 asserts of the packet it     *)
(* builds and decodes: the options come back.  They do there because two   *)
(* bytes of padding follow them; without padding the last one does not.    *)
OptionsComeBack ==
  Returned /\ Fits(pkt) /\ NoTerminator(pkt) => got.opts = pkt.opts
=============================================================================
