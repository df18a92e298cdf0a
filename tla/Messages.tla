------------------------------ MODULE Messages ------------------------------
(***************************************************************************)
(* The messages whose bytes the library makes out of fields and no decoder *)
(* of it reads: ARP packets (include/pktbuilder/ARP.h) and ICMP timestamps *)
(* (src/ICMP.cpp:47-76), with a reader that follows RFC 826 and RFC 792.   *)
(***************************************************************************)
EXTENDS Bytes, Sequences

Zeros(n) == [j \in 1 .. n |-> 0]

-----------------------------------------------------------------------------
(* Constructors.  Each class passes its arguments on to the one above, and *)
(* is the same for Request (opcode 1) and Reply (2).                       *)
IPv4Type == 8 * Radix    \* 0x0800

ARPPacket(sha, spa, tha, tpa, hardware_type, protocol_type, opcode) ==
  [sha |-> sha, spa |-> spa, tha |-> tha, tpa |-> tpa,
   hardware_type |-> hardware_type, protocol_type |-> protocol_type, opcode |-> opcode]

EthernetARP(sha, spa, tha, tpa, protocol_type, opcode) ==
  ARPPacket(sha, spa, tha, tpa, 1, protocol_type, opcode)

IPv4ARP(sha, spa, tha, tpa, hardware_type, opcode) ==
  ARPPacket(sha, spa, tha, tpa, hardware_type, IPv4Type, opcode)

(* Mutant: the arguments go up in the order they came                      *)
IPv4EthernetARP_InOrder(spa, sha, tpa, tha, opcode) ==
  EthernetARP(spa, sha, tpa, tha, IPv4Type, opcode)

(* The one class that takes protocol addresses first                       *)
IPv4EthernetARP(spa, sha, tpa, tha, opcode) ==
  EthernetARP(sha, spa, tha, tpa, IPv4Type, opcode)

(* Constructors without arguments fill in what the class knows.            *)
BlankARP(class, hlen, plen, opcode) ==
  ARPPacket(Zeros(hlen), Zeros(plen), Zeros(hlen), Zeros(plen),
            IF class \in {"Ethernet", "IPv4Ethernet"} THEN 1 ELSE 0,
            IF class \in {"IPv4", "IPv4Ethernet"} THEN IPv4Type ELSE 0, opcode)

(* The object a program makes for the fields a.given                       *)
Constructed(a) ==
  LET g == a.given
  IN  CASE a.blank -> BlankARP(a.class, Len(g.sha), Len(g.spa), g.opcode)
        [] ~a.blank /\ a.class = "Packet" ->
             ARPPacket(g.sha, g.spa, g.tha, g.tpa, g.hardware_type, g.protocol_type, g.opcode)
        [] ~a.blank /\ a.class = "Ethernet" ->
             EthernetARP(g.sha, g.spa, g.tha, g.tpa, g.protocol_type, g.opcode)
        [] ~a.blank /\ a.class = "IPv4" ->
             IPv4ARP(g.sha, g.spa, g.tha, g.tpa, g.hardware_type, g.opcode)
        [] ~a.blank /\ a.class = "IPv4Ethernet" ->
             IPv4EthernetARP(g.spa, g.sha, g.tpa, g.tha, g.opcode)

(* ARP::Packet::build                                                      *)
BuildARP(p) ==
  SplitBytes(p.hardware_type) \o SplitBytes(p.protocol_type)
    \o <<Len(p.sha), Len(p.spa)>> \o SplitBytes(p.opcode)
    \o p.sha \o p.spa \o p.tha \o p.tpa

-----------------------------------------------------------------------------
DWordSize == WordSize * WordSize

(* splitBytesBigEndian<uint32_t>, combineBytesBigEndian(b1, b2, b3, b4)    *)
SplitBytes4(w) == SplitBytes(w \div WordSize) \o SplitBytes(w % WordSize)

CombineBytes4(b, at) ==
  CombineBytes(b[at], b[at + 1]) * WordSize + CombineBytes(b[at + 2], b[at + 3])

(* createTimestampMessage, createTimestampReplyMessage with arguments      *)
TimestampMessage(originate) == SplitBytes4(originate) \o Zeros(8)

TimestampReply(originate, receive, transmit) ==
  SplitBytes4(originate) \o SplitBytes4(receive) \o SplitBytes4(transmit)

-----------------------------------------------------------------------------
(* RFC 826: the lengths of the addresses are in the packet.  What follows  *)
(* them is padding.                                                        *)
ARPLength(b) == 8 + 2 * (b[5] + b[6])

ReadARP(b) ==
  LET hlen == b[5]
      plen == b[6]
      field(from, n) == SubSeq(b, from + 1, from + n)
  IN  ARPPacket(field(8, hlen), field(8 + hlen, plen),
                field(8 + hlen + plen, hlen), field(8 + 2 * hlen + plen, plen),
                CombineBytes(b[1], b[2]), CombineBytes(b[3], b[4]),
                CombineBytes(b[7], b[8]))

TimestampLength == 12
=============================================================================
