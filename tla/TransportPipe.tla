--------------------------- MODULE TransportPipe ---------------------------
(***************************************************************************)
(* `segment | packet`: a TCP packet, UDP datagram or ICMP message piped    *)
(* onto an IPv4 packet (operator| of src/TCP.cpp, UDP.cpp, ICMP.cpp and    *)
(* the template of include/pktbuilder/Layer.h), in any order a program may *)
(* construct, reuse and pipe its objects.                                  *)
(*                                                                         *)
(* The program has one variable of each kind: l4, the segment, and ip, the *)
(* packet it pipes onto, which may take the result to be piped onto again. *)
(*   l4      kind, the addresses its checksum is to cover, whether it has  *)
(*           one, and whether its payload is too large for its length      *)
(*   ip      addresses, protocol number (NoNumber is 0), and the segment   *)
(*           built into the payload: the addresses its checksum covers     *)
(* Histories of a packet: whether the program gave the number, and since   *)
(* then the kinds piped onto it (kinds) and whether a segment was that     *)
(* could set the number (named); which operator| set the payload (by), and *)
(* the addresses that the segment in it was constructed with or met last,  *)
(* on a packet it was piped onto (met); whether its source was looked up.  *)
(* everDown: the route has led to no IPv4 address, or calls have failed.   *)
(***************************************************************************)
EXTENDS Interface

CONSTANT MaxOps    \* the objects a program makes: constructed, decoded, or the
                   \* result of a pipe, and the protocol numbers it sets

ASSUME MaxOpsAssumption == MaxOps \in Nat

VARIABLES l4, ip, ops, everDown

pipeVars == <<interfaceVars, l4, ip, ops, everDown>>

Kinds    == {"TCP", "UDP", "ICMP"}
NoNumber == "0"
Numbers  == Kinds \cup {NoNumber, "other"}

NoObject  == [kind |-> "none"]
NoSegment == [kind |-> "none", src |-> Unset, dst |-> Unset, summed |-> FALSE]

Segment(kind, src, dst, summed) ==
  [kind |-> kind, src |-> src, dst |-> dst, summed |-> summed, large |-> FALSE,
   met |-> <<src, dst>>]

NewPacket(src, dst, number, looked_up) ==
  [kind |-> "IPv4", src |-> src, dst |-> dst, number |-> number,
   payload |-> NoSegment, given |-> number # NoNumber, kinds |-> {}, named |-> FALSE,
   by |-> "none", met |-> <<Unset, Unset>>, looked_up |-> looked_up]

(* The program makes another object.                                       *)
Operation == ops < MaxOps /\ ops' = ops + 1 /\ UNCHANGED everDown

Init ==
  /\ InterfaceInit
  /\ l4 = NoObject /\ ip = NoObject
  /\ ops = 0
  /\ everDown = ~HasIPv4(route)

-----------------------------------------------------------------------------
(* Datagram(destination_port, source_port, no_checksum) and the other one, *)
(* which takes the source address as it is                                 *)
NewUDP ==
  /\ \E no_checksum \in BOOLEAN :
       l4' = Segment("UDP", Unset, Unset, ~no_checksum)
  /\ Operation
  /\ UNCHANGED <<interfaceVars, ip>>

NewUDPTo ==
  /\ \E dst \in Targets, src \in Addresses : l4' = Segment("UDP", src, dst, TRUE)
  /\ Operation
  /\ UNCHANGED <<interfaceVars, ip>>

NewTCP ==
  /\ l4' = Segment("TCP", Unset, Unset, TRUE)
  /\ Operation
  /\ UNCHANGED <<interfaceVars, ip>>

(* An all-zero source address is looked up.                                *)
NewTCPTo ==
  /\ \E dst \in Targets, src \in Addresses :
       IF src = Unset
       THEN ~IPv4Throws /\ LeakSocket /\ l4' = Segment("TCP", DefaultIPv4, dst, TRUE)
       ELSE UNCHANGED fds /\ l4' = Segment("TCP", src, dst, TRUE)
  /\ Operation
  /\ UNCHANGED <<platform, route, ip>>

(* ICMP's checksum covers no addresses.                                    *)
NewICMP ==
  /\ l4' = Segment("ICMP", Unset, Unset, FALSE)
  /\ Operation
  /\ UNCHANGED <<interfaceVars, ip>>

(* setPayload, or data | segment, with more or less than the length fields *)
(* of UDP and TCP can count                                                *)
SetSegmentPayload ==
  /\ l4 # NoObject
  /\ l4' = [l4 EXCEPT !.large = ~@]
  /\ UNCHANGED <<interfaceVars, ip, ops, everDown>>

(* Packet(destination_ip, protocol, source_ip): zeros are looked up        *)
NewIP ==
  /\ \E dst \in Targets, src \in Addresses, number \in {NoNumber, "other"} :
       IF src = Unset
       THEN /\ ~IPv4Throws /\ LeakSocket
            /\ ip' = NewPacket(DefaultIPv4, dst, number, TRUE)
       ELSE UNCHANGED fds /\ ip' = NewPacket(src, dst, number, FALSE)
  /\ Operation
  /\ UNCHANGED <<platform, route, l4>>

(* The lookup of either constructor throws: no object is made.             *)
LookupThrows == IPv4Throws /\ UNCHANGED pipeVars

(* The constructor of all fields, and decodeFrom: nothing is looked up     *)
NewIPOfFields ==
  /\ \E dst \in Targets, src \in Addresses, number \in {NoNumber, "other"} :
       ip' = NewPacket(src, dst, number, FALSE)
  /\ Operation
  /\ UNCHANGED <<interfaceVars, l4>>

SetProtocolNumber ==
  /\ ip # NoObject
  /\ \E number \in {NoNumber, "other"} :
       ip' = [ip EXCEPT !.number = number, !.given = number # NoNumber,
                        !.kinds = {}, !.named = FALSE]
  /\ Operation
  /\ UNCHANGED <<interfaceVars, l4>>

-----------------------------------------------------------------------------
(* build() of a segment: what its checksum covers                          *)
BuildOf(s) == [kind |-> s.kind, src |-> s.src, dst |-> s.dst, summed |-> s.summed]

BuildThrows(s) == s.kind # "ICMP" /\ s.large

(* Mutant: the addresses are taken over once build has not thrown          *)
Addressed_AfterBuild(s) ==
  IF s.kind = "ICMP" THEN s
  ELSE IF BuildThrows(s) THEN [s EXCEPT !.met = <<ip.src, ip.dst>>]
  ELSE [s EXCEPT !.src = ip.src, !.dst = ip.dst, !.met = <<ip.src, ip.dst>>]

(* TCP and UDP take the packet's addresses over, in the operand itself     *)
Addressed(s) ==
  IF s.kind = "ICMP" THEN s
  ELSE [s EXCEPT !.src = ip.src, !.dst = ip.dst, !.met = <<ip.src, ip.dst>>]

(* packet = l4 | ip or ip = l4 | ip: a new object, which the program pipes *)
(* on or keeps, when nothing more happens to it                            *)
Assign(result) == ip' = result \/ ip' = ip

(* The packet that carries segment s                                       *)
Carrying(s, operator) ==
  [ip EXCEPT !.payload = BuildOf(s), !.by = operator, !.met = s.met,
             !.kinds = @ \cup {s.kind}]

(* Mutant: the protocol number is left as it is                            *)
ProtocolNumber_Kept == ip.number

ProtocolNumber == IF ip.number # NoNumber THEN ip.number ELSE l4.kind

(* l4 | ip, for an ICMP message or a segment that is not const             *)
PipeMember ==
  /\ Operation
  /\ l4 # NoObject /\ ip # NoObject
  /\ ~BuildThrows(l4)
  /\ l4' = Addressed(l4)
  /\ Assign([Carrying(Addressed(l4), "member")
               EXCEPT !.number = ProtocolNumber, !.named = ~ip.given])
  /\ UNCHANGED interfaceVars

(* build throws: there is no result, but the operand is changed already.   *)
PipeMemberThrows ==
  /\ l4 # NoObject /\ ip # NoObject
  /\ BuildThrows(l4)
  /\ l4' = Addressed(l4)
  /\ UNCHANGED <<interfaceVars, ip, ops, everDown>>

(* For a const segment, operator| of TCP and UDP, which is not const, is   *)
(* no candidate, and the template of Layer.h:60-67 takes its place.        *)
PipeTemplate ==
  /\ Operation
  /\ l4 # NoObject /\ ip # NoObject
  /\ l4.kind # "ICMP"
  /\ ~BuildThrows(l4)
  /\ Assign(Carrying(l4, "template"))
  /\ UNCHANGED <<interfaceVars, l4>>

EnvRouteChange ==
  /\ RouteChange
  /\ everDown' = (everDown \/ ~HasIPv4(route'))
  /\ UNCHANGED <<l4, ip, ops>>

Next == \/ NewUDP \/ NewUDPTo \/ NewTCP \/ NewTCPTo \/ NewICMP
        \/ SetSegmentPayload
        \/ NewIP \/ LookupThrows \/ NewIPOfFields \/ SetProtocolNumber
        \/ PipeMember \/ PipeMemberThrows \/ PipeTemplate
        \/ EnvRouteChange
-----------------------------------------------------------------------------
Built == [kind : Kinds, src : Addresses, dst : Addresses, summed : BOOLEAN]

Segments == [kind : Kinds, src : Addresses, dst : Addresses,
             summed : BOOLEAN, large : BOOLEAN, met : Addresses \X Addresses]

Packets == [kind : {"IPv4"}, src : Addresses, dst : Addresses,
            number : Numbers, payload : Built \cup {NoSegment},
            given : BOOLEAN, kinds : SUBSET Kinds, named : BOOLEAN,
            by : {"none", "member", "template"}, met : Addresses \X Addresses,
            looked_up : BOOLEAN]

TypeOK ==
  /\ InterfaceTypeOK
  /\ l4 \in Segments \cup {NoObject}
  /\ ip \in Packets \cup {NoObject}
  /\ ops \in 0 .. MaxOps
  /\ everDown \in BOOLEAN

(* Whether the checksum of what the packet carries, if it has one, covers  *)
(* that packet's addresses                                                 *)
CoversOwn(p) ==
  p.payload.summed => p.payload.src = p.src /\ p.payload.dst = p.dst

(* A packet carries a checksum over other addresses than its own for one   *)
(* cause only: its segment was const when it was piped on, and had been    *)
(* constructed with other addresses and never piped since, or had last met *)
(* a packet with others, be it that building it threw then.  No order of   *)
(* piping, reusing and failing leads there otherwise.                      *)
ForeignChecksumHasACause ==
  ip # NoObject /\ ~CoversOwn(ip) =>
    ip.by = "template" /\ ip.met # <<ip.src, ip.dst>>

(* A source address that was to be looked up is missing only after the     *)
(* route was down, a call failed or the sockets left open have used up the *)
(* descriptors.                                                            *)
ZeroSourceHasACause ==
  ip # NoObject /\ ip.looked_up /\ ip.src = Unset => everDown \/ fds + 2 > FdLimit
=============================================================================
