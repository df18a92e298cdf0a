----------------------------- MODULE FramePipe -----------------------------
(***************************************************************************)
(* `segment | packet | frame`: on top of TransportPipe.tla, a packet or an *)
(* ARP message piped onto an Ethernet frame (operator| of src/IPv4.cpp and *)
(* ARP.h), or any other layer (the template of Layer.h), and frames that   *)
(* are constructed or decoded (src/Ethernet.cpp).  Every one of these but  *)
(* the template goes through the constructor Frame(destination, ethertype, *)
(* source), which looks an all-zero source up: on Linux it throws when it  *)
(* finds none, on Windows it leaves the zeros.                             *)
(*                                                                         *)
(* The program has one frame, onto which it pipes; as with packets, the    *)
(* result takes its place or is kept.  Of a frame the addresses, the       *)
(* ethertype (NoType is 0) and the kind of its payload matter.  Histories: *)
(* where the source came from (the program, the wire, or the route it was  *)
(* looked up on), the addresses given or read off the wire (came, to),     *)
(* whether the ethertype was given, and the kinds piped on (contents).     *)
(***************************************************************************)
EXTENDS TransportPipe

VARIABLE frame

frameVars == <<pipeVars, frame>>

Named    == {"IPv4", "ARP"}    \* what sets the ethertype
Contents == Named \cup {"other layer"}
NoType   == "0"
Types    == Contents \cup {NoType, "given"}

NoFrame == [type |-> "no frame"]

FrameInit == Init /\ frame = NoFrame

(* An operation on frames alone                                            *)
FrameOperation == Operation /\ UNCHANGED <<interfaceVars, l4, ip>>

-----------------------------------------------------------------------------
(* Frame(destination, ethertype, source) throws                            *)
ConstructorThrows(src) == src = Unset /\ MACThrows

(* Mutant: the source that was given is not looked at                      *)
SourceOf_Own(src) == DefaultMAC

SourceOf(src) == IF src = Unset THEN DefaultMAC ELSE src

OriginOf(src, origin) == IF src = Unset THEN route ELSE origin

NewFrame ==
  /\ FrameOperation
  /\ \E dst \in Targets, src \in Addresses, type \in {NoType, "given"} :
       /\ ~ConstructorThrows(src)
       /\ frame' = [src |-> SourceOf(src), dst |-> dst, type |-> type,
                    payload |-> "none", origin |-> OriginOf(src, "given"),
                    came |-> src, to |-> dst,
                    given |-> type # NoType, contents |-> {}]

(* decodeFrom fills in a Frame that it default-constructs, so that it too  *)
(* looks the source up, though it overwrites it.                           *)
DecodeFrame ==
  /\ FrameOperation
  /\ ~ConstructorThrows(Unset)
  /\ \E dst \in Targets, src \in Addresses, type \in {NoType, "given"} :
       frame' = [src |-> src, dst |-> dst, type |-> type,
                 payload |-> "none", origin |-> "wire",
                 came |-> src, to |-> dst,
                 given |-> type # NoType, contents |-> {}]

(* Constructing or decoding throws: no frame is made.                      *)
FrameThrows == ConstructorThrows(Unset) /\ UNCHANGED frameVars

(* Fewer than 14 bytes: thrown before the Frame is made                    *)
DecodeTooShort == UNCHANGED frameVars

EtherType(content) == IF frame.type # NoType THEN frame.type ELSE content

(* The Frame that operator| constructs from the other one's fields         *)
Piped(content) ==
  [frame EXCEPT !.src = SourceOf(@), !.type = EtherType(content), !.payload = content,
                !.origin = OriginOf(frame.src, @), !.contents = @ \cup {content}]

(* operator| of IPv4::Packet and ARP::Packet                               *)
PipePacket ==
  /\ FrameOperation
  /\ frame # NoFrame
  /\ ~ConstructorThrows(frame.src)
  /\ \E content \in Named :
       /\ content = "IPv4" => ip # NoObject
       /\ frame' = Piped(content)

(* The lookup fails, or the packet's build throws (IPv4Build.tla).         *)
PipePacketThrows == frame # NoFrame /\ UNCHANGED frameVars

(* operator| of Layer.h:60-67: the frame is copied as it is.               *)
PipeLayer ==
  /\ FrameOperation
  /\ frame # NoFrame
  /\ frame' = [frame EXCEPT !.payload = "other layer",
                            !.contents = @ \cup {"other layer"}]

FrameNext ==
  \/ Next /\ UNCHANGED frame
  \/ NewFrame \/ DecodeFrame \/ FrameThrows \/ DecodeTooShort
  \/ PipePacket \/ PipePacketThrows \/ PipeLayer

FrameSpec == FrameInit /\ [][FrameNext]_frameVars
-----------------------------------------------------------------------------
Origins == RouteKinds \cup {"given", "wire"}

Frames == [src : Addresses, dst : Addresses, type : Types,
           payload : Contents \cup {"none"}, origin : Origins,
           came : Addresses, to : Addresses,
           given : BOOLEAN, contents : SUBSET Contents]

FrameTypeOK == TypeOK /\ frame \in Frames \cup {NoFrame}

(* Where a lookup makes a frame without a source rather than throw         *)
LeavesZeros ==
  IF platform = "Linux" THEN {"loopback"} ELSE {"failing", "loopback", "tunnel"}

(* A frame has an all-zero source only off the wire, or by a lookup of its *)
(* own that met an interface with no MAC address or, on Windows, a call    *)
(* that failed or an adapter whose address has not six bytes; on Linux the *)
(* constructor throws rather than leave it empty.  However the interface   *)
(* came and went, descriptors ran out and frames were reused.              *)
FramesHaveASource ==
  frame # NoFrame /\ frame.src = Unset => frame.origin \in LeavesZeros \cup {"wire"}

(* Addresses that were given or read off the wire stay what they are       *)
(* through any pipes, each in its place; a source of zeros is replaced by  *)
(* this host's address or by none.                                         *)
AddressesAreKept ==
  frame # NoFrame =>
    /\ frame.dst = frame.to
    /\ frame.came # Unset => frame.src = frame.came
    /\ frame.came = Unset => frame.src \in {Self, Unset}

-----------------------------------------------------------------------------
(* The header does not name what it carries, though it was not given.      *)
PacketMislabelled == ip # NoObject /\ ~ip.given /\ ip.kinds # {} /\ ip.number # ip.payload.kind

FrameMislabelled ==
  frame # NoFrame /\ ~frame.given /\ frame.payload \in Named /\ frame.type # frame.payload

(* There are two causes for a number or an ethertype that names something  *)
(* else: the object was reused, and carried another kind since its number  *)
(* was last set, or no segment but const ones was ever piped onto it.      *)
MislabelledHasACause ==
  /\ PacketMislabelled => ~ip.named \/ ip.kinds # {ip.payload.kind}
  /\ FrameMislabelled => frame.contents # {frame.payload}

(* What README.md:11-13 and 195-203 says: the protocol number and the      *)
(* ethertype are filled by what is piped on and say what is encapsulated,  *)
(* and the addresses under TCP's and UDP's checksum are set by the packet. *)
HeadersDescribeContents ==
  /\ ~PacketMislabelled /\ ~FrameMislabelled
  /\ ip # NoObject => CoversOwn(ip)
=============================================================================
