----------------------------- MODULE PipeProofs -----------------------------
(***************************************************************************)
(* Proofs about TransportPipe.tla and FramePipe.tla, for any hosts, routes *)
(* and descriptors, either platform and any number of operations.  The     *)
(* invariant says of the segment, the packet and the frame what holds of   *)
(* them however they were made.  It is stronger than the properties where  *)
(* these speak of causes: a number that was not given is missing, or one   *)
(* of the kinds piped on since, and so is an ethertype.                    *)
(***************************************************************************)
EXTENDS FramePipe, TLAPS

Covers(p) == ~CoversOwn(p) => p.by = "template" /\ p.met # <<p.src, p.dst>>

NumberKnown(p) ==
  /\ p.kinds = {} \/ p.payload.kind \in p.kinds
  /\ ~p.given => IF p.named THEN p.number \in p.kinds ELSE p.number = NoNumber

(* n descriptors are open, and down says whether the route ever led to no  *)
(* address.                                                                *)
Caused(p, n, down) == p.looked_up /\ p.src = Unset => down \/ n + 2 > FdLimit

Sound(p, n, down) ==
  p = NoObject
  \/ (p \in Packets /\ Covers(p) /\ NumberKnown(p) /\ Caused(p, n, down))

(* A segment's checksum is over the addresses it was constructed with or   *)
(* met last.                                                               *)
SoundSegment(s) ==
  s = NoObject
  \/ (s \in Segments /\ (s.summed => s.kind # "ICMP" /\ s.met = <<s.src, s.dst>>))

DownIsSeen == ~HasIPv4(route) => everDown

Inv ==
  /\ InterfaceTypeOK
  /\ SoundSegment(l4) /\ Sound(ip, fds, everDown)
  /\ ops \in 0 .. MaxOps
  /\ everDown \in BOOLEAN /\ DownIsSeen

(* A lookup fails for one of a few causes, which stay.                     *)
LEMMA LookupFails ==
  ASSUME InterfaceTypeOK, DownIsSeen
  PROVE  /\ DefaultIPv4 \in Addresses
         /\ DefaultIPv4 = Unset => everDown \/ fds + 2 > FdLimit
BY InterfaceAssumption
   DEF InterfaceTypeOK, DownIsSeen, DefaultIPv4, AddressFound, NameFound, HasIPv4, Addresses

LEMMA Leak ==
  ASSUME InterfaceTypeOK, LeakSocket, UNCHANGED <<platform, route>>
  PROVE  InterfaceTypeOK' /\ fds' >= fds
BY InterfaceAssumption DEF InterfaceTypeOK, LeakSocket

(* A sound packet stays sound while descriptors are only used up.          *)
LEMMA StaysSound ==
  ASSUME NEW n \in Nat, NEW m \in Nat, m >= n,
         NEW down \in BOOLEAN, NEW down2 \in BOOLEAN, down => down2,
         NEW p, Sound(p, n, down)
  PROVE  Sound(p, m, down2)
BY InterfaceAssumption DEF Sound, Caused

(* A packet and a segment as they are constructed                          *)
LEMMA NewIsSound ==
  ASSUME NEW src \in Addresses, NEW dst \in Addresses,
         NEW number \in {NoNumber, "other"}, NEW looked_up \in BOOLEAN,
         NEW n, NEW down, looked_up /\ src = Unset => down \/ n + 2 > FdLimit
  PROVE  Sound(NewPacket(src, dst, number, looked_up), n, down)
<1> DEFINE p == NewPacket(src, dst, number, looked_up)
<1>1. p \in Packets
  BY DEF NewPacket, Packets, Numbers, Addresses, NoSegment, NoNumber, Kinds
<1>2. Covers(p)
  BY DEF NewPacket, Covers, CoversOwn, NoSegment
<1>3. NumberKnown(p) /\ Caused(p, n, down)
  BY DEF NewPacket, NumberKnown, Caused
<1> QED BY <1>1, <1>2, <1>3 DEF Sound

LEMMA SegmentIsSound ==
  ASSUME NEW kind \in Kinds, NEW src \in Addresses, NEW dst \in Addresses,
         NEW summed \in BOOLEAN, summed => kind # "ICMP"
  PROVE  SoundSegment(Segment(kind, src, dst, summed))
BY DEF SoundSegment, Segment, Segments

LEMMA AddressedIsSound ==
  ASSUME SoundSegment(l4), l4 # NoObject, ip \in Packets
  PROVE  /\ Addressed(l4) \in Segments /\ SoundSegment(Addressed(l4))
         /\ Addressed(l4).kind = l4.kind
         /\ Addressed(l4).summed =>
              Addressed(l4).src = ip.src /\ Addressed(l4).dst = ip.dst
BY DEF Addressed, Segments, Packets, SoundSegment

(* The packet that carries a segment: it covers the packet's own addresses *)
(* or it was piped on by the template and had not met the packet.          *)
LEMMA CarryingIsSound ==
  ASSUME NEW n, NEW down, Sound(ip, n, down), ip # NoObject,
         NEW s \in Segments, SoundSegment(s),
         NEW operator \in {"member", "template"},
         operator = "member" /\ s.summed => s.src = ip.src /\ s.dst = ip.dst,
         NEW number \in Numbers, NEW named \in BOOLEAN,
         ~ip.given => IF named THEN number \in ip.kinds \cup {s.kind}
                      ELSE number = NoNumber
  PROVE  Sound([Carrying(s, operator) EXCEPT !.number = number, !.named = named], n, down)
<1> DEFINE b == BuildOf(s)
           p == [ip EXCEPT !.payload = b, !.by = operator, !.met = s.met,
                           !.kinds = @ \cup {s.kind}, !.number = number, !.named = named]
<1>1. ip \in Packets /\ Caused(ip, n, down)
  BY DEF Sound
<1>2. /\ b \in Built /\ b.kind = s.kind /\ b.summed = s.summed
      /\ b.src = s.src /\ b.dst = s.dst
  BY DEF BuildOf, Built, Segments
<1>3. /\ s.summed => s.met = <<s.src, s.dst>>
      /\ s.kind \in Kinds /\ s.met \in Addresses \X Addresses /\ s.src \in Addresses
      /\ s.dst \in Addresses
  BY DEF SoundSegment, Segments, NoObject
<1> HIDE DEF b
<1>4. p \in Packets
  BY <1>1, <1>2, <1>3 DEF Packets
<1>5. Covers(p)
  <2>1. p.src = ip.src /\ p.dst = ip.dst /\ p.payload = b /\ p.by = operator /\ p.met = s.met
    BY <1>1 DEF Packets
  <2> QED BY <2>1, <1>2, <1>3 DEF Covers, CoversOwn
<1>6. NumberKnown(p)
  BY <1>1, <1>2 DEF NumberKnown, Packets
<1>7. Caused(p, n, down)
  BY <1>1 DEF Caused, Packets
<1>8. [Carrying(s, operator) EXCEPT !.number = number, !.named = named] = p
  BY <1>1 DEF Carrying, b, Packets
<1> QED BY <1>4, <1>5, <1>6, <1>7, <1>8 DEF Sound

LEMMA MemberIsSound ==
  ASSUME NEW n, NEW down, Sound(ip, n, down), ip # NoObject,
         SoundSegment(l4), l4 # NoObject
  PROVE  Sound([Carrying(Addressed(l4), "member")
                  EXCEPT !.number = ProtocolNumber, !.named = ~ip.given], n, down)
<1>1. ip \in Packets /\ NumberKnown(ip)
  BY DEF Sound
<1>2. /\ Addressed(l4) \in Segments /\ SoundSegment(Addressed(l4))
      /\ Addressed(l4).kind = l4.kind
      /\ Addressed(l4).summed => Addressed(l4).src = ip.src /\ Addressed(l4).dst = ip.dst
  BY <1>1, AddressedIsSound
<1>3. l4.kind \in Kinds
  BY DEF SoundSegment, Segments
<1>4. ProtocolNumber \in Numbers
  BY <1>1, <1>3 DEF ProtocolNumber, Packets, Numbers
<1>5. ~ip.given => ProtocolNumber \in ip.kinds \cup {l4.kind}
  BY <1>1, <1>3 DEF ProtocolNumber, NumberKnown, Packets
<1>6. ASSUME NEW named \in BOOLEAN, named = ~ip.given
      PROVE  Sound([Carrying(Addressed(l4), "member")
                      EXCEPT !.number = ProtocolNumber, !.named = named], n, down)
  BY <1>2, <1>4, <1>5, <1>6, CarryingIsSound
<1>7. (~ip.given) \in BOOLEAN
  OBVIOUS
<1> QED BY <1>6, <1>7, Zenon

LEMMA TemplateIsSound ==
  ASSUME NEW n, NEW down, Sound(ip, n, down), ip # NoObject,
         SoundSegment(l4), l4 # NoObject
  PROVE  Sound(Carrying(l4, "template"), n, down)
<1>1. ip \in Packets /\ NumberKnown(ip) /\ l4 \in Segments
  BY DEF Sound, SoundSegment
<1>2. /\ ip.number \in Numbers /\ ip.named \in BOOLEAN
      /\ ~ip.given => IF ip.named THEN ip.number \in ip.kinds \cup {l4.kind}
                      ELSE ip.number = NoNumber
  BY <1>1 DEF NumberKnown, Packets
<1>3. Sound([Carrying(l4, "template") EXCEPT !.number = ip.number, !.named = ip.named],
            n, down)
  BY <1>1, <1>2, CarryingIsSound
<1>4. Carrying(l4, "template")
        = [Carrying(l4, "template") EXCEPT !.number = ip.number, !.named = ip.named]
  BY <1>1 DEF Carrying, Packets
<1> QED BY <1>3, <1>4

LEMMA NumberIsSound ==
  ASSUME NEW n, NEW down, Sound(ip, n, down), ip # NoObject,
         NEW number \in {NoNumber, "other"}
  PROVE  Sound([ip EXCEPT !.number = number, !.given = number # NoNumber,
                          !.kinds = {}, !.named = FALSE], n, down)
<1> DEFINE p == [ip EXCEPT !.number = number, !.given = number # NoNumber,
                           !.kinds = {}, !.named = FALSE]
<1>1. ip \in Packets /\ Covers(ip) /\ Caused(ip, n, down)
  BY DEF Sound
<1>2. p \in Packets
  BY <1>1 DEF Packets, Numbers, NoNumber
<1>3. Covers(p) /\ Caused(p, n, down)
  BY <1>1 DEF Covers, CoversOwn, Caused, Packets
<1>4. NumberKnown(p)
  BY <1>1 DEF NumberKnown, Packets
<1> QED BY <1>2, <1>3, <1>4 DEF Sound

-----------------------------------------------------------------------------
LEMMA InitInv == Init => Inv
<1> SUFFICES ASSUME Init PROVE Inv
  OBVIOUS
<1>1. InterfaceTypeOK /\ ops \in 0 .. MaxOps
  BY InterfaceAssumption, MaxOpsAssumption DEF Init, InterfaceInit, InterfaceTypeOK
<1>2. SoundSegment(l4) /\ Sound(ip, fds, everDown)
  BY DEF Init, SoundSegment, Sound
<1>3. everDown \in BOOLEAN /\ DownIsSeen
  BY Zenon DEF Init, DownIsSeen
<1> QED BY <1>1, <1>2, <1>3 DEF Inv

(* What an operation leaves as it was                                      *)
LEMMA Unchanged ==
  ASSUME Inv, Operation \/ UNCHANGED <<ops, everDown>>
  PROVE  /\ ops' \in 0 .. MaxOps
         /\ everDown' = everDown /\ everDown \in BOOLEAN
         /\ route' = route => DownIsSeen'
BY MaxOpsAssumption DEF Inv, Operation, DownIsSeen

(* A segment, and nothing else, is new or is changed.                      *)
LEMMA SegmentStep ==
  ASSUME Inv, Operation \/ UNCHANGED <<ops, everDown>>,
         UNCHANGED <<interfaceVars, ip>>, SoundSegment(l4')
  PROVE  Inv'
BY Unchanged DEF Inv, InterfaceTypeOK, interfaceVars, DownIsSeen

(* A packet is the result of an operation that may have left a socket open.*)
LEMMA PacketStep ==
  ASSUME Inv, Operation, UNCHANGED <<platform, route>>, InterfaceTypeOK', fds' >= fds,
         SoundSegment(l4'), ip' = ip \/ Sound(ip', fds, everDown)
  PROVE  Inv'
<1>1. fds \in Nat /\ fds' \in Nat /\ Sound(ip', fds, everDown)
  BY InterfaceAssumption DEF Inv, InterfaceTypeOK
<1>2. everDown' = everDown /\ everDown \in BOOLEAN
  BY Unchanged
<1>3. Sound(ip', fds', everDown')
  BY <1>1, <1>2, StaysSound
<1> QED BY <1>2, <1>3, Unchanged DEF Inv

LEMMA StepInv == Inv /\ [Next]_pipeVars => Inv'
<1> SUFFICES ASSUME Inv, [Next]_pipeVars
             PROVE  Inv'
  OBVIOUS
<1>a. /\ InterfaceTypeOK /\ fds \in Nat
      /\ SoundSegment(l4) /\ Sound(ip, fds, everDown)
      /\ everDown \in BOOLEAN /\ DownIsSeen
  BY InterfaceAssumption DEF Inv, InterfaceTypeOK
<1>b. Unset \in Addresses /\ Targets \subseteq Addresses /\ NoObject.kind = "none"
  BY InterfaceAssumption DEF Addresses, NoObject
<1>c. "TCP" \in Kinds /\ "UDP" \in Kinds /\ "ICMP" \in Kinds
  BY DEF Kinds
<1>e. ASSUME UNCHANGED interfaceVars
      PROVE  UNCHANGED <<platform, route>> /\ InterfaceTypeOK' /\ fds' >= fds
  BY <1>a, <1>e DEF interfaceVars, InterfaceTypeOK
<1>f. ASSUME LeakSocket \/ UNCHANGED fds, UNCHANGED <<platform, route>>
      PROVE  InterfaceTypeOK' /\ fds' >= fds
  BY <1>a, <1>f, Leak DEF InterfaceTypeOK
<1>1. CASE NewUDP
  <2>1. PICK no_checksum \in BOOLEAN : l4' = Segment("UDP", Unset, Unset, ~no_checksum)
    BY <1>1 DEF NewUDP
  <2>2. SoundSegment(l4')
    BY <2>1, <1>b, <1>c, SegmentIsSound
  <2> QED BY <1>1, <2>2, SegmentStep DEF NewUDP
<1>2. CASE NewUDPTo
  <2>1. PICK dst \in Targets, src \in Addresses : l4' = Segment("UDP", src, dst, TRUE)
    BY <1>2 DEF NewUDPTo
  <2>2. SoundSegment(l4')
    BY <2>1, <1>b, <1>c, SegmentIsSound
  <2> QED BY <1>2, <2>2, SegmentStep DEF NewUDPTo
<1>3. CASE NewTCP
  <2>1. SoundSegment(l4')
    BY <1>3, <1>b, <1>c, SegmentIsSound DEF NewTCP
  <2> QED BY <1>3, <2>1, SegmentStep DEF NewTCP
<1>4. CASE NewTCPTo
  <2>1. PICK dst \in Targets, src \in Addresses :
          IF src = Unset
          THEN ~IPv4Throws /\ LeakSocket /\ l4' = Segment("TCP", DefaultIPv4, dst, TRUE)
          ELSE UNCHANGED fds /\ l4' = Segment("TCP", src, dst, TRUE)
    BY <1>4 DEF NewTCPTo
  <2>2. DefaultIPv4 \in Addresses /\ dst \in Addresses
    BY <1>a, <1>b, LookupFails
  <2>3. PICK a \in Addresses : l4' = Segment("TCP", a, dst, TRUE)
    BY <2>1, <2>2
  <2>4. SoundSegment(l4')
    BY <2>2, <2>3, <1>c, SegmentIsSound
  <2>5. UNCHANGED <<platform, route>> /\ Operation /\ ip' = ip
    BY <1>4 DEF NewTCPTo
  <2>6. InterfaceTypeOK' /\ fds' >= fds
    BY <2>1, <2>5, <1>f
  <2> QED BY <2>4, <2>5, <2>6, PacketStep
<1>5. CASE NewICMP
  <2>1. SoundSegment(l4')
    BY <1>5, <1>b, <1>c, SegmentIsSound DEF NewICMP
  <2> QED BY <1>5, <2>1, SegmentStep DEF NewICMP
<1>6. CASE SetSegmentPayload
  <2>1. SoundSegment(l4')
    BY <1>6, <1>a DEF SetSegmentPayload, SoundSegment, Segments
  <2> QED BY <1>6, <2>1, SegmentStep DEF SetSegmentPayload
<1>7. CASE NewIP
  <2>1. PICK dst \in Targets, src \in Addresses, number \in {NoNumber, "other"} :
          IF src = Unset
          THEN /\ ~IPv4Throws /\ LeakSocket
               /\ ip' = NewPacket(DefaultIPv4, dst, number, TRUE)
          ELSE UNCHANGED fds /\ ip' = NewPacket(src, dst, number, FALSE)
    BY <1>7 DEF NewIP
  <2>2. Sound(ip', fds, everDown)
    BY <1>a, <1>b, <2>1, LookupFails, NewIsSound
  <2>3. UNCHANGED <<platform, route>> /\ Operation /\ l4' = l4
    BY <1>7 DEF NewIP
  <2>4. InterfaceTypeOK' /\ fds' >= fds
    BY <2>1, <2>3, <1>f
  <2> QED BY <1>a, <2>2, <2>3, <2>4, PacketStep
<1>8. CASE NewIPOfFields
  <2>1. PICK dst \in Targets, src \in Addresses, number \in {NoNumber, "other"} :
          ip' = NewPacket(src, dst, number, FALSE)
    BY <1>8 DEF NewIPOfFields
  <2>2. Sound(ip', fds, everDown)
    BY <1>b, <2>1, NewIsSound
  <2>3. UNCHANGED interfaceVars /\ Operation /\ l4' = l4
    BY <1>8 DEF NewIPOfFields
  <2> QED BY <1>a, <1>e, <2>2, <2>3, PacketStep
<1>9. CASE SetProtocolNumber
  <2>1. PICK number \in {NoNumber, "other"} :
          ip' = [ip EXCEPT !.number = number, !.given = number # NoNumber,
                           !.kinds = {}, !.named = FALSE]
    BY <1>9 DEF SetProtocolNumber
  <2>2. ip # NoObject /\ UNCHANGED interfaceVars /\ Operation /\ l4' = l4
    BY <1>9 DEF SetProtocolNumber
  <2>3. Sound(ip', fds, everDown)
    BY <1>a, <2>1, <2>2, NumberIsSound
  <2> QED BY <1>a, <1>e, <2>2, <2>3, PacketStep
<1>10. CASE PipeMember
  <2>1. /\ UNCHANGED interfaceVars /\ Operation /\ l4' = Addressed(l4)
        /\ l4 # NoObject /\ ip # NoObject /\ ip \in Packets
    BY <1>10, <1>a DEF PipeMember, Sound
  <2>2. SoundSegment(l4')
    BY <1>a, <2>1, AddressedIsSound
  <2>3. ip' = ip \/ Sound(ip', fds, everDown)
    BY <1>10, <1>a, <2>1, MemberIsSound DEF PipeMember, Assign
  <2> QED BY <1>e, <2>1, <2>2, <2>3, PacketStep
<1>11. CASE PipeMemberThrows
  <2>1. /\ UNCHANGED <<interfaceVars, ip, ops, everDown>> /\ l4' = Addressed(l4)
        /\ l4 # NoObject /\ ip \in Packets
    BY <1>11, <1>a DEF PipeMemberThrows, Sound
  <2>2. SoundSegment(l4')
    BY <1>a, <2>1, AddressedIsSound
  <2> QED BY <2>1, <2>2, SegmentStep
<1>12. CASE PipeTemplate
  <2>1. /\ UNCHANGED interfaceVars /\ Operation /\ l4' = l4
        /\ l4 # NoObject /\ ip # NoObject
    BY <1>12 DEF PipeTemplate
  <2>2. ip' = ip \/ Sound(ip', fds, everDown)
    BY <1>12, <1>a, <2>1, TemplateIsSound DEF PipeTemplate, Assign
  <2> QED BY <1>a, <1>e, <2>1, <2>2, PacketStep
<1>13. CASE EnvRouteChange
  <2>1. /\ UNCHANGED <<l4, ip, ops, platform, fds>> /\ route' \in Routes
        /\ everDown' = (everDown \/ ~HasIPv4(route'))
    BY <1>13 DEF EnvRouteChange, RouteChange
  <2>2. everDown' \in BOOLEAN /\ DownIsSeen' /\ (everDown => everDown')
    <3>1. (everDown \/ ~HasIPv4(route')) \in BOOLEAN
      OBVIOUS
    <3> QED BY <2>1, <3>1, Zenon DEF DownIsSeen
  <2>3. fds' \in Nat /\ fds' >= fds /\ Sound(ip', fds, everDown)
    BY <1>a, <2>1
  <2>4. Sound(ip', fds', everDown')
    <3> HIDE DEF Sound
    <3> QED BY <1>a, <2>2, <2>3, StaysSound, SMTT(30)
  <2> QED BY <1>a, <2>1, <2>2, <2>4 DEF Inv, InterfaceTypeOK
<1>14. CASE LookupThrows \/ UNCHANGED pipeVars
  BY <1>14 DEF Inv, InterfaceTypeOK, DownIsSeen, LookupThrows, pipeVars, interfaceVars
<1> QED BY <1>1, <1>2, <1>3, <1>4, <1>5, <1>6, <1>7, <1>8, <1>9, <1>10, <1>11,
           <1>12, <1>13, <1>14 DEF Next

-----------------------------------------------------------------------------
(* The invariants of frames, of one of them; where a lookup leaves zeros   *)
(* depends on the platform.                                                *)
HasASource(f, zeros) == f.src = Unset => f.origin \in zeros \cup {"wire"}

Kept(f) ==
  /\ f.dst = f.to
  /\ f.came # Unset => f.src = f.came
  /\ f.came = Unset => f.src \in {Self, Unset}

TypeKnown(f) ==
  /\ f.payload = "none" \/ f.payload \in f.contents
  /\ ~f.given => IF f.contents \cap Named = {} THEN f.type = NoType
                 ELSE f.type \in f.contents \cap Named

SoundFrame(f, zeros) ==
  f = NoFrame \/ (f \in Frames /\ HasASource(f, zeros) /\ Kept(f) /\ TypeKnown(f))

FrameInv == Inv /\ SoundFrame(frame, LeavesZeros)

(* What the constructor of Frame makes of the source it is given, when it  *)
(* does not throw                                                          *)
LEMMA ConstructedSource ==
  ASSUME InterfaceTypeOK, NEW src \in Addresses, NEW origin \in Origins,
         ~ConstructorThrows(src)
  PROVE  /\ SourceOf(src) \in Addresses /\ OriginOf(src, origin) \in Origins
         /\ SourceOf(src) = Unset => OriginOf(src, origin) \in LeavesZeros
         /\ src # Unset => SourceOf(src) = src
         /\ src = Unset => SourceOf(src) \in {Self, Unset}
<1>1. CASE src # Unset
  BY <1>1 DEF SourceOf, OriginOf
<1>2. CASE src = Unset
  <2>1. route \in RouteKinds /\ platform \in Platforms /\ ~MACThrows
    BY <1>2, InterfaceAssumption DEF InterfaceTypeOK, ConstructorThrows
  <2>2. DefaultMAC = Unset => route \in LeavesZeros
    BY <2>1, InterfaceAssumption
       DEF DefaultMAC, MACThrows, IPv4Throws, HasIPv4, NameFound, LeavesZeros, RouteKinds,
           Platforms
  <2>3. DefaultMAC \in {Self, Unset} /\ DefaultMAC \in Addresses
    BY InterfaceAssumption DEF DefaultMAC, Addresses
  <2> QED BY <1>2, <2>1, <2>2, <2>3 DEF SourceOf, OriginOf, Origins
<1> QED BY <1>1, <1>2

(* A frame as it is constructed or decoded                                 *)
LEMMA NewFrameIsSound ==
  ASSUME NEW src \in Addresses, NEW dst \in Addresses, NEW came \in Addresses,
         NEW origin \in Origins, NEW type \in {NoType, "given"},
         src = Unset => origin \in LeavesZeros \cup {"wire"},
         came # Unset => src = came, came = Unset => src \in {Self, Unset}
  PROVE  SoundFrame([src |-> src, dst |-> dst, type |-> type, payload |-> "none",
                     origin |-> origin, came |-> came, to |-> dst,
                     given |-> type # NoType, contents |-> {}], LeavesZeros)
BY DEF SoundFrame, Frames, HasASource, Kept, TypeKnown, Types

(* The frame that operator| of a packet makes                              *)
LEMMA PipedIsSound ==
  ASSUME InterfaceTypeOK, SoundFrame(frame, LeavesZeros), frame # NoFrame,
         ~ConstructorThrows(frame.src), NEW content \in Named
  PROVE  SoundFrame(Piped(content), LeavesZeros)
<1>1. frame \in Frames /\ HasASource(frame, LeavesZeros) /\ Kept(frame) /\ TypeKnown(frame)
  BY DEF SoundFrame
<1> DEFINE src == SourceOf(frame.src)
           origin == OriginOf(frame.src, frame.origin)
           type == EtherType(content)
           f == [frame EXCEPT !.src = src, !.type = type, !.payload = content,
                              !.origin = origin, !.contents = @ \cup {content}]
<1>2. frame.src \in Addresses /\ frame.origin \in Origins
  BY <1>1 DEF Frames
<1>3. /\ src \in Addresses /\ origin \in Origins
      /\ src = Unset => origin \in LeavesZeros
      /\ frame.src # Unset => src = frame.src
      /\ frame.src = Unset => src \in {Self, Unset}
  BY <1>2, ConstructedSource
<1>4. type \in Types
  BY <1>1 DEF Frames, EtherType, Types, Contents
<1>5. ~frame.given => type \in (frame.contents \cup {content}) \cap Named
  BY <1>1 DEF TypeKnown, EtherType
<1>6. f = Piped(content)
  BY <1>1 DEF Piped, Frames
<1> HIDE DEF src, origin, type
<1>7. f \in Frames
  BY <1>1, <1>3, <1>4 DEF Frames, Contents
<1>8. HasASource(f, LeavesZeros)
  BY <1>1, <1>3 DEF HasASource, Frames
<1>9. Kept(f)
  BY <1>1, <1>3 DEF Kept, Frames
<1>10. TypeKnown(f)
  <2>1. /\ f.payload = content /\ f.given = frame.given /\ f.type = type
        /\ f.contents = frame.contents \cup {content}
    BY <1>1 DEF Frames
  <2> QED BY <2>1, <1>5 DEF TypeKnown
<1> QED BY <1>6, <1>7, <1>8, <1>9, <1>10 DEF SoundFrame

(* The frame that the template makes: only the payload is another.         *)
LEMMA LayerIsSound ==
  ASSUME SoundFrame(frame, LeavesZeros), frame # NoFrame
  PROVE  SoundFrame([frame EXCEPT !.payload = "other layer",
                                  !.contents = @ \cup {"other layer"}], LeavesZeros)
<1> DEFINE f == [frame EXCEPT !.payload = "other layer",
                              !.contents = @ \cup {"other layer"}]
<1>1. frame \in Frames /\ HasASource(frame, LeavesZeros) /\ Kept(frame) /\ TypeKnown(frame)
  BY DEF SoundFrame
<1>2. f \in Frames
  BY <1>1 DEF Frames, Contents
<1>3. HasASource(f, LeavesZeros) /\ Kept(f)
  BY <1>1 DEF HasASource, Kept, Frames
<1>4. TypeKnown(f)
  <2>1. /\ f.payload = "other layer" /\ f.given = frame.given /\ f.type = frame.type
        /\ f.contents = frame.contents \cup {"other layer"}
    BY <1>1 DEF Frames
  <2>2. f.contents \cap Named = frame.contents \cap Named
    BY <2>1 DEF Named
  <2> QED BY <2>1, <2>2, <1>1 DEF TypeKnown
<1> QED BY <1>2, <1>3, <1>4 DEF SoundFrame

LEMMA FrameOperationStep ==
  ASSUME Inv, FrameOperation
  PROVE  Inv'
BY Unchanged DEF FrameOperation, Inv, InterfaceTypeOK, interfaceVars, DownIsSeen

LEMMA InitFrameInv == FrameInit => FrameInv
BY InitInv DEF FrameInit, FrameInv, SoundFrame

LEMMA StepFrameInv == FrameInv /\ [FrameNext]_frameVars => FrameInv'
<1> SUFFICES ASSUME FrameInv, [FrameNext]_frameVars PROVE FrameInv'
  OBVIOUS
<1>0. Inv /\ InterfaceTypeOK /\ SoundFrame(frame, LeavesZeros)
  BY DEF FrameInv, Inv
<1>a. ASSUME UNCHANGED platform PROVE LeavesZeros' = LeavesZeros
  BY <1>a DEF LeavesZeros
<1>b. ASSUME UNCHANGED <<platform, frame>>, Inv' PROVE FrameInv'
  BY <1>0, <1>a, <1>b DEF FrameInv
<1>c. ASSUME FrameOperation, SoundFrame(frame', LeavesZeros) PROVE FrameInv'
  <2>1. UNCHANGED platform
    BY <1>c DEF FrameOperation, interfaceVars
  <2> QED BY <1>0, <1>a, <1>c, <2>1, FrameOperationStep DEF FrameInv
<1>1. CASE Next /\ UNCHANGED frame
  <2>1. UNCHANGED platform
    BY <1>1 DEF Next, NewUDP, NewUDPTo, NewTCP, NewTCPTo, NewICMP, SetSegmentPayload, NewIP,
                LookupThrows, NewIPOfFields, SetProtocolNumber, PipeMember, PipeMemberThrows,
                PipeTemplate, EnvRouteChange, RouteChange, interfaceVars, pipeVars
  <2> QED BY <1>0, <1>1, <1>b, <2>1, StepInv
<1>2. CASE NewFrame
  <2>1. PICK dst \in Targets, src \in Addresses, type \in {NoType, "given"} :
          /\ ~ConstructorThrows(src)
          /\ frame' = [src |-> SourceOf(src), dst |-> dst, type |-> type,
                       payload |-> "none", origin |-> OriginOf(src, "given"),
                       came |-> src, to |-> dst,
                       given |-> type # NoType, contents |-> {}]
    BY <1>2 DEF NewFrame
  <2>2. dst \in Addresses /\ "given" \in Origins
    BY InterfaceAssumption DEF Addresses, Origins
  <2>3. /\ SourceOf(src) \in Addresses /\ OriginOf(src, "given") \in Origins
        /\ SourceOf(src) = Unset => OriginOf(src, "given") \in LeavesZeros
        /\ src # Unset => SourceOf(src) = src
        /\ src = Unset => SourceOf(src) \in {Self, Unset}
    BY <1>0, <2>1, <2>2, ConstructedSource
  <2>4. ASSUME NEW s, NEW o, s = SourceOf(src), o = OriginOf(src, "given")
        PROVE  SoundFrame([src |-> s, dst |-> dst, type |-> type, payload |-> "none",
                           origin |-> o, came |-> src, to |-> dst,
                           given |-> type # NoType, contents |-> {}], LeavesZeros)
    <3>1. /\ s \in Addresses /\ o \in Origins
          /\ s = Unset => o \in LeavesZeros \cup {"wire"}
          /\ src # Unset => s = src
          /\ src = Unset => s \in {Self, Unset}
      BY <2>3, <2>4
    <3> QED BY <2>2, <3>1, NewFrameIsSound, ZenonT(40)
  <2>5. SoundFrame(frame', LeavesZeros)
    BY <2>1, <2>4, Zenon
  <2> QED BY <1>2, <1>c, <2>5 DEF NewFrame
<1>3. CASE DecodeFrame
  <2>1. PICK dst \in Targets, src \in Addresses, type \in {NoType, "given"} :
          frame' = [src |-> src, dst |-> dst, type |-> type,
                    payload |-> "none", origin |-> "wire",
                    came |-> src, to |-> dst,
                    given |-> type # NoType, contents |-> {}]
    BY <1>3 DEF DecodeFrame
  <2>2. dst \in Addresses /\ "wire" \in Origins /\ "wire" \in LeavesZeros \cup {"wire"}
    BY InterfaceAssumption DEF Addresses, Origins
  <2>3. SoundFrame(frame', LeavesZeros)
    BY <2>1, <2>2, NewFrameIsSound
  <2> QED BY <1>3, <1>c, <2>3 DEF DecodeFrame
<1>4. CASE PipePacket
  <2>1. FrameOperation /\ \E content \in Named : frame' = Piped(content)
    BY <1>4 DEF PipePacket
  <2>2. SoundFrame(frame', LeavesZeros)
    BY <1>0, <1>4, PipedIsSound DEF PipePacket
  <2> QED BY <1>c, <2>1, <2>2
<1>5. CASE PipeLayer
  <2>1. SoundFrame(frame', LeavesZeros)
    BY <1>0, <1>5, LayerIsSound DEF PipeLayer
  <2> QED BY <1>5, <1>c, <2>1 DEF PipeLayer
<1>6. CASE \/ FrameThrows \/ DecodeTooShort \/ PipePacketThrows
           \/ UNCHANGED frameVars
  <2>1. UNCHANGED frameVars
    BY <1>6 DEF FrameThrows, DecodeTooShort, PipePacketThrows
  <2>2. UNCHANGED <<platform, frame, pipeVars>>
    BY <2>1 DEF frameVars, pipeVars, interfaceVars
  <2> QED BY <1>0, <1>b, <2>2, StepInv
<1> QED BY <1>1, <1>2, <1>3, <1>4, <1>5, <1>6 DEF FrameNext

LEMMA InvHolds == FrameSpec => []FrameInv
BY InitFrameInv, StepFrameInv, PTL DEF FrameSpec

-----------------------------------------------------------------------------
(* The segment, the packet, the frame and the interface keep the types the *)
(* objects of the program have.                                            *)
THEOREM PipeTypeCorrect == FrameSpec => []FrameTypeOK
<1>1. FrameInv => FrameTypeOK
  BY DEF FrameInv, Inv, Sound, SoundSegment, SoundFrame, TypeOK, FrameTypeOK
<1> QED BY <1>1, InvHolds, PTL

(* A packet carries a TCP or UDP checksum over other addresses than its    *)
(* own only by the template of Layer.h:60-67, of a segment that had not    *)
(* met it or had met another one since (operator| of src/TCP.cpp and       *)
(* src/UDP.cpp).                                                           *)
THEOREM OnlyConstSegmentsAreForeign == FrameSpec => []ForeignChecksumHasACause
<1>1. FrameInv => ForeignChecksumHasACause
  BY DEF FrameInv, Inv, Sound, Covers, ForeignChecksumHasACause
<1> QED BY <1>1, InvHolds, PTL

(* A source address looked up by Packet's constructor is 0.0.0.0 only      *)
(* after the route was down, a call failed or the descriptors had run out. *)
THEOREM UnsetSourceHasACause == FrameSpec => []ZeroSourceHasACause
<1>1. FrameInv => ZeroSourceHasACause
  BY DEF FrameInv, Inv, Sound, Caused, ZeroSourceHasACause
<1> QED BY <1>1, InvHolds, PTL

(* A protocol number or an ethertype that was not given and names another  *)
(* kind than it carries is that of an object that was reused, or of a      *)
(* packet onto which only const segments were piped.                       *)
THEOREM MislabelledIsReusedOrConst == FrameSpec => []MislabelledHasACause
<1>1. FrameInv => MislabelledHasACause
  <2> SUFFICES ASSUME FrameInv PROVE MislabelledHasACause
    OBVIOUS
  <2>1. PacketMislabelled => ~ip.named \/ ip.kinds # {ip.payload.kind}
    BY DEF FrameInv, Inv, Sound, NumberKnown, PacketMislabelled
  <2>2. FrameMislabelled => frame.contents # {frame.payload}
    BY DEF FrameInv, SoundFrame, TypeKnown, FrameMislabelled
  <2> QED BY <2>1, <2>2 DEF MislabelledHasACause
<1> QED BY <1>1, InvHolds, PTL

(* No order of constructing, decoding, piping and reusing leaves a frame   *)
(* without a source, but where a lookup of its own left zeros: on Linux on *)
(* the loopback interface only, on Windows also where a call failed or no  *)
(* address of six bytes was found (src/utils.cpp:64-123).                  *)
THEOREM SourceIsKnown == FrameSpec => []FramesHaveASource
<1>1. FrameInv => FramesHaveASource
  BY DEF FrameInv, SoundFrame, HasASource, FramesHaveASource
<1> QED BY <1>1, InvHolds, PTL

(* The addresses given to a frame, or read off the wire, are those it has  *)
(* after any pipes, and zeros are replaced by this host's address only.    *)
THEOREM SourceIsKept == FrameSpec => []AddressesAreKept
<1>1. FrameInv => AddressesAreKept
  BY DEF FrameInv, SoundFrame, Kept, AddressesAreKept
<1> QED BY <1>1, InvHolds, PTL
=============================================================================
