------------------------------- MODULE Stack -------------------------------
(***************************************************************************)
(* Contents piped onto layers in any order, built, sent, received and      *)
(* decoded layer by layer, as README.md:170-207 and :312-379 do it: build  *)
(* and decodeFrom of every layer as far as lengths go, and the contents    *)
(* the library makes itself (Messages) down to their bytes.  Each layer    *)
(* puts a header before the bytes it is given; what a receiver has to find *)
(* out is where its payload ends.                                          *)
(*                                                                         *)
(* An instance with a small Radix has short length fields: all wraps and   *)
(* limits are where WordSize puts them.                                    *)
(***************************************************************************)
EXTENDS Messages

CONSTANTS
  DataSizes,    \* sizes of application data
  ARPs,         \* [given, class, blank] : ARP packets a program may make
  Clocks,       \* times that the clock may show, in milliseconds
  Day,          \* milliseconds in a day
  MaxLayers,    \* how many layers a program pipes onto, one after the other
  MinFrame,     \* the shortest frame an Ethernet link carries: 60 bytes
  Cuts          \* how many bytes a truncated capture may lack

(* What ARP classes are made for: Ethernet's have the hardware type 1 and  *)
(* IPv4's the protocol type 0x0800; without arguments, all else is zero.   *)
ARPFields ==
  [sha : Seq(Byte), spa : Seq(Byte), tha : Seq(Byte), tpa : Seq(Byte),
   hardware_type : Word, protocol_type : Word, opcode : Word]

GivesNothing(class, packet) ==
  /\ \A address \in {packet.sha, packet.spa, packet.tha, packet.tpa} :
       \A j \in 1 .. Len(address) : address[j] = 0
  /\ class \in {"Packet", "IPv4"} => packet.hardware_type = 0
  /\ class \in {"Packet", "Ethernet"} => packet.protocol_type = 0

ASSUME StackAssumption ==
  /\ DataSizes \subseteq Nat
  /\ \A a \in ARPs :
       /\ a.class \in {"Packet", "Ethernet", "IPv4", "IPv4Ethernet"}
       /\ a.blank \in BOOLEAN
       /\ a.given \in ARPFields
       /\ {Len(a.given.sha), Len(a.given.spa)} \subseteq Byte
       /\ Len(a.given.tha) = Len(a.given.sha) /\ Len(a.given.tpa) = Len(a.given.spa)
       /\ a.class \in {"Ethernet", "IPv4Ethernet"} => a.given.hardware_type = 1
       /\ a.class \in {"IPv4", "IPv4Ethernet"} => a.given.protocol_type = IPv4Type
       /\ a.blank => GivesNothing(a.class, a.given)
  /\ IPv4Type \in Word
  /\ Clocks \subseteq Nat /\ Day \in 1 .. DWordSize
  /\ MinFrame \in Nat
  /\ Cuts \subseteq 1 .. WordSize - 1

VARIABLES
  phase,     \* "contents", "clock", "building", "decoding", or the outcome:
             \* "decoded", "runtime_error", "invalid_argument", "incomplete"
  given,     \* history: what the contents were made of
  message,   \* their bytes; <<>> for application data
  data,      \* their size
  headers,   \* the headers around them, the innermost first
  size,      \* the bytes in hand: built, received, or the payload decoded
  framed,    \* history: something among contents and headers has a length
  cut        \* history: the capture was truncated

contentsVars == <<given, message, data>>
stackVars == <<phase, contentsVars, headers, size, framed, cut>>

MaxUInt16 == WordSize - 1

(* The lengths of a TCP or IPv4 header with no options, and with all       *)
HeaderLengths == {20, 60}

Init ==
  /\ phase = "contents"
  /\ given = [by |-> "nothing"] /\ message = <<>> /\ data = 0
  /\ headers = <<>> /\ size = 0
  /\ framed = FALSE /\ cut = FALSE

-----------------------------------------------------------------------------
(* The contents                                                            *)
Contain(made_of, bytes, n) ==
  /\ given' = made_of /\ message' = bytes
  /\ data' = n /\ size' = n
  /\ framed' = (bytes # <<>>)
  /\ phase' = "building"
  /\ UNCHANGED <<headers, cut>>

(* A container, a DataLayer or any payload that was set                    *)
SendData ==
  /\ phase = "contents"
  /\ \E n \in DataSizes : Contain([by |-> "data"], <<>>, n)

SendARP ==
  /\ phase = "contents"
  /\ \E a \in ARPs :
       LET bytes == BuildARP(Constructed(a))
       IN  Contain([by |-> "ARP", packet |-> a.given], bytes, Len(bytes))

(* Mutant: round instead of floor                                          *)
StartOfDay_Rounded(t) == ((t + Day \div 2) \div Day) * Day

(* std::chrono::floor<days>                                                *)
StartOfDay(t) == (t \div Day) * Day

(* createTimestampMessage() and createTimestampReplyMessage(originate) ask *)
(* the clock twice: for the day, and for the time.                         *)
ReadDay ==
  /\ phase = "contents"
  /\ \E t \in Clocks, reply \in BOOLEAN :
       given' = [by |-> "clock", reply |-> reply, started |-> t, day |-> StartOfDay(t)]
  /\ phase' = "clock"
  /\ UNCHANGED <<message, data, headers, size, framed, cut>>

Originate == 5

(* The clock may have passed midnight by then, or have been set back.      *)
ReadTime ==
  /\ phase = "clock"
  /\ \E t \in Clocks :
       LET since_midnight == (t - given.day) % DWordSize
           bytes == IF given.reply
                    THEN TimestampReply(Originate, since_midnight, since_midnight)
                    ELSE TimestampMessage(since_midnight)
       IN  Contain([by |-> "clock", reply |-> given.reply, started |-> given.started,
                    ended |-> t], bytes, TimestampLength)

-----------------------------------------------------------------------------
(* operator| of Layer.h and build of the layer                             *)
Wrap(kind, header, length) ==
  /\ phase = "building" /\ Len(headers) < MaxLayers
  /\ headers' = Append(headers, [kind |-> kind, header |-> header, length |-> length])
  /\ size' = size + header
  /\ framed' = (framed \/ kind \in {"UDP", "IPv4"})
  /\ UNCHANGED <<phase, contentsVars, cut>>

(* Mutant: the size is not compared before it is narrowed to 16 bits       *)
Counts_Narrowed(n) == TRUE

(* UDP's and TCP's size checks                                             *)
Counts(n) == n <= MaxUInt16

(* UDP::Datagram::build.  Whether the checksum is computed or left zero    *)
(* makes no difference to decodeFrom, which does not look at it.           *)
BuildUDP == Counts(size + 8) /\ Wrap("UDP", 8, (size + 8) % WordSize)

(* TCP::Packet::build, with a data offset that did not wrap                *)
BuildTCP ==
  \E h \in HeaderLengths : Counts(size + h) /\ Wrap("TCP", h, 0)

BuildICMP == Wrap("ICMP", 8, 0)

(* IPv4::Packet::build: the total length wraps (src/IPv4.cpp:136).         *)
BuildIPv4 ==
  \E h \in HeaderLengths : Wrap("IPv4", h, (h + (size % WordSize)) % WordSize)

BuildEthernet == Wrap("Ethernet", 14, 0)

(* DataLayer::build: its own data before its payload, here one byte        *)
BuildData == Wrap("Data", 1, 0)

TooLarge ==
  /\ phase = "building" /\ Len(headers) < MaxLayers
  /\ \E h \in {8} \cup HeaderLengths : ~Counts(size + h)
  /\ phase' = "runtime_error"
  /\ UNCHANGED <<contentsVars, headers, size, framed, cut>>

-----------------------------------------------------------------------------
Outer == headers[Len(headers)]

OuterIs(kind) == headers # <<>> /\ Outer.kind = kind

(* Between the programs, not the library: a link pads short frames.  A     *)
(* capture may stop short of the end.                                      *)
OnTheLink == IF OuterIs("Ethernet") /\ size < MinFrame THEN MinFrame ELSE size

Deliver ==
  /\ phase = "building" /\ headers # <<>>
  /\ \/ size' = OnTheLink /\ cut' = FALSE
     \/ /\ \E n \in Cuts : n <= OnTheLink /\ size' = OnTheLink - n
        /\ cut' = TRUE
  /\ phase' = "decoding"
  /\ UNCHANGED <<contentsVars, headers, framed>>

-----------------------------------------------------------------------------
(* The program hands the payload of one layer to decodeFrom of the next.   *)

(* The shortest header decodeFrom accepts; the program itself takes off    *)
(* the headers of ICMP and DataLayer, which have no decodeFrom.            *)
Shortest(header) ==
  IF header.kind \in {"TCP", "IPv4"} THEN 20 ELSE header.header

(* Mutant: a truncated packet is tolerated                                 *)
TotalFits_Cut(total, n) == total >= n

(* IPv4: the total length is all there is.                                 *)
TotalFits(total, n) == total = n

Accepted ==
  /\ size >= Shortest(Outer) /\ Outer.header <= size
  /\ Outer.kind = "UDP" => size <= MaxUInt16 /\ Outer.length <= size
  /\ Outer.kind = "IPv4" => TotalFits(Outer.length, size)

(* Where there is no length field, all the rest is payload.                *)
Payload ==
  LET end == IF Outer.kind \in {"UDP", "IPv4"} THEN Outer.length ELSE size
  IN  IF end > Outer.header THEN end - Outer.header ELSE 0

Decode ==
  /\ phase = "decoding" /\ headers # <<>> /\ Accepted
  /\ headers' = SubSeq(headers, 1, Len(headers) - 1)
  /\ size' = Payload
  /\ UNCHANGED <<phase, contentsVars, framed, cut>>

Reject ==
  /\ phase = "decoding" /\ headers # <<>> /\ ~Accepted
  /\ phase' = "invalid_argument"
  /\ UNCHANGED <<contentsVars, headers, size, framed, cut>>

(* What is left, a link's padding behind it                                *)
Arrived == [j \in 1 .. size |-> IF j <= Len(message) THEN message[j] ELSE 0]

(* A reader of a message takes as much as the message says.                *)
MessageLength ==
  CASE given.by = "data"  -> size
    [] given.by = "clock" -> TimestampLength
    [] given.by = "ARP"   -> IF size < 8 THEN 8 ELSE ARPLength(Arrived)

Read ==
  /\ phase = "decoding" /\ headers = <<>>
  /\ MessageLength <= size
  /\ size' = MessageLength
  /\ phase' = "decoded"
  /\ UNCHANGED <<contentsVars, headers, framed, cut>>

Incomplete ==
  /\ phase = "decoding" /\ headers = <<>>
  /\ MessageLength > size
  /\ phase' = "incomplete"
  /\ UNCHANGED <<contentsVars, headers, size, framed, cut>>

Next == \/ SendData \/ SendARP \/ ReadDay \/ ReadTime
        \/ BuildUDP \/ BuildTCP \/ BuildICMP \/ BuildIPv4
        \/ BuildEthernet \/ BuildData \/ TooLarge
        \/ Deliver \/ Decode \/ Reject \/ Read \/ Incomplete

Spec == Init /\ [][Next]_stackVars /\ WF_stackVars(Next)
-----------------------------------------------------------------------------
Outcomes == {"decoded", "runtime_error", "invalid_argument", "incomplete"}

TypeOK ==
  /\ phase \in {"contents", "clock", "building", "decoding"} \cup Outcomes
  /\ message \in Seq(Byte)
  /\ data \in Nat /\ size \in Nat
  /\ headers \in Seq([kind : {"UDP", "TCP", "ICMP", "IPv4", "Ethernet", "Data"},
                      header : {1, 8, 14} \cup HeaderLengths, length : Word])
  /\ framed \in BOOLEAN /\ cut \in BOOLEAN

sent == [bytes |-> message, size |-> data]

received ==
  IF phase = "decoded"
  THEN [bytes |-> IF message = <<>> THEN <<>> ELSE Arrived, size |-> size]
  ELSE sent

OutcomeOf(p) ==
  CASE p \in {"contents", "clock"}    -> "idle"
    [] p \in {"building", "decoding"} -> "pending"
    [] p = "decoded"                  -> "delivered"
    [] p \in Outcomes \ {"decoded"}   -> "reported"

outcome == OutcomeOf(phase)

Abstract == INSTANCE Channel WITH
  Contents <- [bytes : Seq(Byte), size : Nat]

(* The layers, in any order, are a channel.  Although lengths wrap in      *)
(* build, links pad and captures are cut short, contents whose end is      *)
(* marked by themselves, UDP or IPv4 are delivered as they were sent or    *)
(* the failure is reported.                                                *)
ImplementsChannel == Abstract!Spec

(* No layer makes its payload out of more bytes than it was handed, less   *)
(* its header, whatever its length fields say.                             *)
NothingIsMadeUp ==
  [][phase = "decoding" /\ headers' # headers =>
       size' + Outer.header <= size]_stackVars

(* A receiver of an ARP packet finds every field in its place, whichever   *)
(* class it was made with, whatever order that class takes its arguments   *)
(* in, and whatever a link put behind it.                                  *)
ARPReadsBack ==
  phase = "decoded" /\ given.by = "ARP" => ReadARP(Arrived) = given.packet

Stamps == IF given.reply THEN {5, 9} ELSE {1}

(* A timestamp that arrives leads from the midnight before the first       *)
(* reading to the second reading, even when midnight falls between the     *)
(* two, unless the clock was set back to another day meanwhile (or 49 days *)
(* passed: 32 bits of milliseconds).                                       *)
TimestampNamesTheInstant ==
  LET midnight == (given.started \div Day) * Day
  IN  phase = "decoded" /\ given.by = "clock" /\ given.ended >= midnight
        /\ given.ended < midnight + DWordSize =>
          \A at \in Stamps : midnight + CombineBytes4(Arrived, at) = given.ended

-----------------------------------------------------------------------------
(* README.md:346-347, of a frame that was decoded: "The data stored in the *)
(* payload field could then itself be parsed as an IPv4 packet".  Not when *)
(* the link had to pad the frame: src/IPv4.cpp:64 takes the padding that   *)
(* Ethernet's decodeFrom leaves in the payload for a wrong total length.   *)
(* (Packets of a length that the total length field can hold.)             *)
FramePayloadIsAPacket ==
  phase = "invalid_argument" /\ OuterIs("IPv4") /\ ~cut =>
    size > MaxUInt16
=============================================================================
