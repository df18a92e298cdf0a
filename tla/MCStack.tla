------------------------------ MODULE MCStack ------------------------------
(* Data around the sizes at which the padding of a frame ends, UDP and TCP *)
(* refuse and IPv4's total length wraps; ARP packets of every class;       *)
(* a clock read on both sides of midnight, or set back.                    *)
EXTENDS Stack

MCRadix == 16

MCDataSizes ==
  {0, 1, 5, 6} \cup {17, 18, 19, 25, 26, 27, 37, 38, 39, 45, 46, 47}
  \cup UNION {{n, n + 1} : n \in {175, 187, 195, 227, 235, 239, 247}}

hw1 == <<1, 2, 3, 4, 5, 6>>
hw2 == <<7, 8, 9, 10, 11, 12>>
ip1 == <<10, 0, 0, 1>>
ip2 == <<10, 0, 0, 2>>

(* Requests and replies of every class, with what the class fills in       *)
Given(class, op) ==
  LET hardware == IF class \in {"Ethernet", "IPv4Ethernet"} THEN 1 ELSE 15
      protocol == IF class \in {"IPv4", "IPv4Ethernet"} THEN 128 ELSE 3
  IN  [given |-> ARPPacket(hw1, ip1, hw2, ip2, hardware, protocol, op),
       class |-> class, blank |-> FALSE]

GivenNothing(class, op) ==
  LET hardware == IF class \in {"Ethernet", "IPv4Ethernet"} THEN 1 ELSE 0
      protocol == IF class \in {"IPv4", "IPv4Ethernet"} THEN 128 ELSE 0
  IN  [given |-> ARPPacket(Zeros(6), Zeros(4), Zeros(6), Zeros(4), hardware, protocol, op),
       class |-> class, blank |-> TRUE]

Classes == {"Packet", "Ethernet", "IPv4", "IPv4Ethernet"}

(* and a packet with addresses of other lengths                            *)
MCARPs ==
  {Given(class, op) : class \in Classes, op \in {1, 2}}
  \cup {GivenNothing(class, 2) : class \in Classes}
  \cup {[given |-> ARPPacket(<<1>>, <<2, 3>>, <<4>>, <<5, 6>>, 0, 255, 9),
         class |-> "Packet", blank |-> FALSE]}

MCDay == 100
MCClocks == {99, 100, 199, 205}
MCMaxLayers == 3
MCMinFrame == 60
MCCuts == {1, 8, 20, 60, 250}
=============================================================================
