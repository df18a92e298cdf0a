---------------------------- MODULE MCIPv4Codec ----------------------------
(* IPv4Codec.tla over the packets of up to three options, with in-range    *)
(* and out-of-range header fields, and payloads at the limit of the total  *)
(* length field.  From elsewhere: every option area of four bytes drawn    *)
(* from a type with a length, the two without, and the lengths at which    *)
(* the loop behaves differently; areas of eight bytes from a smaller       *)
(* alphabet; and headers that the checks reject.                           *)
EXTENDS IPv4Codec

Opt(type, value) == [type |-> type, value |-> value]

Packet(dscp, df, frag, opts, payload) ==
  [dscp |-> dscp, ecn |-> 2, df |-> df, mf |-> ~df, frag |-> frag,
   opts |-> opts, payload |-> payload]

(* Values whose bytes look like NOPs, EOOLs or short lengths               *)
SmallOptions ==
  {Opt(0, <<>>), Opt(1, <<>>), Opt(1, <<7>>),
   Opt(148, <<0, 0>>), Opt(133, <<1>>), Opt(25, <<>>), Opt(68, <<1, 0, 1, 2, 0>>)}

BigOptions ==
  {Opt(130, [j \in 1 .. n |-> 1]) : n \in {33, 34, 37, 38, 39, 126, 230, 231, 235, 253, 254}}

OptionLists ==
  UNION {[1 .. n -> SmallOptions] : n \in 0 .. 3}
  \cup UNION {[1 .. n -> BigOptions] : n \in 1 .. 2}

MCPackets ==
  {Packet(7, TRUE, 99, opts, 5) : opts \in OptionLists}
  \cup {Packet(dscp, df, frag, opts, payload) :
          dscp \in {63, 64, 255}, df \in BOOLEAN, frag \in {8191, 8192, 65535},
          opts \in {<<>>, <<Opt(133, <<1>>)>>, <<Opt(130, [j \in 1 .. 231 |-> 1])>>},
          payload \in {0, 65511, 65512, 65515, 65516, 65536}}

Datagram(size, ihl, total, flagsFrag, sumOK, area) ==
  [size |-> size, ihl |-> ihl, tos |-> 187, total |-> total,
   flagsFrag |-> flagsFrag, sumOK |-> sumOK, area |-> area]

Good(payload, area) ==
  Datagram(20 + Len(area) + payload, 5 + (Len(area) \div 4),
           20 + Len(area) + payload, 16384 + 99, TRUE, area)

(* The same with the payload's bytes behind the header                     *)
Long(payload, area) ==
  [Good(payload, area) EXCEPT !.area = @ \o [j \in 1 .. payload |-> 4]]

Bad ==
  {Datagram(size, ihl, total, 0, sumOK, IF ihl = 6 THEN <<1, 1, 1, 1>> ELSE <<>>) :
     size \in {19, 20, 23, 24}, ihl \in {0, 4, 5, 6}, total \in {20, 24},
     sumOK \in BOOLEAN}

MCDatagrams ==
  {Good(p, <<>>) : p \in {0, 1}}
  \cup {Long(2, area) : area \in [1 .. 4 -> {0, 1, 2, 3, 4, 148, 255}]}
  \cup {Good(0, area) : area \in [1 .. 8 -> {0, 2, 4}]}
  \cup Bad
=============================================================================
