----------------------------- MODULE MCTCPCodec -----------------------------
(* TCPCodec.tla over the packets of up to three options, some of which     *)
(* carry their length, with data that looks like NOPs, EOLs and lengths,   *)
(* whose headers fit exactly, wrap the offset or wrap the counter, and     *)
(* payloads at the pseudo-header's limit.  From elsewhere: every option    *)
(* area of four bytes drawn from a kind with a length, the two without,    *)
(* and the lengths at which the loop behaves differently; areas of eight   *)
(* bytes from a smaller alphabet; headers that are rejected, where the     *)
(* area is what stands in memory behind the buffer.                        *)
EXTENDS TCPCodec

Opt(kind, value) == [kind |-> kind, value |-> value]

SmallOptions ==
  {Opt(4, <<2>>), Opt(3, <<3, 0>>), Opt(2, <<4, 1, 1>>), Opt(5, <<5, 2, 0, 2>>),
   Opt(4, <<>>), Opt(3, <<7>>), Opt(2, <<0, 5>>), Opt(0, <<2>>), Opt(1, <<2>>)}

BigOptions ==
  {Opt(8, [j \in 1 .. n |-> IF j = 1 THEN (n + 1) % 256 ELSE 1]) :
     n \in {0, 10, 16, 18, 34, 35, 36, 37, 38, 39, 42, 43, 102, 229, 230, 231,
            234, 235, 254, 300}}

MCPackets ==
  {[opts |-> opts, payload |-> 5] :
     opts \in UNION {[1 .. n -> SmallOptions] : n \in 0 .. 3}
              \cup UNION {[1 .. n -> BigOptions] : n \in 1 .. 2}}
  \cup {[opts |-> <<o>>, payload |-> p] :
          o \in SmallOptions \cup {Opt(8, [j \in 1 .. 39 |-> 9])},
          p \in {0, 65474, 65475, 65507, 65511, 65515}}

Segment(size, data_offset, area) ==
  [size |-> size, data_offset |-> data_offset, area |-> area]

Good(payload, area) ==
  Segment(20 + Len(area) + payload, 5 + (Len(area) \div 4),
          area \o [j \in 1 .. payload |-> 4])

MCSegments ==
  {Good(p, <<>>) : p \in {0, 1}}
  \cup {Good(2, area) : area \in [1 .. 4 -> {0, 1, 2, 3, 4, 8, 255}]}
  \cup {Good(2, area) : area \in [1 .. 8 -> {0, 1, 2, 5}]}
  \cup {Segment(size, offset, [j \in 1 .. (offset * 4) - 20 |-> 1]) :
          size \in {19, 20, 23, 24}, offset \in {0, 4, 5, 6, 15}}
=============================================================================
