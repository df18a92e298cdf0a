---------------------------- MODULE MCDNSMessage ----------------------------
(* DNSMessage.tla in base 3: a section of a name holds at most two bytes,  *)
(* and a count or the length of the data is at most 8.  The messages ask   *)
(* for every name of up to five characters, two letters and the period;    *)
(* hold every distribution of a few entries over the sections; and go one  *)
(* beyond every limit of the header.                                       *)
EXTENDS DNSMessage

MCRadix  == 3
MCPeriod == 2

Question(name) ==
  [domain_name |-> name, fixed |-> <<0, 1, 0, 1>>, rdata |-> <<>>]

Record(name, rdata) ==
  [domain_name |-> name, fixed |-> <<0, 1, 0, 1, 0, 0, 2, 0>>, rdata |-> rdata]

Message(qr, opcode, flags, rcode, sections) ==
  [qr |-> qr, opcode |-> opcode, flags |-> flags, rcode |-> rcode,
   questions |-> sections[1], answers |-> sections[2],
   authorities |-> sections[3], additional |-> sections[4]]

Names == UNION {[1 .. j -> 0 .. 2] : j \in 0 .. 5}

SomeQuestions == {Question(<<1>>), Question(<<0, 1, 2, 1>>)}

SomeRecords ==
  {Record(<<1>>, <<>>), Record(<<1, 2, 0, 0>>, <<0, 2>>),
   Record(<<1, 2>>, <<1>>),
   Record(<<0>>, [j \in 1 .. 8 |-> 1]), Record(<<0>>, [j \in 1 .. 9 |-> 1])}

UpTo(S, k) == UNION {[1 .. j -> S] : j \in 0 .. k}

Many(e, k) == [j \in 1 .. k |-> e]

Headers == {<<qr, opcode, flags, rcode>> :
              qr \in {0, 1}, opcode \in {0, 5, 15, 16}, flags \in {0, 1, 6, 15, 16},
              rcode \in {0, 5, 15, 16}}

MCMessages ==
  {Message(0, 0, 2, 0, <<<<Question(name)>>, <<>>, <<>>, <<>>>>) : name \in Names}
  \cup {Message(1, 0, 9, 0, <<q, an, ns, ar>>) :
          q \in UpTo(SomeQuestions, 1), an \in UpTo(SomeRecords, 2),
          ns \in UpTo(SomeRecords, 1), ar \in UpTo(SomeRecords, 1)}
  \cup {Message(h[1], h[2], h[3], h[4],
                <<<<Question(<<1>>)>>, <<>>, <<>>, <<>>>>) : h \in Headers}
  \cup UNION {
         {Message(0, 0, 0, 0, <<Many(Question(<<1>>), k), <<>>, <<>>, <<>>>>),
          Message(0, 0, 0, 0, <<<<>>, Many(Record(<<1>>, <<>>), k), <<>>, <<>>>>),
          Message(0, 0, 0, 0, <<<<>>, <<>>, Many(Record(<<1>>, <<>>), k), <<>>>>),
          Message(0, 0, 0, 0, <<<<>>, <<>>, <<>>, Many(Record(<<1>>, <<>>), k)>>)} :
         k \in {8, 9}}
=============================================================================
