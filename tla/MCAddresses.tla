---------------------------- MODULE MCAddresses ----------------------------
(* Addresses.tla over the addresses whose octets have one, two or three    *)
(* digits, or a digit that is 0, and over texts in which any two fields    *)
(* are good, too long, too short, too large, signed or blank, from one     *)
(* field too few to one too many; and DefaultInterface.tla over the        *)
(* outputs a host may print, and devices and adapters of every kind.       *)
EXTENDS DefaultInterface

(* The parts, with a separator between them                                *)
Join(parts, separator) ==
  LET upto[j \in 0 .. Len(parts)] ==
        IF j = 0 THEN <<>>
        ELSE upto[j - 1] \o (IF j = 1 THEN <<>> ELSE <<separator>>) \o parts[j]
  IN  upto[Len(parts)]

MCPrintable ==
  {[kind |-> "IPv4", addr |-> a] : a \in [1 .. 4 -> {0, 10, 255}]}
  \cup {[kind |-> "MAC", addr |-> a] : a \in [1 .. 6 -> {15, 255}]}

IPv4Fields ==
  {<<>>, <<0, 1, 0>>, <<2, 5, 5>>, <<2, 5, 6>>, <<1, 0, 0, 0>>, <<Plus, 0>>,
   <<Minus, 0>>, <<Minus, 1>>, <<Blank, 7>>, <<7, Letter>>, <<Blank, Blank>>, <<11>>}

MACFields ==
  {<<>>, <<0, 15>>, <<1>>, <<1, Letter>>, <<Minus, 1>>, <<Letter, 1>>, <<1, 1, 1>>}

(* Texts of n fields, of which two are any of fields and the others good   *)
TwoOf(n, good, fields) ==
  {Join([[j \in 1 .. n |-> good] EXCEPT ![p] = f, ![q] = g], Separator) :
     p \in 1 .. n, q \in 1 .. n, f \in fields, g \in fields}

MCTexts ==
  {[kind |-> "IPv4", text |-> t] :
     t \in UNION {TwoOf(n, <<7>>, IPv4Fields) : n \in 3 .. 5}}
  \cup {[kind |-> "MAC", text |-> t] :
          t \in UNION {TwoOf(n, <<10, 11>>, MACFields) : n \in 5 .. 7}}

-----------------------------------------------------------------------------
(* Words with blanks between them (an empty word makes two of them), the   *)
(* k-th of which is the interface's; none is for k = 0                     *)
Printed(sys, words, k) ==
  LET before == Len(Join(SubSeq(words, 1, k - 1), Blank))
      first  == IF k = 1 THEN 1 ELSE before + 2
  IN  [system |-> sys, text |-> Join(words, Blank),
       column |-> IF k = 0 THEN <<>> ELSE <<first, first + Len(words[k]) - 1>>]

word == <<Letter, Letter>>
eth  == <<14, Letter>>
tun  == <<Letter>>

MCDevices ==
  {[name |-> eth, ipv4 |-> <<10, 0, 0, 7>>, mac |-> <<2, 10, 255, 0, 16, 1>>],
   [name |-> tun, ipv4 |-> <<10, 1, 1, 1>>, mac |-> <<>>],
   [name |-> <<11>>, ipv4 |-> <<>>, mac |-> <<128, 1, 2, 3, 4, 5, 6>>]}

(* With and without a gateway, the device last in its line, none, a name   *)
(* that is no device's, and one that the buffer cuts off                   *)
Lines ==
  {Printed("Linux", <<word, dev, eth, word>>, 3),
   Printed("Linux", <<word, word, word, dev, tun, <<>>>>, 5),
   Printed("Linux", <<word, dev, <<11>>, <<>>>>, 3),
   Printed("Linux", <<word, dev, eth>>, 3),
   Printed("Linux", <<word, word, word>>, 0),
   Printed("Linux", <<word, dev, <<14, 14, 14, 14, 14>>, word>>, 3),
   Printed("Linux", <<<<Letter, Letter, Letter, Letter, Letter, Letter, Letter>>,
                      word, dev, <<14, 14, 14>>, word>>, 4),
   Printed("Linux", <<>>, 0)}

MCBufSize == 16
MCIFNAMSIZ == 5
MCChunkSize == 44

address == <<1, 16, 1, 16, 1, 16, 2, 3>>
gateway == <<1, 16, 1, 16, 1, 16, 9>>
on_link == <<Letter, Minus, Letter>>
heading == <<word, <<1, 2, 16, 16, 16, 0>>, word>>

(* A route, on-link or not, a second one, no address yet, a persistent     *)
(* route only, none, and nothing                                           *)
Outputs ==
  {Printed("Windows", heading \o <<<<>>, Default, Default, gateway, <<>>, address, <<5>>>>, 9),
   Printed("Windows", heading \o <<Default, Default, on_link, address, <<5>>>>, 7),
   Printed("Windows", heading \o <<Default, Default, on_link, address, <<5>>,
                                   Default, Default, on_link, gateway, <<9>>>>, 7),
   Printed("Windows", heading \o <<Default, Default, on_link, Default, <<5>>>>, 7),
   Printed("Windows", heading \o <<Default, Default, gateway, word>>, 0),
   Printed("Windows", heading \o <<word>>, 0),
   Printed("Windows", <<>>, 0)}

MCCommands == Lines \cup Outputs

Adapter(ips, mac) == [ips |-> ips, mac |-> mac]

MCAdapters ==
  LET default  == Adapter({gateway, address}, <<2, 10, 255, 0, 16, 1>>)
      other    == Adapter({gateway}, <<2, 10, 255, 0, 16, 2>>)
      infiniband == Adapter({address}, <<1, 2, 3, 4, 5, 6, 7, 8>>)
  IN  {<<>>, <<default>>, <<other>>, <<other, default>>, <<infiniband>>,
       <<default, other, other>>}
=============================================================================
