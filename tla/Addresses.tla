----------------------------- MODULE Addresses -----------------------------
(***************************************************************************)
(* strToIpv4Addr and strToMacAddr (src/addresses.cpp:8-38, 67-94) on any   *)
(* text, among them those that ipv4AddrToStr and macAddrToStr print.       *)
(*                                                                         *)
(* A character is a number: a digit is its value, the letters a-f being    *)
(* digits too where the base is 16; the others are named below.  Positions *)
(* are those of the code, from 0 on.  npos, and prev_pos before the first  *)
(* octet, are the largest size_t, to which the code only adds 1 or more:   *)
(* -1 does the same.                                                       *)
(***************************************************************************)
EXTENDS Integers, Sequences, FiniteSets

CONSTANTS
  Printable,   \* [kind, addr] : addresses to be printed and read
  Texts        \* [kind, text] : other texts to be read

VARIABLES
  kind,        \* "IPv4" or "MAC"
  printed,     \* history: the address the text was printed from
  text,        \* the argument
  i, prev_pos,
  addr,        \* the octets read so far
  parsing      \* "idle", "reading", or the outcome: "returned",
               \* "invalid_argument"

addressVars == <<kind, printed, text, i, prev_pos, addr, parsing>>

UInt8 == 0 .. 255

Separator == 16    \* '.' of an IPv4 address, ':' of a MAC address
Blank     == 17
Plus      == 18
Minus     == 19
Letter    == 20    \* any other character
LetterV   == 21    \* the one letter beyond f that the library looks for
NUL       == 22

Characters == 0 .. 22

Octets(k)  == IF k = "IPv4" THEN 4 ELSE 6
Base(k)    == IF k = "IPv4" THEN 10 ELSE 16
Lengths(k) == IF k = "IPv4" THEN 1 .. 3 ELSE {2}

ASSUME AddressesAssumption ==
  /\ \A p \in Printable : /\ p.kind \in {"IPv4", "MAC"}
                           /\ p.addr \in [1 .. Octets(p.kind) -> UInt8]
  /\ \A t \in Texts : t.kind \in {"IPv4", "MAC"} /\ t.text \in Seq(Characters)

-----------------------------------------------------------------------------
(* What the two functions print                                            *)
Decimal(b) == IF b < 10 THEN <<b>>
              ELSE IF b < 100 THEN <<b \div 10, b % 10>>
              ELSE <<b \div 100, (b \div 10) % 10, b % 10>>

(* Mutant: left for right                                                  *)
Hexadecimal_Left(b) == IF b < 16 THEN <<b, 0>> ELSE <<b \div 16, b % 16>>

(* setfill('0') << setw(2) << right << hex                                 *)
Hexadecimal(b) == <<b \div 16, b % 16>>

WrittenIPv4(a) ==
  Decimal(a[1]) \o <<Separator>> \o Decimal(a[2]) \o <<Separator>>
    \o Decimal(a[3]) \o <<Separator>> \o Decimal(a[4])

WrittenMAC(a) ==
  [j \in 1 .. 3 * Len(a) - 1 |->
     IF j % 3 = 0 THEN Separator ELSE Hexadecimal(a[j \div 3 + 1])[j % 3]]

Written(k, a) == IF k = "IPv4" THEN WrittenIPv4(a) ELSE WrittenMAC(a)

-----------------------------------------------------------------------------
npos == -1

First(positions) ==
  IF positions = {} THEN npos
  ELSE CHOOSE p \in positions : \A q \in positions : p <= q

(* std::stoi: leading blanks, a sign, and the digits up to the first other *)
(* character, of which there is at least one                               *)
Leading(t, characters) ==
  First({n \in 0 .. Len(t) : n < Len(t) => t[n + 1] \notin characters})

Unblanked[t \in Seq(Characters)] == SubSeq(t, Leading(t, {Blank}) + 1, Len(t))

Unsigned[t \in Seq(Characters)] ==
  IF t # <<>> /\ Head(t) \in {Plus, Minus} THEN Tail(t) ELSE t

Digits(s, base) ==
  LET leading[t \in Seq(Characters)] == SubSeq(t, 1, Leading(t, 0 .. base - 1))
  IN  leading[Unsigned[Unblanked[s]]]

Value(digits, base) ==
  LET upto[m \in 0 .. Len(digits)] ==
        IF m = 0 THEN 0 ELSE upto[m - 1] * base + digits[m]
  IN  upto[Len(digits)]

Negative(s) == Unblanked[s] # <<>> /\ Head(Unblanked[s]) = Minus

Stoi(s, base) ==
  IF Negative(s) THEN -Value(Digits(s, base), base) ELSE Value(Digits(s, base), base)

-----------------------------------------------------------------------------
(* std::string::find and find_first_not_of, from a position on that is not *)
(* npos, and substr between two positions                                  *)
FindIn(s, t, from) ==
  First({p \in from .. Len(s) - Len(t) : SubSeq(s, p + 1, p + Len(t)) = t})

FindNotBlank(s, from) == First({p \in from .. Len(s) - 1 : s[p + 1] # Blank})

Between(s, begin, end) == SubSeq(s, begin + 1, IF end = npos THEN Len(s) ELSE end)

-----------------------------------------------------------------------------
(* A call with text t                                                      *)
Parse(k, t) ==
  /\ kind' = k /\ text' = t
  /\ i' = 0 /\ prev_pos' = -1 /\ addr' = <<>>
  /\ parsing' = "reading"
  /\ UNCHANGED printed

Init ==
  /\ \/ \E p \in Printable :
          kind = p.kind /\ printed = p.addr /\ text = Written(p.kind, p.addr)
     \/ \E t \in Texts :
          kind = t.kind /\ printed = <<>> /\ text = t.text
  /\ i = 0
  /\ prev_pos = -1
  /\ addr = <<>>
  /\ parsing = "reading"

period_pos == FindIn(text, <<Separator>>, prev_pos + 1)

(* Mutant: an end of the text stands for every separator                   *)
SeparatorMissing_Never == FALSE

(* Only the last octet may end with the text.                              *)
SeparatorMissing == period_pos = npos /\ i # Octets(kind) - 1

octet_end == IF period_pos = npos THEN Len(text) ELSE period_pos
octet     == Between(text, prev_pos + 1, octet_end)
octet_val == Stoi(octet, Base(kind))

(* Mutant: the number is not compared                                      *)
OutOfRange_Never == FALSE

(* Only strToIpv4Addr compares the number before it is narrowed.           *)
OutOfRange == kind = "IPv4" /\ octet_val \notin UInt8

NotAnOctet ==
  \/ SeparatorMissing
  \/ Len(octet) \notin Lengths(kind)
  \/ Digits(octet, Base(kind)) = <<>>
  \/ OutOfRange

Reject ==
  /\ parsing = "reading"
  /\ i < Octets(kind)
  /\ NotAnOctet
  /\ parsing' = "invalid_argument"
  /\ UNCHANGED <<kind, printed, text, i, prev_pos, addr>>

Narrowed(val) == val % 256

ReadOctet ==
  /\ parsing = "reading"
  /\ i < Octets(kind)
  /\ ~NotAnOctet
  /\ addr' = Append(addr, Narrowed(octet_val))
  /\ prev_pos' = octet_end
  /\ i' = i + 1
  /\ UNCHANGED <<kind, printed, text, parsing>>

(* Whatever follows a separator behind the last octet is not looked at.    *)
Return ==
  /\ parsing = "reading"
  /\ i = Octets(kind)
  /\ parsing' = "returned"
  /\ UNCHANGED <<kind, printed, text, i, prev_pos, addr>>

Next == Reject \/ ReadOctet \/ Return

Spec == Init /\ [][Next]_addressVars
-----------------------------------------------------------------------------
TypeOK ==
  /\ kind \in {"IPv4", "MAC"}
  /\ text \in Seq(Characters)
  /\ i \in 0 .. Octets(kind)
  /\ prev_pos \in -1 .. Len(text)
  /\ addr \in Seq(UInt8) /\ Len(addr) = i
  /\ parsing \in {"idle", "reading", "returned", "invalid_argument"}

(* What ipv4AddrToStr and macAddrToStr print is read back as the address   *)
(* it was printed from, and never rejected.                                *)
PrintedReadsBack ==
  printed # <<>> =>
    /\ parsing # "invalid_argument"
    /\ parsing = "returned" => addr = printed

(* While there are octets to read, the next one begins in the text, or     *)
(* right behind it, where substr finds nothing: it would throw             *)
(* out_of_range, which no caller expects, one character later.             *)
StaysInText ==
  parsing = "reading" /\ i < Octets(kind) => prev_pos + 1 <= Len(text)

(* The j-th stretch of a text between two separators or its ends           *)
Boundaries ==
  {-1, Len(text)} \cup {p \in 0 .. Len(text) - 1 : text[p + 1] = Separator}

Boundary(j) ==
  CHOOSE b \in Boundaries : Cardinality({c \in Boundaries : c < b}) = j

FieldValue(j) ==
  Value(SubSeq(text, Boundary(j - 1) + 2, Boundary(j)), Base(kind))

(* Where a text has nothing but digits and separators, a result is the     *)
(* numbers between the separators, in their order, none of them narrowed,  *)
(* and there are at least as many as the address has octets.               *)
DigitsAreTheAddress ==
  parsing = "returned"
  /\ (\A j \in DOMAIN text : text[j] < Base(kind) \/ text[j] = Separator) =>
    /\ Cardinality(Boundaries) > Octets(kind)
    /\ \A j \in 1 .. Octets(kind) : addr[j] = FieldValue(j)
=============================================================================
