----------------------------- MODULE DomainName -----------------------------
(***************************************************************************)
(* formatDomainName (src/DNS.cpp:116-139): a loop that finds the periods   *)
(* of a name and writes each section with its length in front.  A          *)
(* character is a byte, one of them the period, in base Radix: see         *)
(* Bytes.tla.  Positions are those of the code, from 0 on; npos is kept    *)
(* apart, and prev is -1 before the first section, as its wrapped value is *)
(* only ever added to.                                                     *)
(***************************************************************************)
EXTENDS Bytes, Sequences

CONSTANT Period     \* the byte '.'

ASSUME PeriodAssumption == Period \in Byte

VARIABLES
  domain_name,     \* the argument
  prev,            \* the position of the last period found
  done,            \* the last section has been reached
  bytes,           \* the bytes written so far
  naming           \* "idle", "looping", or the outcome: "named",
                   \* "runtime_error"

nameVars == <<domain_name, prev, done, bytes, naming>>

UINT8_MAX == Radix - 1

Periods == {p \in 0 .. Len(domain_name) - 1 : domain_name[p + 1] = Period}

(* find('.', from), for from >= 0: the first period from there on          *)
Found(from) == \E p \in Periods : p >= from
Find(from) == CHOOSE p \in Periods :
                p >= from /\ \A q \in Periods : q >= from => p <= q

(* period_pos, with the length of the name in the place of npos            *)
period_pos == IF Found(prev + 1) THEN Find(prev + 1) ELSE Len(domain_name)

section_length == period_pos - prev - 1

(* domain_name.substr(prev + 1, section_length)                            *)
Section == SubSeq(domain_name, prev + 2, period_pos)

Idle ==
  /\ domain_name = <<>>
  /\ prev = -1
  /\ done = FALSE
  /\ bytes = <<>>
  /\ naming = "idle"

Enter(name, state) ==
  /\ domain_name' = name
  /\ prev' = -1
  /\ done' = FALSE
  /\ bytes' = <<>>
  /\ naming' = state

(* formatDomainName is called, and its result has been taken.              *)
Call(name) == Enter(name, "looping")
Release    == Enter(<<>>, "idle")

(* Mutant: the section is not moved past                                   *)
WriteSection_SamePlace ==
  /\ naming = "looping" /\ ~done
  /\ section_length <= UINT8_MAX
  /\ bytes' = IF Found(prev + 1) THEN bytes
              ELSE bytes \o <<section_length>> \o Section
  /\ done' = ~Found(prev + 1)
  /\ UNCHANGED <<domain_name, prev, naming>>

WriteSection ==
  /\ naming = "looping" /\ ~done
  /\ section_length <= UINT8_MAX
  /\ bytes' = bytes \o <<section_length>> \o Section
  /\ prev' = period_pos
  /\ done' = ~Found(prev + 1)
  /\ UNCHANGED <<domain_name, naming>>

(* "Domain name too long": a section, not the name                         *)
SectionTooLong ==
  /\ naming = "looping" /\ ~done
  /\ section_length > UINT8_MAX
  /\ naming' = "runtime_error"
  /\ UNCHANGED <<domain_name, prev, done, bytes>>

(* Mutant: the last length, 0, is left out                                 *)
Terminator_None == <<>>

Terminator == <<0>>

Terminate ==
  /\ naming = "looping" /\ done
  /\ bytes' = bytes \o Terminator
  /\ naming' = "named"
  /\ UNCHANGED <<domain_name, prev, done>>

NameNext == WriteSection \/ SectionTooLong \/ Terminate
-----------------------------------------------------------------------------
NameTypeOK ==
  /\ domain_name \in Seq(Byte)
  /\ prev \in -1 .. Len(domain_name)
  /\ done \in BOOLEAN
  /\ bytes \in Seq(Byte)
  /\ naming \in {"idle", "looping", "named", "runtime_error"}

(* The reader's side, of RFC 1035: a length and as many bytes, until a     *)
(* length of 0.  The reader r has the name so far, stands behind r.at      *)
(* bytes of b, and has seen the name whole or not; where the bytes do not  *)
(* suffice it goes no further.                                             *)
ReadSection(b, r) ==
  LET size    == b[r.at + 1]
      section == SubSeq(b, r.at + 2, r.at + 1 + size)
  IN  IF r.whole \/ r.at >= Len(b) \/ r.at + 1 + size > Len(b) THEN r
      ELSE IF size = 0 THEN [name |-> r.name, at |-> r.at + 1, whole |-> TRUE]
      ELSE [name  |-> IF r.name = <<>> THEN section
                      ELSE r.name \o <<Period>> \o section,
            at    |-> r.at + 1 + size,
            whole |-> FALSE]

(* The name that begins behind the first from bytes, after 0, 1, ... steps *)
NameSteps(b, from) ==
  LET after[j \in 0 .. Len(b)] ==
        IF j = 0 THEN [name |-> <<>>, at |-> from, whole |-> FALSE]
        ELSE ReadSection(b, after[j - 1])
  IN  after

ReadName(b, from) == NameSteps(b, from)[Len(b)]

(* No section is empty: no period at either end or beside another one.     *)
Plain(name) ==
  /\ name # <<>>
  /\ name[1] # Period /\ name[Len(name)] # Period
  /\ \A j \in 1 .. Len(name) - 1 : name[j] = Period => name[j + 1] # Period

(* Whatever the name, no more is read than was meant: at worst the reader  *)
(* stops at an empty section, with the name's beginning, and never runs    *)
(* past the end of the bytes.                                              *)
ReaderStaysInName ==
  naming = "named" =>
    LET r == ReadName(bytes, 0)
    IN  r.whole /\ r.name = SubSeq(domain_name, 1, Len(r.name))
=============================================================================
