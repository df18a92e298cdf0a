----------------------------- MODULE DNSMessage -----------------------------
(***************************************************************************)
(* DNS::Message::build (src/DNS.cpp:45-114): the checks and the header,    *)
(* then the questions and the records of the other three sections one      *)
(* after the other, each with its name formatted by DomainName.tla.        *)
(*                                                                         *)
(* An entry is its domain_name, its fixed bytes (type and class, and the   *)
(* TTL of a record) and, for a record, its rdata.  The bytes of the body   *)
(* and the counts are in base Radix, so that UINT16_MAX is WordSize - 1;   *)
(* the two bytes of flags are bit fields and keep their eight bits.        *)
(***************************************************************************)
EXTENDS DomainName

CONSTANT Messages     \* the messages build is called on

Questions == [domain_name : Seq(Byte), fixed : [1 .. 4 -> Byte], rdata : {<<>>}]

Records == [domain_name : Seq(Byte), fixed : [1 .. 8 -> Byte], rdata : Seq(Byte)]

(* The types of the fields of the classes Question, ResourceRecord and     *)
(* Message                                                                 *)
ASSUME MessagesAssumption ==
  Messages \subseteq
    [qr : {0, 1}, opcode : 0 .. 255, flags : 0 .. 255, rcode : 0 .. 255,
     questions : Seq(Questions), answers : Seq(Records),
     authorities : Seq(Records), additional : Seq(Records)]

VARIABLES
  msg,          \* the object, which build does not change
  building,     \* "header", "body", or the outcome: "built",
                \* "runtime_error"
  header,       \* the bytes behind the id
  n,            \* the entry the loops have reached
  data          \* the body

messageVars == <<msg, building, header, n, data>>
dnsVars     == <<messageVars, nameVars>>

Sections == <<msg.questions, msg.answers, msg.authorities, msg.additional>>

Entries == msg.questions \o msg.answers \o msg.authorities \o msg.additional

entry      == Entries[n]
IsQuestion == n <= Len(msg.questions)

NoHeader == <<>>

Init ==
  /\ msg \in Messages
  /\ building = "header"
  /\ header = NoHeader
  /\ n = 1
  /\ data = <<>>
  /\ Idle

(* Each of the conditions of lines 50-85 has a runtime_error of its own.   *)
HeaderFits ==
  /\ msg.opcode <= 15 /\ msg.flags <= 15 /\ msg.rcode <= 15
  /\ \A s \in DOMAIN Sections : Len(Sections[s]) < WordSize

RejectHeader ==
  /\ building = "header"
  /\ ~HeaderFits
  /\ building' = "runtime_error"
  /\ UNCHANGED <<msg, header, n, data, nameVars>>

(* The flags AA, TC and RD in the first byte, RA in the second             *)
FlagBytes ==
  <<(msg.qr * 128 + msg.opcode * 8 + msg.flags \div 2) % 256,
    (msg.flags % 2) * 128 + msg.rcode>>

WriteHeader ==
  /\ building = "header"
  /\ HeaderFits
  /\ header' = [flags  |-> FlagBytes,
                counts |-> [s \in DOMAIN Sections |-> SplitBytes(Len(Sections[s]))]]
  /\ building' = "body"
  /\ UNCHANGED <<msg, n, data, nameVars>>

CallName ==
  /\ building = "body" /\ naming = "idle"
  /\ n <= Len(Entries)
  /\ Call(entry.domain_name)
  /\ UNCHANGED messageVars

NameStep == NameNext /\ UNCHANGED messageVars

NameThrows ==
  /\ building = "body" /\ naming = "runtime_error"
  /\ building' = "runtime_error"
  /\ UNCHANGED <<msg, header, n, data, nameVars>>

(* The entry's name and what follows it are added to the body.             *)
WriteEntry(suffix) ==
  /\ data' = data \o bytes \o suffix
  /\ n' = n + 1
  /\ Release
  /\ UNCHANGED <<msg, building, header>>

WriteQuestion ==
  /\ building = "body" /\ naming = "named"
  /\ IsQuestion
  /\ WriteEntry(entry.fixed)

(* Mutant: the length of the data is narrowed without being compared       *)
RDataFits_Always(rr) == TRUE

RDataFits(rr) == Len(rr.rdata) < WordSize

(* "RR Data too long", thrown when the name has been formatted             *)
RDataTooLong ==
  /\ building = "body" /\ naming = "named"
  /\ ~IsQuestion /\ ~RDataFits(entry)
  /\ building' = "runtime_error"
  /\ UNCHANGED <<msg, header, n, data, nameVars>>

(* appendResourceRecord                                                    *)
WriteRecord ==
  /\ building = "body" /\ naming = "named"
  /\ ~IsQuestion /\ RDataFits(entry)
  /\ WriteEntry(entry.fixed \o SplitBytes(Len(entry.rdata) % WordSize) \o entry.rdata)

Return ==
  /\ building = "body" /\ naming = "idle"
  /\ n > Len(Entries)
  /\ building' = "built"
  /\ UNCHANGED <<msg, header, n, data, nameVars>>

Next == \/ RejectHeader \/ WriteHeader
        \/ CallName \/ NameStep \/ NameThrows
        \/ WriteQuestion \/ RDataTooLong \/ WriteRecord
        \/ Return

Spec == Init /\ [][Next]_dnsVars /\ WF_dnsVars(Next)
-----------------------------------------------------------------------------
Outcomes == {"built", "runtime_error"}

TypeOK ==
  /\ NameTypeOK
  /\ building \in {"header", "body"} \cup Outcomes
  /\ n \in 1 .. Len(Entries) + 1
  /\ data \in Seq(Byte)
  /\ header # NoHeader =>
       /\ header.flags \in (0 .. 255) \X (0 .. 255)
       /\ header.counts \in [1 .. 4 -> Byte \X Byte]

(* The receiver's side: it has read r.entries, of which the first q are    *)
(* questions, and stands behind r.at bytes of the body.                    *)
ReadEntry(q, r) ==
  LET question == Len(r.entries) < q
      name     == ReadName(data, r.at)
      behind   == name.at + IF question THEN 4 ELSE 8
      size     == CombineBytes(data[behind + 1], data[behind + 2])
  IN  [entries |-> Append(r.entries,
                     [domain_name |-> name.name,
                      fixed |-> SubSeq(data, name.at + 1, behind),
                      rdata |-> IF question THEN <<>>
                                ELSE SubSeq(data, behind + 3, behind + 2 + size)]),
       at      |-> IF question THEN behind ELSE behind + 2 + size]

(* k entries, after 0, 1, ... of them have been read                       *)
EntrySteps(q, k) ==
  LET after[j \in 0 .. k] == IF j = 0 THEN [entries |-> <<>>, at |-> 0]
                             ELSE ReadEntry(q, after[j - 1])
  IN  after

ReadEntries(q, k) == EntrySteps(q, k)[k]

Count(s) == CombineBytes(header.counts[s][1], header.counts[s][2])

(* A receiver that believes the counts, the lengths in the names and the   *)
(* lengths of the data finds the entries that were given, in their order   *)
(* and sections, and no byte beyond them; and in the header every field,   *)
(* although five share two bytes and the flags are split between them.     *)
EntriesReadBack ==
  (\A j \in DOMAIN Entries : Plain(Entries[j].domain_name)) =>
    ReadEntries(Count(1), Count(1) + Count(2) + Count(3) + Count(4)) =
      [entries |-> Entries, at |-> Len(data)]

FieldsReadBack ==
  LET first == header.flags[1]  second == header.flags[2]
  IN  /\ <<first \div 128, (first \div 8) % 16>> = <<msg.qr, msg.opcode>>
      /\ (first % 8) * 2 + second \div 128 = msg.flags
      /\ second % 128 = msg.rcode
      /\ \A s \in DOMAIN Sections : Count(s) = Len(Sections[s])

MessageReadsBack == building = "built" => EntriesReadBack /\ FieldsReadBack

(* build returns or throws, whatever the names are.                        *)
EveryBuildEnds == <>(building \in Outcomes)
=============================================================================
