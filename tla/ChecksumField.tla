--------------------------- MODULE ChecksumField ---------------------------
(***************************************************************************)
(* A checksum carried inside the bytes it covers, from build to decode:    *)
(* build emits the header with a zero checksum field, sums it and          *)
(* overwrites the field (src/IPv4.cpp:151-177, src/ICMP.cpp:25-34, and the *)
(* same in UDP.cpp and TCP.cpp); the receiver sums the bytes again and     *)
(* takes them for intact when the result is 0 (src/IPv4.cpp:52-60).        *)
(* Between the two, one byte may be damaged.  Summing is Checksum.tla, run *)
(* twice.                                                                  *)
(*                                                                         *)
(* What the receiver sums depends on what is covered.  Of an IPv4 packet   *)
(* it is the header, as long as the first byte says that was received,     *)
(* damaged or not.  Of an ICMP message and of a segment with its           *)
(* pseudo-header it is all that was summed; their receiver is not in this  *)
(* library, whose decoders do not look at those checksums.                 *)
(***************************************************************************)
EXTENDS Checksum

CONSTANTS
  LengthCodes,   \* how many values the IPv4 header length field has: 16
  Unit,          \* the bytes it counts in: 4
  MinHeader      \* the shortest header accepted: 20

ASSUME LengthAssumption ==
  LengthCodes \in Nat \ {0} /\ Unit \in Nat /\ MinHeader \in Nat /\ MinHeader >= 2

VARIABLES
  covered,  \* "header" (IPv4) or "all" (ICMP, UDP, TCP)
  size,     \* the size of the packet
  data,     \* the packet, a function on 0 .. size - 1
  field,    \* offset of the checksum field: even in every header
  phase,    \* "build", "wire", "verify", or "refused" by decodeFrom
  damage,   \* the byte changed on the wire, and by how much
  built,    \* history: how many bytes build summed
  partial   \* history: partial[j] is what build held after j words

packetVars == <<covered, size, field, built>>

fieldVars == <<buf, len, i, sum, pc, out, data, phase, damage, partial, packetVars>>

Undamaged == [at |-> 0, by |-> 0]

FieldOffsets(n) == {f \in 0 .. n - 2 : f % 2 = 0}

(* (data[0] & 0x0f) * 4                                                    *)
HeaderLength(b) == (b % LengthCodes) * Unit

Beginning(n) == [j \in 0 .. n - 1 |-> data[j]]

(* The header of an IPv4 packet is as long as its length field says; that  *)
(* one built from options of more than 40 bytes is not is in IPv4Build.    *)
(* What is summed stays within LongestExact: what becomes of a longer sum  *)
(* is in Checksum and OnesComplementSum.                                   *)
FieldInit ==
  /\ covered \in {"header", "all"}
  /\ size \in 2 .. MaxLen
  /\ built \in IF covered = "all" THEN {size} ELSE MinHeader .. size
  /\ built <= LongestExact
  /\ field \in FieldOffsets(built)
  /\ data \in [0 .. size - 1 -> Byte]
  /\ data[field] = 0 /\ data[field + 1] = 0
  /\ covered = "header" => field # 0 /\ HeaderLength(data[0]) = built
  /\ len = built
  /\ buf = Beginning(built)
  /\ Start
  /\ phase = "build"
  /\ damage = Undamaged
  /\ partial = [j \in 0 .. MaxLen |-> 0]

(* One step of calculateInternetChecksum, called by build or by decodeFrom *)
SumStep ==
  /\ Next
  /\ partial' = IF phase = "build"
                THEN [partial EXCEPT ![WordsAdded'] = sum']
                ELSE partial
  /\ UNCHANGED <<data, phase, damage, packetVars>>

(* Mutant: the bytes are stored in the order of a little-endian host       *)
checksum_b_HostOrder == <<SplitBytes(out)[2], SplitBytes(out)[1]>>

checksum_b == SplitBytes(out)

(* data.at(10) = checksum_b[0]; data.at(11) = checksum_b[1]                *)
Store ==
  /\ phase = "build"
  /\ pc = "done"
  /\ data' = [data EXCEPT ![field] = checksum_b[1],
                          ![field + 1] = checksum_b[2]]
  /\ phase' = "wire"
  /\ UNCHANGED <<buf, len, i, sum, pc, out, damage, partial, packetVars>>

(* The network, not the library: one of the bytes that the checksum covers *)
(* arrives with another value.                                             *)
Damage ==
  /\ phase = "wire"
  /\ damage = Undamaged
  /\ \E j \in 0 .. built - 1, b \in Byte :
        /\ b # data[j]
        /\ data' = [data EXCEPT ![j] = b]
        /\ damage' = [at |-> j, by |-> b - data[j]]
  /\ UNCHANGED <<buf, len, i, sum, pc, out, phase, partial, packetVars>>

ReceivedLength == IF covered = "header" THEN HeaderLength(data[0]) ELSE size

LengthAcceptable ==
  covered = "header" => ReceivedLength >= MinHeader /\ ReceivedLength <= size

(* decodeFrom with verify_checksum calls calculateInternetChecksum again   *)
(* on as many bytes as the received length field says.                     *)
Verify ==
  /\ phase = "wire"
  /\ LengthAcceptable
  /\ len' = ReceivedLength
  /\ buf' = Beginning(len')
  /\ i' = 0 /\ sum' = 0 /\ pc' = "loop" /\ out' = NoResult
  /\ phase' = "verify"
  /\ UNCHANGED <<data, damage, partial, packetVars>>

(* "IPv4 header length field too small"                                    *)
Refuse ==
  /\ phase = "wire"
  /\ ~LengthAcceptable
  /\ phase' = "refused"
  /\ UNCHANGED <<buf, len, i, sum, pc, out, data, damage, partial, packetVars>>

FieldNext == SumStep \/ Store \/ Damage \/ Verify \/ Refuse

FieldSpec == FieldInit /\ [][FieldNext]_fieldVars
-----------------------------------------------------------------------------
FieldTypeOK ==
  /\ TypeOK
  /\ covered \in {"header", "all"}
  /\ size \in 2 .. MaxLen
  /\ data \in [0 .. size - 1 -> Byte]
  /\ built \in 2 .. size
  /\ field \in FieldOffsets(built)
  /\ phase \in {"build", "wire", "verify", "refused"}
  /\ damage \in [at : 0 .. built - 1, by : -(Radix - 1) .. Radix - 1]
  /\ partial \in [0 .. MaxLen -> 0 .. AccSize - 1]

Verified == phase = "verify" /\ pc = "done"

(* What build wrote, decodeFrom accepts: whatever the length, the contents *)
(* and the place of the field, a header that arrives as it was sent sums   *)
(* to zero, and "IPv4 checksum incorrect" (IPv4.cpp:58) is not thrown.     *)
AcceptsWhatWasBuilt == Verified /\ damage = Undamaged => out = 0

(* The damage changed how many bytes the receiver sums.                    *)
LengthDamaged == covered = "header" /\ damage.at = 0 /\ len # built

(* One damaged byte goes unnoticed in one place only, the first byte of an *)
(* IPv4 packet, and only when the header length it then names is another   *)
(* one that decodeFrom accepts: IPv4.cpp:52-57 sums that many bytes, which *)
(* may come to 0.  Anywhere else the sum is not 0: in the field, in the    *)
(* odd last byte, in a word whose change might carry around to nothing,    *)
(* and in the version beside the length.                                   *)
RejectsDamage == Verified /\ damage # Undamaged /\ out = 0 => LengthDamaged
=============================================================================
