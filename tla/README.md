# A verification of PKTBuilder

TLA+ models of PKTBuilder (a C++20 library that builds and decodes network
packets), checked with TLC on small instances, and theorems about them proved
with TLAPS. Paths are relative to the repository.

The library has no threads, no persistence and no I/O of its own but the lookup
of the default interface. What makes it hard is elsewhere: length fields of four,
eight and sixteen bits that are computed from sizes of any width; loops that step
by lengths they read; builders and decoders that must agree; objects that are
mutated by piping, reused and piped again, with 0 standing for "not given"; and
lookups that depend on a host that changes between two calls.

## Inventory

| Component | Source | State | Operations | Must hold |
|---|---|---|---|---|
| Internet checksum | `src/checksum.cpp` | index, 32-bit sum | one function | one's complement sum; no carry lost up to 131074 bytes, no read outside; a stored checksum verifies, a damaged byte does not |
| Byte helpers | `src/utils.cpp`, `utils.h` | none | split and combine, big-endian | inverse of each other |
| IPv4 build | `src/IPv4.cpp:114-180` | the packet's fields; a `uint8_t` length | two option loops | the loops agree; lengths that wrap are visible |
| IPv4 decode | `src/IPv4.cpp:47-113` | cursor in the options | checks, option loop | stays in the header, ends, makes nothing up |
| TCP build, decode | `src/TCP.cpp:77-195` | the same for TCP | the same | the same, without a total length or checksum to rely on |
| UDP build, decode | `src/UDP.cpp:38-94` | length field | checks | the payload is what was sent |
| ICMP | `src/ICMP.cpp` | type, code, contents | build | checksum |
| ICMP timestamps | `src/ICMP.cpp:47-76` | the clock | make a message from the clock or from arguments | a timestamp names the instant it was made at, at midnight too |
| ARP | `include/pktbuilder/ARP.h` | the packet's fields | constructors of five pairs of classes, build | a receiver finds each field in its place, behind any layer |
| Transport layers onto IPv4 | `operator\|` of `TCP.cpp`, `UDP.cpp`, `ICMP.cpp`; `Layer.h` | addresses in the segment, protocol number in the packet | construct, pipe, reuse | checksum covers the carrier's addresses and the number names the contents, with known exceptions |
| Packets onto Ethernet | `src/Ethernet.cpp`, `operator\|` of `IPv4.cpp`, `ARP.h` | source MAC, ethertype | construct, decode, pipe, reuse | a source is left empty for known causes only, and never replaced; ethertype names the contents, or was another's |
| Default interface, Linux | `src/utils.cpp:15-31,117-123,175-190` | the host's route; descriptors | two lookups | an address found is that interface's; failures have a cause in the host |
| Default interface, Windows | `src/utils.cpp:64-115,126-174` | the output of `route.exe`; the adapter list in the heap | two lookups | the same; the list is freed once; the lookup ends |
| Whole stack, data layers | README.md:170-379, `Layer.h`, `src/Layer.cpp` | bytes on their way | pipe, build, link, decode by layer | contents arrive as sent, or the failure is reported |
| DNS messages | `src/DNS.cpp` | the message; a loop over names, over entries | build | a reader that believes the lengths and counts finds what was given |
| Address conversions | `src/addresses.cpp` | position in the text | parse, print | what is printed is read back; parsing stays in the text |
| Constants | enumerations in the headers | none | none | |

Components interact by values: `operator|` copies the right operand, sets the
built bytes of the left one as its payload, and (TCP, UDP) first writes the right
operand's addresses into the left. Constructors with an all-zero source call the
interface lookup. Decoders of different layers are joined by the program, which
passes the payload of one to the next.

## Modules

| Module | Models | Runs |
|---|---|---|
| `Bytes` | bytes and 16-bit words, with the base as a parameter | |
| `OnesComplementSum` | abstract: what the checksum is | |
| `Checksum` | the loop of `calculateInternetChecksum`; implements `OnesComplementSum` | `MCChecksum` |
| `ChecksumField` | the checksum built into a header, damaged, verified; runs `Checksum` twice | `MCChecksumField` |
| `IPv4Build` | `IPv4::Packet::build` | by `IPv4Codec` |
| `IPv4Decode` | `IPv4::Packet::decodeFrom` | by `IPv4Codec` |
| `IPv4Codec` | the two joined by the datagram, and the decoder on datagrams from elsewhere | `MCIPv4Codec`, `MCIPv4CodecOptions` |
| `TCPBuild`, `TCPDecode` | the same for TCP | by `TCPCodec` |
| `TCPCodec` | the two joined, and the decoder on segments from elsewhere | `MCTCPCodec`, `MCTCPCodecOptions` |
| `Interface` | route, descriptors and what the lookups return on either platform, as their callers see it | |
| `TransportPipe` | segments piped onto IPv4 packets; extends `Interface` | by `FramePipe` |
| `FramePipe` | packets piped onto frames, frames decoded; extends `TransportPipe` | `MCPipes`, `MCPipesDocumented` |
| `Channel` | abstract: what contents piped onto layers may expect | |
| `Messages` | ARP packets and timestamps as bytes, and readers of them | by `Stack` |
| `Stack` | contents, any layers in any order, the link, and back; implements `Channel` | `MCStack`, `MCStackPadding` |
| `DomainName` | the loop of `formatDomainName`, and a reader of its result | by `DNSMessage` |
| `DNSMessage` | `DNS::Message::build`, calling `DomainName` for every entry | `MCDNSMessage` |
| `Addresses` | `strToIpv4Addr`, `strToMacAddr` and what the two printers write | by `DefaultInterface` |
| `DefaultInterface` | both lookups of the default interface, Linux and Windows, as text searches; calls `Addresses` | `MCAddresses` |
| `Sums` | running sums of a sequence, in which the codecs' properties count the bytes of options | |
| `Lemmas` | lemmas on quotients and remainders, induction, running sums, joined and cut sequences, for the next modules | |
| `ChecksumProofs` (also of `ChecksumField`), `IPv4CodecProofs` (also of `IPv4Decode` and `IPv4Build`), `TCPCodecProofs` (likewise), `PipeProofs` (of `TransportPipe` and `FramePipe`), `StackProofs`, `DNSProofs` (of `DNSMessage` and `DomainName`), `DefaultInterfaceProofs` (also of `Addresses`) | theorems about the module they are named for | |

An iteration of a loop is an action, and so is each exit of it; an exception is
an outcome (`"runtime_error"`, `"invalid_argument"`), which leaves everything
else as it was except where the code has changed something before throwing
(`TransportPipe!PipeMemberThrows`). Definitions keep the code's names
(`prev_opt_end`, `option_len`, `ihl_bytes`, `header_size`). Names with an
underscore suffix (`NextOption_Value`) are faulty variants of the definition
they are named for: each property is checked to be violated by one of them.

What is abstracted:

- A datagram or segment is the fields its decoder reads and the bytes of its
  option area; of a payload only the size is kept, and `sumOK` stands for the
  outcome of the checksum, whose meaning `ChecksumField` settles.
- An address is the host it names or `Unset`; a protocol number or ethertype is
  the protocol it names, 0, or another one.
- `Interface` has six kinds of route (an interface with all addresses, without an
  IPv4 address, without a MAC, with the zero MAC, no route, and calls that fail) and
  counts open descriptors. It may change between any two operations. `platform` is what
  the library was built for: on Linux a MAC that is not found throws, on Windows it is
  zeros, and the search for the address throws where there is no route.
- A result of `operator|` takes the place of its right operand, or is kept and nothing
  more happens to it, which leaves the operand as it was. So one packet and one frame are
  enough, and what is said of them is said of every result.
- `FramePipe` and `TransportPipe` keep histories, which no action reads: what was given,
  what was piped on, which `operator|` it was and which packet a segment met last.
- `DefaultInterface` is the same lookup from the inside, for one call. Text is a
  sequence of classes of characters: digits, the separator, the blank, signs, NUL,
  the letter v (for "dev") and any other. The buffers are as short as the texts
  (`BufSize`, `IFNAMSIZ`, `ChunkSize`), and the size of the adapter list is counted
  in adapters. What the host prints is chosen when the lookup starts; how much of it
  one `ReadFile` gets, every failure, and each change of the adapters, when they
  happen.
- `Stack` keeps the bytes of contents whose meaning it checks (ARP, timestamps) and
  the sizes of everything else. A receiver takes the same layers off again, calling
  the decoders the library has; ICMP and data layers, which have none, it takes off
  by their length. Its instance scales the word: with `Radix` 16 the length fields
  have eight bits, so that the widths of a header, of the padding and of the limits
  meet in a few hundred bytes. A capture lacks less than a whole word: a datagram
  whose total length had wrapped, and which then lost exactly that many bytes, could
  not be told from a whole one.
- The clock of `Stack` shows one of a few times around midnight, at each of the two
  readings; `Day` stands for the milliseconds of a day.
- A length byte below 2 makes both decoders hand `insert` a range that ends before
  it begins. That is undefined; the model takes the outcome of libstdc++,
  `length_error`. `IPv4Codec!NoLengthError` shows that build's output never leads
  there.
- A header whose length field does not match what was emitted has a checksum over
  other bytes than a receiver sums: `Finish` lets it verify or not.

## Runs

| Run | Shows | Bounds |
|---|---|---|
| `MCChecksum` | refinement, reads, carries, termination | `Radix` 2, all buffers from the empty one to 13 bytes: `LongestExact`, from which a longer sum may overflow, is 10; `SizeRange` 16 |
| `MCChecksumField` | verification of intact and damaged packets | `Radix` 8, packets of 2 to 6 bytes, every place of the field, every changed byte; for IPv4, headers of 4 and 6 bytes named by the low two bits of the first byte, and the lengths 0 and 2 to be refused |
| `MCIPv4Codec` | the option loop on arbitrary bytes, the two loops of build and their wraps, and round trips | all one- and two-word areas over bytes that are EOOL, NOP, small and large lengths; bad sizes, lengths and sums of every kind; payload behind the header; for build, up to three small options of every kind, up to two of sizes around 40, 236 and 253 bytes, payloads around 65535, every flag, offsets around 13 bits |
| `MCTCPCodec` | the builder, the option loop on arbitrary bytes, and round trips | the same kinds of values for TCP, and options that carry their length |
| `MCPipes` | any five segments, packets and frames that a program makes of each other, and any number of payloads set and builds that throw | both platforms; this host and another that it writes to; five kinds of route (one without an IPv4 address is to a packet as none, to a frame as any); two descriptors, which one lookup uses up. Five is what it takes to pipe one segment and then another onto one packet, or to have a build throw between two packets and the operand piped again |
| `MCStack` | contents through up to three layers and back | `Radix` 16; application data at and beside every size at which padding ends (17-19, 25-27, 37-39, 45-47, by the headers around it), UDP or TCP refuse and the total length wraps (175-248); requests and replies of every ARP class, with arguments and without, and one with addresses of other lengths; clock at 99, 100, 199, 205 with a day of 100: before, at and after midnight, and set back; captures cut by 1, 8, 20, 60, 250 bytes |
| `MCDNSMessage` | names and entries read back, limits of the header | `Radix` 3 (a section holds at most 2 bytes, a count or the data at most 8); every name of up to five characters over two letters and the period; up to five entries over the four sections; 8 and 9 entries and bytes; fields at 15 and 16 |
| `MCAddresses` | what is printed is read back, what is read was there; an address found is the default interface's | octets of every number of digits; texts with one field more or less, any two of whose fields are empty, too long, too large, signed, blank or have letters; eight first lines of `ip route list` (with and without a gateway, with `dev` last, missing, naming no device, cut off by the buffer) over a device with both addresses, one without a MAC (tun) and one without an IPv4 address and with a longer MAC (InfiniBand); seven outputs of `route.exe` (gateway, on-link, two routes, no address yet, missing columns, nothing), cut anywhere; six adapter lists, changing between the calls |

The bounds of the codecs are around the values at which a width, a padding or a
comparison changes what the code does; between them its behaviour is uniform in
the size. Every passing run fires all of its actions. The type invariants
(`TypeOK`, `FieldTypeOK`, `LookupTypeOK`) hold on the same instances, and most of them
are proved; no configuration lists them, as they say little beyond the properties
that are listed.

Four runs look for a violation, of something a document or test of the
repository says, and find it; `PROJECT.json` quotes the line under `findings`:

| Run | The code |
|---|---|
| `MCIPv4CodecOptions` | rejects or loses an option that ends with the header (IPv4.cpp:82, :77) |
| `MCTCPCodecOptions` | writes TCP options without the length byte that it reads (TCP.cpp:111) |
| `MCPipesDocumented` | leaves the protocol number 0, and the packet's addresses out of the checksum, for a const segment (TCP.cpp:64, Layer.h:60-67) |
| `MCStackPadding` | cannot decode the packet in a padded frame (IPv4.cpp:64) |

Further behaviour that the models contain and that may surprise a user, without a
run of its own: IPv4 build returns headers of 256 bytes and more, since its counter
wraps before the check (IPv4.cpp:123, :131), and datagrams whose total length
wrapped (IPv4.cpp:136), which `WrappedLengthIsVisible` shows a receiver drops; "TCP
Header too long" is never thrown (TCP.cpp:97); the checksum of the empty buffer reads
behind it (checksum.cpp:7), and one of more than 131074 bytes may lack a carry, which an
ICMP message can be (ICMP.cpp:30); a change of the header length is noticed by the checksum
only as far as the bytes then summed do not come to 0 (IPv4.cpp:57: `RejectsDamage` allows
nothing else); a packet or a frame that is reused keeps the number of what it carried first
(TCP.cpp:68, IPv4.cpp:184: `MislabelledHasACause`); on Windows a frame may be made without
a source (utils.cpp:64-110: `FramesHaveASource`); decoding a frame needs a default interface
(Ethernet.cpp:34); every lookup of the IPv4 address leaves a socket open, until the
descriptors are used up and source addresses silently stay 0.0.0.0 (utils.cpp:182;
`ZeroSourceHasACause` allows no other reason than this, a missing route and a failed call); a name
that ends with a period gets a second 0 byte, which a reader takes for the type's
first (DNS.cpp:130, :137); `strToMacAddr` reads the octet "-1" as 255 and "1x" as 1,
and both parsers ignore what follows a separator behind the last octet
(addresses.cpp:86); on Windows the output of `route.exe` is read in one piece, so that
an address may be cut short without an error (utils.cpp:161: `AddressIsTheInterfaces`
says that nothing worse happens), and an adapter with a MAC of another length than six
counts as none, where on Linux the first six bytes are taken (utils.cpp:108, :122); a
first route without "dev" takes the name from the fourth character of the line on
(utils.cpp:27), and only the lack of a device of that name keeps it from being used;
a timestamp made while the clock is set back over midnight is taken modulo 2^32
(ICMP.cpp:56).

### Fairness

`Checksum`, the codecs and `DNSMessage` are functions that run to their end (`Checksum` on
a buffer that is not empty; on the empty one it reads outside, and may do anything):
`WF(Next)` says that a thread that can take a step does, and it is what `Returns`,
`EveryDeliveryIsAnswered` and `EveryBuildEnds` assume. In `IPv4Codec` and `TCPCodec`
the next-state relation includes the delivery, so that bytes that were
built do arrive; no property depends on bytes that are lost. So it is in `Stack`,
where `WF(Next)` makes every message that is sent arrive, whole or cut, and be
answered: the refinement of `Channel` includes `Answers`. A program that goes on
piping does so at most `MaxLayers` times. `DefaultInterface` is fair to the steps that
the library takes when nothing fails (`WF(LookupStep)`); failures and the changes of
the adapters happen or not. `LookupEnds` further assumes that `route.exe` prints
something: without a first byte `ReadFile` waits for ever, and so does the model.
`TransportPipe` and `FramePipe` have no fairness: a program may stop at any
time, and nothing is claimed to happen eventually. Deadlock is not checked
(`CHECK_DEADLOCK FALSE`) where functions return and programs end.

## Theorems

All are proved for every value of the constants, from the assumptions named in
the modules, which TLC evaluates on the runs of those modules: `RadixAssumption`,
`MaxLenAssumption` and `SizeAssumption` (a buffer has any size that a `size_t` can index; no
limit of the sum is assumed), `LengthAssumption`, `DatagramsAssumption`, `SegmentsAssumption`, `PacketsAssumption` (of
both codecs: a packet's fields have the types of its class's members; there may be any
number of options, with values of any length), `InterfaceAssumption`, `MaxOpsAssumption`,
`StackAssumption` (ARP packets have addresses of bytes whose lengths fit in the
`uint8_t` that holds them, and a program asks a class only for the hardware or protocol
type that the class is made for; a capture lacks less than a word), `AddressesAssumption`,
`DefaultInterfaceAssumption` (an IPv4 address has four octets or is missing, a device's
name has neither a blank nor a NUL), `ColumnsAssumption` (what the two commands print
around the interface's column; below, under `DefaultInterfaceProofs`),
`PeriodAssumption` (the period is a byte) and `MessagesAssumption` (the fields of a message
have the types of its class, the sections any length).

**`ChecksumProofs`** Of the function: the inductive invariant `IInv` adds to `TypeOK` that the index
is even and within the buffer, that `sum <= WordsAdded * (WordSize - 1)` for a buffer of
at most `LongestExact = 2 * (WordSize + 1)` bytes, and that a
result is there exactly at the end. Type correctness alone is not inductive: that
`sum` stays below `WordSize ^ 2` after the modulo says nothing about whether the
modulo did anything. Within `LongestExact` the bound leaves room for
one more word, so no addition wraps (`NeverWraps`); that the program sums no more is
assumed nowhere. An index that is even and below `len - 1` has a byte behind it, unless
`len - 1` wrapped (`NeverReadsOutside`). The refinement (`Implements`) is of any buffer. It
rests on `FoldUnique`: the folded value of a sum below `WordSize ^ 2` is the only
word congruent to it that is 0 just for a sum of 0, so that folding once at the end
is adding with carry at every word. A sum that wraps loses `WordSize ^ 2`, which is 1 modulo
`WordSize - 1` (`FoldLosesOne`): this is the carry that `OnesComplementSum` lets a word
behind the first `WordSize + 1` take away. Of the empty buffer it promises nothing.

Of a packet, whose summed part is within `LongestExact`: `partial` records what build's
accumulator held after
each word. `FInv` says that the receiver's accumulator after `n` words is that value,
plus the stored checksum if the field is among them, plus the damage if its word is, as
long as the receiver sums as many bytes as build did.
At the end the two runs differ by exactly these, and the stored checksum completes
the folded sum to `WordSize - 1` (`StoredCompletes`): `BuildVerifies`. A change of one
byte is smaller than `WordSize - 1` in absolute value and not 0 (`DeltaSize`), so it
cannot be congruent to 0: `DamageIsDetected`. The receiver sums as many bytes as the header
it received says; only a change of its first byte makes that another number.

**`IPv4CodecProofs`** First the decoder alone. `Inv` is `TypeOK`, `StaysInHeader`, that the
cursor is fresh until the header has been accepted, and `OptionsDisjoint`, which is
inductive: what an iteration appends is as long as its step, and what it drops (EOOL, the
padding) only leaves room. It holds for any set of well-formed datagrams, whatever their
option bytes are.

Then the two together. `PacketsComeBack`, `OnlyATailIsLost` and the rest speak of lists of
options of any length, which build goes through twice and decodeFrom once, over bytes. The
invariant `CodecInv` (checked by TLC on the instance of `MCIPv4Codec` before it was proved)
ties all three to one function, `End`, the running sums of the options' lengths: `End[k]`
is where option `k` ends.

- In build's first loop the counter is `20 + End[k - 1]` modulo 256 (`Sizing`). In its
  second, the bytes emitted spell options 1 to `k - 1`: option `j` stands between
  `End[j - 1]` and `End[j]` (`Emitting`, `Spells`). When it returns, the option area holds
  all of them and then zeros, and the length fields are what the counter makes of it
  (`AsBuilt`).
- decodeFrom has passed `m` options, for some `m` (`StandsBehind`): it stands at
  `20 + End[m]`, or behind the last in the padding, and without an EOOL among them has
  found exactly these `m`. At `End[m]` it reads the type of option `m + 1`, and its length
  byte, which says `End[m + 1] - End[m]`; so the next step leads to `m + 1`. An option
  longer than a byte can say is in no header that fits, and one that does not fit has a
  total length that no receiver finds right (`WrappingShows`), so that the loop is not
  entered.

That sums of a prefix are below sums of the whole, that equal lists have equal sums, and
that the sums are functions at all are inductions over the number of options
(`SumsExist`, `SumsGrow`, `SumsAgree`). The library's induction theorem takes an operator;
`Lemmas!Induction` takes a set of numbers instead, and follows from the well-founded
order of the naturals.

**`TCPCodecProofs`** The same of TCP. Of the decoder alone, the loop may end exactly with
the header: the cursor is then at 60, and a kind byte that is the header's last has no
length byte behind it to read (`LoopBounds`, `OptionTaken`). Of the two together,
`PayloadComesBack` needs only that the data offset did not wrap. `CarriedLengthsComeBack`
needs where the loop stands, as before, with the NOP that build puts before every
option between two of them; here an option is found even when it ends with the header.

**`PipeProofs`** Program order is the difficulty: segments, packets and frames are
constructed, piped, reused and piped again while the route and the descriptors come
and go, on either platform. `Inv` says of the segment (`SoundSegment`) that its addresses are
those it was constructed with or met last, a throw included, and that an ICMP message,
which has no pseudo-header, is never summed; of the packet (`Sound`) that what it carries
covers its own addresses or came by the template from a segment with others (`Covers`), that
its number is 0 until a segment could set it and one of the kinds piped on since
(`NumberKnown`), and that an unset source had a cause (`Caused`). The cause needs the
history to be strong enough: a route that is down now has been seen to be down
(`DownIsSeen`). `SoundFrame` says the same kind of things of the frame. The properties about
causes follow: a number that is not the contents' is another kind's, or none.

That a packet or a frame may be mislabelled, and a checksum foreign, is against README.md:11-13
and 195-203, which `MCPipesDocumented` shows; what is proved is that nothing else than
const segments, reuse and, for a checksum, piping a const segment that another packet
had marked, leads there.

**`StackProofs`** `LayersAreAChannel` is the safety part of the refinement that
`MCStack` checks, for any number of layers in any order and any word size. The
invariant names the size `f[k]` that the contents have with `k` headers around them.
Building keeps `f` of all headers equal to the size in hand, and every UDP and IPv4
header's length equal to its `f[k]`, the latter modulo the word size. In decoding
the size in hand may differ from `f` (a capture is cut, a link pads), until a length
has been passed. UDP's is the real one. IPv4's is the real one modulo the word size,
and has to equal the bytes in hand, which lack less than a word: so nothing lacks
(`RemainderIsExact`). From there on `f` and the size in hand are equal, to the
innermost layer (`DecodeStep`). If no layer has a length, an ARP packet or a timestamp
says itself how long it is (`ReadTakes`); `ARPIsBytes` shows this of every class.
`NothingIsMadeUp` comes out of the same step of the decoder.

A second invariant, `Genuine`, is about what the contents say: an ARP packet that was
built reads as what the program gave, a timestamp as the milliseconds from the day of
the first reading of the clock to its second, modulo 32 bits, and what a reader has taken is
the message. The first rests on where each field stands (`ARPLayout`), for addresses of
any length, and on every class's constructors passing their arguments to the right
place (`ConstructedIsGiven`); with the invariant above, which says that a reader takes
no padding, `ARPFieldsArrive` and `TimestampsNameTheInstant` follow.

**`DNSProofs`** The writer and the reader are tied to closed forms, and not to each
other. Byte `p` of a name is known without going through it (`NameBytes`): where a
section begins it is the distance to the next period, elsewhere the character before.
`Ends[j]`, a running sum, is where entry `j` of the body ends.

- The writer. Having passed the period at `prev`, the loop has written the first
  `prev + 1` bytes of this form (`Written`, `NameInv`); between two entries the body spells
  the first `n - 1` (`BodyInv`, with the same `Spells` as the codecs' options); and the name
  in hand is that of entry `n` (`ControlInv`). `MessageInv` is the three together. TLC
  checked it, on smaller messages than the run's, before it was proved.
- The reader, of bytes that hold a name in this form anywhere (`Lays`). By induction over
  its steps it stands behind a section that ends where `NameBytes` says, with the name up
  to there (`HasRead`), or it has stopped at a 0 (`HasStopped`); each step reads a byte or
  more, so that as many steps as bytes suffice (`NameIsRead`). Only for a plain name is the
  0 certainly the terminator, which is all the difference between `NamesAreRead` and
  `MessagesComeBack`. Over entries it is an induction again (`EntriesAreRead`): after `j`
  steps it has the first `j` and stands at `Ends[j]`, each entry taking the bytes behind
  its name (`QuestionRead`, `RecordRead`) that the writer put there (`SuffixIs`).

What the header's bits and counts say is division (`FlagsAre`, `CountsAre`).

**`DefaultInterfaceProofs`** `Balanced`: one allocation is alive exactly in the three
stages that use the adapter list, so that every exit frees it once. `TextInv`, for
`ParsersStayInText`: positions come from searches, which find the first place of a
non-empty set of numbers or `npos`; that there is a first one rests on `<` being
well-founded (`LeastOf`). So whatever `route.exe`, `ip` or the device files print, and
wherever the text is cut, the parsers get a text and look at nothing outside it. `LookupTypeCorrect`
adds the types: what `std::stoi` makes of a few characters is a number (`StoiIs`), so each
octet that is appended is a byte, and there are never more of them than the address has.

The numbers come from where the parsers stand. `FieldsRead`, for `DigitsAreTheNumbers`:
having read `i` octets they stand at a boundary of the text, a separator or an end, that
has `i` others before it, since between one octet's end and the next there is no
separator (`OctetEndIsBoundary`); the boundaries are told apart by how many are before
them (`BoundaryIs`), so the next octet is the next field, and of digits alone
`std::stoi` skips nothing (`DigitsAre`). `WrittenInv`, for `PrintedComesBack`: what
the two printers write has a field for each octet, of one to three digits or of two, with
a separator behind each but the last (`WrittenIs`, octet by octet), and a field's number
is the octet (`FieldIs`); so the parser, having read `i` octets, stands at the end of the
`i`-th field, finds the next, and has no reason to reject it (`WrittenIsRead`).

`AddressIsOfTheInterface`, for `AddressIsTheInterfaces`, is about any line and any table
of any length, over any buffer and any first piece. Which word is the interface's only the
host knows; `ColumnsAssumption` says how its commands mark it. On Linux the name is the
word behind the first "dev"; the code would also use what the buffer leaves of a longer
name and, in a line without "dev", the word at its fourth character, and no device is named
so (`LineIsLabelled`). On Windows the first three words of the output are no addresses, and
the first row for 0.0.0.0 has four columns, whose last is a dotted address or none
(`TableIsLabelled`).

- Linux (`LinuxInv`). The C string cut out of the buffer is a word of the line, as much of
  it as there is, or empty (`NameIsWord`), and "dev" is found in the buffer where it is in
  the line (`DevInBuffer`); so a device of that name is the interface's (`DeviceIsNamed`).
  A device without a MAC address gives the parser no text, of which it reads no address
  (`NothingIsNoAddress`).
- Windows (`WindowsInv`). Each search may find nothing, where the piece ends, and the next
  then begins anew at position 0, since `npos + 1` is 0. Wherever that happens, the four
  that follow one another lead to the interface's column, to nothing, or to one of the
  first three words (`ColumnFound`, `EarlyWords`). What is no address is rejected as far as
  it is read (`BarrenIsRejected`), and so is a dotted address that is cut before its last
  number (`CutIsRejected`, from `ReadInv`: no octet that was read is empty); one that is cut
  inside that number is the shorter address (`DecimalPrefix`, `DottedIsWritten`).

Only model-checked:

- liveness (`Returns`, `EveryDeliveryIsAnswered`, `EveryBuildEnds`, `LookupEnds`, and the
  `Answers` of `Channel`), which needs fairness and ENABLED. What is proved of the option
  loops is the safety they rest on: `LoopAdvances` and `StaysInHeader`.

## Not modelled

- `ipv4AddrToInt`, `intToIpv4Addr` (`src/addresses.cpp:49-65`): four bytes shifted into
  32 bits and back, without a condition, and called by nothing else in the library.
- Compression pointers in DNS names: the library neither writes nor reads them.
- The handles of the Windows lookup: it never closes those of its pipes, and no branch
  depends on how many are open.
- Random identifications and sequence numbers, TTL, ports: copied, never read.
- Raw bytes given to an IPv4 packet (`setPayload`, `data | packet`): they set the payload
  and nothing else, as the template does.
- The computed value of UDP's and TCP's checksum over real bytes: `ChecksumField` is
  about any bytes, `TransportPipe` about which addresses they include.

## Plan

1. Done, modules: every component but the constants, with the abstract specifications
   `OnesComplementSum` and `Channel`. Done, theorems: the checksum, the checksum field,
   both codecs with their round trips, the pipes, the stack as a channel with what ARP
   packets and timestamps say, names and messages, the heap and the texts of the lookup,
   and the address parsers, with what they read of a text.
