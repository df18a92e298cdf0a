-------------------------- MODULE DefaultInterface --------------------------
(***************************************************************************)
(* getDefaultInterfaceIPv4Address and getDefaultInterfaceMAC, on Linux and *)
(* on Windows (src/utils.cpp:17-31, 64-190), down to the text they search: *)
(* the command that prints the routes, the columns cut out of its output,  *)
(* and the parsers of Addresses, which this module runs.  Interface.tla is *)
(* the same lookup as its callers see it.                                  *)
(*                                                                         *)
(* The host is what the library asks it: it prints a command's output, in  *)
(* one piece or not, knows devices or adapters, and may refuse anything.   *)
(***************************************************************************)
EXTENDS Addresses

CONSTANTS
  Commands,    \* [system, text, column] : the system, what its command prints,
               \* and where the name or address of the interface is in it
  Devices,     \* Linux: [name, ipv4, mac], with <<>> for an address it has not
  Adapters,    \* Windows: lists of [ips, mac] that the system may have
  BufSize,     \* 512: the line buffer of getDefaultInterfaceName
  IFNAMSIZ,    \* 16
  ChunkSize    \* 4096: the read buffer of getDefaultInterfaceIPv4Address

ASSUME DefaultInterfaceAssumption ==
  /\ \A c \in Commands : c.text \in Seq(Characters) /\ c.system \in {"Linux", "Windows"}
  /\ \A d \in Devices : /\ d.name \in Seq(Characters \ {Blank, NUL})
                         /\ Len(d.name) \in 1 .. IFNAMSIZ - 1
                         /\ d.ipv4 \in [1 .. 4 -> UInt8] \cup {<<>>}
                         /\ d.mac \in Seq(UInt8)
  /\ Adapters \subseteq Seq([ips : SUBSET Seq(Characters), mac : Seq(UInt8)])
  /\ {BufSize, IFNAMSIZ, ChunkSize} \subseteq Nat \ {0}

VARIABLES
  command,        \* the member of Commands that the host will print
  wanted,         \* "IPv4" or "MAC": the function that was called
  stage,          \* where the lookup is; "zeros", "out_of_range" and "found"
                  \* end it, and so does the parser it waits for in "parsing"
  seen,           \* out_line or cmd_output
  adapters,       \* the host's adapters when it was last asked for them
  required_size,  \* in adapters
  live,           \* history: allocations that have not been freed
  default_mac

hostVars == <<command, wanted>>
heapVars == <<adapters, required_size, live, default_mac>>
lookupVars == <<addressVars, stage, seen, hostVars, heapVars>>

Zeros(n) == [j \in 1 .. n |-> 0]

NothingAllocated ==
  adapters = <<>> /\ required_size = 0 /\ live = 0 /\ default_mac = <<>>

LookupInit ==
  /\ command \in Commands
  /\ wanted \in {"IPv4", "MAC"}
  /\ stage = "asking" /\ seen = <<>>
  /\ NothingAllocated
  /\ kind = "IPv4" /\ printed = <<>> /\ text = <<>>
  /\ i = 0 /\ prev_pos = npos /\ addr = <<>> /\ parsing = "idle"

(* A parser that is called by the program itself                           *)
NoLookupInit ==
  /\ Init
  /\ command = [system |-> "none", text |-> <<>>, column |-> <<>>]
  /\ wanted = kind /\ stage = "parsing" /\ seen = <<>>
  /\ NothingAllocated

(* What a step of the lookup may leave alone: it runs no parser, starts    *)
(* one with what it has found, or reads                                    *)
Goes(to)  == stage' = to /\ UNCHANGED <<addressVars, seen, hostVars>>
Waits     == stage' = "parsing" /\ UNCHANGED <<seen, hostVars, heapVars>>
Reads(to) == stage' = to /\ UNCHANGED <<addressVars, hostVars, heapVars>>

-----------------------------------------------------------------------------
(* Linux                                                                   *)
dev == <<13, 14, LetterV>>

(* fgets leaves the last byte of buf 0, and std::string takes all of buf.  *)
OutLine ==
  [j \in 1 .. BufSize |->
     IF j < BufSize /\ j <= Len(command.text) THEN command.text[j] ELSE NUL]

(* A line without "dev" is searched from npos + 4 = 3 on.                  *)
DeviceName(out_line) ==
  LET dev_name_start == FindIn(out_line, dev, 0) + 4
  IN  Between(out_line, dev_name_start, FindIn(out_line, <<Blank>>, dev_name_start))

(* strcpy, and the path given to ifstream, end at the first NUL.           *)
CString(s) == Between(s, 0, FindIn(s, <<NUL>>, 0))

ReadRoutes ==
  /\ stage = "asking" /\ command.system = "Linux"
  /\ seen' = IF command.text = <<>> THEN <<>> ELSE OutLine
  /\ Reads("named")

(* No process or no descriptor: the name is "", as without any output.     *)
PopenFails ==
  /\ stage = "asking" /\ command.system = "Linux"
  /\ Goes("named") /\ UNCHANGED heapVars

inter == IF seen = <<>> THEN <<>> ELSE DeviceName(seen)

Named(d) == d.name = CString(inter) /\ d.ipv4 # <<>>

(* inet_ntoa prints what ioctl found.                                      *)
AskAddress ==
  /\ stage = "named" /\ wanted = "IPv4"
  /\ Len(inter) < IFNAMSIZ
  /\ \E d \in Devices : Named(d) /\ Parse("IPv4", Written("IPv4", d.ipv4))
  /\ Waits

NoAddress ==
  /\ stage = "named" /\ wanted = "IPv4"
  /\ Len(inter) >= IFNAMSIZ \/ ~\E d \in Devices : Named(d)
  /\ Goes("zeros") /\ UNCHANGED heapVars

(* /sys/class/net/<inter>/address: behind a NUL the path would go on, so   *)
(* that a name with one names no file.                                     *)
ReadAddressFile ==
  /\ stage = "named" /\ wanted = "MAC"
  /\ \/ \E d \in Devices : d.name = inter /\ Parse("MAC", Written("MAC", d.mac))
     \/ (~\E d \in Devices : d.name = inter) /\ Parse("MAC", <<>>)
  /\ Waits

-----------------------------------------------------------------------------
(* Windows                                                                 *)
Spawn ==
  /\ stage = "asking" /\ command.system = "Windows"
  /\ Goes("reading") /\ UNCHANGED heapVars

(* ReadFile waits for the first bytes of route.exe, and takes what is in   *)
(* the pipe by then, up to its buffer.  The library holds the pipe's write *)
(* end itself (src/utils.cpp:137-155), so that it has no end of file.      *)
ReadFile ==
  /\ stage = "reading"
  /\ \E n \in 1 .. ChunkSize :
       n <= Len(command.text) /\ seen' = SubSeq(command.text, 1, n)
  /\ Reads("read")

(* "0.0.0.0"                                                               *)
Default == <<0, Separator, 0, Separator, 0, Separator, 0>>

DestEnd      == FindIn(seen, <<Blank>>, FindIn(seen, Default, 0) + 1)
NetmaskEnd   == FindIn(seen, <<Blank>>, FindIn(seen, Default, DestEnd + 1) + 1)
GatewayEnd   == FindIn(seen, <<Blank>>, FindNotBlank(seen, NetmaskEnd + 1) + 1)

(* Mutant: the gateway's column                                            *)
InterfaceBegin_Gateway == FindNotBlank(seen, NetmaskEnd + 1)

InterfaceBegin == FindNotBlank(seen, GatewayEnd + 1)

FindColumns ==
  /\ stage = "read"
  /\ InterfaceBegin # npos
  /\ Parse("IPv4",
       Between(seen, InterfaceBegin, FindIn(seen, <<Blank>>, InterfaceBegin)))
  /\ Waits

(* substr, from npos on                                                    *)
NoColumn ==
  /\ stage = "read"
  /\ InterfaceBegin = npos
  /\ Goes("out_of_range") /\ UNCHANGED heapVars

-----------------------------------------------------------------------------
(* Windows: the adapter that has the address                               *)
HasAddress == /\ stage = "parsing" /\ parsing = "returned"
              /\ command.system = "Windows" /\ wanted = "MAC"

NoDefault ==
  /\ HasAddress /\ addr = Zeros(4)
  /\ Goes("zeros") /\ UNCHANGED heapVars

Allocate ==
  /\ \/ HasAddress /\ addr # Zeros(4) /\ Goes("sizing")
     \/ stage = "resizing" /\ Goes("filling")
  /\ live' = live + 1
  /\ UNCHANGED <<adapters, required_size, default_mac>>

(* GetAdaptersInfo with a size of 0, which is never enough; free           *)
AskSize ==
  /\ stage = "sizing"
  /\ adapters' \in Adapters
  /\ required_size' = Len(adapters')
  /\ live' = live - 1
  /\ Goes("resizing") /\ UNCHANGED default_mac

(* The host: an adapter comes or goes between the two calls.               *)
AdaptersChange ==
  /\ stage \in {"resizing", "filling"}
  /\ adapters' \in Adapters
  /\ Goes(stage) /\ UNCHANGED <<required_size, live, default_mac>>

Fits == adapters # <<>> /\ Len(adapters) <= required_size

Fill ==
  /\ stage = "filling" /\ Fits
  /\ Goes("searching") /\ UNCHANGED heapVars

(* Mutant: ask for the list again until there is room for it               *)
NoFit_Again == "resizing"

NoFit == "zeros"

FillFails ==
  /\ stage = "filling" /\ ~Fits
  /\ required_size' = Len(adapters)
  /\ live' = live - 1
  /\ Goes(NoFit) /\ UNCHANGED <<adapters, default_mac>>

(* The first adapter one of whose addresses is the one that was found      *)
Candidates == {k \in DOMAIN adapters : Written("IPv4", addr) \in adapters[k].ips}

default_adapter == CHOOSE k \in Candidates : \A l \in Candidates : k <= l

WrongLength == Candidates # {} /\ Len(adapters[default_adapter].mac) # 6

(* Mutant: returns without free                                            *)
Freed_ButForLength == IF WrongLength THEN live ELSE live - 1

Freed == live - 1

NoAdapter ==
  /\ stage = "searching"
  /\ Candidates = {} \/ WrongLength
  /\ live' = Freed
  /\ Goes("zeros") /\ UNCHANGED <<adapters, required_size, default_mac>>

CopyMAC ==
  /\ stage = "searching" /\ Candidates # {} /\ ~WrongLength
  /\ default_mac' = adapters[default_adapter].mac
  /\ live' = Freed
  /\ Goes("found") /\ UNCHANGED <<adapters, required_size>>

(* ioctl, CreateProcess, ReadFile or malloc fails.                         *)
Failure ==
  /\ \/ stage = "asking" /\ command.system = "Windows"
     \/ stage = "named" /\ wanted = "IPv4"
     \/ stage \in {"reading", "resizing"}
     \/ HasAddress
  /\ Goes("zeros") /\ UNCHANGED heapVars

-----------------------------------------------------------------------------
ParserStep == Next /\ UNCHANGED <<stage, seen, hostVars, heapVars>>

(* What the library does when nothing fails                                *)
LookupStep ==
  \/ ReadRoutes \/ AskAddress \/ NoAddress \/ ReadAddressFile
  \/ Spawn \/ ReadFile \/ FindColumns \/ NoColumn
  \/ NoDefault \/ Allocate \/ AskSize \/ Fill \/ FillFails
  \/ NoAdapter \/ CopyMAC
  \/ ParserStep

LookupNext == LookupStep \/ PopenFails \/ Failure \/ AdaptersChange

LookupSpec ==
  /\ LookupInit \/ NoLookupInit
  /\ [][LookupNext]_lookupVars
  /\ WF_lookupVars(LookupStep)
-----------------------------------------------------------------------------
(* What a command prints around the column: the words of a text have       *)
(* blanks between them.                                                    *)
At(t, p, word) ==
  p >= 1 /\ p + Len(word) - 1 <= Len(t) /\ SubSeq(t, p, p + Len(word) - 1) = word

FirstAt(t, p, word) == At(t, p, word) /\ \A q \in 1 .. p - 1 : ~At(t, q, word)

WordAt(t, b, e) ==
  /\ 1 <= b /\ b <= e /\ e <= Len(t)
  /\ \A j \in b .. e : t[j] # Blank
  /\ e < Len(t) => t[e + 1] = Blank

Starts(t) == {b \in DOMAIN t : t[b] # Blank /\ (b = 1 \/ t[b - 1] = Blank)}

(* The word that begins at b is the next behind position e.                *)
Follows(t, e, b) ==
  e + 1 < b /\ t[b] # Blank /\ \A j \in e + 1 .. b - 1 : t[j] = Blank

(* Linux: the name is the word behind the first "dev".  What else might be *)
(* taken for it, a name that the buffer cuts off, or without any "dev" the *)
(* word at the fourth character, is no device's name.                      *)
LineIsLabelled(c) ==
  LET line == SubSeq(c.text, 1,
                     IF Len(c.text) < BufSize THEN Len(c.text) ELSE BufSize - 1)
  IN  /\ \A j \in DOMAIN c.text : c.text[j] # NUL
      /\ \/ \E p \in DOMAIN line, e \in DOMAIN c.text :
              /\ FirstAt(line, p, dev) /\ WordAt(c.text, p + 4, e)
              /\ c.column = <<p + 4, e>>
              /\ e > Len(line) =>
                   \A d \in Devices : d.name # SubSeq(line, p + 4, Len(line))
         \/ /\ \A p \in DOMAIN line : ~At(line, p, dev)
            /\ \A d \in Devices, e \in DOMAIN line :
                 WordAt(line, 4, e) => d.name # SubSeq(line, 4, e)

(* What begins so is no address, however it goes on: it has no number, or  *)
(* not two of them.                                                        *)
NoAddressAt(t, b) ==
  \/ t[b] \notin 0 .. 9 \cup {Plus, Minus}
  \/ \E p \in b .. Len(t) - 1 :
       /\ t[p] = Separator /\ t[p + 1] = Separator
       /\ \A j \in b .. p - 1 : t[j] \notin {Blank, Separator}

Dotted(w) ==
  \E p, q, r \in DOMAIN w :
    /\ w[p] = Separator /\ w[q] = Separator /\ w[r] = Separator
    /\ {SubSeq(w, 1, p - 1), SubSeq(w, p + 1, q - 1), SubSeq(w, q + 1, r - 1),
        SubSeq(w, r + 1, Len(w))} \subseteq {Decimal(b) : b \in UInt8}

(* Windows: the first three words are no addresses.  The first row for     *)
(* 0.0.0.0 has four columns, and an address in the fourth, if any.         *)
TableIsLabelled(c) ==
  LET t == c.text
  IN  /\ \A b \in Starts(t) :
           NoAddressAt(t, b) \/ \E x, y, z \in Starts(t) : x < y /\ y < z /\ z < b
      /\ \A d \in DOMAIN t : FirstAt(t, d, Default) =>
           \E m \in DOMAIN t :
             /\ Follows(t, d + 6, m) /\ At(t, m, Default)
             /\ \E g, h \in DOMAIN t :
                  /\ Follows(t, m + 6, g) /\ WordAt(t, g, h)
                  /\ \E b, e \in DOMAIN t :
                       /\ Follows(t, h, b) /\ WordAt(t, b, e)
                       /\ \/ c.column = <<b, e>> /\ Dotted(SubSeq(t, b, e))
                          \/ NoAddressAt(t, b)

ASSUME ColumnsAssumption ==
  \A c \in Commands :
    IF c.system = "Linux" THEN LineIsLabelled(c) ELSE TableIsLabelled(c)
-----------------------------------------------------------------------------
LookupTypeOK ==
  /\ TypeOK
  /\ stage \in {"asking", "named", "reading", "read", "parsing", "sizing", "resizing",
                "filling", "searching", "zeros", "out_of_range", "found"}
  /\ seen \in Seq(Characters)
  /\ adapters \in Adapters \cup {<<>>}
  /\ required_size \in Nat /\ live \in Nat
  /\ default_mac \in Seq(UInt8)

Parsed == stage = "parsing" /\ parsing = "returned"

(* Of the interface's column, what was read of the output has this.        *)
ColumnRead ==
  SubSeq(command.text, command.column[1],
         IF command.column[2] < Len(seen) THEN command.column[2] ELSE Len(seen))

FirstSix(mac) == SubSeq(mac, 1, 6)

(* An address is never taken from another column, device or adapter than   *)
(* the default interface's, however the output is cut, the line is laid    *)
(* out or the adapters change: on Linux it is that device's own, on        *)
(* Windows the text in the interface's column as far as it was read, and   *)
(* the MAC is of an adapter with that address.  (A first piece that ends   *)
(* inside the column gives a shorter address, and no error.)               *)
AddressIsTheInterfaces ==
  /\ Parsed /\ command.system = "Linux" =>
       /\ command.column # <<>>
       /\ \E d \in Devices :
            /\ d.name = ColumnRead
            /\ addr = IF wanted = "IPv4" THEN d.ipv4 ELSE FirstSix(d.mac)
  /\ (Parsed \/ stage = "found") /\ command.system = "Windows" =>
       /\ command.column # <<>>
       /\ text = ColumnRead
       /\ stage = "found" =>
            \E k \in DOMAIN adapters :
              ColumnRead \in adapters[k].ips /\ adapters[k].mac = default_mac

Ended ==
  \/ stage \in {"zeros", "out_of_range", "found"}
  \/ stage = "parsing" /\ parsing \in {"returned", "invalid_argument"} /\ ~HasAddress

(* The adapter list is freed once on every way out, the failures and the   *)
(* calls that find the adapters changed among them, and never while it is  *)
(* still used.                                                             *)
MemoryIsFreedOnce ==
  /\ live \in {0, 1}
  /\ Ended => live = 0
  /\ stage \in {"filling", "searching"} => live = 1

(* A lookup ends, although adapters may come and go all the time: it asks  *)
(* for them twice and no more.  The one thing it waits for without limit   *)
(* is the first byte that route.exe prints.                                *)
LookupEnds ==
  stage = "asking" /\ command.text # <<>> ~> Ended
=============================================================================
