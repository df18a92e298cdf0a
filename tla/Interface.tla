----------------------------- MODULE Interface -----------------------------
(***************************************************************************)
(* The default interface, as the constructors see it (src/utils.cpp).      *)
(*   Linux    getDefaultInterfaceName runs `ip route list` through popen,  *)
(*            getDefaultInterfaceIPv4Address asks a socket, which is never *)
(*            closed, for the address of the interface, and                *)
(*            getDefaultInterfaceMAC reads it from /sys.  Each needs file  *)
(*            descriptors.                                                 *)
(*   Windows  the address is looked for in the output of route.exe, and    *)
(*            the MAC in the list of adapters, under that address.         *)
(*                                                                         *)
(* An address, IPv4 or MAC, is the host it names, or Unset, all zeros.     *)
(***************************************************************************)
EXTENDS Integers

CONSTANTS
  Hosts,
  Targets,    \* those that packets and frames are addressed to
  Self,       \* the host the program runs on
  Unset,      \* 0.0.0.0 and 00:00:00:00:00:00
  Routes,     \* what the default route may be: see RouteKinds
  FdLimit     \* descriptors the process may still open (Linux)

RouteKinds ==
  {"up",          \* through an interface with an IPv4 and a MAC address
   "no address",  \* through one without an IPv4 address
   "tunnel",      \* through one without a MAC: its address is empty
   "loopback",    \* through one whose MAC address is all zeros
   "none",        \* no route, or a first line that names no device
   "failing"}     \* a call of the lookup fails: popen, CreateProcess, ReadFile,
                  \* malloc or GetAdaptersInfo

ASSUME InterfaceAssumption ==
  /\ Self \in Hosts
  /\ Targets \subseteq Hosts
  /\ Unset \notin Hosts
  /\ Routes \subseteq RouteKinds
  /\ FdLimit \in Nat

VARIABLES
  platform,  \* what the library was built for (#ifdef WIN32)
  route,
  fds        \* descriptors opened and not closed

interfaceVars == <<platform, route, fds>>

Platforms == {"Linux", "Windows"}

Addresses == Hosts \cup {Unset}

InterfaceInit ==
  /\ platform \in Platforms
  /\ route \in Routes
  /\ fds = 0

InterfaceTypeOK ==
  /\ platform \in Platforms
  /\ route \in Routes
  /\ fds \in 0 .. FdLimit

(* getDefaultInterfaceName: popen opens a pipe, two descriptors, which     *)
(* pclose gives back.                                                      *)
NameFound == route \notin {"none", "failing"} /\ fds + 2 <= FdLimit

HasIPv4(r) == r \in {"up", "tunnel", "loopback"}

(* Where Windows has no route, the text that is taken for its address is   *)
(* none, and substr or strToIpv4Addr throws (DefaultInterface.tla).        *)
IPv4Throws == platform = "Windows" /\ ~HasIPv4(route) /\ route # "failing"

AddressFound == (platform = "Linux" => NameFound) /\ HasIPv4(route)

(* Mutant: the result of ioctl is tested the wrong way round               *)
DefaultIPv4_Inverted ==
  IF platform = "Linux" /\ NameFound /\ ~HasIPv4(route) THEN Self ELSE Unset

(* getDefaultInterfaceIPv4Address, unless it throws: 0.0.0.0 when a call   *)
(* fails                                                                   *)
DefaultIPv4 == IF AddressFound THEN Self ELSE Unset

(* ... whose socket, opened even without a name, stays open                *)
LeakSocket ==
  fds' = IF platform = "Linux" /\ fds < FdLimit THEN fds + 1 ELSE fds

(* Mutant: on Linux, too, the MAC of an interface that is not found is     *)
(* all zeros                                                               *)
MACThrows_OnWindows == IPv4Throws

(* getDefaultInterfaceMAC: on Linux strToMacAddr("") throws when the file  *)
(* cannot be opened or is empty, on Windows only the address it begins     *)
(* with does.                                                              *)
MACThrows ==
  IF platform = "Linux" THEN ~NameFound \/ route = "tunnel" ELSE IPv4Throws

(* ... otherwise zeros on Windows where a call fails, no adapter has the   *)
(* address, or the one that has it has no MAC address of six bytes         *)
DefaultMAC == IF route \in {"up", "no address"} THEN Self ELSE Unset

(* The environment: the route comes and goes between two calls, and calls  *)
(* fail.                                                                   *)
RouteChange ==
  /\ route' \in Routes \ {route}
  /\ UNCHANGED <<platform, fds>>
=============================================================================
