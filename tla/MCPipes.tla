------------------------------ MODULE MCPipes ------------------------------
(* FramePipe.tla on either platform, with this host and another one that   *)
(* it writes to, and descriptors for one lookup of an address.  "no        *)
(* address" is left out: packets see it as "none", and frames as "up".     *)
EXTENDS FramePipe

CONSTANTS self, peer, zero

MCHosts == {self, peer}
MCTargets == {peer}
MCRoutes == RouteKinds \ {"no address"}
MCFdLimit == 2
MCMaxOps == 5
=============================================================================
