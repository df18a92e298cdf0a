CONSTANTS
  self = self
  peer = peer
  zero = zero
  Hosts <- MCHosts
  Targets <- MCTargets
  Self = self
  Unset = zero
  Routes <- MCRoutes
  FdLimit <- MCFdLimit
  MaxOps <- MCMaxOps
SPECIFICATION FrameSpec
INVARIANTS
  HeadersDescribeContents
