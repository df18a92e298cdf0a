CONSTANTS
  Radix <- MCRadix
  Period <- MCPeriod
  Messages <- MCMessages
SPECIFICATION Spec
CHECK_DEADLOCK FALSE
INVARIANTS
  ReaderStaysInName
  MessageReadsBack
PROPERTIES
  EveryBuildEnds
