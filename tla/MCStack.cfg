CONSTANTS
  Radix <- MCRadix
  DataSizes <- MCDataSizes
  ARPs <- MCARPs
  Clocks <- MCClocks
  Day <- MCDay
  MaxLayers <- MCMaxLayers
  MinFrame <- MCMinFrame
  Cuts <- MCCuts
SPECIFICATION Spec
CHECK_DEADLOCK FALSE
INVARIANTS
  ARPReadsBack
  TimestampNamesTheInstant
PROPERTIES
  ImplementsChannel
  NothingIsMadeUp
