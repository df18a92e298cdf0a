CONSTANTS
  Packets <- MCPackets
  Segments <- MCSegments
SPECIFICATION CodecSpec
CHECK_DEADLOCK FALSE
INVARIANTS
  OffsetMatchesHeader
  StaysInHeader
  OptionsDisjoint
  PayloadSurvives
  OptionsWithLengthComeBack
PROPERTIES
  EveryDeliveryIsAnswered
