CONSTANTS
  Packets <- MCPackets
  Segments <- MCSegments
SPECIFICATION CodecSpec
CHECK_DEADLOCK FALSE
INVARIANTS
  OptionsComeBack
