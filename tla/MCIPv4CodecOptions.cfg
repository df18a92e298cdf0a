CONSTANTS
  Packets <- MCPackets
  Datagrams <- MCDatagrams
SPECIFICATION CodecSpec
CHECK_DEADLOCK FALSE
INVARIANTS
  OptionsComeBack
