CONSTANTS
  Packets <- MCPackets
  Datagrams <- MCDatagrams
SPECIFICATION CodecSpec
CHECK_DEADLOCK FALSE
INVARIANTS
  StaysInHeader
  OptionsDisjoint
  LengthFieldMatchesHeader
  WrappedLengthIsVisible
  RoundTripWhenPadded
  AcceptedFieldsAreGenuine
  OptionsAreAPrefix
  NoLengthError
PROPERTIES
  LoopAdvances
  EveryDeliveryIsAnswered
