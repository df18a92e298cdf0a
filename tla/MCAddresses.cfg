CONSTANTS
  Printable <- MCPrintable
  Texts <- MCTexts
  Commands <- MCCommands
  Devices <- MCDevices
  Adapters <- MCAdapters
  BufSize <- MCBufSize
  IFNAMSIZ <- MCIFNAMSIZ
  ChunkSize <- MCChunkSize
SPECIFICATION LookupSpec
CHECK_DEADLOCK FALSE
INVARIANTS
  PrintedReadsBack
  StaysInText
  DigitsAreTheAddress
  AddressIsTheInterfaces
  MemoryIsFreedOnce
PROPERTIES
  LookupEnds
