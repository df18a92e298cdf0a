CONSTANTS
  Radix <- MCRadix
  MaxLen <- MCMaxLen
  SizeRange <- MCSizeRange
SPECIFICATION Spec
CHECK_DEADLOCK FALSE

  
PROPERTIES
  NoCarryLost
  ImplementsOnesComplementSum
  Returns
