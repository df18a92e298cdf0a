CONSTANTS
  Radix <- MCRadix
  MaxLen <- MCMaxLen
  SizeRange <- MCSizeRange
  LengthCodes <- MCLengthCodes
  Unit <- MCUnit
  MinHeader <- MCMinHeader
SPECIFICATION FieldSpec
CHECK_DEADLOCK FALSE
INVARIANTS
  AcceptsWhatWasBuilt
  RejectsDamage
