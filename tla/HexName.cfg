SPECIFICATION Spec
CONSTANTS
  RAW_NAME_SIZE = 2
  HexNames <- MCHexNames
  Lookups <- MCLookups
  MaxRecords = 3
INVARIANTS FoundByName InTextOrder
CHECK_DEADLOCK FALSE
