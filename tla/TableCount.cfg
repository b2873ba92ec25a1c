SPECIFICATION Spec
CONSTANTS
  Strings <- MCStrings
  StrLen <- MCStrLen
  Contents <- MCContents
  SizeOf <- MCSizeOf
  Plain <- MCPlain
  Zlib <- MCZlib
  Threads = {t1}
  Requests <- RacingRequests
  HexNames <- MCHexNames
  HexToRaw <- MCHexToRaw
  UINT_MOD = 65536
  UINT8_MOD = 2
  MaxBlobs = 3
  MaxRecords = 1
  MaxAttach = 2
INVARIANTS CountsKept
CHECK_DEADLOCK FALSE
