SPECIFICATION Spec
CONSTANTS
  Strings <- MCStrings
  StrLen <- MCStrLen
  Contents <- MCContents
  SizeOf <- MCSizeOf
  Plain <- MCPlain
  Zlib <- MCZlib
  Threads = {t1, t2, t3}
  Requests <- RacingRequests
  HexNames <- MCHexNames
  HexToRaw <- MCHexToRaw
  UINT_MOD = 65536
  UINT8_MOD = 256
  MaxBlobs = 3
  MaxRecords = 1
  MaxAttach = 1
SYMMETRY ThreadSymmetry
INVARIANTS TypeOK DataIntact SharedOffset
PROPERTIES WriteOnce
CHECK_DEADLOCK FALSE
