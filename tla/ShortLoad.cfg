SPECIFICATION ShardSpec
CONSTANTS
  Strings <- MCStrings
  StrLen <- MCStrLen
  Contents <- MCContents
  SizeOf <- MCSizeOf
  Plain <- MCPlain
  Zlib <- MCZlib
  Internal <- MCInternal
  METADATA <- sMetadata
  DATA <- sData
  GIO_BUFFER = 16
  Threads = {t1}
  Requests <- CompressedRequest
  HexNames <- MCHexNames
  HexToRaw <- MCHexToRaw
  UINT_MOD = 65536
  UINT8_MOD = 256
  MaxBlobs = 2
  MaxRecords = 1
  MaxAttach = 2
INVARIANTS ContentsWhole
CHECK_DEADLOCK FALSE
