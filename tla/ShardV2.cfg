SPECIFICATION ShardSpec
CONSTANTS
  Strings <- MCStrings
  StrLen <- MCStrLen
  Contents <- MCContents
  SizeOf <- MCSizeOf
  Plain <- MCPlain
  Zlib <- MCZlib
  Internal <- MCInternal
  METADATA <- sMetadata
  DATA <- sData
  GIO_BUFFER = 4096
  Threads = {t1, t2}
  Requests <- MCRequests
  HexNames <- MCHexNames
  HexToRaw <- MCHexToRaw
  UINT_MOD = 65536
  UINT8_MOD = 256
  MaxBlobs = 2
  MaxRecords = 2
  MaxAttach = 2
INVARIANTS ListsComplete
PROPERTIES ImplementsArchive
CHECK_DEADLOCK FALSE
