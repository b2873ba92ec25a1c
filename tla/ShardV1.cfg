SPECIFICATION ShardSpec
CONSTANTS
  Strings <- MCStrings
  StrLen <- MCStrLen
  Contents <- MCContents
  SizeOf <- MCSizeOf
  Plain <- MCPlain
  Zlib <- MCZlib
  GIO_BUFFER = 4096
  METADATA = METADATA
  DATA = DATA
  Sources <- MCSources
  Versions <- MCVersions
  Chunks <- MCChunks
  Pieces <- MCPieces
  HexNames <- MCHexNames
  HexToRaw <- MCHexToRaw
  Types <- MCTypes
  UNTYPED = 0
  Requests <- MCRequests
  INT_MOD = 65536
  UINT64_MOD = 1048576
  MaxRecords = 2
  MaxSet = 2
  MaxEdits = 1
  MaxWrites = 2
INVARIANTS TypeOK OldReadersSafe ListsComplete BlobsLoad
PROPERTIES ImplementsRecordArchive HeaderFits
CHECK_DEADLOCK FALSE
