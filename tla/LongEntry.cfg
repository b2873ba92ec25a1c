SPECIFICATION FairSpec
CONSTANTS
  Keys = {1, 2, 3, 4}
  KeySize <- MCKeySize
  Values <- MCValues
  ValueSize <- MCValueSize
  EntryCounts = {2}
  MaxEntries = 2
  CHUNK = 6
  N_BITS = 7
  N_HASHES = 2
  fnv_1a <- MCHash
  fnv_1a_b <- MCStep
  UINT32_MOD = 11
  Tails <- MCShortTails
  NoValue = NoValue
PROPERTIES LookupEnds
CHECK_DEADLOCK FALSE
