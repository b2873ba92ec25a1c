SPECIFICATION FairSpec
CONSTANTS
  Keys = {1, 2, 3, 4}
  KeySize <- MCKeySize
  Values <- MCValues
  ValueSize <- MCValueSize
  EntryCounts = {0, 1, 2, 3, 4}
  MaxEntries = 5
  CHUNK = 10
  N_BITS = 7
  N_HASHES = 2
  fnv_1a <- MCHash
  fnv_1a_b <- MCStep
  UINT32_MOD = 11
  Tails <- MCTails
  NoValue = NoValue
INVARIANTS TypeOK NoFalseNegatives BlocksCover OnlyWhole LookupCorrect
PROPERTIES LookupEnds
CHECK_DEADLOCK FALSE
