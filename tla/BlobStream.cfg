SPECIFICATION Spec
CONSTANTS
  GSIZE_MOD = 16
  Sizes = {0, 1, 4, 7}
  Counts = {0, 1, 3, 15}
INVARIANTS TypeOK PosInBlob OnlyThisBlob
PROPERTIES ImplementsStream
CHECK_DEADLOCK FALSE
