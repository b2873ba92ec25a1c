SPECIFICATION Spec
CONSTANTS
  Files = {f1, f2}
  Corrupt = {}
  Slots = {k1, k2, k3}
  MaxFd = 2
  MaxRefs = 2
SYMMETRY SlotSymmetry
INVARIANTS TypeOK ReadsOwnFile DictionaryReads CountsExact AllClosed
PROPERTIES OthersKept
CHECK_DEADLOCK FALSE
