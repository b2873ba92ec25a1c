SPECIFICATION Spec
CONSTANTS
  Files = {f1, f2}
  Corrupt = {f2}
  Slots = {k1, k2}
  MaxFd = 3
  MaxRefs = 2
INVARIANTS ReadsOwnFile
CHECK_DEADLOCK FALSE
