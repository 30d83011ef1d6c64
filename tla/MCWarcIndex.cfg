SPECIFICATION IndexSpec
CONSTANTS
  Offsets <- SmallOffsets
  Lengths <- SmallLengths
  MaxU64 = 5
  Parallelisms = {1, 2, 3}
  MaxEntries = 4
INVARIANTS IndexTypeOK UnitsCover OverlapsRejected UnitsBalanced
CHECK_DEADLOCK FALSE
