SPECIFICATION Spec
CONSTANTS
  Finish = Finish
  Writers = {w1, w2}
  Batches = {b1, b2}
  Foreign = {f1}
  Mode = "append"
  NumIndexes = 1
SYMMETRY WriteSymmetry
INVARIANTS TypeOK CommittedWhole PublishedExactly OneOperation NoOrphanTask
PROPERTIES DestinationKept MergedFrozen
CHECK_DEADLOCK FALSE
