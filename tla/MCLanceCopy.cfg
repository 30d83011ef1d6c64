SPECIFICATION CopySpec
CONSTANTS
  Finish = Finish
  Ordered = Ordered
  Threads = {t1, t2}
  Writers = {t1, t2, Ordered}
  Batches = {1, 2, 3}
  NumChunks = 3
  BatchSize = 2
  LocalPath = TRUE
  Foreign = {f1}
  Mode = "append"
  NumIndexes = 1
SYMMETRY ThreadSymmetry
INVARIANTS CopyTypeOK NeverPartial OrderPreserved
PROPERTIES ImplementsAtomicCopy
