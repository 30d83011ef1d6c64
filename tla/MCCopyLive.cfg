SPECIFICATION FairCopySpec
CONSTANTS
  Finish = Finish
  Ordered = Ordered
  Threads = {t1, t2}
  Writers = {t1, t2, Ordered}
  Batches = {1, 2}
  NumChunks = 2
  BatchSize = 2
  LocalPath = TRUE
  Foreign = {}
  Mode = "overwrite"
  NumIndexes = 1
PROPERTIES CopyEnds
