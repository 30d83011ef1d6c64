SPECIFICATION FairSpec
CONSTANTS
  Finish = Finish
  Writers = {w1, w2}
  Batches = {b1}
  Foreign = {}
  Mode = "overwrite"
  NumIndexes = 1
PROPERTIES CallsReturn
CHECK_DEADLOCK FALSE
