SPECIFICATION AtifSpec
CONSTANTS
  NoSource = NoSource
  Documents <- SmallDocuments
  Media <- SmallMedia
  Targets <- SmallTargets
  ReadBatchSize = 2
  Cores = 2
  MaxVersions = 3
INVARIANTS MediaComplete TotalsCover
CHECK_DEADLOCK FALSE
