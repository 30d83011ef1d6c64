SPECIFICATION FairWarcSpec
CONSTANTS
  NumStreams = 4
  Parallelism = 2
  Bodies <- RecordBodies
  BatchSize = 2
  MaxBatchBody = 3
  MaxBody = 8
INVARIANTS BatchLimits RecordsKept ScanComplete
PROPERTIES ScanEnds
CHECK_DEADLOCK FALSE
