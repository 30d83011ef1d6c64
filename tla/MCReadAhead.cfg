SPECIFICATION FairReadSpec
CONSTANTS
  NumStreams = 4
  Parallelism = 2
  Sizes <- BatchSizes
  ReadAheadSizes = {0, 2, 7}
  MaxPermits = 5
INVARIANTS BudgetKept NeverStarved InFlightBounded InSourceOrder NeverTruncated
PROPERTIES ScanEnds
CHECK_DEADLOCK FALSE
