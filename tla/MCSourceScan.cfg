SPECIFICATION SourceSpec
CONSTANTS
  NumColumns = 3
  NumBatches = 2
  MaxReadParallelism = 2
  NoContents = NoContents
  WarcNames = {"a.warc", "b.warc", "c.warc"}
  Spelling <- LongNames
  Scans = {s1, s2}
  Requests <- ColumnLists
  Sources <- SmallSources
  Contents <- SmallContents
INVARIANTS ScanDelivers
SYMMETRY ScanSymmetry
CHECK_DEADLOCK FALSE
