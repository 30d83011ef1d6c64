SPECIFICATION MetricsSpec
CONSTANTS
  a = a
  b = b
  c = c
  Objects <- ThreeFiles
  Sizes <- FileSizes
  Threads = {t1, t2}
  MaxReports = 2
INVARIANTS ReportedOnce NothingUnreported EstimateExact ProgressBounded
SYMMETRY Symmetry
CHECK_DEADLOCK FALSE
