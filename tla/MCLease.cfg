SPECIFICATION Spec
CONSTANTS
  num_workers = 2
  chunk_size = 2
  MaxLeases = 2
  Leases <- ShrinkingLeases
  FixedPoints <- MCFixedPoints
  MidLease = TRUE
CHECK_DEADLOCK FALSE
INVARIANTS IInv TotalIsCount TotalBounded
INVARIANTS ReportSelfConsistent FirstReportReplays IdleMeansExhausted
PROPERTIES ReportsIncrease BestOnlyImproves
