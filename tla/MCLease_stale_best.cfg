SPECIFICATION Spec
CONSTANTS
  num_workers = 2
  chunk_size = 1
  MaxLeases = 2
  Leases <- EqualLeases
  FixedPoints <- MCFixedPoints
  MidLease = FALSE
CHECK_DEADLOCK FALSE
INVARIANTS ReportReplays
