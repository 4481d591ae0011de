SPECIFICATION FairSpec
CONSTANTS
  num_workers = 2
  chunk_size = 2
  MaxLeases = 2
  Leases <- TwoLeases
  FixedPoints <- MCFixedPoints
  MidLease = FALSE
CHECK_DEADLOCK FALSE
PROPERTIES WorkersPickUp ShutdownQuiesces FirstLeaseReported
