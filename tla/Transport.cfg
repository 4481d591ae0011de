SPECIFICATION FairSpec
CONSTANTS
  SEND_QUEUE_SIZE = 2
  MaxResults = 5
CHECK_DEADLOCK FALSE
INVARIANTS Inv WireInOrder
PROPERTIES QueuedIsWritten ShutdownCompletes
