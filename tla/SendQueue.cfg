SPECIFICATION Spec
CONSTANTS
  SEND_QUEUE_SIZE = 3
  Messages = {m1, m2, m3}
  Service = Service
  Reporter = Reporter
  NULL = NULL
INVARIANTS Inv
PROPERTIES FifoSpec
