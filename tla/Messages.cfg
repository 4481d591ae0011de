SPECIFICATION MessagesSpec
CONSTANTS
  LOG_LINES = 3
  Loggers = {service, reporter}
  Service = service
  Screen = screen
  Nobody = nobody
  MaxLines = 6
  MaxMessages = 4
CHECK_DEADLOCK FALSE
INVARIANTS Inv ScreenAgrees
