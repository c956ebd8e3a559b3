SPECIFICATION Spec
CONSTANTS
  WINDOW = 8
  ACK_RETAIN_WINDOW = 8
  STREAM_WINDOW = 8
  DEFAULT_WINDOW = 8
  CHUNK = 2
  MAX_STREAMS = 1
  MAX_DATAGRAM_SIZE = 1
  MAX_DATAGRAM_QUEUE = 1
  OPENS <- OneStreamEach
  PRIORITIES = {4}
  WRITERS <- EachWritesItsOwn
  MAX_BYTES = 1
  WRITE_SIZES = {1}
  READ_SIZES = {8}
  DATAGRAM_SIZES = {}
  EXTRAS = {}
  MAX_EXTRA <- NoExtra
  FORGETFUL = FALSE
  FAIR_NUMBERS = {}
INVARIANTS
  NothingForgotten
CHECK_DEADLOCK FALSE
