SPECIFICATION Spec
CONSTANTS
  WINDOW = 8
  ACK_RETAIN_WINDOW = 8
  STREAM_WINDOW = 8
  DEFAULT_WINDOW = 8
  CHUNK = 2
  MAX_STREAMS = 2
  MAX_DATAGRAM_SIZE = 1
  MAX_DATAGRAM_QUEUE = 1
  OPENS <- OneClientStream
  PRIORITIES = {4}
  WRITERS <- ClientWrites
  MAX_BYTES = 2
  WRITE_SIZES = {2}
  READ_SIZES = {1}
  DATAGRAM_SIZES = {}
  EXTRAS = {}
  MAX_EXTRA <- NoExtra
  FORGETFUL = FALSE
  FAIR_NUMBERS = {}
INVARIANTS
  NothingForgotten
CHECK_DEADLOCK FALSE
