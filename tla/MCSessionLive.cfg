SPECIFICATION FairSpec
CONSTANTS
  WINDOW = 8
  ACK_RETAIN_WINDOW = 8
  STREAM_WINDOW = 8
  DEFAULT_WINDOW = 8
  CHUNK = 1
  MAX_STREAMS = 2
  MAX_DATAGRAM_SIZE = 1
  MAX_DATAGRAM_QUEUE = 1
  OPENS <- OneClientStream
  PRIORITIES = {4}
  WRITERS <- ClientWrites
  MAX_BYTES = 2
  WRITE_SIZES = {2}
  READ_SIZES = {8}
  DATAGRAM_SIZES = {}
  EXTRAS = {}
  MAX_EXTRA <- NoExtra
  FORGETFUL = TRUE
  FAIR_NUMBERS = {0, 1, 2}
PROPERTIES
  WrittenIsDelivered
CHECK_DEADLOCK FALSE
