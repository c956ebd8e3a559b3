SPECIFICATION Spec
CONSTANTS
  WINDOW = 8
  ACK_RETAIN_WINDOW = 8
  STREAM_WINDOW = 8
  DEFAULT_WINDOW = 8
  CHUNK = 2
  MAX_STREAMS = 2
  MAX_DATAGRAM_SIZE = 1
  MAX_DATAGRAM_QUEUE = 1
  OPENS <- TwoClientStreams
  PRIORITIES = {4}
  WRITERS <- ClientWritesBoth
  MAX_BYTES = 1
  WRITE_SIZES = {1}
  READ_SIZES = {8}
  DATAGRAM_SIZES = {}
  EXTRAS = {}
  MAX_EXTRA <- NoExtra
  FORGETFUL = FALSE
  FAIR_NUMBERS = {}
INVARIANTS
  NothingForgotten
PROPERTIES
  ImplementsByteStream
CHECK_DEADLOCK FALSE
