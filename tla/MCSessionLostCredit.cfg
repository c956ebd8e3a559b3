SPECIFICATION FairSpec
CONSTANTS
  WINDOW = 8
  ACK_RETAIN_WINDOW = 8
  STREAM_WINDOW = 8
  DEFAULT_WINDOW = 1
  CHUNK = 1
  MAX_STREAMS = 2
  MAX_DATAGRAM_SIZE = 1
  MAX_DATAGRAM_QUEUE = 1
  OPENS <- OneClientStream
  PRIORITIES = {4}
  WRITERS <- ClientWrites
  MAX_BYTES = 1
  WRITE_SIZES = {1}
  READ_SIZES = {8}
  DATAGRAM_SIZES = {}
  EXTRAS = {"Ping"}
  MAX_EXTRA <- TwoExtra
  FORGETFUL = TRUE
  FAIR_NUMBERS = {0, 1, 2}
PROPERTIES
  CreditReturns
CHECK_DEADLOCK FALSE
