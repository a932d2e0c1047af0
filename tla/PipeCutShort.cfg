CONSTANTS
  CHUNK_SIZE = 2
  FLOAT_BYTES = 2
  MSG_BYTES = 2
  RECV_CAP = 4
  Sample <- MCSample
  Garbage = Garbage
  ShortReads = TRUE
  Lengths = {1, 2}
  Buffers <- MCBuffers
SPECIFICATION Spec
INVARIANTS ReturnedIsSent
CHECK_DEADLOCK FALSE
