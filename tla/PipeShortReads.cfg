CONSTANTS
  CHUNK_SIZE = 2
  FLOAT_BYTES = 2
  MSG_BYTES = 2
  RECV_CAP = 4
  Sample <- MCSample
  Garbage = Garbage
  ShortReads = TRUE
  Lengths = {0, 1, 2, 3, 4, 5}
  Buffers <- MCBuffers
SPECIFICATION Spec
INVARIANTS TypeOK LeftIsPrefix ChannelsApart NothingInvented
CHECK_DEADLOCK FALSE
