CONSTANTS
  CHUNK_SIZE = 3
  FLOAT_BYTES = 2
  MSG_BYTES = 2
  RECV_CAP = 4
  Sample <- MCSample
  Garbage = Garbage
  ShortReads = FALSE
  Lengths = {2, 3}
  Buffers <- MCBuffers
SPECIFICATION FairSpec
PROPERTIES TransferCompletes
CHECK_DEADLOCK FALSE
