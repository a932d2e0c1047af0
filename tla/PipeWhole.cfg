CONSTANTS
  CHUNK_SIZE = 3
  FLOAT_BYTES = 2
  MSG_BYTES = 2
  RECV_CAP = 4
  Sample <- MCSample
  Garbage = Garbage
  ShortReads = FALSE
  Lengths = {1, 2, 3, 4, 5, 6, 7, 8, 10}
  Buffers <- MCBuffers
SPECIFICATION FairSpec
INVARIANTS ReturnedIsSent DrainedAtReturn
PROPERTIES ImplementsHandoff UnevenTransferCompletes
CHECK_DEADLOCK FALSE
