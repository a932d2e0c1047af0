CONSTANTS
  CHUNK_SIZE = 2
  FLOAT_BYTES = 1
  MSG_BYTES = 1
  RECV_CAP = 8
  Sample <- MCSample
  Garbage = Garbage
  ShortReads = FALSE
  Buffers <- MCBuffers
  Lengths = {1}
  Commands = {"load", "reverse"}
  MaxCommands = 3
  Patience = "startup"
  MayDie = {}
  MayRestart = {}
SPECIFICATION FairSpec
PROPERTIES ReverseReturns
CHECK_DEADLOCK FALSE
