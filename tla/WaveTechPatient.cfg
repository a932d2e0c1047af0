CONSTANTS
  CHUNK_SIZE = 2
  FLOAT_BYTES = 1
  MSG_BYTES = 1
  RECV_CAP = 8
  Sample <- MCSample
  Garbage = Garbage
  ShortReads = FALSE
  Buffers <- MCBuffers
  Lengths = {1, 3}
  Commands = {"load", "reverse", "stretch", "shift", "exit"}
  MaxCommands = 5
  Patience = "always"
  MayDie = {"rev"}
  MayRestart = {"rev"}
SPECIFICATION FairSpec
INVARIANTS TypeOK NobodyCrashes
PROPERTIES OneMessagePerRead ReverseReturns ExitStopsAll
CHECK_DEADLOCK FALSE
