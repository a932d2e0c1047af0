CONSTANTS
  CHUNK_SIZE = 2
  FLOAT_BYTES = 1
  MSG_BYTES = 1
  RECV_CAP = 8
  Sample <- MCSample
  Garbage = Garbage
  ShortReads = FALSE
  Buffers <- MCBuffers
  Lengths = {0, 1, 2, 3}
  Commands = {"load", "reverse", "stretch", "shift", "exit"}
  MaxCommands = 5
  Patience = "none"
  MayDie = {"gui", "dsp", "rev"}
  MayRestart = {"gui", "dsp", "rev"}
SPECIFICATION Spec
INVARIANTS StreamsInStep NothingStaleAtPrompt ExitTravelsDown
PROPERTIES FileAsPromised
CHECK_DEADLOCK FALSE
