CONSTANTS
  Path <- Names
  Names = {"a", "b", "mono", "new"}
  Take = {"A", "B", "M"}
  StartDisk <- MCStartDisk
  NoFile = NoFile
  NotAudio = NotAudio
  NotANumber = NotANumber
  EndOfInput = EndOfInput
  InputEnds = FALSE
  Careful = FALSE
  Others = {}
SPECIFICATION Spec
INVARIANTS HeaderTruthful
CHECK_DEADLOCK FALSE
