CONSTANTS
  Path <- Names
  Names = {"a", "b", "mono", "new"}
  Take = {"A", "B", "M"}
  StartDisk <- MCStartDisk
  NoFile = NoFile
  NotAudio = NotAudio
  NotANumber = NotANumber
  EndOfInput = EndOfInput
  InputEnds = TRUE
  Careful = TRUE
  Others = {"menu", "load"}
SPECIFICATION Spec
INVARIANTS TypeOK LoadedIsStereo HeaderTruthful
PROPERTIES OverwriteAsked
CHECK_DEADLOCK FALSE
