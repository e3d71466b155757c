SPECIFICATION FairSpec
CONSTANTS
  SECSIZE = 2
  BUFSIZ = 3
  MaxPos = 4
  Chars = {1, 10}
  Preset <- Files
  Streams = {"closed", "stdout", "stderr"}
  Modes <- MostModes
  Buffering = {"LBF", "FBF", "NBF"}
  Interrupts = {0}
  Careless = {}
INVARIANTS
  TypeOK
  GetReturnsNext
  SeekEndIsEnd
  LinesFlushed
PROPERTIES
  CallEnds
  ImplementsCharFile
CHECK_DEADLOCK FALSE
