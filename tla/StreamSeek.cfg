SPECIFICATION Spec
CONSTANTS
  SECSIZE = 2
  BUFSIZ = 3
  MaxPos = 4
  Chars = {10}
  Preset <- Files
  Streams = {"closed", "stdout", "stderr"}
  Modes <- AllModes
  Buffering = {"LBF", "FBF", "NBF"}
  Interrupts = {0}
  Careless = {"seekend"}
INVARIANT SeekAccountsForBuffer
CHECK_DEADLOCK FALSE
