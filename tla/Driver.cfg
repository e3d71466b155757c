SPECIFICATION Spec
CONSTANTS
  Bases = {"a", "b"}
  Kinds = {"c", "as", "obj"}
  Options = {"-S", "-C", "-Cpm", "-Cr", "-Crname", "-O", "-Oname", "-Oname.bin", "-G", "-A", "-Abad", "-V", "-D", "-F", "-Lname", "-?"}
  MaxArgs = 4
  MaxLine = 7
  Wordy = {"optim", "cref"}
INVARIANTS
  SuccessMeansDone
  TempsGone
  RightInput
PROPERTIES
  ImplementsBuild
CHECK_DEADLOCK FALSE
