SPECIFICATION Spec
CONSTANTS
  MAXFILE = 2
  SECSIZE = 2
  MaxRec = 2
  Capacity = 2
  Users = {0}
  Files = {"f"}
  Devices = {4}
  Lens = {1, 3}
  Byte = {1}
  CPMETX = 26
  Modes = {0, 2}
  Actions = {"handler"}
INVARIANT ExitSavesAll
CHECK_DEADLOCK FALSE
