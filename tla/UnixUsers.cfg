SPECIFICATION Spec
CONSTANTS
  MAXFILE = 2
  SECSIZE = 1
  MaxRec = 1
  Capacity = 1
  Users = {0, 1}
  Files = {"f", "g"}
  Devices = {4}
  Lens = {2}
  Byte = {1}
  CPMETX = 26
  Modes = {0, 2}
  Actions = {"handler"}
INVARIANTS
  UserRestored
  NoSlotLost
  SavedElsewhere
CHECK_DEADLOCK FALSE
