SPECIFICATION FairSpec
CONSTANTS
  Users = {0, 1}
  Homes = {1}
  Programs = {"prog"}
  Temps = {"temp"}
  Codes = {0, 1, 2, 3, 4, 5, 6, 7, 8, 9, 10, 11, 24}
  MaxCommands = 4
  MaxTail = 3
  Found = {TRUE}
  Wanders = FALSE
INVARIANTS
  TypeOK
  VectorOK
PROPERTIES
  OwnUserOnly
  Ends
  ImplementsScript
CHECK_DEADLOCK FALSE
