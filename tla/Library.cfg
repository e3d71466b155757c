SPECIFICATION Spec
CONSTANTS
  WORD = 8
  EXP = 6
  LastYear = 140
  Words <- MCWords
  Fields <- MCFields
  Longs <- MCLongs
  Mantissas <- MCMantissas
  Exponents <- MCExponents
  Days <- MCDays
  Times <- MCTimes
  Zones = {0, 300}
  Strings <- MCStrings
  Keys = {0, 1, 2}
  MaxSize = 6
  Items <- MCItems
  MaxItems = 4
  Spacing <- MCSpacing
  MAXARGS = 6
  Directory <- MCDirectory
  Name <- MCName
INVARIANTS
  RoutinesRight
  FloatsRight
  DatesRight
  TextsRight
CHECK_DEADLOCK FALSE
