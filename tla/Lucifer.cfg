SPECIFICATION FairSpec
CONSTANTS
  Data = {0, 19}
  Stacks = {4}
  Keys = {19, 20}
  LineSizes = {2}
  Jumps = {TRUE, FALSE}
  Gaps = {}
INVARIANTS
  Agreement
  PromptOutstanding
PROPERTIES
  Responds
  ImplementsDebugger
CHECK_DEADLOCK FALSE
