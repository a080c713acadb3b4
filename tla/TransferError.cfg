SPECIFICATION Spec
CONSTANTS
  f1 = f1
  f2 = f2
  File = {f1}
  OtherName = OtherName
  MaxCommands = 2
CHECK_DEADLOCK FALSE
PROPERTIES ErrorOnlyWhenMissing
