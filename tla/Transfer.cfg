SPECIFICATION FairSpec
CONSTANTS
  f1 = f1
  f2 = f2
  File = {f1, f2}
  OtherName = OtherName
  MaxCommands = 3
CHECK_DEADLOCK FALSE
INVARIANTS TypeOK Invariant CaughtUp OutOfStepOnlyAfterTransfer AnswersLeftOver
PROPERTIES ImplementsFileStore CommandEnds ThreadEnds
