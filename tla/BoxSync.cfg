SPECIFICATION FairSpec
CONSTANTS
  b1 = b1
  b2 = b2
  f1 = f1
  f2 = f2
  Box = {b1, b2}
  File = {f1, f2}
  Before <- Apart
  Stored <- OnServer
  MaxActs = 2
  MaxAhead = 1
CHECK_DEADLOCK FALSE
INVARIANTS
  TypeOK
  Invariant
  Converges
  MisnamedOnlyWhenTyped
  PushedByOthers
PROPERTIES
  PropagationEnds
  ThreadsFinish
