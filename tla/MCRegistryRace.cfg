CONSTANTS
  s1 = s1
  s2 = s2
  c1 = c1
  c2 = c2
  Session <- OneMount
  Client <- TwoCommands
  Crashable <- OneMount
  NoSession = NoSession
SPECIFICATION FairSpec
INVARIANTS NeverRefused
PROPERTIES CrashedIsPruned StopEnds ImplementsFairly
CHECK_DEADLOCK FALSE
