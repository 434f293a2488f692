CONSTANTS
  ForceQuitAt = 3
SPECIFICATION FairSpec
INVARIANTS GoneWhenOver ReportsTruly
PROPERTIES KeepsPromise SessionEnds MountedIsKilled
CHECK_DEADLOCK FALSE
