CONSTANTS
  ForceQuitAt = 3
SPECIFICATION FairSpec
INVARIANTS NoContainerLeft LoopReleased
PROPERTIES KeepsPromise SessionEnds
CHECK_DEADLOCK FALSE
