CONSTANTS
  Capacity = 2
  Pipe = 3
  Chatter = 4
SPECIFICATION ConsoleFairSpec
INVARIANTS ReportsTheScript
PROPERTIES Resynchronizes
CHECK_DEADLOCK FALSE
