SPECIFICATION FairSpec
CONSTANTS
  Worker = {w1}
  MaxTasks = 1
PROPERTY ShutdownEnds
CHECK_DEADLOCK FALSE
