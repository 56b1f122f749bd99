SPECIFICATION FairSpec
CONSTANTS
  Worker = {w1, w2}
  MaxTasks = 5
INVARIANTS NoStrandedTask EachOnceInOrder
PROPERTIES TasksRun ShutdownEndsIfSeen
CHECK_DEADLOCK FALSE
