SPECIFICATION FairSpec
CONSTANTS
  Worker = {w1}
  Main = main
  Slot = {s1}
  NoSlot = NoSlot
  MaxAccept = 1
  MaxNest = 2
  Faults = {"acceptError"}
PROPERTY DisconnectCompletes
CHECK_DEADLOCK FALSE
