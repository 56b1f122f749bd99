SPECIFICATION Spec
CONSTANTS
  Worker = {w1}
  Main = main
  Slot = {s1}
  NoSlot = NoSlot
  MaxAccept = 1
  MaxNest = 2
  Faults = {}
INVARIANT ServerStaysUp
CHECK_DEADLOCK FALSE
