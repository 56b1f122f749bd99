SPECIFICATION Spec
CONSTANTS
  Worker = {w1, w2}
  Main = main
  Slot = {s1}
  NoSlot = NoSlot
  MaxAccept = 1
  MaxNest = 2
  Faults = {"ioError"}
PROPERTY SessionsAreReadWhole
CHECK_DEADLOCK FALSE
