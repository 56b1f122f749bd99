SPECIFICATION Spec
CONSTANTS
  Worker = {w1, w2}
  Main = main
  Slot = {s1, s2}
  NoSlot = NoSlot
  MaxAccept = 2
  MaxNest = 2
  Faults = {"acceptSync", "acceptError", "sockopt", "recvPost", "sendPost", "ioError", "discSync", "discError"}
SYMMETRY Symmetry
INVARIANTS TypeOK RefCountExact IdleIsClean OverlappedExclusive ResetIsNotLast SendingFlag
PROPERTIES CrashesOnlyInRaces GoesRoundTheCycle
CHECK_DEADLOCK FALSE
