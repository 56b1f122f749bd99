SPECIFICATION FairSpec
CONSTANTS
  Worker = {w1, w2}
  Main = main
  Slot = {s1}
  NoSlot = NoSlot
  MaxAccept = 3
  MaxNest = 2
  Faults = {"sockopt", "recvPost", "sendPost", "ioError"}
INVARIANTS PendingAcceptsExact NotDeaf NobodyStranded
PROPERTIES DisconnectCompletes AcceptsResume
CHECK_DEADLOCK FALSE
