SPECIFICATION PacketSpec
CONSTANTS
  Worker = {w1, packet}
  Main = main
  Slot = {s1, s2}
  NoSlot = NoSlot
  MaxAccept = 2
  MaxNest = 2
  Faults = {"sendPost"}
  Packet = packet
  Kinds = {"reply", "login", "logout", "chat"}
  MaxTasks = 1
INVARIANTS RefCountExact NobodyMuted
PROPERTIES GoesRoundTheCycle CrashesOnlyInRacesOrLogOut
CHECK_DEADLOCK FALSE
