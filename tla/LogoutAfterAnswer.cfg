SPECIFICATION PacketSpec
CONSTANTS
  Worker = {w1, packet}
  Main = main
  Slot = {s1}
  NoSlot = NoSlot
  MaxAccept = 2
  MaxNest = 2
  Faults = {}
  Packet = packet
  Kinds = {"login", "logout"}
  MaxTasks = 2
INVARIANT LookUpFindsSession
CHECK_DEADLOCK FALSE
