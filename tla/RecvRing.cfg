SPECIFICATION FairSpec
CONSTANTS
  Size = 6
  Header = 2
  Block = 4
  MaxField = 7
  MaxStream = 13
INVARIANTS InsideMapping Unparsed NeverOverflows
PROPERTIES PacketsComeOut EveryPacketComesOut
CHECK_DEADLOCK FALSE
