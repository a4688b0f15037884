SPECIFICATION Spec
CONSTANTS
  BufSize = 6
  Wrap = 16
  PacketSizes = {2, 3, 4}
  Records = "whole"
  MaxRecord = 6
  MaxStream = 8
  MaxConns = 2
INVARIANTS TypeOK StreamFaithful BufferHoldsUnread WaitsBetweenPackets
PROPERTY StreamSpec
CHECK_DEADLOCK FALSE
