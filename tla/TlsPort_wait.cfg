SPECIFICATION Spec
CONSTANTS
  BufSize = 4
  Wrap = 256
  PacketSizes = {2}
  Records = "whole"
  MaxRecord = 4
  MaxStream = 4
  MaxConns = 1
INVARIANT NobodyWaitsInVain
CHECK_DEADLOCK FALSE
