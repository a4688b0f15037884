SPECIFICATION Spec
CONSTANTS
  BufSize = 4
  Wrap = 256
  PacketSizes = {4}
  Records = "split"
  MaxRecord = 4
  MaxStream = 4
  MaxConns = 1
INVARIANT CountsBytesRead
CHECK_DEADLOCK FALSE
