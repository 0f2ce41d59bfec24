SPECIFICATION Spec
CONSTANTS
  Keys = {1, 2}
  Regs = {"r1", "r2"}
  Wire <- MCWire
  WatchList <- MCWatchList
  Base = 2
  Values = {1}
  MaxPacket = 1
  MaxWords = 1
  MaxBehind = 0
  MaxOwed = 0
  MaxFaults = 1
INVARIANT NullIsReported
