SPECIFICATION FairSpec
CONSTANTS
  Keys = {1, 2, 3}
  Regs = {"r1", "r2"}
  Wire <- MCWire
  WatchList <- MCWatchList
  Base = 2
  Values = {0, 2}
  MaxPacket = 1
  MaxWords = 2
  MaxBehind = 1
  MaxOwed = 0
  MaxFaults = 1
INVARIANTS OwnAnswerIffClean OwedIsKept EventsAreTrue PacketsAreWhole
PROPERTY TrackedCatchesUp
