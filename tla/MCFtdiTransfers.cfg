SPECIFICATION FairSpec
CONSTANTS
  PacketSize = 4
  Chunk = 12
  WriteChunk = 2
  ReadSizes = {1, 4}
  WriteSizes = {3}
  Writers = {w1}
  MaxBytes = 6
  MaxFaults = 2
INVARIANTS DataInOrder InFlightIffOpen
PROPERTY CallsReturn
