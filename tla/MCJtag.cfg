SPECIFICATION Spec
CONSTANTS
  ByteBits = 3
  TxBuf = 8
  Chunk = 8
  TmsBits = 3
  IrLen = 3
  IdBytes = 2
  MaxDevices = 3
  DrLengths = {0, 1, 5, 18, 36}
  Cycles = {1, 9}
  MaxCalls = 5
INVARIANTS ShadowAgrees  AnswersAreOwn
