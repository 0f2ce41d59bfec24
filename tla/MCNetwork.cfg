SPECIFICATION FairSpec
CONSTANTS
  Conns = {c1, c2}
  NoConn = NoConn
  MsgSize = 2
  MaxSends = 2
INVARIANTS OneWriter NoStall StreamInOrder
PROPERTIES NothingIsKept SentIsDelivered
CHECK_DEADLOCK FALSE
