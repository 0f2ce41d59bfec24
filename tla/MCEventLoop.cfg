SPECIFICATION FairSpec
CONSTANTS
  EventFds = {0}
  DeviceFds = {1, 2}
  MaxHotplugs = 3
  MaxOrphans = 2
INVARIANTS WatchedIsPolled LatePollRunsForever
PROPERTIES  ShutdownEnds
CHECK_DEADLOCK FALSE
