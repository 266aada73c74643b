SPECIFICATION FairSpec
CONSTANTS
  ObjNum = 2
  SeqMod = 4
  Wrap = 16
  MaxFrames = 6
  MaxAsyncFails = 1
  MaxSyncFails = 0
PROPERTY PendingTefReleased
CHECK_DEADLOCK FALSE
