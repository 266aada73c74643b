SPECIFICATION Spec
CONSTANTS
  ObjNum = 2
  SeqMod = 4
  Wrap = 8
  MaxFrames = 10
  MaxAsyncFails = 0
  MaxSyncFails = 0
INVARIANT TefHeadBounded
CHECK_DEADLOCK FALSE
