SPECIFICATION Spec
CONSTANTS
  ObjNum = 4
  SeqMod = 8
  Wrap = 32
  MaxFrames = 8
  MaxAsyncFails = 1
  MaxSyncFails = 1
INVARIANTS TypeOK TefHeadBounded TefNeverOverflows EchoOwned NoLostWakeup
CHECK_DEADLOCK FALSE
