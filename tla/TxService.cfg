SPECIFICATION FairSpec
CONSTANTS
  ObjNum = 4
  SeqMod = 8
  Wrap = 32
  MaxFrames = 9
  MaxAsyncFails = 0
  MaxSyncFails = 1
INVARIANTS TxInv NoReuseInFlight
PROPERTIES ServiceSpec ServiceLive QueueRestarts PendingTefReleased
CHECK_DEADLOCK FALSE
