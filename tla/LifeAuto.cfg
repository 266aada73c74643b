SPECIFICATION FairSpec
CONSTANTS
  AutoRestart = TRUE
  NoSleep = FALSE
  NoBerr = FALSE
  MaxErrors = 6
  MaxSpiFails = 0
INVARIANTS BusOffShutDown PoweredAccess RingsPresent InductiveInv
PROPERTY BusOffEnds
CHECK_DEADLOCK FALSE
