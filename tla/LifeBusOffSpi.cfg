SPECIFICATION Spec
CONSTANTS
  AutoRestart = FALSE
  NoSleep = FALSE
  NoBerr = FALSE
  MaxErrors = 4
  MaxSpiFails = 1
INVARIANTS BusOffShutDown
CHECK_DEADLOCK FALSE
