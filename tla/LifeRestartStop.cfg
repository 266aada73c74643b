SPECIFICATION Spec
CONSTANTS
  AutoRestart = TRUE
  NoSleep = FALSE
  NoBerr = FALSE
  MaxErrors = 4
  MaxSpiFails = 0
INVARIANTS AsleepWhenDown
CHECK_DEADLOCK FALSE
