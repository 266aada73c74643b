SPECIFICATION Spec
CONSTANTS
  AutoRestart = FALSE
  NoSleep = FALSE
  NoBerr = FALSE
  MaxErrors = 6
  MaxSpiFails = 2
INVARIANTS TypeOK StateTracksChip AsleepWhenDown DownHoldsNothing InductiveInv
CHECK_DEADLOCK FALSE
