SPECIFICATION FairSpec
CONSTANTS
  Models = {"2518"}
  Ring = 2
  Frames = 3
  MaxFaults = 2
INVARIANTS ReloadOwned EccErrorsKnown
PROPERTIES NormalModeReturns FramesSent
CHECK_DEADLOCK FALSE
