SPECIFICATION FairSpec
CONSTANTS
  ObjNum = 4
  Wrap = 8
  RxInt = TRUE
  MaxArrivals = 10
  MaxSpiFails = 1
INVARIANTS TypeOK HeadBacked LossNotForgotten RxInv
PROPERTIES ServiceSpec ServiceLive
CHECK_DEADLOCK FALSE
