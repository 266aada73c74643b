SPECIFICATION FairSpec
CONSTANTS
  MaxBinds = 2
INVARIANTS PoweredWhenUsed PowerReturned BalancedPower AwakeWhileUp
PROPERTY PoweredDownWhenIdle
CHECK_DEADLOCK FALSE
