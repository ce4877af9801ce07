SPECIFICATION FairSpec
CONSTANTS
  Sources = {USB_TEST, RECEIVER}
  None = None
  Receiver = RECEIVER
  StaleAfter = 1
  LossAfter = 2
  HoldUntil = 3
  StageTwoAfter = 4
  RecoveryStable = 2
  DmaCapacity = 4
  CountWidth = 16
  CounterWidth = 8
INVARIANTS
  TypeOK
  SwitchHoldsAuthority
  StageTwoStops
  BlindFlightIsReported
PROPERTIES
  ArmNeedsRelease
  RecoveryIsEarned
  LossStopsFlight
