SPECIFICATION Spec
CONSTANTS
  HM_DMA_BUF_SIZE = 4
  StopSteps = 4
  Commands = {"fix", "free", "home", "smooth", "sudden", "setpos", "reset", "enable", "setting"}
  FixSteps <- MovesAll
  RampLimits <- Limits
  NewPositions <- Zero
  SettingFlags <- OneFlag
  Sensors = {"CW"}
  MaxTravel = 7
  LateTravel = 0
INVARIANT TypeOK
INVARIANT ExactCount
INVARIANT NoTrap
INVARIANT StopHolds
INVARIANT PlaysInOrder
INVARIANT NoRunaway
PROPERTY MoveIsExact
