SPECIFICATION Spec
CONSTANTS
  HM_DMA_BUF_SIZE = 3
  StopSteps = 3
  Commands = {"free", "setting"}
  FixSteps <- NoMoves
  RampLimits <- Limits
  NewPositions <- Zero
  SettingFlags <- OneFlag
  Sensors = {"CW"}
  MaxTravel = 6
  LateTravel = 0
INVARIANT StopIsFinal
