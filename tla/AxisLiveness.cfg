SPECIFICATION FairSpec
CONSTANTS
  HM_DMA_BUF_SIZE = 3
  StopSteps = 3
  Commands = {"fix", "free", "smooth", "setting"}
  FixSteps <- MovesLive
  RampLimits <- OneLimit
  NewPositions <- Zero
  SettingFlags <- OneFlag
  Sensors = {"CW"}
  MaxTravel = 5
  LateTravel = 0
PROPERTY EveryMoveEnds
PROPERTY FullBufferStopEnds
PROPERTY LimitStops
CHECK_DEADLOCK FALSE
