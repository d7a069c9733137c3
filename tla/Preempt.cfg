SPECIFICATION PSpec
CONSTANTS
  HM_DMA_BUF_SIZE = 3
  StopSteps = 3
  Commands = {"setting"}
  FixSteps <- MovesWhole
  RampLimits <- OneLimit
  NewPositions <- Zero
  SettingFlags <- OneFlag
  Sensors = {"CW"}
  MaxTravel = 8
  LateTravel = 0
  Ops = {"start", "sudden", "smooth", "getpos"}
  StopFixed = FALSE
  Window = 2
 
INVARIANT PlaysInOrder
INVARIANT LabelIsTrue
 
 
