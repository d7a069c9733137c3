SPECIFICATION FairSpec
CONSTANTS
  HM_CMD_MAX_CMD_ITEM = 3
  PBUF_POOL_SIZE = 2
  Clients = {"c1", "c2"}
  NoOne = "no one"
  Kinds = {"bad", "unknown", "led", "on", "off"}
CHECK_DEADLOCK FALSE
INVARIANT BuffersAccounted
INVARIANT NoSendAfterFree
PROPERTY EveryRequestAnswered
