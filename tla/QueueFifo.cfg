SPECIFICATION FairSpec
CONSTANTS
  HM_MSG_MAX = 3
  Producers = {"SysTick", "Eth"}
  Prio <- BoardPrio
  Sends <- BoardSends
  RebootFunc = "hm_cmd_reboot_ck"
  NoFunc = "none"
PROPERTY ImplementsFifo
PROPERTY EveryMessageHandled
