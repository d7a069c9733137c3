SPECIFICATION FairSpec
CONSTANTS
  HM_MAX_TIMER = 2
  CountMod = 4
  Funcs = {"led_ck"}
  Direct = {"led_ck"}
  NoFunc = "none"
  Periods = {0, 3}
  OnceFlags = {TRUE, FALSE}
  Delays = {0, 2}
PROPERTY NeverEarly
PROPERTY DelayLasts
PROPERTY EveryTimerCalled
