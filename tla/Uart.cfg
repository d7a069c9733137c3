SPECIFICATION Spec
CONSTANTS
  HM_CMD_MAX_CMD_ITEM = 2
  HM_CMD_MAX_INPUT_SIZE = 1
  Requests = {move, other}
  Unknown = {other}
  None = None
  move = move
  other = other
  MaxLost = 2
  Window = 1
INVARIANT ServedIntact
INVARIANT SlotsAccounted
PROPERTY OnlyWholeRequests
PROPERTY WholeRequestsArrive
PROPERTY EveryRequestAnswered
