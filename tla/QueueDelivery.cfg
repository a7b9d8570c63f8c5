SPECIFICATION LiveSpec
CONSTANTS
  MAX_TTL = 2
  MAX_QUEUE_MESSAGES = 2
  MAX_QUEUE_BYTES = 3
  Sizes = {1, 2}
  MaxTime = 2
  MaxPushes = 3
  MaxDrops = 2
INVARIANT AlarmCoversBacklog
INVARIANT NoUnseenLoss
PROPERTY ImplementsMailbox
PROPERTY EveryMessageSettles
CHECK_DEADLOCK FALSE
