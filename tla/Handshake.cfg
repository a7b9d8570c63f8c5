SPECIFICATION HandshakeSpec
CONSTANTS
  None = None
  ONETIME_POOL_TARGET_SIZE = 2
  ONETIME_REPLENISH_THRESHOLD = 2
  MaxSessions = 3
  MaxMounts = 3
  MaxRotations = 1
  MaxFaults = 1
INVARIANTS
  UsedOnceUnlessRaced
  HeldUnlessRaced
  LoneHandshakeRepairs
CHECK_DEADLOCK FALSE
