SPECIFICATION LiveSpec
CONSTANTS
  None = None
  Device = {d1, d2}
  LEASE_TTL = 6
  HEARTBEAT = 2
  MaxDelay = 1
  MaxCalls = 2
  MaxFails = 1
INVARIANTS
  ExclusiveUnlessRaced
  LiveHoldsLease
PROPERTIES
  Reclaimable
CHECK_DEADLOCK FALSE
