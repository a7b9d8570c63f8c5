SPECIFICATION Spec
CONSTANTS
  None = None
  MAX_SKIP = 2
  PQ_REMIX_EVERY_N_TURNS = 2
  MaxSends = 4
  Faults = {"overtake", "lose", "redeliver"}
  MaxFaults = 2
INVARIANTS
  OpenedAtMostOnce
  ForwardSecrecy
  ReorderingTolerated
  RemixedInTime
CHECK_DEADLOCK FALSE
