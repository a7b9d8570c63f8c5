SPECIFICATION Spec
CONSTANTS
  None = None
  Event = {e1, e2}
  CONSISTENCY_RATE_LIMIT_PER_EPOCH = 1
  MaxSize = 4
  MaxRewrites = 1
  MaxFaults = 1
INVARIANTS
  EvidenceForAReason
  ProofDecides
PROPERTIES
  RewriteIsNoticed
  CatchesUpUnlessBaselineEmpty
CHECK_DEADLOCK FALSE
