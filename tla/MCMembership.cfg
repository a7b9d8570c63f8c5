SPECIFICATION Spec
CONSTANTS
  None = None
  Account = {a1}
  Login = {l1, l2, l3}
  ENROLL_QUOTA_MAX = 2
  PROOF_RATE_LIMIT_PER_EPOCH = 1
  SESSION_RATE_LIMIT_PER_EPOCH = 2
  MaxFaults = 1
SYMMETRY LoginSymmetry
INVARIANTS QuotaUnlessRaced SessionsBacked FailsForAReason
CHECK_DEADLOCK FALSE
