SPECIFICATION Spec
CONSTANTS
  None = None
  Name = {n1}
  Queue = {q1}
  Owner = {ann, bob}
  Salt = {s1}
  EPOCH_TOLERANCE = 1
  REGISTER_BASE_BITS = 1
  REGISTER_ADAPTIVE_STEP = 1
  REGISTER_ADAPTIVE_BITS_PER_STEP = 1
  REGISTER_MAX_BITS = 2
  RESOLVE_BASE_BITS = 1
  RESOLVE_ADAPTIVE_STEP = 1
  RESOLVE_ADAPTIVE_BITS_PER_STEP = 1
  RESOLVE_MAX_BITS = 2
  INTRODUCE_BASE_BITS = 1
  INTRODUCE_ADAPTIVE_STEP = 1
  INTRODUCE_ADAPTIVE_BITS_PER_STEP = 1
  INTRODUCE_MAX_BITS = 2
  MaxRequests = 2
  MaxEpoch = 2
INVARIANTS
  OnePurchaseUnlessLate
  PriceRises
  LogAgreesUnlessRaced
PROPERTIES
  ReservedUnlessRaced
SYMMETRY OwnerSymmetry
CHECK_DEADLOCK FALSE
