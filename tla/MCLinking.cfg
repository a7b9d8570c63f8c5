SPECIFICATION Spec
CONSTANTS
  None = None
  Device = {a, b}
  MaxCodes = 2
  MaxEvents = 5
SYMMETRY DeviceSymmetry
INVARIANTS KeyUsedOnceUnlessForked RedeemedOnce DeletedLeavesNothingUnlessRaced
CHECK_DEADLOCK FALSE
