SPECIFICATION VaultSpec
CONSTANTS
  Nothing = Nothing
  Client = {c, d}
  File = {f}
  Chat = {x, y}
  MaxWrites = 4
  MaxFaults = 2
INVARIANTS
  NoVersionLostUnlessReset
  SentAsAttached
SYMMETRY ClientSymmetry
CHECK_DEADLOCK FALSE
