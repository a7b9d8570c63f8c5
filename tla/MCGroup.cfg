SPECIFICATION GroupSpec
CONSTANTS
  Nothing = Nothing
  Creator = c
  Device = {c, j, k}
  Invite = {i1, i2}
  Text = {t1}
  MaxAdds = 2
  MaxPolls = 2
  MaxFaults = 1
SYMMETRY JoinerSymmetry
INVARIANTS OneHistoryUnlessRaced JoinedIsLogged 
CHECK_DEADLOCK FALSE
