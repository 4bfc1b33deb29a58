CONSTANTS
  d1 = d1
  i1 = i1
  i2 = i2
  Dockers = {d1}
  Nics = {i1, i2}
  Load <- MCLoad
  Windows = {2}
  Refreshes = {1, 2}
SPECIFICATION FairSpec
INVARIANTS
  TypeOK
  SelectionIsShown
PROPERTY ListSettles
CHECK_DEADLOCK FALSE
