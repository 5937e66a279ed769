SPECIFICATION Spec
CONSTANTS
  i1 = i1
  Instances = {i1}
  Titles = {t1, t2}
  InstanceOf <- OneArr
  Folders = {a, b}
  Decisions = {d1, d2}
  None = None
  BatchLimit = 1
  FileMoves <- Never
  Slicing <- Never
  MaxRuns = 3
  MaxStops = 1
  MaxHand = 0
  MaxFaults = 0
  MaxListed = 1
SYMMETRY AlikeTitles
CONSTRAINT RunsAndStops
CHECK_DEADLOCK FALSE
INVARIANTS
  OneStandingProposal
  RevertLatest
  StopsBeforeNextMove
