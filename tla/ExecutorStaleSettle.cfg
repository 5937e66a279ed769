SPECIFICATION Spec
CONSTANTS
  i1 = i1
  Instances = {i1}
  Titles = {t1}
  InstanceOf <- OneArr
  Folders = {a, b}
  Decisions = {d1}
  None = None
  BatchLimit = 1
  FileMoves <- EitherWay
  Slicing <- Never
  MaxRuns = 1
  MaxStops = 0
  MaxHand = 1
  MaxFaults = 0
  MaxListed = 1
SYMMETRY Alike
CHECK_DEADLOCK FALSE
PROPERTIES
  SettlesWhatIsRequested
