SPECIFICATION Spec
CONSTANTS
  i1 = i1
  Instances = {i1}
  Titles = {t1}
  InstanceOf <- OneArr
  Folders = {a, b}
  Decisions = {d1, d2}
  None = None
  BatchLimit = 1
  FileMoves <- EitherWay
  Slicing <- Never
  MaxRuns = 2
  MaxStops = 0
  MaxHand = 0
  MaxFaults = 1
  MaxListed = 1
SYMMETRY Alike
CHECK_DEADLOCK FALSE
PROPERTIES
  InTargetIsApplied
