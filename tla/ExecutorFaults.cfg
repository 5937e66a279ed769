SPECIFICATION Spec
CONSTANTS
  i1 = i1
  Instances = {i1}
  Titles = {t1}
  InstanceOf <- OneArr
  Folders = {a, b}
  Decisions = {d1}
  None = None
  BatchLimit = 1
  FileMoves <- EitherWay
  Slicing <- Always
  MaxRuns = 2
  MaxStops = 1
  MaxHand = 1
  MaxFaults = 1
  MaxListed = 2
SYMMETRY Alike
CHECK_DEADLOCK FALSE
INVARIANTS
  WriteAhead
  InHandIsRequested
  SettledAsSeen
  RowFollowsArr
PROPERTIES
  LivesAsPromised
