SPECIFICATION SpecKeeping
CONSTANTS
  std = std
  ani = ani
  kid = kid
  arr = arr
  dir1 = dir1
  ttl1 = ttl1
  ip1 = ip1
  ip2 = ip2
  v = v
  w = w
  b1 = b1
  q1 = q1
  q2 = q2
  None = None
  Names = {std, ani, kid}
  Standard = std
  Instances = {arr}
  Folders = {dir1}
  Titles = {ttl1}
  InstanceOf <- AllOfArr
  Sent <- SomeDrafts
  RuleBundles <- SomeBundles
  Configs <- SomeConfigs
  MaxRules = 2
  MaxBorn = 3
  MaxChanges = 3
SYMMETRY Alike
CHECK_DEADLOCK FALSE
INVARIANTS
  NamesExist
  PlacesAreHeld
  JudgedRight
  LastsAsSaid
PROPERTIES
  WaitsGrow
  CopiesAreAnsweredFor
  OrderKept
  EndedStaysEnded
