SPECIFICATION SpecArchives
CONSTANTS
  v = v
  w = w
  None = None
  MaxTaken = 3
  KindOf <- OwnPreOwn
  Passphrases = {v, w}
  Keeps = {1, 2}
  MaxSets = 2
  MaxCrashes = 1
  MaxDeleted = 1
  MaxFailures = 0
SYMMETRY Alike
CHECK_DEADLOCK FALSE
INVARIANTS
  NewestKept
  SealedAfterStart
