SPECIFICATION ServicesSpec
CONSTANTS
  None = None
  Arrs <- BothArrs
  Ids <- OneId
  Works <- BothWorks
  Folders <- OneFolder
  Tags <- OneTag
  HeldPast = 10
  MaxTime = 2
  MaxChanges = 1
  MaxAsked = 1
  Unknown = Unknown
  a = a
  b = b
  i = i
  j = j
  v = v
  w = w
  z = z
SYMMETRY Alike
CHECK_DEADLOCK FALSE
INVARIANTS
  RowsKeepTheirTitles
  PassesAreAccounted
  RoutedAsSaid
PROPERTIES
  MovedPathStands
  QuietSyncHeals
  RunAloneIsStored
  MovedAsAskedAtTheTurn
  PaceKept
