SPECIFICATION Spec
CONSTANTS
  whole = whole
  bare = bare
  foreign = foreign
  home = home
  other = other
  fresh = fresh
  Archives <- Every
  Keys <- ThreeKeys
  KeyOf <- SealedBy
  Carries <- OnlyWhole
  CarriesApi <- OnlyWhole
  ArrSealed <- Every
  Home = home
  Here = Here
  None = None
  ApiKeyMode = FALSE
  Offline = TRUE
  MaxCopies = 3
  MaxCrashes = 1
  MaxRejects = 0
  MaxWords = 0
CHECK_DEADLOCK FALSE
INVARIANT
  StagedOpens
