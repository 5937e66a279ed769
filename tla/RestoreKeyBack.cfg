SPECIFICATION Spec
CONSTANTS
  whole = whole
  bare = bare
  foreign = foreign
  home = home
  other = other
  fresh = fresh
  Archives <- Some
  Keys <- ThreeKeys
  KeyOf <- SealedBy
  Carries <- OnlyWhole
  CarriesApi <- OnlyWhole
  ArrSealed <- Some
  Home = home
  Here = Here
  None = None
  ApiKeyMode = FALSE
  Offline = FALSE
  MaxCopies = 2
  MaxCrashes = 0
  MaxRejects = 0
  MaxWords = 1
CHECK_DEADLOCK FALSE
PROPERTY
  NoKeyWithdrawn
