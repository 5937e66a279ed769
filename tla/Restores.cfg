SPECIFICATION FairRestores
CONSTANTS
  whole = whole
  bare = bare
  foreign = foreign
  home = home
  other = other
  fresh = fresh
  Archives <- Every
  Keys <- ThreeKeys
  KeyOf <- SealedBy
  Carries <- OnlyWhole
  CarriesApi <- OnlyWhole
  ArrSealed <- Some
  Home = home
  Here = Here
  None = None
  ApiKeyMode = FALSE
  Offline = FALSE
  MaxCopies = 3
  MaxCrashes = 2
  MaxRejects = 0
  MaxWords = 1
CHECK_DEADLOCK FALSE
INVARIANTS
  LogOfItsDatabase
  KeptOpens
  NeverRefused
  LastServedKept
  PendingOfOneArchive
PROPERTIES
  PlaceFilled
  NoKeyWithdrawnBefore
