SPECIFICATION FairTasks
CONSTANTS
  Tasks = {t1, t2, t3}
  None = None
  a = a
  b = b
  p = p
  q = q
  i = i
CHECK_DEADLOCK FALSE
INVARIANTS
  QuietRowsAreTheArrs
PROPERTIES
  RequestedIsSettled
  KeepsTurns
  DeliveryEnds
  EveryEventEnds
  EverySyncFollowed
  JobRowEnds
