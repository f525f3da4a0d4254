SPECIFICATION FairSpec
CONSTANTS
  Payments = {p1}
  Failing = {}
  Companies = {c1}
  Hops = 3
  Inodes = 4
  MaxCrashes = 2
  DiskFails = TRUE
  None = none
  Empty = empty
  Garbled = garbled
CHECK_DEADLOCK FALSE
INVARIANTS
  AnsweredIsKept
  NothingRepeated
PROPERTIES
  PayoutsEnd
