SPECIFICATION Spec
CONSTANTS
  f1 = f1
  f2 = f2
  Files = {f1}
  Slot <- OneFile
  Mids = {m1}
  Carries <- Owes1
  Puller = puller
  Ledger = ledger
  Operators = {o1}
  Levels = 2
  Unset = unset
  Stopped = stopped
  Empty = empty
  Garbled = garbled
  MaxRecords = 1
  MaxBatch = 0
  MaxPayments = 2
  MaxOwed = 2
  MaxCrashes = 1
CHECK_DEADLOCK FALSE
INVARIANTS
  PaidAsOwed
  StatusIsB4Bs
  NoneStranded
