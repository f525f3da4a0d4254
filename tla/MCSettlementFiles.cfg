SPECIFICATION FairSpec
CONSTANTS
  f1 = f1
  f2 = f2
  Files = {f1, f2}
  Slot <- TwoFiles
  Mids = {m1}
  Carries <- Owes2
  Puller = puller
  Ledger = ledger
  Operators = {}
  Levels = 1
  Unset = unset
  Stopped = stopped
  Empty = empty
  Garbled = garbled
  MaxRecords = 2
  MaxBatch = 1
  MaxPayments = 0
  MaxOwed = 2
  MaxCrashes = 1
CHECK_DEADLOCK FALSE
ACTION_CONSTRAINT LedgerLeftAlone
INVARIANTS
  OncePerFile
PROPERTY EveryMidGetsAnOutcome
