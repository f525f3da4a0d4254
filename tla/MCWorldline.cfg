CONSTANTS
  uk = uk
  se = se
  p = p
  TicksPerHour = 2
  HoursPerDay = 2
  Calendars = {uk, se}
  Zone <- MCZone
  Holidays <- MCHolidays
  Holders = {p}
  MaxHold = 3
  Requests <- MCRequests
  StartRequests <- MCStart
  FirstTick = 12
  LastTick = 31
  MaxMoves = 1
  MaxClockRestarts = 1
  Wrap = 100000
  Batches <- MCBatches
  Fixtures <- MCFixtures
  Sources = {"generate", "fixture"}
  Configured = {"GBP"}
  MorningAt = 1
  AfternoonAt = 3
  Jitter <- MCJitter
  SettlementDelay = 4
  MaxTxns = 6
  MaxRuns = 2
  MaxOrdered = 1
  CycleLast = 13
  Subjects = {"clock", "cycle", "schedule"}
SPECIFICATION Spec
INVARIANTS
  FilesTellWhatWasAcquired
  MoneyMatchesFiles
  TickedSlotsRun
PROPERTIES
  Steady
CHECK_DEADLOCK FALSE
