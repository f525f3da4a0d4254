SPECIFICATION Spec
CONSTANTS
  Sga = {eur, gbp}
  Creditors = {}
  External = external
  Ids = {i1, i2}
  OwnId = own
  Amounts = {1}
  MaxPayments = 4
  MaxForced = 0
  LastInstant = 1
  CalendarDay <- DayByDay
  BusinessDay <- DayByDay
SYMMETRY Symmetry
ACTION_CONSTRAINT CreditsFirst
CHECK_DEADLOCK FALSE
INVARIANTS
  LedgerExplained
  ComesBackOnce
  StreamTellsRecord
PROPERTY LifecycleSpec
