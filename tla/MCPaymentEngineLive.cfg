SPECIFICATION FairSpec
CONSTANTS
  Sga = {eur}
  Creditors = {m1}
  External = external
  Ids = {i1}
  OwnId = own
  Amounts = {1}
  MaxPayments = 3
  MaxForced = 1
  LastInstant = 2
  CalendarDay <- DayByDay
  BusinessDay <- DayByDay
ACTION_CONSTRAINTS
  ForcedFirst
  SetBackOnce
CHECK_DEADLOCK FALSE
INVARIANT DayAmountsTrue
PROPERTIES
  ProcessedLinesKept
  PaymentsResolve
