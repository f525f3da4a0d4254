SPECIFICATION Spec
CONSTANTS
  Sga = {eur}
  Creditors = {m1}
  External = external
  Ids = {i1, i2}
  OwnId = own
  Amounts = {1}
  MaxPayments = 2
  MaxForced = 1
  LastInstant = 3
  CalendarDay <- CutOffCalendarDay
  BusinessDay <- CutOffBusinessDay
CHECK_DEADLOCK FALSE
INVARIANT InExactlyOneReport
