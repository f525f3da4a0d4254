SPECIFICATION FairSpec
CONSTANTS
  Subs = {s1}
  Procs = {p1, p2, p3}
  MaxNotes = 2
  BatchSizes = {2}
  MaxRetries = 1
  MaxBurst = 1
  Email <- MCEmail
PROPERTIES
  NotificationsComeToRest
  ReactivationRedelivers
  PipeSpec
