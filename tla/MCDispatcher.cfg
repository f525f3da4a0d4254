SPECIFICATION Spec
CONSTANTS
  Subs = {s1}
  Procs = {p1, p2, p3}
  MaxNotes = 3
  BatchSizes = {1, 2}
  MaxRetries = 1
  MaxBurst = 2
  Email <- MCEmail
SYMMETRY Symmetry
INVARIANTS
  NothingLost
  NoTwin
  NothingStranded
