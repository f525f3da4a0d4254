SPECIFICATION MCSpec
CONSTANTS
  Clients = {c1, c2}
  Endpoints = {x1, x2}
  Keys = {k1}
  Emails = {m1}
  Limits = {l1, l2}
  Types = {t1, t2}
  Targets = {acc}
  Absent = absent
  Invalid = invalid
  MaxIds = 3
  MaxRows = 3
SYMMETRY Symmetry
CHECK_DEADLOCK FALSE
INVARIANT ReadEndpointStaysTrue
