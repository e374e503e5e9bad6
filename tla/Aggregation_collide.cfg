CONSTANTS
  a = a
  Keys = {1, 2, 3}
  Payloads = {a}
  Hash <- HashCollide
  MinCount = 2
  Asc = FALSE
  MaxRows = 5
SPECIFICATION Spec
INVARIANTS
  GroupsByKey
CHECK_DEADLOCK FALSE
