\* Two keys, two values, three writes: insert/update/delete chains on one
\* key, writes to both keys, and a wait-die abort between them.
CONSTANTS
  Keys = {k1, k2}
  Vals = {v1, v2}
  NoVal = NoVal
  MaxOps = 3
SPECIFICATION Spec
INVARIANT TypeOK
INVARIANT UndoMatchesHistory
