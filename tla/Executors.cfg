CONSTANTS
  a = a
  b = b
  Keys = {1, 2}
  Payloads = {a, b}
  Hash <- HashCollide
  JoinKinds = {"nl", "hash"}
  Offset = 1
  LimitSize = 1
  MaxRows = 2
SPECIFICATION Spec
INVARIANTS
  JoinStream
  DistinctStream
  QueryResult
CHECK_DEADLOCK FALSE
