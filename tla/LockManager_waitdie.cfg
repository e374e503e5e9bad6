CONSTANTS
  NumTxns = 3
  Tables = {tA}
  Keys = {}
  MaxReqs = 2
  tA = tA
  NoRes = NoRes
SPECIFICATION Spec
INVARIANT WaitDie
CHECK_DEADLOCK FALSE
