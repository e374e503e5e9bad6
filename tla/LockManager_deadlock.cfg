CONSTANTS
  NumTxns = 2
  Tables = {tA}
  Keys = {}
  MaxReqs = 2
  tA = tA
  NoRes = NoRes
SPECIFICATION Spec
PROPERTY EveryTxnFinishes
CHECK_DEADLOCK FALSE
