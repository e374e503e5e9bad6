\* Three transactions, one table and one tuple, two lock calls each:
\* wait-die between all age orders, upgrades and upgrade aborts, tuple
\* locks under table locks, and the tuples-first release walk.
CONSTANTS
  NumTxns = 3
  Tables = {tA}
  Keys = {k1}
  k1 = k1
  MaxReqs = 2
  tA = tA
  NoRes = NoRes
SPECIFICATION Spec
INVARIANT TypeOK
INVARIANT LockCompatibility
INVARIANT LockSetMatchesQueue
INVARIANT UpgradeMarker
INVARIANT NoLostWakeup
INVARIANT MultiGranularity
INVARIANT ReleasedOnFinish
\* The code deadlocks (run LockManager_deadlock); the model may stop there.
CHECK_DEADLOCK FALSE
