\* Two scans joined on their keys.  Table 1 holds {1} or {1,2}, so its
\* minimum can equal its maximum; a literal comparison wider than one
\* integer sends EstimateTable down the general-range path.
CONSTANTS
  N = 2
  Vals = {1, 2}
  Lits = {0, 1, 2, 3}
  NarrowWidth = 1
  Garbage = {0}
  MaxQueries = 1
  Queries <- CrashQueries
  SeqScanCost <- MCSeqScanCost
  HashJoinCost <- MCHashJoinCost
  NestloopJoinCost <- MCNestloopJoinCost
  SketchRows = 2
  SketchBuckets = 2
  SketchHash <- MCSketchHash
SPECIFICATION Spec
INVARIANT
  PlanCoversAll
\* One Optimize call per behaviour; the model stops after it.
CHECK_DEADLOCK FALSE
