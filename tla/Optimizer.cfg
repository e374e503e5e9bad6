\* Three scans; keys {1,2}, literals 0..3 (below, between and above the
\* keys); ranges wider than one integer take the general path.
CONSTANTS
  N = 3
  Vals = {1, 2}
  Lits = {0, 1, 2, 3}
  NarrowWidth = 1
  Garbage <- MCGarbage
  MaxQueries = 1
  Queries <- PassQueries
  SeqScanCost <- MCSeqScanCost
  HashJoinCost <- MCHashJoinCost
  NestloopJoinCost <- MCNestloopJoinCost
  SketchRows = 2
  SketchBuckets = 2
  SketchHash <- MCSketchHash
SPECIFICATION Spec
INVARIANTS
  PushDownPlaces
  RangeExact
  EstimateCounts
  PlanAsPriced
  FinalPlacement
  HashJoinAsCosted
\* One Optimize call per behaviour; the model stops after it.
CHECK_DEADLOCK FALSE
