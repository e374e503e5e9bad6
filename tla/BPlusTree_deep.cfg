\* Three keys of one and two bytes, 22-byte pages: a leaf holds one slot
\* and an inner page one or two, so three keys build a tree of height two
\* and deletes cascade frees and separator changes up two levels.  The
\* page bound does not bind: the reachable trees use at most pages 3..9.
CONSTANTS
  Keys = {1, 2, 3}
  Vals = {va}
  va = va
  vb = vb
  NoVal = NoVal
  PageSize = 22
  KeyLen <- KeyLenMC
  ValLen <- ValLenMC
  MaxPage = 9
SPECIFICATION Spec
\* Destroy is the tree's last call: no step follows it.
CHECK_DEADLOCK FALSE
VIEW LiveView
INVARIANT TupleNumCounts
INVARIANT SearchTree
INVARIANT IterationYieldsAll
INVARIANT SeekYieldsSuffix
INVARIANT PageAccounting
