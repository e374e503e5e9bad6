\* Three keys, a one-byte and a three-byte value, 30-byte pages: a leaf
\* holds two or three slots, so Insert splits leaves and Update of a short
\* value to a long one goes through SplitReplace; the tree has height one.
CONSTANTS
  Keys = {1, 2, 3}
  Vals = {va, vb}
  va = va
  vb = vb
  NoVal = NoVal
  PageSize = 30
  KeyLen <- KeyLenMC
  ValLen <- ValLenMC
  MaxPage = 12
SPECIFICATION Spec
\* Destroy is the tree's last call: no step follows it.
CHECK_DEADLOCK FALSE
VIEW LiveView
INVARIANT GetAgrees
INVARIANT MaxKeyAgrees
INVARIANT PagesFit
PROPERTY RefinesOrderedMap
