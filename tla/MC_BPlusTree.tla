---------------------------- MODULE MC_BPlusTree ----------------------------
EXTENDS BPlusTree

CONSTANTS va, vb   \* the two values of Vals

\* One- and two-byte keys, so that separators of different lengths make
\* SplitReplace split inner pages.
KeyLenMC == [k \in Keys |-> IF k % 2 = 0 THEN 2 ELSE 1]
\* A short and a long value, so that Update grows a leaf slot.
ValLenMC == [v \in Vals |-> IF v = va THEN 1 ELSE 3]

(***************************************************************************)
(* The state as far as any later call can observe it.  The bytes of a    *)
(* free page (Alloc re-inits the slots and every split sets the links it  *)
(* reads), the prev link of the smallest leaf and the next link of the    *)
(* largest (no call follows them), the links of a root leaf, and root and *)
(* level of an empty tree (the next Insert sets both) are never read      *)
(* again, so states that differ only there have the same futures.         *)
(***************************************************************************)
FirstLeaf == IF level = 0 THEN root ELSE SmallestLeaf(pg, root, level)
PageView(id) ==
  IF id \notin Live THEN ZeroPage
  ELSE IF level = 0 THEN [pg[id] EXCEPT !.sp0 = 0, !.sp1 = 0]
  ELSE IF pg[id].e0 = PageSize - LeafSpecial
       THEN [pg[id] EXCEPT !.sp0 = IF id = FirstLeaf THEN 0 ELSE @,
                           !.sp1 = IF id = MaxLeaf THEN 0 ELSE @]
       ELSE [pg[id] EXCEPT !.sp1 = 0]
LiveView ==
  <<[id \in PageIds |-> PageView(id)], free, num, tuples, ret, call, destroyed,
    IF tuples = 0 THEN <<>> ELSE <<root, level>>>>
=============================================================================
