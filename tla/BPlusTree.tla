----------------------------- MODULE BPlusTree ------------------------------
(***************************************************************************)
(* BPlusTree<Compare> of src/src/storage/bplus-tree.hpp: the split-only   *)
(* B+-tree over SortedPages.  Each public call (Insert, Update, Delete /  *)
(* Take) is one step: the code runs it to completion on the caller's      *)
(* thread.  The tree is written as operators on a store record            *)
(*   [pg, free, num, level, root, tuples, new]                            *)
(* threaded through each call in the code's order: `pg` the pages, `free` *)
(* and `num` the PageManager allocator, `level`/`root`/`tuples` the meta  *)
(* page, `new` the id the last Allocate returned.                         *)
(*                                                                         *)
(* PageManager::Allocate/Free live in page-manager.cpp, which is not in   *)
(* the repository; they follow spec 4.1: Free pushes the id on the free   *)
(* list, Allocate pops the last freed id or extends the file.             *)
(***************************************************************************)
EXTENDS Integers, Sequences, SequencesExt, SortedPage

CONSTANTS
  Keys,       \* keys: a finite set of positive integers
  Vals,       \* values (model values)
  NoVal,      \* model value: no value
  MaxPage     \* page ids stay below MaxPage (bound on the file size)

LeafSpecial  == 2 * PgIdSz    \* prev_leaf, next_leaf
InnerSpecial == PgIdSz        \* the right-most child
FirstPage == 3                \* 0: PageManager meta, 1: super page, 2: tree meta
MetaPage == 2                 \* meta_pgid_, the page Create allocated
PageIds == 0..MaxPage
ZeroPage == [slots |-> <<>>, e0 |-> 0, sp0 |-> 0, sp1 |-> 0]

VARIABLES
  pg,       \* page id -> page
  free,     \* the free list; the next Allocate takes Last(free)
  num,      \* PageNum(): the next fresh page id
  level,    \* meta page: level num of root
  root,     \* meta page: root page id
  tuples,   \* meta page: number of tuples
  ret,      \* the result of the last call
  call,     \* the last call with its arguments
  destroyed \* Destroy() has run

vars == <<pg, free, num, level, root, tuples, ret, call, destroyed>>

St == [pg |-> pg, free |-> free, num |-> num, level |-> level,
       root |-> root, tuples |-> tuples, new |-> 0]

\* PageManager::Allocate then SortedPage::Init(special) (AllocLeafPage,
\* AllocInnerPage, lines 609-621).
Alloc(s, special) ==
  LET id == IF s.free # <<>> THEN Last(s.free) ELSE s.num
  IN [s EXCEPT !.free = IF @ # <<>> THEN Front(@) ELSE @,
               !.num = IF s.free # <<>> THEN @ ELSE @ + 1,
               !.pg[id] = InitPage(@, special),
               !.new = id]

\* Mutant: the page handle is dropped but the page is never freed.
FreePgDropped(s, id) == s

\* FreePage (lines 602-606): drop the handle, PageManager::Free.  The
\* slots of a free page are never read again (Alloc re-inits them), so
\* the model forgets them; the special trailer stays as it was.
FreePg(s, id) == [s EXCEPT !.free = Append(@, id),
                           !.pg[id] = [@ EXCEPT !.slots = <<>>, !.e0 = 0]]

(***************************************************************************)
(* Navigation helpers (lines 669-718).                                     *)
(***************************************************************************)
InnerFirstPage(p) == IF p.slots = <<>> THEN p.sp0 ELSE p.slots[1].next
InnerLastPage(p) == p.sp0

RECURSIVE FirstDown(_, _, _)
FirstDown(pgs, cur, n) == IF n = 0 THEN cur ELSE FirstDown(pgs, InnerFirstPage(pgs[cur]), n - 1)
RECURSIVE LastDown(_, _, _)
LastDown(pgs, cur, n) == IF n = 0 THEN cur ELSE LastDown(pgs, InnerLastPage(pgs[cur]), n - 1)

SmallestLeaf(pgs, id, lvl) == FirstDown(pgs, InnerFirstPage(pgs[id]), lvl - 1)
LargestLeaf(pgs, id, lvl) == LastDown(pgs, InnerLastPage(pgs[id]), lvl - 1)
LeafSmallestKey(p) == p.slots[1].key
InnerSmallestKey(pgs, id, lvl) == LeafSmallestKey(pgs[SmallestLeaf(pgs, id, lvl)])

\* The child an inner page routes key to: UpperBound, or the right-most.
Child(p, key) ==
  LET i == UpperBound(p, key)
  IN IF i < SlotNum(p) THEN p.slots[i + 1].next ELSE InnerLastPage(p)

\* The children of an inner page, the right-most (special) one last.
Children(p) == [i \in 1..(SlotNum(p) + 1) |->
                  IF i <= SlotNum(p) THEN p.slots[i].next ELSE p.sp0]

\* fa[i]: the page at level i on the path of key (work1 lines 220-228,
\* work2 lines 310-321, Get, LowerBound, UpperBound).
RECURSIVE PathAt(_, _, _)
PathAt(s, key, i) == IF i = s.level THEN s.root ELSE Child(s.pg[PathAt(s, key, i + 1)], key)
Path(s, key) == [i \in 0..s.level |-> PathAt(s, key, i)]

\* id[i]: the slot index taken at level i >= 1.
PathIdx(s, fa, key) == [i \in 1..s.level |-> UpperBound(s.pg[fa[i]], key)]

\* A new root above a split of the old root (lines 271-279, 418-426).
NewRoot(s, lvl, left, y, right) ==
  LET s1 == Alloc(s, InnerSpecial)
  IN [s1 EXCEPT !.level = lvl + 1,
                !.pg[s1.new].slots = <<[next |-> left, key |-> y]>>,
                !.pg[s1.new].sp0 = right,
                !.root = s1.new]

(***************************************************************************)
(* One level of the loops that carry a change up the path.  Result:       *)
(* [st, flag, y, R, brk] with the code's names: flag 2 means the page at  *)
(* this level split into it and the fresh page R with smallest key y, and *)
(* brk that the loop ends here.                                            *)
(***************************************************************************)
\* After SplitInsert/SplitReplace of inner page id into the fresh page
\* s1.new (lines 262-268, 352-362, 408-414): an empty right page is freed
\* and the loop breaks; otherwise the right page takes the old right-most
\* child, its first child becomes the left page's right-most one, and its
\* first slot is dropped.
InnerSplitPut(s1, i, id, R, y, sp) ==
  IF sp[2] = <<>>
  THEN [st |-> FreePg([s1 EXCEPT !.pg[id] = sp[1]], s1.new), flag |-> 0,
        y |-> y, R |-> R, brk |-> TRUE]
  ELSE LET rid == s1.new
           pg2 == [s1.pg EXCEPT ![id] = [sp[1] EXCEPT !.sp0 = sp[2][1].next],
                                ![rid] = [@ EXCEPT !.slots = Tail(sp[2]), !.sp0 = sp[1].sp0]]
       IN [st |-> [s1 EXCEPT !.pg = pg2], flag |-> 2,
           y |-> InnerSmallestKey(pg2, rid, i), R |-> rid, brk |-> FALSE]

\* Lines 257-261, 400-405: the child at idx now points to R (the special
\* when idx is the right-most child).
InnerRedirect(now, idx, R) ==
  IF idx = SlotNum(now) THEN [now EXCEPT !.sp0 = R]
  ELSE ReplaceSlot(now, idx, [now.slots[idx + 1] EXCEPT !.next = R])

\* Insert the separator (fa[i-1], y) at id[i] of inner page fa[i] after
\* redirecting that child to R, splitting into a fresh page if needed
\* (lines 256-269, 399-415).
InnerSplit(s, i, fa, idx, R, y) ==
  InnerSplitPut(Alloc(s, InnerSpecial), i, fa[i], R, y,
                SplitInsert(InnerRedirect(s.pg[fa[i]], idx, R), idx,
                            [next |-> fa[i - 1], key |-> y]))

\* The loop `for i in 1..level` of work1 (lines 254-270): it runs while
\* the level below split.
RECURSIVE InsertUp(_, _, _, _, _, _, _), InsertUpNext(_, _, _, _, _)
InsertUp(s, i, lvl, fa, id, R, y) ==
  IF i > lvl THEN [st |-> s, flag |-> 2, y |-> y, R |-> R, brk |-> FALSE]
  ELSE InsertUpNext(i, lvl, fa, id, InnerSplit(s, i, fa, id[i], R, y))
InsertUpNext(i, lvl, fa, id, r) ==
  IF r.brk THEN r ELSE InsertUp(r.st, i + 1, lvl, fa, id, r.R, r.y)

\* Lines 271-279 and 416-426: a split that reached the root adds a level.
RootIfSplit(s, fa, up) ==
  IF up.flag = 2 THEN NewRoot(up.st, s.level, fa[s.level], up.y, up.R) ELSE up.st

\* Mutant: the successor of the split leaf is not relinked.
LinkRightNoSucc(s, pgs, leaf, rid) ==
  [pgs EXCEPT ![leaf].sp1 = rid, ![rid].sp0 = leaf]

\* Lines 248-253: link the new right leaf rid into the chain after leaf;
\* the old successor is relinked only when leaf is not the largest leaf.
LinkRight(s, pgs, leaf, rid) ==
  LET nxt == pgs[leaf].sp1
      pg2 == IF s.level # 0 /\ leaf # LargestLeaf(pgs, s.root, s.level)
             THEN [pgs EXCEPT ![rid].sp1 = nxt, ![nxt].sp0 = rid]
             ELSE pgs
  IN [pg2 EXCEPT ![leaf].sp1 = rid, ![rid].sp0 = leaf]

\* Mutant: the inserted key, not the right leaf's smallest key, is the
\* separator.
LeafSplitUpKeyOfSlot(s, fa, s3, key) ==
  RootIfSplit(s, fa, InsertUp(s3, 1, s.level, fa, PathIdx(s, fa, key), s3.new, key))

\* Lines 245-246 and 254-279: the separator is the smallest key of the
\* new right leaf s3.new; insert it into the ancestors.
LeafSplitUp(s, fa, s3, key) ==
  RootIfSplit(s, fa, InsertUp(s3, 1, s.level, fa, PathIdx(s, fa, key), s3.new,
                              LeafSmallestKey(s3.pg[s3.new])))

\* Leaf split of work1 (lines 242-253): split leaf into the fresh leaf
\* s1.new, link it into the chain, then carry the separator up.
LeafSplitOf(s1, s, fa, leaf, key, sp) ==
  LeafSplitUp(s, fa,
              [s1 EXCEPT !.pg = LinkRight(s, [s1.pg EXCEPT ![leaf] = sp[1],
                                                           ![s1.new].slots = sp[2]],
                                          leaf, s1.new)],
              key)

LeafSplit(s, fa, leaf, id0, slot, bo) ==
  LeafSplitOf(Alloc(s, LeafSpecial), s, fa, leaf, slot.key,
              IF bo THEN SplitReplace(s.pg[leaf], id0, slot)
                    ELSE SplitInsert(s.pg[leaf], id0, slot))

\* Lines 211-219: Insert into an empty tree makes a one-slot root leaf.
FirstInsert(s, slot) ==
  LET s1 == Alloc(s, LeafSpecial)
  IN [s1 EXCEPT !.root = s1.new, !.level = 0,
                !.pg[s1.new] = AppendSlotUnchecked(@, slot), !.tuples = @ + 1]

\* Mutant: Insert also refuses the position after the last slot.
RejectedAtEnd(now, id0, bo) ==
  IF bo THEN id0 = SlotNum(now) ELSE id0 >= SlotNum(now)

\* Lines 233 and 239: Insert of a present key (Find1 = SlotNum+1) and
\* Update of an absent one (Find = SlotNum) return false.
Rejected(now, id0, bo) ==
  IF bo THEN id0 = SlotNum(now) ELSE id0 > SlotNum(now)

\* Mutant: the insert test forgets the new slot's offset entry.
LeafFitsNoOffset(now, id0, slot, bo) ==
  IF bo THEN IsReplacable(now, id0, slot) ELSE FreeSpace(now) >= SlotBytes(slot)

\* Lines 235 and 240: the slot fits in the leaf without a split.
LeafFits(now, id0, slot, bo) ==
  IF bo THEN IsReplacable(now, id0, slot) ELSE IsInsertable(now, slot)

\* Mutant: IncreaseTupleNum outside the `if (!bo)` branch.
CountedAlways(s, bo) == [s EXCEPT !.tuples = @ + 1]

\* Line 234: Insert counts the new tuple; Update does not.
Counted(s, bo) == IF bo THEN s ELSE [s EXCEPT !.tuples = @ + 1]

\* Lines 230-253 of work1, at slot id0 of the leaf fa[0].  Insert counts
\* the tuple (line 234) before it knows whether the leaf must split.
Work1Leaf(s, slot, bo, fa, id0) ==
  LET leaf == fa[0]  now == s.pg[leaf] IN
  IF Rejected(now, id0, bo) THEN [st |-> s, res |-> FALSE]
  ELSE IF LeafFits(now, id0, slot, bo)
       THEN [st |-> [Counted(s, bo) EXCEPT !.pg[leaf] =
                       IF bo THEN ReplaceSlot(now, id0, slot)
                             ELSE InsertBeforeSlot(now, id0, slot)],
             res |-> TRUE]
  ELSE [st |-> LeafSplit(Counted(s, bo), fa, leaf, id0, slot, bo), res |-> TRUE]

\* Lines 229-230: Find1 for Insert, Find for Update.
Work1At(s, slot, bo, fa) ==
  LET now == s.pg[fa[0]]
  IN Work1Leaf(s, slot, bo, fa, IF bo THEN Find(now, slot.key) ELSE Find1(now, slot.key))

\* work1 (lines 207-281): Insert when bo is FALSE, Update when TRUE.
\* Result: the store and the returned boolean.
Work1(s, key, v, bo) ==
  IF s.tuples = 0
  THEN IF bo THEN [st |-> s, res |-> FALSE]
       ELSE [st |-> FirstInsert(s, [key |-> key, val |-> v]), res |-> TRUE]
  ELSE Work1At(s, [key |-> key, val |-> v], bo, Path(s, key))

(***************************************************************************)
(* work2 (lines 308-428), the loop over levels 1..level.  `flag` is the   *)
(* code's: 0 the smallest key of the subtree changed to y, 1 the child at *)
(* id was freed, 2 the child split with new right page R and key y.       *)
(***************************************************************************)
DelLevel(s, i, fa, idx, flag, y, R) ==
  LET now == s.pg[fa[i]]  n == SlotNum(now) IN
  CASE flag = 0 /\ idx = 0 ->
         [st |-> s, flag |-> 0, y |-> y, R |-> R, brk |-> FALSE]
    [] flag = 0 /\ idx > 0 ->
         InnerSplitPut(Alloc(s, InnerSpecial), i, fa[i], R, y,
                       SplitReplace(now, idx - 1, [now.slots[idx] EXCEPT !.key = y]))
    [] flag = 1 /\ idx < n /\ idx = 0 ->
         LET s1 == [s EXCEPT !.pg[fa[i]] = DeleteSlot(now, 0)]
         IN [st |-> s1, flag |-> 0, y |-> InnerSmallestKey(s1.pg, fa[i], i),
             R |-> R, brk |-> FALSE]
    [] flag = 1 /\ idx < n /\ idx > 0 ->
         LET hh == [next |-> now.slots[idx].next, key |-> now.slots[idx + 1].key]
         IN [st |-> [s EXCEPT !.pg[fa[i]] =
                       InsertBeforeSlot(DeleteSlot(DeleteSlot(now, idx), idx - 1), idx - 1, hh)],
             flag |-> 0, y |-> y, R |-> R, brk |-> TRUE]
    [] flag = 1 /\ idx = n /\ n = 0 ->
         [st |-> FreePg(s, fa[i]), flag |-> 1, y |-> y, R |-> R, brk |-> FALSE]
    [] flag = 1 /\ idx = n /\ n > 0 ->
         LET s1 == [s EXCEPT !.pg[fa[i]] = [DeleteSlot(now, n - 1) EXCEPT !.sp0 = now.slots[n].next]]
         IN [st |-> s1, flag |-> 0, y |-> InnerSmallestKey(s1.pg, fa[i], i),
             R |-> R, brk |-> FALSE]
    [] flag = 2 -> InnerSplit(s, i, fa, idx, R, y)

\* A `break` of the loop leaves it with flag 0.
RECURSIVE DeleteUp(_, _, _, _, _, _, _, _), DeleteUpNext(_, _, _, _, _)
DeleteUp(s, i, lvl, fa, id, flag, y, R) ==
  IF i > lvl THEN [st |-> s, flag |-> flag, y |-> y, R |-> R, brk |-> FALSE]
  ELSE DeleteUpNext(i, lvl, fa, id, DelLevel(s, i, fa, id[i], flag, y, R))
DeleteUpNext(i, lvl, fa, id, r) ==
  IF r.brk THEN [r EXCEPT !.flag = 0]
  ELSE DeleteUp(r.st, i + 1, lvl, fa, id, r.flag, r.y, r.R)

\* Mutant: the slot is not deleted, only the count decreased.
DeleteAtNoSlot(s, leaf, id) == [s EXCEPT !.tuples = @ - 1]

\* Line 327: delete the slot from its leaf and count the tuple out.
DeleteAt(s, leaf, id) == [s EXCEPT !.pg[leaf] = DeleteSlot(@, id), !.tuples = @ - 1]

\* Lines 331-341: an emptied leaf is unlinked from the chain unless it is
\* the smallest or largest leaf, and freed.
Unlinked(s, s1, leaf) ==
  LET lp == s1.pg[leaf]
      inner == /\ s.level # 0
               /\ leaf # SmallestLeaf(s1.pg, s.root, s.level)
               /\ leaf # LargestLeaf(s1.pg, s.root, s.level)
  IN IF SlotNum(lp) # 0 THEN s1
     ELSE FreePg(IF inner THEN [s1 EXCEPT !.pg[lp.sp0].sp1 = lp.sp1,
                                          !.pg[lp.sp1].sp0 = lp.sp0]
                 ELSE s1, leaf)

\* Lines 329-426 after the first slot of leaf fa[0] was deleted (s1):
\* flag 1 if the leaf emptied, else flag 0 with its new smallest key.
Work2Up(s, key, fa, s1) ==
  LET lp == s1.pg[fa[0]]  emptied == SlotNum(lp) = 0
  IN RootIfSplit(s, fa, DeleteUp(Unlinked(s, s1, fa[0]), 1, s.level, fa,
                                 PathIdx(s, fa, key), IF emptied THEN 1 ELSE 0,
                                 IF emptied THEN 0 ELSE LeafSmallestKey(lp), 0))

\* Lines 322-328: an absent key returns nothing; deleting a slot other
\* than the first changes no separator and returns at once.
Work2Leaf(s, key, fa, id) ==
  LET old == s.pg[fa[0]] IN
  IF id = SlotNum(old) THEN [st |-> s, res |-> NoVal]
  ELSE [st |-> IF id > 0 THEN DeleteAt(s, fa[0], id)
               ELSE Work2Up(s, key, fa, DeleteAt(s, fa[0], id)),
        res |-> old.slots[id + 1].val]

\* Lines 310-322: the search path, then the slot of key in its leaf.
Work2At(s, key, fa) == Work2Leaf(s, key, fa, Find(s.pg[fa[0]], key))

\* work2 (lines 308-428).  Result: the store and the taken value.
Work2(s, key) ==
  IF s.tuples = 0 THEN [st |-> s, res |-> NoVal]
  ELSE Work2At(s, key, Path(s, key))

(***************************************************************************)
(* Reads: Get (lines 291-306) and the iterators Begin, LowerBound,        *)
(* UpperBound (431-505) with Iter::Next (149-162).  An iterator is         *)
(* <<page, slot>> or <<>> (is_empty); mxid_ is the largest leaf.           *)
(***************************************************************************)
\* Mutant: Get returns the slot at LowerBound without comparing its key.
GetInNoKeyCheck(p, k) ==
  IF LowerBound(p, k) = SlotNum(p) THEN NoVal ELSE p.slots[LowerBound(p, k) + 1].val

\* Lines 299-305: the value of key k in its leaf p, if any.
GetIn(p, k) == IF Find(p, k) = SlotNum(p) THEN NoVal ELSE p.slots[Find(p, k) + 1].val

Get(k) == IF tuples = 0 THEN NoVal ELSE GetIn(pg[Path(St, k)[0]], k)

MaxLeaf == IF level = 0 THEN root ELSE LargestLeaf(pg, root, level)

LeafLargestKey(p) == p.slots[SlotNum(p)].key

\* Mutant: the root is read as the largest leaf whatever the level.
MaxKeyNoDescent == IF tuples = 0 THEN 0 ELSE LeafLargestKey(pg[root])

\* MaxKey (lines 284-290): the largest key of the largest leaf, none (0)
\* for an empty tree.
MaxKey == IF tuples = 0 THEN 0 ELSE LeafLargestKey(pg[MaxLeaf])

IterBegin ==
  IF tuples = 0 THEN <<>>
  ELSE <<IF level = 0 THEN root ELSE SmallestLeaf(pg, root, level), 0>>

\* Mutant: a seek past the last slot of its leaf returns the end.
SeekInNoStep(leaf, k, bo) ==
  LET i == IF bo THEN UpperBound(pg[leaf], k) ELSE LowerBound(pg[leaf], k)
  IN IF i < SlotNum(pg[leaf]) THEN <<leaf, i>> ELSE <<>>

\* Lines 457-470 and 488-501: the slot in the search leaf, or the first
\* slot of the next leaf when the leaf has none left.
SeekIn(leaf, k, bo) ==
  LET i == IF bo THEN UpperBound(pg[leaf], k) ELSE LowerBound(pg[leaf], k)
  IN IF i < SlotNum(pg[leaf]) THEN <<leaf, i>>
     ELSE IF level = 0 \/ leaf = MaxLeaf THEN <<>>
     ELSE <<pg[leaf].sp1, 0>>

\* LowerBound (bo = FALSE) and UpperBound (bo = TRUE) iterators.
IterSeek(k, bo) == IF tuples = 0 THEN <<>> ELSE SeekIn(Path(St, k)[0], k, bo)

\* The slots an iterator yields through Cur/Next until is_empty, at most
\* `fuel` of them.  A slot index past the page's slots reads bytes that
\* are not a slot of that page: it yields the marker slot with key 0.
RECURSIVE Scan(_, _, _)
Scan(pid, i, fuel) ==
  LET p == pg[pid] IN
  IF fuel = 0 THEN <<>>
  ELSE <<IF i < SlotNum(p) THEN p.slots[i + 1] ELSE [key |-> 0, val |-> NoVal]>>
       \o (IF i < SlotNum(p) - 1 THEN Scan(pid, i + 1, fuel - 1)
           ELSE IF pid = MaxLeaf THEN <<>>
           ELSE Scan(p.sp1, 0, fuel - 1))

ScanIter(it) == IF it = <<>> THEN <<>> ELSE Scan(it[1], it[2], Cardinality(Keys) + 1)

(***************************************************************************)
(* Destroy (lines 187-205).                                                *)
(***************************************************************************)
\* dfs(x, y): free leaf x, or free the subtrees of the inner slots of x in
\* order, then that of its special child, then x itself.
RECURSIVE Dfs(_, _, _), DfsKids(_, _, _, _)
Dfs(s, x, y) ==
  IF y = 0 THEN FreePg(s, x)
  ELSE FreePg(DfsKids(s, Children(s.pg[x]), 1, y - 1), x)
DfsKids(s, cs, i, y) ==
  IF i > Len(cs) THEN s ELSE DfsKids(Dfs(s, cs[i], y), cs, i + 1, y)

\* Lines 201-206: the pages of the tree are freed only when TupleNum() is
\* not 0, then the meta page.  A free page is forgotten (FreePg), and the
\* meta page's level, root and tuple count with it.
Destroyed(s) ==
  [FreePg(IF s.tuples # 0 THEN Dfs(s, s.root, s.level) ELSE s, MetaPage)
     EXCEPT !.level = 0, !.root = 0, !.tuples = 0]

(***************************************************************************)
(* Operations.                                                             *)
(***************************************************************************)
\* The file stays within page ids 0..MaxPage.
Within(s) == s.num <= MaxPage + 1

Apply(s) ==
  /\ pg' = s.pg /\ free' = s.free /\ num' = s.num
  /\ level' = s.level /\ root' = s.root /\ tuples' = s.tuples

Insert(k, v) ==
  LET r == Work1(St, k, v, FALSE)
  IN ~destroyed /\ Within(r.st) /\ Apply(r.st) /\ ret' = r.res /\ UNCHANGED destroyed
     /\ call' = <<"Insert", k, v>>

Update(k, v) ==
  LET r == Work1(St, k, v, TRUE)
  IN ~destroyed /\ Within(r.st) /\ Apply(r.st) /\ ret' = r.res /\ UNCHANGED destroyed
     /\ call' = <<"Update", k, v>>

\* Delete returns whether a value was taken; Take returns the value.
Take(k) ==
  LET r == Work2(St, k)
  IN ~destroyed /\ Within(r.st) /\ Apply(r.st) /\ ret' = r.res /\ UNCHANGED destroyed
     /\ call' = <<"Take", k>>

\* BPlusTree::Destroy: no call follows it.
Destroy ==
  /\ ~destroyed
  /\ Apply(Destroyed(St))
  /\ destroyed' = TRUE
  /\ call' = <<"Destroy">>
  /\ UNCHANGED ret

\* BPlusTree::Create (lines 181-185) on a fresh PageManager.
Init ==
  /\ pg = [i \in PageIds |-> ZeroPage]
  /\ free = <<>>
  /\ num = FirstPage
  /\ level = 0 /\ root = 0 /\ tuples = 0
  /\ ret = FALSE
  /\ call = <<"Create">>
  /\ destroyed = FALSE

Next ==
  \E k \in Keys :
    \/ \E v \in Vals : Insert(k, v) \/ Update(k, v)
    \/ Take(k)
  \/ Destroy

Spec == Init /\ [][Next]_vars

(***************************************************************************)
(* Properties.                                                             *)
(***************************************************************************)

\* The leaf slots of the subtree of page id at level lvl, in tree order,
\* and of the subtrees of the children cs[i..] of an inner page.
RECURSIVE Collect(_, _), CollectKids(_, _, _)
Collect(id, lvl) ==
  IF lvl = 0 THEN pg[id].slots ELSE CollectKids(Children(pg[id]), 1, lvl - 1)
CollectKids(cs, i, lvl) ==
  IF i > Len(cs) THEN <<>> ELSE Collect(cs[i], lvl) \o CollectKids(cs, i + 1, lvl)

\* The pages of the subtree of page id.
RECURSIVE Reach(_, _)
Reach(id, lvl) ==
  {id} \cup IF lvl = 0 THEN {}
            ELSE UNION {Reach(Children(pg[id])[i], lvl - 1) : i \in 1..(SlotNum(pg[id]) + 1)}

Entries == IF tuples = 0 THEN <<>> ELSE Collect(root, level)
Live == IF tuples = 0 THEN {} ELSE Reach(root, level)

\* The map the tree stores.
ContentsOf(E) ==
  [k \in Keys |-> IF \E i \in 1..Len(E) : E[i].key = k
                 THEN E[CHOOSE i \in 1..Len(E) : E[i].key = k].val
                 ELSE NoVal]
Contents == ContentsOf(Entries)
TopKey == CHOOSE k \in Keys : \A j \in Keys : j <= k

\* The tree is a search tree (spec 8): the keys of the subtree under inner
\* slot i lie between strict_upper_bound_{i-1} (inclusive) and
\* strict_upper_bound_i (exclusive), which is what the UpperBound descent
\* of every call relies on, and the leaves hold the keys in strictly
\* increasing order.
RECURSIVE InRange(_, _, _, _)
InRange(id, lvl, lo, hi) ==
  LET p == pg[id]
      b(i) == IF i = 0 THEN lo ELSE IF i > SlotNum(p) THEN hi ELSE p.slots[i].key
  IN IF lvl = 0 THEN \A i \in 1..SlotNum(p) : lo <= p.slots[i].key /\ p.slots[i].key < hi
     ELSE \A i \in 1..(SlotNum(p) + 1) :
            b(i - 1) <= b(i) /\ InRange(Children(p)[i], lvl - 1, b(i - 1), b(i))
Increasing(E) == \A i \in 1..(Len(E) - 1) : E[i].key < E[i + 1].key
SearchTree ==
  /\ tuples > 0 => InRange(root, level, 0, TopKey + 1)
  /\ Increasing(Entries)

\* TupleNum() (the meta page counter) equals the number of stored keys,
\* across splits and the empty-tree shortcut of Insert.
TupleNumCounts == tuples = Len(Entries)

\* Get finds exactly the value the tree stores for each key.
GetAgrees == \A k \in Keys : Get(k) = Contents[k]

\* MaxKey, which follows the special (right-most) child pointers down to
\* a leaf and reads its last slot, returns the largest stored key, also
\* after deletes emptied and freed the leaves at the right edge.
MaxKeyAgrees ==
  LET present == {k \in Keys : Contents[k] # NoVal}
  IN MaxKey = IF present = {} THEN 0 ELSE Max(present)

\* Iteration from Begin() along the leaf chain (next_leaf) up to the
\* largest leaf yields every pair in increasing key order and stops.
IterationYieldsAll == ScanIter(IterBegin) = Entries

\* LowerBound(k) / UpperBound(k) iterate over exactly the pairs with key
\* >= k / > k, including when the search leaf has no such key and the
\* iterator moves to the next leaf.
SuffixesOf(E) ==
  \A k \in 0..(TopKey + 1) :
    /\ ScanIter(IterSeek(k, FALSE)) = SelectSeq(E, LAMBDA e : e.key >= k)
    /\ ScanIter(IterSeek(k, TRUE)) = SelectSeq(E, LAMBDA e : e.key > k)
SeekYieldsSuffix == SuffixesOf(Entries)

\* The pages the tree holds: its meta page until Destroy, and the pages
\* reachable from the root.
Owned == Live \cup (IF destroyed THEN {} ELSE {MetaPage})

\* Every page the tree allocated is either held by it or on the free
\* list, never both and never twice on the free list: no page is leaked
\* by the splits that allocate a right page and free it again, none is
\* freed twice by the delete path, and Destroy, which walks the tree only
\* when TupleNum() is not 0, returns every page the tree still holds.
PageAccounting ==
  /\ Owned \cap ToSet(free) = {}
  /\ Len(free) = Cardinality(ToSet(free))
  /\ Owned \cup ToSet(free) = MetaPage..(num - 1)

\* No page of the tree overflows (spec 3: free space >= 0), in particular
\* the right page that SplitInsert fills with AppendSlotUnchecked.
PagesFit == \A id \in Live : FreeSpace(pg[id]) >= 0

\* The tree implements an ordered map: every call is a step of the map's
\* operation of the same name and arguments, and returns what that
\* operation returns, so a refused Insert of an absent key, or an Update
\* that reports success without writing, is not a legal step.
Map == INSTANCE OrderedMap WITH kv <- Contents
RefinesOrderedMap == Map!ASpec
=============================================================================
