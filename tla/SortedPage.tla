----------------------------- MODULE SortedPage -----------------------------
(***************************************************************************)
(* SortedPage of src/src/storage/page-manager.hpp (lines 115-349): a page *)
(* of PageSize bytes holding a u16 slot count, the u16 end offsets of the *)
(* slots, and slot bodies growing down from a special trailer.            *)
(*                                                                         *)
(* A page is a record: `slots` (the parsed slots, in order), `e0` (Ends()[0], *)
(* the start of the special trailer) and `sp0`, `sp1` (the first and      *)
(* second pgid_t of the trailer).  Offsets are not stored: Ends()[i] is   *)
(* e0 minus the sizes of the first i slots, which is what the memmoves of *)
(* the code maintain.  Slot indices are 0-based as in the code; the i-th  *)
(* slot is slots[i+1].  A slot is a leaf slot [key, val] or an inner slot *)
(* [next, key] (key = strict_upper_bound).  Keys compare as integers.     *)
(***************************************************************************)
EXTENDS Integers, Sequences, SequencesExt

CONSTANTS
  PageSize,   \* Page::SIZE (4096 in the code; small here)
  KeyLen,     \* KeyLen[k]: the byte length of key k
  ValLen      \* ValLen[v]: the byte length of value v

SlotIdSz == 2   \* sizeof(slotid_t)
PgOffSz  == 2   \* sizeof(pgoff_t)
PgIdSz   == 4   \* sizeof(pgid_t)

IsLeafSlot(s) == "val" \in DOMAIN s

\* LeafSlotSize (bplus-tree.hpp 87-89) and InnerSlotSize (63-65).
SlotBytes(s) ==
  IF IsLeafSlot(s) THEN PgOffSz + KeyLen[s.key] + ValLen[s.val]
  ELSE PgIdSz + KeyLen[s.key]

SlotNum(p) == Len(p.slots)

\* The bytes of the first i slots of a slot sequence.
RECURSIVE SlotsBytes(_, _)
SlotsBytes(ss, i) == IF i = 0 THEN 0 ELSE SlotBytes(ss[i]) + SlotsBytes(ss, i - 1)

\* Ends()[i]: the end offset of slot i, i.e. e0 minus the first i slots.
Ends(p, i) == p.e0 - SlotsBytes(p.slots, i)

\* FreeSpace (lines 340-344).
FreeSpace(p) == Ends(p, SlotNum(p)) - SlotIdSz - PgOffSz - PgOffSz * SlotNum(p)

\* Init (lines 127-131): no slots, the trailer of `special` bytes at the
\* end; the trailer bytes themselves keep what the page held before.
InitPage(p, special) == [p EXCEPT !.slots = <<>>, !.e0 = PageSize - special]

IsInsertable(p, s) == FreeSpace(p) >= SlotBytes(s) + PgOffSz
IsReplacable(p, i, s) == FreeSpace(p) + SlotBytes(p.slots[i + 1]) >= SlotBytes(s)

\* gao1 (lines 158-166): binary search for the first slot not less than d.
RECURSIVE Gao1(_, _, _, _)
Gao1(p, l, r, d) ==
  IF l = r THEN l
  ELSE LET mid == (l + r) \div 2
       IN IF p.slots[mid + 1].key < d THEN Gao1(p, mid + 1, r, d)
                                      ELSE Gao1(p, l, mid, d)

\* gao2 (lines 167-175): binary search for the first slot greater than d.
RECURSIVE Gao2(_, _, _, _)
Gao2(p, l, r, d) ==
  IF l = r THEN l
  ELSE LET mid == (l + r) \div 2
       IN IF p.slots[mid + 1].key > d THEN Gao2(p, l, mid, d)
                                      ELSE Gao2(p, mid + 1, r, d)

LowerBound(p, d) == Gao1(p, 0, SlotNum(p), d)
UpperBound(p, d) == Gao2(p, 0, SlotNum(p), d)

\* Find (lines 178-182): the slot of key d, or SlotNum if absent.
Find(p, d) ==
  LET h == LowerBound(p, d)
  IN IF h < SlotNum(p) /\ p.slots[h + 1].key = d THEN h ELSE SlotNum(p)

\* Find1 (lines 183-187): the insert position of d, or SlotNum+1 if present.
Find1(p, d) ==
  LET h == LowerBound(p, d)
  IN IF h < SlotNum(p) /\ p.slots[h + 1].key = d THEN SlotNum(p) + 1 ELSE h

AppendSlotUnchecked(p, s) == [p EXCEPT !.slots = Append(@, s)]

\* InsertBeforeSlot (lines 202-218), called only where the slot fits.
InsertBeforeSlot(p, i, s) == [p EXCEPT !.slots = InsertAt(@, i + 1, s)]

\* ReplaceSlot (lines 244-254) and Replace (238-243); the code uses Replace
\* only to change the `next` of an inner slot, which keeps its size.
ReplaceSlot(p, i, s) == [p EXCEPT !.slots[i + 1] = s]

\* DeleteSlot (lines 274-281).
DeleteSlot(p, i) == [p EXCEPT !.slots = RemoveAt(@, i + 1)]

\* The test shared by SplitInsert (line 223) and SplitReplace (line 259):
\* does s fit in the left page after slot i-1?
FitsAt(p, i, s) ==
  Ends(p, i) - SlotIdSz - PgOffSz - PgOffSz * i >= PgOffSz + SlotBytes(s)

\* SplitInsert (lines 219-237): <<left page, slots appended to the right
\* page>>; the right part is empty when s fits without a split.
SplitInsert(p, i, s) ==
  LET n == SlotNum(p) IN
  IF IsInsertable(p, s) THEN <<InsertBeforeSlot(p, i, s), <<>>>>
  ELSE IF FitsAt(p, i, s)
       THEN <<[p EXCEPT !.slots = Append(SubSeq(@, 1, i), s)], SubSeq(p.slots, i + 1, n)>>
       ELSE <<[p EXCEPT !.slots = SubSeq(@, 1, i)], <<s>> \o SubSeq(p.slots, i + 1, n)>>

\* SplitReplace (lines 255-273): slot i is replaced by s.
SplitReplace(p, i, s) ==
  LET n == SlotNum(p) IN
  IF IsReplacable(p, i, s) THEN <<ReplaceSlot(p, i, s), <<>>>>
  ELSE IF FitsAt(p, i, s)
       THEN <<[p EXCEPT !.slots = Append(SubSeq(@, 1, i), s)], SubSeq(p.slots, i + 2, n)>>
       ELSE <<[p EXCEPT !.slots = SubSeq(@, 1, i)], <<s>> \o SubSeq(p.slots, i + 2, n)>>
=============================================================================
