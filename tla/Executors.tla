------------------------------ MODULE Executors ------------------------------
(***************************************************************************)
(* The Volcano executors of src/src/execution on the join pipeline        *)
(*   Limit(Distinct(Join(SeqScan L, SeqScan R)))                          *)
(* with Join the nested-loop JoinExecutor (join_executor.hpp) or the      *)
(* HashJoinExecutor (hashjoin_executor.hpp), as the plan says (`kind`).  *)
(* consumer calls Init once and then Next until it returns the empty      *)
(* InputTuplePtr; each call runs to completion, through the calls it makes *)
(* to its children, as one step.                                           *)
(*                                                                         *)
(* A row is [k, p]: the join / hash key and a payload; a joined row is    *)
(* [l, r].  predicate_ is the equi-join condition on k.  The executors'   *)
(* fields live in one record `ex`; jout, jend and dout there are history  *)
(* fields (what Join and Distinct have returned to their parents), not    *)
(* state of the code.                                                      *)
(***************************************************************************)
EXTENDS Integers, Sequences, SequencesExt

CONSTANTS
  Keys,       \* key values
  Payloads,   \* payload values
  Hash,       \* Hash[k]: utils::Hash8 of key k; a small range, so keys collide
  JoinKinds,  \* plan choices: "nl" (JoinExecutor), "hash" (HashJoinExecutor)
  Offset,     \* LimitExecutor::offset_
  LimitSize,  \* LimitExecutor::limit_size_
  MaxRows     \* the longest input table

Rows == [k : Keys, p : Payloads]
HashVals == {Hash[k] : k \in Keys}

VARIABLES
  L, R,    \* the rows the two SeqScans produce, in order
  kind,    \* the join executor the plan chose
  ex,      \* the executors' fields
  out,     \* the rows the consumer received
  phase    \* "built", "open" (after Init), "done" (Next returned empty)

vars == <<L, R, kind, ex, out, phase>>

\* SeqScanExecutor::Next (not in src/; spec 5): the row after position pos;
\* an exhausted scan keeps returning the empty pointer.
ScanNext(rows, pos) ==
  IF pos < Len(rows) THEN [pos |-> pos + 1, t |-> <<rows[pos + 1]>>]
  ELSE [pos |-> pos, t |-> <<>>]

\* predicate_: JoinExprFunction of the equi-join condition.
JoinPred(l, r) == l.k = r.k

\* The build loop of HashJoinExecutor::Init (lines 44-60): each left row
\* is appended to mp[hash of its key], in input order.
Buckets(left) == [h \in HashVals |-> SelectSeq(left, LAMBDA l : Hash[l.k] = h)]

\* JoinExecutor::Init (join lines 26-36) and HashJoinExecutor::Init
\* (hashjoin lines 37-66): Init both children, read all of ch_ into
\* left_ (and, for the hash join, into mp), clear ans; `it` is at its end.
JoinInit(s) ==
  [s EXCEPT !.lsc = Len(L), !.rsc = 0, !.left = L,
            !.mp = IF kind = "hash" THEN Buckets(L) ELSE [h \in HashVals |-> <<>>],
            !.ans = <<>>, !.it = 1]

\* The left rows a right row is tested against: all of left_ (join lines
\* 46-53) or the bucket of the right row's hash (hashjoin lines 76-88).
Candidates(s, r) == IF kind = "hash" THEN s.mp[Hash[r.k]] ELSE s.left

\* Mutant: ans is not cleared before it is refilled.
RefillNoClear(s, r) ==
  s.ans \o [i \in 1..Len(SelectSeq(Candidates(s, r), LAMBDA l : JoinPred(l, r))) |->
              [l |-> SelectSeq(Candidates(s, r), LAMBDA l : JoinPred(l, r))[i], r |-> r]]

\* Mutant: the hash join emits the whole bucket without the predicate.
RefillNoPred(s, r) ==
  [i \in 1..Len(Candidates(s, r)) |-> [l |-> Candidates(s, r)[i], r |-> r]]

\* ans.Clear() and the loop over the candidates (join lines 42-54,
\* hashjoin lines 74-116): the candidates satisfying predicate_,
\* concatenated with r, in order.
Refill(s, r) ==
  LET c == SelectSeq(Candidates(s, r), LAMBDA l : JoinPred(l, r))
  IN [i \in 1..Len(c) |-> [l |-> c[i], r |-> r]]

\* JoinExecutor::Next (lines 37-58), HashJoinExecutor::Next (67-120):
\* while `it` is at the end of ans, fetch the next right row (return
\* empty if there is none) and refill ans; then return *it++.
RECURSIVE JoinNext(_), JoinFetch(_, _)
JoinNext(s) ==
  IF s.it <= Len(s.ans)
  THEN [st |-> [s EXCEPT !.it = @ + 1, !.jout = Append(@, s.ans[s.it])],
        t |-> <<s.ans[s.it]>>]
  ELSE JoinFetch(s, ScanNext(R, s.rsc))
JoinFetch(s, c) ==
  IF c.t = <<>> THEN [st |-> [s EXCEPT !.rsc = c.pos, !.jend = TRUE], t |-> <<>>]
  ELSE JoinNext([s EXCEPT !.rsc = c.pos, !.ans = Refill(s, c.t[1]), !.it = 1])

\* Mutant: equal compares only the first column.
EqualFirstOnly(x, y) == x.l = y.l

\* DistinctExecutor::equal (lines 22-37): column-wise equality.
Equal(x, y) == x.l = y.l /\ x.r = y.r

\* DistinctExecutor::Next (lines 38-50): skip child rows equal to a row
\* already in ans; append a new row to ans and return it.
RECURSIVE DistinctNext(_), DistinctOn(_)
DistinctNext(s) == DistinctOn(JoinNext(s))
DistinctOn(r) ==
  IF r.t = <<>> THEN r
  ELSE IF \E i \in 1..Len(r.st.dans) : Equal(r.st.dans[i], r.t[1])
       THEN DistinctNext(r.st)
       ELSE [st |-> [r.st EXCEPT !.dans = Append(@, r.t[1]), !.dout = Append(@, r.t[1])],
             t |-> r.t]

\* LimitExecutor::Next line 21: while it < offset_, call ch_->Next() and
\* drop its result, whether or not the child is exhausted.
RECURSIVE Skip(_)
Skip(s) == IF s.lit >= Offset THEN s ELSE Skip([DistinctNext(s).st EXCEPT !.lit = @ + 1])

\* Mutant: the window check is off by one.
LimitAtOffByOne(s) ==
  IF s.lit > Offset + LimitSize THEN [st |-> s, t |-> <<>>]
  ELSE DistinctNext([s EXCEPT !.lit = @ + 1])

\* Lines 22-24: past the window return empty; else it++ and the child's row.
LimitAt(s) ==
  IF s.lit >= Offset + LimitSize THEN [st |-> s, t |-> <<>>]
  ELSE DistinctNext([s EXCEPT !.lit = @ + 1])

\* LimitExecutor::Next (lines 20-25).
LimitNext(s) == LimitAt(Skip(s))

\* LimitExecutor::Init (line 20) -> DistinctExecutor::Init (lines 19-21)
\* -> Join Init; the history fields start empty.
LimitInit(s) ==
  [JoinInit(s) EXCEPT !.dans = <<>>, !.lit = 0, !.jout = <<>>, !.jend = FALSE, !.dout = <<>>]

\* The executors as ExecutorGenerator::Generate builds them (executor.cpp
\* lines 88-152): no field is read before Init sets it.
Built ==
  [lsc |-> 0, rsc |-> 0, left |-> <<>>, mp |-> [h \in HashVals |-> <<>>],
   ans |-> <<>>, it |-> 1, dans |-> <<>>, lit |-> 0,
   jout |-> <<>>, jend |-> FALSE, dout |-> <<>>]

Init ==
  /\ L \in BoundedSeq(Rows, MaxRows)
  /\ R \in BoundedSeq(Rows, MaxRows)
  /\ kind \in JoinKinds
  /\ ex = Built
  /\ out = <<>>
  /\ phase = "built"

\* The consumer calls Init on the root.
Open ==
  /\ phase = "built"
  /\ ex' = LimitInit(ex)
  /\ phase' = "open"
  /\ UNCHANGED <<L, R, kind, out>>

\* The consumer calls Next on the root and stops at the empty pointer.
Pull ==
  /\ phase = "open"
  /\ LET r == LimitNext(ex)
     IN /\ ex' = r.st
        /\ IF r.t = <<>> THEN phase' = "done" /\ UNCHANGED out
           ELSE out' = Append(out, r.t[1]) /\ UNCHANGED phase
  /\ UNCHANGED <<L, R, kind>>

Next == Open \/ Pull

Spec == Init /\ [][Next]_vars

(***************************************************************************)
(* Properties.                                                             *)
(***************************************************************************)
\* The reference join: for each right row in order, the left rows with an
\* equal key in order (spec 5: at most one output row per pair).
RefJoin == FlattenSeq([j \in 1..Len(R) |->
             LET c == SelectSeq(L, LAMBDA l : l.k = R[j].k)
             IN [i \in 1..Len(c) |-> [l |-> c[i], r |-> R[j]]]])

\* The first occurrence of each row, in order.
Dedup(s) ==
  LET idx == SelectSeq([i \in 1..Len(s) |-> i], LAMBDA i : \A j \in 1..(i - 1) : s[j] # s[i])
  IN [n \in 1..Len(idx) |-> s[idx[n]]]

\* Rows offset+1 .. offset+limit.
Window(s) == SubSeq(s, Offset + 1, IF Len(s) < Offset + LimitSize THEN Len(s) ELSE Offset + LimitSize)

\* The rows Join hands to Distinct are, call by call, the reference join,
\* and all of it once Join has returned empty: the refill of ans per right
\* row (and, for the hash join, the bucket probe of colliding hashes)
\* neither drops, repeats nor invents a pair.
JoinStream ==
  /\ IsPrefix(ex.jout, RefJoin)
  /\ ex.jend => ex.jout = RefJoin

\* Distinct returns exactly the first occurrence of each row Join gave it,
\* including the rows Limit pulls and drops while it skips the offset.
DistinctStream == ex.dout = Dedup(ex.jout)

\* The consumer receives a prefix of rows offset+1..offset+limit of the
\* distinct join, and all of them once Next returned empty, also when the
\* offset lies past the end and Limit keeps calling an exhausted child.
QueryResult ==
  /\ IsPrefix(out, Window(Dedup(RefJoin)))
  /\ phase = "done" => out = Window(Dedup(RefJoin))
=============================================================================
