----------------------------- MODULE Aggregation -----------------------------
(***************************************************************************)
(* The pipeline OrderBy(Aggregate(SeqScan L)) of src/src/execution:       *)
(*   SELECT k, COUNT(1) FROM L GROUP BY k [HAVING COUNT(1) >= MinCount]   *)
(*   ORDER BY COUNT(1) [ASC | DESC]                                        *)
(* AggregateExecutor (aggregate_executor.hpp) groups rows by the hash of  *)
(* the group-by key; OrderByExecutor (orderby_executor.hpp) reads all its *)
(* input in Init and sorts an index vector.  Each Init / Next call is one *)
(* step.  The COUNT and HAVING functions (the expression evaluator, not   *)
(* in src/) are their results: the count of the group's rows, and         *)
(* count >= MinCount.  `aout` is a history variable: the rows Aggregate   *)
(* returned to OrderBy.                                                    *)
(***************************************************************************)
EXTENDS Integers, Sequences, SequencesExt

CONSTANTS
  Keys,       \* group-by key values
  Payloads,   \* other column values
  Hash,       \* Hash[k]: utils::Hash of the group-by key k
  MinCount,   \* the HAVING bound; 0 when there is no HAVING (predicate_ null)
  Asc,        \* order_by_exprs_[0].second
  MaxRows     \* the longest input table

Rows == [k : Keys, p : Payloads]

VARIABLES
  L,       \* the rows the SeqScan produces
  agg,     \* AggregateExecutor: mp (hash -> group id), groups (v3[id][0] and COUNT), it
  ord,     \* OrderByExecutor: ans, v, it
  aout,    \* history: rows Aggregate returned
  out,     \* rows the consumer received
  phase    \* "built", "open", "done"

vars == <<L, agg, ord, aout, out, phase>>

\* Mutant: a row of an existing group does not update its aggregate.
AddRowNoAggregate(a, row) ==
  IF Hash[row.k] \in DOMAIN a.mp THEN a
  ELSE [a EXCEPT !.mp = @ @@ (Hash[row.k] :> Len(a.groups) + 1),
                 !.groups = Append(@, [rep |-> row, cnt |-> 1])]

\* One iteration of the loop of AggregateExecutor::Init (lines 41-79):
\* a hash not yet in mp opens group tot++ whose first row is stored and
\* whose aggregates start (FirstEvaluate); otherwise the group of that
\* hash aggregates the row.  Nothing compares the group keys.
AddRow(a, row) ==
  IF Hash[row.k] \in DOMAIN a.mp
  THEN [a EXCEPT !.groups[a.mp[Hash[row.k]]].cnt = @ + 1]
  ELSE [a EXCEPT !.mp = @ @@ (Hash[row.k] :> Len(a.groups) + 1),
                 !.groups = Append(@, [rep |-> row, cnt |-> 1])]

RECURSIVE AddRows(_, _)
AddRows(a, i) == IF i > Len(L) THEN a ELSE AddRows(AddRow(a, L[i]), i + 1)

\* AggregateExecutor::Init (lines 37-82).
AggInit == AddRows([mp |-> <<>>, groups |-> <<>>, it |-> 0], 1)

\* HAVING: LastEvaluate of predicate_ on the group (line 89).
Having(g) == MinCount = 0 \/ g.cnt >= MinCount

\* AggregateExecutor::Next (lines 83-93): skip the groups HAVING drops;
\* return the group-by key of the group's first row and its COUNT.
RECURSIVE AggNext(_)
AggNext(a) ==
  IF a.it >= Len(a.groups) THEN [st |-> a, t |-> <<>>]
  ELSE IF Having(a.groups[a.it + 1])
       THEN [st |-> [a EXCEPT !.it = @ + 1],
             t |-> <<[k |-> a.groups[a.it + 1].rep.k, cnt |-> a.groups[a.it + 1].cnt]>>]
       ELSE AggNext([a EXCEPT !.it = @ + 1])

\* All rows of the child, as the read loop of OrderByExecutor::Init
\* (line 27) pulls them.
RECURSIVE Drain(_, _)
Drain(a, acc) == LET r == AggNext(a) IN IF r.t = <<>> THEN acc ELSE Drain(r.st, Append(acc, r.t[1]))

\* Mutant: ties are broken by descending index.
LessTieDesc(ans, x, y) ==
  IF ans[x].cnt # ans[y].cnt THEN (ans[x].cnt < ans[y].cnt) = Asc ELSE x > y

\* The comparator of std::sort (lines 30-54): (h1 < h2) ^ !asc on the
\* first differing order-by column, then x < y.
Less(ans, x, y) ==
  IF ans[x].cnt # ans[y].cnt THEN (ans[x].cnt < ans[y].cnt) = Asc ELSE x < y

\* OrderByExecutor::Init (lines 25-56) on the rows of Aggregate.
OrdInit(ans) == [ans |-> ans, v |-> SetToSortSeq(1..Len(ans), LAMBDA x, y : Less(ans, x, y)), it |-> 0]

Init ==
  /\ L \in BoundedSeq(Rows, MaxRows)
  /\ agg = [mp |-> <<>>, groups |-> <<>>, it |-> 0]
  /\ ord = [ans |-> <<>>, v |-> <<>>, it |-> 0]
  /\ aout = <<>>
  /\ out = <<>>
  /\ phase = "built"

\* The consumer calls Init: OrderBy's Init runs Aggregate's Init and
\* drains it.
Open ==
  /\ phase = "built"
  /\ agg' = [AggInit EXCEPT !.it = Len(AggInit.groups)]
  /\ aout' = Drain(AggInit, <<>>)
  /\ ord' = OrdInit(Drain(AggInit, <<>>))
  /\ phase' = "open"
  /\ UNCHANGED <<L, out>>

\* OrderByExecutor::Next (lines 57-61): ans[v[it++]] until it = v.size().
Pull ==
  /\ phase = "open"
  /\ IF ord.it = Len(ord.v)
     THEN phase' = "done" /\ UNCHANGED <<ord, out>>
     ELSE /\ out' = Append(out, ord.ans[ord.v[ord.it + 1]])
          /\ ord' = [ord EXCEPT !.it = @ + 1]
          /\ UNCHANGED phase
  /\ UNCHANGED <<L, agg, aout>>

Next == Open \/ Pull

Spec == Init /\ [][Next]_vars

(***************************************************************************)
(* Properties.                                                             *)
(***************************************************************************)
\* The number of rows of L with key k.
CountOf(k) == Len(SelectSeq(L, LAMBDA r : r.k = k))

\* The reference GROUP BY: one row per distinct key, in order of its first
\* appearance, with its count, filtered by HAVING.
RefGroups ==
  LET firsts == SelectSeq([i \in 1..Len(L) |-> i],
                          LAMBDA i : \A j \in 1..(i - 1) : L[j].k # L[i].k)
      all == [n \in 1..Len(firsts) |-> [k |-> L[firsts[n]].k, cnt |-> CountOf(L[firsts[n]].k)]]
  IN SelectSeq(all, LAMBDA g : MinCount = 0 \/ g.cnt >= MinCount)

\* Aggregate returns exactly one row per group-by key with the count of
\* that key's rows: the groups it keys by hash are the groups of keys.
GroupsByKey == phase # "built" => aout = RefGroups

\* The stable sort of s by cnt: the unique reordering in which cnt
\* follows the direction and equal counts keep their input order.
StableSorted(s) ==
  LET n == Len(s)
      ok(p) == \A i, j \in 1..n : i < j =>
                 \/ (s[p[i]].cnt < s[p[j]].cnt) = Asc /\ s[p[i]].cnt # s[p[j]].cnt
                 \/ s[p[i]].cnt = s[p[j]].cnt /\ p[i] < p[j]
      p == CHOOSE p \in Permutations(1..n) : ok(p)
  IN [i \in 1..n |-> s[p[i]]]

\* The consumer receives the rows of Aggregate in the stable order of
\* ORDER BY: a prefix while it pulls, all of them at the end.
OrderedStable ==
  /\ IsPrefix(out, StableSorted(aout))
  /\ phase = "done" => out = StableSorted(aout)
=============================================================================
