------------------------------ MODULE Optimizer ------------------------------
(***************************************************************************)
(* CostBasedOptimizer::Optimize (plan/cost_based_optimizer.cpp) on a       *)
(* left-deep join of N table scans: the first rule pass (push-down of join *)
(* predicates, conversion of key comparisons into a RangeScan), the leaf   *)
(* estimates of CardEstimator (plan/card_est.hpp), the bitmask DP over     *)
(* join subsets and GetPlan.  Each table has one column, its primary key;  *)
(* the column id of table t is t, and leaf k of the DP (0-based) is table  *)
(* k+1.  A table's contents are a set of key values, and the statistics    *)
(* are exact: tuple count, min, max and distinct rate 1.  The count-min  *)
(* sketch (catalog/stat.cpp) is built from the table's keys and hashes    *)
(* them with SketchHash, so colliding keys inflate its counts.            *)
(* The arrays f, g, id and cnt are static in the code, so they are state   *)
(* that persists from one Optimize call to the next.                       *)
(***************************************************************************)
EXTENDS Integers, Sequences, SequencesExt, FiniteSets, Bitwise

CONSTANTS
  N,             \* number of scans under the joins (n of the code)
  Vals,          \* key values a table may hold
  Lits,          \* integer literals the predicates compare the keys with
  NarrowWidth,   \* the "r-l <= 100" threshold of card_est.hpp:181
  Garbage,       \* values the uninitialised "double cnt[n]" may start with (any double)
  Queries,       \* the queries Optimize is called with
  MaxQueries,    \* bound on the number of Optimize calls
  SeqScanCost(_), HashJoinCost(_, _), NestloopJoinCost(_, _), \* cost_model.hpp
  SketchRows,    \* funcs_ of CountMinSketch
  SketchBuckets, \* buckets_ of CountMinSketch
  SketchHash(_, _) \* utils::Hash(key, (i+1)*233) of row i, before % buckets_

ASSUME N \in 1..4 /\ Vals \subseteq Int /\ Lits \subseteq Int

-----------------------------------------------------------------------------
(* Doubles.  A number is a normalised rational, 1e100 ("big": the DP's     *)
(* "no plan yet" and every finite sum that includes it), +inf or NaN.      *)
(* Every quantity is non-negative.  Comparisons with NaN are false, and    *)
(* std::min/std::max return their first argument when the comparison      *)
(* fails, as in the C++ library.                                           *)

RECURSIVE Gcd(_, _)
Gcd(a, b) == IF b = 0 THEN a ELSE Gcd(b, a % b)

Fin(a, b) == LET gc == Gcd(IF a < 0 THEN -a ELSE a, IF b < 0 THEN -b ELSE b)
                 s == IF b < 0 THEN -1 ELSE 1
             IN [k |-> "fin", n |-> (s * a) \div gc, d |-> (s * b) \div gc]
Num(a) == Fin(a, 1)
Big == [k |-> "big", n |-> 0, d |-> 1]
Inf == [k |-> "inf", n |-> 0, d |-> 1]
NaN == [k |-> "nan", n |-> 0, d |-> 1]
IsZero(x) == x.k = "fin" /\ x.n = 0

Rank == [fin |-> 0, big |-> 1, inf |-> 2]
Lt(x, y) ==
  /\ x.k # "nan" /\ y.k # "nan"
  /\ IF x.k = "fin" /\ y.k = "fin" THEN x.n * y.d < y.n * x.d
                                   ELSE Rank[x.k] < Rank[y.k]

Plus(x, y) ==
  CASE x.k = "nan" \/ y.k = "nan" -> NaN
    [] x.k = "inf" \/ y.k = "inf" -> Inf
    [] x.k = "big" \/ y.k = "big" -> Big
    [] OTHER -> Fin(x.n * y.d + y.n * x.d, x.d * y.d)

Times(x, y) ==
  CASE x.k = "nan" \/ y.k = "nan" -> NaN
    [] IsZero(x) \/ IsZero(y) -> IF x.k = "inf" \/ y.k = "inf" THEN NaN ELSE Num(0)
    [] x.k = "inf" \/ y.k = "inf" -> Inf
    [] x.k = "big" \/ y.k = "big" -> Big
    [] OTHER -> Fin(x.n * y.n, x.d * y.d)

\* Sizes and rates never hold 1e100, so Div has no case for it.
Div(x, y) ==
  CASE x.k = "nan" \/ y.k = "nan" -> NaN
    [] IsZero(y) -> IF IsZero(x) THEN NaN ELSE Inf
    [] y.k = "inf" -> IF x.k = "inf" THEN NaN ELSE Num(0)
    [] x.k = "inf" -> Inf
    [] x.k = "fin" /\ y.k = "fin" -> Fin(x.n * y.d, x.d * y.n)

MinStd(a, b) == IF Lt(b, a) THEN b ELSE a
MaxStd(a, b) == IF Lt(a, b) THEN b ELSE a

-----------------------------------------------------------------------------
(* Predicates.  l and r name the table whose key column is the left and    *)
(* the right operand, 0 a literal, whose value is val.  Both columns: a    *)
(* join predicate; one column: a comparison with a literal.                *)

Ops == {"LT", "GT", "LEQ", "GEQ", "EQ"}
Pred == [l : 0..N, r : 0..N, op : Ops, val : Lits]
Tables(p) == {p.l, p.r} \ {0}
IsLiteralPred(p) == (p.l = 0) # (p.r = 0)
Mirror == [LT |-> "GT", GT |-> "LT", LEQ |-> "GEQ", GEQ |-> "LEQ", EQ |-> "EQ"]

\* A summary (CardEstimator::Summary): the size and the distinct rate of
\* each column, keyed by column id.
EmptySummary == [size |-> Num(0), rate |-> [c \in {} |-> Num(0)]]

-----------------------------------------------------------------------------
(* ConvertToRangeScanRule and the same fold in EstimateTable.              *)

\* The SeqScan has a comparison of its key with a literal.
RangeMatch(ps) == \E i \in DOMAIN ps : IsLiteralPred(ps[i])

NoRange == [L |-> 0, R |-> 0, e1 |-> TRUE, e2 |-> TRUE, f1 |-> FALSE, f2 |-> FALSE]

\* Mutant: a strict bound never replaces an equal inclusive one.
LowerTieKept(st, cur, incl) ==
  IF st.e1 \/ cur > st.L THEN [st EXCEPT !.e1 = FALSE, !.L = cur, !.f1 = incl] ELSE st

\* key > cur (incl FALSE) or key >= cur (incl TRUE): a strict bound
\* replaces an equal one, an inclusive bound only a smaller one.
Lower(st, cur, incl) ==
  IF st.e1 \/ (IF incl THEN cur > st.L ELSE cur >= st.L)
  THEN [st EXCEPT !.e1 = FALSE, !.L = cur, !.f1 = incl] ELSE st

Upper(st, cur, incl) ==
  IF st.e2 \/ (IF incl THEN cur < st.R ELSE cur <= st.R)
  THEN [st EXCEPT !.e2 = FALSE, !.R = cur, !.f2 = incl] ELSE st

\* One predicate of the loop; "literal op key" is "key op' literal" with
\* the operator mirrored, and a predicate with no literal is skipped.
FoldStep(st, p) ==
  IF ~IsLiteralPred(p) THEN st
  ELSE LET op == IF p.r = 0 THEN p.op ELSE Mirror[p.op]
       IN CASE op = "GT"  -> Lower(st, p.val, FALSE)
            [] op = "GEQ" -> Lower(st, p.val, TRUE)
            [] op = "LT"  -> Upper(st, p.val, FALSE)
            [] op = "LEQ" -> Upper(st, p.val, TRUE)
            [] op = "EQ"  -> Upper(Lower(st, p.val, TRUE), p.val, TRUE)

\* The bounds (L, flag1), (R, flag2) the RangeScan node gets.
RangeFold(ps) == FoldLeft(FoldStep, NoRange, ps)

-----------------------------------------------------------------------------
(* CardEstimator::EstimateTable for table t with contents T.               *)

\* A missing bound is the column's min or max, inclusive.
Filled(st, T) ==
  [l |-> IF st.e1 THEN Min(T) ELSE st.L, f1 |-> st.e1 \/ st.f1,
   r |-> IF st.e2 THEN Max(T) ELSE st.R, f2 |-> st.e2 \/ st.f2]

\* The cell of row i that key x lands in.
Bucket(i, x) == SketchHash(i, x) % SketchBuckets

\* CountMinSketch::AddCount(key, 1) for every key of the table, row by
\* row (the load pass that calls it is outside src/, spec 4.5): cell b of
\* row i counts the keys of T that row i hashes to b.
SketchCell(T, i, b) == Cardinality({x \in T : Bucket(i, x) = b})

\* Mutant: only the first row is read.
GetFreqCountFirstRow(T, j) == SketchCell(T, 0, Bucket(0, j))

\* CountMinSketch::GetFreqCount: the least of the key's cells over the rows.
GetFreqCount(T, j) == Min({SketchCell(T, i, Bucket(i, j)) : i \in 0..(SketchRows - 1)})

\* Mutant: the loop starts at l+1 even when l is the column minimum.
NarrowProbesFromNext(b) == (b.l + 1)..(b.r - 1 + (IF b.f2 THEN 1 ELSE 0))

\* The integers the loop of a narrow range probes the sketch with.
NarrowProbes(b) == (b.l + 1 - (IF b.f1 THEN 1 ELSE 0))..(b.r - 1 + (IF b.f2 THEN 1 ELSE 0))

\* How many probes have a non-zero sketch count (cnt[i] += 1).
NarrowHits(T, b) == Cardinality({j \in NarrowProbes(b) : GetFreqCount(T, j) > 0})

\* std::max(std::min(cnt/size, 1.0), 1.0/size)
ClampRate(count, size) == MaxStd(MinStd(Div(count, size), Num(1)), Div(Num(1), size))

Summary(t, size, rate) == [size |-> size, rate |-> [c \in {t} |-> rate]]

\* The general range: (r-l)/(max-min) scales both the size and the count.
GeneralRange(t, T, b) ==
  LET sum == Div(Num(b.r - b.l), Num(Max(T) - Min(T)))
      size == Times(Num(Cardinality(T)), sum)
  IN Summary(t, size, ClampRate(Times(Times(sum, Num(1)), Num(Cardinality(T))), size))

NarrowRange(t, T, b, gb) ==
  LET hits == NarrowHits(T, b)
      sum == MapThenSumSet(LAMBDA j : GetFreqCount(T, j), NarrowProbes(b))
      size == Times(Num(Cardinality(T)), Div(Num(sum), Num(Cardinality(T))))
  IN IF gb + hits = 0 THEN Summary(t, Num(0), Num(1))
     ELSE Summary(t, size, ClampRate(Num(gb + hits), size))

EstimateTable(t, ps, T, gb) ==
  LET st == RangeFold(ps)
      b == Filled(st, T)
      n0 == Num(Cardinality(T))
  IN CASE T = {} -> Summary(t, n0, Num(1))
       [] st.e1 /\ st.e2 -> Summary(t, n0, ClampRate(Times(Num(1), n0), n0))
       [] b.l = b.r ->
            IF ~b.f1 \/ ~b.f2 \/ GetFreqCount(T, b.l) = 0 THEN Summary(t, Num(0), Num(1))
            ELSE LET size == Times(n0, Div(Num(GetFreqCount(T, b.l)), n0))
                 IN Summary(t, size, ClampRate(Num(1), size))
       [] b.r - b.l <= NarrowWidth -> NarrowRange(t, T, b, gb)
       [] b.l > b.r -> Summary(t, Num(0), Num(1))
       [] OTHER -> GeneralRange(t, T, b)

-----------------------------------------------------------------------------
(* CardEstimator::EstimateJoinEq and the DP's hash-join test.              *)

\* The predicate compares a column of one side with a column of the other.
Spans(p, A, B) ==
  p.l # 0 /\ p.r # 0 /\ \/ p.l \in DOMAIN A.rate /\ p.r \in DOMAIN B.rate
                        \/ p.l \in DOMAIN B.rate /\ p.r \in DOMAIN A.rate

\* Mutant: the flag is set by any predicate spanning the sides.
HashJoinableNoEq(jp, A, B) == \E k \in DOMAIN jp : Spans(jp[k], A, B)

\* flag of the DP: some equality predicate spans the two sides.
HashJoinable(jp, A, B) == \E k \in DOMAIN jp : jp[k].op = "EQ" /\ Spans(jp[k], A, B)

\* The first equality predicate spanning build and probe divides the cross
\* product by max(|build|*d_build, |probe|*d_probe), and both columns get
\* min(d_build, d_probe).
EstimateJoinEq(jp, build, probe) ==
  LET size == Times(build.size, probe.size)
      rate == build.rate @@ probe.rate
      span == {k \in DOMAIN jp : jp[k].op = "EQ" /\ Spans(jp[k], build, probe)}
  IN IF IsZero(size) \/ span = {} THEN [size |-> size, rate |-> rate]
     ELSE LET p == jp[Min(span)]
              a == IF p.l \in DOMAIN build.rate THEN p.l ELSE p.r
              b == IF p.l \in DOMAIN build.rate THEN p.r ELSE p.l
              m == MinStd(build.rate[a], probe.rate[b])
          IN [size |-> Div(size, MaxStd(Times(build.size, build.rate[a]),
                                        Times(probe.size, probe.rate[b]))),
              rate |-> [rate EXCEPT ![a] = m, ![b] = m]]

\* res = f[j] + f[i^j] + (hash join or nested loop cost).
JoinCost(jp, A, fa, B, fb) ==
  Plus(Plus(fa, fb), IF HashJoinable(jp, A, B) THEN HashJoinCost(A.size, B.size)
                     ELSE NestloopJoinCost(A.size, fb))

-----------------------------------------------------------------------------
(* The first Apply: PushDownJoinPredicateRule on the left-deep tree.  Join *)
(* k (2..N) has the joins of tables 1..k-1 as ch_ and scan k as ch2_.      *)

\* Mutant: a predicate counts as off a side when its left operand is.
PushDownSplitLeftOnly(ps, Ls, Rs) ==
  LET Off(p, S) == p.l \notin S
  IN [v2 |-> SelectSeq(ps, LAMBDA p : Off(p, Ls)),
      v1 |-> SelectSeq(ps, LAMBDA p : ~Off(p, Ls) /\ Off(p, Rs)),
      v  |-> SelectSeq(ps, LAMBDA p : ~Off(p, Ls) /\ ~Off(p, Rs))]

\* Split a join's predicates: those touching no ch_ table go to a filter
\* over ch2_ (v2), the rest touching no ch2_ table to a filter over ch_
\* (v1), and the others stay (v).  Without v1 and v2 Match fails and the
\* join is unchanged, which is the same result.
PushDownSplit(ps, Ls, Rs) ==
  LET Off(p, S) == p.l \notin S /\ p.r \notin S
  IN [v2 |-> SelectSeq(ps, LAMBDA p : Off(p, Ls)),
      v1 |-> SelectSeq(ps, LAMBDA p : ~Off(p, Ls) /\ Off(p, Rs)),
      v  |-> SelectSeq(ps, LAMBDA p : ~Off(p, Ls) /\ ~Off(p, Rs))]

\* Apply goes top-down; PushDownFilter (spec 4.6) merges each new filter
\* into the join or scan under it.  leaf[t]: the predicates of scan t;
\* join[k]: those of join k.
RECURSIVE PushFrom(_, _, _)
PushFrom(ps, k, place) ==
  IF k = 1 THEN [place EXCEPT !.leaf[1] = ps]
  ELSE LET s == PushDownSplit(ps, 1..k-1, {k})
       IN PushFrom(s.v1, k - 1, [place EXCEPT !.leaf[k] = s.v2, !.join[k] = s.v])

NoPlacement == [leaf |-> [t \in 1..N |-> <<>>], join |-> [k \in 2..N |-> <<>>]]

\* The WHERE predicates start at the top join (PushDownFilter).
Push(where) == PushFrom(where, N, NoPlacement)

\* dfs1: the predicates of the joins, top join first.
RECURSIVE Dfs1(_, _)
Dfs1(place, k) == IF k < 2 THEN <<>> ELSE place.join[k] \o Dfs1(place, k - 1)

-----------------------------------------------------------------------------
(* The DP over subsets and GetPlan.                                        *)

Full == 2^N - 1
Masks == 0..Full
cntOf[i \in Masks] == IF i = 0 THEN 0 ELSE cntOf[i \div 2] + (i % 2)
\* The leaf of a one-bit mask.
LeafOf(i) == CHOOSE j \in 0..N-1 : i = 2^j

\* An entry of the arrays for one mask: f[i], g[i] and id[i].
Entry(st, i) == [f |-> st.f[i], g |-> st.g[i], id |-> st.id[i]]

\* Mutant: f[i] keeps its static value instead of 1e100.
DPMaskNoReset(lv, st, i) ==
  IF cntOf[i] = 1
  THEN [id |-> LeafOf(i), g |-> lv[LeafOf(i)], f |-> SeqScanCost(lv[LeafOf(i)].size)]
  ELSE Entry(st, i)

\* Mask i on entering the outer loop: a leaf's summary and scan cost, or
\* f[i]=1e100 with g[i] and id[i] as the static arrays hold them.
DPMask(lv, st, i) ==
  IF cntOf[i] = 1
  THEN [id |-> LeafOf(i), g |-> lv[LeafOf(i)], f |-> SeqScanCost(lv[LeafOf(i)].size)]
  ELSE [Entry(st, i) EXCEPT !.f = Big]

\* One iteration of the submask loop of mask i: keep split j if cheaper.
\* tab holds the final entries of the smaller masks; i^j is i-j.
DPSplit(jp, i, j, tab, e) ==
  LET res == JoinCost(jp, tab[j].g, tab[j].f, tab[i - j].g, tab[i - j].f)
  IN IF Lt(res, e.f)
     THEN [f |-> res, g |-> EstimateJoinEq(jp, tab[j].g, tab[i - j].g), id |-> j]
     ELSE e

\* for (j=(i-1)&i; j; j=(j-1)&i): the submasks of i, largest first.
RECURSIVE SplitLoop(_, _, _, _, _)
SplitLoop(jp, i, tab, e, j) ==
  IF j = 0 THEN e ELSE SplitLoop(jp, i, tab, DPSplit(jp, i, j, tab, e), (j - 1) & i)

\* for (i=1; i<(1<<n); i++), starting from the static arrays st.  Mask i
\* reads only its own entry and those of its proper submasks, which are
\* smaller and final, so the loop is a function over masks.
DP(jp, lv, st) ==
  LET tab[i \in Masks] ==
        IF i = 0 THEN Entry(st, 0)
        ELSE IF cntOf[i] = 1 THEN DPMask(lv, st, i)
        ELSE SplitLoop(jp, i, tab, DPMask(lv, st, i), (i - 1) & i)
  IN [f |-> [i \in Masks |-> tab[i].f], g |-> [i \in Masks |-> tab[i].g],
      id |-> [i \in Masks |-> tab[i].id]]

\* A plan node: its type, the leaf of a scan, its children (ch_, ch2_) and
\* its predicate_.
Scan(k) == [op |-> "scan", leaf |-> k, ch |-> <<>>, pred |-> <<>>]
Join(a, b) == [op |-> "join", leaf |-> 0, ch |-> <<a, b>>, pred |-> <<>>]
\* GetPlan never returns: the recursion overflows the stack.
Overflow == [op |-> "overflow", leaf |-> 0, ch |-> <<>>, pred |-> <<>>]
\* A valid id walk is at most N deep; deeper means it never ends.
MaxDepth == N + 1

RECURSIVE GetPlan(_, _, _)
GetPlan(ids, S, fuel) ==
  CASE fuel = 0 -> Overflow
    [] cntOf[S] = 1 -> Scan(ids[S])
    [] OTHER -> LET a == GetPlan(ids, ids[S], fuel - 1)
                    b == GetPlan(ids, S - ids[S], fuel - 1)
                IN IF Overflow \in {a, b} THEN Overflow ELSE Join(a, b)

-----------------------------------------------------------------------------
(* The second Apply (lines 200-207) on the tree GetPlan built, with the    *)
(* rules PushDownFilter, PushDownJoinPredicate, ConvertToHashJoin and      *)
(* ConvertToRangeScan.  The last never matches here: the first Apply has   *)
(* turned every scan with a key comparison into a RangeScan.               *)

\* table_bitset_: the tables under a node.
RECURSIVE TabsOf(_)
TabsOf(x) == IF x.op = "scan" THEN {x.leaf + 1} ELSE UNION {TabsOf(x.ch[i]) : i \in DOMAIN x.ch}

OffSide(p, S) == p.l \notin S /\ p.r \notin S
Across(p, A, B) == (p.l \in A /\ p.r \in B) \/ (p.l \in B /\ p.r \in A)
IsJoin(x) == x.op \in {"join", "hashjoin"}

\* PushDownJoinPredicateRule::Match (lines 14-50), alike for Join and
\* HashJoin: some predicate touches no table of one side.
PDMatch(x) ==
  /\ IsJoin(x)
  /\ \E i \in DOMAIN x.pred : OffSide(x.pred[i], TabsOf(x.ch[1])) \/ OffSide(x.pred[i], TabsOf(x.ch[2]))

Filter(ps, c) == [op |-> "filter", leaf |-> 0, ch |-> <<c>>, pred |-> ps]

\* Transform (lines 51-137; the HashJoin branch is the Join branch again):
\* new filters over the children, the rest stays at the join.
PDTransform(x) ==
  LET s == PushDownSplit(x.pred, TabsOf(x.ch[1]), TabsOf(x.ch[2]))
  IN [x EXCEPT !.ch = <<IF s.v1 = <<>> THEN x.ch[1] ELSE Filter(s.v1, x.ch[1]),
                        IF s.v2 = <<>> THEN x.ch[2] ELSE Filter(s.v2, x.ch[2])>>,
               !.pred = s.v]

\* PushDownFilterRule (not in src/; spec 4.6): a filter merges into the
\* node under it.
FilterMatch(x) == x.op = "filter"
FilterMerge(x) == [x.ch[1] EXCEPT !.pred = @ \o x.pred]

\* ConvertToHashJoinRule (not in src/; spec 4.6): a Join with an equality
\* between a column of each side becomes a HashJoin, predicates kept.
HJMatch(x) ==
  /\ x.op = "join"
  /\ \E i \in DOMAIN x.pred : x.pred[i].op = "EQ" /\ Across(x.pred[i], TabsOf(x.ch[1]), TabsOf(x.ch[2]))
HJConvert(x) == [x EXCEPT !.op = "hashjoin"]

\* One pass of `for (auto& a : rules)` (lines 20-25): each rule that
\* matches transforms the node the previous rule left.
RulePass(x) ==
  LET x1 == IF FilterMatch(x) THEN FilterMerge(x) ELSE x
      x2 == IF PDMatch(x1) THEN PDTransform(x1) ELSE x1
  IN [node |-> IF HJMatch(x2) THEN HJConvert(x2) ELSE x2,
      changed |-> FilterMatch(x) \/ PDMatch(x1) \/ HJMatch(x2)]

\* while (true) { ... if (!flag) break; } (lines 19-28).
RECURSIVE RuleLoop(_)
RuleLoop(x) == LET r == RulePass(x) IN IF r.changed THEN RuleLoop(r.node) ELSE x

\* Mutant: Apply returns without descending into the children.
ApplyNoRecurse(x) == RuleLoop(x)

\* Apply (lines 16-37): the rules to a fixpoint at the node, then Apply on
\* ch_ and ch2_.
RECURSIVE ApplyRules(_)
ApplyRules(x) ==
  LET y == RuleLoop(x) IN [y EXCEPT !.ch = [i \in DOMAIN y.ch |-> ApplyRules(y.ch[i])]]

\* GetPlan puts every join predicate on the join of the full mask (line
\* 156), then the second Apply runs on the result.
SecondApply(tr, vv) == IF tr.op = "join" THEN ApplyRules([tr EXCEPT !.pred = vv]) ELSE tr

-----------------------------------------------------------------------------
(* State.  Static arrays start zeroed, as C++ static storage does.         *)

VARIABLES
  asked,  \* <<q>>: the query the caller has planned and not yet optimised
  query,  \* the query of the last Optimize call
  nq,     \* Optimize calls so far
  pl,     \* predicate placement after the first Apply
  scan,   \* per table: ConvertToRangeScan matched, and the range it built
  h,      \* static h[0..n-1]: the leaf summaries
  v,      \* static v: the join predicates
  f, g, id, cnt,  \* static DP arrays over the masks
  plan,   \* GetPlan's result
  final   \* the plan Optimize returns, after the second Apply

vars == <<asked, query, nq, pl, scan, h, v, f, g, id, cnt, plan, final>>

Init ==
  /\ asked = <<>>
  /\ query = [where |-> <<>>, tab |-> [t \in 1..N |-> {}], gb |-> 0]
  /\ nq = 0
  /\ pl = NoPlacement
  /\ scan = [t \in 1..N |-> [ranged |-> FALSE, range |-> NoRange]]
  /\ h = [k \in 0..N-1 |-> EmptySummary]
  /\ v = <<>>
  /\ f = [i \in Masks |-> Num(0)]
  /\ g = [i \in Masks |-> EmptySummary]
  /\ id = [i \in Masks |-> 0]
  /\ cnt = [i \in Masks |-> 0]
  /\ plan = Scan(0)
  /\ final = Scan(0)

\* After the DP: GetPlan of the full mask.
Finish(q, pp, hv, vv, st) ==
  /\ query' = q /\ pl' = pp /\ h' = hv /\ v' = vv
  /\ scan' = [t \in 1..N |-> [ranged |-> RangeMatch(pp.leaf[t]),
                             range |-> RangeFold(pp.leaf[t])]]
  /\ f' = st.f /\ g' = st.g /\ id' = st.id /\ cnt' = cntOf
  /\ plan' = GetPlan(st.id, Full, MaxDepth)
  /\ final' = SecondApply(GetPlan(st.id, Full, MaxDepth), vv)
  /\ nq' = nq + 1
  /\ asked' = <<>>

\* dfs2 estimates the leaves left to right; the DP starts from the static
\* arrays as the previous call left them.
Estimate(q, pp, vv) ==
  \E hv \in {[k \in 0..N-1 |-> EstimateTable(k + 1, pp.leaf[k + 1], q.tab[k + 1], q.gb)]} :
  \E st \in {DP(vv, hv, [f |-> f, g |-> g, id |-> id])} :
    Finish(q, pp, hv, vv, st)

\* One call of CostBasedOptimizer::Optimize on a query that passes
\* CheckCondition: the first Apply, dfs1, dfs2, the DP and GetPlan.
Optimize ==
  /\ asked # <<>>
  /\ LET q == Head(asked)  pp == Push(q.where) IN Estimate(q, pp, Dfs1(pp, N))

\* The caller (spec 4.6: parse, bind and the logical plan) hands a query
\* that passes CheckCondition to the optimizer.
Ask ==
  /\ asked = <<>>
  /\ nq < MaxQueries
  /\ \E q \in Queries : asked' = <<q>>
  /\ UNCHANGED <<query, nq, pl, scan, h, v, f, g, id, cnt, plan, final>>

Next == Ask \/ Optimize

Spec == Init /\ [][Next]_vars

-----------------------------------------------------------------------------
(* Properties.                                                             *)

Holds(p, x) ==
  LET a == IF p.l = 0 THEN p.val ELSE x
      b == IF p.r = 0 THEN p.val ELSE x
  IN CASE p.op = "LT" -> a < b [] p.op = "GT" -> a > b [] p.op = "LEQ" -> a <= b
       [] p.op = "GEQ" -> a >= b [] p.op = "EQ" -> a = b

Count(s, p) == Cardinality({i \in DOMAIN s : s[i] = p})

\* PushDownJoinPredicateRule with PushDownFilter: after the first Apply
\* every WHERE predicate sits at exactly one node, a scan holds only
\* predicates on its own table, and join k only predicates that need
\* table k and an earlier table: the lowest node that has their columns.
PushDownPlaces ==
  nq > 0 =>
    /\ \A t \in 1..N : \A i \in DOMAIN pl.leaf[t] : Tables(pl.leaf[t][i]) = {t}
    /\ \A k \in 2..N : \A i \in DOMAIN pl.join[k] :
         k \in Tables(pl.join[k][i]) /\ Tables(pl.join[k][i]) \cap 1..k-1 # {}
    /\ \A i \in DOMAIN query.where :
         LET p == query.where[i]
         IN Count(query.where, p) = Count(Dfs1(pl, N), p)
                                    + SumFunction([t \in 1..N |-> Count(pl.leaf[t], p)])

Probe == (Min(Lits) - 1)..(Max(Lits) + 1)
InRange(x, rg) ==
  /\ rg.e1 \/ (IF rg.f1 THEN x >= rg.L ELSE x > rg.L)
  /\ rg.e2 \/ (IF rg.f2 THEN x <= rg.R ELSE x < rg.R)

\* ConvertToRangeScanRule: the RangeScan's bounds, with their inclusivity
\* flags and empty sentinels, admit exactly the keys that satisfy all the
\* scan's comparisons with literals, including ties between a strict and
\* an inclusive bound on the same literal.
RangeExact ==
  nq > 0 =>
    \A t \in 1..N : scan[t].ranged =>
      \A x \in Probe : InRange(x, scan[t].range)
                       <=> \A i \in DOMAIN pl.leaf[t] : Holds(pl.leaf[t][i], x)

Matching(t) == {x \in query.tab[t] : \A i \in DOMAIN pl.leaf[t] : Holds(pl.leaf[t][i], x)}

\* Some row of the sketch puts key j in a cell of its own among T's keys.
Separated(T, j) == \E i \in 0..(SketchRows - 1) : \A x \in T \ {j} : Bucket(i, x) # Bucket(i, j)

\* The sketch counts key j (GetFreqCount > 0): in every row some key of T
\* shares j's cell.
SketchHit(T, j) == \A i \in 0..(SketchRows - 1) : \E x \in T : Bucket(i, x) = Bucket(i, j)

\* EstimateTable with the count-min sketch: whenever no general range is
\* involved (no predicate, a point, or at most NarrowWidth integers between
\* the filled bounds), the estimated size never falls below the number of
\* rows that satisfy the scan's predicates, and equals it when every
\* integer inside the bounds has a row of the sketch to itself.  The one
\* exception is the uninitialised cnt[i] of a narrow range: a negative
\* value that cancels the hits exactly takes the cnt==0 return (line 190)
\* and the size is 0; any other value leaves the size as it would be.
EstimateCounts ==
  nq > 0 =>
    \A t \in 1..N :
      LET st == RangeFold(pl.leaf[t])
          T == query.tab[t]
          b == Filled(st, T)
          inside == {j \in b.l..b.r : (j > b.l \/ b.f1) /\ (j < b.r \/ b.f2)}
          exact == Num(Cardinality(Matching(t)))
          narrow == T # {} /\ ~(st.e1 /\ st.e2) /\ b.l # b.r
          cancelled == narrow /\ Cardinality({j \in inside : SketchHit(T, j)}) = -query.gb
      IN (T = {} \/ (st.e1 /\ st.e2) \/ b.r - b.l <= NarrowWidth)
           => IF cancelled /\ query.gb < 0 THEN h[t - 1].size = Num(0)
              ELSE /\ ~Lt(h[t - 1].size, exact)
                   /\ (T = {} \/ \A j \in inside : Separated(T, j)) => h[t - 1].size = exact

RECURSIVE Leaves(_)
Leaves(tr) == IF tr.op = "scan" THEN <<tr.leaf>> ELSE Leaves(tr.ch[1]) \o Leaves(tr.ch[2])

\* The plan is a join tree with every scan exactly once.
Covers(tr) == tr.op # "overflow" /\ Len(Leaves(tr)) = N /\ Range(Leaves(tr)) = 0..N-1

\* The cost and summary of a join tree, as the DP computes them.
RECURSIVE TreeCost(_)
JoinTreeCost(a, b) == [f |-> JoinCost(v, a.g, a.f, b.g, b.f), g |-> EstimateJoinEq(v, a.g, b.g)]
TreeCost(tr) ==
  IF tr.op = "scan" THEN [f |-> SeqScanCost(h[tr.leaf].size), g |-> h[tr.leaf]]
  ELSE JoinTreeCost(TreeCost(tr.ch[1]), TreeCost(tr.ch[2]))

\* Spec 8: when every leaf estimate is finite, Optimize returns a join tree
\* over all scans, and it is the tree the DP priced: its cost and its size
\* estimate, recomputed from the scans with each join's children in the
\* order GetPlan puts them, are f[full] and g[full].
PlanAsPriced ==
  nq > 0 /\ (\A k \in 0..N-1 : h[k].size.k = "fin") =>
    /\ Covers(plan)
    /\ TreeCost(plan).f = f[Full]
    /\ TreeCost(plan).g = g[Full]

\* GetPlan returns: after Optimize, following id[] down from the full mask
\* (GetPlan recursing on id[S] and S^id[S]) ends at the scans, and the
\* tree covers every table once.  It needs the DP to have set id[] for
\* every mask it visits.
PlanCoversAll == nq > 0 => Covers(plan)

\* The nodes of a plan, parents first.
RECURSIVE Nodes(_)
Nodes(x) == <<x>> \o FlattenSeq([i \in DOMAIN x.ch |-> Nodes(x.ch[i])])

\* After the second Apply on GetPlan's tree, which has every join
\* predicate at its root: no filter is left, every join holds only
\* predicates with a column on each side, and each join predicate of the
\* query sits at exactly one join, the lowest that has both its tables.
FinalPlacement ==
  nq > 0 /\ Covers(plan) =>
    LET ns == Nodes(final) IN
    /\ \A i \in DOMAIN ns : ns[i].op # "filter"
    /\ \A i \in DOMAIN ns : IsJoin(ns[i]) =>
         \A j \in DOMAIN ns[i].pred : Across(ns[i].pred[j], TabsOf(ns[i].ch[1]), TabsOf(ns[i].ch[2]))
    /\ \A k \in DOMAIN v : Count(v, v[k]) = SumFunction([i \in DOMAIN ns |-> Count(ns[i].pred, v[k])])

MaskOf(x) == SumSet({2^(t - 1) : t \in TabsOf(x)})

\* The join algorithm the plan executes is the one the DP priced: a join
\* of the returned plan is a HashJoin exactly when the DP's flag for that
\* split, computed from the summaries g of its two sides, was set.
HashJoinAsCosted ==
  nq > 0 /\ Covers(plan) =>
    LET ns == Nodes(final) IN
    \A i \in DOMAIN ns : IsJoin(ns[i]) =>
      ((ns[i].op = "hashjoin") <=> HashJoinable(v, g[MaskOf(ns[i].ch[1])], g[MaskOf(ns[i].ch[2])]))

=============================================================================
