---------------------------- MODULE MC_Optimizer ----------------------------
EXTENDS Optimizer

\* Cost formulas: cost_model.hpp is not in the repository and its
\* constants are out of scope (spec 1), so any monotone formulas will do.
\* The nested loop is charged per probe cost, as the DP calls it.
MCSeqScanCost(s) == s
MCHashJoinCost(b, p) == Plus(b, p)
MCNestloopJoinCost(b, p) == Times(b, p)

\* utils::Hash stood in by a hash whose row 0 sends every key to one cell
\* and whose row 1 is the identity, so that row 0 always collides and
\* row 1 separates the keys of different parity.
MCSketchHash(i, x) == IF i = 0 THEN 0 ELSE x

\* "double cnt[n]" is read before it is written: any double.  A negative
\* value, zero and a positive one are what the cnt==0 test tells apart.
MCGarbage == {-1, 0, 1}

\* Comparisons of table t's key with a literal, in both orientations.
LitPreds(t) == {p \in Pred : IsLiteralPred(p) /\ t \in Tables(p)}
\* Join predicates, equality and not, between two different tables.
JoinPreds == {p \in Pred : p.l \in 1..N /\ p.r \in 1..N /\ p.l < p.r
                           /\ p.op \in {"EQ", "LT"} /\ p.val = Min(Lits)}
SeqsUpTo(S, m) == UNION {[1..i -> S] : i \in 0..m}

\* Scan-heavy queries: up to two comparisons on table 1, every contents of
\* table 1; the other tables hold every value.
ScanQueries ==
  [where : SeqsUpTo(LitPreds(1), 2),
   tab : {[t \in 1..N |-> IF t = 1 THEN T ELSE Vals] : T \in SUBSET Vals},
   gb : Garbage]

\* Join-heavy queries: up to two join predicates, then at most one
\* comparison on a later table; tables of zero, one or two rows.
ExtraLits == {[l |-> 2, r |-> 0, op |-> "LEQ", val |-> 1],
              [l |-> 0, r |-> N, op |-> "LT", val |-> 1]}
\* Without a comparison no scan takes the narrow-range path, cnt[] is
\* never read, and one garbage value stands for all.
JoinQueries ==
  UNION {[where : {j \o e : j \in SeqsUpTo(JoinPreds, 2)},
          tab : [1..N -> {{}, {1}, {1, 2}}],
          gb : IF e = <<>> THEN {0} ELSE Garbage] : e \in SeqsUpTo(ExtraLits, 1)}

PassQueries == ScanQueries \cup JoinQueries

\* Two tables joined on their keys, at most one comparison on table 1.
CrashQueries ==
  [where : {c \o <<[l |-> 1, r |-> 2, op |-> "EQ", val |-> Min(Lits)]>> :
              c \in SeqsUpTo(LitPreds(1), 1)},
   tab : {[t \in 1..N |-> IF t = 1 THEN T ELSE Vals] : T \in SUBSET Vals},
   gb : Garbage]
=============================================================================
