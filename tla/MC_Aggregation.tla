--------------------------- MODULE MC_Aggregation ---------------------------
EXTENDS Aggregation

CONSTANTS a

\* utils::Hash of keys 1 and 2 landing on one value.
HashCollide == [k \in Keys |-> IF k = 3 THEN 1 ELSE 0]
\* A hash that tells the keys apart.
HashDistinct == [k \in Keys |-> k]
=============================================================================
