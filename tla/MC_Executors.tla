---------------------------- MODULE MC_Executors ----------------------------
EXTENDS Executors

CONSTANTS a, b

\* utils::Hash8 over two keys that land in one bucket.
HashCollide == [k \in Keys |-> 0]
\* A hash that tells the keys apart.
HashDistinct == [k \in Keys |-> k]
=============================================================================
