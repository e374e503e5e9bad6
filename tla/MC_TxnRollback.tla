--------------------------- MODULE MC_TxnRollback ---------------------------
EXTENDS TxnRollback
=============================================================================
