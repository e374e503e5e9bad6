--------------------------- MODULE MC_LockManager ---------------------------
EXTENDS LockManager
=============================================================================
