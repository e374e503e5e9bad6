---------------------------- MODULE TxnRollback ----------------------------
(***************************************************************************)
(* One transaction's writes and TxnManager::Abort (txn_manager.cpp 29-41). *)
(*                                                                         *)
(* The table is a function from keys to values (NoVal = key absent).      *)
(* Writes go through the storage modify handle. Its code is not under     *)
(* src/; spec 4.8 says a handle takes the tuple X lock first, then pushes *)
(* an undo record, then mutates.  The tuple lock is the state check and   *)
(* grant path of LockManager::AcquireTupleLock (lock_manager.cpp 144-233),*)
(* reduced to one transaction: a key it has not locked yet may be held by *)
(* an older transaction, and then the request dies (wait-die).            *)
(* LockManager.tla models the lock lists themselves.                      *)
(***************************************************************************)
EXTENDS Integers, Sequences, SequencesExt

CONSTANTS
  Keys,     \* tuple keys (model values)
  Vals,     \* values (model values)
  NoVal,    \* model value: the key is absent
  MaxOps    \* bound on the writes the driver issues

Slot == Vals \cup {NoVal}
UndoRec == [type : {"INSERT"}, key : Keys, old : {NoVal}]
           \cup [type : {"DELETE", "UPDATE"}, key : Keys, old : Vals]

VARIABLES
  db,       \* the table: key -> value or NoVal
  undo,     \* Txn::modify_records_, top of the stack = Last(undo)
  state,    \* Txn::state_
  locked,   \* keys in tuple_lock_set_[X]
  pc,       \* "run": driver issuing writes; "abort": inside Abort's loop;
            \* "done": Commit or Abort returned; "failed": Abort threw
  ops,      \* writes issued so far
  db0       \* the table when the transaction began (history variable)

vars == <<db, undo, state, locked, pc, ops, db0>>

(***************************************************************************)
(* Tuple X lock inside a handle call (AcquireTupleLock): the outcomes     *)
(* "throw" (state ABORTED on entry, line 144), "held" (line 168: already  *)
(* held in X), "granted" and "die" (lines 197-207, an older transaction   *)
(* holds the key).                                                         *)
(***************************************************************************)
LockOutcomes(k) ==
  IF state = "ABORTED" THEN {"throw"}
  ELSE IF k \in locked THEN {"held"}
  ELSE {"granted", "die"}

\* Mutant: the DELETE record does not keep the old value.
RecordOfNoOld(kind, k) ==
  [type |-> kind, key |-> k, old |-> IF kind = "UPDATE" THEN db[k] ELSE NoVal]

\* The undo record a handle pushes before a write of kind `kind` on k.
RecordOf(kind, k) ==
  [type |-> kind, key |-> k, old |-> IF kind = "INSERT" THEN NoVal ELSE db[k]]

\* The value a write of kind `kind` leaves in the slot.
NewSlot(kind, v) == IF kind = "DELETE" THEN NoVal ELSE v

\* A handle call that got its lock: record the lock, push the undo record,
\* mutate the table.
HandleWrite(kind, k, v) ==
  /\ locked' = locked \cup {k}
  /\ undo' = Append(undo, RecordOf(kind, k))
  /\ db' = [db EXCEPT ![k] = NewSlot(kind, v)]

\* The writes the executors issue (PK check first): Insert of an absent
\* key, Update and Delete of a present one.
Valid(kind, k) == (kind = "INSERT") = (db[k] = NoVal)

\* Insert / Update / Delete executor -> modify handle, driver thread.
Write(kind, k, v) ==
  /\ pc = "run" /\ state = "GROWING" /\ ops < MaxOps
  /\ Valid(kind, k)
  /\ ops' = ops + 1
  /\ \E o \in LockOutcomes(k) :
       \/ o \in {"granted", "held"} /\ HandleWrite(kind, k, v)
                                    /\ UNCHANGED state
       \/ o = "die" /\ state' = "ABORTED" /\ UNCHANGED <<db, undo, locked>>
  /\ UNCHANGED <<pc, db0>>

\* TxnManager::Commit; the lock release is LockManager's (state stays
\* COMMITTED, line 250).
Commit ==
  /\ pc = "run" /\ state = "GROWING"
  /\ state' = "COMMITTED" /\ locked' = {} /\ pc' = "done"
  /\ UNCHANGED <<db, undo, ops, db0>>

\* The driver calls Abort, on its own or after an exception.
CallAbort ==
  /\ pc = "run"
  /\ pc' = "abort"
  /\ UNCHANGED <<db, undo, state, locked, ops, db0>>

\* The inverse write of a record (lines 34-36): INSERT -> Delete,
\* DELETE -> Insert(old), UPDATE -> Update(old).
InverseKind(rec) ==
  CASE rec.type = "INSERT" -> "DELETE"
    [] rec.type = "DELETE" -> "INSERT"
    [] rec.type = "UPDATE" -> "UPDATE"

\* Mutant: the second pop (line 37) is missing.
AbortStepSinglePop ==
  LET now == Last(undo)  rest == Front(undo)
      kind == InverseKind(now)
  IN /\ pc = "abort" /\ undo # <<>>
     /\ \E o \in LockOutcomes(now.key) :
          \/ /\ o \in {"granted", "held"}
             /\ locked' = locked \cup {now.key}
             /\ undo' = Append(rest, RecordOf(kind, now.key))
             /\ db' = [db EXCEPT ![now.key] = NewSlot(kind, now.old)]
             /\ UNCHANGED <<state, pc>>
          \/ /\ o = "throw"
             /\ undo' = rest /\ pc' = "failed"
             /\ UNCHANGED <<db, state, locked>>
     /\ UNCHANGED <<ops, db0>>

\* One iteration of Abort's loop (lines 31-38): pop the top record
\* (line 33), call the handle with its inverse, which locks, pushes its
\* own record and writes, then pop that record (line 37).  If the lock
\* throws, the exception leaves Abort with the first record already gone.
\* The key of a record is locked before the record is pushed, so the lock
\* is either held or throws; it never waits or dies.
AbortStep ==
  LET now == Last(undo)  rest == Front(undo)
      kind == InverseKind(now)
  IN /\ pc = "abort" /\ undo # <<>>
     /\ \E o \in LockOutcomes(now.key) :
          \/ /\ o \in {"granted", "held"}
             /\ locked' = locked \cup {now.key}
             /\ undo' = Front(Append(rest, RecordOf(kind, now.key)))
             /\ db' = [db EXCEPT ![now.key] = NewSlot(kind, now.old)]
             /\ UNCHANGED <<state, pc>>
          \/ /\ o = "throw"
             /\ undo' = rest /\ pc' = "failed"
             /\ UNCHANGED <<db, state, locked>>
     /\ UNCHANGED <<ops, db0>>

\* Lines 39-40: ABORTED, then ReleaseAllLocks; each release turns a
\* non-COMMITTED state into SHRINKING (line 250).
AbortFinish ==
  /\ pc = "abort" /\ undo = <<>>
  /\ state' = IF locked # {} THEN "SHRINKING" ELSE "ABORTED"
  /\ locked' = {} /\ pc' = "done"
  /\ UNCHANGED <<db, undo, ops, db0>>

Init ==
  /\ db \in [Keys -> Slot]
  /\ db0 = db
  /\ undo = <<>>
  /\ state = "GROWING"
  /\ locked = {}
  /\ pc = "run"
  /\ ops = 0

Terminated == pc \in {"done", "failed"}

Next ==
  \/ \E kind \in {"INSERT", "UPDATE", "DELETE"}, k \in Keys, v \in Vals :
       Write(kind, k, v)
  \/ Commit
  \/ CallAbort
  \/ AbortStep
  \/ AbortFinish
  \/ Terminated /\ UNCHANGED vars

Spec == Init /\ [][Next]_vars /\ WF_vars(AbortStep \/ AbortFinish)

(***************************************************************************)
(* Properties.                                                             *)
(***************************************************************************)
TypeOK ==
  /\ db \in [Keys -> Slot] /\ db0 \in [Keys -> Slot]
  /\ undo \in Seq(UndoRec)
  /\ state \in {"GROWING", "SHRINKING", "COMMITTED", "ABORTED"}
  /\ locked \subseteq Keys
  /\ pc \in {"run", "abort", "done", "failed"}
  /\ ops \in 0..MaxOps

\* The table after undoing the records of s, newest first.
RECURSIVE Undone(_, _)
Undone(d, s) ==
  IF s = <<>> THEN d
  ELSE Undone([d EXCEPT ![Last(s).key] = Last(s).old], Front(s))

\* While the driver writes and while Abort's loop runs, the undo stack
\* is exactly what takes the table back to its state at Begin: every
\* handle call pushes its record before writing, and each loop iteration
\* pops both the record it undoes and the one its own handle call pushed.
UndoMatchesHistory ==
  pc \in {"run", "abort"} => Undone(db, undo) = db0

\* Spec 8: after Abort the table equals its state when the transaction
\* began; Abort returning or throwing are both the end of the rollback.
RollbackRestores ==
  (Terminated /\ state # "COMMITTED") => db = db0
=============================================================================
