---------------------------- MODULE LockManager ----------------------------
(***************************************************************************)
(* The hierarchical lock manager of src/src/transaction/lock_manager.cpp   *)
(* driven by the transaction threads of txn_manager.cpp (Commit, Abort,    *)
(* ReleaseAllLocks).                                                       *)
(*                                                                         *)
(* One LockRequestList per resource: a FIFO of requests <<txn, mode,       *)
(* granted>> and the `upgrading_` marker.  Resources are tables and        *)
(* <<table, key>> tuples.  Each transaction is one OS thread; every step   *)
(* of the model is a region the code runs holding the list latch          *)
(* (`list.latch_`), so steps on one list are atomic and steps on          *)
(* different lists interleave freely.  A thread blocked in                 *)
(* `list.cv_.wait` re-runs the grant loop only after a notify_all on that  *)
(* list: every change of a list is followed by notify_all in the same     *)
(* critical section, so a spurious wake-up would only re-read the state   *)
(* the thread already saw and is not modelled.                             *)
(*                                                                         *)
(* The transactions of this module do not write (modify_records_ is        *)
(* empty), so Abort has nothing to roll back; TxnRollback adds writes.     *)
(***************************************************************************)
EXTENDS Integers, Sequences, SequencesExt, FiniteSets

CONSTANTS
  NumTxns,    \* transactions 1..NumTxns; a smaller id is an older txn
  Tables,     \* table names (model values)
  Keys,       \* tuple keys (model values)
  MaxReqs,    \* bound on the Acquire* calls one transaction makes
  NoRes       \* model value: no resource

ASSUME NumTxns \in Nat \ {0} /\ MaxReqs \in Nat

Txns  == 1..NumTxns
NoTxn == 0                      \* INVALID_TXN_ID
Tuples == Tables \X Keys
Res == Tables \cup Tuples
Modes == {"IS", "IX", "S", "SIX", "X"}
TxnStates == {"GROWING", "SHRINKING", "COMMITTED", "ABORTED"}
Entry == [txn : Txns, mode : Modes, granted : BOOLEAN]

VARIABLES
  lists,      \* lists[r]: LockRequestList::list_ of resource r
  upgrading,  \* upgrading[r]: LockRequestList::upgrading_
  state,      \* state[t]: Txn::state_
  lockSet,    \* lockSet[t][m]: table_lock_set_[m] \cup tuple_lock_set_[m]
  pc,         \* where thread t is: "idle", "wait" (in cv_.wait),
              \* "release" (inside ReleaseAllLocks) or "done"
  req,        \* req[t]: resource and mode of the call t is blocked in
  notified,   \* notified[t]: a notify_all reached t while it waited
  toRelease,  \* toRelease[t]: the lock-set copies ReleaseAllLocks walks
  reqCount    \* Acquire* calls made so far (bounded by MaxReqs)

vars == <<lists, upgrading, state, lockSet, pc, req, notified, toRelease,
          reqCount>>

NoReq == [res |-> NoRes, mode |-> "IS"]

(***************************************************************************)
(* Mode tables.                                                            *)
(***************************************************************************)
\* CheckModeUpgrade: the upgrade lattice IS -> {S,X,IX,SIX}, S|IX -> {X,SIX},
\* SIX -> X.
CheckModeUpgrade(x, y) ==
  \/ x = "IS" /\ y \in {"S", "X", "IX", "SIX"}
  \/ x \in {"S", "IX"} /\ y \in {"X", "SIX"}
  \/ x = "SIX" /\ y = "X"

\* Mutant: SIX treated like S and IX, compatible with itself.
CheckModeConflictSixSelf(x, y) ==
  /\ x # "X" /\ y # "X"
  /\ \/ x = "IS" \/ y = "IS"
     \/ x = y

\* CheckModeConflict returns TRUE when the two modes are COMPATIBLE.
CheckModeConflict(x, y) ==
  /\ x # "X" /\ y # "X"
  /\ \/ x = "IS" \/ y = "IS"
     \/ x # "SIX" /\ y # "SIX" /\ x = y

\* Mutant: an S table lock accepted under a tuple X lock.
TupleLockAllowedSForX(t, tab, m) ==
  IF m = "S" THEN \E tm \in {"IS", "S", "X", "IX", "SIX"} : tab \in lockSet[t][tm]
             ELSE \E tm \in {"IX", "X", "SIX", "S"} : tab \in lockSet[t][tm]

\* The table-lock precondition of AcquireTupleLock (lines 155-159).
TupleLockAllowed(t, tab, m) ==
  IF m = "S" THEN \E tm \in {"IS", "S", "X", "IX", "SIX"} : tab \in lockSet[t][tm]
             ELSE \E tm \in {"IX", "X", "SIX"} : tab \in lockSet[t][tm]

(***************************************************************************)
(* The grant loop `while (233) {...}` of Acquire*: scan the list up to the *)
(* first ungranted request or the first granted request of another txn    *)
(* whose mode is incompatible with m, whichever comes first.              *)
(***************************************************************************)
Outcome(l, t, m) ==
  LET j == SelectInSeq(l, LAMBDA e : ~e.granted \/
                                     (e.txn # t /\ ~CheckModeConflict(e.mode, m)))
  IN IF ~l[j].granted THEN IF l[j].txn = t THEN "grant" ELSE "wait"
     ELSE IF l[j].txn < t THEN "die" ELSE "wait"

\* cv_.notify_all on list r, issued by thread t.
NotifyAll(t, r) ==
  notified' = [u \in Txns |-> IF u = t THEN FALSE
                              ELSE IF pc[u] = "wait" /\ req[u].res = r THEN TRUE
                              ELSE notified[u]]

\* Mutant: the upgrader erases its old request but not the old mode.
GrantKeepOldMode(t, r, m, l, up) ==
  LET i   == SelectInSeq(l, LAMBDA e : ~e.granted)
      l1  == [l EXCEPT ![i].granted = TRUE]
      j   == SelectInSeq(l1, LAMBDA e : e.txn = t)
  IN /\ lists' = [lists EXCEPT ![r] = IF up = t THEN RemoveAt(l1, j) ELSE l1]
     /\ upgrading' = [upgrading EXCEPT ![r] = IF up = t THEN NoTxn ELSE up]
     /\ lockSet' = [lockSet EXCEPT ![t][m] = @ \cup {r}]
     /\ pc' = [pc EXCEPT ![t] = "idle"]
     /\ req' = [req EXCEPT ![t] = NoReq]
     /\ NotifyAll(t, r)
     /\ UNCHANGED state

\* Lines 97-115: grant the first ungranted request (t's own); an upgrader
\* then erases its old request and the old mode from its lock set.
Grant(t, r, m, l, up) ==
  LET i   == SelectInSeq(l, LAMBDA e : ~e.granted)
      l1  == [l EXCEPT ![i].granted = TRUE]
      j   == SelectInSeq(l1, LAMBDA e : e.txn = t)
      ls1 == [lockSet[t] EXCEPT ![m] = @ \cup {r}]
  IN /\ lists' = [lists EXCEPT ![r] = IF up = t THEN RemoveAt(l1, j) ELSE l1]
     /\ upgrading' = [upgrading EXCEPT ![r] = IF up = t THEN NoTxn ELSE up]
     /\ lockSet' = [lockSet EXCEPT ![t] =
                      IF up = t THEN [ls1 EXCEPT ![l1[j].mode] = @ \ {r}] ELSE ls1]
     /\ pc' = [pc EXCEPT ![t] = "idle"]
     /\ req' = [req EXCEPT ![t] = NoReq]
     /\ NotifyAll(t, r)
     /\ UNCHANGED state

\* Mutant: a dying upgrader leaves upgrading_ set.
DieKeepMarker(t, r, l, up) ==
  LET k == SelectInSeq(l, LAMBDA e : ~e.granted /\ e.txn = t)
  IN /\ lists' = [lists EXCEPT ![r] = RemoveAt(l, k)]
     /\ upgrading' = [upgrading EXCEPT ![r] = up]
     /\ state' = [state EXCEPT ![t] = "ABORTED"]
     /\ pc' = [pc EXCEPT ![t] = "idle"]
     /\ req' = [req EXCEPT ![t] = NoReq]
     /\ NotifyAll(t, r)
     /\ UNCHANGED lockSet

\* Lines 78-88: wait-die; the requester is younger than a conflicting
\* holder, so it erases its own ungranted request and aborts.
Die(t, r, l, up) ==
  LET k == SelectInSeq(l, LAMBDA e : ~e.granted /\ e.txn = t)
  IN /\ lists' = [lists EXCEPT ![r] = RemoveAt(l, k)]
     /\ upgrading' = [upgrading EXCEPT ![r] = IF up = t THEN NoTxn ELSE up]
     /\ state' = [state EXCEPT ![t] = "ABORTED"]
     /\ pc' = [pc EXCEPT ![t] = "idle"]
     /\ req' = [req EXCEPT ![t] = NoReq]
     /\ NotifyAll(t, r)
     /\ UNCHANGED lockSet

\* Mutant: the blocked call does not keep its request.
WaitNoReq(t, r, m, l, up) ==
  /\ lists' = [lists EXCEPT ![r] = l]
  /\ upgrading' = [upgrading EXCEPT ![r] = up]
  /\ pc' = [pc EXCEPT ![t] = "wait"]
  /\ notified' = [notified EXCEPT ![t] = FALSE]
  /\ UNCHANGED <<state, lockSet, req>>

\* Line 95: block in list.cv_.wait.
Wait(t, r, m, l, up) ==
  /\ lists' = [lists EXCEPT ![r] = l]
  /\ upgrading' = [upgrading EXCEPT ![r] = up]
  /\ pc' = [pc EXCEPT ![t] = "wait"]
  /\ req' = [req EXCEPT ![t] = [res |-> r, mode |-> m]]
  /\ notified' = [notified EXCEPT ![t] = FALSE]
  /\ UNCHANGED <<state, lockSet>>

Resolve(t, r, m, l, up) ==
  \/ Outcome(l, t, m) = "grant" /\ Grant(t, r, m, l, up)
  \/ Outcome(l, t, m) = "die" /\ Die(t, r, l, up)
  \/ Outcome(l, t, m) = "wait" /\ Wait(t, r, m, l, up)

\* An exception that sets the txn ABORTED and leaves every list alone.
Throw(t) ==
  /\ state' = [state EXCEPT ![t] = "ABORTED"]
  /\ UNCHANGED <<lists, upgrading, lockSet, pc, req, notified>>

\* Lines 45-116 (table) and 164-233 (tuple): the part under list.latch_.
Request(t, r, m) ==
  LET i  == SelectInSeq(lists[r], LAMBDA e : e.txn = t)
      nl == Append(lists[r], [txn |-> t, mode |-> m, granted |-> FALSE])
  IN \/ /\ i # 0 /\ lists[r][i].mode = m
        /\ UNCHANGED <<lists, upgrading, state, lockSet, pc, req, notified>>
     \/ /\ i # 0 /\ lists[r][i].mode # m /\ upgrading[r] # NoTxn
        /\ Throw(t)
     \/ /\ i # 0 /\ lists[r][i].mode # m /\ upgrading[r] = NoTxn
        /\ ~CheckModeUpgrade(lists[r][i].mode, m)
        /\ Throw(t)
     \/ /\ i # 0 /\ lists[r][i].mode # m /\ upgrading[r] = NoTxn
        /\ CheckModeUpgrade(lists[r][i].mode, m)
        /\ Resolve(t, r, m, nl, t)
     \/ /\ i = 0
        /\ Resolve(t, r, m, nl, upgrading[r])

CanRequest(t) ==
  /\ pc[t] = "idle" /\ state[t] = "GROWING" /\ reqCount[t] < MaxReqs
  /\ reqCount' = [reqCount EXCEPT ![t] = @ + 1]
  /\ UNCHANGED toRelease

(***************************************************************************)
(* Operations.                                                             *)
(***************************************************************************)
AcquireTableLock(t, tab, m) ==
  /\ CanRequest(t)
  /\ Request(t, tab, m)

AcquireTupleLock(t, tup, m) ==
  /\ CanRequest(t)
  /\ \/ m \notin {"S", "X"} /\ Throw(t)
     \/ m \in {"S", "X"} /\ ~TupleLockAllowed(t, tup[1], m) /\ Throw(t)
     \/ m \in {"S", "X"} /\ TupleLockAllowed(t, tup[1], m) /\ Request(t, tup, m)

\* A blocked thread woken by notify_all re-runs the grant loop.
WakeUp(t) ==
  /\ pc[t] = "wait" /\ notified[t]
  /\ Resolve(t, req[t].res, req[t].mode, lists[req[t].res], upgrading[req[t].res])
  /\ UNCHANGED <<reqCount, toRelease>>

HeldLocks(t) == {<<m, r>> \in Modes \X Res : r \in lockSet[t][m]}

\* Mutant: only the tuple lock set is copied.
StartReleaseTuplesOnly(t) ==
  LET held == {p \in HeldLocks(t) : p[2] \in Tuples}
  IN /\ toRelease' = [toRelease EXCEPT ![t] = held]
     /\ pc' = [pc EXCEPT ![t] = IF held = {} THEN "done" ELSE "release"]

\* ReleaseAllLocks, entered from Commit or Abort: copy the lock sets.
StartRelease(t) ==
  /\ toRelease' = [toRelease EXCEPT ![t] = HeldLocks(t)]
  /\ pc' = [pc EXCEPT ![t] = IF HeldLocks(t) = {} THEN "done" ELSE "release"]

\* TxnManager::Commit.
Commit(t) ==
  /\ pc[t] = "idle" /\ state[t] = "GROWING"
  /\ state' = [state EXCEPT ![t] = "COMMITTED"]
  /\ StartRelease(t)
  /\ UNCHANGED <<lists, upgrading, lockSet, req, notified, reqCount>>

\* TxnManager::Abort: modify_records_ is empty here, so the rollback loop
\* does nothing; the driver calls it after any exception or on its own.
Abort(t) ==
  /\ pc[t] = "idle"
  /\ state' = [state EXCEPT ![t] = "ABORTED"]
  /\ StartRelease(t)
  /\ UNCHANGED <<lists, upgrading, lockSet, req, notified, reqCount>>

\* Mutant: the release does not notify the waiters.
ReleaseLockNoNotify(t, m, r) ==
  LET i == SelectInSeq(lists[r], LAMBDA e : e.txn = t)
      rest == toRelease[t] \ {<<m, r>>}
  IN /\ IF i # 0
          THEN /\ lists' = [lists EXCEPT ![r] = RemoveAt(@, i)]
               /\ lockSet' = [lockSet EXCEPT ![t][m] = @ \ {r}]
               /\ state' = [state EXCEPT ![t] =
                              IF @ # "COMMITTED" THEN "SHRINKING" ELSE @]
          ELSE UNCHANGED <<lists, lockSet, state>>
     /\ toRelease' = [toRelease EXCEPT ![t] = rest]
     /\ pc' = [pc EXCEPT ![t] = IF rest = {} THEN "done" ELSE "release"]
     /\ UNCHANGED <<upgrading, req, reqCount, notified>>

\* The body shared by ReleaseTableLock and ReleaseTupleLock: erase the
\* first request of t, whatever its mode.
ReleaseLock(t, m, r) ==
  LET i == SelectInSeq(lists[r], LAMBDA e : e.txn = t)
      rest == toRelease[t] \ {<<m, r>>}
  IN /\ IF i # 0
          THEN /\ lists' = [lists EXCEPT ![r] = RemoveAt(@, i)]
               /\ lockSet' = [lockSet EXCEPT ![t][m] = @ \ {r}]
               /\ state' = [state EXCEPT ![t] =
                              IF @ # "COMMITTED" THEN "SHRINKING" ELSE @]
          ELSE UNCHANGED <<lists, lockSet, state>>
     /\ NotifyAll(t, r)
     /\ toRelease' = [toRelease EXCEPT ![t] = rest]
     /\ pc' = [pc EXCEPT ![t] = IF rest = {} THEN "done" ELSE "release"]
     /\ UNCHANGED <<upgrading, req, reqCount>>

\* ReleaseAllLocks: tuple locks first ...
ReleaseTupleLock(t, m, r) ==
  /\ pc[t] = "release" /\ <<m, r>> \in toRelease[t] /\ r \in Tuples
  /\ ReleaseLock(t, m, r)

\* ... then table locks.
ReleaseTableLock(t, m, r) ==
  /\ pc[t] = "release" /\ <<m, r>> \in toRelease[t] /\ r \in Tables
  /\ \A p \in toRelease[t] : p[2] \notin Tuples
  /\ ReleaseLock(t, m, r)

Init ==
  /\ lists = [r \in Res |-> <<>>]
  /\ upgrading = [r \in Res |-> NoTxn]
  /\ state = [t \in Txns |-> "GROWING"]
  /\ lockSet = [t \in Txns |-> [m \in Modes |-> {}]]
  /\ pc = [t \in Txns |-> "idle"]
  /\ req = [t \in Txns |-> NoReq]
  /\ notified = [t \in Txns |-> FALSE]
  /\ toRelease = [t \in Txns |-> {}]
  /\ reqCount = [t \in Txns |-> 0]

\* Every thread has finished.
Finished == \A t \in Txns : pc[t] = "done"

TxnStep(t) ==
  \/ \E tab \in Tables, m \in Modes : AcquireTableLock(t, tab, m)
  \/ \E tup \in Tuples, m \in Modes : AcquireTupleLock(t, tup, m)
  \/ WakeUp(t)
  \/ Commit(t)
  \/ Abort(t)
  \/ \E m \in Modes, r \in Tuples : ReleaseTupleLock(t, m, r)
  \/ \E m \in Modes, r \in Tables : ReleaseTableLock(t, m, r)

Next ==
  \/ \E t \in Txns : TxnStep(t)
  \/ Finished /\ UNCHANGED vars

\* Threads run when they can: a woken thread re-acquires the latch, a
\* thread inside ReleaseAllLocks finishes its walk, and the driver of an
\* idle transaction eventually ends it (it can make only MaxReqs calls).
Fairness ==
  \A t \in Txns :
    /\ WF_vars(WakeUp(t))
    /\ WF_vars(\E m \in Modes, r \in Res :
                 ReleaseTupleLock(t, m, r) \/ ReleaseTableLock(t, m, r))
    /\ WF_vars(Commit(t) \/ Abort(t))

Spec == Init /\ [][Next]_vars /\ Fairness

(***************************************************************************)
(* Properties.                                                             *)
(***************************************************************************)
TypeOK ==
  /\ lists \in [Res -> Seq(Entry)]
  /\ upgrading \in [Res -> Txns \cup {NoTxn}]
  /\ state \in [Txns -> TxnStates]
  /\ lockSet \in [Txns -> [Modes -> SUBSET Res]]
  /\ pc \in [Txns -> {"idle", "wait", "release", "done"}]
  /\ notified \in [Txns -> BOOLEAN]
  /\ req \in [Txns -> [res : Res \cup {NoRes}, mode : Modes]]
  /\ \A t \in Txns : pc[t] = "wait" => req[t].res \in Res
  /\ toRelease \in [Txns -> SUBSET (Modes \X Res)]
  /\ reqCount \in [Txns -> 0..MaxReqs]

\* The compatibility matrix of the spec (section 4.7), written out pair by
\* pair, independently of CheckModeConflict.
CompatMatrix ==
  {<<"IS", "IS">>, <<"IS", "IX">>, <<"IS", "S">>, <<"IS", "SIX">>,
   <<"IX", "IX">>, <<"S", "S">>}
Compat(x, y) == <<x, y>> \in CompatMatrix \/ <<y, x>> \in CompatMatrix

\* Mutual exclusion of the grant loop: two requests of different
\* transactions granted on the same table or tuple have compatible modes.
LockCompatibility ==
  \A r \in Res : \A i, j \in 1..Len(lists[r]) :
    LET a == lists[r][i]  b == lists[r][j]
    IN (a.granted /\ b.granted /\ a.txn # b.txn) => Compat(a.mode, b.mode)

\* The lock sets of a Txn, which ReleaseAllLocks walks, name exactly the
\* granted requests of that txn in the lists (upgrades swap the mode in
\* both places, releases erase from both).
LockSetMatchesQueue ==
  \A t \in Txns, m \in Modes, r \in Res :
    r \in lockSet[t][m] <=>
      \E i \in 1..Len(lists[r]) : lists[r][i] = [txn |-> t, mode |-> m, granted |-> TRUE]

\* Multi-granularity: whenever a txn holds a tuple lock, it holds a lock
\* on the tuple's table that covers it (S under any mode, X under IX, SIX
\* or X), including while ReleaseAllLocks is part way through.
Covers(tm, m) == IF m = "S" THEN TRUE ELSE tm \in {"IX", "SIX", "X"}
MultiGranularity ==
  \A tup \in Tuples : \A i \in 1..Len(lists[tup]) :
    LET e == lists[tup][i] IN
    e.granted =>
      \E j \in 1..Len(lists[tup[1]]) :
        LET te == lists[tup[1]][j]
        IN te.txn = e.txn /\ te.granted /\ Covers(te.mode, e.mode)

\* The upgrading_ marker names a txn only while that txn is blocked
\* upgrading on this list, holding its old granted request ahead of its
\* new ungranted one; wait-die aborts and grants clear it.
UpgradeMarker ==
  \A r \in Res : upgrading[r] # NoTxn =>
    LET t == upgrading[r]
        own == SelectSeq(lists[r], LAMBDA e : e.txn = t)
    IN /\ pc[t] = "wait" /\ req[t].res = r
       /\ Len(own) = 2 /\ own[1].granted /\ ~own[2].granted

\* No lost wake-up: a thread asleep in cv_.wait that has not been
\* notified could not be granted now; every change of a list that makes
\* a waiter grantable is followed by a notify_all on that list.
Grantable(l, t, m) ==
  LET k == SelectInSeq(l, LAMBDA e : e.txn = t /\ ~e.granted)
  IN \A i \in 1..(k - 1) : l[i].granted /\ (l[i].txn = t \/ Compat(l[i].mode, m))
NoLostWakeup ==
  \A t \in Txns : (pc[t] = "wait" /\ ~notified[t]) =>
    ~Grantable(lists[req[t].res], t, req[t].mode)

\* When Commit or Abort returns, the txn has no request left in any list
\* and its lock sets are empty.
ReleasedOnFinish ==
  \A t \in Txns : pc[t] = "done" =>
    /\ \A r \in Res : \A i \in 1..Len(lists[r]) : lists[r][i].txn # t
    /\ \A m \in Modes : lockSet[t][m] = {}

\* Wait-die (spec 4.7): a txn never sleeps waiting for an older txn that
\* holds a conflicting lock; it must abort instead.
WaitDie ==
  \A t \in Txns : (pc[t] = "wait" /\ ~notified[t]) =>
    \A i \in 1..Len(lists[req[t].res]) :
      LET e == lists[req[t].res][i]
      IN ~(e.granted /\ e.txn < t /\ ~Compat(e.mode, req[t].mode))

\* Deadlock freedom (spec 5: "deadlock is prevented by wait-die"): every
\* transaction eventually commits or aborts.
EveryTxnFinishes == \A t \in Txns : <>(pc[t] = "done")
=============================================================================
