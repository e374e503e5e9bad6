# TLA+ models of the Wing database (Database-Course)

This directory holds TLA+ models of the C++ sources under `src/src`, checked
with TLC. Each module is translated from the code. `PROJECT.json` lists:

- every component and its status;
- every run and what it checks;
- the mutant that shows each checked property can fail;
- the source lines behind every definition (`map`);
- the findings and the hazards.

## 1. The system and its parts

| Part | Source | State it keeps | Operations |
|---|---|---|---|
| LockManager | `transaction/lock_manager.cpp` | one `LockRequestList` per table and per (table, key): a FIFO `list_` of `{txn_id, mode, granted}`, the `upgrading_` marker, a latch and a condition variable; the txn's `table_lock_set_`, `tuple_lock_set_` and `state_` | AcquireTableLock, AcquireTupleLock, ReleaseTableLock, ReleaseTupleLock |
| TxnManager | `transaction/txn_manager.cpp` | txn table, id counter, undo stack `modify_records_` per txn | Begin, Commit, Abort (undo then release), ReleaseAllLocks |
| PageManager | `storage/page-manager.hpp` (its `.cpp` is not in the repository) | buffer pool, FIFO of unpinned pages (`EvictionPolicy`), pin counts of page handles, free list | GetPage, page-handle drop, Evict, Allocate, Free |
| SortedPage | `storage/page-manager.hpp` | slot count and slot end offsets in a 4 KiB page | Insert, Replace, Delete, Split* |
| BPlusTree | `storage/bplus-tree.hpp`, `.cpp` | meta page (level, root, tuple count), inner and leaf pages, the leaf chain | Insert, Update, Delete, Take, Destroy, Get, MaxKey, LowerBound, UpperBound, iterator Next |
| Executors | `execution/*` | iterator state: hash tables, tuple stores, cursors | Init / Next of scan, join, hash join, aggregate, order-by, limit, distinct |
| Optimizer | `plan/cost_based_optimizer.cpp`, `plan/card_est.hpp`, `plan/rules/*` | DP table over table subsets; cardinality estimates | Apply, DP, range-scan conversion, predicate push-down |
| Statistics | `catalog/stat.cpp` | Count-Min sketch, HyperLogLog | Add, estimate |

How the parts interact:

- A query runs in one transaction thread. The executors pull tuples from B+-tree cursors.
- Modify handles take tuple locks through the LockManager and push undo records.
- Abort replays the undo records through the same handles, then releases every lock.
- The only place a thread blocks is `list.cv_.wait` inside `Acquire*`. Threads of different transactions interleave there and at every latch.

Hard behaviours in this code:

- Several threads race on one lock list.
- A thread sleeps on a condition variable until a `notify_all`.
- Upgrades are marked by `upgrading_`.
- Wait-die aborts a younger requester.
- Strict two-phase locking is enforced through `state_`.
- The release walk copies the lock sets.
- Abort rolls back through handles that lock again.
- In storage, the buffer pool's pin counts and its eviction order matter.
- In storage, page splits shift byte offsets, and the tree's meta counters change.

Properties the system needs:

- Granted locks are compatible.
- Tuple locks are covered by their table lock.
- No waiter is lost.
- Wait-die means there is no deadlock.
- Locks are released on finish.
- Rollback restores the state.
- In storage, keys are ordered and `TupleNum` counts the keys.
- No pinned page is evicted.

## 2. Plan and status

The plan is ordered by how concurrent each part is, and by how hard it is to test.

1. **LockManager:** done. The model covers the lock lists, the transaction threads, Commit, Abort and ReleaseAllLocks (section 3).
2. **TxnRollback:** done. It models Abort's undo loop over the modify handles (section 4).
3. **SortedPage, BPlusTree, OrderedMap:** done. The B+-tree refines an abstract ordered map (section 5).
4. **Executors and Aggregation:** done for the join, distinct, limit, aggregate and order-by executors (section 6).
5. **Optimizer:** done for one cost-based Optimize call: the push-down of join predicates, the range-scan fold, the cardinality estimates, the DP over table subsets and GetPlan (section 7).
6. **Still open:** the buffer pool (its `.cpp` is missing; section 8).

## 3. Module LockManager (`LockManager.tla`, `MC_LockManager.tla`)

### State

| Variable | Code |
|---|---|
| `lists[r]` | `list_` of resource `r`; a resource is a table or a `<<table, key>>` pair |
| `upgrading[r]` | `upgrading_`, with `0` standing for `INVALID_TXN_ID` |
| `state[t]` | `state_` |
| `lockSet[t][m]` | the union of `table_lock_set_[m]` and `tuple_lock_set_[m]` |
| `pc[t]` | where thread `t` is: idle between calls, asleep in `cv_.wait`, inside `ReleaseAllLocks`, or returned from Commit/Abort |
| `req[t]` | the request `t` is blocked on |
| `notified[t]` | a `notify_all` reached `t` while it slept |
| `toRelease[t]` | the lock-set copies `ReleaseAllLocks` walks |
| `reqCount[t]` | the number of Acquire calls so far, bounded by `MaxReqs` |

### Actions

- **`AcquireTableLock` and `AcquireTupleLock`** model everything the code does under `list.latch_`, in one step:
  - the 7a and 7b checks of the tuple path;
  - the same-mode early return;
  - the 6a and 6b throws;
  - `push_back`;
  - the grant loop (`Outcome`), which ends in `Grant`, `Die` or `Wait`.
- **`WakeUp`** re-runs the grant loop after a `notify_all`.
- **`Commit` and `Abort`** set the state and copy the lock sets.
- **`ReleaseTupleLock` and `ReleaseTableLock`** walk those copies, tuples first. Each erases the first request of the txn and notifies.
- **Driver:** the driver thread of a transaction may call any operation. After an exception it may only call Abort. The model enforces this by guarding every Acquire with `state = GROWING`. Because of that guard, the SHRINKING/ABORTED checks at the top of `Acquire*` are never reached under strict 2PL and are not modelled.

### Abstractions

- Keys and table names are model values.
- The latched map lookups (`table_lock_table_latch_`) create a list on first use. They are atomic and are modelled as lists that exist from the start.
- A spurious wake-up would re-read an unchanged list, so it is not modelled.
- Line 108 reads a request after `l.erase(it1)` has freed it. This is undefined behaviour. With glibc the freed block still holds the old mode, and the model reads that value.

### Fairness

- Weak fairness on `WakeUp`: the OS runs a notified thread.
- Weak fairness on the release walk.
- Weak fairness on `Commit \/ Abort`: a driver with no calls left ends its transaction.

### Runs

Each bound below is the smallest that makes the run's interesting case happen.

| Run | Bounds | Checks | Result |
|---|---|---|---|
| `lm_locks` | 3 txns, 1 table, 1 key, 2 calls each; 424k states, about 40 s | `TypeOK`, `LockCompatibility` (granted modes of different txns match an independent compatibility matrix), `LockSetMatchesQueue` (lock sets mirror the granted requests, through upgrades), `UpgradeMarker` (`upgrading_` names exactly a blocked upgrader), `NoLostWakeup` (a sleeper not notified could not be granted), `MultiGranularity` (every granted tuple lock has a covering table lock of its owner, including during the release walk), `ReleasedOnFinish` | pass |
| `lm_waitdie` | 3 txns, 2 calls each | `WaitDie` | violated |
| `lm_deadlock` | 2 txns, 2 calls each | `EveryTxnFinishes` | violated |

The bounds were chosen as follows:

- Three transactions are needed for a waiter to stand between an older holder and a younger one.
- Two calls allow a request and its upgrade, or a table lock and then a tuple lock under it.

`CHECK_DEADLOCK FALSE` is set because the code really can deadlock, as `lm_deadlock` shows.

### Findings

Both are explained in `PROJECT.json`.

- **`lm_waitdie`:** the grant loop breaks at the first conflicting holder (line 90). A younger holder in front therefore makes the requester wait even when an older conflicting holder is further down the list.
- **`lm_deadlock`:** T2 holds IS, and the older T1 waits for X. T2 then upgrades to IX and queues behind T1. Both sleep forever.
- **Abort's final state:** `Abort` sets ABORTED, and the first release overwrites it with SHRINKING (line 133), although spec 4.8 says Abort leaves the transaction ABORTED. Both `Abort` here and `AbortFinish` in TxnRollback model the overwrite. No code under `src` reads the state after Abort, so no run is spent on the state name; the hazard list records it.

## 4. Module TxnRollback (`TxnRollback.tla`, `MC_TxnRollback.tla`)

This module covers one transaction's writes and `TxnManager::Abort` (`txn_manager.cpp` 29-41).

### State and sources

- **`db`:** the table, as a function from keys to values, where `NoVal` means the key is absent.
- **`undo`:** `modify_records_`.
- **`state`:** the transaction state.
- **`locked`:** the keys the transaction holds in X mode.
- **`pc`:** where the driver thread is.
- **`db0`:** a history variable holding the table as it was at Begin.
- **The modify handle:** its code is not under `src`. It is modelled from spec 4.8: take the tuple X lock, push an undo record, then write.
- **The tuple lock:** the state check and grant path of `AcquireTupleLock`, reduced to one transaction. A key it has not locked yet may be held by an older transaction, so the lock can die.

### Actions

- **`Write`:** an Insert, Update or Delete through the handle. A wait-die abort inside it sets the state to ABORTED.
- **`Commit`.**
- **`CallAbort`.**
- **`AbortStep`:** one loop iteration. It pops the record, calls the inverse handle, which locks, pushes and writes, and then pops a second time. If the lock throws, the exception leaves Abort with the first record already popped.
- **`AbortFinish`:** sets ABORTED, then releases, which overwrites the state with SHRINKING.
- **Fairness:** weak fairness on the abort loop, because the thread runs Abort to its end.

### Runs

Both runs use 2 keys, 2 values and 3 writes. That is enough for insert/update/delete chains on one key, writes to both keys, and a wait-die abort between them.

| Run | Checks | Result |
|---|---|---|
| `tr_undo` | `UndoMatchesHistory`: replaying the undo stack newest-first yields `db0`, at every point, including halfway through the double-pop loop | pass |
| `tr_restore` | `RollbackRestores` (spec 8: the table is back to `db0` after Abort) | violated |

**Finding (`tr_restore`):** a transaction that wait-die aborts during a write is already ABORTED when Abort starts. The handle's `AcquireTupleLock` then throws at line 144 before it reaches the "already held" return at line 168. Abort therefore stops with the table changed.

## 5. Modules SortedPage, BPlusTree, OrderedMap

### SortedPage (`page-manager.hpp` 115-349)

A page is a record with these fields:

- the parsed slots, in order;
- `e0`, the start of the special trailer;
- the two trailer page ids.

The byte offsets are derived, not stored. `Ends(p, i)` is `e0` minus the sizes of the first `i` slots, which is what the code's memmoves maintain. So `FreeSpace`, `IsInsertable`, `IsReplacable` and the split tests compute the same numbers as the code. Key and value lengths are constants, so slot sizes really differ. The binary searches `gao1` and `gao2` are RECURSIVE operators.

### BPlusTree (`bplus-tree.hpp`, `bplus-tree.cpp`)

- **Store record:** the tree is written as operators on `[pg, free, num, level, root, tuples, new]`. That record is threaded through each public call in the code's order:
  - `work1` (Insert and Update): the descent, then leaf fit or split, then the split cascade up the stored path, then a new root;
  - `work2` (Delete and Take): the removal, then freeing empty pages and fixing separators up the path, then unlinking the leaf chain.
- **One call, one step:** Insert, Update and Take are each one TLA+ action, because the tree runs on the caller's thread with no locking of its own.
- **Destroy** (lines 187-206) is an action too. It walks the tree with `dfs` (`Dfs`: the inner slots' subtrees in order, then the special child, then the page itself) only when `TupleNum()` is not 0, then frees the meta page (page 2). A free page's bytes are forgotten, the meta page's level, root and count with them. No call follows Destroy, so the flag `destroyed` disables every action, and the B+-tree runs set `CHECK_DEADLOCK FALSE`.
- **Allocation:** Allocate and Free come from spec 4.1, because `page-manager.cpp` is missing. Free pushes onto the free list, and Allocate pops the last freed id or extends the file.
- **Reads:** `Get`, `MaxKey`, `Begin`, `LowerBound`, `UpperBound` and iterator `Next` are operators. The properties evaluate them in every state.

### OrderedMap

OrderedMap is the abstract promise of spec 8:

- Insert of a present key returns false and changes nothing.
- Update of an absent key returns false and changes nothing.
- Take removes a key and returns its value.
- Destroy drops every pair.

BPlusTree refines it through `Map == INSTANCE OrderedMap WITH kv <- Contents`, where `Contents` is the map read off the leaves. Both modules record the last call with its arguments in `call` (the way a key-value store spec records `op` and `args`), and each abstract action fixes `call'`. Each step of the tree must therefore be the abstract operation it was called as, returning that operation's result. A refused Insert of an absent key, or an Update that returns true without writing, fails the refinement even though some other operation could explain the state change. `call` is part of the VIEW of `MC_BPlusTree`.

### View

The runs use `VIEW LiveView` (in `MC_BPlusTree.tla`). It forgets bytes that no later call reads:

- free pages;
- the outer leaf links;
- the root and level of an empty tree.

States that differ only in those bytes have the same future, so the view is sound. Without it the state space does not fit in memory.

### Runs

| Run | Bounds | Checks |
|---|---|---|
| `bt_deep` | keys {1,2,3} of 1 and 2 bytes; one value; 22-byte pages. A leaf holds one slot and an inner page one or two, so three keys build a tree of height two, and deletes cascade two levels. | `TupleNumCounts`, `SearchTree` (separator bounds and key order), `IterationYieldsAll` (the leaf chain from Begin), `SeekYieldsSuffix` (LowerBound/UpperBound for every key, including moving to the next leaf), `PageAccounting` (every allocated page, the meta page included, is held by the tree or free, never both, never freed twice; after Destroy all of them are free) |
| `bt_wide` | keys {1,2,3}; a 1-byte and a 3-byte value; 30-byte pages. Leaves hold two or three slots, so Update of a short value to a long one goes through `SplitReplace`. | `GetAgrees`, `MaxKeyAgrees` (MaxKey, down the right-most children, is the largest stored key), `PagesFit` (no page overflows, including the right page `AppendSlotUnchecked` fills), `RefinesOrderedMap` (each call is a step of the ordered-map operation of the same name and arguments, with its result) |

Both pass. The B+-tree has no liveness property, because every call terminates by construction.

Destroy skips the walk when `TupleNum()` is 0. That is safe only because an emptied tree holds no pages: the delete that removes the last key frees the leaf and, through `flag` 1, every inner page up to the root. `PageAccounting` checks this, and a variant that always walks violates it at once: it frees whatever page the meta page names as root, one already freed or not the tree's at all.

## 6. Modules Executors and Aggregation

The executors follow the Volcano model. A consumer calls `Init` once, then `Next` until it gets an empty pointer. Each call runs to completion through its children, so each call is one step. The inputs are every pair of tables of up to `MaxRows` rows, chosen in `Init`.

### Executors

This module models the pipeline `Limit(Distinct(Join(SeqScan L, SeqScan R)))`.

- **Join kind:** the join is the nested-loop `JoinExecutor` or the `HashJoinExecutor`, chosen in `Init` as the plan would choose it.
- **Field record:** the executors' fields live in one record, `ex`.
- **History fields:** `jout`, `jend` and `dout` record what Join and Distinct returned to their parents. Each stage is checked against its own reference, because Distinct would otherwise hide a duplicated join row.
- **Hash collisions:** `Hash <- HashCollide` maps both keys to one bucket, so the hash join's recheck of the predicate matters.

Run `ex_join` uses 2 keys, 2 payloads, tables of up to 2 rows, offset 1 and limit 1. It checks three properties, and all three pass:

- `JoinStream`: Join's output is a prefix of the reference join, and equals it at the end.
- `DistinctStream`: Distinct's output is the first occurrence of each row Join gave it.
- `QueryResult`: the consumer gets rows offset+1..offset+limit of the distinct join. This must hold also when the offset lies past the end, where Limit keeps calling an exhausted child.

### Aggregation

This module models the pipeline `OrderBy(Aggregate(SeqScan L))` for `SELECT k, COUNT(1) ... GROUP BY k HAVING COUNT(1) >= MinCount ORDER BY COUNT(1) DESC`.

- **Aggregate:** groups by the hash of the key (`mp`).
- **OrderBy:** drains its child in `Init` and sorts an index vector with the code's comparator.
- **History variable:** `aout` holds the rows Aggregate returned.

| Run | Bounds | Checks | Result |
|---|---|---|---|
| `agg_pass` | 3 keys, `HashDistinct`, up to 5 rows, HAVING >= 2 | `GroupsByKey` (one row per key with its count, filtered by HAVING), `OrderedStable` (the output is the stable sort of `aout`) | pass |
| `agg_collide` | two keys with the same hash | `GroupsByKey` | violated |

**Finding (`agg_collide`):** the groups are keyed by the 64-bit hash alone (`aggregate_executor.hpp` 54). No line compares the group-by values, so colliding keys merge into one group. That group carries the first row's key and the total count.

### Fairness

- **Executors and Aggregation:** no fairness is assumed. All properties are invariants, and a finished query simply stops, so these runs set `CHECK_DEADLOCK FALSE`.
- **BPlusTree:** until Destroy any key may be inserted or taken; Destroy is the only terminal state.

## 7. Module Optimizer (`Optimizer.tla`, `MC_Optimizer.tla`)

This module models one call of `CostBasedOptimizer::Optimize` (`cost_based_optimizer.cpp` 159-201) on a query that passes `CheckCondition`: a left-deep join of `N` scans, each on a table with one integer key column.

### What a query is

- **Query:** a `where` sequence of predicates and, for each table, the set of its key values. Table statistics are exact for min, max and counts, which are those of the set. The frequency of a key is read from a count-min sketch, as described below. `gb` is the garbage in the uninitialised `cnt[]` array (`card_est.hpp` 164). Reading it is undefined behaviour, so it may be any double. `MC_Optimizer` draws it from -1, 0 and 1, the values that the `cnt==0` test at line 190 tells apart: below, at and above zero hits.
- **Predicate:** `[l, r, op, val]`. `l` and `r` name the table whose key is the left or right operand, or 0 for the literal `val`. A join predicate has two tables and a comparison has one.
- **Count-min sketch** (`catalog/stat.cpp` 7-15): `SketchCell(T, i, b)` is cell `b` of row `i` after `AddCount(key, 1)` for every key of the table. `GetFreqCount(T, j)` is the least of key `j`'s cells over the `SketchRows` rows. The hash `utils::Hash(key, (i+1)*233)` is the constant `SketchHash`. `MC_Optimizer` sends every key to one cell in row 0 and uses the identity in row 1, so with 2 buckets row 0 always collides and row 1 separates keys of different parity. The point and narrow-range paths then see overestimates as well as exact counts.
- **Doubles:** each number is a record: an exact rational, `1e100` ("big", which absorbs finite sums), inf or NaN. Division by zero, inf times zero and comparisons with NaN follow IEEE. `MinStd` and `MaxStd` are `std::min` and `std::max`, which return the first argument when the comparison is false.

### The call, in the code's order

The action `Ask` is the caller handing over a planned query (spec 4.6); the query is kept in `asked`. The action `Optimize` is the whole call on that query, in one step:

1. **`Push`:** the first `Apply`. `PushDownSplit` is `PushDownJoinPredicateRule`'s split into `v2`, `v1` and `v`. `PushFrom` walks the joins top-down, as `Apply` does. Filters merging into the node below them (PushDownFilterRule, not under `src`) are taken from spec 4.6.
2. **`Dfs1`:** collects the join predicates, top join first, into `v`.
3. **`EstimateTable`** for each leaf (dfs2): the bound fold (`RangeFold`, the same fold as `ConvertToRangeScanRule::Transform`), then the paths of the code in order: empty table, unconstrained, point query, narrow range (the loop over the integers `NarrowProbes`, counting hits in `NarrowHits` and summing frequencies), `l > r`, and the general range.
4. **`DP`:** the loop over masks. A one-table mask gets its leaf's summary. Any other mask starts at `f = 1e100` and tries its submasks largest first, keeping a split only if `res < f[i]` (`DPSplit`). `HashJoinable` is the `flag` loop, `JoinCost` is `res`, and `EstimateJoinEq` uses the first spanning equality.
5. **`GetPlan`:** follows `id[]` from the full mask. The static arrays start at zero and keep the values of the previous call, as in the code. A walk deeper than `N+1` can only be the code's unbounded recursion, and is the value `Overflow`.
6. **`SecondApply`:** GetPlan hangs every join predicate on the root join (line 156), and `Optimize` runs `Apply` again over that plan (lines 200-207), which yields the variable `final`. `ApplyRules` is `Apply`: at each node, `RuleLoop` runs the rules until a pass changes nothing (`RulePass`), and then it recurses into the children. `PDMatch`/`PDTransform` are `PushDownJoinPredicateRule` over Join and HashJoin nodes, both branches, and they wrap pushed predicates in a `Filter` above the child. `HJMatch`/`HJConvert` (ConvertToHashJoinRule) and `FilterMatch`/`FilterMerge` (PushDownFilterRule) are not under `src` and come from spec 4.6.

The loop over masks is written as a function over masks (`tab`). This is exact, because mask `i` reads only its own entry and those of its proper submasks, which are smaller and already final.

The cost functions of `cost_model.hpp` (not under `src`) are constants. `MC_Optimizer` gives them simple monotone forms: scan cost = size, hash join = build + probe, nested loop = build × cost of the inner side. That matches the argument pattern the code passes.

### Runs

| Run | Bounds | Checks | Result |
|---|---|---|---|
| `opt_pass` | 3 tables; keys {1,2}; literals 0..3; narrow width 1; garbage -1, 0 or 1 (only 0 for queries without a comparison, where `cnt[]` is never read); every query of up to two comparisons on table 1, or up to two join predicates plus one comparison on a later table, over tables of 0, 1 or 2 rows (55,633 states, under 1 min) | `PushDownPlaces` (each predicate ends where the push-down must put it, and none is lost or duplicated), `RangeExact` (for every probe value, inside the folded range iff every comparison holds, including tied strict and inclusive bounds), `EstimateCounts` (on the point, narrow and unconstrained paths, the estimated size is never below the number of matching rows, and equals it when some sketch row gives every probed key a cell of its own. The exception is a negative garbage value that cancels the hits exactly: it takes the `cnt==0` return and the size is 0), `PlanAsPriced` (the plan covers every table, and its cost and size estimate, recomputed from the scans in GetPlan's child order, are `f[full]` and `g[full]`), `FinalPlacement` (after the second Apply, no filter is left over a join, every join's predicates span its two sides, and every predicate of `v` appears exactly as often as before), `HashJoinAsCosted` (a join of the final plan is a HashJoin exactly when the DP's `flag` loop priced that split as one) | pass |
| `opt_crash` | 2 tables joined on their keys; table 1 holds any subset of {1,2}; at most one comparison on table 1 | `PlanCoversAll` | violated |

The literal range 0..3 lies below, between and above the keys. With narrow width 1, both the narrow loop and the general path are reached with two keys.

**Finding (`opt_crash`):** for `0 < t1.k` on a table whose only key is 2, the upper bound is filled in from the maximum, which gives the range (0, 2]. Its width 2 is above the narrow limit, so the general path divides by `max - min = 0` (`card_est.hpp` 197). The scan's size becomes inf, every cost with it is inf or NaN, and `res < f[3]` is never true. `id[3]` keeps its static 0, and `GetPlan(0)` calls itself forever (line 149).

**Hazards recorded, not checked:**

- `g[i]` depends on which split won, so the DP is not optimal in general. With three tables every two-table `g` is the same whichever split won, so minimality would hold by construction. The runs therefore do not state it. Counterexamples need four tables, which the run cannot enumerate in time.
- A negative `cnt[i]` that cancels the hits zeroes the estimate of a table that has matching rows. `EstimateCounts` confines the garbage's effect to exactly that case, and that case does occur in `opt_pass`. No violation run shows it, because every run slot is taken.

No fairness is needed: the model makes one call and stops (`CHECK_DEADLOCK FALSE`).

## 8. Not modelled, and why

- **PageManager buffer pool and free list:** the page handles and `EvictionPolicy` are in `page-manager.hpp`, but `GetPage`, `Allocate`, `DropPage` and `Free`, which pin, evict and reuse pages, are in `page-manager.cpp`, which is not in the repository. Without them the pool's pin counts and eviction order would be modelled from the spec alone. BPlusTree models only the allocator's free-list discipline, from the spec.
- **Optimizer, the rest:**
  - `CheckCondition`: the modelled queries are the shape it accepts.
  - Non-key columns: each table has one column, its key. A predicate on another column goes through the same fold and the same paths of `EstimateTable`, so one column reaches every path. What is left out is the product of several columns' factors (`hh`).
  - Float and string keys: these take the general path (no narrow loop), with the same division.
  - More than one call: the runs make one call. Stale `id` and `g` from an earlier call are a listed hazard.
- **Statistics sketches, the HyperLogLog** (`catalog/stat.cpp` 17-33): only `GetDistinctRate` uses it, and that is not under `src`. The Count-Min sketch is modelled in Optimizer (section 7), in the form `EstimateTable` reads it.
- **SeqScan, projection, filter, insert, update and delete executors:** their code is not under `src/src/execution`. SeqScan is modelled from the spec as a cursor over a sequence, and the modify paths appear only as the handle calls that TxnRollback models.
