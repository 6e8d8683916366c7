# TLA+ models of openGauss

openGauss is a relational database server that runs every session and every
background job as a thread of one process over shared memory. This directory
holds TLA+ models of the parts of it where threads meet: the locks, the
invalidation queue, the commit order and the snapshots, and the double write
file that guards pages against a crash. TLC checks the models on small
instances; TLAPS proves, for any number of threads, locks and transactions, that
lightweight and heavyweight locks exclude, that the invalidation queue loses no
message, and that snapshots are consistent.

Paths below are relative to the source root; `lwlock.cpp`, for instance, is
`src/gausskernel/storage/lmgr/lwlock.cpp`. `PROJECT.json` maps every
definition to the lines it models, and lists the runs, the mutants that show
each property can fail, the hazards and the theorems.

## 1. The parts of the system, and which of them are here

| part | state | operations | what makes it hard | module |
|---|---|---|---|---|
| Lightweight locks, `lwlock.cpp` | a state word, a wait queue and an optional variable per lock; `lwWaiting`, `lwWaitMode` and a semaphore per thread; the locks a thread holds | acquire, conditional acquire, acquire or wait, wait for the variable, update it, release, release and clear, release all | the lock is taken without the queue's lock; one semaphore serves several kinds of wait | `LWLock` |
| Hand-over of lightweight locks, `lwlock.cpp`, `md.cpp` | `held_lwlocks[]` of every thread | own, disown | acquired by one thread, released by another | `LWLockHandoff` |
| Shared invalidation queue, `sinvaladt.cpp` | a ring of messages, a position and flags per backend | begin, end, insert, fetch, clean up, signal | readers and writers hold different locks; counters are renumbered; laggards are reset | `SInval` |
| Processing of invalidations, `sinval.cpp`, `inval.cpp`, `relcache.cpp` | fetched messages, a duplicate filter, the caches | accept, rebuild, reset | it calls itself while it works on its own array | `SInvalReceive` |
| Commit order and snapshots, `procarray.cpp`, `xact.cpp`, `transam.cpp`, `csnlog.cpp`, `snapmgr.cpp` | next csn, clog, csnlog, the proc array, a ring of snapshots | begin, commit, abort, take a snapshot, ask for visibility, calculate the horizon, truncate the csnlog | readers take no lock at all | `CSNSnapshot` |
| End of transactions in groups, `procarray.cpp` | a lock-free list of backends | push, lead, clear, wake | members return and push again while their leader still wakes others | `GroupXidClear` |
| Heavyweight locks, `lock.cpp`, `proc.cpp`, `deadlock.cpp` | lock and proclock tables, fast-path slots, strong lock counts, wait queues, timers | acquire, fast path, transfer, grant, wait, deadlock check, timeout, cancel, release | the fast path and the strong locks share no lock; timeouts race with grants; soft deadlocks reorder queues | `LockManager`, `DeadLock` |
| Double write, page writers and the sync of a checkpoint, `double_write.cpp`, `pagewriter.cpp`, `bufmgr.cpp` | dirty flags, the double write file, what is written and what is durable | mark dirty, copy, write a batch, flush, recycle, truncate, crash, repair | a crash between any two writes; the checkpointer works without the flush lock | `DoubleWrite` |
| Deadlock monitor of lightweight locks, WAL insertion, synchronous replication, replication slots, two-phase commit, thread pool, memory-optimised tables, buffer manager, SLRU, parallel redo, postmaster, undo | see `PROJECT.json` | | | not modelled, with the reason |
| SQL processing, data types, indexes, tools | | | sequential, driven by data | not modelled |

How they interact: every other part takes lightweight locks, so `LWLock` is the
core and the other modules use its promise (`RWLock`) when they treat a lock as
a variable that names its holder. A commit takes a csn and writes both logs
(`CSNSnapshot`), leaves the proc array, alone or in a group (`GroupXidClear`),
which puts a new snapshot into the ring, and sends its invalidations
(`SInval`), which other backends take in when they lock a relation
(`SInvalReceive`, over the FIFO queues that `SIQueues` promises). What it locked
it gives back at its end (`LockManager`). The pages it changed go to disk later,
through the double write file and behind their log (`DoubleWrite`).

## 2. Modules

Abstract specifications are short and say what is promised; the detailed ones
are shown to implement them with a refinement mapping.

### LWLock, RWLock, MCLWLock, MCLWLockLive, LWLockProofs

One step is one atomic access to shared memory: a compare-exchange or fetch-op
on `lock->state`, a section under the wait-list spinlock, a store to another
thread's `lwWaiting`, or a semaphore operation. The state word is three
variables: `lockval` (the count under `LW_LOCK_MASK`), `hasWaiters` and
`releaseOk`. The compare-exchange loop of `LWLockAttemptLock` is
`AttemptLock`/`AttemptFails`: a failed exchange changes nothing and is tried
again. `pc[p]` says where a thread is: `FirstAttempt`, `QueueSelf`,
`SecondAttempt`, `DequeueSelf`, `Awaken`, `Retry` follow `LWLockAcquire` line by
line; `LWLockAcquireOrWait` and `LWLockWaitForVar` share them. `Release`
is the atomic subtraction with the test on the word it returned, and `Wakeup`,
`Unlink`, `Post` the walk of `LWLockWakeup`. `ForeignPost` and `ForeignWait`
stand for the other users of the semaphore (`ProcSendSignal`,
`ProcWaitForSignal`), outside this file. `LWLockReleaseAll` releases every lock; the
one the code spares (`HadrSwitchoverLock`) is left out.

`RWLock` is the promise: a lock is granted when no holder stands in the way. The
mapping counts a lock as held from the exchange that took it.

### LWLockHandoff

`held_lwlocks` as an array with slots that keep their content when a lock is
removed, and locks in flight between `LWLockDisown` (when an I/O is dispatched)
and `LWLockOwn` (when it completes). `grants` remembers in which modes the lock
was really acquired.

### SInval, SIQueues, MCSInval, SInvalProofs, SInvalRefinement

The ring `buffer` with `minMsgNum`, `maxMsgNum`, `nextThreshold`, the `procState`
of every slot, the holder of `SInvalWriteLock`, the holders of `SInvalReadLock`.
`SIInsertDataEntries` is cut where another thread can look: the test for
space, the messages, `maxMsgNum` (under `msgnumLock`), the `hasMessages` flags.
`SIGetDataEntries` is cut at its unlocked test, the clearing of `hasMessages`,
the read of `maxMsgNum`, the copying. `SICleanupQueue` is one step, since it
holds both locks exclusively; the signal it sends after it has released them is
another. `CaughtUp` clears `catchupInterruptPending` together with the lock acquire that
follows. `nextMsgNum` is an `int` (`AsInt`). `due` is a history variable, what
a running receive has still to read.

`SIQueues` is the promise: a FIFO queue per backend, whole or declared lost.

### SInvalReceive

The stack of active calls of `ReceiveSharedInvalidMessages`, the array they
share, and the filter `SkipRedundantInvalMsg`. Messages are relcache
invalidations: an entry that is not open is dropped, an open one rebuilt
(`RelationFlushRelation`), and a rebuild accepts messages before it scans the
catalogs. A relation is its version number in the catalogs and in the cache.
This is the path without the local system cache of thread pool workers.

### CSNSnapshot, MCCSNSnapshot, CSNSnapshotProofs

The local mode of a primary. A writer takes a transaction id, and either marks
its csnlog entry as committing, takes its csn, writes clog and csnlog, leaves
the proc array under `ProcArrayLock` and calculates a snapshot into the ring, or
aborts. A reader reads the current slot, counts its reference, publishes its
xmin, copies, gives the reference back and reads `snapshotcsn`, without a lock.
`XidVisibleInSnapshot` consults cache, clog or csnlog, waits for a committing
transaction if its mark is before the snapshot's csn, and looks again. A
reader may keep an older snapshot (a cursor). Two steps are the checkpointer's:
the scan and the truncation of the csnlog. `DeferCalculation` is the code's
deferred calculation of the horizon. After a snapshot is published the writer looks for
the next slot, one slot per step and with `ProcArrayLock` held; readers take and drop references
meanwhile. At the end of a round that leaves `SNAP_ERROR_COUNT` used slots or more behind it
the search ends in a PANIC, which stops all processes (`Panicked`). `Rare` names the
things an instance may leave out: deferred calculation, cursors, checkpoints. The model truncates transaction by
transaction, the code segment by segment; `globalRecycleXid`, which can only
lower the cutoff, is left out.

### GroupXidClear, XidEnd, GroupXidClearProofs

`ProcArrayEndTransaction` with its conditional acquire, the push with
compare-exchange, the leader that takes the whole list, ends the members'
transactions, calculates one snapshot, releases the lock and wakes the members
up. `published` is what the last snapshot knows as running. `XidEnd` is the
promise: an end takes effect once, between its call and its return.

### DeadLock, LockManager, MCLockManager, LockManagerInvariant, -Table, -Proofs

Relation locks of the default lock method. The local lock table of a backend is
`nLocks` (with `inTable`, the locks that have a proclock pointer); its slots are
`fpLocks` and `useCount`, guarded by `backendLock`; `strongCount` is the count of
its hash partition, `strongHeld` the locks whose `holdsStrongLockCount` is set. In
the shared table `hold[r][p]` is the hold mask of a proclock, `requested`, `queue`
and `waitMask` belong to the lock. `LockAcquire` is cut where another backend can
look: `Ask`, the fast path under the backend's lock (`AcquireFast`),
`BeginStrongLockAcquire`, one backend's slots at a time in
`FastPathTransferRelationLocks`, the section under the partition lock
(`Grant`, `DontWait`, `JoinWaitQueue` and the early exits of `ProcSleep`), the
sleep, and what follows it (`Wake`, `ReturnFromSleep`). Timers are flags that a
signal may fire at any time; `Cancel` is an interrupt; `SetupFails` and `TransferFails` are
the shared table out of memory. A stream thread may skip the wait (`GrantWithoutSleep`). Every
backend is in a transaction of its own, stream threads too: the code lets threads of one
transaction ignore each other's locks in `LockCheckConflicts`, and that is left out, as are lock
groups. `LockReleaseAll` is cut at its local scan and at
each proclock. What a backend may ask for is one of `Settings`, so that several
small scenarios are one run.

`DeadLock` has the search as operators: the waits-for graph with hard and soft
edges, the cycle the depth-first search meets first, the topological sort and the
recursion over constraints, which gives up when it has as many constraints as there are
backends. (The second such limit, in `TestConfiguration`, is never met: there are fewer
constraints than backends when it is called.) `check_stack_depth` and the check for a search
that runs too long are left out. The order in which the search meets the holders is that
of a list (`procLocks`) whose order the model leaves open (`Listings`).

### DoubleWrite, MCDoubleWrite

The content of a page is its LSN, counted per page. `mem` is the buffer, `cached`
what was last written in place, `durable` what was last synced, `walFlushed` how
far the page's log is on disk. The main thread marks the dirty pages and wakes the
sub-threads (`StartRound`); a sub-thread scans its part of the pool (`Scan`) and takes
shares of the round (`Apply`), copies the pages (`CopyPage`), writes the batch
(`LockFile`, `RecycleSync`, `RecycleReset`, `WriteBatch`) and then the pages
(`FlushPage`). An error while it copies or writes pages sends it back to wait for the next
round (`HandleException`): its batch is given up and the pages stay dirty. The write that failed
wrote nothing, and the sync in a recycling does not fail; writes to the double write file
itself cannot end in an error, only in a PANIC, which is a crash. The file is an array of pages: the file head, batch heads with the
tags of their pages, copies. The checkpointer's sync and its truncation are
four steps, as it holds no lock while it syncs. `Crash` may come at any step: a page
that was written since its last sync is old, new or torn; of the batch being
written any pages are in the file. The startup then verifies batch after batch,
repairs, syncs, and writes a new file head; `Redo` brings every page to the
flushed end of its log. `floor`, a history variable, is the LSN of a page as of
its last sync: a checkpoint's redo starts there.

## 3. Runs

All runs finish within three minutes on two cores. Several runs hold more than one
instance: the scenario (`part`, `scope` or `setting`) is chosen in the initial state and
kept.

| run | instance | what it shows |
|---|---|---|
| `lwlock` | 3 threads, 1 lock, values 0 and 1; for the hand-over 3 threads, 3 exclusive locks, 2 slots | `MutualExclusion`; no sleeper is left without somebody who will wake it (`NoLostWakeup`); a sleeper that waits for the variable still has a reason to (`VarWaiterInformed`); every handed-over acquisition has one responsible thread (`OneOwnerEach`) |
| `lwlock_live` | 2 threads, 2 locks, 1 foreign post each, release of all; 3 threads, 1 lock, a bounded number of calls | the word is exactly the holders' weight (`LockWordExact`); a thread is in one list at most, and the PANIC of `LWLockQueueSelf` is unreachable (`OneLinkPerProc`); no semaphore count is lost or invented (`SignalsConserved`); `ImplementsRWLock`; `EveryCallReturns` |
| `handoff_shared` | the hand-over with shared locks | violated: finding 1 |
| `sinval` | 2 backends, one of them a thread pool session, ring of 3, renumbering at 3, 2 distinct messages | `PositionsInOrder`, `NothingMissed`, `ReceivesAll`, `SignalNotStuck`, `CleanupMakesRoom`, and `ImplementsQueues` |
| `sinval_receive` | 3 relations, 2 of them open, 4 commits, array of 2, filter of 1 | `NoMessageOverwritten`, `Returns` |
| `sinval_receive_stale` | 2 open relations | violated: finding 2 |
| `csn` | 2 writers, 1 reader, 2 transactions, ring of 2, PANIC after 3 used slots | with fewer readers than slots the search for a slot never ends in the PANIC (`RingSuffices`); a snapshot is one cut of the commit order (`SnapshotIsACut`); the status is final when the wait ends (`FinalWhenUnlocked`); the horizon never passes a snapshot (`HorizonSafe`); `LogsFinal` |
| `xact_end` | 1 writer, 2 readers, ring of 2; 2 writers, 1 reader, ring of 2; for group clearing 3 backends, 2 transactions each, 1 foreign post to one of them | a wait for a transaction ends, unless a full ring ends in the PANIC (`WaitsEnd`); `OneLeaderEach`, `SignalsConserved`, `ImplementsXidEnd`, `EveryEndReturns` |
| `csn_truncate` | as `csn` | violated: finding 3 |
| `locks` | 3 backends, 2 relations of one partition, 1 fast-path slot, 5 scenarios | conflicting modes are never owned together, across fast path and table (`NoConflict`); nothing is left behind in shared memory (`HeldIsKnown`); the counters are exact (`CountsExact`); nobody sleeps who could go on (`NoMissedGrant`); every deadlock has a check to come (`DeadlockSeen`); a backend fails only for a deadlock that no order of the queues resolves (`DeadlockReal`); a wait ends, unless rearranged queues or stream threads that skip the wait starve it (`WaitsEnd`) |
| `dw` | 2 pages, 2 sub-threads, batches of 1, a file of 7 or 9 pages, up to 2 crashes, 4 scenarios | after the repair no page is torn or older than at its last sync (`RecoveredFromFile`); log before data (`WALFirst`); the file on disk is always a chain up to the next batch (`ChainWhole`); the repair never goes back (`NeverBack`); every dirty page is written (`PagesGetWritten`) |
| `dw_truncate` | the scenario with the checkpointer | violated: finding 4 |

### Bounds

- Locks: three threads are the first instance with a holder, a queued waiter
  and a late-comer; two waiters of different modes are needed for the choice in
  `LWLockWakeup`. `LW_VAL_EXCLUSIVE = 4` outweighs three sharers, as
  the code's 2^24 outweighs any number of threads. `MaxSignals`
  bounds the foreign posts outstanding; a holder, a sleeper and two locks, so two
  threads, are what they need to hit the wrong wait.
- Invalidation: a ring of 3 with `WRITE_QUANTUM` 1 and a fetch of 2 has partial
  fetches, full fetches, a full ring, resets and a renumbering after three
  messages; every proportion the code asks for (`RingFits`) is kept. The
  message numbers are bounded by the code's renumbering itself, so the run is
  exhaustive over sequences of any length.
- Snapshots: `MaxXid = 2` transactions and a ring of 2 suffice for a slot to be
  reused between a reader's read of the pointer and its reference. The
  reader starts any number of transactions and statements. In `xact_end` two readers can
  hold both slots, so that a commit finds the ring full, goes round it and gives up: with as
  many readers as slots the PANIC is reachable. The code has 64 slots and a limit of 256; the
  comment at `procarray.cpp:4674`, "overflow should not happen here", is a matter of how many
  backends take a snapshot at one time. The limits of the model (2 and 3) are in the
  same order.
- Groups: `MaxRuns = 2` lets a member return and push again while its leader is
  still at work. The run ends when all transactions are used up, hence no
  deadlock check there; the same holds for the bounded part of `lwlock_live`. In its
  other part two threads may take the locks in opposite orders and wait for each other for
  ever, which `lwlock.cpp` leaves to its callers and to the monitor.
- One of the three backends is the target of foreign posts (`ForeignTargets`). It can be
  leader, member or alone; the semaphores are separate, and no step depends on two of them.
- Relation locks: three backends are the least for a soft edge, two relations for a
  cycle of two locks. The scenarios are crossing requests that only a new order of the
  queue resolves, opposite orders that only an error ends, upgrades of a share lock with
  cancel, memory failure, timeout and a subtransaction, two stream threads that
  overtake a waiter, and modes that are neither weak nor strong beside weak and strong ones. One
  slot makes the second share lock go to the table;
  both relations share a partition, the worst case for the strong lock count. Of the eight
  modes 1, 3, 4 and 8 are used: two weak ones, one in between and a strong one for
  the fast path.
- Double write: with batches of one page and 7 pages the file is full after two or three
  batches, and a startup always reuses it; with 9 pages a startup may cut off what it has
  repaired instead. One error of a sub-thread suffices to give up a batch that another one waits for, and a
  list of two pages is a double batch (head, page, tail and head, page, tail). Two versions of a page tell an old copy from the needed one. The runs end when
  all changes are written.
- Symmetry is used over interchangeable threads, locks and writers, in runs without liveness.

### Fairness

- `lwlock_live`: a thread inside a call keeps running, and a holder releases:
  lightweight locks are held over short sections with interrupts held off. The number
  of acquiring calls is bounded because late-comers may overtake a waiter for
  ever: the code promises no fairness and none is claimed.
- `sinval_receive`: the one backend runs.
- `xact_end`: a writer that has begun to commit or abort goes on (a critical section),
  and a reader that takes a snapshot does. Neither a new transaction nor the end
  of a reader's transaction is assumed; failing waits are not assumed either. In a group
  backends run (interrupts are held off); as the transactions are finitely many, weak
  fairness of the leader's `LWLockAcquire` is enough.
- `locks`: backends run, and the deadlock timer of a sleeping backend fires. A transaction
  ends; no cancel and no lock wait timeout has to come. Nothing keeps a waiter from being
  overtaken for ever by stream threads that skip the wait and never queue, or by queues that
  deadlock checks rearrange: `WaitsEnd` says that nothing else starves it.
- `dw`: page writers and the WAL writer run, and the startup does. No crash is assumed
  not to happen; their number is bounded.

## 4. Proofs

All theorems hold for every value of the constants that the named assumptions
allow. Each inductive invariant was checked by TLC before it was proved.

### Lightweight locks: LWLockProofs

For every finite set of threads, any set of locks and of values, and any weight
above the number of threads:

- `LockInvariant`: `Spec => []LockInv`;
- `TypesHold`: `Spec => []TypeOK`; in particular the count, from which
  `LWLockRelease` subtracts without a test, never goes below zero;
- `MutualExclusionHolds`: `Spec => []MutualExclusion`;
- `LockWordIsExact`: `Spec => []LockWordExact`;
- `WordImplementsRWLock`: `Spec => ImplementsRWLock`, the refinement of `RWLock`.

The assumptions are the named ones of `LWLock`: `ProcsFinite`, `ClearValIsVal`,
`ExclusiveOutweighsSharers`, `BoundsAreNat`.

`MutualExclusion` is not inductive: nothing in it forbids a state word of zero
with a holder, from which a second holder would be let in. `LockInv` adds
`WordsFit`: the word is the number of sharers and nobody is exclusive, or there
is one exclusive holder, no sharer, and the word is `LW_VAL_EXCLUSIVE`. That
in turn needs `ControlOK`: a thread that waits for a lock does not hold it, and
is only at places its call can reach; otherwise a grant could count one thread
twice. The lemmas `TakeExclusive`, `TakeShared`, `DropExclusive` and `DropShared`
do the arithmetic of the word once; `Taken`, `Unmoved` and their like lift it to
steps by what a step does to the holders; then there is one lemma per group of
actions, and `StepLockInv` puts them together.

The same lemmas say what a step does to the holders (`HoldStep`): nothing, or one thread
takes a lock that no other holder denies it, or one thread drops a lock it holds.
`HoldStepIs` turns that into a step of `RWLock` on `Holding`, the lock table of the
refinement mapping. `Holding` is not `held_lwlocks[]`: a lock granted by the second attempt is
held from then on, and only recorded after the thread has left the queue.

### Heavyweight locks: LockManagerInvariant, -Table, -Proofs

For every finite set of backends and relations, any set of the eight modes, any
partition of the strong lock counts and any settings:

- `LockInvariant`: `Spec => []LockInv`;
- `LocksExclude`: `Spec => []NoConflict`: two backends never own locks of one
  relation in conflicting modes, whichever came through the fast path and
  whichever through the table.

The assumption is `LockConstants`. The conflict table is the code's own.

`NoConflict` speaks of what the backends believe they own. The invariant says
why their beliefs agree:

- `Owned`: an owned lock is in the backend's slots or granted in the table, and a
  strong one is counted;
- `Strong`, `StrongCounted`: a count of `FastPathStrongRelationLocks` is exactly the
  number of strong locks of its partition, those still asked for included. So who
  reads zero knows that nobody has or seeks a strong lock;
- `FastExcluded`: from the moment a strong lock is counted, the slots of every other
  backend are empty of the relation, or its transfer has yet to visit them;
- `TableExcludes`: the locks granted in the table, and live, do not conflict. A lock
  granted to a wait which has failed is not live: it is only there to be given back;
- `QueuesOK`: a queue is a total order of backends that wait; without it a wakeup
  could grant a lock to a backend that does not ask for it;
- `Control`: what a backend knows of its own request at each place.

`LockManagerInvariant` states it, proves what a step of one backend leaves alone
of the others, and has the steps on local state and slots; `-Table` has those on the table
and those that grant to waiters (`ProcLockWakeup`, the rearranged queues of the deadlock
check included), `-Proofs` the counts and the theorems. TLC checked
`LockInv` on the instance of `locks` (172,600 states).

### Snapshots: CSNSnapshotProofs

For any set of writers, any finite set of readers, any number of transactions and
any ring of two slots or more and fewer than `SNAP_ERROR_COUNT`:

- `CutInvariant`: `Spec => []CutInv`;
- `SnapshotsAreCuts`: `Spec => []SnapshotIsACut`;
- `StatusIsFinal`: `Spec => []FinalWhenUnlocked`;
- `HorizonIsSafe`: `Spec => []HorizonSafe`;
- `LogsAreFinal`: `Spec => LogsFinal`, an action property;
- `TypesHold`: `Spec => []TypeOK`;
- `RingIsLargeEnough`: `Spec => []RingSuffices`: with fewer readers than slots no search for a
  slot ends in the PANIC.

The assumptions are `RingHasNext` and `SnapshotConstants`.

`SnapshotIsACut` relates an answer given once to what the logs say now. It needs

- `WriterOK`: where a writer is determines what both logs say of its transaction;
  above all, a transaction that has its csn is already marked as committing, so a
  reader with a later snapshot waits for it instead of answering no;
- `XidsOK`: a transaction that has begun is finished or has the one writer that will
  finish it;
- `HorizonsOK`: all that precedes an xmin in the ring, `shmemXmin` or `recentLocalXmin`
  is finished. `XidVisibleInSnapshot` answers from the xmin alone;
- `ReaderOK` with `SnapshotOK`, `CacheOK` and `AnswerOK`: what precedes the xmin of a snapshot
  or the horizon is finished before the csn of the snapshot; a cached status is final and
  true, or the frozen csn; each answer is right, and a transaction not seen that
  takes a csn later takes one that is not below the snapshot's.

`Onward` states what no step undoes: counters grow, a finished transaction stays as
it is, a csn is kept once taken. Each action is shown to preserve `CutInv` and to
be a step of `Onward`, and a reader that takes no step keeps `ReaderOK` by `Onward`
alone. `LogsAreFinal` follows from `Onward`. `TypeOK` bounds the csn counter by the number of
transactions and the reference counts by the number of readers; it is proved from two
exact counts, `CSNsCounted` and `RefsCounted`.

`RingIsLargeEnough` is about a search that goes round the ring while the readers move. That some
slot is free at any time is not enough, for it may be another one each time the search looks.
But a reader that comes later takes the current slot, so the other slots only
become free. `ScanInv` says that from the second round on a slot that nobody holds or is about to
hold lies ahead of the search in its round (`FreeAhead`). At the end of the first round there
is one, by counting readers and slots (`SomeSlotFree`); no reader can take it
(`ReaderScan`); the search stops there at the latest (`SearchStep`), before the second round,
the first that can reach the limit, is over.

TLC checked `CutInv`,
`CSNsCounted`, `RefsCounted` and `ScanInv` for two writers, one reader and two transactions (1,438,438 states).

### End of transactions in groups: GroupXidClearProofs

For any set of backends, any number of transactions and any foreign posts:

- `GroupImplementsXidEnd`: `Spec => ImplementsXidEnd`, the refinement of `XidEnd`.

The hypothesis is `GroupConstants`: the mark for "no backend" is no backend, and the
bound on the transactions is a number.

A leader walks lists of any length through pointers that others write, so the
invariant has to say what a list is without following it. `GroupInv` says that there is a
labelling: `own[q]`, the leader whose list `q` is on, and `rank[q]`, the members behind it
there. Along a pointer the owner stays and the rank falls by one, only the leader is last,
ranks differ, and none is above the head's (`OnList`). With them

- a walk from the head meets every member: one that is not cleared ranks at or below the
  walk's position, and when the walk ends none is left, so that one calculation
  of a snapshot publishes the end of them all;
- a leader's walk stays in its own list (`Leads`), though a new list may be growing at the
  shared head (`FirstOK`) and the members it has woken up may be on it;
- a member that is unlinked and not yet told sleeps on no list, in the hand of one
  leader (`Unlinked`), and a backend returns only when its xid is cleared and published
  (`Alone`).

One lemma per action shows that a labelling remains: a push ranks the backend above the old
head, the wakeup takes the member off, and every other action keeps the labels.
Then each step is a call, an end of some transactions or a return of `XidEnd`, or
changes nothing there. TLC checked `GroupInv` for three backends with two transactions each
and no foreign posts (36,849 states).

### Invalidation queue: SInvalProofs, SInvalRefinement

For any number of backends and reserved slots, any set of messages, any ring whose
size divides `MSGNUMWRAPAROUND`, and any tuning of the cleanup:

- `QueueInvariant`: `Spec => []QueueInv`;
- `NumbersStayInOrder`: `Spec => []PositionsInOrder`, `TypeOK` included: no message number
  leaves its range, however often the server renumbers;
- `NothingIsMissed`: `Spec => []NothingMissed`;
- `AllAreReceived`: `Spec => []ReceivesAll`;
- `SignaledIsNotStuck`: `Spec => []SignalNotStuck`;
- `CleanupIsEnough`: `Spec => CleanupMakesRoom`, an action property;
- `RingImplementsQueues`: `Spec => ImplementsQueues`, the refinement of `SIQueues`.

The assumptions are `RingFits` (the proportions that the comments of `sinvaladt.cpp` ask
for), `BatchesAreMsgs`, `SlotsFit` (the reserved slots are among the slots), `Tunables`
(`CLEANUP_QUANTUM` and the size of a fetch are not zero) and `MarksAreNotQueues` (the two
marks of `SIQueues`, for a backend that is gone and for one that was reset, are no
sequences of messages).

`QueueInv` is `PositionsInOrder` and, for every slot:

- `Place`: the loops up to `lastBackend` and `lastreserveBackend` meet every active slot, so
  a cleanup overlooks nobody; who is at work is active and has the lock of its step;
- `Room`: the space that `SIInsertDataEntries` tested for is there until `maxMsgNum` is
  moved, and the messages are then in the buffer;
- `Told`: `hasMessages` is clear only where all that is announced has been read. While a
  read is under way the flag is already clear and the messages are not yet read; what
  holds then is that the `maxMsgNum` it has read covers what was announced when the flag was
  cleared, or the flag has been set again;
- `Owing`: what a receive owes (`due`) is announced, and while it copies it is below the
  `maxMsgNum` it has read, so a fetch that ends early leaves nothing due.

The hard step is `SICleanupQueue`. `CleanupEffect` states once what its loop over the
slots and the renumbering do to each slot: reset if too far behind, otherwise the same
distance from `maxMsgNum` as before, and at the same place of the ring, for
`MSGNUMWRAPAROUND` is a multiple of its size. The lemmas of the first section
(`Divided`, `Multiples` and what follows from them) say that numbers less than a ring apart
are in different places of the ring.

`SInvalRefinement` writes the unread messages as `Between(buffer, nextMsgNum, maxMsgNum)` and
shows what appending, dropping and renumbering do to it; then one lemma per action
says which step of `SIQueues` it is. Almost all leave every queue as it is;
`PublishMaxMsgNum` posts to all of them, `CopyMessages` takes from one, `SICleanupQueue`
overruns some. TLC checked `QueueInv` on the instance of `sinval` (1,235,511 states).

### Only model-checked

- Liveness (`lwlock_live`, `sinval_receive`, and the like): beyond the prover.
- `LWLock`: `NoLostWakeup`, `VarWaiterInformed`, `OneLinkPerProc`, `SignalsConserved` and
  `OneOwnerEach`. They are about the wait queues, which `LockInv` leaves out because exclusion
  does not depend on them; an invariant for them has to relate each link, each
  pending wakeup and each post of a semaphore.
- `LockManager`: `HeldIsKnown` and `CountsExact` (sums over the table), `NoMissedGrant`,
  `DeadlockSeen` and `DeadlockReal`. The deadlock check is a recursive search, and what it
  finds cannot be proved without induction over the search.
- `SInvalReceive`, whose calls nest.
- `GroupXidClear`: `OneLeaderEach` and `SignalsConserved`.
- `DoubleWrite`: `RecoveredFromFile`, `WALFirst` and `ChainWhole`.

## 5. Findings

1. **`LWLockOwn` keeps a stale mode** (`lwlock.cpp:1976`; run `handoff_shared`). It
   assigns the lock of the new slot of `held_lwlocks`, not its mode. The mode is
   whatever the slot held before, `LW_EXCLUSIVE` at first, and `LWLockRelease`
   subtracts its weight. A lock taken shared and handed over, as a
   page's `content_lock` is for asynchronous write-back (`bufmgr.cpp:1325`), is
   so released as exclusive. The comment says "The lock is unaffected, it remains held".
2. **The duplicate filter skips news** (`sinval.cpp:154`; run
   `sinval_receive_stale`). `rcData` is emptied only when the outermost
   `AcceptInvalidationMessages` begins. A relation that one batch recorded and
   rebuilt is skipped in a later batch of the same call, though
   another commit has changed it in between; the message is gone and the entry
   stays out of date. The comment at `sinval.cpp:133` asks that "all outstanding
   inval messages have been processed".
3. **A checkpoint may truncate beyond a reader's xmin** (`procarray.cpp:4689`; run
   `csn_truncate`). Between the read of `g_snap_current` and the reference, and
   before xmin is published, commits and a checkpoint can move the csnlog's
   start past the xmin the reader then publishes. The comment at
   `xlog.cpp:12225` says that no future transaction will refer to what is thrown away. The reader
   may get an error; it loses no row (`HorizonSafe` holds), and removal by
   segments makes it rare.
4. **The checkpointer may cut off a batch that is still needed** (`double_write.cpp:828`;
   run `dw_truncate`). `dw_batch_file_recycle` notes the oldest batch in use, gives the
   flush lock back and syncs. When no batch was in use, it then moves the start of the
   file by the `flush_page` of after the sync. A page writer may in between have written
   a batch and its pages in place, too late for the sync. A crash leaves such a page
   torn, and the startup does not look at its copy. The comment at
   `double_write.cpp:751` says that all before the new start is "garanteed to be
   smgr-synced". When a batch was in use the start moves to that batch, and all is well.

## 6. Not modelled

In the modelled parts: deadlock victims of the lock monitor; statistics and
tranches; subtransactions, GTM modes, standby and shared-storage (DMS)
snapshots, maintenance mode and the lookups of a transaction that is aborting (both
leave `XidVisibleInSnapshot` at `snapmgr.cpp:275`, before its second look), vacuum flags,
logical decoding; the aarch64
variant of the snapshot references (a bit per slot; the x86 counters are
modelled); `ProcArrayClearTransaction`; catcache and session-level invalidations;
memory-ordering weaker than the barriers the code has; lock groups, session locks,
locks of prepared transactions and of virtual transactions, the cancelling of
autovacuum workers by a deadlock check and of redistribution; an error of the sync inside
`dw_batch_file_recycle` (`double_write.cpp:793`, where `start` and `flush_page` are reset in
memory and the file head is not yet written); the single-page double write files, several
batch files, changes of format and size, the dirty page queue and its recovery position,
hint bits set without a log record. Pages of the double write file are old or new as
a whole, and the pages of an instance have different block numbers. The other parts are in
section 1 and, with the reasons, in `PROJECT.json`.

What would come next, in this order: the deadlock monitor of the lightweight locks with the
victim's path in `LWLock`; synchronous replication and replication slots; reservation, copy
and flush of the log; subtransactions in `CSNSnapshot`; prepared transactions.
