---------------------------- MODULE LockManager ----------------------------
(***************************************************************************)
(* The heavyweight lock manager (lock.cpp, proc.cpp): relation locks in    *)
(* eight modes, kept in the shared lock table or, weak modes only, in the  *)
(* fast-path slots of the backend itself.                                  *)
(*                                                                         *)
(* What runs under a partition lock of the table, or under the backendLock *)
(* of one backend, is one step; the partition lock is let go only to       *)
(* sleep.  A wait queue is the order of its members (see DeadLock).        *)
(* granted[m] of a lock is the number of backends that hold m.             *)
(***************************************************************************)
EXTENDS DeadLock

CONSTANTS
    Modes,      \* the lock modes asked for: a subset of 1 .. 8
    Settings,   \* what the backends are and do, see setting
    Buckets,    \* the hash partitions of FastPathStrongRelationLocks
    Bucket,     \* Bucket[r]: the partition of relation r
    FPSlots,    \* FP_LOCK_SLOTS_PER_BACKEND
    Nobody,
    MaxPosts    \* bound: posts a semaphore keeps

VARIABLES
    pc,
    req,            \* req[p]: the lock p asks for, waits for or gives back, or NoRequest
    nLocks,         \* nLocks[p][l]: LOCALLOCK.nLocks of l, a relation and a mode
    inTable,        \* inTable[p]: locks whose LOCALLOCK points to a lock and a proclock
    strongHeld,     \* strongHeld[p]: locks whose LOCALLOCK holdsStrongLockCount
    inProgress,     \* inProgress[p]: StrongLockInProgress # NULL; it is req[p]
    useCount,       \* FastPathLocalUseCount
    allLocks,       \* the argument of LockReleaseAll
    releaseMask,    \* releaseMask[p][r], of p's proclock
    fpLocks,        \* fpLocks[p][r]: the modes in p's fast-path slot of r
    backendLock,    \* backendLock[p]: the holder of the LWLock of p's slots
    strongCount,    \* FastPathStrongRelationLocks->count
    untransferred,  \* untransferred[p]: backends whose slots p has yet to look at
    hold,           \* hold[r][p]: holdMask of p's proclock
    queue,          \* queue[r]: waitProcs
    requested,      \* requested[r][m]
    waitMask,
    waitStatus,
    heldLocks,      \* heldLocks[p]: what p held on the relation when it went to sleep
    lockAwaited,    \* lockAwaited[p]: lockAwaited # NULL; it is req[p]
    sem,
    deadlockTimer,  \* deadlock_timeout_active
    lockwaitTimer,  \* lockwait_timeout_active
    timedOut,       \* deadlock_state = DS_LOCK_TIMEOUT
    setting         \* of this behaviour: it is chosen in the beginning and does not change

localLocks == <<nLocks, inTable, releaseMask, allLocks>>
strong == <<strongHeld, inProgress, strongCount, untransferred>>
fastPath == <<useCount, fpLocks, backendLock>>
table == <<hold, queue, requested, waitMask>>
wakeup == <<waitStatus, sem>>
timers == <<deadlockTimer, lockwaitTimer, timedOut>>
waiting == <<heldLocks, lockAwaited, timers>>
vars == <<pc, req, localLocks, strong, fastPath, table, wakeup, waiting, setting>>

Locks == Rels \X Modes
Requests == [rel : Rels, mode : Modes, dontWait : BOOLEAN]
NoRequest == [rel |-> "none", mode |-> 0, dontWait |-> FALSE]
Lock(p) == <<req[p].rel, req[p].mode>>

ASSUME LockConstants ==
    /\ IsFiniteSet(Procs) /\ IsFiniteSet(Rels) /\ Nobody \notin Procs
    /\ Modes \subseteq 1 .. 8
    /\ Bucket \in [Rels -> Buckets]
    /\ \A s \in Settings, p \in Procs : s.wants[p] \subseteq Requests

Wants(p) == setting.wants[p]        \* the requests backend p makes
Subs == setting.subs                \* the backends whose statements run in a subtransaction
Aborting == setting.aborting        \* those whose transactions also end in a plain ROLLBACK
Canceled == setting.canceled        \* those whose waits are canceled or time out
ShortOfMemory == setting.short      \* those that meet a full lock table
Streams == setting.streams          \* the backends that are stream threads or their consumer
MaxLocks == setting.maxLocks        \* bound: how often one backend takes one lock

EligibleForRelationFastPath(m) == m < ShareUpdateExclusiveLock
ConflictsWithRelationFastPath(m) == m > ShareUpdateExclusiveLock

Init ==
    /\ pc = [p \in Procs |-> "idle"]
    /\ req = [p \in Procs |-> NoRequest]
    /\ nLocks = [p \in Procs |-> [l \in Locks |-> 0]]
    /\ inTable = [p \in Procs |-> {}]
    /\ releaseMask = [p \in Procs |-> [r \in Rels |-> {}]]
    /\ allLocks = [p \in Procs |-> FALSE]
    /\ strongHeld = [p \in Procs |-> {}]
    /\ inProgress = [p \in Procs |-> FALSE]
    /\ strongCount = [b \in Buckets |-> 0]
    /\ untransferred = [p \in Procs |-> {}]
    /\ useCount = [p \in Procs |-> 0]
    /\ fpLocks = [p \in Procs |-> [r \in Rels |-> {}]]
    /\ backendLock = [p \in Procs |-> Nobody]
    /\ hold = [r \in Rels |-> [p \in Procs |-> {}]]
    /\ queue = [r \in Rels |-> {}]
    /\ requested = [r \in Rels |-> [m \in Modes |-> 0]]
    /\ waitMask = [r \in Rels |-> {}]
    /\ waitStatus = [p \in Procs |-> "ok"]
    /\ sem = [p \in Procs |-> 0]
    /\ heldLocks = [p \in Procs |-> {}]
    /\ lockAwaited = [p \in Procs |-> FALSE]
    /\ deadlockTimer = [p \in Procs |-> FALSE]
    /\ lockwaitTimer = [p \in Procs |-> FALSE]
    /\ timedOut = [p \in Procs |-> FALSE]
    /\ setting \in Settings

Goto(p, where) == pc' = [pc EXCEPT ![p] = where]
Return(p) == Goto(p, "idle") /\ req' = [req EXCEPT ![p] = NoRequest]

-----------------------------------------------------------------------------
(* The lock table *)

granted(h, m) == Cardinality({p \in Procs : m \in h[p]})

(* The modes whose waitMask bit GrantLock and RemoveFromWaitQueue leave set *)
StillWaited(mask, h, rq, changed) == mask \ {m \in changed : granted(h, m) = rq[m]}

(* Some other backend holds a lock that conflicts.  Threads of one transaction or lock *)
(* group do not count as others: here every backend, the stream threads included, is   *)
(* in a transaction of its own, and none is a redistribution that may be canceled.     *)
LockCheckConflicts(h, p, m) == \E x \in Procs \ {p} : h[x] \cap LockConflicts[m] # {}

WithGrants(h, r, G) ==
    [p \in Procs |-> IF p \in G /\ req[p].rel = r THEN h[p] \cup {req[p].mode} ELSE h[p]]

(* G are the waiters of q that ProcLockWakeup wakes: those that conflict neither *)
(* with a holder nor with a waiter before them that sleeps on.                   *)
Wakes(r, h, q, G) ==
    \A p \in Members(q) :
        p \in G <=>
          /\ ~LockCheckConflicts(WithGrants(h, r, G \cap Ahead(q, p)), p, req[p].mode)
          /\ \A x \in Ahead(q, p) \ G : req[x].mode \notin LockConflicts[req[p].mode]

(* The table becomes h, q, rq and mask; then the waiters of the relations in rels *)
(* are woken.  status is the waitStatus of the others; posted get a post.         *)
ProcLockWakeup(h, q, rq, mask, rels, status, posted) ==
    \E G \in SUBSET UNION {Members(q[r]) : r \in rels} :
        /\ \A r \in rels : Wakes(r, h[r], q[r], G)
        /\ hold' = [r \in Rels |-> WithGrants(h[r], r, G)]
        /\ queue' = [r \in Rels |-> {e \in q[r] : e[1] \notin G /\ e[2] \notin G}]
        /\ requested' = rq
        /\ waitMask' = [r \in Rels |->
              StillWaited(mask[r], WithGrants(h[r], r, G), rq[r],
                          {req[p].mode : p \in {x \in G : req[x].rel = r}})]
        /\ waitStatus' = [p \in Procs |-> IF p \in G THEN "ok" ELSE status[p]]
        /\ sem' = [p \in Procs |->
              LET n == sem[p] + (IF p \in G THEN 1 ELSE 0) + (IF p \in posted THEN 1 ELSE 0)
              IN IF n > MaxPosts THEN MaxPosts ELSE n]

(* Mutant: the bit of the mode stays in waitMask *)
RemoveLeavingMask(p, rq, mask, status, posted) ==
    LET r == req[p].rel
    IN ProcLockWakeup(hold, [queue EXCEPT ![r] = {e \in @ : e[1] # p /\ e[2] # p}],
                      [rq EXCEPT ![r][req[p].mode] = @ - 1], mask,
                      {r}, [waitStatus EXCEPT ![p] = status], posted)

(* RemoveFromWaitQueue, with the CleanUpLock that ends it *)
RemoveFromWaitQueue(p, rq, mask, status, posted) ==
    LET r == req[p].rel
        m == req[p].mode
        left == [rq EXCEPT ![r][m] = @ - 1]
    IN ProcLockWakeup(hold, [queue EXCEPT ![r] = {e \in @ : e[1] # p /\ e[2] # p}], left,
                      [mask EXCEPT ![r] = StillWaited(@, hold[r], left[r], {m})],
                      {r}, [waitStatus EXCEPT ![p] = status], posted)

(* Mutant: the waiters are looked at when one of them asks for the same mode *)
ReleaseWakesSameMode(p, r, ms) ==
    ProcLockWakeup([hold EXCEPT ![r][p] = @ \ ms], queue,
                   [requested EXCEPT ![r] = [m \in Modes |-> IF m \in ms THEN @[m] - 1 ELSE @[m]]],
                   waitMask,
                   IF ms \cap waitMask[r] # {} THEN {r} ELSE {},
                   waitStatus, {})

(* UnGrantLock of some modes and CleanUpLock: the waiters are looked at when a *)
(* mode that is given back conflicts with what some waiter asks for.           *)
ReleaseInTable(p, r, ms) ==
    ProcLockWakeup([hold EXCEPT ![r][p] = @ \ ms], queue,
                   [requested EXCEPT ![r] = [m \in Modes |-> IF m \in ms THEN @[m] - 1 ELSE @[m]]],
                   waitMask,
                   IF \E m \in ms : LockConflicts[m] \cap waitMask[r] # {} THEN {r} ELSE {},
                   waitStatus, {})

-----------------------------------------------------------------------------
(* LockAcquire *)

(* A lock the backend holds is only counted *)
AcquireAgain(p, q) ==
    /\ pc[p] = "idle"
    /\ nLocks[p][<<q.rel, q.mode>>] \in 1 .. MaxLocks - 1
    /\ nLocks' = [nLocks EXCEPT ![p][<<q.rel, q.mode>>] = @ + 1]
    /\ UNCHANGED <<pc, req, inTable, releaseMask, allLocks, strong, fastPath, table, wakeup, waiting>>

Ask(p, q) ==
    /\ pc[p] = "idle" /\ nLocks[p][<<q.rel, q.mode>>] = 0
    /\ req' = [req EXCEPT ![p] = q]

MayUseFastPath(p, q) == EligibleForRelationFastPath(q.mode) /\ useCount[p] < FPSlots

(* Mutant: the count of strong lockers is not looked at *)
AcquireFastUnchecked(p, q) ==
    /\ Ask(p, q)
    /\ MayUseFastPath(p, q)
    /\ backendLock[p] = Nobody
    /\ backendLock' = [backendLock EXCEPT ![p] = p]
    /\ Goto(p, "fast_path")
    /\ UNCHANGED <<localLocks, strong, useCount, fpLocks, table, wakeup, waiting>>

(* At its slots, the backend reads the count of strong lockers ... *)
AcquireFast(p, q) ==
    LET free == strongCount[Bucket[q.rel]] = 0
    IN /\ Ask(p, q)
       /\ MayUseFastPath(p, q)
       /\ backendLock[p] = Nobody
       /\ backendLock' = [backendLock EXCEPT ![p] = IF free THEN p ELSE Nobody]
       /\ Goto(p, IF free THEN "fast_path" ELSE "table")
       /\ UNCHANGED <<localLocks, strong, useCount, fpLocks, table, wakeup, waiting>>

UsedSlots(slots) == Cardinality({r \in Rels : slots[r] # {}})

(* ... and enters the lock, when there is room, if it was zero *)
FastPathGrantRelationLock(p) ==
    LET r == req[p].rel
        new == fpLocks[p][r] = {}
    IN /\ pc[p] = "fast_path"
       /\ backendLock' = [backendLock EXCEPT ![p] = Nobody]
       /\ IF new /\ UsedSlots(fpLocks[p]) = FPSlots
          THEN Goto(p, "table") /\ UNCHANGED <<req, nLocks, inTable, fpLocks, useCount>>
          ELSE /\ fpLocks' = [fpLocks EXCEPT ![p][r] = @ \cup {req[p].mode}]
               /\ useCount' = [useCount EXCEPT ![p] = IF new THEN @ + 1 ELSE @]
               /\ nLocks' = [nLocks EXCEPT ![p][Lock(p)] = 1]
               /\ inTable' = [inTable EXCEPT ![p] = @ \ {Lock(p)}]
               /\ Return(p)
       /\ UNCHANGED <<releaseMask, allLocks, strong, table, wakeup, waiting>>

(* A mode that conflicts with none of the weak ones, or a full array of slots *)
AcquireInTable(p, q) ==
    /\ Ask(p, q)
    /\ ~MayUseFastPath(p, q) /\ ~ConflictsWithRelationFastPath(q.mode)
    /\ Goto(p, "table")
    /\ UNCHANGED <<localLocks, strong, fastPath, table, wakeup, waiting>>

BeginStrongLockAcquire(p, q) ==
    /\ Ask(p, q)
    /\ ConflictsWithRelationFastPath(q.mode)
    /\ strongCount' = [strongCount EXCEPT ![Bucket[q.rel]] = @ + 1]
    /\ strongHeld' = [strongHeld EXCEPT ![p] = @ \cup {<<q.rel, q.mode>>}]
    /\ inProgress' = [inProgress EXCEPT ![p] = TRUE]
    /\ untransferred' = [untransferred EXCEPT ![p] = Procs]
    /\ Goto(p, "transfer")
    /\ UNCHANGED <<localLocks, fastPath, table, wakeup, waiting>>

(* The slots of x: the locks ms that x holds of the relation go to the table *)
MoveToTable(p, x, ms) ==
    LET r == req[p].rel
        h == [hold[r] EXCEPT ![x] = @ \cup ms]
        rq == [m \in Modes |-> IF m \in ms THEN requested[r][m] + 1 ELSE requested[r][m]]
    IN /\ x \in untransferred[p]
       /\ backendLock[x] = Nobody
       /\ fpLocks' = [fpLocks EXCEPT ![x][r] = @ \ ms]
       /\ hold' = [hold EXCEPT ![r] = h]
       /\ requested' = [requested EXCEPT ![r] = rq]
       /\ waitMask' = [waitMask EXCEPT ![r] = StillWaited(@, h, rq, ms)]
       /\ UNCHANGED <<localLocks, useCount, queue, wakeup, waiting>>

FastPathTransferRelationLocks(p, x) ==
    /\ pc[p] = "transfer"
    /\ MoveToTable(p, x, fpLocks[x][req[p].rel])
    /\ untransferred' = [untransferred EXCEPT ![p] = @ \ {x}]
    /\ Goto(p, IF untransferred[p] = {x} THEN "table" ELSE "transfer")
    /\ UNCHANGED <<req, strongHeld, inProgress, strongCount, backendLock>>

AbortStrongLockAcquire(p) ==
    /\ strongCount' = IF inProgress[p] THEN [strongCount EXCEPT ![Bucket[req[p].rel]] = @ - 1]
                      ELSE strongCount
    /\ strongHeld' = [strongHeld EXCEPT ![p] = IF inProgress[p] THEN @ \ {Lock(p)} ELSE @]
    /\ inProgress' = [inProgress EXCEPT ![p] = FALSE]
    /\ untransferred' = [untransferred EXCEPT ![p] = {}]

(* No shared memory: an error *)
OutOfSharedMemory(p) ==
    /\ p \in ShortOfMemory
    /\ AbortStrongLockAcquire(p)
    /\ Goto(p, "error")
    /\ UNCHANGED req

(* ... at mode k of x, whose slots stay locked *)
TransferFails(p, x, k) ==
    /\ pc[p] = "transfer" /\ k \in fpLocks[x][req[p].rel]
    /\ MoveToTable(p, x, {m \in fpLocks[x][req[p].rel] : m < k})
    /\ backendLock' = [backendLock EXCEPT ![x] = p]
    /\ OutOfSharedMemory(p)

SetupFails(p) ==
    /\ pc[p] = "table"
    /\ OutOfSharedMemory(p)
    /\ UNCHANGED <<localLocks, fastPath, table, wakeup, waiting>>

-----------------------------------------------------------------------------
(* The lock table, under the partition lock *)

(* requested[] with the request of p, which SetupLockInTable counts *)
Counted(p) == [requested EXCEPT ![req[p].rel][req[p].mode] = @ + 1]

(* Mutant: a request that conflicts with no holder goes before those that wait *)
MustWaitForHolders(p) == LockCheckConflicts(hold[req[p].rel], p, req[p].mode)

MustWait(p) ==
    \/ LockConflicts[req[p].mode] \cap waitMask[req[p].rel] # {}
    \/ LockCheckConflicts(hold[req[p].rel], p, req[p].mode)

(* GrantLock, GrantLockLocal and FinishStrongLockAcquire *)
GrantInTable(p) ==
    LET r == req[p].rel
        h == [hold[r] EXCEPT ![p] = @ \cup {req[p].mode}]
    IN /\ hold' = [hold EXCEPT ![r] = h]
       /\ requested' = Counted(p)
       /\ waitMask' = [waitMask EXCEPT ![r] = StillWaited(@, h, Counted(p)[r], {req[p].mode})]
       /\ nLocks' = [nLocks EXCEPT ![p][Lock(p)] = 1]
       /\ inTable' = [inTable EXCEPT ![p] = @ \cup {Lock(p)}]
       /\ inProgress' = [inProgress EXCEPT ![p] = FALSE]
       /\ Return(p)
       /\ UNCHANGED <<releaseMask, allLocks, strongHeld, strongCount, untransferred, fastPath,
                      queue, wakeup, waiting>>

Grant(p) == pc[p] = "table" /\ ~MustWait(p) /\ GrantInTable(p)

(* LOCKACQUIRE_NOT_AVAIL *)
DontWait(p) ==
    /\ pc[p] = "table" /\ MustWait(p) /\ req[p].dontWait
    /\ AbortStrongLockAcquire(p)
    /\ inTable' = [inTable EXCEPT ![p] = @ \ {Lock(p)}]
    /\ Return(p)
    /\ UNCHANGED <<nLocks, releaseMask, allLocks, fastPath, table, wakeup, waiting>>

-----------------------------------------------------------------------------
(* ProcSleep *)

(* The waiters that must wait for p, and the first of them *)
WaitForMe(p) ==
    {x \in Members(queue[req[p].rel]) :
        LockConflicts[req[x].mode] \cap hold[req[p].rel][p] # {}}
FirstOf(p, x) == x \in WaitForMe(p) /\ Ahead(queue[req[p].rel], x) \cap WaitForMe(p) = {}

(* The waiters that p goes behind *)
InFront(p) ==
    {y \in Members(queue[req[p].rel]) : \A x \in WaitForMe(p) : <<x, y>> \notin queue[req[p].rel]}

EarlyDeadlock(p) ==
    \E x \in Procs : FirstOf(p, x) /\ LockConflicts[req[p].mode] \cap heldLocks[x] # {}

(* A waiter that must wait for p is overtaken; a stream thread overtakes every waiter *)
SkipsTheWait(p) ==
    /\ ~LockCheckConflicts(hold[req[p].rel], p, req[p].mode)
    /\ \/ /\ WaitForMe(p) # {} /\ ~EarlyDeadlock(p)
          /\ \A x \in InFront(p) : req[x].mode \notin LockConflicts[req[p].mode]
       \/ p \in Streams

Sleeps(p) == pc[p] = "table" /\ MustWait(p) /\ ~req[p].dontWait

GrantWithoutSleep(p) ==
    /\ Sleeps(p)
    /\ SkipsTheWait(p)
    /\ GrantInTable(p)

GiveUpEarly(p) ==
    /\ Sleeps(p)
    /\ EarlyDeadlock(p) /\ ~SkipsTheWait(p)
    /\ RemoveFromWaitQueue(p, Counted(p), [waitMask EXCEPT ![req[p].rel] = @ \cup {req[p].mode}],
                           "ok", {})
    /\ inTable' = [inTable EXCEPT ![p] = @ \cup {Lock(p)}]
    /\ Goto(p, "error")
    /\ UNCHANGED <<req, nLocks, releaseMask, allLocks, strong, fastPath, waiting>>

JoinWaitQueue(p) ==
    LET r == req[p].rel
        front == InFront(p)
        behind == Members(queue[r]) \ front
    IN /\ Sleeps(p)
       /\ ~EarlyDeadlock(p) /\ ~SkipsTheWait(p)
       /\ queue' = [queue EXCEPT ![r] =
             @ \cup {<<x, p>> : x \in front \cup {p}} \cup {<<p, x>> : x \in behind}]
       /\ requested' = Counted(p)
       /\ waitMask' = [waitMask EXCEPT ![r] = @ \cup {req[p].mode}]
       /\ inTable' = [inTable EXCEPT ![p] = @ \cup {Lock(p)}]
       /\ heldLocks' = [heldLocks EXCEPT ![p] = hold[r][p]]
       /\ waitStatus' = [waitStatus EXCEPT ![p] = "waiting"]
       /\ lockAwaited' = [lockAwaited EXCEPT ![p] = TRUE]
       /\ deadlockTimer' = [deadlockTimer EXCEPT ![p] = TRUE]
       /\ Goto(p, "sleep")
       /\ UNCHANGED <<req, nLocks, releaseMask, allLocks, strong, fastPath, hold, sem,
                      lockwaitTimer, timedOut>>

(* PGSemaphoreLock returns: an error once the lock wait timed out; else the timer of *)
(* the lock wait is set if the lock is still neither granted nor denied.             *)
Wake(p) ==
    /\ pc[p] = "sleep" /\ sem[p] > 0
    /\ sem' = [sem EXCEPT ![p] = @ - 1]
    /\ CASE timedOut[p] ->
              Goto(p, "error") /\ UNCHANGED <<deadlockTimer, lockwaitTimer>>
         [] ~timedOut[p] /\ waitStatus[p] = "waiting" ->
              /\ lockwaitTimer' = [lockwaitTimer EXCEPT ![p] = @ \/ ~deadlockTimer[p]]
              /\ UNCHANGED <<pc, deadlockTimer>>
         [] ~timedOut[p] /\ waitStatus[p] # "waiting" ->
              /\ deadlockTimer' = [deadlockTimer EXCEPT ![p] = FALSE]
              /\ lockwaitTimer' = [lockwaitTimer EXCEPT ![p] = FALSE]
              /\ Goto(p, "woken")
    /\ UNCHANGED <<req, localLocks, strong, fastPath, table, waitStatus, heldLocks,
                   lockAwaited, timedOut>>

(* What describes the wait; nobody looks at it once the wait is over *)
ForgetWait(p) ==
    /\ lockAwaited' = [lockAwaited EXCEPT ![p] = FALSE]
    /\ heldLocks' = [heldLocks EXCEPT ![p] = {}]
    /\ timedOut' = [timedOut EXCEPT ![p] = FALSE]

(* The end of ProcSleep: whoever granted or denied the lock did all there is to do *)
ReturnFromSleep(p) ==
    /\ pc[p] = "woken"
    /\ ForgetWait(p)
    /\ waitStatus' = [waitStatus EXCEPT ![p] = "ok"]
    /\ IF waitStatus[p] = "ok"
       THEN /\ nLocks' = [nLocks EXCEPT ![p][Lock(p)] = 1]
            /\ inProgress' = [inProgress EXCEPT ![p] = FALSE]
            /\ Return(p)
       ELSE Goto(p, "error") /\ UNCHANGED <<req, nLocks, inProgress>>
    /\ UNCHANGED <<inTable, releaseMask, allLocks, strongHeld, strongCount, untransferred,
                   fastPath, table, sem, deadlockTimer, lockwaitTimer>>

-----------------------------------------------------------------------------
(* The alarms of a sleeping backend *)

(* DeadLockCheck tries the holders in the order of the procLocks list, any order *)
Listings == [Rels -> {f \in [Procs -> 1 .. Cardinality(Procs)] :
                         \A x, y \in Procs : f[x] = f[y] => x = y}]

DeadLockCheck(p) ==
    IF Cycles(p, hold, queue, req) = {} THEN {queue}
    ELSE {DeadLockCheckRecurse(p, hold, queue, req, listed) : listed \in Listings}

(* The new queues hold the old waiters, in some order: DeadLockCheck asserts so *)
Rearranges(new) ==
    \A r \in Rels :
        /\ Members(new[r]) = Members(queue[r])
        /\ \A x, y \in Members(new[r]) : <<x, y>> \in new[r] \/ <<y, x>> \in new[r]

CheckDeadLock(p) ==
    /\ deadlockTimer[p]
    /\ deadlockTimer' = [deadlockTimer EXCEPT ![p] = FALSE]
    /\ IF p \notin Members(queue[req[p].rel])
       THEN UNCHANGED <<pc, table, wakeup>>
       ELSE \E new \in DeadLockCheck(p) :
              CASE new = NoSolution ->
                     RemoveFromWaitQueue(p, requested, waitMask, "error", {p}) /\ UNCHANGED pc
                [] new # NoSolution /\ Rearranges(new) ->
                     /\ ProcLockWakeup(hold, new, requested, waitMask,
                                       {r \in Rels : new[r] # queue[r]}, waitStatus, {p})
                     /\ UNCHANGED pc
                [] OTHER -> Goto(p, "panic") /\ UNCHANGED <<table, wakeup>>
    /\ UNCHANGED <<req, localLocks, strong, fastPath, heldLocks, lockAwaited, lockwaitTimer,
                   timedOut>>

LockWaitTimeout(p) ==
    /\ p \in Canceled /\ lockwaitTimer[p] /\ ~timedOut[p]
    /\ timedOut' = [timedOut EXCEPT ![p] = TRUE]
    /\ sem' = [sem EXCEPT ![p] = IF @ < MaxPosts THEN @ + 1 ELSE @]
    /\ UNCHANGED <<pc, req, localLocks, strong, fastPath, table, waitStatus, heldLocks,
                   lockAwaited, deadlockTimer, lockwaitTimer>>

(* A cancel or die interrupt, accepted in PGSemaphoreLock *)
Cancel(p) ==
    /\ p \in Canceled /\ pc[p] = "sleep"
    /\ Goto(p, "error")
    /\ UNCHANGED <<req, localLocks, strong, fastPath, table, wakeup, waiting>>

-----------------------------------------------------------------------------
(* LockErrorCleanup, after LWLockReleaseAll *)

StartErrorCleanup(p) ==
    /\ pc[p] = "error"
    /\ AbortStrongLockAcquire(p)
    /\ backendLock' = [x \in Procs |-> IF backendLock[x] = p THEN Nobody ELSE backendLock[x]]
    /\ Goto(p, IF lockAwaited[p] THEN "cleanup" ELSE "cleaned")
    /\ deadlockTimer' = [deadlockTimer EXCEPT ![p] = FALSE]
    /\ lockwaitTimer' = [lockwaitTimer EXCEPT ![p] = FALSE]
    /\ UNCHANGED <<req, localLocks, useCount, fpLocks, table, wakeup, heldLocks, lockAwaited,
                   timedOut>>

(* Mutant: a lock granted meanwhile is not noticed *)
CleanupMissesGrant(p) ==
    LET queued == p \in Members(queue[req[p].rel])
    IN /\ pc[p] = "cleanup"
       /\ ForgetWait(p)
       /\ Goto(p, "cleaned")
       /\ IF queued THEN RemoveFromWaitQueue(p, requested, waitMask, "ok", {})
          ELSE /\ waitStatus' = [waitStatus EXCEPT ![p] = "ok"]
               /\ UNCHANGED <<table, sem>>
       /\ UNCHANGED <<req, localLocks, strong, fastPath, deadlockTimer, lockwaitTimer>>

(* Under the partition lock: leave the queue, or remember a lock granted meanwhile *)
FinishErrorCleanup(p) ==
    LET queued == p \in Members(queue[req[p].rel])
    IN /\ pc[p] = "cleanup"
       /\ ForgetWait(p)
       /\ Goto(p, "cleaned")
       /\ IF queued THEN RemoveFromWaitQueue(p, requested, waitMask, "ok", {})
          ELSE /\ waitStatus' = [waitStatus EXCEPT ![p] = "ok"]
               /\ UNCHANGED <<table, sem>>
       /\ nLocks' = IF ~queued /\ waitStatus[p] = "ok" THEN [nLocks EXCEPT ![p][Lock(p)] = 1]
                    ELSE nLocks
       /\ UNCHANGED <<req, inTable, releaseMask, allLocks, strong, fastPath, deadlockTimer,
                      lockwaitTimer>>

-----------------------------------------------------------------------------
(* LockRelease *)

ReleaseOnce(p, l) ==
    /\ pc[p] = "idle" /\ nLocks[p][l] > 1
    /\ nLocks' = [nLocks EXCEPT ![p][l] = @ - 1]
    /\ UNCHANGED <<pc, req, inTable, releaseMask, allLocks, strong, fastPath, table, wakeup, waiting>>

(* FastPathUnGrantRelationLock, which counts the used slots anew *)
UnGrantFast(p, l) ==
    LET slots == [fpLocks[p] EXCEPT ![l[1]] = @ \ {l[2]}]
    IN /\ backendLock[p] \in {Nobody, p}
       /\ fpLocks' = [fpLocks EXCEPT ![p] = slots]
       /\ useCount' = [useCount EXCEPT ![p] = UsedSlots(slots)]

(* The last count of a lock: its slot if it has one, else on to the table *)
LockRelease(p, l) ==
    LET tried == EligibleForRelationFastPath(l[2]) /\ useCount[p] > 0
        released == tried /\ l[2] \in fpLocks[p][l[1]]
    IN /\ \/ pc[p] = "idle"
          \/ pc[p] = "cleaned" /\ p \in Subs /\ l = Lock(p)   \* AbortSubTransaction
       /\ nLocks[p][l] = 1
       /\ nLocks' = [nLocks EXCEPT ![p][l] = 0]
       /\ IF tried THEN UnGrantFast(p, l) ELSE UNCHANGED <<fpLocks, useCount>>
       /\ IF released
          THEN Return(p) /\ inTable' = [inTable EXCEPT ![p] = @ \ {l}]
          ELSE /\ Goto(p, "release")
               /\ req' = [req EXCEPT ![p] = [rel |-> l[1], mode |-> l[2], dontWait |-> FALSE]]
               /\ UNCHANGED inTable
       /\ UNCHANGED <<releaseMask, allLocks, strong, backendLock, table, wakeup, waiting>>

ReleaseFromTable(p) ==
    LET l == Lock(p)
    IN /\ pc[p] = "release"
       /\ ReleaseInTable(p, l[1], {l[2]} \cap hold[l[1]][p])
       /\ inTable' = [inTable EXCEPT ![p] = @ \ {l}]
       /\ IF l \in strongHeld[p] THEN Goto(p, "forget") /\ UNCHANGED req ELSE Return(p)
       /\ UNCHANGED <<nLocks, releaseMask, allLocks, strong, fastPath, waiting>>

(* The strong lock count that RemoveLocalLock gives back *)
DropStrongCount(p, l) ==
    /\ strongHeld' = [strongHeld EXCEPT ![p] = @ \ {l}]
    /\ strongCount' = [strongCount EXCEPT ![Bucket[l[1]]] = IF l \in strongHeld[p] THEN @ - 1 ELSE @]
    /\ UNCHANGED <<inProgress, untransferred>>

RemoveLocalLock(p) ==
    /\ pc[p] = "forget"
    /\ DropStrongCount(p, Lock(p))
    /\ Return(p)
    /\ UNCHANGED <<localLocks, fastPath, table, wakeup, waiting>>

(* AbortSubTransaction of a backend that did not get its lock *)
AbortSubTransaction(p) ==
    /\ pc[p] = "cleaned" /\ p \in Subs /\ nLocks[p][Lock(p)] = 0
    /\ Return(p)
    /\ UNCHANGED <<localLocks, strong, fastPath, table, wakeup, waiting>>

-----------------------------------------------------------------------------
(* LockReleaseAll *)

HasLocks(p) == inTable[p] # {} \/ \E l \in Locks : nLocks[p][l] > 0

EndTransaction(p, all) ==
    /\ \/ pc[p] = "idle" /\ HasLocks(p) /\ (all => p \in Aborting)
       \/ pc[p] = "cleaned" /\ all
    /\ allLocks' = [allLocks EXCEPT ![p] = all]
    /\ Goto(p, "release_all")
    /\ UNCHANGED <<req, nLocks, inTable, releaseMask, strong, fastPath, table, wakeup, waiting>>

(* The scan of the local table, a lock at a time: a lock in a slot is given back; *)
(* the slots stay locked ...                                                      *)
ReleaseAllFast(p, l) ==
    /\ pc[p] = "release_all"
    /\ nLocks[p][l] > 0 /\ l \notin inTable[p] /\ l[2] \in fpLocks[p][l[1]]
    /\ UnGrantFast(p, l)
    /\ backendLock' = [backendLock EXCEPT ![p] = p]
    /\ nLocks' = [nLocks EXCEPT ![p][l] = 0]
    /\ UNCHANGED <<pc, req, inTable, releaseMask, allLocks, strong, table, wakeup, waiting>>

(* ... until one turns up that was moved to the table *)
LockRefindAndRelease(p, l) ==
    /\ pc[p] = "release_all"
    /\ nLocks[p][l] > 0 /\ l \notin inTable[p] /\ l[2] \notin fpLocks[p][l[1]]
    /\ UnGrantFast(p, l)
    /\ backendLock' = [backendLock EXCEPT ![p] = Nobody]
    /\ ReleaseInTable(p, l[1], {l[2]} \cap hold[l[1]][p])
    /\ nLocks' = [nLocks EXCEPT ![p][l] = 0]
    /\ UNCHANGED <<pc, req, inTable, releaseMask, allLocks, strong, waiting>>

(* A lock of the table is marked; its count goes before the lock itself does *)
MarkForRelease(p, l) ==
    /\ pc[p] = "release_all"
    /\ nLocks[p][l] > 0 /\ l \in inTable[p]
    /\ releaseMask' = [releaseMask EXCEPT ![p][l[1]] = @ \cup {l[2]}]
    /\ nLocks' = [nLocks EXCEPT ![p][l] = 0]
    /\ inTable' = [inTable EXCEPT ![p] = @ \ {l}]
    /\ DropStrongCount(p, l)
    /\ UNCHANGED <<pc, req, allLocks, fastPath, table, wakeup, waiting>>

EndOfLocalScan(p) ==
    /\ pc[p] = "release_all"
    /\ \A l \in Locks : nLocks[p][l] = 0
    /\ inTable' = [inTable EXCEPT ![p] = {}]
    /\ backendLock' = [backendLock EXCEPT ![p] = IF @ = p THEN Nobody ELSE @]
    /\ Goto(p, "proclocks")
    /\ UNCHANGED <<req, nLocks, releaseMask, allLocks, strong, useCount, fpLocks, table, wakeup,
                   waiting>>

(* The proclocks of the backend: of relation r, what is marked or all that is held *)
ToRelease(p, r) == IF allLocks[p] THEN hold[r][p] ELSE releaseMask[p][r]

ReleaseProcLock(p, r) ==
    /\ pc[p] = "proclocks"
    /\ ToRelease(p, r) # {}
    /\ ReleaseInTable(p, r, ToRelease(p, r))
    /\ releaseMask' = [releaseMask EXCEPT ![p][r] = {}]
    /\ UNCHANGED <<pc, req, nLocks, inTable, allLocks, strong, fastPath, waiting>>

(* With Check_FastpathBit *)
EndOfRelease(p) ==
    /\ pc[p] = "proclocks"
    /\ \A r \in Rels : ToRelease(p, r) = {}
    /\ fpLocks' = [fpLocks EXCEPT ![p] = [r \in Rels |-> {}]]
    /\ useCount' = [useCount EXCEPT ![p] = 0]
    /\ allLocks' = [allLocks EXCEPT ![p] = FALSE]
    /\ releaseMask' = [releaseMask EXCEPT ![p] = [r \in Rels |-> {}]]
    /\ Return(p)
    /\ UNCHANGED <<nLocks, inTable, strong, backendLock, table, wakeup, waiting>>

-----------------------------------------------------------------------------

LockAcquire(p) ==
    \E q \in Wants(p) :
        \/ AcquireAgain(p, q) \/ AcquireFast(p, q)
        \/ AcquireInTable(p, q) \/ BeginStrongLockAcquire(p, q)

Memory(p) ==
    \/ \E x \in Procs, k \in Modes : TransferFails(p, x, k)
    \/ SetupFails(p)

Acquiring(p) ==
    \/ FastPathGrantRelationLock(p)
    \/ \E x \in Procs : FastPathTransferRelationLocks(p, x)
    \/ Grant(p) \/ DontWait(p) \/ GrantWithoutSleep(p) \/ GiveUpEarly(p) \/ JoinWaitQueue(p)
    \/ Wake(p) \/ ReturnFromSleep(p)

Cleaning(p) ==
    \/ StartErrorCleanup(p) \/ FinishErrorCleanup(p)
    \/ AbortSubTransaction(p)

Releasing(p) ==
    \/ ReleaseFromTable(p) \/ RemoveLocalLock(p)
    \/ EndOfLocalScan(p) \/ EndOfRelease(p)
    \/ \E l \in Locks : ReleaseAllFast(p, l) \/ LockRefindAndRelease(p, l) \/ MarkForRelease(p, l)
    \/ \E r \in Rels : ReleaseProcLock(p, r)

Ending(p) ==
    \/ \E l \in Locks : ReleaseOnce(p, l) \/ LockRelease(p, l)
    \/ \E all \in BOOLEAN : EndTransaction(p, all)

Next ==
    /\ UNCHANGED setting
    /\ \E p \in Procs :
          \/ LockAcquire(p) \/ Memory(p) \/ Acquiring(p)
          \/ CheckDeadLock(p) \/ LockWaitTimeout(p) \/ Cancel(p)
          \/ Cleaning(p) \/ Releasing(p) \/ Ending(p)

Spec == Init /\ [][Next]_vars

(* A backend inside a call that nothing holds up *)
Runs(p) ==
    \/ pc[p] \in {"fast_path", "table", "woken", "error", "cleanup", "release", "forget", "proclocks"}
    \/ pc[p] = "transfer" /\ \E x \in untransferred[p] : backendLock[x] = Nobody
    \/ pc[p] = "sleep" /\ sem[p] > 0
    \/ pc[p] = "release_all" /\ backendLock[p] \in {Nobody, p}

(* Backends run, an alarm that is set rings, and no transaction goes on taking locks *)
(* for ever: the weak fairness of the first two and the strong fairness of the last, *)
(* with what enables each of them written out.                                       *)
Fairness ==
    \A p \in Procs :
        /\ []<>~Runs(p) \/ []<><<Acquiring(p) \/ Cleaning(p) \/ Releasing(p)>>_vars
        /\ []<>~deadlockTimer[p]
        /\ \/ <>[]~(pc[p] = "cleaned" \/ (pc[p] = "idle" /\ HasLocks(p)))
           \/ []<><<EndTransaction(p, TRUE) \/ EndTransaction(p, FALSE)>>_vars

FairSpec == Spec /\ Fairness

-----------------------------------------------------------------------------
(* Properties *)

PCs == {"idle", "fast_path", "transfer", "table", "sleep", "woken", "error", "cleanup", "cleaned",
        "release", "forget", "release_all", "proclocks", "panic"}

(* The variables keep their types: a backend has at most one request, at most FPSlots *)
(* fast-path slots, and posts that are not lost add up to no more than MaxPosts.       *)
TypeOK ==
    /\ pc \in [Procs -> PCs]
    /\ req \in [Procs -> Requests \cup {NoRequest}]
    /\ nLocks \in [Procs -> [Locks -> 0 .. MaxLocks]]
    /\ inTable \in [Procs -> SUBSET Locks]
    /\ releaseMask \in [Procs -> [Rels -> SUBSET Modes]]
    /\ allLocks \in [Procs -> BOOLEAN]
    /\ strongHeld \in [Procs -> SUBSET Locks]
    /\ inProgress \in [Procs -> BOOLEAN]
    /\ strongCount \in [Buckets -> Nat]
    /\ untransferred \in [Procs -> SUBSET Procs]
    /\ useCount \in [Procs -> 0 .. FPSlots]
    /\ fpLocks \in [Procs -> [Rels -> SUBSET Modes]]
    /\ backendLock \in [Procs -> Procs \cup {Nobody}]
    /\ hold \in [Rels -> [Procs -> SUBSET Modes]]
    /\ queue \in [Rels -> SUBSET (Procs \X Procs)]
    /\ requested \in [Rels -> [Modes -> Nat]]
    /\ waitMask \in [Rels -> SUBSET Modes]
    /\ waitStatus \in [Procs -> {"ok", "waiting", "error"}]
    /\ sem \in [Procs -> 0 .. MaxPosts]
    /\ heldLocks \in [Procs -> SUBSET Modes]
    /\ lockAwaited \in [Procs -> BOOLEAN]
    /\ deadlockTimer \in [Procs -> BOOLEAN]
    /\ lockwaitTimer \in [Procs -> BOOLEAN]
    /\ timedOut \in [Procs -> BOOLEAN]

(* p has the lock as far as its caller knows: LockAcquire returned and the lock is *)
(* not yet given back.  A lock granted to a call that failed is not counted: it    *)
(* only waits to be given back.                                                    *)
Owns(p, l) ==
    /\ nLocks[p][l] > 0
    /\ ~(pc[p] \in {"cleaned", "release_all", "proclocks"} /\ l = Lock(p))

(* Two backends never own locks of one relation in conflicting modes, whichever of *)
(* them came through its fast-path slots and whichever through the table.          *)
NoConflict ==
    \A p, x \in Procs, r \in Rels, m, n \in Modes :
        p # x /\ Owns(p, <<r, m>>) /\ Owns(x, <<r, n>>) => n \notin LockConflicts[m]

(* A lock in the local table is in the slots or in the lock table, in one of them. *)
(* What LockReleaseAll marks is held (it panics else); a slot with a lock has its  *)
(* local lock (Check_FastpathBit asserts so); and every lock of the table is known *)
(* to its backend, or about to be: nothing is left behind in shared memory.        *)
HeldIsKnown ==
    \A p \in Procs, r \in Rels, m \in Modes :
        LET slot == m \in fpLocks[p][r]
            main == m \in hold[r][p]
        IN /\ nLocks[p][<<r, m>>] > 0 => slot # main
           /\ slot => nLocks[p][<<r, m>>] > 0
           /\ m \in releaseMask[p][r] => main
           /\ main => \/ nLocks[p][<<r, m>>] > 0
                      \/ m \in releaseMask[p][r]
                      \/ pc[p] = "release" /\ Lock(p) = <<r, m>>
                      \/ lockAwaited[p] /\ Lock(p) = <<r, m>> /\ waitStatus[p] = "ok"

(* requested[] counts the holders and the waiters of a mode, waitMask has the modes *)
(* of the waiters, the strong lock count the strong locks of its partition, and a   *)
(* backend waits in a queue exactly when its waitStatus says so.  No count leaves   *)
(* its range.                                                                       *)
CountsExact ==
    /\ TypeOK
    /\ \A r \in Rels, m \in Modes :
          LET waiters == {p \in Members(queue[r]) : req[p].mode = m}
          IN /\ requested[r][m] = granted(hold[r], m) + Cardinality(waiters)
             /\ m \in waitMask[r] <=> waiters # {}
    /\ \A b \in Buckets :
          strongCount[b] =
            Cardinality({l \in Procs \X Locks : l[2] \in strongHeld[l[1]] /\ Bucket[l[2][1]] = b})
    /\ \A p \in Procs, r \in Rels :
          p \in Members(queue[r]) <=> waitStatus[p] = "waiting" /\ req[p].rel = r

(* Nobody sleeps who could go on: something held, or asked for further up the queue, *)
(* blocks every waiter.                                                              *)
NoMissedGrant ==
    \A r \in Rels : \A p \in Members(queue[r]) :
        \E x \in Procs : WaitsFor(p, x, hold, queue, req)

(* No deadlock goes unnoticed: in every cycle of the waits-for graph there is a     *)
(* backend whose deadlock check is still to come, or one about to leave its queue.  *)
DeadlockSeen ==
    LET active(p) == deadlockTimer[p] \/ pc[p] # "sleep"
    IN \A r \in Rels : \A p \in Members(queue[r]) :
          active(p) \/ \A c \in Cycles(p, hold, queue, req) : \E i \in DOMAIN c : active(c[i])

(* The members of the queues in the order of the numbers of a listing *)
Arranged(listed) ==
    [r \in Rels |-> {e \in Members(queue[r]) \X Members(queue[r]) :
                        listed[r][e[1]] <= listed[r][e[2]]}]

(* CheckDeadLock fails a backend only when it has to: the backend is on a cycle, and *)
(* whichever way the waiters of every lock are put, some deadlock remains.  When it   *)
(* finds an order, it is an order of the same waiters: the assertion holds.           *)
DeadlockReal ==
    [][\A p \in Procs :
         /\ pc'[p] # "panic"
         /\ waitStatus[p] = "waiting" /\ waitStatus'[p] = "error" =>
              /\ Cycles(p, hold, queue, req) # {}
              /\ \A listed \in Listings : \E x \in Procs :
                    Cycles(x, hold, Arranged(listed), req) # {}]_vars

(* A waiter has gone past one that stood before it and conflicts with it *)
Overtaken ==
    \E r \in Rels : \E x, y \in Procs :
        /\ x # y /\ <<x, y>> \in queue[r] /\ x \in Members(queue'[r])
        /\ req[y].mode \in LockConflicts[req[x].mode]
        /\ <<y, x>> \in queue'[r] \/ req[y].mode \in hold'[r][y]

(* A stream thread has taken a lock past the waiters *)
StreamSkips == \E p \in Streams : GrantWithoutSleep(p)

(* A backend that sleeps for a lock gets it or an error, unless deadlock checks reorder *)
(* the queues again and again or stream threads go past them again and again: either    *)
(* may starve a waiter.  Nobody has to cancel anything, and no lock wait has to time    *)
(* out.                                                                                 *)
WaitsEnd ==
    \A p \in Procs : []<>(pc[p] # "sleep") \/ []<><<Overtaken \/ StreamSkips>>_vars

=============================================================================
