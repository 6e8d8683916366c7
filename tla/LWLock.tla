------------------------------- MODULE LWLock -------------------------------
(***************************************************************************)
(* Lightweight locks: src/gausskernel/storage/lmgr/lwlock.cpp.             *)
(*                                                                         *)
(* One step is one atomic access to shared memory: one compare-exchange or *)
(* fetch-op on lock->state, one section under the wait-list spinlock       *)
(* (LW_FLAG_LOCKED), one store to another thread's lwWaiting, or one       *)
(* semaphore operation.  A section under LW_FLAG_LOCKED is one step:       *)
(* everything it reads and writes is only touched under that flag, but for *)
(* a single atomic update of the state word at which the step takes effect.*)
(*                                                                         *)
(* A thread never asks for a lock it already holds, so held_lwlocks[] is a *)
(* map from lock to mode.                                                  *)
(***************************************************************************)
EXTENDS Integers, Sequences, FiniteSets

CONSTANTS
    Procs,              \* threads with a PGPROC
    Locks,              \* LWLocks
    Vals,               \* values of the variable an LWLock may protect
    ClearVal,           \* the value LWLockReleaseClearVar leaves
    LW_VAL_EXCLUSIVE,   \* weight of an exclusive holder in the state word
    MAX_SIMUL_LWLOCKS,  \* capacity of held_lwlocks[]
    Usage,              \* the LWLock functions the threads of an instance call
    MaxSignals          \* bound on foreign posts outstanding per semaphore

ASSUME ProcsFinite == IsFiniteSet(Procs)
ASSUME ClearValIsVal == ClearVal \in Vals
ASSUME ExclusiveOutweighsSharers ==
    LW_VAL_EXCLUSIVE \in Nat /\ LW_VAL_EXCLUSIVE > Cardinality(Procs)
ASSUME BoundsAreNat == MAX_SIMUL_LWLOCKS \in Nat /\ MaxSignals \in Nat

LW_EXCLUSIVE == "X"
LW_SHARED == "S"
LW_WAIT_UNTIL_FREE == "U"
Modes == {LW_EXCLUSIVE, LW_SHARED}
WaitModes == Modes \cup {LW_WAIT_UNTIL_FREE}
None == "none"

VARIABLES
    lockval,     \* lock->state & LW_LOCK_MASK
    hasWaiters,  \* LW_FLAG_HAS_WAITERS
    releaseOk,   \* LW_FLAG_RELEASE_OK
    waiters,     \* lock->waiters, head first
    var,         \* *valptr of the lock
    lwWaiting, lwWaitMode, sem,   \* fields of PGPROC
    heldMode,    \* held_lwlocks[]: mode in which a thread holds each lock
    pc, call,    \* where a thread is, and in which call
    extraWaits,  \* absorbed wakeups to be given back
    wakeup,      \* LWLockWakeup/LWLockUpdateVar's local list
    signals      \* foreign posts (lock manager, ProcSendSignal) not yet waited for

lockVars == <<lockval, hasWaiters, releaseOk, waiters, var>>
procVars == <<lwWaiting, lwWaitMode, sem>>
localVars == <<heldMode, pc, call, extraWaits, wakeup>>
vars == <<lockVars, procVars, localVars, signals>>

Functions == {"Acquire", "ConditionalAcquire", "AcquireOrWait", "WaitForVar",
              "Release", "ReleaseClearVar", "ReleaseAll", "UpdateVar"}
NoCall == [fn |-> None]
Calls == [fn : Functions, lock : Locks, mode : Modes, oldval : Vals]
PCs == {"idle", "attempt", "queue", "attempt2", "sleep", "woken",
        "dequeue", "absorb_ok", "absorb", "check", "readvar", "var_ok",
        "check2", "readvar2", "release", "release_all",
        "wake", "unlink", "post", "panic"}

-----------------------------------------------------------------------------
(* The state word *)

(* Mutant: an exclusive holder weighs no more than a shared one *)
WeightOfOne(m) == 1


Weight(m) == IF m = LW_EXCLUSIVE THEN LW_VAL_EXCLUSIVE ELSE 1

ExclusiveBit(l) == lockval[l] >= LW_VAL_EXCLUSIVE

(* Mutant: an exclusive locker looks only for an exclusive holder *)
LockFreeOfExclusive(l, m) == ~ExclusiveBit(l)


LockFree(l, m) == IF m = LW_EXCLUSIVE THEN lockval[l] = 0 ELSE ~ExclusiveBit(l)

(* LWLockAttemptLock succeeds: the compare-exchange takes the free lock *)
AttemptLock(l, m) ==
    /\ LockFree(l, m)
    /\ lockval' = [lockval EXCEPT ![l] = @ + Weight(m)]

(* LWLockAttemptLock returns mustwait *)
AttemptFails(l, m) ==
    /\ ~LockFree(l, m)
    /\ UNCHANGED lockval

SetReleaseOk(l) == releaseOk' = [releaseOk EXCEPT ![l] = TRUE]

Queued(l) == {waiters[l][i] : i \in DOMAIN waiters[l]}

HeldBy(p) == {l \in Locks : heldMode[p][l] # None}

(* num_held_lwlocks >= MAX_SIMUL_LWLOCKS is an ERROR *)
RoomToHold(p) == Cardinality(HeldBy(p)) < MAX_SIMUL_LWLOCKS

Init ==
    /\ lockval = [l \in Locks |-> 0]
    /\ hasWaiters = [l \in Locks |-> FALSE]
    /\ releaseOk = [l \in Locks |-> TRUE]
    /\ waiters = [l \in Locks |-> <<>>]
    /\ var = [l \in Locks |-> ClearVal]
    /\ lwWaiting = [p \in Procs |-> FALSE]
    /\ lwWaitMode = [p \in Procs |-> LW_EXCLUSIVE]
    /\ sem = [p \in Procs |-> 0]
    /\ heldMode = [p \in Procs |-> [l \in Locks |-> None]]
    /\ pc = [p \in Procs |-> "idle"]
    /\ call = [p \in Procs |-> NoCall]
    /\ extraWaits = [p \in Procs |-> 0]
    /\ wakeup = [p \in Procs |-> <<>>]
    /\ signals = [p \in Procs |-> 0]

-----------------------------------------------------------------------------
(* Control of a thread *)

Goto(p, where) == pc' = [pc EXCEPT ![p] = where]

CallOf(f, l, m, old) == [fn |-> f, lock |-> l, mode |-> m, oldval |-> old]

(* A thread outside the LWLock calls makes one *)
Calling(p, f) == pc[p] = "idle" /\ f \in Usage

Continue(p, c, where) ==
    /\ Goto(p, where)
    /\ call' = [call EXCEPT ![p] = c]

Return(p) ==
    /\ Goto(p, "idle")
    /\ call' = [call EXCEPT ![p] = NoCall]

(* Mutant: the absorbed wakeups are forgotten *)
KeepWakeups(p, s) ==
    /\ sem' = s
    /\ extraWaits' = [extraWaits EXCEPT ![p] = 0]

(* "Fix the process wait semaphore's count for any absorbed wakeups" *)
GiveBackWakeups(p, s) ==
    /\ sem' = [s EXCEPT ![p] = @ + extraWaits[p]]
    /\ extraWaits' = [extraWaits EXCEPT ![p] = 0]

(* The end of call c that took the lock: add it to held_lwlocks[] *)
ReturnHolding(p, c, s) ==
    /\ heldMode' = [heldMode EXCEPT ![p][c.lock] = c.mode]
    /\ GiveBackWakeups(p, s)
    /\ Return(p)

ReturnEmptyHanded(p, s) ==
    /\ GiveBackWakeups(p, s)
    /\ Return(p)
    /\ UNCHANGED heldMode

(* Mutant: a lock taken by the second attempt is not recorded *)
ReturnUnrecorded(p, s) == ReturnEmptyHanded(p, s)

(* LWLockWaitForVar takes nothing, the acquiring calls do *)
ReturnFromWait(p, s) ==
    IF call[p].fn = "WaitForVar" THEN ReturnEmptyHanded(p, s) ELSE ReturnHolding(p, call[p], s)

-----------------------------------------------------------------------------
(* Acquiring *)

(* The first attempt of call c: outside the queue *)
FirstAttempt(p, c) ==
    /\ \/ /\ AttemptLock(c.lock, c.mode)
          /\ ReturnHolding(p, c, sem)
       \/ /\ AttemptFails(c.lock, c.mode)
          /\ IF c.fn = "ConditionalAcquire"
                THEN ReturnEmptyHanded(p, sem)
                ELSE Continue(p, c, "queue") /\ UNCHANGED <<heldMode, sem, extraWaits>>
    /\ UNCHANGED <<hasWaiters, releaseOk, waiters, var, lwWaiting, lwWaitMode,
                   wakeup, signals>>

MayAcquire(p, f, l) == Calling(p, f) /\ heldMode[p][l] = None /\ RoomToHold(p)

LWLockAcquire(p, l, m) ==
    /\ MayAcquire(p, "Acquire", l)
    /\ FirstAttempt(p, CallOf("Acquire", l, m, ClearVal))

LWLockConditionalAcquire(p, l, m) ==
    /\ MayAcquire(p, "ConditionalAcquire", l)
    /\ FirstAttempt(p, CallOf("ConditionalAcquire", l, m, ClearVal))

LWLockAcquireOrWait(p, l, m) ==
    /\ MayAcquire(p, "AcquireOrWait", l)
    /\ FirstAttempt(p, CallOf("AcquireOrWait", l, m, ClearVal))

WaitModeOf(c) == IF c.fn = "Acquire" THEN c.mode ELSE LW_WAIT_UNTIL_FREE

(* LW_WAIT_UNTIL_FREE waiters are always at the front of the queue *)
Enqueue(q, p, m) == IF m = LW_WAIT_UNTIL_FREE THEN <<p>> \o q ELSE Append(q, p)

QueueSelf(p) ==
    LET l == call[p].lock
        m == WaitModeOf(call[p])
    IN  /\ pc[p] = "queue"
        /\ IF lwWaiting[p]
             THEN Goto(p, "panic") /\ UNCHANGED <<hasWaiters, lwWaiting, lwWaitMode, waiters>>
             ELSE /\ hasWaiters' = [hasWaiters EXCEPT ![l] = TRUE]
                  /\ lwWaiting' = [lwWaiting EXCEPT ![p] = TRUE]
                  /\ lwWaitMode' = [lwWaitMode EXCEPT ![p] = m]
                  /\ waiters' = [waiters EXCEPT ![l] = Enqueue(@, p, m)]
                  /\ Goto(p, IF call[p].fn = "WaitForVar" THEN "var_ok" ELSE "attempt2")
        /\ UNCHANGED <<lockval, releaseOk, var, sem, heldMode, call, extraWaits, wakeup, signals>>

(* Mutant: sleep right after queueing *)
SleepOnceQueued(p) ==
    /\ pc[p] = "attempt2"
    /\ Goto(p, "sleep")
    /\ UNCHANGED <<lockVars, procVars, heldMode, call, extraWaits, wakeup, signals>>


SecondAttempt(p) ==
    /\ pc[p] = "attempt2"
    /\ \/ AttemptLock(call[p].lock, call[p].mode) /\ Goto(p, "dequeue")
       \/ AttemptFails(call[p].lock, call[p].mode) /\ Goto(p, "sleep")
    /\ UNCHANGED <<hasWaiters, releaseOk, waiters, var, procVars, heldMode, call,
                   extraWaits, wakeup, signals>>

NotSelf(q, p) == SelectSeq(q, LAMBDA x : x # p)

(* LWLockDequeueSelf, the section under the wait-list lock.  Still queued:   *)
(* the undo is complete.  Otherwise somebody has woken us or will.           *)
DequeueSelf(p) ==
    LET l == call[p].lock
        rest == NotSelf(waiters[l], p)
    IN  /\ pc[p] = "dequeue"
        /\ waiters' = [waiters EXCEPT ![l] = rest]
        /\ hasWaiters' = [hasWaiters EXCEPT ![l] = @ /\ rest # <<>>]
        /\ IF p \in Queued(l)
             THEN /\ lwWaiting' = [lwWaiting EXCEPT ![p] = FALSE]
                  /\ ReturnFromWait(p, sem)
             ELSE /\ Goto(p, "absorb_ok")
                  /\ UNCHANGED <<lwWaiting, call, heldMode, sem, extraWaits>>
        /\ UNCHANGED <<lockval, releaseOk, var, lwWaitMode, wakeup, signals>>

(* "Reset releaseOk if somebody woke us before we removed ourselves" *)
AbsorbReleaseOk(p) ==
    /\ pc[p] = "absorb_ok"
    /\ SetReleaseOk(call[p].lock)
    /\ Goto(p, "absorb")
    /\ UNCHANGED <<lockval, hasWaiters, waiters, var, procVars, heldMode, call,
                   extraWaits, wakeup, signals>>

(* PGSemaphoreLock returned but lwWaiting is still set: a wakeup meant for    *)
(* another user of the semaphore                                             *)
AbsorbForeignWakeup(p) ==
    /\ pc[p] \in {"sleep", "absorb"}
    /\ sem[p] > 0
    /\ lwWaiting[p]
    /\ sem' = [sem EXCEPT ![p] = @ - 1]
    /\ extraWaits' = [extraWaits EXCEPT ![p] = @ + 1]
    /\ UNCHANGED <<lockVars, lwWaiting, lwWaitMode, heldMode, pc, call, wakeup, signals>>

TakeWakeup(p) == [sem EXCEPT ![p] = @ - 1]

(* The scheduled wakeup of a thread that had dequeued too late *)
AbsorbWakeup(p) ==
    /\ pc[p] = "absorb"
    /\ sem[p] > 0
    /\ ~lwWaiting[p]
    /\ ReturnFromWait(p, TakeWakeup(p))
    /\ UNCHANGED <<lockVars, lwWaiting, lwWaitMode, wakeup, signals>>

(* Mutant: any signal on the semaphore ends the wait, lwWaiting is not looked at *)
AwakenOnAnySignal(p) ==
    /\ pc[p] = "sleep"
    /\ sem[p] > 0
    /\ Goto(p, IF call[p].fn = "WaitForVar" THEN "check" ELSE "woken")
    /\ sem' = TakeWakeup(p)
    /\ UNCHANGED <<lockVars, lwWaiting, lwWaitMode, call, heldMode, extraWaits, wakeup, signals>>

(* Woken: LWLockAcquire retries, LWLockAcquireOrWait returns without the      *)
(* lock, LWLockWaitForVar checks again                                       *)
Awaken(p) ==
    /\ pc[p] = "sleep"
    /\ sem[p] > 0
    /\ ~lwWaiting[p]
    /\ \/ /\ call[p].fn = "AcquireOrWait"
          /\ ReturnEmptyHanded(p, TakeWakeup(p))
       \/ /\ call[p].fn # "AcquireOrWait"
          /\ Goto(p, IF call[p].fn = "Acquire" THEN "woken" ELSE "check")
          /\ sem' = TakeWakeup(p)
          /\ UNCHANGED <<call, heldMode, extraWaits>>
    /\ UNCHANGED <<lockVars, lwWaiting, lwWaitMode, wakeup, signals>>

(* Mutant: the retry leaves LW_FLAG_RELEASE_OK clear *)
RetryWithoutFlag(p) ==
    /\ pc[p] = "woken"
    /\ Goto(p, "attempt")
    /\ UNCHANGED <<lockVars, procVars, heldMode, call, extraWaits, wakeup, signals>>

(* "Retrying, allow LWLockRelease to release waiters again" *)
Retry(p) ==
    /\ pc[p] = "woken"
    /\ SetReleaseOk(call[p].lock)
    /\ Goto(p, "attempt")
    /\ UNCHANGED <<lockval, hasWaiters, waiters, var, procVars, heldMode, call,
                   extraWaits, wakeup, signals>>

AttemptAgain(p) == pc[p] = "attempt" /\ FirstAttempt(p, call[p])

-----------------------------------------------------------------------------
(* Releasing *)

(* Where a thread goes once LWLockRelease is over *)
EndRelease(p, c) ==
    IF c.fn = "ReleaseAll" THEN Continue(p, c, "release_all") ELSE Return(p)

(* Mutant: the lock stays in held_lwlocks[] *)
ReleaseStillRecorded(p, c) ==
    /\ lockval' = [lockval EXCEPT ![c.lock] = @ - Weight(heldMode[p][c.lock])]
    /\ EndRelease(p, c)
    /\ UNCHANGED <<hasWaiters, releaseOk, waiters, procVars, heldMode, extraWaits,
                   wakeup, signals>>

(* LWLockRelease within call c: drop the lock in one atomic subtraction, and   *)
(* look at the flags of the word that subtraction returned                    *)
Release(p, c) ==
    LET l == c.lock
        oldstate == lockval[l] - Weight(heldMode[p][l])
        check_waiters == hasWaiters[l] /\ releaseOk[l] /\ oldstate = 0
    IN  /\ lockval' = [lockval EXCEPT ![l] = oldstate]
        /\ heldMode' = [heldMode EXCEPT ![p][l] = None]
        /\ IF check_waiters THEN Continue(p, c, "wake") ELSE EndRelease(p, c)
        /\ UNCHANGED <<hasWaiters, releaseOk, waiters, procVars, extraWaits,
                       wakeup, signals>>

LWLockRelease(p, l) ==
    /\ Calling(p, "Release")
    /\ heldMode[p][l] # None
    /\ Release(p, CallOf("Release", l, heldMode[p][l], ClearVal))
    /\ UNCHANGED var

(* Reset the variable under the wait-list lock ... *)
LWLockReleaseClearVar(p, l) ==
    /\ Calling(p, "ReleaseClearVar")
    /\ heldMode[p][l] = LW_EXCLUSIVE
    /\ var' = [var EXCEPT ![l] = ClearVal]
    /\ Continue(p, CallOf("ReleaseClearVar", l, LW_EXCLUSIVE, ClearVal), "release")
    /\ UNCHANGED <<lockval, hasWaiters, releaseOk, waiters, procVars, heldMode,
                   extraWaits, wakeup, signals>>

(* ... then release *)
ReleaseCleared(p) ==
    /\ pc[p] = "release"
    /\ Release(p, call[p])
    /\ UNCHANGED var

(* ereport(ERROR), such as "too many LWLocks taken": error recovery releases    *)
(* every lock of held_lwlocks[], one after the other                           *)
LWLockReleaseAll(p, l) ==
    /\ \/ Calling(p, "ReleaseAll")
       \/ pc[p] = "release_all"
    /\ heldMode[p][l] # None
    /\ Release(p, CallOf("ReleaseAll", l, heldMode[p][l], ClearVal))
    /\ UNCHANGED var

ReleaseAllDone(p) ==
    /\ pc[p] = "release_all"
    /\ HeldBy(p) = {}
    /\ Return(p)
    /\ UNCHANGED <<lockVars, procVars, heldMode, extraWaits, wakeup, signals>>

(* Which waiters LWLockWakeup takes off the queue: those that only wait for   *)
(* the lock to be free, and either the first locker, if it is exclusive (and  *)
(* then nobody behind it), or every shared one                               *)
LockersIn(q) == {i \in DOMAIN q : lwWaitMode[q[i]] # LW_WAIT_UNTIL_FREE}

FirstLocker(q) == CHOOSE i \in LockersIn(q) : \A j \in LockersIn(q) : i <= j

ExclusiveFirst(q) ==
    LockersIn(q) # {} /\ lwWaitMode[q[FirstLocker(q)]] = LW_EXCLUSIVE

ToWake(q) ==
    IF ExclusiveFirst(q)
      THEN SubSeq(q, 1, FirstLocker(q))
      ELSE SelectSeq(q, LAMBDA p : lwWaitMode[p] # LW_EXCLUSIVE)

LeftQueued(q) ==
    IF ExclusiveFirst(q)
      THEN SubSeq(q, FirstLocker(q) + 1, Len(q))
      ELSE SelectSeq(q, LAMBDA p : lwWaitMode[p] = LW_EXCLUSIVE)

Wakeup(p) ==
    LET l == call[p].lock
        woken == ToWake(waiters[l])
    IN  /\ pc[p] = "wake"
        /\ waiters' = [waiters EXCEPT ![l] = LeftQueued(@)]
        /\ releaseOk' = [releaseOk EXCEPT ![l] = LockersIn(woken) = {}]
        /\ hasWaiters' = [hasWaiters EXCEPT ![l] = @ /\ woken # <<>>]
        /\ wakeup' = [wakeup EXCEPT ![p] = woken]
        /\ IF woken = <<>> THEN EndRelease(p, call[p]) ELSE Goto(p, "unlink") /\ UNCHANGED call
        /\ UNCHANGED <<lockval, var, procVars, heldMode, extraWaits, signals>>

(* waiter->lwWaiting = false *)
Unlink(p) ==
    /\ pc[p] = "unlink"
    /\ lwWaiting' = [lwWaiting EXCEPT ![Head(wakeup[p])] = FALSE]
    /\ Goto(p, "post")
    /\ UNCHANGED <<lockVars, lwWaitMode, sem, heldMode, call, extraWaits, wakeup, signals>>

(* PGSemaphoreUnlock(&waiter->sem) *)
Post(p) ==
    /\ pc[p] = "post"
    /\ sem' = [sem EXCEPT ![Head(wakeup[p])] = @ + 1]
    /\ wakeup' = [wakeup EXCEPT ![p] = Tail(@)]
    /\ IF Tail(wakeup[p]) = <<>> THEN EndRelease(p, call[p]) ELSE Goto(p, "unlink") /\ UNCHANGED call
    /\ UNCHANGED <<lockVars, lwWaiting, lwWaitMode, heldMode, extraWaits, signals>>

-----------------------------------------------------------------------------
(* The variable protected by a lock *)

(* The LW_WAIT_UNTIL_FREE waiters at the front of the queue *)
FrontVarWaiters(q) ==
    {i \in DOMAIN q : \A j \in 1..i : lwWaitMode[q[j]] = LW_WAIT_UNTIL_FREE}

LWLockUpdateVar(p, l, v) ==
    LET q == waiters[l]
        k == Cardinality(FrontVarWaiters(q))
    IN  /\ Calling(p, "UpdateVar")
        /\ heldMode[p][l] = LW_EXCLUSIVE
        /\ var' = [var EXCEPT ![l] = v]
        /\ waiters' = [waiters EXCEPT ![l] = SubSeq(q, k + 1, Len(q))]
        /\ wakeup' = [wakeup EXCEPT ![p] = SubSeq(q, 1, k)]
        /\ IF k = 0
             THEN UNCHANGED <<pc, call>>
             ELSE Continue(p, CallOf("UpdateVar", l, LW_EXCLUSIVE, v), "unlink")
        /\ UNCHANGED <<lockval, hasWaiters, releaseOk, procVars, heldMode, extraWaits, signals>>

(* LWLockConflictsWithVar, before queueing: is the lock held in exclusive mode *)
CheckLock(p, c) ==
    /\ IF ExclusiveBit(c.lock)
         THEN Continue(p, c, "readvar") /\ UNCHANGED <<heldMode, sem, extraWaits>>
         ELSE ReturnEmptyHanded(p, sem)
    /\ UNCHANGED <<lockVars, lwWaiting, lwWaitMode, wakeup, signals>>

LWLockWaitForVar(p, l, old) ==
    /\ Calling(p, "WaitForVar")
    /\ heldMode[p][l] = None
    /\ CheckLock(p, CallOf("WaitForVar", l, LW_EXCLUSIVE, old))

CheckAgain(p) == pc[p] = "check" /\ CheckLock(p, call[p])

SameVar(p) == var[call[p].lock] = call[p].oldval

(* ... and does the variable, read under the wait-list lock, have the old value *)
ReadVar(p) ==
    /\ pc[p] = "readvar"
    /\ IF SameVar(p)
         THEN Goto(p, "queue") /\ UNCHANGED <<call, heldMode, sem, extraWaits>>
         ELSE ReturnEmptyHanded(p, sem)
    /\ UNCHANGED <<lockVars, lwWaiting, lwWaitMode, wakeup, signals>>

(* Mutant: no second look at the lock and the variable *)
SleepWithoutRecheck(p) ==
    /\ pc[p] = "check2"
    /\ Goto(p, "sleep")
    /\ UNCHANGED <<lockVars, procVars, heldMode, call, extraWaits, wakeup, signals>>

(* LWLockConflictsWithVar again, once queued: sleep only if both still hold *)
RecheckLock(p) ==
    /\ pc[p] = "check2"
    /\ Goto(p, IF ExclusiveBit(call[p].lock) THEN "readvar2" ELSE "dequeue")
    /\ UNCHANGED <<lockVars, procVars, heldMode, call, extraWaits, wakeup, signals>>

ReadVarAgain(p) ==
    /\ pc[p] = "readvar2"
    /\ Goto(p, IF SameVar(p) THEN "sleep" ELSE "dequeue")
    /\ UNCHANGED <<lockVars, procVars, heldMode, call, extraWaits, wakeup, signals>>

(* "Set RELEASE_OK flag, to make sure we get woken up as soon as the lock is released" *)
VarReleaseOk(p) ==
    /\ pc[p] = "var_ok"
    /\ SetReleaseOk(call[p].lock)
    /\ Goto(p, "check2")
    /\ UNCHANGED <<lockval, hasWaiters, waiters, var, procVars, heldMode, call,
                   extraWaits, wakeup, signals>>

-----------------------------------------------------------------------------
(* The other users of a thread's semaphore: ProcSendSignal posts it at any    *)
(* time, ProcWaitForSignal waits for it outside the LWLock calls              *)

ForeignPost(p) ==
    /\ signals[p] < MaxSignals
    /\ sem' = [sem EXCEPT ![p] = @ + 1]
    /\ signals' = [signals EXCEPT ![p] = @ + 1]
    /\ UNCHANGED <<lockVars, lwWaiting, lwWaitMode, localVars>>

ForeignWait(p) ==
    /\ pc[p] = "idle"
    /\ sem[p] > 0
    /\ sem' = [sem EXCEPT ![p] = @ - 1]
    /\ signals' = [signals EXCEPT ![p] = @ - 1]
    /\ UNCHANGED <<lockVars, lwWaiting, lwWaitMode, localVars>>

-----------------------------------------------------------------------------
(* What a thread does inside a call, and the calls it makes *)

Step(p) ==
    \/ AttemptAgain(p) \/ QueueSelf(p) \/ SecondAttempt(p)
    \/ DequeueSelf(p) \/ AbsorbReleaseOk(p) \/ AbsorbForeignWakeup(p) \/ AbsorbWakeup(p)
    \/ Awaken(p) \/ Retry(p)
    \/ ReleaseCleared(p) \/ ReleaseAllDone(p) \/ Wakeup(p) \/ Unlink(p) \/ Post(p)
    \/ CheckAgain(p) \/ ReadVar(p) \/ VarReleaseOk(p) \/ RecheckLock(p) \/ ReadVarAgain(p)

AcquiringCall(p) ==
    \E l \in Locks :
        \/ \E m \in Modes : \/ LWLockAcquire(p, l, m)
                           \/ LWLockConditionalAcquire(p, l, m)
                           \/ LWLockAcquireOrWait(p, l, m)
        \/ \E v \in Vals : LWLockWaitForVar(p, l, v) \/ LWLockUpdateVar(p, l, v)

ReleasingCall(p) ==
    \E l \in Locks :
        LWLockRelease(p, l) \/ LWLockReleaseClearVar(p, l) \/ LWLockReleaseAll(p, l)

Next ==
    \E p \in Procs : \/ Step(p) \/ AcquiringCall(p) \/ ReleasingCall(p)
                    \/ ForeignPost(p) \/ ForeignWait(p)

Spec == Init /\ [][Next]_vars

-----------------------------------------------------------------------------
(* Properties *)

(* Every variable has the type its declaration in the code gives it. *)
TypeOK ==
    /\ lockval \in [Locks -> Nat]
    /\ hasWaiters \in [Locks -> BOOLEAN]
    /\ releaseOk \in [Locks -> BOOLEAN]
    /\ var \in [Locks -> Vals]
    /\ lwWaiting \in [Procs -> BOOLEAN]
    /\ lwWaitMode \in [Procs -> WaitModes]
    /\ sem \in [Procs -> Nat]
    /\ heldMode \in [Procs -> [Locks -> Modes \cup {None}]]
    /\ pc \in [Procs -> PCs]
    /\ call \in [Procs -> Calls \cup {NoCall}]
    /\ extraWaits \in [Procs -> Nat]
    /\ signals \in [Procs -> Int]

(* The second attempt took the lock, which is not in held_lwlocks[] yet *)
Granted(p, l, m) ==
    /\ pc[p] \in {"dequeue", "absorb_ok", "absorb"}
    /\ call[p].fn # "WaitForVar"
    /\ call[p].lock = l
    /\ call[p].mode = m

Holds(p, l, m) == heldMode[p][l] = m \/ Granted(p, l, m)

Holders(l, m) == {p \in Procs : Holds(p, l, m)}

(* An exclusive holder of a lock is its only holder: what LWLockAcquire and   *)
(* its variants promise to every piece of shared memory of the server.        *)
MutualExclusion ==
    \A l \in Locks : \A p, q \in Procs : \A m \in Modes :
        Holds(p, l, LW_EXCLUSIVE) /\ Holds(q, l, m) => p = q

(* The count in the state word is exactly the weight of the holders: every     *)
(* LWLockAttemptLock that succeeded is undone by one LWLockRelease, on every   *)
(* path (second attempt, undone queueing, LWLockReleaseAll).                   *)
LockWordExact ==
    \A l \in Locks :
        lockval[l] = LW_VAL_EXCLUSIVE * Cardinality(Holders(l, LW_EXCLUSIVE))
                     + Cardinality(Holders(l, LW_SHARED))

Asleep(p) == pc[p] = "sleep" /\ lwWaiting[p] /\ sem[p] = 0

Quiescent == \A p \in Procs : pc[p] = "idle" \/ Asleep(p)

(* No lost wakeup: when nobody is inside an LWLock call but the sleepers, a     *)
(* sleeper's lock is held by a thread whose LWLockRelease will see both flags   *)
(* it needs to wake the queue.                                                 *)
NoLostWakeup ==
    Quiescent =>
        \A p \in Procs : Asleep(p) =>
            LET l == call[p].lock
            IN  lockval[l] # 0 /\ hasWaiters[l] /\ releaseOk[l] /\ p \in Queued(l)

(* A sleeper of LWLockWaitForVar still has something to wait for: the lock is   *)
(* held in exclusive mode and the variable has the value it waits to change.    *)
VarWaiterInformed ==
    Quiescent =>
        \A p \in Procs : Asleep(p) /\ call[p].fn = "WaitForVar" =>
            ExclusiveBit(call[p].lock) /\ var[call[p].lock] = call[p].oldval

(* The list a thread is walking; its head is unlinked once lwWaiting is reset *)
StillLinked(p) == IF pc[p] = "post" THEN Tail(wakeup[p]) ELSE wakeup[p]

Occurrences(s, p) == Cardinality({i \in DOMAIN s : s[i] = p})

LinkedAtMostOnce(p) ==
    LET inQueues == {l \in Locks : p \in Queued(l)}
        inWakeups == {q \in Procs : Occurrences(StillLinked(q), p) > 0}
    IN  /\ \A l \in inQueues : Occurrences(waiters[l], p) = 1
        /\ \A q \in inWakeups : Occurrences(StillLinked(q), p) = 1
        /\ Cardinality(inQueues) + Cardinality(inWakeups) = (IF lwWaiting[p] THEN 1 ELSE 0)

(* A PGPROC has one lwWaitLink: it is never in two wait or wakeup lists, nor    *)
(* twice in one, and lwWaiting is set exactly while it is in one.  This is the  *)
(* list corruption that the barrier in LWLockWakeup is there to avoid; and the  *)
(* PANIC "queueing for lock while waiting on another one" is unreachable.       *)
OneLinkPerProc ==
    /\ \A p \in Procs : pc[p] # "panic"
    /\ waiters \in [Locks -> Seq(Procs)]
    /\ wakeup \in [Procs -> Seq(Procs)]
    /\ \A p \in Procs : LinkedAtMostOnce(p)

(* Wakeups meant for the other users of the semaphore are never lost, nor       *)
(* invented: outside the LWLock calls the semaphore, with the posts other       *)
(* threads still owe this one, is worth exactly the foreign posts.              *)
SignalsConserved ==
    \A p \in Procs : pc[p] = "idle" =>
        sem[p] + Cardinality({q \in Procs : Occurrences(wakeup[q], p) > 0}) = signals[p]

(* The lock a thread holds as others see it: as soon as the word says so *)
Holding ==
    [p \in Procs |-> [l \in Locks |->
        IF \E m \in Modes : Granted(p, l, m) THEN call[p].mode ELSE heldMode[p][l]]]

RW == INSTANCE RWLock WITH Exclusive <- LW_EXCLUSIVE, Shared <- LW_SHARED, holding <- Holding

(* The state word, the wait queue and the retries implement plain shared and    *)
(* exclusive locks: every step of the code is a grant that is compatible with   *)
(* all holders, a release by the holder, or invisible.                          *)
ImplementsRWLock == RW!Spec
=============================================================================
