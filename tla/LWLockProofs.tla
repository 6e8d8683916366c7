--------------------------- MODULE LWLockProofs ---------------------------
(***************************************************************************)
(* The types, the exactness of the state word, mutual exclusion and the    *)
(* refinement of RWLock hold for any number of threads and locks: the      *)
(* inductive invariant, the arithmetic of the state word, the steps, and   *)
(* the theorems.                                                           *)
(***************************************************************************)
EXTENDS LWLock, FiniteSetTheorems, TLAPS

Waiting == {"attempt", "queue", "attempt2", "sleep", "woken", "dequeue", "absorb_ok",
            "absorb", "check", "readvar", "var_ok", "check2", "readvar2"}

(* At place w of call c, a thread has a call, does not hold the lock it waits    *)
(* for (h is its part of held_lwlocks[]), and is only where its function can be  *)
At(w, c, h) ==
    /\ w # "idle" => c \in Calls
    /\ w \in Waiting => h[c.lock] = None /\ c.fn \in {"Acquire", "AcquireOrWait", "WaitForVar"}
    /\ w \in {"attempt", "woken"} => c.fn = "Acquire"
    /\ w = "attempt2" => c.fn # "WaitForVar"
    /\ w \in {"check", "readvar", "var_ok", "check2", "readvar2"} => c.fn = "WaitForVar"
    /\ w = "release" => h[c.lock] = LW_EXCLUSIVE

ControlOK == \A p \in Procs : At(pc[p], call[p], heldMode[p])

(* A state word v against the sets of exclusive and of shared holders *)
WordFits(v, X, S) ==
    \/ X = {} /\ v = Cardinality(S)
    \/ \E p \in Procs : X = {p} /\ S = {} /\ v = LW_VAL_EXCLUSIVE

WordsFit ==
    \A l \in Locks : WordFits(lockval[l], Holders(l, LW_EXCLUSIVE), Holders(l, LW_SHARED))

(* The subtraction of LWLockRelease *)
DropWord(l, m) == lockval' = [lockval EXCEPT ![l] = lockval[l] - Weight(m)]

LockInv == TypeOK /\ ControlOK /\ WordsFit

(* What a step may do to the holders: nothing, or one thread takes a lock it does not  *)
(* hold and no other holder stands in the way, or one thread drops a lock it holds     *)
SameHolders == \A q \in Procs, k \in Locks, n \in Modes : Holds(q, k, n)' <=> Holds(q, k, n)

Takes(p, l, m) ==
    /\ \A n \in Modes : ~Holds(p, l, n)
    /\ \A q \in Procs, n \in Modes : Holds(q, l, n) => m = LW_SHARED /\ n = LW_SHARED
    /\ \A q \in Procs, k \in Locks, n \in Modes :
           Holds(q, k, n)' <=> Holds(q, k, n) \/ (q = p /\ k = l /\ n = m)

Drops(p, l, m) ==
    /\ Holds(p, l, m)
    /\ \A q \in Procs, k \in Locks, n \in Modes :
           Holds(q, k, n)' <=> Holds(q, k, n) /\ ~(q = p /\ k = l /\ n = m)

HoldStep ==
    SameHolders \/ \E p \in Procs, l \in Locks, m \in Modes : Takes(p, l, m) \/ Drops(p, l, m)

-----------------------------------------------------------------------------
(* Arithmetic of the state word *)

(* A set of threads is finite, and weighs less than one exclusive holder. *)
LEMMA HoldersFinite ==
    ASSUME NEW S \in SUBSET Procs
    PROVE  IsFiniteSet(S) /\ Cardinality(S) \in Nat /\ Cardinality(S) < LW_VAL_EXCLUSIVE
BY ProcsFinite, ExclusiveOutweighsSharers, FS_Subset, FS_CardinalityType

(* LWLockAttemptLock in exclusive mode: zero means no holder. *)
LEMMA TakeExclusive ==
    ASSUME NEW X \in SUBSET Procs, NEW S \in SUBSET Procs, NEW v, WordFits(v, X, S),
           v = 0, NEW p \in Procs
    PROVE  X = {} /\ S = {} /\ WordFits(v + LW_VAL_EXCLUSIVE, X \cup {p}, S)
<1>1. X = {} /\ Cardinality(S) = 0
  BY HoldersFinite, ExclusiveOutweighsSharers, FS_CardinalityType, ProcsFinite DEF WordFits
<1>2. S = {}
  BY Zenon, <1>1, HoldersFinite, FS_EmptySet
<1> QED
  BY <1>1, <1>2, ExclusiveOutweighsSharers DEF WordFits

(* LWLockAttemptLock in shared mode: below LW_VAL_EXCLUSIVE there are only sharers. *)
LEMMA TakeShared ==
    ASSUME NEW X \in SUBSET Procs, NEW S \in SUBSET Procs, NEW v, WordFits(v, X, S),
           ~(v >= LW_VAL_EXCLUSIVE), NEW p \in Procs, p \notin S
    PROVE  X = {} /\ WordFits(v + 1, X, S \cup {p})
<1>1. X = {} /\ v = Cardinality(S)
  BY ExclusiveOutweighsSharers DEF WordFits
<1>2. Cardinality(S \cup {p}) = Cardinality(S) + 1
  BY Zenon, HoldersFinite, FS_AddElement
<1> QED
  BY Zenon, <1>1, <1>2 DEF WordFits

(* LWLockRelease of an exclusive lock leaves the word at zero. *)
LEMMA DropExclusive ==
    ASSUME NEW X \in SUBSET Procs, NEW S \in SUBSET Procs, NEW v, WordFits(v, X, S),
           NEW p \in X
    PROVE  v - LW_VAL_EXCLUSIVE \in Nat /\ WordFits(v - LW_VAL_EXCLUSIVE, X \ {p}, S)
<1>1. X = {p} /\ S = {} /\ v = LW_VAL_EXCLUSIVE
  BY Zenon DEF WordFits
<1>2. Cardinality({}) = 0
  BY Zenon, FS_EmptySet
<1>3. X \ {p} = {} /\ v - LW_VAL_EXCLUSIVE = 0
  BY <1>1, ExclusiveOutweighsSharers
<1> QED
  BY <1>1, <1>2, <1>3 DEF WordFits

(* LWLockRelease of a shared lock takes one sharer off. *)
LEMMA DropShared ==
    ASSUME NEW X \in SUBSET Procs, NEW S \in SUBSET Procs, NEW v, WordFits(v, X, S),
           NEW p \in S
    PROVE  v - 1 \in Nat /\ WordFits(v - 1, X, S \ {p})
<1>1. X = {} /\ v = Cardinality(S)
  BY Zenon DEF WordFits
<1>2. Cardinality(S \ {p}) = Cardinality(S) - 1 /\ Cardinality(S \ {p}) \in Nat
  BY Zenon, HoldersFinite, FS_RemoveElement
<1> QED
  BY Zenon, <1>1, <1>2 DEF WordFits

-----------------------------------------------------------------------------
(* How a step moves the holders *)

(* A step that neither takes nor drops a lock. *)
LEMMA Unmoved ==
    ASSUME WordsFit, UNCHANGED lockval,
           \A q \in Procs, k \in Locks, n \in Modes : Holds(q, k, n)' <=> Holds(q, k, n)
    PROVE  WordsFit' /\ HoldStep
<1>1. \A k \in Locks, n \in Modes : Holders(k, n)' = Holders(k, n)
  BY Zenon DEF Holders
<1>2. HoldStep
  BY Zenon DEF HoldStep, SameHolders
<1> QED
  BY Zenon, <1>1, <1>2 DEF WordsFit, Modes

(* A successful LWLockAttemptLock: thread p takes lock l in mode m. *)
LEMMA Taken ==
    ASSUME WordsFit, TypeOK, NEW p \in Procs, NEW l \in Locks, NEW m \in Modes,
           AttemptLock(l, m), \A n \in Modes : ~Holds(p, l, n),
           \A q \in Procs, k \in Locks, n \in Modes :
               Holds(q, k, n)' <=> Holds(q, k, n) \/ (q = p /\ k = l /\ n = m)
    PROVE  WordsFit' /\ HoldStep /\ lockval' \in [Locks -> Nat]
<1> DEFINE X == Holders(l, LW_EXCLUSIVE)
           S == Holders(l, LW_SHARED)
<1>1. X \in SUBSET Procs /\ S \in SUBSET Procs /\ p \notin X /\ p \notin S
  BY Zenon DEF Holders, Modes
<1>2. WordFits(lockval[l], X, S) /\ lockval[l] \in Nat
  BY Zenon DEF WordsFit, TypeOK
<1>3. \A k \in Locks, n \in Modes :
         Holders(k, n)' = IF k = l /\ n = m THEN Holders(k, n) \cup {p} ELSE Holders(k, n)
  BY Zenon DEF Holders
<1>4. Weight(m) \in Nat /\ lockval' \in [Locks -> Nat]
      /\ \A k \in Locks : lockval'[k] = IF k = l THEN lockval[l] + Weight(m) ELSE lockval[k]
  BY ExclusiveOutweighsSharers DEF AttemptLock, Weight, TypeOK
<1>5. WordFits(lockval'[l], Holders(l, LW_EXCLUSIVE)', Holders(l, LW_SHARED)')
  <2>1. CASE m = LW_EXCLUSIVE
    <3>1. WordFits(lockval[l] + LW_VAL_EXCLUSIVE, X \cup {p}, S)
      BY Zenon, <2>1, <1>1, <1>2, TakeExclusive DEF AttemptLock, LockFree
    <3> QED
      BY Zenon, <2>1, <3>1, <1>3, <1>4 DEF Modes, LW_EXCLUSIVE, LW_SHARED, Weight
  <2>2. CASE m = LW_SHARED
    <3>1. WordFits(lockval[l] + 1, X, S \cup {p})
      BY Zenon, <2>2, <1>1, <1>2, TakeShared
      DEF AttemptLock, LockFree, ExclusiveBit, LW_EXCLUSIVE, LW_SHARED
    <3> QED
      BY Zenon, <2>2, <3>1, <1>3, <1>4 DEF Modes, LW_EXCLUSIVE, LW_SHARED, Weight
  <2> QED
    BY Zenon, <2>1, <2>2 DEF Modes
<1>6. ASSUME NEW k \in Locks, k # l
      PROVE  WordFits(lockval'[k], Holders(k, LW_EXCLUSIVE)', Holders(k, LW_SHARED)')
  BY Zenon, <1>3, <1>4, <1>6 DEF WordsFit, Modes
<1>7. \A q \in Procs, n \in Modes : Holds(q, l, n) => m = LW_SHARED /\ n = LW_SHARED
  <2>1. CASE m = LW_EXCLUSIVE
    <3>1. X = {} /\ S = {}
      BY Zenon, <2>1, <1>1, <1>2, TakeExclusive DEF AttemptLock, LockFree
    <3> QED
      BY Zenon, <3>1 DEF Holders, Modes
  <2>2. CASE m = LW_SHARED
    <3>1. X = {}
      BY Zenon, <2>2, <1>1, <1>2, TakeShared
      DEF AttemptLock, LockFree, ExclusiveBit, LW_EXCLUSIVE, LW_SHARED
    <3> QED
      BY Zenon, <2>2, <3>1 DEF Holders, Modes
  <2> QED
    BY Zenon, <2>1, <2>2 DEF Modes
<1>8. Takes(p, l, m)
  BY ONLY Zenon, <1>7, \A n \in Modes : ~Holds(p, l, n),
     \A q \in Procs, k \in Locks, n \in Modes :
         Holds(q, k, n)' <=> Holds(q, k, n) \/ (q = p /\ k = l /\ n = m)
  DEF Takes
<1>9. HoldStep
  BY Zenon, <1>8 DEF HoldStep
<1> QED
  BY Zenon, <1>4, <1>5, <1>6, <1>9 DEF WordsFit

(* The subtraction of LWLockRelease: thread p drops lock l, held in mode m. *)
LEMMA Dropped ==
    ASSUME WordsFit, TypeOK, NEW p \in Procs, NEW l \in Locks, NEW m \in Modes,
           Holds(p, l, m), DropWord(l, m),
           \A q \in Procs, k \in Locks, n \in Modes :
               Holds(q, k, n)' <=> Holds(q, k, n) /\ ~(q = p /\ k = l /\ n = m)
    PROVE  WordsFit' /\ HoldStep /\ lockval' \in [Locks -> Nat]
<1> DEFINE X == Holders(l, LW_EXCLUSIVE)
           S == Holders(l, LW_SHARED)
<1>1. X \in SUBSET Procs /\ S \in SUBSET Procs /\ p \in Holders(l, m)
  BY Zenon DEF Holders
<1>2. WordFits(lockval[l], X, S) /\ lockval[l] \in Nat
  BY Zenon DEF WordsFit, TypeOK
<1>3. \A k \in Locks, n \in Modes :
         Holders(k, n)' = IF k = l /\ n = m THEN Holders(k, n) \ {p} ELSE Holders(k, n)
  BY Zenon DEF Holders
<1>4. /\ DOMAIN lockval' = Locks
      /\ \A k \in Locks : lockval'[k] = IF k = l THEN lockval[l] - Weight(m) ELSE lockval[k]
  BY Zenon DEF TypeOK, DropWord
<1>5. lockval'[l] \in Nat /\ WordFits(lockval'[l], Holders(l, LW_EXCLUSIVE)', Holders(l, LW_SHARED)')
  <2>1. CASE m = LW_EXCLUSIVE
    <3>1. lockval[l] - LW_VAL_EXCLUSIVE \in Nat
          /\ WordFits(lockval[l] - LW_VAL_EXCLUSIVE, X \ {p}, S)
      BY Zenon, <2>1, <1>1, <1>2, DropExclusive
    <3> QED
      BY Zenon, <2>1, <3>1, <1>3, <1>4 DEF Modes, LW_EXCLUSIVE, LW_SHARED, Weight
  <2>2. CASE m = LW_SHARED
    <3>1. lockval[l] - 1 \in Nat /\ WordFits(lockval[l] - 1, X, S \ {p})
      BY <2>2, <1>1, <1>2, DropShared, ZenonT(30)
    <3> QED
      BY Zenon, <2>2, <3>1, <1>3, <1>4 DEF Modes, LW_EXCLUSIVE, LW_SHARED, Weight
  <2> QED
    BY Zenon, <2>1, <2>2 DEF Modes
<1>6. ASSUME NEW k \in Locks, k # l
      PROVE  WordFits(lockval'[k], Holders(k, LW_EXCLUSIVE)', Holders(k, LW_SHARED)')
  BY Zenon, <1>3, <1>4, <1>6 DEF WordsFit, Modes
<1>7. lockval' \in [Locks -> Nat]
  BY Zenon, <1>4, <1>5 DEF TypeOK, DropWord
<1>8. Drops(p, l, m)
  BY ONLY Zenon, Holds(p, l, m),
     \A q \in Procs, k \in Locks, n \in Modes :
         Holds(q, k, n)' <=> Holds(q, k, n) /\ ~(q = p /\ k = l /\ n = m)
  DEF Drops
<1>9. HoldStep
  BY Zenon, <1>8 DEF HoldStep
<1> QED
  BY Zenon, <1>5, <1>6, <1>7, <1>9 DEF WordsFit

-----------------------------------------------------------------------------
(* Every step preserves the invariant *)

(* The record of a call. *)
LEMMA CallFields ==
    ASSUME NEW f \in Functions, NEW l \in Locks, NEW m \in Modes, NEW v \in Vals
    PROVE  /\ CallOf(f, l, m, v) \in Calls
           /\ CallOf(f, l, m, v).fn = f /\ CallOf(f, l, m, v).lock = l
           /\ CallOf(f, l, m, v).mode = m
BY DEF CallOf, Calls

(* The fields of a call. *)
LEMMA CallsHaveFields ==
    ASSUME NEW c \in Calls
    PROVE  c.fn \in Functions /\ c.lock \in Locks /\ c.mode \in Modes
BY DEF Calls

(* Only thread p moves *)
Moved(p) ==
    /\ pc' \in [Procs -> PCs] /\ call' \in [Procs -> Calls \cup {NoCall}]
    /\ \A q \in Procs \ {p} : pc'[q] = pc[q] /\ call'[q] = call[q]

(* Thread p has taken the lock of call c in its second attempt *)
Awarded(w, c) == w \in {"dequeue", "absorb_ok", "absorb"} /\ c.fn # "WaitForVar"

(* A jump within a call. *)
LEMMA GotoMoves ==
    ASSUME TypeOK, NEW p \in Procs, NEW w \in PCs, Goto(p, w), UNCHANGED call
    PROVE  Moved(p) /\ pc'[p] = w /\ call'[p] = call[p]
<1>1. pc \in [Procs -> PCs] /\ call \in [Procs -> Calls \cup {NoCall}]
  BY Zenon DEF TypeOK
<1> QED
  BY Zenon, <1>1 DEF Goto, Moved

(* A jump that starts or continues call c. *)
LEMMA ContinueMoves ==
    ASSUME TypeOK, NEW p \in Procs, NEW w \in PCs, NEW c \in Calls, Continue(p, c, w)
    PROVE  Moved(p) /\ pc'[p] = w /\ call'[p] = c
<1>1. pc \in [Procs -> PCs] /\ call \in [Procs -> Calls \cup {NoCall}]
  BY Zenon DEF TypeOK
<1> QED
  BY Zenon, <1>1 DEF Continue, Goto, Moved

(* The end of a call. *)
LEMMA ReturnMoves ==
    ASSUME TypeOK, NEW p \in Procs, Return(p)
    PROVE  Moved(p) /\ pc'[p] = "idle"
<1>1. pc \in [Procs -> PCs] /\ call \in [Procs -> Calls \cup {NoCall}]
  BY Zenon DEF TypeOK
<1> QED
  BY Zenon, <1>1 DEF Return, Goto, Moved, PCs

(* A thread is where it may be once it has moved. *)
LEMMA MovedControl ==
    ASSUME ControlOK, NEW p \in Procs, Moved(p), At(pc'[p], call'[p], heldMode'[p]),
           \A q \in Procs \ {p} : heldMode'[q] = heldMode[q]
    PROVE  ControlOK'
BY DEF ControlOK, Moved

(* A move that neither takes nor drops a lock. *)
LEMMA MovedQuietly ==
    ASSUME ControlOK, WordsFit, NEW p \in Procs, Moved(p), UNCHANGED <<lockval, heldMode>>,
           At(pc'[p], call'[p], heldMode[p]),
           Awarded(pc'[p], call'[p]) <=> Awarded(pc[p], call[p]),
           Awarded(pc[p], call[p]) => call'[p] = call[p]
    PROVE  ControlOK' /\ WordsFit' /\ HoldStep
<1>1. \A q \in Procs, k \in Locks, n \in Modes : Holds(q, k, n)' <=> Holds(q, k, n)
  BY Zenon DEF Moved, Holds, Granted, Awarded
<1> QED
  BY Zenon, <1>1, MovedControl, Unmoved

(* What follows LWLockRelease and LWLockWakeup. *)
LEMMA EndReleaseMoves ==
    ASSUME TypeOK, NEW p \in Procs, NEW c \in Calls,
           EndRelease(p, c) \/ Continue(p, c, "wake") \/ Continue(p, c, "unlink")
    PROVE  Moved(p) /\ \A h : At(pc'[p], call'[p], h) /\ ~Awarded(pc'[p], call'[p])
<1>1. CASE Return(p)
  BY Zenon, <1>1, ReturnMoves DEF At, Waiting, Awarded
<1>2. ASSUME NEW w \in {"wake", "unlink", "release_all"}, Continue(p, c, w)
      PROVE  Moved(p) /\ \A h : At(pc'[p], call'[p], h) /\ ~Awarded(pc'[p], call'[p])
  BY Zenon, <1>2, ContinueMoves DEF At, Waiting, Awarded, PCs
<1> QED
  BY Zenon, <1>1, <1>2 DEF EndRelease

(* An entry of held_lwlocks[] is added or removed. *)
LEMMA HeldTyped ==
    ASSUME TypeOK, NEW p \in Procs, NEW l \in Locks, NEW m \in Modes \cup {None}
    PROVE  /\ [heldMode EXCEPT ![p][l] = m] \in [Procs -> [Locks -> Modes \cup {None}]]
           /\ [heldMode EXCEPT ![p][l] = m][p][l] = m
           /\ \A k \in Locks \ {l} : [heldMode EXCEPT ![p][l] = m][p][k] = heldMode[p][k]
           /\ \A q \in Procs \ {p} : [heldMode EXCEPT ![p][l] = m][q] = heldMode[q]
<1>1. [heldMode[p] EXCEPT ![l] = m] \in [Locks -> Modes \cup {None}]
  BY Zenon DEF TypeOK
<1> QED
  BY Zenon, <1>1 DEF TypeOK

(* LWLockQueueSelf. *)
LEMMA QueueSelfKeeps ==
    ASSUME LockInv, NEW p \in Procs, QueueSelf(p)
    PROVE  LockInv' /\ HoldStep
<1> USE DEF LockInv
<1>1. call[p] \in Calls /\ At(pc[p], call[p], heldMode[p])
  BY Zenon DEF QueueSelf, ControlOK, At
<1>2. hasWaiters' \in [Locks -> BOOLEAN] /\ lwWaiting' \in [Procs -> BOOLEAN]
  BY Zenon DEF TypeOK, QueueSelf
<1>3. lwWaitMode' \in [Procs -> WaitModes]
  <2>1. WaitModeOf(call[p]) \in WaitModes
    BY Zenon, <1>1, CallsHaveFields DEF WaitModeOf, WaitModes
  <2>2. UNCHANGED lwWaitMode \/ lwWaitMode' = [lwWaitMode EXCEPT ![p] = WaitModeOf(call[p])]
    BY Zenon DEF QueueSelf
  <2>3. lwWaitMode \in [Procs -> WaitModes]
    BY Zenon DEF TypeOK
  <2> QED
    BY Zenon, <2>1, <2>2, <2>3
<1>4. UNCHANGED <<lockval, releaseOk, var, sem, heldMode, extraWaits, signals>>
  BY Zenon DEF QueueSelf
<1>5. PICK w \in {"panic", "var_ok", "attempt2"} :
         Goto(p, w) /\ (w = "var_ok" => call[p].fn = "WaitForVar")
                    /\ (w = "attempt2" => call[p].fn # "WaitForVar")
  BY Zenon DEF QueueSelf
<1>6. Moved(p) /\ pc'[p] = w /\ call'[p] = call[p]
  BY Zenon, <1>5, GotoMoves DEF QueueSelf, PCs
<1>7. ControlOK' /\ WordsFit' /\ HoldStep
  BY Zenon, <1>1, <1>4, <1>5, <1>6, MovedQuietly DEF QueueSelf, At, Waiting, Awarded
<1> QED
  BY Zenon, <1>2, <1>3, <1>4, <1>6, <1>7 DEF TypeOK, Moved

(* The late dequeuer sets LW_FLAG_RELEASE_OK. *)
LEMMA AbsorbReleaseOkKeeps ==
    ASSUME LockInv, NEW p \in Procs, AbsorbReleaseOk(p)
    PROVE  LockInv' /\ HoldStep
<1> USE DEF LockInv
<1>1. releaseOk' \in [Locks -> BOOLEAN]
  BY Zenon DEF TypeOK, AbsorbReleaseOk, SetReleaseOk
<1>2. Moved(p) /\ pc'[p] = "absorb" /\ call'[p] = call[p]
  BY Zenon, GotoMoves DEF AbsorbReleaseOk, PCs
<1>3. /\ UNCHANGED <<lockval, hasWaiters, var, lwWaiting, lwWaitMode, sem, heldMode, extraWaits, signals>>
      /\ At(pc[p], call[p], heldMode[p])
  BY Zenon DEF AbsorbReleaseOk, ControlOK, lockVars, procVars
<1>4. ControlOK' /\ WordsFit' /\ HoldStep
  BY Zenon, <1>2, <1>3, MovedQuietly DEF AbsorbReleaseOk, At, Waiting, Awarded
<1> QED
  BY Zenon, <1>1, <1>2, <1>3, <1>4 DEF TypeOK, Moved

(* An absorbed foreign wakeup. *)
LEMMA AbsorbForeignWakeupKeeps ==
    ASSUME LockInv, NEW p \in Procs, AbsorbForeignWakeup(p)
    PROVE  LockInv' /\ HoldStep
<1> USE DEF LockInv
<1>1. sem' \in [Procs -> Nat] /\ extraWaits' \in [Procs -> Nat]
  BY DEF TypeOK, AbsorbForeignWakeup
<1>2. UNCHANGED <<lockval, hasWaiters, releaseOk, var, lwWaiting, lwWaitMode, heldMode, pc, call, signals>>
  BY Zenon DEF AbsorbForeignWakeup, lockVars
<1>3. ControlOK' /\ WordsFit' /\ HoldStep
  BY Zenon, <1>2, Unmoved DEF ControlOK, Holds, Granted
<1> QED
  BY Zenon, <1>1, <1>2, <1>3 DEF TypeOK

(* The end of a call that has not taken a lock. *)
LEMMA EmptyHandedMoves ==
    ASSUME TypeOK, NEW p \in Procs, NEW s \in [Procs -> Nat], ReturnEmptyHanded(p, s)
    PROVE  /\ sem' \in [Procs -> Nat] /\ extraWaits' \in [Procs -> Nat]
           /\ Moved(p) /\ pc'[p] = "idle" /\ UNCHANGED heldMode
<1>1. extraWaits \in [Procs -> Nat]
  BY Zenon DEF TypeOK
<1>2. sem' \in [Procs -> Nat] /\ extraWaits' \in [Procs -> Nat]
  BY <1>1 DEF ReturnEmptyHanded, GiveBackWakeups
<1> QED
  BY Zenon, <1>2, ReturnMoves DEF ReturnEmptyHanded

-----------------------------------------------------------------------------
(* The end of a sleep. *)
LEMMA AwakenKeeps ==
    ASSUME LockInv, NEW p \in Procs, Awaken(p)
    PROVE  LockInv' /\ HoldStep
<1> USE DEF LockInv
<1>1. TakeWakeup(p) \in [Procs -> Nat]
  BY DEF TypeOK, Awaken, TakeWakeup
<1>2. At(pc[p], call[p], heldMode[p]) /\ pc[p] = "sleep"
      /\ UNCHANGED <<lockval, hasWaiters, releaseOk, var, lwWaiting, lwWaitMode, signals>>
  BY Zenon DEF Awaken, ControlOK, lockVars
<1>3. CASE ReturnEmptyHanded(p, TakeWakeup(p))
  <2>1. /\ sem' \in [Procs -> Nat] /\ extraWaits' \in [Procs -> Nat]
        /\ Moved(p) /\ pc'[p] = "idle" /\ UNCHANGED heldMode
    BY Zenon, <1>1, <1>3, EmptyHandedMoves
  <2>2. ControlOK' /\ WordsFit' /\ HoldStep
    BY Zenon, <1>2, <2>1, MovedQuietly DEF At, Waiting, Awarded
  <2> QED
    BY Zenon, <1>2, <2>1, <2>2 DEF TypeOK, Moved
<1>4. CASE /\ call[p].fn # "AcquireOrWait"
           /\ Goto(p, IF call[p].fn = "Acquire" THEN "woken" ELSE "check")
           /\ sem' = TakeWakeup(p) /\ UNCHANGED <<call, heldMode, extraWaits>>
  <2>1. PICK w \in {"woken", "check"} : Goto(p, w) /\ (w = "woken" <=> call[p].fn = "Acquire")
    BY Zenon, <1>4
  <2>2. Moved(p) /\ pc'[p] = w /\ call'[p] = call[p]
    BY Zenon, <1>4, <2>1, GotoMoves DEF PCs
  <2>3. ControlOK' /\ WordsFit' /\ HoldStep
    BY <1>2, <1>4, <2>1, <2>2, MovedQuietly, SMTT(30) DEF At, Waiting, Awarded
  <2> QED
    BY Zenon, <1>1, <1>2, <1>4, <2>2, <2>3 DEF TypeOK, Moved
<1> QED
  BY Zenon, <1>3, <1>4 DEF Awaken

(* Before the retry. *)
LEMMA RetryKeeps ==
    ASSUME LockInv, NEW p \in Procs, Retry(p)
    PROVE  LockInv' /\ HoldStep
<1> USE DEF LockInv
<1>1. releaseOk' \in [Locks -> BOOLEAN]
  BY Zenon DEF TypeOK, Retry, SetReleaseOk
<1>2. Moved(p) /\ pc'[p] = "attempt" /\ call'[p] = call[p]
  BY Zenon, GotoMoves DEF Retry, PCs
<1>3. /\ UNCHANGED <<lockval, hasWaiters, var, lwWaiting, lwWaitMode, sem, heldMode, extraWaits, signals>>
      /\ At(pc[p], call[p], heldMode[p])
  BY Zenon DEF Retry, ControlOK, lockVars, procVars
<1>4. ControlOK' /\ WordsFit' /\ HoldStep
  BY Zenon, <1>2, <1>3, MovedQuietly DEF Retry, At, Waiting, Awarded
<1> QED
  BY Zenon, <1>1, <1>2, <1>3, <1>4 DEF TypeOK, Moved

(* The end of LWLockReleaseAll. *)
LEMMA ReleaseAllDoneKeeps ==
    ASSUME LockInv, NEW p \in Procs, ReleaseAllDone(p)
    PROVE  LockInv' /\ HoldStep
<1> USE DEF LockInv
<1>1. Moved(p) /\ pc'[p] = "idle"
  BY Zenon, ReturnMoves DEF ReleaseAllDone
<1>2. UNCHANGED <<lockval, hasWaiters, releaseOk, var, lwWaiting, lwWaitMode, sem, heldMode, extraWaits, signals>>
  BY Zenon DEF ReleaseAllDone, lockVars, procVars
<1>3. ControlOK' /\ WordsFit' /\ HoldStep
  BY Zenon, <1>1, <1>2, MovedQuietly DEF ReleaseAllDone, At, Waiting, Awarded
<1> QED
  BY Zenon, <1>1, <1>2, <1>3 DEF TypeOK, Moved

(* LWLockWakeup takes the waiters off the queue. *)
LEMMA WakeupKeeps ==
    ASSUME LockInv, NEW p \in Procs, Wakeup(p)
    PROVE  LockInv' /\ HoldStep
<1> USE DEF LockInv
<1>1. call[p] \in Calls /\ call = [call EXCEPT ![p] = call[p]]
  BY Zenon DEF TypeOK, ControlOK, At, Wakeup
<1>2. EndRelease(p, call[p]) \/ Continue(p, call[p], "unlink")
  BY Zenon, <1>1 DEF Wakeup, Continue
<1>3. Moved(p) /\ At(pc'[p], call'[p], heldMode[p]) /\ ~Awarded(pc'[p], call'[p])
  BY Zenon, <1>1, <1>2, EndReleaseMoves
<1>4. releaseOk' \in [Locks -> BOOLEAN] /\ hasWaiters' \in [Locks -> BOOLEAN]
  BY Zenon DEF TypeOK, Wakeup
<1>5. UNCHANGED <<lockval, var, lwWaiting, lwWaitMode, sem, heldMode, extraWaits, signals>>
  BY Zenon DEF Wakeup, lockVars, procVars
<1>6. ControlOK' /\ WordsFit' /\ HoldStep
  BY Zenon, <1>3, <1>5, MovedQuietly DEF Wakeup, Awarded
<1> QED
  BY Zenon, <1>3, <1>4, <1>5, <1>6 DEF TypeOK, Moved

(* LWLockWakeup resets lwWaiting. *)
LEMMA UnlinkKeeps ==
    ASSUME LockInv, NEW p \in Procs, Unlink(p)
    PROVE  LockInv' /\ HoldStep
<1> USE DEF LockInv
<1>1. lwWaiting' \in [Procs -> BOOLEAN]
  BY Zenon DEF TypeOK, Unlink
<1>2. Moved(p) /\ pc'[p] = "post" /\ call'[p] = call[p]
  BY Zenon, GotoMoves DEF Unlink, PCs
<1>3. /\ UNCHANGED <<lockval, hasWaiters, releaseOk, var, lwWaitMode, sem, heldMode, extraWaits, signals>>
      /\ At(pc[p], call[p], heldMode[p])
  BY SMTT(30) DEF Unlink, ControlOK, lockVars, procVars
<1>4. ControlOK' /\ WordsFit' /\ HoldStep
  BY Zenon, <1>2, <1>3, MovedQuietly DEF Unlink, At, Waiting, Awarded
<1> QED
  BY Zenon, <1>1, <1>2, <1>3, <1>4 DEF TypeOK, Moved

(* LWLockWakeup posts a semaphore. *)
LEMMA PostKeeps ==
    ASSUME LockInv, NEW p \in Procs, Post(p)
    PROVE  LockInv' /\ HoldStep
<1> USE DEF LockInv
<1>1. call[p] \in Calls /\ call = [call EXCEPT ![p] = call[p]]
  BY Zenon DEF TypeOK, ControlOK, At, Post
<1>2. EndRelease(p, call[p]) \/ Continue(p, call[p], "unlink")
  BY Zenon, <1>1 DEF Post, Continue
<1>3. Moved(p) /\ At(pc'[p], call'[p], heldMode[p]) /\ ~Awarded(pc'[p], call'[p])
  BY Zenon, <1>1, <1>2, EndReleaseMoves
<1>4. sem' \in [Procs -> Nat]
  <2>1. CASE Head(wakeup[p]) \in Procs
    BY <2>1 DEF TypeOK, Post
  <2>2. CASE Head(wakeup[p]) \notin Procs
    BY <2>2, Zenon DEF TypeOK, Post
  <2> QED
    BY Zenon, <2>1, <2>2
<1>5. UNCHANGED <<lockval, hasWaiters, releaseOk, var, lwWaiting, lwWaitMode, heldMode, extraWaits, signals>>
  BY Zenon DEF Post, lockVars, procVars
<1>6. ControlOK' /\ WordsFit' /\ HoldStep
  BY Zenon, <1>3, <1>5, MovedQuietly DEF Post, Awarded
<1> QED
  BY Zenon, <1>3, <1>4, <1>5, <1>6 DEF TypeOK, Moved

(* LWLockConflictsWithVar reads the variable. *)
LEMMA ReadVarKeeps ==
    ASSUME LockInv, NEW p \in Procs, ReadVar(p)
    PROVE  LockInv' /\ HoldStep
<1> USE DEF LockInv
<1>1. At(pc[p], call[p], heldMode[p]) /\ pc[p] = "readvar" /\ sem \in [Procs -> Nat]
      /\ UNCHANGED <<lockval, hasWaiters, releaseOk, var, lwWaiting, lwWaitMode, signals>>
  BY Zenon DEF TypeOK, ReadVar, ControlOK, lockVars
<1>2. CASE ReturnEmptyHanded(p, sem)
  <2>1. /\ sem' \in [Procs -> Nat] /\ extraWaits' \in [Procs -> Nat]
        /\ Moved(p) /\ pc'[p] = "idle" /\ UNCHANGED heldMode
    BY Zenon, <1>1, <1>2, EmptyHandedMoves
  <2>2. ControlOK' /\ WordsFit' /\ HoldStep
    BY <1>1, <2>1, MovedQuietly, SMTT(30) DEF At, Waiting, Awarded
  <2> QED
    BY Zenon, <1>1, <2>1, <2>2 DEF TypeOK, Moved
<1>3. CASE Goto(p, "queue") /\ UNCHANGED <<call, heldMode, sem, extraWaits>>
  <2>1. Moved(p) /\ pc'[p] = "queue" /\ call'[p] = call[p]
    BY Zenon, <1>3, GotoMoves DEF PCs
  <2>2. ControlOK' /\ WordsFit' /\ HoldStep
    BY <1>1, <1>3, <2>1, MovedQuietly, ZenonT(30) DEF At, Waiting, Awarded
  <2> QED
    BY Zenon, <1>1, <1>3, <2>1, <2>2 DEF TypeOK, Moved
<1> QED
  BY Zenon, <1>2, <1>3 DEF ReadVar

(* LWLockWaitForVar sets LW_FLAG_RELEASE_OK. *)
LEMMA VarReleaseOkKeeps ==
    ASSUME LockInv, NEW p \in Procs, VarReleaseOk(p)
    PROVE  LockInv' /\ HoldStep
<1> USE DEF LockInv
<1>1. releaseOk' \in [Locks -> BOOLEAN]
  BY Zenon DEF TypeOK, VarReleaseOk, SetReleaseOk
<1>2. Moved(p) /\ pc'[p] = "check2" /\ call'[p] = call[p]
  BY Zenon, GotoMoves DEF VarReleaseOk, PCs
<1>3. /\ UNCHANGED <<lockval, hasWaiters, var, lwWaiting, lwWaitMode, sem, heldMode, extraWaits, signals>>
      /\ At(pc[p], call[p], heldMode[p])
  BY Zenon DEF VarReleaseOk, ControlOK, lockVars, procVars
<1>4. ControlOK' /\ WordsFit' /\ HoldStep
  BY ZenonT(60), <1>2, <1>3, MovedQuietly DEF VarReleaseOk, At, Waiting, Awarded
<1> QED
  BY Zenon, <1>1, <1>2, <1>3, <1>4 DEF TypeOK, Moved

(* LWLockConflictsWithVar again, once queued. *)
LEMMA RecheckKeeps ==
    ASSUME LockInv, NEW p \in Procs, RecheckLock(p) \/ ReadVarAgain(p)
    PROVE  LockInv' /\ HoldStep
<1> USE DEF LockInv
<1>1. PICK w \in {"readvar2", "dequeue", "sleep"} : Goto(p, w)
  BY Zenon DEF RecheckLock, ReadVarAgain
<1>2. /\ UNCHANGED <<lockval, hasWaiters, releaseOk, var, lwWaiting, lwWaitMode, sem, heldMode, extraWaits, signals, call>>
      /\ At(pc[p], call[p], heldMode[p]) /\ pc[p] \in {"check2", "readvar2"}
  BY Zenon DEF RecheckLock, ReadVarAgain, ControlOK, lockVars, procVars
<1>3. Moved(p) /\ pc'[p] = w /\ call'[p] = call[p]
  BY Zenon, <1>1, <1>2, GotoMoves DEF PCs
<1>4. ControlOK' /\ WordsFit' /\ HoldStep
  BY <1>2, <1>3, MovedQuietly, SMTT(30) DEF At, Waiting, Awarded
<1> QED
  BY Zenon, <1>2, <1>3, <1>4 DEF TypeOK, Moved

(* LWLockConflictsWithVar looks at the state word. *)
LEMMA CheckLockKeeps ==
    ASSUME LockInv, NEW p \in Procs, NEW c \in Calls, c.fn = "WaitForVar",
           heldMode[p][c.lock] = None, pc[p] \in {"idle", "check"}, CheckLock(p, c)
    PROVE  LockInv' /\ HoldStep
<1> USE DEF LockInv
<1>1. sem \in [Procs -> Nat]
      /\ UNCHANGED <<lockval, hasWaiters, releaseOk, var, lwWaiting, lwWaitMode, signals>>
  BY Zenon DEF TypeOK, CheckLock, lockVars
<1>2. CASE ReturnEmptyHanded(p, sem)
  <2>1. /\ sem' \in [Procs -> Nat] /\ extraWaits' \in [Procs -> Nat]
        /\ Moved(p) /\ pc'[p] = "idle" /\ UNCHANGED heldMode
    BY <1>1, <1>2, EmptyHandedMoves, SMTT(30)
  <2>2. ControlOK' /\ WordsFit' /\ HoldStep
    BY <1>1, <2>1, MovedQuietly, ZenonT(30) DEF At, Waiting, Awarded
  <2> QED
    BY Zenon, <1>1, <2>1, <2>2 DEF TypeOK, Moved
<1>3. CASE Continue(p, c, "readvar") /\ UNCHANGED <<heldMode, sem, extraWaits>>
  <2>1. Moved(p) /\ pc'[p] = "readvar" /\ call'[p] = c
    BY Zenon, <1>3, ContinueMoves DEF PCs
  <2>2. ControlOK' /\ WordsFit' /\ HoldStep
    BY Zenon, <1>1, <1>3, <2>1, MovedQuietly DEF At, Waiting, Awarded
  <2> QED
    BY Zenon, <1>1, <1>3, <2>1, <2>2 DEF TypeOK, Moved
<1> QED
  BY <1>2, <1>3, SMTT(30) DEF CheckLock

(* LWLockUpdateVar. *)
LEMMA UpdateVarKeeps ==
    ASSUME LockInv, NEW p \in Procs, NEW l \in Locks, NEW v \in Vals, LWLockUpdateVar(p, l, v)
    PROVE  LockInv' /\ HoldStep
<1> USE DEF LockInv
<1>1. var' \in [Locks -> Vals] /\ UNCHANGED <<lockval, hasWaiters, releaseOk, lwWaiting, lwWaitMode, sem, heldMode, extraWaits, signals>>
  BY Zenon DEF TypeOK, LWLockUpdateVar, procVars
<1>2. pc[p] = "idle"
  BY Zenon DEF LWLockUpdateVar, Calling
<1>3. CASE UNCHANGED <<pc, call>>
  <2>1. ControlOK' /\ WordsFit' /\ HoldStep
    BY Zenon, <1>1, <1>3, Unmoved DEF ControlOK, Holds, Granted
  <2> QED
    BY Zenon, <1>1, <1>3, <2>1 DEF TypeOK
<1>4. CASE Continue(p, CallOf("UpdateVar", l, LW_EXCLUSIVE, v), "unlink")
  <2>1. CallOf("UpdateVar", l, LW_EXCLUSIVE, v) \in Calls
    BY Zenon, CallFields DEF Functions, Modes
  <2>2. Moved(p) /\ At(pc'[p], call'[p], heldMode[p]) /\ ~Awarded(pc'[p], call'[p])
    BY Zenon, <1>4, <2>1, EndReleaseMoves
  <2>3. ControlOK' /\ WordsFit' /\ HoldStep
    BY Zenon, <1>1, <1>2, <2>2, MovedQuietly DEF Awarded
  <2> QED
    BY Zenon, <1>1, <2>2, <2>3 DEF TypeOK, Moved
<1> QED
  BY <1>3, <1>4, SMTT(30) DEF LWLockUpdateVar

(* LWLockReleaseClearVar resets the variable. *)
LEMMA ClearVarKeeps ==
    ASSUME LockInv, NEW p \in Procs, NEW l \in Locks, LWLockReleaseClearVar(p, l)
    PROVE  LockInv' /\ HoldStep
<1> USE DEF LockInv
<1> DEFINE c == CallOf("ReleaseClearVar", l, LW_EXCLUSIVE, ClearVal)
<1>1. c \in Calls /\ c.lock = l
  BY ZenonT(60), CallFields, ClearValIsVal DEF Functions, Modes
<1>2. var' \in [Locks -> Vals] /\ UNCHANGED <<lockval, hasWaiters, releaseOk, lwWaiting, lwWaitMode, sem, heldMode, extraWaits, signals>>
  BY Zenon, ClearValIsVal DEF TypeOK, LWLockReleaseClearVar, procVars
<1>3. pc[p] = "idle" /\ heldMode[p][l] = LW_EXCLUSIVE /\ Continue(p, c, "release")
  BY Zenon DEF LWLockReleaseClearVar, Calling
<1> HIDE DEF c
<1>4. Moved(p) /\ pc'[p] = "release" /\ call'[p] = c
  BY Zenon, <1>1, <1>3, ContinueMoves DEF PCs
<1>5. ControlOK' /\ WordsFit' /\ HoldStep
  BY Zenon, <1>1, <1>2, <1>3, <1>4, MovedQuietly DEF At, Waiting, Awarded
<1> QED
  BY Zenon, <1>2, <1>4, <1>5 DEF TypeOK, Moved

(* The other users of the semaphore. *)
LEMMA ForeignKeeps ==
    ASSUME LockInv, NEW p \in Procs, ForeignPost(p) \/ ForeignWait(p)
    PROVE  LockInv' /\ HoldStep
<1> USE DEF LockInv
<1>1. sem' \in [Procs -> Nat] /\ signals' \in [Procs -> Int]
  <2>1. CASE ForeignPost(p)
    BY <2>1 DEF TypeOK, ForeignPost
  <2>2. CASE ForeignWait(p)
    BY <2>2 DEF TypeOK, ForeignWait
  <2> QED
    BY Zenon, <2>1, <2>2
<1>2. UNCHANGED <<lockval, hasWaiters, releaseOk, var, lwWaiting, lwWaitMode, heldMode, pc, call, extraWaits>>
  BY Zenon DEF ForeignPost, ForeignWait, lockVars, localVars
<1>3. ControlOK' /\ WordsFit' /\ HoldStep
  BY Zenon, <1>2, Unmoved DEF ControlOK, Holds, Granted
<1> QED
  BY Zenon, <1>1, <1>2, <1>3 DEF TypeOK

(* The end of an acquiring or waiting call: LWLockDequeueSelf found the thread    *)
(* queued, or its wakeup has arrived.                                            *)
LEMMA ReturnFromWaitKeeps ==
    ASSUME TypeOK, ControlOK, WordsFit, NEW p \in Procs, NEW s \in [Procs -> Nat],
           pc[p] \in {"dequeue", "absorb"}, ReturnFromWait(p, s), UNCHANGED lockval
    PROVE  /\ Moved(p) /\ ControlOK' /\ WordsFit' /\ HoldStep
           /\ heldMode' \in [Procs -> [Locks -> Modes \cup {None}]]
           /\ sem' \in [Procs -> Nat] /\ extraWaits' \in [Procs -> Nat]
<1>1. call[p] \in Calls /\ call[p].lock \in Locks /\ call[p].mode \in Modes
      /\ heldMode[p][call[p].lock] = None
  BY CallsHaveFields, SMTT(30) DEF ControlOK, At, Waiting
<1>2. CASE call[p].fn = "WaitForVar" /\ ReturnEmptyHanded(p, s)
  <2>1. /\ sem' \in [Procs -> Nat] /\ extraWaits' \in [Procs -> Nat]
        /\ Moved(p) /\ pc'[p] = "idle" /\ UNCHANGED heldMode
    BY Zenon, <1>2, EmptyHandedMoves
  <2>2. ControlOK' /\ WordsFit' /\ HoldStep
    BY Zenon, <1>2, <2>1, MovedQuietly DEF At, Waiting, Awarded
  <2>3. heldMode \in [Procs -> [Locks -> Modes \cup {None}]]
    BY Zenon DEF TypeOK
  <2> QED
    BY Zenon, <2>1, <2>2, <2>3
<1>3. CASE call[p].fn # "WaitForVar" /\ ReturnHolding(p, call[p], s)
  <2>1. PICK l \in Locks, m \in Modes : l = call[p].lock /\ m = call[p].mode
    BY Zenon, <1>1
  <2>2. heldMode' = [heldMode EXCEPT ![p][l] = m] /\ Return(p)
    BY Zenon, <1>3, <2>1 DEF ReturnHolding
  <2>3. /\ heldMode' \in [Procs -> [Locks -> Modes \cup {None}]]
        /\ heldMode'[p][l] = m
        /\ \A k \in Locks \ {l} : heldMode'[p][k] = heldMode[p][k]
        /\ \A q \in Procs \ {p} : heldMode'[q] = heldMode[q]
    BY <2>2, HeldTyped
  <2>4. extraWaits \in [Procs -> Nat]
    BY Zenon DEF TypeOK
  <2>5. sem' \in [Procs -> Nat] /\ extraWaits' \in [Procs -> Nat]
    BY <1>3, <2>4 DEF ReturnHolding, GiveBackWakeups
  <2>6. Moved(p) /\ pc'[p] = "idle"
    BY Zenon, <2>2, ReturnMoves
  <2>7. ControlOK'
    BY Zenon, <2>3, <2>6, MovedControl DEF At, Waiting
  <2>8. ASSUME NEW q \in Procs, NEW k \in Locks, NEW n \in Modes
        PROVE  Holds(q, k, n)' <=> Holds(q, k, n)
    <3>1. CASE q # p
      BY Zenon, <2>3, <2>6, <3>1 DEF Moved, Holds, Granted
    <3>2. CASE q = p
      BY <1>1, <1>3, <2>1, <2>3, <2>6, <3>2, SMTT(30)
      DEF Holds, Granted, Modes, None, LW_EXCLUSIVE, LW_SHARED
    <3> QED
      BY Zenon, <3>1, <3>2
  <2>9. WordsFit' /\ HoldStep
    BY Zenon, <2>8, Unmoved
  <2> QED
    BY Zenon, <2>3, <2>5, <2>6, <2>7, <2>9
<1> QED
  BY Zenon, <1>2, <1>3 DEF ReturnFromWait

-----------------------------------------------------------------------------
(* LWLockDequeueSelf. *)
LEMMA DequeueSelfKeeps ==
    ASSUME LockInv, NEW p \in Procs, DequeueSelf(p)
    PROVE  LockInv' /\ HoldStep
<1> USE DEF LockInv
<1>1. hasWaiters' \in [Locks -> BOOLEAN] /\ lwWaiting' \in [Procs -> BOOLEAN]
  BY Zenon DEF TypeOK, DequeueSelf
<1>2. /\ UNCHANGED <<lockval, releaseOk, var, lwWaitMode, signals>>
      /\ pc[p] = "dequeue" /\ sem \in [Procs -> Nat] /\ At(pc[p], call[p], heldMode[p])
  BY SMTT(30) DEF TypeOK, DequeueSelf, ControlOK
<1>3. CASE ReturnFromWait(p, sem)
  <2>1. /\ Moved(p) /\ ControlOK' /\ WordsFit' /\ HoldStep
        /\ heldMode' \in [Procs -> [Locks -> Modes \cup {None}]]
        /\ sem' \in [Procs -> Nat] /\ extraWaits' \in [Procs -> Nat]
    BY <1>2, <1>3, ReturnFromWaitKeeps, SMTT(30)
  <2> QED
    BY Zenon, <1>1, <1>2, <2>1 DEF TypeOK, Moved
<1>4. CASE Goto(p, "absorb_ok") /\ UNCHANGED <<lwWaiting, call, heldMode, sem, extraWaits>>
  <2>1. Moved(p) /\ pc'[p] = "absorb_ok" /\ call'[p] = call[p]
    BY Zenon, <1>4, GotoMoves DEF PCs
  <2>2. ControlOK' /\ WordsFit' /\ HoldStep
    BY Zenon, <1>2, <1>4, <2>1, MovedQuietly DEF At, Waiting, Awarded
  <2> QED
    BY Zenon, <1>1, <1>2, <1>4, <2>1, <2>2 DEF TypeOK, Moved
<1> QED
  BY Zenon, <1>3, <1>4 DEF DequeueSelf

(* The late dequeuer's wakeup. *)
LEMMA AbsorbWakeupKeeps ==
    ASSUME LockInv, NEW p \in Procs, AbsorbWakeup(p)
    PROVE  LockInv' /\ HoldStep
<1> USE DEF LockInv
<1>1. TakeWakeup(p) \in [Procs -> Nat]
  BY DEF TypeOK, AbsorbWakeup, TakeWakeup
<1>2. UNCHANGED <<lockval, hasWaiters, releaseOk, var, lwWaiting, lwWaitMode, signals>>
  BY Zenon DEF AbsorbWakeup, lockVars
<1>3. /\ Moved(p) /\ ControlOK' /\ WordsFit' /\ HoldStep
      /\ heldMode' \in [Procs -> [Locks -> Modes \cup {None}]]
      /\ sem' \in [Procs -> Nat] /\ extraWaits' \in [Procs -> Nat]
  BY <1>1, <1>2, ReturnFromWaitKeeps, ZenonT(30) DEF AbsorbWakeup
<1> QED
  BY Zenon, <1>2, <1>3 DEF TypeOK, Moved

(* The second attempt, by a queued thread. *)
LEMMA SecondAttemptKeeps ==
    ASSUME LockInv, NEW p \in Procs, SecondAttempt(p)
    PROVE  LockInv' /\ HoldStep
<1> USE DEF LockInv
<1>1. /\ At(pc[p], call[p], heldMode[p]) /\ pc[p] = "attempt2" /\ call[p] \in Calls
      /\ heldMode[p][call[p].lock] = None /\ call[p].fn # "WaitForVar"
  BY SMTT(30) DEF SecondAttempt, ControlOK, At, Waiting
<1>2. UNCHANGED <<hasWaiters, releaseOk, var, lwWaiting, lwWaitMode, sem, heldMode, call,
                  extraWaits, signals>>
  BY SMTT(30) DEF SecondAttempt, procVars
<1>3. PICK l \in Locks, m \in Modes : l = call[p].lock /\ m = call[p].mode
  BY Zenon, <1>1, CallsHaveFields
<1>4. CASE AttemptLock(call[p].lock, call[p].mode) /\ Goto(p, "dequeue")
  <2>1. Moved(p) /\ pc'[p] = "dequeue" /\ call'[p] = call[p]
    BY <1>2, <1>4, GotoMoves, SMTT(30) DEF PCs
  <2>2. ControlOK'
    BY <1>1, <1>2, <2>1, MovedControl, ZenonT(30) DEF At, Waiting
  <2>3. AttemptLock(l, m) /\ \A n \in Modes : ~Holds(p, l, n)
    BY <1>1, <1>3, <1>4, SMTT(30) DEF Holds, Granted, Modes, None, LW_EXCLUSIVE, LW_SHARED
  <2>4. \A q \in Procs, k \in Locks, n \in Modes :
            Holds(q, k, n)' <=> Holds(q, k, n) \/ (q = p /\ k = l /\ n = m)
    BY <1>1, <1>2, <1>3, <2>1, ZenonT(30) DEF Moved, Holds, Granted
  <2>5. WordsFit' /\ HoldStep /\ lockval' \in [Locks -> Nat]
    BY Zenon, <2>3, <2>4, Taken
  <2> QED
    BY Zenon, <1>2, <2>1, <2>2, <2>5 DEF TypeOK, Moved
<1>5. CASE AttemptFails(call[p].lock, call[p].mode) /\ Goto(p, "sleep")
  <2>1. Moved(p) /\ pc'[p] = "sleep" /\ call'[p] = call[p] /\ UNCHANGED lockval
    BY <1>2, <1>5, GotoMoves, SMTT(30) DEF PCs, AttemptFails
  <2>2. ControlOK' /\ WordsFit' /\ HoldStep
    BY <1>1, <1>2, <2>1, MovedQuietly, ZenonT(30) DEF At, Waiting, Awarded
  <2> QED
    BY Zenon, <1>2, <2>1, <2>2 DEF TypeOK, Moved
<1> QED
  BY Zenon, <1>4, <1>5 DEF SecondAttempt

(* The first attempt of LWLockAcquire, LWLockConditionalAcquire and                *)
(* LWLockAcquireOrWait, or the one after a wakeup.                                *)
LEMMA FirstAttemptKeeps ==
    ASSUME LockInv, NEW p \in Procs, NEW c \in Calls, FirstAttempt(p, c),
           pc[p] \in {"idle", "attempt"}, heldMode[p][c.lock] = None,
           c.fn \in {"Acquire", "ConditionalAcquire", "AcquireOrWait"}
    PROVE  LockInv' /\ HoldStep
<1> USE DEF LockInv
<1>1. PICK l \in Locks, m \in Modes : l = c.lock /\ m = c.mode
  BY Zenon, CallsHaveFields
<1>2. UNCHANGED <<hasWaiters, releaseOk, var, lwWaiting, lwWaitMode, signals>>
      /\ sem \in [Procs -> Nat] /\ extraWaits \in [Procs -> Nat]
  BY Zenon DEF FirstAttempt, TypeOK
<1>3. CASE AttemptLock(c.lock, c.mode) /\ ReturnHolding(p, c, sem)
  <2>1. heldMode' = [heldMode EXCEPT ![p][l] = m] /\ Return(p)
    BY Zenon, <1>1, <1>3 DEF ReturnHolding
  <2>2. /\ heldMode' \in [Procs -> [Locks -> Modes \cup {None}]]
        /\ heldMode'[p][l] = m
        /\ \A k \in Locks \ {l} : heldMode'[p][k] = heldMode[p][k]
        /\ \A q \in Procs \ {p} : heldMode'[q] = heldMode[q]
    BY <2>1, HeldTyped
  <2>3. sem' \in [Procs -> Nat] /\ extraWaits' \in [Procs -> Nat]
    BY <1>2, <1>3 DEF ReturnHolding, GiveBackWakeups
  <2>4. Moved(p) /\ pc'[p] = "idle"
    BY Zenon, <2>1, ReturnMoves
  <2>5. ControlOK'
    BY Zenon, <2>2, <2>4, MovedControl DEF At, Waiting
  <2>6. AttemptLock(l, m) /\ \A n \in Modes : ~Holds(p, l, n)
    BY Zenon, <1>1, <1>3 DEF Holds, Granted, Modes, None, LW_EXCLUSIVE, LW_SHARED
  <2>7. \A q \in Procs, k \in Locks, n \in Modes :
            Holds(q, k, n)' <=> Holds(q, k, n) \/ (q = p /\ k = l /\ n = m)
    BY <1>1, <2>2, <2>4, SMTT(30) DEF Moved, Holds, Granted, Modes, None, LW_EXCLUSIVE, LW_SHARED
  <2>8. WordsFit' /\ HoldStep /\ lockval' \in [Locks -> Nat]
    <3>1. WordsFit /\ TypeOK
      OBVIOUS
    <3> HIDE DEF LockInv
    <3> QED
      BY <2>6, <2>7, <3>1, Taken, SMTT(30)
  <2> QED
    BY Zenon, <1>2, <2>2, <2>3, <2>4, <2>5, <2>8 DEF TypeOK, Moved
<1>4. CASE AttemptFails(c.lock, c.mode) /\ ReturnEmptyHanded(p, sem)
  <2>1. /\ sem' \in [Procs -> Nat] /\ extraWaits' \in [Procs -> Nat]
        /\ Moved(p) /\ pc'[p] = "idle" /\ UNCHANGED <<heldMode, lockval>>
    BY <1>2, <1>4, EmptyHandedMoves, ZenonT(30) DEF AttemptFails
  <2>2. ControlOK' /\ WordsFit' /\ HoldStep
    BY Zenon, <2>1, MovedQuietly DEF At, Waiting, Awarded
  <2> QED
    BY Zenon, <1>2, <2>1, <2>2 DEF TypeOK, Moved
<1>5. CASE /\ AttemptFails(c.lock, c.mode) /\ c.fn # "ConditionalAcquire"
           /\ Continue(p, c, "queue") /\ UNCHANGED <<heldMode, sem, extraWaits>>
  <2>1. Moved(p) /\ pc'[p] = "queue" /\ call'[p] = c /\ UNCHANGED lockval
    BY <1>5, ContinueMoves, SMTT(30) DEF PCs, AttemptFails
  <2>2. ControlOK' /\ WordsFit' /\ HoldStep
    BY Zenon, <1>5, <2>1, MovedQuietly DEF At, Waiting, Awarded
  <2> QED
    BY Zenon, <1>2, <1>5, <2>1, <2>2 DEF TypeOK, Moved
<1> QED
  BY <1>3, <1>4, <1>5, ZenonT(30) DEF FirstAttempt

(* LWLockRelease, alone or within LWLockReleaseClearVar and LWLockReleaseAll. *)
LEMMA ReleaseKeeps ==
    ASSUME LockInv, NEW p \in Procs, NEW c \in Calls, Release(p, c), UNCHANGED var,
           heldMode[p][c.lock] # None, pc[p] \in {"idle", "release", "release_all"}
    PROVE  LockInv' /\ HoldStep
<1> USE DEF LockInv
<1>1. PICK l \in Locks : l = c.lock
  BY CallsHaveFields, SMTT(30)
<1>2. PICK m \in Modes : m = heldMode[p][l]
  BY <1>1 DEF TypeOK
<1>3. DropWord(l, m) /\ heldMode' = [heldMode EXCEPT ![p][l] = None]
      /\ UNCHANGED <<hasWaiters, releaseOk, lwWaiting, lwWaitMode, sem, extraWaits, signals>>
  BY Zenon, <1>1, <1>2 DEF Release, procVars, DropWord
<1>4. Moved(p) /\ At(pc'[p], call'[p], heldMode'[p]) /\ ~Awarded(pc'[p], call'[p])
  BY Zenon, EndReleaseMoves DEF Release
<1>5. /\ heldMode' \in [Procs -> [Locks -> Modes \cup {None}]]
      /\ heldMode'[p][l] = None
      /\ \A k \in Locks \ {l} : heldMode'[p][k] = heldMode[p][k]
      /\ \A q \in Procs \ {p} : heldMode'[q] = heldMode[q]
  BY <1>3, HeldTyped
<1>6. ControlOK'
  BY Zenon, <1>4, <1>5, MovedControl
<1>7. Holds(p, l, m)
  BY Zenon, <1>2 DEF Holds
<1>8. \A q \in Procs, k \in Locks, n \in Modes :
          Holds(q, k, n)' <=> Holds(q, k, n) /\ ~(q = p /\ k = l /\ n = m)
  BY <1>2, <1>4, <1>5, SMTT(30) DEF Moved, Awarded, Holds, Granted, Modes, None, LW_EXCLUSIVE, LW_SHARED
<1>9. WordsFit' /\ HoldStep /\ lockval' \in [Locks -> Nat]
  BY <1>3, <1>7, <1>8, Dropped
<1> QED
  BY Zenon, <1>3, <1>4, <1>5, <1>6, <1>9 DEF TypeOK, Moved

-----------------------------------------------------------------------------
(* The theorems *)

(* The invariant holds of zeroed locks. *)
LEMMA InitLockInv == Init => LockInv
<1> SUFFICES ASSUME Init PROVE LockInv
  OBVIOUS
<1>1. TypeOK
  BY ClearValIsVal DEF Init, TypeOK, PCs, WaitModes, Modes
<1>2. ControlOK
  BY Zenon DEF Init, ControlOK, At, Waiting
<1>3. \A l \in Locks, m \in Modes : Holders(l, m) = {}
  BY Zenon DEF Init, Holders, Holds, Granted, Modes, None, LW_EXCLUSIVE, LW_SHARED
<1>4. WordsFit
  BY <1>3, FS_EmptySet, ZenonT(30) DEF Init, WordsFit, WordFits, Modes
<1> QED
  BY Zenon, <1>1, <1>2, <1>4 DEF LockInv

(* Every step of every thread preserves the invariant. *)
LEMMA StepLockInv == LockInv /\ [Next]_vars => LockInv' /\ HoldStep
<1> SUFFICES ASSUME LockInv, [Next]_vars PROVE LockInv' /\ HoldStep
  OBVIOUS
<1>1. CASE UNCHANGED vars
  BY <1>1, SMTT(30) DEF vars, lockVars, procVars, localVars, LockInv, TypeOK, ControlOK, WordsFit,
              Holders, Holds, Granted, HoldStep, SameHolders
<1>2. ASSUME NEW p \in Procs, Step(p) PROVE LockInv' /\ HoldStep
  <2>1. CASE AttemptAgain(p)
    <3>1. call[p] \in Calls /\ call[p].fn = "Acquire" /\ heldMode[p][call[p].lock] = None
      BY <2>1, SMTT(30) DEF AttemptAgain, LockInv, ControlOK, At, Waiting
    <3> QED
      BY <2>1, <3>1, FirstAttemptKeeps, SMTT(30) DEF AttemptAgain
  <2>2. CASE ReleaseCleared(p)
    <3>1. call[p] \in Calls /\ heldMode[p][call[p].lock] # None
      BY Zenon, <2>2 DEF ReleaseCleared, LockInv, ControlOK, At, LW_EXCLUSIVE, None
    <3> QED
      BY <2>2, <3>1, ReleaseKeeps, SMTT(30) DEF ReleaseCleared
  <2>3. CASE CheckAgain(p)
    <3>1. call[p] \in Calls /\ call[p].fn = "WaitForVar" /\ heldMode[p][call[p].lock] = None
      BY Zenon, <2>3 DEF CheckAgain, LockInv, ControlOK, At, Waiting
    <3> QED
      BY Zenon, <2>3, <3>1, CheckLockKeeps DEF CheckAgain
  <2> QED
    BY Zenon, <1>2, <2>1, <2>2, <2>3, QueueSelfKeeps, SecondAttemptKeeps, DequeueSelfKeeps,
       AbsorbReleaseOkKeeps, AbsorbForeignWakeupKeeps, AbsorbWakeupKeeps, AwakenKeeps,
       RetryKeeps, ReleaseAllDoneKeeps, WakeupKeeps, UnlinkKeeps, PostKeeps, ReadVarKeeps,
       VarReleaseOkKeeps, RecheckKeeps
    DEF Step
<1>3. ASSUME NEW p \in Procs, AcquiringCall(p) PROVE LockInv' /\ HoldStep
  <2> PICK l \in Locks :
        \/ \E m \in Modes : \/ LWLockAcquire(p, l, m)
                           \/ LWLockConditionalAcquire(p, l, m)
                           \/ LWLockAcquireOrWait(p, l, m)
        \/ \E v \in Vals : LWLockWaitForVar(p, l, v) \/ LWLockUpdateVar(p, l, v)
    BY Zenon, <1>3 DEF AcquiringCall
  <2>1. ASSUME NEW m \in Modes, NEW f \in {"Acquire", "ConditionalAcquire", "AcquireOrWait"},
               MayAcquire(p, f, l), FirstAttempt(p, CallOf(f, l, m, ClearVal))
        PROVE  LockInv' /\ HoldStep
    <3>1. /\ CallOf(f, l, m, ClearVal) \in Calls
          /\ CallOf(f, l, m, ClearVal).fn = f /\ CallOf(f, l, m, ClearVal).lock = l
      BY CallFields, ClearValIsVal DEF Functions
    <3> QED
      BY <2>1, <3>1, FirstAttemptKeeps, SMTT(30) DEF MayAcquire, Calling
  <2>2. ASSUME NEW v \in Vals, LWLockWaitForVar(p, l, v)
        PROVE  LockInv' /\ HoldStep
    <3> DEFINE c == CallOf("WaitForVar", l, LW_EXCLUSIVE, v)
    <3>1. c \in Calls /\ c.fn = "WaitForVar" /\ c.lock = l
      BY CallFields DEF Functions, Modes
    <3>2. CheckLock(p, c) /\ pc[p] = "idle" /\ heldMode[p][l] = None
      BY <2>2, SMTT(30) DEF LWLockWaitForVar, Calling
    <3> HIDE DEF c
    <3> QED
      BY <3>1, <3>2, CheckLockKeeps, ZenonT(30)
  <2> QED
    BY Zenon, <2>1, <2>2, UpdateVarKeeps
    DEF LWLockAcquire, LWLockConditionalAcquire, LWLockAcquireOrWait
<1>4. ASSUME NEW p \in Procs, ReleasingCall(p) PROVE LockInv' /\ HoldStep
  <2> PICK l \in Locks : LWLockRelease(p, l) \/ LWLockReleaseClearVar(p, l) \/ LWLockReleaseAll(p, l)
    BY Zenon, <1>4 DEF ReleasingCall
  <2>1. ASSUME NEW f \in {"Release", "ReleaseAll"}, heldMode[p][l] # None,
               pc[p] \in {"idle", "release_all"}, UNCHANGED var,
               Release(p, CallOf(f, l, heldMode[p][l], ClearVal))
        PROVE  LockInv' /\ HoldStep
    <3> DEFINE c == CallOf(f, l, heldMode[p][l], ClearVal)
    <3>1. heldMode[p][l] \in Modes
      BY ZenonT(60), <2>1 DEF LockInv, TypeOK
    <3>2. c \in Calls /\ c.lock = l
      BY <3>1, CallFields, ClearValIsVal DEF Functions
    <3>3. Release(p, c)
      BY <2>1, SMTT(30)
    <3> HIDE DEF c
    <3> QED
      BY Zenon, <2>1, <3>2, <3>3, ReleaseKeeps
  <2> QED
    BY <2>1, ClearVarKeeps, SMTT(30) DEF LWLockRelease, LWLockReleaseAll, Calling
<1> QED
  BY Zenon, <1>1, <1>2, <1>3, <1>4, ForeignKeeps DEF Next

(* LockInv is an invariant: in every reachable state, whatever the number of       *)
(* threads and locks, the word of each lock is what its holders put there.         *)
THEOREM LockInvariant == Spec => []LockInv
<1> QED
  BY InitLockInv, StepLockInv, PTL DEF Spec

(* The fields of LWLock and PGPROC keep their types; above all the count in the   *)
(* state word, which LWLockRelease decrements, never goes below zero.             *)
THEOREM TypesHold == Spec => []TypeOK
<1>1. LockInv => TypeOK
  BY Zenon DEF LockInv
<1> QED
  BY <1>1, LockInvariant, PTL

(* An exclusive holder of an LWLock is alone, for any number of threads and locks. *)
THEOREM MutualExclusionHolds == Spec => []MutualExclusion
<1>1. LockInv => MutualExclusion
  <2> SUFFICES ASSUME LockInv, NEW l \in Locks, NEW p \in Procs, NEW q \in Procs, NEW m \in Modes,
                      Holds(p, l, LW_EXCLUSIVE), Holds(q, l, m)
               PROVE  p = q
    BY Zenon DEF MutualExclusion
  <2>1. p \in Holders(l, LW_EXCLUSIVE) /\ q \in Holders(l, m)
    BY Zenon DEF Holders
  <2>2. WordFits(lockval[l], Holders(l, LW_EXCLUSIVE), Holders(l, LW_SHARED))
    BY Zenon DEF LockInv, WordsFit
  <2> QED
    BY <2>1, <2>2 DEF WordFits, Modes
<1> QED
  BY <1>1, LockInvariant, PTL

(* The count in the state word is the weight of the holders, in every state. *)
THEOREM LockWordIsExact == Spec => []LockWordExact
<1>1. LockInv => LockWordExact
  <2> SUFFICES ASSUME LockInv, NEW l \in Locks
               PROVE  lockval[l] = LW_VAL_EXCLUSIVE * Cardinality(Holders(l, LW_EXCLUSIVE))
                                   + Cardinality(Holders(l, LW_SHARED))
    BY Zenon DEF LockWordExact
  <2> DEFINE X == Holders(l, LW_EXCLUSIVE)
             S == Holders(l, LW_SHARED)
  <2>1. WordFits(lockval[l], X, S)
    BY Zenon DEF LockInv, WordsFit
  <2>2. X \in SUBSET Procs /\ S \in SUBSET Procs
    BY Zenon DEF Holders
  <2>3. Cardinality(X) \in Nat /\ Cardinality(S) \in Nat /\ Cardinality({}) = 0
        /\ \A p \in Procs : Cardinality({p}) = 1
    BY Zenon, <2>2, HoldersFinite, FS_EmptySet, FS_Singleton
  <2> HIDE DEF X, S
  <2>4. ASSUME X = {}, lockval[l] = Cardinality(S)
        PROVE  lockval[l] = LW_VAL_EXCLUSIVE * Cardinality(X) + Cardinality(S)
    <3>1. LW_VAL_EXCLUSIVE * 0 = 0 /\ Cardinality(X) = 0
      BY <2>3, <2>4, ExclusiveOutweighsSharers
    <3> QED
      BY <2>3, <2>4, <3>1
  <2>5. ASSUME NEW p \in Procs, X = {p}, S = {}, lockval[l] = LW_VAL_EXCLUSIVE
        PROVE  lockval[l] = LW_VAL_EXCLUSIVE * Cardinality(X) + Cardinality(S)
    BY <2>3, <2>5, ExclusiveOutweighsSharers
  <2>6. lockval[l] = LW_VAL_EXCLUSIVE * Cardinality(X) + Cardinality(S)
    BY Zenon, <2>1, <2>4, <2>5 DEF WordFits
  <2> QED
    BY Zenon, <2>6 DEF X, S
<1> QED
  BY <1>1, LockInvariant, PTL

-----------------------------------------------------------------------------
(* The refinement of RWLock *)

(* An entry of Holding, for a thread at place w of call c with held_lwlocks[] h *)
GrantedAt(w, c, l, m) == Awarded(w, c) /\ c.lock = l /\ c.mode = m
Entry(w, c, h, l) == IF \E m \in Modes : GrantedAt(w, c, l, m) THEN c.mode ELSE h[l]

EntryFits(v, w, c, h, l) ==
    /\ v \in Modes \cup {None}
    /\ \A m \in Modes : v = m <=> h[l] = m \/ GrantedAt(w, c, l, m)

(* A lock granted by the second attempt is not in held_lwlocks[] as well, so the entry  *)
(* is a mode if and only if the lock is held in that mode.                              *)
LEMMA EntryIs ==
    ASSUME NEW w, NEW c, NEW h, NEW l, h[l] \in Modes \cup {None}, At(w, c, h)
    PROVE  EntryFits(Entry(w, c, h, l), w, c, h, l)
<1> USE DEF EntryFits
<1>1. CASE \E m \in Modes : GrantedAt(w, c, l, m)
  <2>1. PICK g \in Modes : GrantedAt(w, c, l, g)
    BY Zenon, <1>1
  <2>2. c.mode = g /\ h[l] = None
    BY Zenon, <2>1 DEF GrantedAt, Awarded, At, Waiting
  <2>3. \A m \in Modes : m # None
    BY Zenon DEF Modes, None, LW_EXCLUSIVE, LW_SHARED
  <2> QED
    BY Zenon, <1>1, <2>1, <2>2, <2>3 DEF Entry, GrantedAt
<1>2. CASE ~\E m \in Modes : GrantedAt(w, c, l, m)
  BY Zenon, <1>2 DEF Entry
<1> QED
  BY Zenon, <1>1, <1>2

(* Holding says what Holds does, before and after a step. *)
LEMMA HoldingIs ==
    ASSUME LockInv, LockInv', NEW p \in Procs, NEW l \in Locks
    PROVE  /\ Holding[p][l] \in Modes \cup {None} /\ Holding'[p][l] \in Modes \cup {None}
           /\ \A m \in Modes : /\ Holding[p][l] = m <=> Holds(p, l, m)
                               /\ Holding'[p][l] = m <=> Holds(p, l, m)'
<1>1. /\ heldMode[p][l] \in Modes \cup {None} /\ At(pc[p], call[p], heldMode[p])
      /\ heldMode'[p][l] \in Modes \cup {None} /\ At(pc'[p], call'[p], heldMode'[p])
  <2>1. heldMode \in [Procs -> [Locks -> Modes \cup {None}]] /\ heldMode' \in [Procs -> [Locks -> Modes \cup {None}]]
    BY Zenon DEF LockInv, TypeOK
  <2>2. At(pc[p], call[p], heldMode[p]) /\ At(pc'[p], call'[p], heldMode'[p])
    BY Zenon DEF LockInv, ControlOK
  <2> QED
    BY Zenon, <2>1, <2>2
<1>2. /\ \A m : Granted(p, l, m) <=> GrantedAt(pc[p], call[p], l, m)
      /\ \A m : Granted(p, l, m)' <=> GrantedAt(pc'[p], call'[p], l, m)
  BY Zenon DEF Granted, GrantedAt, Awarded
<1>3. /\ Holding[p][l] = Entry(pc[p], call[p], heldMode[p], l)
      /\ Holding'[p][l] = Entry(pc'[p], call'[p], heldMode'[p], l)
  BY Zenon, <1>2 DEF Holding, Entry
<1> QED
  <2> DEFINE e == Holding[p][l]
             f == Holding'[p][l]
  <2>1. EntryFits(e, pc[p], call[p], heldMode[p], l) /\ EntryFits(f, pc'[p], call'[p], heldMode'[p], l)
    BY Zenon, <1>1, <1>3, EntryIs
  <2> HIDE DEF e, f
  <2>2. \A m \in Modes : e = m <=> Holds(p, l, m)
    BY Zenon, <1>2, <2>1 DEF EntryFits, Holds
  <2>3. \A m \in Modes : f = m <=> Holds(p, l, m)'
    BY Zenon, <1>2, <2>1 DEF EntryFits, Holds
  <2>4. e \in Modes \cup {None} /\ f \in Modes \cup {None}
    BY Zenon, <2>1 DEF EntryFits
  <2>5. \A m \in Modes : (e = m <=> Holds(p, l, m)) /\ (f = m <=> Holds(p, l, m)')
    BY Zenon, <2>2, <2>3
  <2> USE DEF e, f
  <2> QED
    BY Zenon, <2>4, <2>5

(* An entry is known by the modes it is. *)
LEMMA EntryKnown ==
    ASSUME NEW v \in Modes \cup {None}, NEW w \in Modes \cup {None}, \A m \in Modes : v = m <=> w = m
    PROVE  v = w
<1>1. v \in Modes => v = w
  BY Zenon
<1>2. w \in Modes => v = w
  BY Zenon
<1> QED
  BY Zenon, <1>1, <1>2

(* A step leaves all of the abstract lock table but the entry of p for l alone *)
OthersKept(p, l) ==
    \A q \in Procs, k \in Locks : q # p \/ k # l => Holding'[q][k] = Holding[q][k]

(* After such a step the abstract lock table is the old one with that entry replaced. *)
LEMMA HoldingUpdated ==
    ASSUME NEW p \in Procs, NEW l \in Locks, OthersKept(p, l)
    PROVE  Holding' = [Holding EXCEPT ![p][l] = Holding'[p][l]]
<1> DEFINE v == Holding'[p][l]
           Row(q) == [k \in Locks |-> IF \E m \in Modes : Granted(q, k, m) THEN call[q].mode ELSE heldMode[q][k]]
           New(q) == [k \in Locks |-> IF \E m \in Modes : Granted(q, k, m)' THEN call'[q].mode ELSE heldMode'[q][k]]
<1>1. Holding = [q \in Procs |-> Row(q)] /\ Holding' = [q \in Procs |-> New(q)]
  BY Zenon DEF Holding
<1>2. \A q \in Procs : /\ DOMAIN Row(q) = Locks /\ Row(q) = [k \in Locks |-> Row(q)[k]]
                      /\ DOMAIN New(q) = Locks /\ New(q) = [k \in Locks |-> New(q)[k]]
  BY Zenon
<1> HIDE DEF Row, New
<1>3. \A q \in Procs : Holding[q] = Row(q) /\ Holding'[q] = New(q)
  BY Zenon, <1>1
<1>4. \A q \in Procs, k \in Locks : q # p \/ k # l => New(q)[k] = Row(q)[k]
  BY Zenon, <1>3 DEF OthersKept
<1>5. v = New(p)[l]
  BY Zenon, <1>3
<1> HIDE DEF v
<1>6. New(p) = [Row(p) EXCEPT ![l] = v]
  BY ONLY Zenon, <1>2, <1>4, <1>5, p \in Procs, l \in Locks
<1>7. \A q \in Procs : q # p => New(q) = Row(q)
  BY ONLY Zenon, <1>2, <1>4
<1>8. [q \in Procs |-> New(q)] = [[q \in Procs |-> Row(q)] EXCEPT ![p] = [@ EXCEPT ![l] = v]]
  BY ONLY Zenon, <1>6, <1>7, p \in Procs
<1> QED
  BY Zenon, <1>1, <1>8 DEF v

(* A step on the holders is a step of RWLock, or leaves its lock table as it is. *)
LEMMA HoldStepIs ==
    ASSUME LockInv, LockInv', HoldStep
    PROVE  [RW!Next]_Holding
<1>1. /\ \A q \in Procs, k \in Locks : Holding[q][k] \in Modes \cup {None}
      /\ \A q \in Procs, k \in Locks : Holding'[q][k] \in Modes \cup {None}
  BY Zenon, HoldingIs
<1>2. /\ \A q \in Procs, k \in Locks, n \in Modes : Holding[q][k] = n <=> Holds(q, k, n)
      /\ \A q \in Procs, k \in Locks, n \in Modes : Holding'[q][k] = n <=> Holds(q, k, n)'
  BY Zenon, HoldingIs
<1>3. None \notin Modes /\ LW_EXCLUSIVE \in Modes /\ LW_SHARED \in Modes
  BY Zenon DEF Modes, None, LW_EXCLUSIVE, LW_SHARED
<1>4. ASSUME NEW q \in Procs, NEW k \in Locks, \A n \in Modes : Holds(q, k, n)' <=> Holds(q, k, n)
      PROVE  Holding'[q][k] = Holding[q][k]
  <2> DEFINE v == Holding'[q][k]
             w == Holding[q][k]
  <2>1. v \in Modes \cup {None} /\ w \in Modes \cup {None}
    BY Zenon, <1>1
  <2>2. \A n \in Modes : v = n <=> w = n
    BY ZenonT(60), <1>2, <1>4
  <2> HIDE DEF v, w
  <2>3. v = w
    BY Zenon, <2>1, <2>2, EntryKnown
  <2> QED
    BY Zenon, <2>3 DEF v, w
<1>5. ASSUME NEW p \in Procs, NEW l \in Locks, NEW m \in Modes, Takes(p, l, m)
      PROVE  RW!Next
  <2>1. Holding[p][l] = None
    BY Zenon, <1>1, <1>2, <1>5 DEF Takes
  <2>2. Holding'[p][l] = m
    <3>1. Holds(p, l, m)'
      BY Zenon, <1>5 DEF Takes
    <3> QED
      BY Zenon, <1>2, <3>1
  <2>3. ASSUME NEW q \in Procs, NEW k \in Locks, q # p \/ k # l
        PROVE  Holding'[q][k] = Holding[q][k]
    <3>1. \A n \in Modes : Holds(q, k, n)' <=> Holds(q, k, n)
      BY Zenon, <1>5, <2>3 DEF Takes
    <3> QED
      BY Zenon, <1>4, <3>1
  <2>4. Holding' = [Holding EXCEPT ![p][l] = m]
    <3>1. OthersKept(p, l)
      BY Zenon, <2>3 DEF OthersKept
    <3> QED
      BY Zenon, <2>2, <3>1, HoldingUpdated
  <2>5. ASSUME NEW q \in Procs
        PROVE  Holding[q][l] = None \/ (m = LW_SHARED /\ Holding[q][l] = LW_SHARED)
    <3>1. CASE Holding[q][l] \in Modes
      <4>1. Holds(q, l, Holding[q][l])
        BY Zenon, <1>2, <3>1
      <4> QED
        BY Zenon, <1>5, <3>1, <4>1 DEF Takes
    <3> QED
      BY Zenon, <1>1, <3>1
  <2>6. RW!Compatible(p, l, m)
    BY Zenon, <2>5 DEF RW!Compatible
  <2> QED
    BY Zenon, <2>1, <2>4, <2>6 DEF RW!Next, RW!Grant, Modes
<1>6. ASSUME NEW p \in Procs, NEW l \in Locks, NEW m \in Modes, Drops(p, l, m)
      PROVE  RW!Next
  <2>1. Holding[p][l] = m /\ m # None
    BY Zenon, <1>2, <1>3, <1>6 DEF Drops
  <2>2. Holding'[p][l] = None
    <3>1. CASE Holding'[p][l] \in Modes
      <4>1. PICK n \in Modes : n = Holding'[p][l]
        BY Zenon, <3>1
      <4>2. Holds(p, l, n)'
        BY Zenon, <1>2, <4>1
      <4>3. Holds(p, l, n) /\ n # m
        BY Zenon, <1>6, <4>2 DEF Drops
      <4> QED
        BY Zenon, <1>2, <2>1, <4>3
    <3> QED
      BY Zenon, <1>1, <3>1
  <2>3. ASSUME NEW q \in Procs, NEW k \in Locks, q # p \/ k # l
        PROVE  Holding'[q][k] = Holding[q][k]
    <3>1. \A n \in Modes : Holds(q, k, n)' <=> Holds(q, k, n)
      BY Zenon, <1>6, <2>3 DEF Drops
    <3> QED
      BY Zenon, <1>4, <3>1
  <2>4. Holding' = [Holding EXCEPT ![p][l] = None]
    <3>1. OthersKept(p, l)
      BY Zenon, <2>3 DEF OthersKept
    <3> QED
      BY Zenon, <2>2, <3>1, HoldingUpdated
  <2> QED
    BY Zenon, <2>1, <2>4 DEF RW!Next, RW!Drop
<1>7. CASE SameHolders
  <2>1. \A q \in Procs, k \in Locks : Holding'[q][k] = Holding[q][k]
    BY Zenon, <1>4, <1>7 DEF SameHolders
  <2>2. Holding' = Holding
    BY <2>1 DEF Holding
  <2> QED
    BY Zenon, <2>2
<1> QED
  BY Zenon, <1>5, <1>6, <1>7 DEF HoldStep

(* The state word, the queue and the retries of lwlock.cpp implement plain shared and  *)
(* exclusive locks: every step is a grant compatible with all holders, a release by a  *)
(* holder, or invisible.                                                               *)
THEOREM WordImplementsRWLock == Spec => ImplementsRWLock
<1>1. Init => RW!Init
  <2> SUFFICES ASSUME Init PROVE RW!Init
    OBVIOUS
  <2>1. \A p \in Procs, l \in Locks : Holding[p][l] = None
    BY Zenon DEF Init, Holding, Granted
  <2>2. Holding = [p \in Procs |-> [l \in Locks |-> None]]
    BY <2>1 DEF Holding
  <2> QED
    BY Zenon, <2>2 DEF RW!Init
<1>2. LockInv /\ LockInv' /\ [Next]_vars => [RW!Next]_Holding
  BY Zenon, StepLockInv, HoldStepIs
<1> QED
  BY LockInvariant, <1>1, <1>2, PTL DEF Spec, ImplementsRWLock, RW!Spec

=============================================================================
