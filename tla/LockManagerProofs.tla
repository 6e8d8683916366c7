------------------------- MODULE LockManagerProofs -------------------------
(***************************************************************************)
(* The lock manager grants no conflicting locks: the strong lock counts    *)
(* are exact, every step preserves the invariant (LockManagerInvariant,    *)
(* LockManagerTable), and the invariant implies NoConflict.                *)
(***************************************************************************)
EXTENDS LockManagerTable, FiniteSetTheorems

USE DEF LocalSame, StrongSame, SlotsSame, TableSame, WaitSame

(* The strong locks of a partition, and what FastPathStrongRelationLocks counts *)
StrongIn(b) == {l \in Procs \X Locks : l[2] \in strongHeld[l[1]] /\ Bucket[l[2][1]] = b}

StrongCounted ==
    /\ DOMAIN strongCount = Buckets
    /\ \A b \in Buckets : strongCount[b] = Cardinality(StrongIn(b))

LockInv == ConflictInv /\ StrongCounted

-----------------------------------------------------------------------------
(* The strong lock counts *)

(* The counts stay exact while strong locks and counts are left alone *)
LEMMA CountsKept ==
    ASSUME StrongCounted, UNCHANGED <<strongHeld, strongCount>>
    PROVE  StrongCounted'
  BY Zenon DEF StrongCounted, StrongIn

(* The strong locks of a partition are finitely many *)
LEMMA StrongFinite ==
    \A b : IsFiniteSet(StrongIn(b))
<1>0. 1 \in Int /\ 8 \in Int
  BY SMT
<1>1. IsFiniteSet(Modes)
  BY Zenon, <1>0, LockConstants, FS_Interval, FS_Subset
<1>2. IsFiniteSet(Locks)
  BY Zenon, <1>1, LockConstants, FS_Product DEF Locks
<1>3. IsFiniteSet(Procs \X Locks)
  BY Zenon, <1>2, LockConstants, FS_Product
<1>4. \A b : StrongIn(b) \in SUBSET (Procs \X Locks)
  BY Zenon DEF StrongIn
<1>5. QED
  BY Zenon, <1>3, <1>4, FS_Subset

(* A strong lock is counted when it is asked for, ... *)
LEMMA StrongBegun ==
    ASSUME Types, StrongCounted, NEW p \in Procs, NEW l \in Locks, l \notin strongHeld[p],
           strongHeld' = [strongHeld EXCEPT ![p] = @ \cup {l}],
           strongCount' = [strongCount EXCEPT ![Bucket[l[1]]] = @ + 1]
    PROVE  StrongCounted'
<1>0. /\ DOMAIN strongCount' = Buckets
      /\ strongHeld'[p] = strongHeld[p] \cup {l}
      /\ \A x \in Procs : x # p => strongHeld'[x] = strongHeld[x]
  BY Zenon DEF StrongCounted, Types
<1> SUFFICES ASSUME NEW b \in Buckets PROVE strongCount'[b] = Cardinality(StrongIn(b)')
  BY Zenon, <1>0 DEF StrongCounted
<1>1. IsFiniteSet(StrongIn(b)) /\ strongCount[b] = Cardinality(StrongIn(b))
  BY Zenon, StrongFinite DEF StrongCounted
<1>2. CASE b = Bucket[l[1]]
  <2>1. <<p, l>> \notin StrongIn(b)
    BY Zenon DEF StrongIn
  <2>2. StrongIn(b)' = StrongIn(b) \cup {<<p, l>>}
    BY <1>0, <1>2 DEF StrongIn
  <2>3. strongCount'[b] = strongCount[b] + 1
    BY Zenon, <1>2 DEF StrongCounted
  <2>4. QED
    BY Zenon, <1>1, <2>1, <2>2, <2>3, FS_AddElement
<1>3. CASE b # Bucket[l[1]]
  <2>1. StrongIn(b)' = StrongIn(b)
    BY Zenon, <1>0, <1>3 DEF StrongIn
  <2>2. strongCount'[b] = strongCount[b]
    BY Zenon, <1>3 DEF StrongCounted
  <2>3. QED
    BY Zenon, <1>1, <2>1, <2>2
<1>4. QED
  BY Zenon, <1>2, <1>3

(* ... and counted down when it is given back *)
LEMMA StrongEnded ==
    ASSUME Types, StrongCounted, NEW p \in Procs, NEW l \in Locks, l \in strongHeld[p],
           strongHeld' = [strongHeld EXCEPT ![p] = @ \ {l}],
           strongCount' = [strongCount EXCEPT ![Bucket[l[1]]] = @ - 1]
    PROVE  StrongCounted'
<1>0. /\ DOMAIN strongCount' = Buckets
      /\ strongHeld'[p] = strongHeld[p] \ {l}
      /\ \A x \in Procs : x # p => strongHeld'[x] = strongHeld[x]
  BY Zenon DEF StrongCounted, Types
<1> SUFFICES ASSUME NEW b \in Buckets PROVE strongCount'[b] = Cardinality(StrongIn(b)')
  BY Zenon, <1>0 DEF StrongCounted
<1>1. IsFiniteSet(StrongIn(b)) /\ strongCount[b] = Cardinality(StrongIn(b))
  BY Zenon, StrongFinite DEF StrongCounted
<1>2. CASE b = Bucket[l[1]]
  <2>1. <<p, l>> \in StrongIn(b)
    BY Zenon, <1>2 DEF StrongIn
  <2>2. StrongIn(b)' = StrongIn(b) \ {<<p, l>>}
    BY <1>0, <1>2 DEF StrongIn
  <2>3. strongCount'[b] = strongCount[b] - 1
    BY Zenon, <1>2 DEF StrongCounted
  <2>4. QED
    BY Zenon, <1>1, <2>1, <2>2, <2>3, FS_RemoveElement
<1>3. CASE b # Bucket[l[1]]
  <2>1. StrongIn(b)' = StrongIn(b)
    BY Zenon, <1>0, <1>3 DEF StrongIn
  <2>2. strongCount'[b] = strongCount[b]
    BY Zenon, <1>3 DEF StrongCounted
  <2>3. QED
    BY Zenon, <1>1, <2>1, <2>2
<1>4. QED
  BY Zenon, <1>2, <1>3

(* DropStrongCount counts down a lock that was counted *)
LEMMA CountDropped ==
    ASSUME Types, StrongCounted, NEW p \in Procs, NEW l \in Locks, DropStrongCount(p, l)
    PROVE  StrongCounted'
<1>1. CASE l \in strongHeld[p]
  <2>1. strongCount' = [strongCount EXCEPT ![Bucket[l[1]]] = @ - 1]
    BY Zenon, <1>1 DEF DropStrongCount
  <2>2. QED
    BY Zenon, <1>1, <2>1, StrongEnded DEF DropStrongCount
<1>2. CASE l \notin strongHeld[p]
  <2>1. DOMAIN strongCount' = Buckets /\ \A b \in Buckets : strongCount'[b] = strongCount[b]
    BY Zenon, <1>2 DEF DropStrongCount, StrongCounted
  <2>2. strongHeld' = strongHeld
    BY <1>2 DEF DropStrongCount, Types
  <2>3. QED
    BY Zenon, <2>1, <2>2 DEF StrongCounted, StrongIn
<1>3. QED
  BY Zenon, <1>1, <1>2

(* AbortStrongLockAcquire counts down the lock that is in progress, if any *)
LEMMA CountAborted ==
    ASSUME Types, StrongCounted, NEW p \in Procs, Control(p), AbortStrongLockAcquire(p)
    PROVE  StrongCounted'
<1>1. CASE inProgress[p]
  <2>1. Lock(p) \in strongHeld[p] /\ Lock(p) \in Locks
    BY Zenon, <1>1 DEF Control, Types
  <2>2. Lock(p)[1] = req[p].rel
    BY Zenon DEF Lock
  <2>3. PICK l \in Locks : l = Lock(p) /\ l[1] = req[p].rel
    BY Zenon, <2>1, <2>2
  <2>4. /\ strongHeld' = [strongHeld EXCEPT ![p] = @ \ {l}]
        /\ strongCount' = [strongCount EXCEPT ![Bucket[l[1]]] = @ - 1]
    BY Zenon, <1>1, <2>3 DEF AbortStrongLockAcquire
  <2>5. QED
    BY Zenon, <2>1, <2>3, <2>4, StrongEnded
<1>2. CASE ~inProgress[p]
  <2>1. strongCount' = strongCount /\ strongHeld' = strongHeld
    BY Zenon, <1>2 DEF AbortStrongLockAcquire, Types
  <2>2. QED
    BY Zenon, <2>1, CountsKept
<1>3. QED
  BY Zenon, <1>1, <1>2

(* A count of zero: nobody has a strong lock of the partition *)
LEMMA NoStrongLocker ==
    ASSUME StrongCounted, NEW r \in Rels, strongCount[Bucket[r]] = 0
    PROVE  \A x \in Procs, s \in Modes : <<r, s>> \notin strongHeld[x]
<1>1. Bucket[r] \in Buckets
  BY Zenon, LockConstants
<1>2. IsFiniteSet(StrongIn(Bucket[r])) /\ Cardinality(StrongIn(Bucket[r])) = 0
  BY Zenon, <1>1, StrongFinite DEF StrongCounted
<1>3. StrongIn(Bucket[r]) = {}
  BY Zenon, <1>2, FS_EmptySet
<1> SUFFICES ASSUME NEW x \in Procs, NEW s \in Modes, <<r, s>> \in strongHeld[x] PROVE FALSE
  BY Zenon
<1>4. <<x, <<r, s>>>> \in StrongIn(Bucket[r])
  BY Zenon, LockPairs DEF StrongIn
<1>5. QED
  BY Zenon, <1>3, <1>4

-----------------------------------------------------------------------------
(* The steps *)

(* Initially nothing is held, queued or counted *)
LEMMA InitInv ==
    ASSUME Init
    PROVE  LockInv
<1>1. Types
  BY Zenon DEF Init, Types
<1>2. ASSUME NEW p \in Procs PROVE Local(p)
  <2>1. /\ pc[p] = "idle" /\ inProgress[p] = FALSE /\ deadlockTimer[p] = FALSE /\ strongHeld[p] = {}
        /\ (\A l \in Locks : nLocks[p][l] = 0) /\ \A r \in Rels : fpLocks[p][r] = {}
    BY Zenon DEF Init
  <2>2. Control(p) /\ Strong(p)
    BY Zenon, <2>1 DEF Control, Strong, Asking
  <2>3. \A l \in Locks : ~Owns(p, l)
    BY <2>1 DEF Owns
  <2>4. Owned(p)
    BY Zenon, <2>1, <2>3, LockPairs DEF Owned
  <2>5. QED
    BY Zenon, <2>2, <2>4 DEF Local
<1>3. QueuesOK(queue)
  BY Zenon DEF Init, QueuesOK, Members
<1>4. FastExcluded
  BY Zenon DEF Init, FastExcluded
<1>5. TableExcludes
  BY ZenonT(60) DEF Init, TableExcludes, Live
<1>6. StrongCounted
  <2>1. \A b : StrongIn(b) = {}
    BY Zenon DEF Init, StrongIn
  <2>2. QED
    BY Zenon, <2>1, FS_EmptySet DEF Init, StrongCounted
<1>7. QED
  BY Zenon, <1>1, <1>2, <1>3, <1>4, <1>5, <1>6 DEF LockInv, ConflictInv

(* What is known of a backend about to take a step *)
LEMMA KnownOf ==
    ASSUME LockInv, NEW p \in Procs
    PROVE  ConflictInv /\ StrongCounted /\ Types /\ Control(p) /\ Strong(p) /\ Owned(p)
  BY Zenon DEF LockInv, ConflictInv, Local

(* LockAcquire: the fast path is entered only when the count is zero, and then nobody *)
(* has or asks for a strong lock of the partition.                                    *)
LEMMA LockAcquireInv ==
    ASSUME LockInv, NEW p \in Procs, LockAcquire(p), setting' = setting
    PROVE  LockInv'
<1>1. ConflictInv /\ StrongCounted /\ Types /\ Control(p) /\ Strong(p) /\ Owned(p)
  BY Zenon, KnownOf
<1>2. Wants(p) \subseteq Requests
  BY Zenon, <1>1, LockConstants DEF Types, Wants
<1>3. PICK q \in Requests : \/ AcquireAgain(p, q) \/ AcquireFast(p, q)
                            \/ AcquireInTable(p, q) \/ BeginStrongLockAcquire(p, q)
  BY Zenon, <1>2 DEF LockAcquire
<1>4. q.rel \in Rels
  BY Zenon DEF Requests
<1>5. CASE AcquireAgain(p, q)
  BY Zenon, <1>1, <1>5, AcquireAgainStep, CountsKept DEF LockInv, AcquireAgain, strong
<1>6. CASE AcquireFast(p, q)
  <2>1. ConflictInv'
    BY Zenon, <1>1, <1>4, <1>6, NoStrongLocker, AcquireFastStep
  <2>2. QED
    BY Zenon, <1>1, <1>6, <2>1, CountsKept DEF LockInv, AcquireFast, strong
<1>7. CASE AcquireInTable(p, q)
  BY Zenon, <1>1, <1>7, AcquireInTableStep, CountsKept DEF LockInv, AcquireInTable, strong
<1>8. CASE BeginStrongLockAcquire(p, q)
  <2>1. PICK l \in Locks : l = <<q.rel, q.mode>> /\ l[1] = q.rel
    BY Zenon, LockPairs
  <2>2. /\ pc[p] = "idle" /\ nLocks[p][l] = 0
        /\ strongHeld' = [strongHeld EXCEPT ![p] = @ \cup {l}]
        /\ strongCount' = [strongCount EXCEPT ![Bucket[l[1]]] = @ + 1]
    BY Zenon, <1>8, <2>1 DEF BeginStrongLockAcquire, Ask
  <2>3. l \notin strongHeld[p]
    BY Zenon, <1>1, <2>2 DEF Strong, Control
  <2>4. StrongCounted'
    BY Zenon, <1>1, <2>2, <2>3, StrongBegun
  <2>5. QED
    BY Zenon, <1>1, <1>8, <2>4, BeginStrongLockAcquireStep DEF LockInv
<1>9. QED
  BY Zenon, <1>3, <1>5, <1>6, <1>7, <1>8

(* The other steps keep conflicting locks apart, ... *)
LEMMA ConflictInvKept ==
    ASSUME LockInv, NEW p \in Procs, setting' = setting,
           \/ Memory(p) \/ Acquiring(p)
           \/ CheckDeadLock(p) \/ LockWaitTimeout(p) \/ Cancel(p)
           \/ Cleaning(p) \/ Releasing(p) \/ Ending(p)
    PROVE  ConflictInv'
<1> USE KnownOf
<1>1. CASE Memory(p)
  BY Zenon, <1>1, TransferFailsStep, SetupFailsStep DEF Memory
<1>2. CASE Acquiring(p)
  BY Zenon, <1>2, FastPathGrantRelationLockStep, FastPathTransferRelationLocksStep, GrantStep,
     DontWaitStep, GiveUpEarlyStep, JoinWaitQueueStep, WakeStep, ReturnFromSleepStep DEF Acquiring
<1>3. CASE CheckDeadLock(p) \/ LockWaitTimeout(p) \/ Cancel(p)
  BY Zenon, <1>3, CheckDeadLockStep, LockWaitTimeoutStep, CancelStep
<1>4. CASE Cleaning(p)
  BY Zenon, <1>4, StartErrorCleanupStep, FinishErrorCleanupStep, AbortSubTransactionStep DEF Cleaning
<1>5. CASE Releasing(p)
  BY Zenon, <1>5, ReleaseFromTableStep, RemoveLocalLockStep, EndOfLocalScanStep, EndOfReleaseStep,
     ReleaseAllFastStep, LockRefindAndReleaseStep, MarkForReleaseStep, ReleaseProcLockStep
     DEF Releasing
<1>6. CASE Ending(p)
  BY Zenon, <1>6, ReleaseOnceStep, LockReleaseStep, EndTransactionStep DEF Ending
<1>7. QED
  BY Zenon, <1>1, <1>2, <1>3, <1>4, <1>5, <1>6

(* ... and the counts exact *)
LEMMA CountsExactKept ==
    ASSUME LockInv, NEW p \in Procs,
           \/ Memory(p) \/ Acquiring(p)
           \/ CheckDeadLock(p) \/ LockWaitTimeout(p) \/ Cancel(p)
           \/ Cleaning(p) \/ Releasing(p) \/ Ending(p)
    PROVE  StrongCounted'
<1> DEFINE CountSame == UNCHANGED <<strongHeld, strongCount>>
<1>1. CASE Memory(p)
  BY Zenon, <1>1, KnownOf, CountAborted DEF Memory, TransferFails, SetupFails, OutOfSharedMemory
<1>2. CASE Acquiring(p)
  <2>1. CASE DontWait(p)
    BY Zenon, <2>1, KnownOf, CountAborted DEF DontWait
  <2>2. CASE ~DontWait(p)
    <3>1. CountSame
      BY Zenon, <1>2, <2>2 DEF Acquiring, FastPathGrantRelationLock, FastPathTransferRelationLocks,
         Grant, GrantWithoutSleep, GrantInTable, GiveUpEarly, JoinWaitQueue, Wake, ReturnFromSleep,
         strong
    <3>2. QED
      BY Zenon, <3>1, KnownOf, CountsKept
  <2>3. QED
    BY Zenon, <2>1, <2>2
<1>3. CASE CheckDeadLock(p) \/ LockWaitTimeout(p) \/ Cancel(p)
  BY Zenon, <1>3, KnownOf, CountsKept DEF CheckDeadLock, LockWaitTimeout, Cancel, strong
<1>4. CASE Cleaning(p)
  BY Zenon, <1>4, KnownOf, CountAborted, CountsKept
     DEF Cleaning, StartErrorCleanup, FinishErrorCleanup, AbortSubTransaction, strong
<1>5. CASE Releasing(p)
  <2>1. CASE RemoveLocalLock(p)
    <3>1. Lock(p) \in Locks
      BY Zenon, <2>1, KnownOf, LockPairs DEF Control, Lock, RemoveLocalLock
    <3>2. QED
      BY Zenon, <2>1, <3>1, KnownOf, CountDropped DEF RemoveLocalLock
  <2>2. ASSUME NEW l \in Locks, MarkForRelease(p, l) PROVE StrongCounted'
    BY Zenon, <2>2, KnownOf, CountDropped DEF MarkForRelease
  <2>3. CASE ~RemoveLocalLock(p) /\ \A l \in Locks : ~MarkForRelease(p, l)
    <3>1. CountSame
      BY Zenon, <1>5, <2>3 DEF Releasing, ReleaseFromTable, EndOfLocalScan, EndOfRelease,
         ReleaseAllFast, LockRefindAndRelease, ReleaseProcLock, strong
    <3>2. QED
      BY Zenon, <3>1, KnownOf, CountsKept
  <2>4. QED
    BY Zenon, <2>1, <2>2, <2>3
<1>6. CASE Ending(p)
  BY Zenon, <1>6, KnownOf, CountsKept DEF Ending, ReleaseOnce, LockRelease, EndTransaction, strong
<1>7. QED
  BY Zenon, <1>1, <1>2, <1>3, <1>4, <1>5, <1>6

(* A step that changes no variable *)
LEMMA StutterInv ==
    ASSUME LockInv, UNCHANGED vars
    PROVE  LockInv'
<1>1. ConflictInv'
  BY Zenon, SameStep DEF LockInv, vars, localLocks, strong, fastPath, table, wakeup, timers, waiting
<1>2. UNCHANGED <<strongHeld, strongCount>>
  BY Zenon DEF vars, strong
<1>3. QED
  BY Zenon, <1>1, <1>2, CountsKept DEF LockInv

(* The invariant implies that no two backends own conflicting locks *)
LEMMA InvExcludes ==
    ASSUME LockInv
    PROVE  NoConflict
<1> SUFFICES ASSUME NEW p \in Procs, NEW x \in Procs, NEW r \in Rels, NEW m \in Modes, NEW n \in Modes,
                    p # x, Owns(p, <<r, m>>), Owns(x, <<r, n>>), n \in LockConflicts[m]
             PROVE  FALSE
  BY Zenon DEF NoConflict
<1>1. m \in 1 .. 8 /\ n \in 1 .. 8 /\ m \in LockConflicts[n]
  BY Zenon, LockConstants, ConflictsSymmetric
<1>2. /\ m \in fpLocks[p][r] \/ m \in hold[r][p]
      /\ n \in fpLocks[x][r] \/ n \in hold[r][x]
      /\ m > 4 => <<r, m>> \in strongHeld[p]
      /\ n > 4 => <<r, n>> \in strongHeld[x]
      /\ m \in fpLocks[p][r] => m < 4
      /\ n \in fpLocks[x][r] => n < 4
  BY Zenon DEF LockInv, ConflictInv, Local, Owned
<1>3. ASSUME NEW y \in Procs, NEW z \in Procs, NEW s \in Modes, NEW k \in fpLocks[z][r],
             <<r, s>> \in strongHeld[y], Owns(y, <<r, s>>)
      PROVE  FALSE
  <2>1. Transferring(y, z, r, s)
    BY Zenon, <1>3 DEF LockInv, ConflictInv, FastExcluded
  <2>2. nLocks[y][<<r, s>>] = 0
    BY Zenon, <2>1 DEF LockInv, ConflictInv, Local, Control, Transferring, Asking
  <2>3. QED
    BY <1>3, <2>2 DEF Owns
<1>4. CASE m \in fpLocks[p][r]
  <2>1. n > 4
    BY Zenon, <1>1, <1>2, <1>4, WeakConflicts
  <2>2. QED
    BY Zenon, <1>2, <1>3, <1>4, <2>1
<1>5. CASE n \in fpLocks[x][r]
  <2>1. m > 4
    BY Zenon, <1>1, <1>2, <1>5, WeakConflicts
  <2>2. QED
    BY Zenon, <1>2, <1>3, <1>5, <2>1
<1>6. CASE m \in hold[r][p] /\ n \in hold[r][x]
  BY Zenon, <1>6 DEF LockInv, ConflictInv, TableExcludes, Live
<1>7. QED
  BY Zenon, <1>2, <1>4, <1>5, <1>6

-----------------------------------------------------------------------------
(* The invariant holds for any number of backends, relations and partitions of the     *)
(* strong lock counts: each lock a backend owns is in its slots or in the table, strong *)
(* locks are counted, a counted lock keeps the slots of the others empty or is still    *)
(* moving them, and the locks granted in the table do not conflict.                     *)
THEOREM LockInvariant == Spec => []LockInv
<1>1. Init => LockInv
  BY Zenon, InitInv
<1>2. LockInv /\ [Next]_vars => LockInv'
  <2> SUFFICES ASSUME LockInv, [Next]_vars PROVE LockInv'
    BY Zenon
  <2>1. CASE UNCHANGED vars
    BY Zenon, <2>1, StutterInv
  <2>2. CASE Next
    <3>1. PICK p \in Procs : \/ LockAcquire(p) \/ Memory(p) \/ Acquiring(p)
                             \/ CheckDeadLock(p) \/ LockWaitTimeout(p) \/ Cancel(p)
                             \/ Cleaning(p) \/ Releasing(p) \/ Ending(p)
      BY Zenon, <2>2 DEF Next
    <3>2. setting' = setting
      BY Zenon, <2>2 DEF Next
    <3>3. QED
      BY Zenon, <3>1, <3>2, LockAcquireInv, ConflictInvKept, CountsExactKept DEF LockInv
  <2>3. QED
    BY Zenon, <2>1, <2>2
<1>3. QED
  BY <1>1, <1>2, PTL DEF Spec

(* Two backends never own locks of one relation in conflicting modes, whichever of them *)
(* came through the fast path of LockAcquire and whichever through the lock table.      *)
THEOREM LocksExclude == Spec => []NoConflict
<1>1. LockInv => NoConflict
  BY Zenon, InvExcludes
<1>2. QED
  BY <1>1, LockInvariant, PTL

=============================================================================
