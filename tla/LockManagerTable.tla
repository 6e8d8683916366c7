-------------------------- MODULE LockManagerTable --------------------------
(***************************************************************************)
(* The fast path, grants and the wait queue: the steps that grant a lock,  *)
(* move locks to the table or join a queue, and those that release locks   *)
(* and wake waiters, preserve the invariant of LockManagerInvariant.       *)
(***************************************************************************)
EXTENDS LockManagerInvariant

USE DEF LocalSame, StrongSame, SlotsSame, TableSame, WaitSame

(* A strong lock that is live in the table keeps every backend out of its slots *)
LEMMA LiveExcludesFast ==
    ASSUME ConflictInv, NEW x \in Procs, NEW p \in Procs, NEW r \in Rels, NEW n \in Modes,
           n > 4, Live(x, r, n)
    PROVE  fpLocks[p][r] = {} /\ ~(pc[p] = "fast_path" /\ req[p].rel = r)
<1>1. Control(x) /\ Owned(x)
  BY Zenon DEF ConflictInv, Local
<1>2. <<r, n>> \in strongHeld[x]
  <2>1. CASE Owns(x, <<r, n>>)
    BY Zenon, <1>1, <2>1 DEF Owned
  <2>2. CASE pc[x] \in {"sleep", "woken"} /\ Lock(x) = <<r, n>>
    BY Zenon, <1>1, <2>2 DEF Control, Lock
  <2>3. QED
    BY Zenon, <2>1, <2>2 DEF Live
<1>3. ~Transferring(x, p, r, n)
  <2>1. SUFFICES ASSUME pc[x] = "transfer", Lock(x) = <<r, n>> PROVE FALSE
    BY Zenon DEF Transferring
  <2>2. nLocks[x][<<r, n>>] = 0
    BY Zenon, <1>1, <2>1 DEF Control, Asking
  <2>3. Owns(x, <<r, n>>)
    BY Zenon, <2>1 DEF Live
  <2>4. QED
    BY <2>2, <2>3 DEF Owns
<1>4. QED
  BY <1>2, <1>3 DEF ConflictInv, FastExcluded

(* A step of p that leaves the table alone *)
LEMMA FrameStep ==
    ASSUME ConflictInv, NEW p \in Procs, Types', Local(p)', Frame(p), TableSame,
           StaysQueued(p), FastExcluded', TableExcludes'
    PROVE  ConflictInv'
<1>1. \A x \in Procs : Local(x)'
  BY Zenon, FrameLocal
<1>2. QueuesOK(queue)'
  BY Zenon, FrameQueues
<1>3. QED
  BY Zenon, <1>1, <1>2 DEF ConflictInv

(* The count of strong lockers is read at the slots: when it is zero there is none *)
LEMMA AcquireFastStep ==
    ASSUME ConflictInv, NEW p \in Procs, Types, Control(p), Strong(p), Owned(p),
           NEW q \in Requests, AcquireFast(p, q), setting' = setting,
           strongCount[Bucket[q.rel]] = 0 =>
              \A x \in Procs, s \in Modes : <<q.rel, s>> \notin strongHeld[x]
    PROVE  ConflictInv'
<1>1. /\ pc[p] = "idle" /\ req' = [req EXCEPT ![p] = q] /\ nLocks[p][<<q.rel, q.mode>>] = 0
      /\ q.mode < 4 /\ backendLock[p] = Nobody
      /\ \/ /\ pc' = [pc EXCEPT ![p] = "fast_path"] /\ strongCount[Bucket[q.rel]] = 0
            /\ backendLock' = [backendLock EXCEPT ![p] = p]
         \/ pc' = [pc EXCEPT ![p] = "table"] /\ backendLock' = [backendLock EXCEPT ![p] = Nobody]
      /\ LocalSame /\ StrongSame /\ fpLocks' = fpLocks /\ TableSame /\ WaitSame
  BY Zenon DEF AcquireFast, Ask, MayUseFastPath, Goto, EligibleForRelationFastPath,
         ShareUpdateExclusiveLock, localLocks, strong, table, wakeup, timers, waiting
<1>2. /\ DOMAIN pc' = Procs /\ DOMAIN req' = Procs /\ DOMAIN backendLock' = Procs
      /\ pc'[p] \in {"fast_path", "table"} /\ req'[p] = q
      /\ pc'[p] = "fast_path" => strongCount[Bucket[q.rel]] = 0 /\ backendLock'[p] = p
      /\ \A x \in Procs \ {p} : pc'[x] = pc[x] /\ req'[x] = req[x] /\ backendLock'[x] = backendLock[x]
  BY Zenon, <1>1 DEF Types
<1>3. Types'
  BY Zenon, <1>1, <1>2 DEF Types
<1>4. ~(q.mode > 4) /\ q.mode < 4
  BY <1>1, LockPairs
<1>5. Control(p)'
  BY Zenon, <1>1, <1>2, <1>4 DEF Control, Asking, Lock
<1>6. Strong(p)'
  BY Zenon, <1>1, <1>2 DEF Control, Strong, Types, Lock
<1>7. \A l \in Locks : Owns(p, l)' => Owns(p, l)
  BY Zenon, <1>1, <1>2 DEF Owns, Lock
<1>8. Owned(p)'
  BY Zenon, <1>1, <1>7, LockPairs DEF Owned
<1>9. Frame(p)
  BY Zenon, <1>1, <1>2 DEF Frame, Kept
<1>10. StaysQueued(p)
  BY Zenon, <1>1 DEF ConflictInv, QueuesOK, StaysQueued
<1>11. TableExcludes'
  <2>1. \A r \in Rels, m \in Modes : Live(p, r, m)' => Live(p, r, m)
    BY Zenon, <1>1, <1>2, <1>7, LockPairs DEF Live
  <2>2. QED
    BY Zenon, <1>1, <1>9, <2>1, FrameTable
<1>12. FastExcluded'
  <2> SUFFICES ASSUME NEW x \in Procs, NEW y \in Procs, NEW r \in Rels, NEW s \in Modes,
                      <<r, s>> \in strongHeld[x]
               PROVE  \/ Transferring(x, y, r, s)'
                      \/ fpLocks[y][r] = {} /\ ~(pc'[y] = "fast_path" /\ req'[y].rel = r)
    BY <1>1 DEF FastExcluded
  <2>1. Transferring(x, y, r, s) => Transferring(x, y, r, s)'
    BY Zenon, <1>1, <1>2 DEF Transferring, Lock
  <2>2. Transferring(x, y, r, s) \/ (fpLocks[y][r] = {} /\ ~(pc[y] = "fast_path" /\ req[y].rel = r))
    BY DEF ConflictInv, FastExcluded
  <2>3. CASE y = p
    BY Zenon, <1>2, <2>1, <2>2, <2>3
  <2>4. CASE y # p
    BY Zenon, <1>2, <2>1, <2>2, <2>4
  <2>5. QED
    BY Zenon, <2>3, <2>4
<1>13. QED
  BY Zenon, <1>1, <1>3, <1>5, <1>6, <1>8, <1>9, <1>10, <1>11, <1>12, FrameStep DEF Local

(* The count is raised before any slot is looked at *)
LEMMA BeginStrongLockAcquireStep ==
    ASSUME ConflictInv, NEW p \in Procs, Types, Control(p), Strong(p), Owned(p),
           NEW q \in Requests, BeginStrongLockAcquire(p, q), setting' = setting
    PROVE  ConflictInv'
<1>1. PICK k \in Locks : k = <<q.rel, q.mode>>
  BY Zenon, LockPairs
<1>2. /\ pc[p] = "idle" /\ pc' = [pc EXCEPT ![p] = "transfer"] /\ req' = [req EXCEPT ![p] = q]
      /\ nLocks[p][k] = 0 /\ q.mode > 4
      /\ strongHeld' = [strongHeld EXCEPT ![p] = @ \cup {k}]
      /\ inProgress' = [inProgress EXCEPT ![p] = TRUE]
      /\ untransferred' = [untransferred EXCEPT ![p] = Procs]
      /\ LocalSame /\ SlotsSame /\ TableSame /\ WaitSame
  BY Zenon, <1>1 DEF BeginStrongLockAcquire, Ask, Goto, ConflictsWithRelationFastPath,
         ShareUpdateExclusiveLock, localLocks, fastPath, table, wakeup, timers, waiting
<1>3. /\ pc'[p] = "transfer" /\ req'[p] = q /\ Lock(p)' = k
      /\ strongHeld'[p] = strongHeld[p] \cup {k} /\ inProgress'[p] /\ untransferred'[p] = Procs
      /\ \A x \in Procs \ {p} : /\ pc'[x] = pc[x] /\ req'[x] = req[x]
                               /\ strongHeld'[x] = strongHeld[x] /\ inProgress'[x] = inProgress[x]
                               /\ untransferred'[x] = untransferred[x]
  BY Zenon, <1>1, <1>2 DEF Types, Lock
<1>4. Types'
  BY Zenon, <1>2 DEF Types
<1>5. Control(p)'
  BY Zenon, <1>1, <1>2, <1>3 DEF Control, Asking, Lock
<1>6. k[2] > 4
  BY Zenon, <1>1, <1>2
<1>7. Strong(p)'
  <2>1. \A l \in strongHeld[p] : l[2] > 4 /\ nLocks[p][l] > 0 /\ l \in inTable[p]
    BY <1>2 DEF Control, Strong, Types
  <2>2. \A l \in strongHeld'[p] : l = k \/ l \in strongHeld[p]
    BY Zenon, <1>3
  <2>3. QED
    BY <1>2, <1>3, <1>6, <2>1, <2>2 DEF Strong
<1>8. \A l \in Locks : Owns(p, l)' => Owns(p, l)
  BY Zenon, <1>2, <1>3 DEF Owns, Lock
<1>9. Owned(p)'
  BY Zenon, <1>2, <1>3, <1>8, LockPairs DEF Owned
<1>10. Frame(p)
  BY Zenon, <1>2, <1>3 DEF Frame, Kept
<1>11. StaysQueued(p)
  BY Zenon, <1>2 DEF ConflictInv, QueuesOK, StaysQueued
<1>12. TableExcludes'
  <2>1. \A r \in Rels, m \in Modes : Live(p, r, m)' => Live(p, r, m)
    BY Zenon, <1>2, <1>3, <1>8, LockPairs DEF Live
  <2>2. QED
    BY Zenon, <1>2, <1>10, <2>1, FrameTable
<1>13. FastExcluded'
  <2> SUFFICES ASSUME NEW x \in Procs, NEW y \in Procs, NEW r \in Rels, NEW s \in Modes,
                      <<r, s>> \in strongHeld'[x]
               PROVE  \/ Transferring(x, y, r, s)'
                      \/ fpLocks[y][r] = {} /\ ~(pc'[y] = "fast_path" /\ req'[y].rel = r)
    BY <1>2 DEF FastExcluded
  <2>1. CASE x = p /\ <<r, s>> = k
    BY Zenon, <1>3, <2>1 DEF Transferring
  <2>2. CASE ~(x = p /\ <<r, s>> = k)
    <3>1. <<r, s>> \in strongHeld[x]
      BY <1>3, <2>2
    <3>2. Transferring(x, y, r, s) \/ (fpLocks[y][r] = {} /\ ~(pc[y] = "fast_path" /\ req[y].rel = r))
      BY <3>1 DEF ConflictInv, FastExcluded
    <3>3. Transferring(x, y, r, s) => Transferring(x, y, r, s)'
      BY Zenon, <1>2, <1>3 DEF Transferring, Lock
    <3>4. pc'[y] = "fast_path" => pc[y] = "fast_path" /\ req'[y] = req[y]
      BY Zenon, <1>3
    <3>5. QED
      BY Zenon, <3>2, <3>3, <3>4
  <2>3. QED
    BY Zenon, <2>1, <2>2
<1>14. QED
  BY Zenon, <1>2, <1>4, <1>5, <1>7, <1>9, <1>10, <1>11, <1>12, <1>13, FrameStep DEF Local

(* The lock is entered into the slots: who has a strong lock has yet to look at them *)
LEMMA FastPathGrantRelationLockStep ==
    ASSUME ConflictInv, NEW p \in Procs, Types, Control(p), Strong(p), Owned(p),
           FastPathGrantRelationLock(p), setting' = setting
    PROVE  ConflictInv'
<1>1. pc[p] = "fast_path"
  BY Zenon DEF FastPathGrantRelationLock
<1>2. PICK k \in Locks : k = Lock(p)
  BY Zenon, <1>1, LockPairs DEF Control, Asking, Lock
<1>3. /\ req[p] \in Requests /\ req[p].rel \in Rels /\ req[p].mode \in Modes /\ req[p].mode < 4
      /\ ~(req[p].mode > 4) /\ k = <<req[p].rel, req[p].mode>> /\ nLocks[p][k] = 0
      /\ ~inProgress[p] /\ ~deadlockTimer[p]
  <2>1. req[p] \in Requests /\ req[p].mode < 4 /\ nLocks[p][k] = 0 /\ ~inProgress[p] /\ ~deadlockTimer[p]
    BY Zenon, <1>1, <1>2 DEF Control, Asking
  <2>2. req[p].rel \in Rels /\ req[p].mode \in Modes /\ k = <<req[p].rel, req[p].mode>>
    BY Zenon, <1>2, <2>1 DEF Requests, Lock
  <2>3. ~(req[p].mode > 4)
    BY <2>1, <2>2, LockPairs
  <2>4. QED
    BY Zenon, <2>1, <2>2, <2>3
<1>4. /\ backendLock' = [backendLock EXCEPT ![p] = Nobody]
      /\ \/ /\ pc' = [pc EXCEPT ![p] = "table"] /\ req' = req /\ LocalSame /\ fpLocks' = fpLocks
         \/ /\ fpLocks' = [fpLocks EXCEPT ![p][req[p].rel] = @ \cup {req[p].mode}]
            /\ nLocks' = [nLocks EXCEPT ![p][k] = 1]
            /\ inTable' = [inTable EXCEPT ![p] = @ \ {k}]
            /\ pc' = [pc EXCEPT ![p] = "idle"] /\ req' = [req EXCEPT ![p] = NoRequest]
      /\ StrongSame /\ TableSame /\ WaitSame
  BY Zenon, <1>2 DEF FastPathGrantRelationLock, Return, Goto, strong, table, wakeup, timers, waiting
<1>5. CASE pc' = [pc EXCEPT ![p] = "table"] /\ req' = req /\ LocalSame /\ fpLocks' = fpLocks
  <2>1. /\ DOMAIN pc' = Procs /\ DOMAIN backendLock' = Procs /\ pc'[p] = "table"
        /\ \A x \in Procs \ {p} : pc'[x] = pc[x] /\ backendLock'[x] = backendLock[x]
    BY Zenon, <1>4, <1>5 DEF Types
  <2>2. Types'
    <3>1. StrongSame /\ TableSame /\ WaitSame
      BY Zenon, <1>4
    <3>2. QED
      BY Zenon, <1>5, <2>1, <3>1 DEF Types
  <2>3. \A l \in Locks : Owns(p, l)' => Owns(p, l)
    BY Zenon, <1>1, <1>5, <2>1 DEF Owns, Lock
  <2>4. Control(p)'
    BY Zenon, <1>1, <1>2, <1>3, <1>4, <1>5, <2>1 DEF Control, Asking, Lock
  <2>5. Strong(p)'
    BY Zenon, <1>1, <1>3, <1>4, <1>5, <2>1 DEF Strong, Lock
  <2>6. Owned(p)'
    BY Zenon, <1>4, <1>5, <2>3, LockPairs DEF Owned
  <2>7. StaysQueued(p)
    BY Zenon, <1>1 DEF ConflictInv, QueuesOK, StaysQueued
  <2>8. Quiet(p)
    BY Zenon, <1>1, <1>4, <1>5, <2>1, <2>3, <2>7 DEF Quiet, Frame, Kept
  <2>9. QED
    BY Zenon, <2>2, <2>4, <2>5, <2>6, <2>8, QuietStep DEF Local
<1>6. CASE /\ fpLocks' = [fpLocks EXCEPT ![p][req[p].rel] = @ \cup {req[p].mode}]
           /\ nLocks' = [nLocks EXCEPT ![p][k] = 1]
           /\ inTable' = [inTable EXCEPT ![p] = @ \ {k}]
           /\ pc' = [pc EXCEPT ![p] = "idle"] /\ req' = [req EXCEPT ![p] = NoRequest]
  <2>1. fpLocks' \in [Procs -> [Rels -> SUBSET Modes]] /\ nLocks' \in [Procs -> [Locks -> Nat]]
    BY ZenonT(60), <1>3, <1>6 DEF Types
  <2>2. /\ pc'[p] = "idle" /\ nLocks'[p][k] = 1 /\ inTable'[p] = inTable[p] \ {k}
        /\ fpLocks'[p][req[p].rel] = fpLocks[p][req[p].rel] \cup {req[p].mode}
        /\ \A r \in Rels \ {req[p].rel} : fpLocks'[p][r] = fpLocks[p][r]
        /\ \A l \in Locks \ {k} : nLocks'[p][l] = nLocks[p][l]
        /\ \A x \in Procs \ {p} : /\ pc'[x] = pc[x] /\ req'[x] = req[x] /\ nLocks'[x] = nLocks[x]
                                 /\ inTable'[x] = inTable[x] /\ fpLocks'[x] = fpLocks[x]
                                 /\ backendLock'[x] = backendLock[x]
    BY <1>3, <1>4, <1>6 DEF Types
  <2>3. Types'
    BY Zenon, <1>4, <1>6, <2>1 DEF Types
  <2>4. Control(p)'
    BY Zenon, <1>3, <1>4, <2>2 DEF Control, Asking
  <2>5. Strong(p)'
    <3>1. k \notin strongHeld[p]
      BY Zenon, <1>1, <1>3 DEF Strong
    <3>2. QED
      BY <1>1, <1>3, <1>4, <2>2, <3>1 DEF Strong, Types
  <2>6. Owned(p)'
    <3>1. \A l \in Locks : Owns(p, l)' => Owns(p, l) \/ l = k
      BY Zenon, <1>1, <2>2 DEF Owns
    <3>2. \A r \in Rels : fpLocks[p][r] \subseteq fpLocks'[p][r]
      BY Zenon, <2>2
    <3>3. \A r \in Rels : \A m \in fpLocks'[p][r] : m < 4
      BY <1>3, <2>2 DEF Owned
    <3>4. \A r \in Rels, m \in Modes : <<r, m>> = k => m \in fpLocks'[p][r] /\ ~(m > 4)
      BY Zenon, <1>3, <2>2
    <3>5. QED
      BY Zenon, <1>4, <3>1, <3>2, <3>3, <3>4, LockPairs DEF Owned
  <2>7. Frame(p)
    BY Zenon, <1>4, <2>2 DEF Frame, Kept
  <2>8. StaysQueued(p)
    BY Zenon, <1>1 DEF ConflictInv, QueuesOK, StaysQueued
  <2>9. TableExcludes'
    <3>1. \A x \in Procs, r \in Rels, m \in Modes :
             Live(x, r, m)' => Live(x, r, m) \/ (x = p /\ <<r, m>> = k)
      BY <1>1, <1>4, <2>2, LockPairs DEF Live, Owns, Lock
    <3>2. \A x \in Procs, n \in Modes : Live(x, req[p].rel, n) => ~(n > 4)
      BY Zenon, <1>1, <1>3, LiveExcludesFast
    <3>3. \A n \in Modes : ~(n > 4) => n \notin LockConflicts[req[p].mode] /\ req[p].mode \notin LockConflicts[n]
      BY Zenon, <1>3, WeakConflicts, ConflictsSymmetric, LockConstants
    <3>4. QED
      BY <1>3, <3>1, <3>2, <3>3 DEF ConflictInv, TableExcludes
  <2>10. FastExcluded'
    <3> SUFFICES ASSUME NEW x \in Procs, NEW y \in Procs, NEW r \in Rels, NEW s \in Modes,
                        <<r, s>> \in strongHeld[x]
                 PROVE  \/ Transferring(x, y, r, s)'
                        \/ fpLocks'[y][r] = {} /\ ~(pc'[y] = "fast_path" /\ req'[y].rel = r)
      BY <1>4 DEF FastExcluded
    <3>1. Transferring(x, y, r, s) \/ (fpLocks[y][r] = {} /\ ~(pc[y] = "fast_path" /\ req[y].rel = r))
      BY DEF ConflictInv, FastExcluded
    <3>2. Transferring(x, y, r, s) => Transferring(x, y, r, s)'
      BY Zenon, <1>1, <1>4, <2>2 DEF Transferring, Lock
    <3>3. CASE y = p
      BY Zenon, <1>1, <2>2, <3>1, <3>2, <3>3
    <3>4. CASE y # p
      BY Zenon, <2>2, <3>1, <3>2, <3>4
    <3>5. QED
      BY Zenon, <3>3, <3>4
  <2>11. QED
    BY Zenon, <1>4, <2>3, <2>4, <2>5, <2>6, <2>7, <2>8, <2>9, <2>10, FrameStep DEF Local
<1>7. QED
  BY Zenon, <1>4, <1>5, <1>6

(* A lock that conflicts with none another backend holds is granted *)
LEMMA GrantInTableStep ==
    ASSUME ConflictInv, NEW p \in Procs, Types, Control(p), Strong(p), Owned(p),
           pc[p] = "table", ~LockCheckConflicts(hold[req[p].rel], p, req[p].mode),
           GrantInTable(p), setting' = setting
    PROVE  ConflictInv'
<1>1. PICK r \in Rels, m \in Modes : r = req[p].rel /\ m = req[p].mode /\ <<r, m>> = Lock(p)
  <2>1. req[p] \in Requests
    BY Zenon DEF Control, Asking
  <2>2. QED
    BY Zenon, <2>1 DEF Requests, Lock
<1>2. PICK k \in Locks : k = <<r, m>> /\ k = Lock(p)
  BY Zenon, <1>1, LockPairs
<1>3. /\ hold' = [hold EXCEPT ![r] = [hold[r] EXCEPT ![p] = @ \cup {m}]]
      /\ nLocks' = [nLocks EXCEPT ![p][k] = 1] /\ inTable' = [inTable EXCEPT ![p] = @ \cup {k}]
      /\ inProgress' = [inProgress EXCEPT ![p] = FALSE]
      /\ pc' = [pc EXCEPT ![p] = "idle"] /\ req' = [req EXCEPT ![p] = NoRequest]
      /\ strongHeld' = strongHeld /\ untransferred' = untransferred /\ SlotsSame
      /\ queue' = queue /\ WaitSame
  BY Zenon, <1>1, <1>2 DEF GrantInTable, Return, Goto, fastPath, wakeup, timers, waiting
<1>4. hold' \in [Rels -> [Procs -> SUBSET Modes]] /\ nLocks' \in [Procs -> [Locks -> Nat]]
  BY Zenon, <1>3 DEF Types
<1>5. /\ pc'[p] = "idle" /\ nLocks'[p][k] = 1 /\ inTable'[p] = inTable[p] \cup {k} /\ ~inProgress'[p]
      /\ \A l \in Locks \ {k} : nLocks'[p][l] = nLocks[p][l]
      /\ \A x \in Procs \ {p} : /\ pc'[x] = pc[x] /\ req'[x] = req[x] /\ nLocks'[x] = nLocks[x]
                               /\ inTable'[x] = inTable[x] /\ inProgress'[x] = inProgress[x]
  BY Zenon, <1>3 DEF Types
<1>6. /\ hold'[r][p] = hold[r][p] \cup {m}
      /\ \A s \in Rels, x \in Procs : s # r \/ x # p => hold'[s][x] = hold[s][x]
  BY Zenon, <1>3 DEF Types
<1>7. Types'
  BY Zenon, <1>3, <1>4 DEF Types
<1>8. nLocks[p][k] = 0 /\ ~deadlockTimer[p] /\ (m > 4 => k \in strongHeld[p])
  BY Zenon, <1>1, <1>2 DEF Control, Asking
<1>9. Control(p)'
  BY Zenon, <1>3, <1>5, <1>8 DEF Control, Asking
<1>10. Strong(p)'
  BY <1>2, <1>3, <1>5, <1>8 DEF Strong, Types
<1>11. \A l \in Locks : Owns(p, l)' => Owns(p, l) \/ l = k
  BY Zenon, <1>5 DEF Owns
<1>12. \A s \in Rels, x \in Procs : hold[s][x] \subseteq hold'[s][x]
  BY Zenon, <1>6
<1>13. Owned(p)'
  <2>1. \A s \in Rels, n \in Modes : <<s, n>> = k => n \in hold'[s][p] /\ (n > 4 => <<s, n>> \in strongHeld'[p])
    BY <1>2, <1>3, <1>6, <1>8
  <2>2. QED
    BY Zenon, <1>3, <1>11, <1>12, <2>1, LockPairs DEF Owned
<1>14. \A x \in Procs : Local(x)'
  <2> SUFFICES ASSUME NEW x \in Procs, x # p PROVE Local(x)'
    BY Zenon, <1>9, <1>10, <1>13 DEF Local
  <2>1. Local(x) /\ Kept(x)
    BY Zenon, <1>3, <1>5 DEF ConflictInv, Kept
  <2>2. QED
    BY Zenon, <1>3, <1>7, <1>12, <2>1, LocalKept
<1>15. QueuesOK(queue)'
  <2>1. Frame(p)
    BY Zenon, <1>3, <1>5 DEF Frame, Kept
  <2>2. StaysQueued(p)
    BY Zenon DEF ConflictInv, QueuesOK, StaysQueued
  <2>3. QED
    BY Zenon, <1>3, <2>1, <2>2, FrameQueues
<1>16. FastExcluded'
  BY Zenon, <1>3, <1>5, FastKept DEF ConflictInv
<1>17. TableExcludes'
  <2>1. \A x \in Procs, s \in Rels, n \in Modes :
           Live(x, s, n)' => Live(x, s, n) \/ (x = p /\ s = r /\ n = m)
    <3> SUFFICES ASSUME NEW x \in Procs, NEW s \in Rels, NEW n \in Modes, Live(x, s, n)',
                        ~(x = p /\ s = r /\ n = m)
                 PROVE  Live(x, s, n)
      BY Zenon
    <3>1. n \in hold[s][x]
      BY <1>6 DEF Live
    <3>2. CASE x = p
      BY <1>2, <1>5, <1>11, <3>1, <3>2, LockPairs DEF Live
    <3>3. CASE x # p
      BY Zenon, <1>3, <1>5, <3>1, <3>3 DEF Live, Owns, Lock
    <3>4. QED
      BY Zenon, <3>2, <3>3
  <2>2. \A x \in Procs \ {p}, n \in Modes :
           Live(x, r, n) => n \notin LockConflicts[m] /\ m \notin LockConflicts[n]
    <3>1. \A x \in Procs \ {p}, n \in Modes : Live(x, r, n) => n \notin LockConflicts[m]
      BY Zenon, <1>1 DEF LockCheckConflicts, Live
    <3>2. \A n \in Modes : n \notin LockConflicts[m] => m \notin LockConflicts[n]
      BY Zenon, ConflictsSymmetric, LockConstants
    <3>3. QED
      BY Zenon, <3>1, <3>2
  <2>3. QED
    BY <2>1, <2>2 DEF ConflictInv, TableExcludes
<1>18. QED
  BY Zenon, <1>7, <1>14, <1>15, <1>16, <1>17 DEF ConflictInv

(* LockAcquire finds no conflict, or ProcSleep does not sleep *)
LEMMA GrantStep ==
    ASSUME ConflictInv, NEW p \in Procs, Types, Control(p), Strong(p), Owned(p),
           Grant(p) \/ GrantWithoutSleep(p), setting' = setting
    PROVE  ConflictInv'
<1>1. /\ pc[p] = "table" /\ GrantInTable(p)
      /\ ~LockCheckConflicts(hold[req[p].rel], p, req[p].mode)
  BY Zenon DEF Grant, GrantWithoutSleep, MustWait, Sleeps, SkipsTheWait
<1>2. QED
  BY Zenon, <1>1, GrantInTableStep

(* The locks ms of the slots of x are moved to the table by p: nothing that is live *)
(* there conflicts with them.                                                       *)
LEMMA MoveToTableKeeps ==
    ASSUME ConflictInv, NEW p \in Procs, NEW x \in Procs, NEW ms, Types,
           pc[p] = "transfer", req[p].rel \in Rels, ms \subseteq fpLocks[x][req[p].rel],
           MoveToTable(p, x, ms)
    PROVE  /\ hold' \in [Rels -> [Procs -> SUBSET Modes]]
           /\ fpLocks' \in [Procs -> [Rels -> SUBSET Modes]]
           /\ pc[x] # "fast_path" /\ x \in untransferred[p]
           /\ fpLocks'[x][req[p].rel] = fpLocks[x][req[p].rel] \ ms
           /\ \A y \in Procs, r \in Rels :
                /\ fpLocks'[y][r] \subseteq fpLocks[y][r]
                /\ fpLocks[y][r] \subseteq fpLocks'[y][r] \cup hold'[r][y]
                /\ hold[r][y] \subseteq hold'[r][y]
           /\ \A y \in Procs, r \in Rels, m \in Modes :
                m \in hold'[r][y] => m \in hold[r][y] \/ m \in fpLocks[y][r]
           /\ LocalSame /\ queue' = queue /\ WaitSame
<1> DEFINE r0 == req[p].rel
<1>1. /\ fpLocks' = [fpLocks EXCEPT ![x][r0] = @ \ ms] /\ backendLock[x] = Nobody
      /\ hold' = [hold EXCEPT ![r0] = [hold[r0] EXCEPT ![x] = @ \cup ms]]
      /\ x \in untransferred[p] /\ LocalSame /\ queue' = queue /\ WaitSame
  BY Zenon DEF MoveToTable, localLocks, wakeup, timers, waiting
<1>2. r0 \in Rels /\ ms \subseteq fpLocks[x][r0]
  BY Zenon
<1> HIDE DEF r0
<1>3. hold' \in [Rels -> [Procs -> SUBSET Modes]] /\ fpLocks' \in [Procs -> [Rels -> SUBSET Modes]]
  BY <1>1, <1>2 DEF Types
<1>4. /\ fpLocks'[x][r0] = fpLocks[x][r0] \ ms /\ hold'[r0][x] = hold[r0][x] \cup ms
      /\ \A y \in Procs, r \in Rels : y # x \/ r # r0 =>
            fpLocks'[y][r] = fpLocks[y][r] /\ hold'[r][y] = hold[r][y]
  BY Zenon, <1>1, <1>2 DEF Types
<1>5. pc[x] # "fast_path"
  <2>1. Control(x)
    BY Zenon DEF ConflictInv, Local
  <2>2. QED
    BY Zenon, <1>1, <2>1, LockConstants DEF Control
<1>6. \A y \in Procs, r \in Rels :
         /\ fpLocks'[y][r] \subseteq fpLocks[y][r]
         /\ fpLocks[y][r] \subseteq fpLocks'[y][r] \cup hold'[r][y]
         /\ hold[r][y] \subseteq hold'[r][y]
  <2> SUFFICES ASSUME NEW y \in Procs, NEW r \in Rels
               PROVE  /\ fpLocks'[y][r] \subseteq fpLocks[y][r]
                      /\ fpLocks[y][r] \subseteq fpLocks'[y][r] \cup hold'[r][y]
                      /\ hold[r][y] \subseteq hold'[r][y]
    BY Zenon
  <2>1. CASE y = x /\ r = r0
    BY Zenon, <1>4, <2>1
  <2>2. CASE y # x \/ r # r0
    BY Zenon, <1>4, <2>2
  <2>3. QED
    BY Zenon, <2>1, <2>2
<1>7. \A y \in Procs, r \in Rels, m \in Modes :
         m \in hold'[r][y] => m \in hold[r][y] \/ m \in fpLocks[y][r]
  BY Zenon, <1>2, <1>4
<1>8. QED
  BY Zenon, <1>1, <1>3, <1>4, <1>5, <1>6, <1>7 DEF r0

(* What is moved from the slots to the table conflicts with nothing there *)
LEMMA MovedExcludes ==
    ASSUME ConflictInv, NEW p \in Procs,
           \A y \in Procs, r \in Rels, m \in Modes :
              m \in hold'[r][y] => m \in hold[r][y] \/ m \in fpLocks[y][r],
           \A y \in Procs \ {p} : Kept(y) /\ waitStatus'[y] = waitStatus[y],
           \A l \in Locks : Owns(p, l)' => Owns(p, l),
           pc'[p] \notin {"sleep", "woken"}
    PROVE  TableExcludes'
<1>1. \A y \in Procs, r \in Rels, m \in Modes : Live(y, r, m)' => Live(y, r, m) \/ m \in fpLocks[y][r]
  <2> SUFFICES ASSUME NEW y \in Procs, NEW r \in Rels, NEW m \in Modes, Live(y, r, m)', m \in hold[r][y]
               PROVE  Live(y, r, m)
    BY Zenon DEF Live
  <2>1. CASE y = p
    BY Zenon, <2>1, LockPairs DEF Live
  <2>2. CASE y # p
    BY Zenon, <2>2 DEF Live, Owns, Lock, Kept
  <2>3. QED
    BY Zenon, <2>1, <2>2
<1>2. \A y \in Procs, r \in Rels, m \in Modes : m \in fpLocks[y][r] => m < 4
  BY Zenon DEF ConflictInv, Local, Owned
<1>3. ASSUME NEW y \in Procs, NEW z \in Procs, NEW r \in Rels, NEW m \in Modes, NEW n \in Modes,
             m \in fpLocks[y][r], Live(z, r, n) \/ n \in fpLocks[z][r]
      PROVE  n \notin LockConflicts[m] /\ m \notin LockConflicts[n]
  <2>1. m < 4
    BY Zenon, <1>2, <1>3
  <2>2. ~(n > 4)
    <3>1. CASE Live(z, r, n)
      BY Zenon, <1>3, <3>1, LiveExcludesFast
    <3>2. CASE n \in fpLocks[z][r]
      BY <1>2, <3>2, LockConstants
    <3>3. QED
      BY Zenon, <1>3, <3>1, <3>2
  <2>3. QED
    BY Zenon, <2>1, <2>2, WeakConflicts, ConflictsSymmetric, LockConstants
<1>4. QED
  BY <1>1, <1>3 DEF ConflictInv, TableExcludes

(* The locks of one more backend are moved *)
LEMMA FastPathTransferRelationLocksStep ==
    ASSUME ConflictInv, NEW p \in Procs, Types, Control(p), Strong(p), Owned(p),
           NEW x \in Procs, FastPathTransferRelationLocks(p, x), setting' = setting
    PROVE  ConflictInv'
<1>0. PICK ms \in SUBSET fpLocks[x][req[p].rel] : ms = fpLocks[x][req[p].rel]
  BY Zenon
<1>1. /\ pc[p] = "transfer" /\ MoveToTable(p, x, ms)
      /\ untransferred' = [untransferred EXCEPT ![p] = @ \ {x}]
      /\ pc' = [pc EXCEPT ![p] = IF untransferred[p] = {x} THEN "table" ELSE "transfer"]
      /\ req' = req /\ strongHeld' = strongHeld /\ inProgress' = inProgress /\ backendLock' = backendLock
  BY Zenon, <1>0 DEF FastPathTransferRelationLocks, Goto
<1>2. req[p].rel \in Rels
  BY Zenon, <1>1 DEF Control, Asking, Requests
<1>3. /\ hold' \in [Rels -> [Procs -> SUBSET Modes]]
      /\ fpLocks' \in [Procs -> [Rels -> SUBSET Modes]]
      /\ pc[x] # "fast_path"
      /\ fpLocks'[x][req[p].rel] = {}
      /\ \A y \in Procs, r \in Rels :
           /\ fpLocks'[y][r] \subseteq fpLocks[y][r]
           /\ fpLocks[y][r] \subseteq fpLocks'[y][r] \cup hold'[r][y]
           /\ hold[r][y] \subseteq hold'[r][y]
      /\ \A y \in Procs, r \in Rels, m \in Modes :
           m \in hold'[r][y] => m \in hold[r][y] \/ m \in fpLocks[y][r]
      /\ LocalSame /\ queue' = queue /\ WaitSame
  <2>1. ms \subseteq fpLocks[x][req[p].rel] /\ fpLocks[x][req[p].rel] \ ms = {}
    BY Zenon, <1>0
  <2>2. QED
    BY Zenon, <1>1, <1>2, <2>1, MoveToTableKeeps
<1>4. /\ pc'[p] = IF untransferred[p] = {x} THEN "table" ELSE "transfer"
      /\ untransferred'[p] = untransferred[p] \ {x}
      /\ \A y \in Procs \ {p} : pc'[y] = pc[y] /\ untransferred'[y] = untransferred[y]
  BY Zenon, <1>1 DEF Types
<1>5. Types'
  BY Zenon, <1>1, <1>3 DEF Types
<1>6. \A y \in Procs \ {p} : Kept(y) /\ waitStatus'[y] = waitStatus[y]
  BY Zenon, <1>1, <1>3, <1>4 DEF Kept
<1>7. \A l \in Locks : Owns(p, l)' => Owns(p, l)
  <2>1. pc[p] = "transfer" /\ req' = req /\ nLocks' = nLocks
    BY Zenon, <1>1, <1>3
  <2>2. QED
    BY Zenon, <2>1 DEF Owns, Lock
<1>8. Control(p)'
  <2>1. /\ pc[p] = "transfer" /\ pc'[p] \in {"table", "transfer"} /\ req' = req /\ nLocks' = nLocks
        /\ strongHeld' = strongHeld /\ inProgress' = inProgress /\ deadlockTimer' = deadlockTimer
    BY Zenon, <1>1, <1>3, <1>4
  <2>2. QED
    BY Zenon, <2>1 DEF Control, Asking, Lock
<1>9. Strong(p)'
  BY Zenon, <1>1, <1>3, <1>4 DEF Strong, Lock
<1>10. Owned(p)'
  BY Zenon, <1>1, <1>3, <1>7, LockPairs DEF Owned
<1>11. \A y \in Procs : Local(y)'
  <2> SUFFICES ASSUME NEW y \in Procs, y # p PROVE Local(y)'
    BY Zenon, <1>8, <1>9, <1>10 DEF Local
  <2>1. Local(y)
    BY Zenon DEF ConflictInv
  <2>2. QED
    BY Zenon, <1>1, <1>3, <1>5, <1>6, <2>1, LocalKept
<1>12. QueuesOK(queue)'
  <2>1. StaysQueued(p)
    BY Zenon, <1>1 DEF ConflictInv, QueuesOK, StaysQueued
  <2>2. QED
    BY Zenon, <1>3, <1>6, <2>1, QueuesKept
<1>13. TableExcludes'
  BY Zenon, <1>3, <1>4, <1>6, <1>7, MovedExcludes
<1>14. FastExcluded'
  <2> SUFFICES ASSUME NEW z \in Procs, NEW y \in Procs, NEW r \in Rels, NEW s \in Modes,
                      <<r, s>> \in strongHeld[z]
               PROVE  \/ Transferring(z, y, r, s)'
                      \/ fpLocks'[y][r] = {} /\ ~(pc'[y] = "fast_path" /\ req'[y].rel = r)
    BY <1>1 DEF FastExcluded
  <2>1. Transferring(z, y, r, s) \/ (fpLocks[y][r] = {} /\ ~(pc[y] = "fast_path" /\ req[y].rel = r))
    BY DEF ConflictInv, FastExcluded
  <2>2. pc'[y] = "fast_path" => pc[y] = "fast_path"
    BY Zenon, <1>4
  <2>3. CASE ~Transferring(z, y, r, s)
    BY Zenon, <1>1, <1>3, <2>1, <2>2, <2>3
  <2>4. CASE Transferring(z, y, r, s) /\ z = p /\ y = x
    <3>1. req[p].rel = r
      BY Zenon, <2>4 DEF Transferring, Lock
    <3>2. QED
      BY Zenon, <1>3, <2>2, <2>4, <3>1
  <2>5. CASE Transferring(z, y, r, s) /\ ~(z = p /\ y = x)
    <3>1. req' = req /\ pc[z] = "transfer" /\ y \in untransferred[z] /\ Lock(z) = <<r, s>>
      BY Zenon, <1>1, <2>5 DEF Transferring
    <3>2. pc'[z] = "transfer" /\ y \in untransferred'[z]
      BY Zenon, <1>4, <2>5, <3>1
    <3>3. QED
      BY Zenon, <3>1, <3>2 DEF Transferring, Lock
  <2>6. QED
    BY Zenon, <2>3, <2>4, <2>5
<1>15. QED
  BY Zenon, <1>5, <1>11, <1>12, <1>13, <1>14 DEF ConflictInv

(* A transfer that fails half-way gives up the strong lock *)
LEMMA TransferFailsStep ==
    ASSUME ConflictInv, NEW p \in Procs, Types, Control(p), Strong(p), Owned(p),
           NEW x \in Procs, NEW k, TransferFails(p, x, k), setting' = setting
    PROVE  ConflictInv'
<1> DEFINE ms == {m \in fpLocks[x][req[p].rel] : m < k}
<1>1. /\ pc[p] = "transfer" /\ MoveToTable(p, x, ms) /\ AbortStrongLockAcquire(p)
      /\ backendLock' = [backendLock EXCEPT ![x] = p]
      /\ pc' = [pc EXCEPT ![p] = "error"] /\ req' = req
  BY Zenon DEF TransferFails, OutOfSharedMemory, Goto
<1>2. /\ req[p] \in Requests /\ req[p].rel \in Rels /\ Lock(p) \in Locks /\ nLocks[p][Lock(p)] = 0
      /\ ~deadlockTimer[p]
  BY Zenon, <1>1, LockPairs DEF Control, Asking, Requests, Lock
<1>3. /\ hold' \in [Rels -> [Procs -> SUBSET Modes]]
      /\ fpLocks' \in [Procs -> [Rels -> SUBSET Modes]]
      /\ pc[x] # "fast_path"
      /\ \A y \in Procs, r \in Rels :
           /\ fpLocks'[y][r] \subseteq fpLocks[y][r]
           /\ fpLocks[y][r] \subseteq fpLocks'[y][r] \cup hold'[r][y]
           /\ hold[r][y] \subseteq hold'[r][y]
      /\ \A y \in Procs, r \in Rels, m \in Modes :
           m \in hold'[r][y] => m \in hold[r][y] \/ m \in fpLocks[y][r]
      /\ LocalSame /\ queue' = queue /\ WaitSame
  <2>1. ms \subseteq fpLocks[x][req[p].rel]
    BY Zenon
  <2>2. QED
    BY Zenon, <1>1, <1>2, <2>1, MoveToTableKeeps
<1>4. /\ strongHeld' \in [Procs -> SUBSET Locks]
      /\ DOMAIN inProgress' = Procs /\ DOMAIN untransferred' = Procs
      /\ \A y \in Procs \ {p} : /\ strongHeld'[y] = strongHeld[y]
                               /\ inProgress'[y] = inProgress[y]
                               /\ untransferred'[y] = untransferred[y]
      /\ strongHeld'[p] = IF inProgress[p] THEN strongHeld[p] \ {Lock(p)} ELSE strongHeld[p]
      /\ inProgress'[p] = FALSE
  BY Zenon, <1>1, StrongAborted
<1>5. /\ pc'[p] = "error" /\ DOMAIN backendLock' = Procs
      /\ \A y \in Procs \ {p} : pc'[y] = pc[y]
      /\ \A y \in Procs \ {x} : backendLock'[y] = backendLock[y]
  BY Zenon, <1>1 DEF Types
<1>6. Types'
  BY Zenon, <1>1, <1>3, <1>4, <1>5 DEF Types
<1>7. \A y \in Procs \ {p} : Kept(y) /\ waitStatus'[y] = waitStatus[y]
  BY Zenon, <1>1, <1>3, <1>4, <1>5 DEF Kept
<1>8. \A l \in Locks : Owns(p, l)' => Owns(p, l) /\ l # Lock(p)
  <2>1. \A l \in Locks : Owns(p, l)' => Owns(p, l)
    BY Zenon, <1>1, <1>3, <1>5 DEF Owns
  <2>2. ~Owns(p, Lock(p))
    BY <1>2 DEF Owns
  <2>3. QED
    BY Zenon, <2>1, <2>2
<1>9. Control(p)'
  BY Zenon, <1>1, <1>2, <1>3, <1>4, <1>5 DEF Control, Asking, Lock
<1>10. Strong(p)' /\ strongHeld'[p] \subseteq strongHeld[p] \ {Lock(p)}
  <2>1. inProgress[p]
    BY Zenon, <1>1, <1>2, LockPairs DEF Control, Strong, Lock, Requests
  <2>2. \A l \in strongHeld[p] \ {Lock(p)} : l[2] > 4 /\ nLocks[p][l] > 0 /\ l \in inTable[p]
    BY DEF Strong, Types
  <2>3. QED
    BY Zenon, <1>3, <1>4, <2>1, <2>2 DEF Strong
<1>11. Owned(p)'
  <2>1. \A r \in Rels : \A m \in fpLocks'[p][r] : m < 4
    BY Zenon, <1>3 DEF Owned
  <2>2. ASSUME NEW r \in Rels, NEW m \in Modes, Owns(p, <<r, m>>)'
        PROVE  /\ m \in fpLocks'[p][r] \/ m \in hold'[r][p]
               /\ m > 4 => <<r, m>> \in strongHeld'[p]
    <3>1. Owns(p, <<r, m>>) /\ <<r, m>> # Lock(p)
      BY Zenon, <1>8, <2>2, LockPairs
    <3>2. QED
      BY Zenon, <1>3, <1>4, <3>1 DEF Owned
  <2>3. QED
    BY Zenon, <2>1, <2>2 DEF Owned
<1>12. \A y \in Procs : Local(y)'
  <2> SUFFICES ASSUME NEW y \in Procs, y # p PROVE Local(y)'
    BY Zenon, <1>9, <1>10, <1>11 DEF Local
  <2>1. Local(y) /\ (backendLock'[y] = backendLock[y] \/ pc[y] # "fast_path")
    BY Zenon, <1>3, <1>5 DEF ConflictInv
  <2>2. QED
    BY Zenon, <1>1, <1>3, <1>6, <1>7, <2>1, LocalKept
<1>13. QueuesOK(queue)'
  <2>1. StaysQueued(p)
    BY Zenon, <1>1 DEF ConflictInv, QueuesOK, StaysQueued
  <2>2. QED
    BY Zenon, <1>3, <1>7, <2>1, QueuesKept
<1>14. TableExcludes'
  BY Zenon, <1>3, <1>5, <1>7, <1>8, MovedExcludes
<1>15. FastExcluded'
  <2> SUFFICES ASSUME NEW z \in Procs, NEW y \in Procs, NEW r \in Rels, NEW s \in Modes,
                      <<r, s>> \in strongHeld'[z]
               PROVE  \/ Transferring(z, y, r, s)'
                      \/ fpLocks'[y][r] = {} /\ ~(pc'[y] = "fast_path" /\ req'[y].rel = r)
    BY Zenon DEF FastExcluded
  <2>1. <<r, s>> \in strongHeld[z] /\ (z = p => <<r, s>> # Lock(p))
    BY Zenon, <1>4, <1>10
  <2>2. Transferring(z, y, r, s) \/ (fpLocks[y][r] = {} /\ ~(pc[y] = "fast_path" /\ req[y].rel = r))
    BY <2>1 DEF ConflictInv, FastExcluded
  <2>3. Transferring(z, y, r, s) => Transferring(z, y, r, s)'
    BY Zenon, <1>1, <1>4, <1>5, <2>1 DEF Transferring, Lock
  <2>4. pc'[y] = "fast_path" => pc[y] = "fast_path"
    BY Zenon, <1>5
  <2>5. QED
    BY Zenon, <1>1, <1>3, <2>2, <2>3, <2>4
<1>16. QED
  BY Zenon, <1>6, <1>12, <1>13, <1>14, <1>15 DEF ConflictInv

(* A backend that joins the queue puts itself between those it goes behind and the rest *)
LEMMA JoinWaitQueueStep ==
    ASSUME ConflictInv, NEW p \in Procs, Types, Control(p), Strong(p), Owned(p),
           JoinWaitQueue(p), setting' = setting
    PROVE  ConflictInv'
<1>1. pc[p] = "table"
  BY Zenon DEF JoinWaitQueue, Sleeps
<1>2. req[p] \in Requests /\ req[p].rel \in Rels /\ Lock(p) \in Locks
  BY Zenon, <1>1, LockPairs DEF Control, Asking, Requests, Lock
<1>3. PICK r \in Rels, k \in Locks : r = req[p].rel /\ k = Lock(p)
  BY Zenon, <1>2
<1>4. /\ queue' = [queue EXCEPT ![r] = @ \cup {<<x, p>> : x \in InFront(p) \cup {p}}
                                      \cup {<<p, x>> : x \in Members(queue[r]) \ InFront(p)}]
      /\ inTable' = [inTable EXCEPT ![p] = @ \cup {k}] /\ nLocks' = nLocks
      /\ waitStatus' = [waitStatus EXCEPT ![p] = "waiting"]
      /\ lockAwaited' = [lockAwaited EXCEPT ![p] = TRUE]
      /\ deadlockTimer' = [deadlockTimer EXCEPT ![p] = TRUE]
      /\ pc' = [pc EXCEPT ![p] = "sleep"] /\ req' = req
      /\ StrongSame /\ SlotsSame /\ hold' = hold
  BY Zenon, <1>3 DEF JoinWaitQueue, Goto, strong, fastPath
<1>5. /\ pc'[p] = "sleep" /\ inTable'[p] = inTable[p] \cup {k} /\ waitStatus'[p] = "waiting"
      /\ lockAwaited'[p]
      /\ \A x \in Procs \ {p} : /\ pc'[x] = pc[x] /\ inTable'[x] = inTable[x]
                               /\ waitStatus'[x] = waitStatus[x] /\ lockAwaited'[x] = lockAwaited[x]
                               /\ deadlockTimer'[x] = deadlockTimer[x]
  BY Zenon, <1>4 DEF Types
<1>6. Types'
  BY Zenon, <1>4 DEF Types
<1>7. \A l \in Locks : Owns(p, l)' => Owns(p, l)
  BY Zenon, <1>1, <1>4, <1>5 DEF Owns
<1>8. Control(p)'
  BY Zenon, <1>1, <1>2, <1>3, <1>4, <1>5 DEF Control, Asking, Lock
<1>9. Strong(p)'
  BY Zenon, <1>1, <1>4, <1>5 DEF Strong, Lock
<1>10. Owned(p)'
  BY Zenon, <1>4, <1>7, LockPairs DEF Owned
<1>11. Frame(p)
  BY Zenon, <1>4, <1>5 DEF Frame, Kept
<1>12. \A x \in Procs : Local(x)'
  BY Zenon, <1>4, <1>6, <1>8, <1>9, <1>10, <1>11, FrameLocal DEF Local
<1>13. FastExcluded'
  BY Zenon, <1>1, <1>4, <1>5, <1>11, FrameFast
<1>14. TableExcludes'
  <2>1. \A s \in Rels, m \in Modes : Live(p, s, m)' => Live(p, s, m)
    BY Zenon, <1>4, <1>5, <1>7, LockPairs DEF Live
  <2>2. QED
    BY Zenon, <1>4, <1>11, <2>1, FrameTable
<1>15. QueuesOK(queue)'
  <2>1. /\ \A s \in Rels \ {r} : queue'[s] = queue[s]
        /\ queue'[r] = queue[r] \cup {<<x, p>> : x \in InFront(p) \cup {p}}
                                \cup {<<p, x>> : x \in Members(queue[r]) \ InFront(p)}
    BY Zenon, <1>4 DEF Types
  <2>2. \A s \in Rels : p \notin Members(queue[s])
    BY Zenon, <1>1 DEF ConflictInv, QueuesOK
  <2>3. \A x \in Procs : <<x, x>> \in queue'[r] <=> x = p \/ x \in Members(queue[r])
    BY Zenon, <2>1 DEF Members
  <2>4. /\ \A s \in Rels : \A x \in Members(queue'[s]) : x = p \/ x \in Members(queue[s])
        /\ \A s \in Rels : p \in Members(queue'[s]) => s = r
    BY Zenon, <2>1, <2>2, <2>3 DEF Members
  <2>5. ASSUME NEW s \in Rels, NEW x \in Members(queue'[s])
        PROVE  /\ req'[x].rel = s /\ waitStatus'[x] = "waiting" /\ lockAwaited'[x]
               /\ pc'[x] \in {"sleep", "error", "cleanup", "panic"}
    <3>1. CASE x = p
      BY Zenon, <1>3, <1>4, <1>5, <2>4, <2>5, <3>1
    <3>2. CASE x # p
      <4>1. x \in Procs /\ x \in Members(queue[s])
        BY Zenon, <2>4, <2>5, <3>2 DEF Members
      <4>2. /\ req[x].rel = s /\ waitStatus[x] = "waiting" /\ lockAwaited[x]
            /\ pc[x] \in {"sleep", "error", "cleanup", "panic"}
        BY Zenon, <4>1 DEF ConflictInv, QueuesOK
      <4>3. QED
        BY <1>4, <1>5, <3>2, <4>1, <4>2
    <3>3. QED
      BY Zenon, <3>1, <3>2
  <2>6. ASSUME NEW s \in Rels, NEW x \in Members(queue'[s]), NEW y \in Members(queue'[s])
        PROVE  <<x, y>> \in queue'[s] \/ <<y, x>> \in queue'[s]
    <3>1. CASE x = p \/ y = p
      <4>1. s = r /\ x \in Procs /\ y \in Procs
        BY Zenon, <2>4, <2>6, <3>1 DEF Members
      <4>2. x = p \/ x \in Members(queue[r])
        BY Zenon, <2>4, <2>6, <4>1
      <4>3. y = p \/ y \in Members(queue[r])
        BY Zenon, <2>4, <2>6, <4>1
      <4>4. QED
        BY Zenon, <2>1, <3>1, <4>1, <4>2, <4>3
    <3>2. CASE x # p /\ y # p
      <4>1. x \in Members(queue[s]) /\ y \in Members(queue[s])
        BY Zenon, <2>4, <2>6, <3>2
      <4>2. <<x, y>> \in queue[s] \/ <<y, x>> \in queue[s]
        BY Zenon, <4>1 DEF ConflictInv, QueuesOK
      <4>3. QED
        BY Zenon, <2>1, <4>2
    <3>3. QED
      BY Zenon, <3>1, <3>2
  <2>7. QED
    BY Zenon, <2>5, <2>6 DEF QueuesOK, Members
<1>16. QED
  BY Zenon, <1>6, <1>12, <1>13, <1>14, <1>15 DEF ConflictInv

-----------------------------------------------------------------------------
(* Steps that wake waiters *)

(* What ProcLockWakeup does to the table h with the queues q: the waiters G are granted *)
(* their locks, which conflict with nothing another backend then holds.                 *)
Woken(G, h, q, status) ==
    /\ hold' \in [Rels -> [Procs -> SUBSET Modes]] /\ DOMAIN queue' = Rels /\ DOMAIN waitStatus' = Procs
    /\ \A y \in G : req[y].rel \in Rels /\ y \in Members(q[req[y].rel])
    /\ \A r \in Rels, y \in Procs : h[r][y] \subseteq hold'[r][y]
    /\ \A r \in Rels, y \in Procs : \A m \in hold'[r][y] :
          m \in h[r][y] \/ (y \in G /\ req[y].rel = r /\ req[y].mode = m)
    /\ \A y \in G : req[y].mode \in hold'[req[y].rel][y]
    /\ \A y \in G : \A x \in Procs \ {y} : hold'[req[y].rel][x] \cap LockConflicts[req[y].mode] = {}
    /\ \A r \in Rels : Members(queue'[r]) = Members(q[r]) \ G
    /\ \A r \in Rels : \A x, y \in Members(queue'[r]) : <<x, y>> \in queue'[r] \/ <<y, x>> \in queue'[r]
    /\ \A y \in Procs : waitStatus'[y] = IF y \in G THEN "ok" ELSE status[y]

(* The waiters in the queues: requests for the relation *)
Waiters(q) ==
    \A r \in Rels :
        /\ \A y \in Members(q[r]) : req[y] \in Requests /\ req[y].rel = r
        /\ \A x, y \in Members(q[r]) : <<x, y>> \in q[r] \/ <<y, x>> \in q[r]

(* That is what ProcLockWakeup does *)
LEMMA WakeupEffect ==
    ASSUME NEW h \in [Rels -> [Procs -> SUBSET Modes]], NEW q, NEW rq, NEW mask,
           NEW rels \in SUBSET Rels, NEW status, NEW posted,
           Waiters(q), ProcLockWakeup(h, q, rq, mask, rels, status, posted)
    PROVE  \E G \in SUBSET Procs : Woken(G, h, q, status)
<1>1. PICK G \in SUBSET UNION {Members(q[r]) : r \in rels} :
        /\ \A r \in rels : Wakes(r, h[r], q[r], G)
        /\ hold' = [r \in Rels |-> WithGrants(h[r], r, G)]
        /\ queue' = [r \in Rels |-> {e \in q[r] : e[1] \notin G /\ e[2] \notin G}]
        /\ waitStatus' = [p \in Procs |-> IF p \in G THEN "ok" ELSE status[p]]
  BY Zenon DEF ProcLockWakeup
<1>2. \A y \in G : /\ y \in Procs /\ req[y].rel \in rels /\ y \in Members(q[req[y].rel])
                   /\ req[y] \in Requests /\ req[y].mode \in Modes
  <2> SUFFICES ASSUME NEW y \in G
               PROVE  /\ y \in Procs /\ req[y].rel \in rels /\ y \in Members(q[req[y].rel])
                      /\ req[y] \in Requests /\ req[y].mode \in Modes
    BY Zenon
  <2>1. PICK r \in rels : y \in Members(q[r])
    BY Zenon, <1>1
  <2>2. req[y] \in Requests /\ req[y].rel = r /\ y \in Procs
    BY Zenon, <2>1 DEF Waiters, Members
  <2>3. QED
    BY Zenon, <2>1, <2>2 DEF Requests
<1>3. \A r \in Rels, y \in Procs :
         hold'[r][y] = IF y \in G /\ req[y].rel = r THEN h[r][y] \cup {req[y].mode} ELSE h[r][y]
  BY Zenon, <1>1 DEF WithGrants
<1>4. hold' \in [Rels -> [Procs -> SUBSET Modes]]
  <2>1. \A r \in Rels : WithGrants(h[r], r, G) \in [Procs -> SUBSET Modes]
    BY Zenon, <1>2 DEF WithGrants
  <2>2. QED
    BY Zenon, <1>1, <2>1
<1>5. /\ \A r \in Rels, y \in Procs : h[r][y] \subseteq hold'[r][y]
      /\ \A r \in Rels, y \in Procs : \A m \in hold'[r][y] :
            m \in h[r][y] \/ (y \in G /\ req[y].rel = r /\ req[y].mode = m)
      /\ \A y \in G : req[y].mode \in hold'[req[y].rel][y]
  <2>1. \A r \in Rels, y \in Procs : h[r][y] \subseteq hold'[r][y]
    BY Zenon, <1>3
  <2>2. \A r \in Rels, y \in Procs : \A m \in hold'[r][y] :
           m \in h[r][y] \/ (y \in G /\ req[y].rel = r /\ req[y].mode = m)
    <3> SUFFICES ASSUME NEW r \in Rels, NEW y \in Procs, NEW m \in hold'[r][y],
                        ~(y \in G /\ req[y].rel = r /\ req[y].mode = m)
                 PROVE  m \in h[r][y]
      BY Zenon
    <3>1. CASE y \in G /\ req[y].rel = r
      <4>1. hold'[r][y] = h[r][y] \cup {req[y].mode}
        BY Zenon, <1>3, <3>1
      <4>2. QED
        BY Zenon, <3>1, <4>1
    <3>2. CASE ~(y \in G /\ req[y].rel = r)
      <4>1. hold'[r][y] = h[r][y]
        BY Zenon, <1>3, <3>2
      <4>2. QED
        BY Zenon, <4>1
    <3>3. QED
      BY Zenon, <3>1, <3>2
  <2>3. \A y \in G : y \in Procs /\ req[y].rel \in Rels
    BY Zenon, <1>2
  <2>4. \A y \in G : req[y].mode \in hold'[req[y].rel][y]
    BY Zenon, <1>3, <2>3
  <2>5. QED
    BY Zenon, <2>1, <2>2, <2>4
<1>6. /\ \A r \in Rels : Members(queue'[r]) = Members(q[r]) \ G
      /\ \A r \in Rels : \A x, y \in Members(queue'[r]) : <<x, y>> \in queue'[r] \/ <<y, x>> \in queue'[r]
  <2> SUFFICES ASSUME NEW r \in Rels
               PROVE  /\ Members(queue'[r]) = Members(q[r]) \ G
                      /\ \A x, y \in Members(queue'[r]) : <<x, y>> \in queue'[r] \/ <<y, x>> \in queue'[r]
    BY Zenon
  <2>1. queue'[r] = {e \in q[r] : e[1] \notin G /\ e[2] \notin G}
    BY Zenon, <1>1
  <2>2. \A x, y \in Procs : <<x, y>> \in queue'[r] <=> <<x, y>> \in q[r] /\ x \notin G /\ y \notin G
    BY Zenon, <2>1
  <2>3. Members(queue'[r]) = Members(q[r]) \ G
    BY Zenon, <2>2 DEF Members
  <2>4. \A x \in Members(queue'[r]) : x \in Procs /\ x \in Members(q[r]) /\ x \notin G
    BY Zenon, <2>3 DEF Members
  <2>5. QED
    BY Zenon, <2>2, <2>3, <2>4 DEF Waiters
<1>7. ASSUME NEW y \in G, NEW x \in Procs \ {y}, NEW m \in hold'[req[y].rel][x]
      PROVE  m \notin LockConflicts[req[y].mode]
  <2> DEFINE r == req[y].rel
  <2>1. r \in rels /\ r \in Rels /\ y \in Members(q[r]) /\ y \in Procs /\ req[y].mode \in Modes
    BY Zenon, <1>2
  <2>2. Wakes(r, h[r], q[r], G)
    BY Zenon, <1>1, <2>1
  <2> HIDE DEF r
  <2>3. ASSUME NEW z \in G, NEW w \in Procs \ {z}, z \in Members(q[r])
        PROVE  /\ h[r][w] \cap LockConflicts[req[z].mode] = {}
               /\ w \in G \cap Ahead(q[r], z) /\ req[w].rel = r => req[w].mode \notin LockConflicts[req[z].mode]
    <3>1. ~LockCheckConflicts(WithGrants(h[r], r, G \cap Ahead(q[r], z)), z, req[z].mode)
      BY Zenon, <2>2, <2>3 DEF Wakes
    <3>2. WithGrants(h[r], r, G \cap Ahead(q[r], z))[w] \cap LockConflicts[req[z].mode] = {}
      BY Zenon, <2>3, <3>1 DEF LockCheckConflicts
    <3>3. WithGrants(h[r], r, G \cap Ahead(q[r], z))[w] =
             IF w \in G \cap Ahead(q[r], z) /\ req[w].rel = r THEN h[r][w] \cup {req[w].mode} ELSE h[r][w]
      BY Zenon, <2>3 DEF WithGrants
    <3>4. QED
      BY Zenon, <3>2, <3>3
  <2>4. CASE m \in h[r][x]
    BY Zenon, <1>7, <2>1, <2>3, <2>4
  <2>5. CASE x \in G /\ req[x].rel = r /\ req[x].mode = m
    <3>1. x \in Members(q[r]) /\ x # y /\ m \in Modes
      BY Zenon, <1>2, <1>7, <2>5
    <3>2. <<x, y>> \in q[r] \/ <<y, x>> \in q[r]
      BY Zenon, <2>1, <3>1 DEF Waiters
    <3>3. CASE <<x, y>> \in q[r]
      <4>1. x \in Ahead(q[r], y)
        BY Zenon, <3>1, <3>3 DEF Ahead
      <4>2. QED
        BY Zenon, <1>7, <2>1, <2>3, <2>5, <4>1
    <3>4. CASE <<y, x>> \in q[r]
      <4>1. y \in Ahead(q[r], x) /\ req[y].rel = r
        BY Zenon, <2>1, <3>1, <3>4 DEF Ahead, r
      <4>2. req[y].mode \notin LockConflicts[m]
        BY Zenon, <2>1, <2>3, <2>5, <3>1, <4>1
      <4>3. QED
        BY Zenon, <2>1, <3>1, <4>2, ConflictsSymmetric, LockConstants
    <3>5. QED
      BY Zenon, <3>2, <3>3, <3>4
  <2>6. m \in h[r][x] \/ (x \in G /\ req[x].rel = r /\ req[x].mode = m)
    BY Zenon, <1>5, <1>7, <2>1 DEF r
  <2>7. QED
    BY Zenon, <2>4, <2>5, <2>6
<1>8. \A y \in G : \A x \in Procs \ {y} : hold'[req[y].rel][x] \cap LockConflicts[req[y].mode] = {}
  BY Zenon, <1>7
<1>9. /\ DOMAIN queue' = Rels /\ DOMAIN waitStatus' = Procs
      /\ \A y \in Procs : waitStatus'[y] = IF y \in G THEN "ok" ELSE status[y]
  BY Zenon, <1>1
<1>10. G \in SUBSET Procs /\ \A y \in G : req[y].rel \in Rels /\ y \in Members(q[req[y].rel])
  BY Zenon, <1>2
<1>11. Woken(G, h, q, status)
  BY Zenon, <1>4, <1>5, <1>6, <1>8, <1>9, <1>10 DEF Woken
<1>12. QED
  BY Zenon, <1>10, <1>11

(* A step of p that wakes the waiters G of the queues *)
Wakening(p, G) ==
    /\ hold' \in [Rels -> [Procs -> SUBSET Modes]] /\ DOMAIN queue' = Rels /\ DOMAIN waitStatus' = Procs
    /\ \A y \in G : req[y].rel \in Rels /\ y \in Members(queue[req[y].rel])
    /\ \A r \in Rels, y \in Procs \ {p} : hold[r][y] \subseteq hold'[r][y]
    /\ \A r \in Rels, y \in Procs : \A m \in hold'[r][y] :
          m \in hold[r][y] \/ (y \in G /\ req[y].rel = r /\ req[y].mode = m)
    /\ \A y \in G : req[y].mode \in hold'[req[y].rel][y]
    /\ \A y \in G : \A x \in Procs \ {y} : hold'[req[y].rel][x] \cap LockConflicts[req[y].mode] = {}
    /\ \A r \in Rels : Members(queue'[r]) \subseteq Members(queue[r]) \ G
    /\ \A r \in Rels : \A x, y \in Members(queue'[r]) : <<x, y>> \in queue'[r] \/ <<y, x>> \in queue'[r]
    /\ \A y \in Procs \ {p} : waitStatus'[y] = IF y \in G THEN "ok" ELSE waitStatus[y]

(* The types of the table after the waiters are woken *)
LEMMA WakeningTypes ==
    ASSUME NEW p, NEW G, Wakening(p, G)
    PROVE  /\ hold' \in [Rels -> [Procs -> SUBSET Modes]]
           /\ DOMAIN queue' = Rels /\ DOMAIN waitStatus' = Procs
  BY Zenon DEF Wakening

(* The other backends, but for their part of the table *)
Bystanders(p) ==
    \A x \in Procs \ {p} :
        /\ Kept(x) /\ fpLocks'[x] = fpLocks[x]
        /\ backendLock'[x] = backendLock[x] \/ pc[x] # "fast_path"

(* What p itself may do meanwhile *)
WakesQuietly(p, G) ==
    /\ pc[p] # "transfer" /\ pc'[p] # "fast_path"
    /\ strongHeld'[p] \subseteq strongHeld[p]
    /\ \A r \in Rels : fpLocks'[p][r] \subseteq fpLocks[p][r]
    /\ \A l \in Locks : Owns(p, l)' => Owns(p, l)
    /\ pc'[p] \in {"sleep", "woken"} =>
          /\ pc[p] \in {"sleep", "woken"} /\ req'[p] = req[p]
          /\ waitStatus'[p] = "ok" => p \in G \/ waitStatus[p] = "ok"
    /\ \/ \A r \in Rels : p \notin Members(queue'[r])
       \/ /\ req'[p] = req[p] /\ waitStatus'[p] = waitStatus[p] /\ lockAwaited'[p] = lockAwaited[p]
          /\ pc'[p] \in {"sleep", "error", "cleanup", "panic"}

(* A step of p that wakes the waiters G preserves the invariant *)
LEMMA WakeningStep ==
    ASSUME ConflictInv, NEW p \in Procs, NEW G \in SUBSET Procs, Types', Local(p)',
           Wakening(p, G), Bystanders(p), WakesQuietly(p, G)
    PROVE  ConflictInv'
<1>1. \A y \in G : req[y] \in Requests /\ req[y].rel \in Rels /\ req[y].mode \in Modes
  <2> SUFFICES ASSUME NEW y \in G
               PROVE  req[y] \in Requests /\ req[y].rel \in Rels /\ req[y].mode \in Modes
    BY Zenon
  <2>1. pc[y] \in {"sleep", "error", "cleanup", "panic"} /\ Control(y)
    <3>1. y \in Procs /\ req[y].rel \in Rels /\ y \in Members(queue[req[y].rel])
      BY Zenon DEF Wakening
    <3>2. QED
      BY Zenon, <3>1 DEF ConflictInv, QueuesOK, Local
  <2>2. req[y] \in Requests
    BY Zenon, <2>1 DEF Control, Asking
  <2>3. QED
    BY Zenon, <2>2 DEF Requests
<1>2. \A x \in Procs : Local(x)'
  <2> SUFFICES ASSUME NEW x \in Procs, x # p PROVE Local(x)'
    BY Zenon
  <2>1. Types /\ Local(x) /\ Kept(x) /\ (backendLock'[x] = backendLock[x] \/ pc[x] # "fast_path")
    BY Zenon DEF ConflictInv, Bystanders
  <2>2. fpLocks'[x] = fpLocks[x] /\ \A r \in Rels : hold[r][x] \subseteq hold'[r][x]
    BY Zenon DEF Wakening, Bystanders
  <2>3. waitStatus'[x] = "ok" => waitStatus[x] = "ok" \/ req[x].mode \in hold'[req[x].rel][x]
    BY Zenon DEF Wakening
  <2>4. QED
    BY Zenon, <2>1, <2>2, <2>3, LocalKept
<1>3. QueuesOK(queue)'
  <2>1. ASSUME NEW r \in Rels, NEW x \in Members(queue'[r])
        PROVE  /\ req'[x].rel = r /\ waitStatus'[x] = "waiting" /\ lockAwaited'[x]
               /\ pc'[x] \in {"sleep", "error", "cleanup", "panic"}
    <3>1. x \in Procs /\ x \in Members(queue[r]) /\ x \notin G
      BY Zenon, <2>1 DEF Wakening, Members
    <3>2. /\ req[x].rel = r /\ waitStatus[x] = "waiting" /\ lockAwaited[x]
          /\ pc[x] \in {"sleep", "error", "cleanup", "panic"}
      BY Zenon, <3>1 DEF ConflictInv, QueuesOK
    <3>3. CASE x = p
      BY Zenon, <2>1, <3>2, <3>3 DEF WakesQuietly
    <3>4. CASE x # p
      <4>1. Kept(x) /\ waitStatus'[x] = waitStatus[x]
        BY Zenon, <3>1, <3>4 DEF Wakening, Bystanders
      <4>2. QED
        BY Zenon, <3>2, <4>1 DEF Kept
    <3>5. QED
      BY Zenon, <3>3, <3>4
  <2>2. \A r \in Rels : \A x, y \in Members(queue'[r]) : <<x, y>> \in queue'[r] \/ <<y, x>> \in queue'[r]
    BY Zenon DEF Wakening
  <2>3. QED
    BY Zenon, <2>1, <2>2 DEF QueuesOK, Members
<1>4. FastExcluded'
  <2>1. FastExcluded /\ \A x \in Procs : strongHeld'[x] \subseteq strongHeld[x]
    BY Zenon DEF ConflictInv, Bystanders, WakesQuietly, Kept
  <2>2. \A x \in Procs : pc[x] = "transfer" =>
           pc'[x] = "transfer" /\ req'[x] = req[x] /\ untransferred'[x] = untransferred[x]
    BY Zenon DEF Bystanders, WakesQuietly, Kept
  <2>3. \A x \in Procs, r \in Rels : fpLocks'[x][r] \subseteq fpLocks[x][r]
    BY Zenon DEF Bystanders, WakesQuietly
  <2>4. \A x \in Procs : pc'[x] = "fast_path" => pc[x] = "fast_path" /\ req'[x] = req[x]
    BY Zenon DEF Bystanders, WakesQuietly, Kept
  <2>5. QED
    BY Zenon, <2>1, <2>2, <2>3, <2>4, FastKept
<1>5. ASSUME NEW y \in Procs, NEW r \in Rels, NEW m \in Modes, Live(y, r, m)'
      PROVE  Live(y, r, m) \/ (y \in G /\ req[y].rel = r /\ req[y].mode = m)
  <2>1. SUFFICES ASSUME ~(y \in G /\ req[y].rel = r /\ req[y].mode = m) PROVE Live(y, r, m)
    BY Zenon
  <2>2. m \in hold'[r][y] /\ m \in hold[r][y]
    BY Zenon, <1>5, <2>1 DEF Live, Wakening
  <2>3. Owns(y, <<r, m>>)' => Owns(y, <<r, m>>)
    <3>1. CASE y = p
      BY Zenon, <3>1, LockPairs DEF WakesQuietly
    <3>2. CASE y # p
      BY Zenon, <3>2 DEF Bystanders, Kept, Owns, Lock
    <3>3. QED
      BY Zenon, <3>1, <3>2
  <2>4. CASE pc'[y] \in {"sleep", "woken"} /\ Lock(y)' = <<r, m>> /\ waitStatus'[y] = "ok"
    <3>1. pc[y] \in {"sleep", "woken"} /\ req'[y] = req[y] /\ (y \in G \/ waitStatus[y] = "ok")
      <4>1. CASE y = p
        BY Zenon, <2>4, <4>1 DEF WakesQuietly
      <4>2. CASE y # p
        BY Zenon, <2>4, <4>2 DEF Wakening, Bystanders, Kept
      <4>3. QED
        BY Zenon, <4>1, <4>2
    <3>2. y \notin G
      BY Zenon, <2>1, <2>4, <3>1 DEF Lock
    <3>3. QED
      BY Zenon, <2>2, <2>4, <3>1, <3>2 DEF Live, Lock
  <2>5. QED
    BY Zenon, <1>5, <2>2, <2>3, <2>4 DEF Live
<1>6. ASSUME NEW y \in G, NEW x \in Procs \ {y}, NEW n \in Modes, n \in hold'[req[y].rel][x]
      PROVE  n \notin LockConflicts[req[y].mode] /\ req[y].mode \notin LockConflicts[n]
  <2>1. n \notin LockConflicts[req[y].mode]
    BY Zenon, <1>6 DEF Wakening
  <2>2. QED
    BY Zenon, <1>1, <2>1, ConflictsSymmetric, LockConstants
<1>7. TableExcludes'
  <2> SUFFICES ASSUME NEW x \in Procs, NEW y \in Procs, NEW r \in Rels, NEW m \in Modes, NEW n \in Modes,
                      x # y, Live(x, r, m)', Live(y, r, n)'
               PROVE  n \notin LockConflicts[m]
    BY Zenon DEF TableExcludes
  <2>1. m \in hold'[r][x] /\ n \in hold'[r][y]
    BY Zenon DEF Live
  <2>2. CASE Live(x, r, m) /\ Live(y, r, n)
    BY Zenon, <2>2 DEF ConflictInv, TableExcludes
  <2>3. CASE x \in G /\ req[x].rel = r /\ req[x].mode = m
    BY Zenon, <1>6, <2>1, <2>3
  <2>4. CASE y \in G /\ req[y].rel = r /\ req[y].mode = n
    BY Zenon, <1>6, <2>1, <2>4
  <2>5. QED
    BY Zenon, <1>5, <2>2, <2>3, <2>4
<1>8. QED
  BY Zenon, <1>2, <1>3, <1>4, <1>7 DEF ConflictInv

(* The waiters of queues that hold no others than the queues of the table *)
LEMMA WaitersOf ==
    ASSUME ConflictInv, NEW q, \A r \in Rels : Members(q[r]) \subseteq Members(queue[r]),
           \A r \in Rels : \A x, y \in Members(q[r]) : <<x, y>> \in q[r] \/ <<y, x>> \in q[r]
    PROVE  Waiters(q)
<1> SUFFICES ASSUME NEW r \in Rels, NEW y \in Members(q[r]) PROVE req[y] \in Requests /\ req[y].rel = r
  BY Zenon DEF Waiters
<1>1. y \in Procs /\ y \in Members(queue[r])
  BY Zenon DEF Members
<1>2. req[y].rel = r /\ pc[y] \in {"sleep", "error", "cleanup", "panic"} /\ Control(y)
  BY Zenon, <1>1 DEF ConflictInv, QueuesOK, Local
<1>3. QED
  BY Zenon, <1>2 DEF Control, Asking

(* The table h differs from the table in what p gives back, the queues q hold no others *)
(* than its waiters.                                                                    *)
WakesFrom(p, h, q, status) ==
    /\ h \in [Rels -> [Procs -> SUBSET Modes]]
    /\ \A r \in Rels : Members(q[r]) \subseteq Members(queue[r])
    /\ \A r \in Rels : \A x, y \in Members(q[r]) : <<x, y>> \in q[r] \/ <<y, x>> \in q[r]
    /\ \A r \in Rels : h[r][p] \subseteq hold[r][p]
    /\ \A r \in Rels, y \in Procs \ {p} : h[r][y] = hold[r][y]
    /\ \A y \in Procs \ {p} : status[y] = waitStatus[y]

(* ProcLockWakeup with such a table and such queues wakes waiters *)
LEMMA WakeupWakens ==
    ASSUME ConflictInv, NEW p \in Procs, NEW h, NEW q,
           NEW rq, NEW mask, NEW rels \in SUBSET Rels, NEW status, NEW posted,
           WakesFrom(p, h, q, status),
           ProcLockWakeup(h, q, rq, mask, rels, status, posted)
    PROVE  \E G \in SUBSET Procs :
             /\ Wakening(p, G)
             /\ p \in G => \E r \in Rels : p \in Members(q[r])
             /\ \A r \in Rels : p \in Members(queue'[r]) => p \in Members(q[r])
             /\ waitStatus'[p] = IF p \in G THEN "ok" ELSE status[p]
             /\ \A r \in Rels : h[r][p] \subseteq hold'[r][p]
<1> USE DEF WakesFrom
<1>1. Waiters(q) /\ h \in [Rels -> [Procs -> SUBSET Modes]]
  BY Zenon, WaitersOf
<1>2. PICK G \in SUBSET Procs : Woken(G, h, q, status)
  BY Zenon, <1>1, WakeupEffect
<1>3. /\ \A r \in Rels, y \in Procs : h[r][y] \subseteq hold'[r][y]
      /\ \A r \in Rels, y \in Procs : \A m \in hold'[r][y] :
            m \in h[r][y] \/ (y \in G /\ req[y].rel = r /\ req[y].mode = m)
      /\ \A r \in Rels : Members(queue'[r]) = Members(q[r]) \ G
      /\ \A y \in Procs : waitStatus'[y] = IF y \in G THEN "ok" ELSE status[y]
  BY Zenon, <1>2 DEF Woken
<1>4. Wakening(p, G)
  <2>1. \A y \in G : req[y].rel \in Rels /\ y \in Members(queue[req[y].rel])
    BY Zenon, <1>2 DEF Woken
  <2>2. ASSUME NEW r \in Rels, NEW y \in Procs \ {p} PROVE hold[r][y] \subseteq hold'[r][y]
    <3>1. h[r][y] = hold[r][y]
      BY Zenon
    <3>2. y \in Procs
      BY Zenon
    <3>3. QED
      BY Zenon, <1>3, <3>1, <3>2
  <2>3. \A r \in Rels, y \in Procs : \A m \in hold'[r][y] :
           m \in hold[r][y] \/ (y \in G /\ req[y].rel = r /\ req[y].mode = m)
    <3>1. \A r \in Rels, y \in Procs : h[r][y] \subseteq hold[r][y]
      BY Zenon
    <3>2. QED
      BY Zenon, <1>3, <3>1
  <2>4. ASSUME NEW r \in Rels PROVE Members(queue'[r]) \subseteq Members(queue[r]) \ G
    <3>1. Members(queue'[r]) = Members(q[r]) \ G /\ Members(q[r]) \subseteq Members(queue[r])
      BY Zenon, <1>3
    <3>2. QED
      BY Zenon, <3>1
  <2>5. ASSUME NEW y \in Procs \ {p} PROVE waitStatus'[y] = IF y \in G THEN "ok" ELSE waitStatus[y]
    <3>1. y \in Procs /\ status[y] = waitStatus[y]
      BY Zenon
    <3>2. waitStatus'[y] = IF y \in G THEN "ok" ELSE status[y]
      BY Zenon, <1>3, <3>1
    <3>3. QED
      BY Zenon, <3>1, <3>2
  <2>6. QED
    BY Zenon, <1>2, <2>1, <2>2, <2>3, <2>4, <2>5 DEF Woken, Wakening
<1>5. ASSUME NEW r \in Rels, p \in Members(queue'[r]) PROVE p \in Members(q[r])
  <2>1. Members(queue'[r]) = Members(q[r]) \ G
    BY Zenon, <1>3
  <2>2. QED
    BY Zenon, <1>5, <2>1
<1>6. p \in G => \E r \in Rels : p \in Members(q[r])
  BY Zenon, <1>2 DEF Woken
<1>7. waitStatus'[p] = IF p \in G THEN "ok" ELSE status[p]
  BY Zenon, <1>3
<1>8. \A r \in Rels : h[r][p] \subseteq hold'[r][p]
  BY Zenon, <1>3
<1>9. QED
  BY Zenon, <1>4, <1>5, <1>6, <1>7, <1>8

(* The table and the waitStatus of the others are left alone *)
LEMMA NobodyWakens ==
    ASSUME ConflictInv, NEW p \in Procs, TableSame, DOMAIN waitStatus' = Procs,
           \A y \in Procs \ {p} : waitStatus'[y] = waitStatus[y]
    PROVE  Wakening(p, {})
<1>1. Types /\ QueuesOK(queue)
  BY Zenon DEF ConflictInv
<1>2. QED
  BY Zenon, <1>1 DEF Types, QueuesOK, Wakening

(* RemoveFromWaitQueue: p itself is in no queue any more and is not woken *)
LEMMA RemoveWakens ==
    ASSUME ConflictInv, NEW p \in Procs, req[p].rel \in Rels, NEW rq, NEW mask, NEW status, NEW posted,
           RemoveFromWaitQueue(p, rq, mask, status, posted)
    PROVE  \E G \in SUBSET Procs :
             /\ Wakening(p, G) /\ p \notin G
             /\ \A r \in Rels : p \notin Members(queue'[r])
             /\ waitStatus'[p] = status
             /\ \A r \in Rels : hold[r][p] \subseteq hold'[r][p]
<1> DEFINE r0 == req[p].rel
           q == [queue EXCEPT ![r0] = {e \in @ : e[1] # p /\ e[2] # p}]
           st == [waitStatus EXCEPT ![p] = status]
<1>1. \E mk, left : ProcLockWakeup(hold, q, left, mk, {r0}, st, posted)
  BY Zenon DEF RemoveFromWaitQueue
<1>2. Types /\ QueuesOK(queue)
  BY Zenon DEF ConflictInv
<1>3. hold \in [Rels -> [Procs -> SUBSET Modes]] /\ {r0} \in SUBSET Rels
  BY Zenon, <1>2 DEF Types
<1>4. \A r \in Rels : q[r] = IF r = r0 THEN {e \in queue[r] : e[1] # p /\ e[2] # p} ELSE queue[r]
  BY Zenon, <1>2 DEF Types
<1>5. st[p] = status /\ \A y \in Procs \ {p} : st[y] = waitStatus[y]
  BY Zenon, <1>2 DEF Types
<1> HIDE DEF q, st
<1>6. ASSUME NEW r \in Rels
      PROVE  /\ Members(q[r]) \subseteq Members(queue[r]) \ {p}
             /\ \A x, y \in Members(q[r]) : <<x, y>> \in q[r] \/ <<y, x>> \in q[r]
  <2>1. CASE r # r0
    <3>1. q[r] = queue[r]
      BY Zenon, <1>4, <2>1
    <3>2. p \notin Members(queue[r])
      BY Zenon, <1>2, <2>1 DEF QueuesOK
    <3>3. QED
      BY Zenon, <1>2, <3>1, <3>2 DEF QueuesOK
  <2>2. CASE r = r0
    <3>1. \A x, y \in Procs : <<x, y>> \in q[r] <=> <<x, y>> \in queue[r] /\ x # p /\ y # p
      <4>1. q[r] = {e \in queue[r] : e[1] # p /\ e[2] # p}
        BY Zenon, <1>4, <2>2
      <4>2. QED
        BY Zenon, <4>1
    <3>2. Members(q[r]) \subseteq Members(queue[r]) \ {p}
      BY Zenon, <3>1 DEF Members
    <3>3. \A x \in Members(q[r]) : x \in Procs /\ x # p /\ x \in Members(queue[r])
      BY Zenon, <3>2 DEF Members
    <3>4. QED
      BY Zenon, <1>2, <3>1, <3>2, <3>3 DEF QueuesOK
  <2>3. QED
    BY Zenon, <2>1, <2>2
<1>7. WakesFrom(p, hold, q, st)
  BY Zenon, <1>3, <1>5, <1>6 DEF WakesFrom
<1>8. PICK rels \in SUBSET Rels : \E mk, left : ProcLockWakeup(hold, q, left, mk, rels, st, posted)
  BY Zenon, <1>1, <1>3
<1>9. PICK G \in SUBSET Procs :
         /\ Wakening(p, G)
         /\ p \in G => \E r \in Rels : p \in Members(q[r])
         /\ \A r \in Rels : p \in Members(queue'[r]) => p \in Members(q[r])
         /\ waitStatus'[p] = IF p \in G THEN "ok" ELSE st[p]
         /\ \A r \in Rels : hold[r][p] \subseteq hold'[r][p]
  BY Zenon, <1>7, <1>8, WakeupWakens
<1>10. p \notin G /\ \A r \in Rels : p \notin Members(queue'[r])
  BY Zenon, <1>6, <1>9
<1>11. QED
  BY Zenon, <1>5, <1>9, <1>10

(* UnGrantLock of the modes ms of p, which is in no queue *)
LEMMA ReleaseWakens ==
    ASSUME ConflictInv, NEW p \in Procs, NEW r \in Rels, NEW ms, ReleaseInTable(p, r, ms),
           \A s \in Rels : p \notin Members(queue[s])
    PROVE  \E G \in SUBSET Procs :
             /\ Wakening(p, G) /\ p \notin G
             /\ \A s \in Rels : p \notin Members(queue'[s])
             /\ waitStatus'[p] = waitStatus[p]
             /\ \A s \in Rels : \A m \in hold[s][p] : m \in hold'[s][p] \/ (s = r /\ m \in ms)
<1> DEFINE h == [hold EXCEPT ![r][p] = @ \ ms]
<1>1. \E rq : \E rels \in SUBSET Rels : ProcLockWakeup(h, queue, rq, waitMask, rels, waitStatus, {})
  BY Zenon DEF ReleaseInTable
<1>2. Types /\ QueuesOK(queue)
  BY Zenon DEF ConflictInv
<1>3. h \in [Rels -> [Procs -> SUBSET Modes]]
  BY Zenon, <1>2 DEF Types
<1>4. /\ h[r][p] = hold[r][p] \ ms
      /\ \A s \in Rels, y \in Procs : s # r \/ y # p => h[s][y] = hold[s][y]
  BY Zenon, <1>2 DEF Types
<1> HIDE DEF h
<1>5. /\ \A s \in Rels : h[s][p] \subseteq hold[s][p]
      /\ \A s \in Rels, y \in Procs \ {p} : h[s][y] = hold[s][y]
      /\ \A s \in Rels : \A m \in hold[s][p] : m \in h[s][p] \/ (s = r /\ m \in ms)
  BY Zenon, <1>4
<1>6. PICK rq : \E rels \in SUBSET Rels : ProcLockWakeup(h, queue, rq, waitMask, rels, waitStatus, {})
  BY Zenon, <1>1
<1> PICK rels \in SUBSET Rels : ProcLockWakeup(h, queue, rq, waitMask, rels, waitStatus, {})
  BY Zenon, <1>6
<1>7. PICK G \in SUBSET Procs :
         /\ Wakening(p, G)
         /\ p \in G => \E s \in Rels : p \in Members(queue[s])
         /\ \A s \in Rels : p \in Members(queue'[s]) => p \in Members(queue[s])
         /\ waitStatus'[p] = IF p \in G THEN "ok" ELSE waitStatus[p]
         /\ \A s \in Rels : h[s][p] \subseteq hold'[s][p]
  <2>1. WakesFrom(p, h, queue, waitStatus)
    BY Zenon, <1>2, <1>3, <1>5 DEF QueuesOK, WakesFrom
  <2>2. QED
    BY Zenon, <2>1, WakeupWakens
<1>8. QED
  BY Zenon, <1>5, <1>7

(* ProcSleep foresees a deadlock *)
LEMMA GiveUpEarlyStep ==
    ASSUME ConflictInv, NEW p \in Procs, Types, Control(p), Strong(p), Owned(p),
           GiveUpEarly(p), setting' = setting
    PROVE  ConflictInv'
<1>1. /\ pc[p] = "table" /\ pc' = [pc EXCEPT ![p] = "error"] /\ req' = req
      /\ nLocks' = nLocks /\ inTable' = [inTable EXCEPT ![p] = @ \cup {Lock(p)}]
      /\ StrongSame /\ SlotsSame /\ lockAwaited' = lockAwaited /\ deadlockTimer' = deadlockTimer
  BY Zenon DEF GiveUpEarly, Sleeps, Goto, strong, fastPath, waiting, timers
<1>2. req[p] \in Requests /\ req[p].rel \in Rels
  BY Zenon, <1>1 DEF Control, Asking, Requests
<1>3. \E rq, mask : RemoveFromWaitQueue(p, rq, mask, "ok", {})
  BY Zenon DEF GiveUpEarly
<1>4. PICK G \in SUBSET Procs :
         /\ Wakening(p, G) /\ p \notin G
         /\ \A r \in Rels : p \notin Members(queue'[r])
         /\ waitStatus'[p] = "ok"
         /\ \A r \in Rels : hold[r][p] \subseteq hold'[r][p]
  BY Zenon, <1>2, <1>3, RemoveWakens
<1>5. Types'
  BY Zenon, <1>1, <1>4, WakeningTypes DEF Types
<1>6. /\ pc'[p] = "error" /\ inTable'[p] = inTable[p] \cup {Lock(p)}
      /\ \A x \in Procs \ {p} : pc'[x] = pc[x] /\ inTable'[x] = inTable[x]
  BY Zenon, <1>1 DEF Types
<1>7. \A l \in Locks : Owns(p, l)' => Owns(p, l)
  BY Zenon, <1>1, <1>6 DEF Owns, Lock
<1>8. Control(p)' /\ Strong(p)'
  BY Zenon, <1>1, <1>6 DEF Control, Strong, Asking, Lock
<1>9. Owned(p)'
  BY Zenon, <1>1, <1>4, <1>7, LockPairs DEF Owned
<1>10. Bystanders(p) /\ WakesQuietly(p, G)
  BY Zenon, <1>1, <1>4, <1>6, <1>7 DEF Bystanders, WakesQuietly, Kept
<1>11. QED
  BY Zenon, <1>4, <1>5, <1>8, <1>9, <1>10, WakeningStep DEF Local

(* LockErrorCleanup leaves the queue or keeps a lock granted meanwhile *)
LEMMA FinishErrorCleanupStep ==
    ASSUME ConflictInv, NEW p \in Procs, Types, Control(p), Strong(p), Owned(p),
           FinishErrorCleanup(p), setting' = setting
    PROVE  ConflictInv'
<1>1. /\ pc[p] = "cleanup" /\ pc' = [pc EXCEPT ![p] = "cleaned"] /\ req' = req
      /\ nLocks' = nLocks \/ nLocks' = [nLocks EXCEPT ![p][Lock(p)] = 1]
      /\ inTable' = inTable /\ StrongSame /\ SlotsSame
      /\ lockAwaited' = [lockAwaited EXCEPT ![p] = FALSE] /\ deadlockTimer' = deadlockTimer
  BY Zenon DEF FinishErrorCleanup, ForgetWait, Goto, strong, fastPath
<1>2. req[p] \in Requests /\ req[p].rel \in Rels /\ Lock(p) \in Locks
  BY Zenon, <1>1, LockPairs DEF Control, Asking, Requests, Lock
<1>3. PICK G \in SUBSET Procs :
         /\ Wakening(p, G) /\ p \notin G
         /\ \A r \in Rels : p \notin Members(queue'[r])
         /\ waitStatus'[p] = "ok"
         /\ \A r \in Rels : hold[r][p] \subseteq hold'[r][p]
  <2>1. CASE p \in Members(queue[req[p].rel])
    <3>1. RemoveFromWaitQueue(p, requested, waitMask, "ok", {})
      BY Zenon, <2>1 DEF FinishErrorCleanup
    <3>2. QED
      BY Zenon, <1>2, <3>1, RemoveWakens
  <2>2. CASE p \notin Members(queue[req[p].rel])
    <3>1. waitStatus' = [waitStatus EXCEPT ![p] = "ok"] /\ TableSame
      BY Zenon, <2>2 DEF FinishErrorCleanup, table
    <3>2. /\ DOMAIN waitStatus' = Procs /\ waitStatus'[p] = "ok"
          /\ \A y \in Procs \ {p} : waitStatus'[y] = waitStatus[y]
      BY Zenon, <3>1 DEF Types
    <3>3. Wakening(p, {})
      BY Zenon, <3>1, <3>2, NobodyWakens
    <3>4. \A r \in Rels : p \notin Members(queue'[r])
      BY Zenon, <2>2, <3>1 DEF ConflictInv, QueuesOK
    <3>5. QED
      BY Zenon, <3>1, <3>2, <3>3, <3>4
  <2>3. QED
    BY Zenon, <2>1, <2>2
<1>4. /\ pc'[p] = "cleaned" /\ \A x \in Procs \ {p} : pc'[x] = pc[x] /\ lockAwaited'[x] = lockAwaited[x]
  BY Zenon, <1>1 DEF Types
<1>5. /\ nLocks' \in [Procs -> [Locks -> Nat]]
      /\ \A l \in Locks : l # Lock(p) => nLocks'[p][l] = nLocks[p][l]
      /\ \A x \in Procs \ {p} : nLocks'[x] = nLocks[x]
  <2>1. CASE nLocks' = nLocks
    BY Zenon, <2>1 DEF Types
  <2>2. CASE nLocks' = [nLocks EXCEPT ![p][Lock(p)] = 1]
    <3>1. PICK k \in Locks : k = Lock(p)
      BY Zenon, <1>2
    <3>2. QED
      BY Zenon, <2>2, <3>1 DEF Types
  <2>3. QED
    BY Zenon, <1>1, <2>1, <2>2
<1>6. Types'
  BY Zenon, <1>1, <1>3, <1>5, WakeningTypes DEF Types
<1>7. \A l \in Locks : Owns(p, l)' => Owns(p, l)
  BY Zenon, <1>1, <1>4, <1>5 DEF Owns, Lock
<1>8. Lock(p) \notin strongHeld[p]
  BY Zenon, <1>1 DEF Control, Strong, Asking
<1>9. Control(p)'
  BY Zenon, <1>1, <1>4 DEF Control, Asking, Lock
<1>S. Strong(p)'
  <2>1. \A l \in strongHeld[p] : l \in Locks /\ l # Lock(p)
    BY Zenon, <1>8 DEF Types
  <2>2. QED
    BY Zenon, <1>1, <1>4, <1>5, <2>1 DEF Control, Strong, Lock
<1>10. Owned(p)'
  BY Zenon, <1>1, <1>3, <1>7, LockPairs DEF Owned
<1>11. Bystanders(p) /\ WakesQuietly(p, G)
  BY Zenon, <1>1, <1>3, <1>4, <1>5, <1>7 DEF Bystanders, WakesQuietly, Kept
<1>12. QED
  BY Zenon, <1>3, <1>6, <1>9, <1>S, <1>10, <1>11, WakeningStep DEF Local

(* LockRelease takes the lock out of the table *)
LEMMA ReleaseFromTableStep ==
    ASSUME ConflictInv, NEW p \in Procs, Types, Control(p), Strong(p), Owned(p),
           ReleaseFromTable(p), setting' = setting
    PROVE  ConflictInv'
<1>1. pc[p] = "release"
  BY Zenon DEF ReleaseFromTable
<1>2. PICK k \in Locks : k = Lock(p)
  BY Zenon, <1>1, LockPairs DEF Control, Lock
<1>3. /\ ReleaseInTable(p, k[1], {k[2]} \cap hold[k[1]][p])
      /\ inTable' = [inTable EXCEPT ![p] = @ \ {k}]
      /\ nLocks' = nLocks /\ StrongSame /\ SlotsSame
      /\ lockAwaited' = lockAwaited /\ deadlockTimer' = deadlockTimer
  BY Zenon, <1>2 DEF ReleaseFromTable, strong, fastPath, waiting, timers
<1>4. \/ k \in strongHeld[p] /\ pc' = [pc EXCEPT ![p] = "forget"] /\ req' = req
      \/ k \notin strongHeld[p] /\ pc' = [pc EXCEPT ![p] = "idle"] /\ req' = [req EXCEPT ![p] = NoRequest]
  BY Zenon, <1>2 DEF ReleaseFromTable, Goto, Return
<1>5. k[1] \in Rels /\ \A r \in Rels : p \notin Members(queue[r])
  BY Zenon, <1>1, LockPairs DEF ConflictInv, QueuesOK
<1>6. PICK G \in SUBSET Procs :
         /\ Wakening(p, G) /\ p \notin G
         /\ \A s \in Rels : p \notin Members(queue'[s])
         /\ waitStatus'[p] = waitStatus[p]
         /\ \A s \in Rels : \A m \in hold[s][p] : m \in hold'[s][p] \/ (s = k[1] /\ m = k[2])
  <2>1. PICK r \in Rels, ms \in SUBSET {k[2]} : r = k[1] /\ ReleaseInTable(p, r, ms)
    BY Zenon, <1>3, <1>5
  <2>2. QED
    BY <1>5, <2>1, ReleaseWakens
<1>7. Types'
  <2>1. DOMAIN pc' = Procs /\ DOMAIN req' = Procs
    BY Zenon, <1>4 DEF Types
  <2>2. QED
    BY Zenon, <1>3, <1>6, <2>1, WakeningTypes DEF Types
<1>8. /\ inTable'[p] = inTable[p] \ {k}
      /\ \/ k \in strongHeld[p] /\ pc'[p] = "forget" /\ req'[p] = req[p]
         \/ k \notin strongHeld[p] /\ pc'[p] = "idle"
      /\ \A x \in Procs \ {p} : pc'[x] = pc[x] /\ inTable'[x] = inTable[x] /\ req'[x] = req[x]
  BY Zenon, <1>3, <1>4 DEF Types
<1>9. nLocks[p][k] = 0
  BY Zenon, <1>1, <1>2 DEF Control
<1>10. \A l \in Locks : Owns(p, l)' => Owns(p, l) /\ l # k
  BY <1>1, <1>3, <1>8, <1>9 DEF Owns, Lock
<1>11. Control(p)'
  BY Zenon, <1>1, <1>2, <1>3, <1>8, <1>9 DEF Control, Asking, Lock
<1>12. Strong(p)'
  <2>1. \A l \in strongHeld[p] : nLocks[p][l] > 0 => l \in inTable'[p]
    BY <1>8, <1>9 DEF Strong
  <2>2. ~inProgress[p] /\ \A l \in strongHeld[p] : nLocks[p][l] = 0 => l = k
    BY Zenon, <1>1, <1>2 DEF Control, Strong
  <2>3. CASE k \in strongHeld[p]
    BY Zenon, <1>2, <1>3, <1>8, <2>1, <2>2, <2>3 DEF Strong, Lock
  <2>4. CASE k \notin strongHeld[p]
    BY Zenon, <1>3, <2>1, <2>2, <2>4 DEF Strong
  <2>5. QED
    BY Zenon, <2>3, <2>4
<1>13. Owned(p)'
  <2>1. \A r \in Rels, m \in Modes : m \in hold[r][p] /\ <<r, m>> # k => m \in hold'[r][p]
    BY Zenon, <1>6, LockPairs
  <2>2. QED
    BY Zenon, <1>3, <1>10, <2>1, LockPairs DEF Owned
<1>14. Bystanders(p) /\ WakesQuietly(p, G)
  BY Zenon, <1>1, <1>3, <1>6, <1>8, <1>10 DEF Bystanders, WakesQuietly, Kept
<1>15. QED
  BY Zenon, <1>6, <1>7, <1>11, <1>12, <1>13, <1>14, WakeningStep DEF Local

(* LockReleaseAll finds a lock that was moved to the table *)
LEMMA LockRefindAndReleaseStep ==
    ASSUME ConflictInv, NEW p \in Procs, NEW l \in Locks, Types, Control(p), Strong(p), Owned(p),
           LockRefindAndRelease(p, l), setting' = setting
    PROVE  ConflictInv'
<1>1. /\ pc[p] = "release_all" /\ pc' = pc /\ req' = req
      /\ nLocks[p][l] > 0 /\ l \notin inTable[p]
      /\ nLocks' = [nLocks EXCEPT ![p][l] = 0] /\ inTable' = inTable
      /\ UnGrantFast(p, l) /\ backendLock' = [backendLock EXCEPT ![p] = Nobody] /\ StrongSame
      /\ lockAwaited' = lockAwaited /\ deadlockTimer' = deadlockTimer
      /\ ReleaseInTable(p, l[1], {l[2]} \cap hold[l[1]][p])
  BY Zenon DEF LockRefindAndRelease, strong, waiting, timers
<1>2. /\ fpLocks' \in [Procs -> [Rels -> SUBSET Modes]]
      /\ \A r \in Rels : fpLocks'[p][r] \subseteq fpLocks[p][r]
      /\ \A r \in Rels, m \in Modes : <<r, m>> # l /\ m \in fpLocks[p][r] => m \in fpLocks'[p][r]
      /\ \A x \in Procs \ {p} : fpLocks'[x] = fpLocks[x]
  BY Zenon, <1>1, UnGranted
<1>3. l[1] \in Rels /\ \A r \in Rels : p \notin Members(queue[r])
  BY Zenon, <1>1, LockPairs DEF ConflictInv, QueuesOK
<1>4. PICK G \in SUBSET Procs :
         /\ Wakening(p, G) /\ p \notin G
         /\ \A s \in Rels : p \notin Members(queue'[s])
         /\ waitStatus'[p] = waitStatus[p]
         /\ \A s \in Rels : \A m \in hold[s][p] : m \in hold'[s][p] \/ (s = l[1] /\ m = l[2])
  <2>1. PICK r \in Rels, ms \in SUBSET {l[2]} : r = l[1] /\ ReleaseInTable(p, r, ms)
    BY Zenon, <1>1, <1>3
  <2>2. QED
    BY <1>3, <2>1, ReleaseWakens
<1>5. nLocks' \in [Procs -> [Locks -> Nat]]
  BY Zenon, <1>1 DEF Types
<1>6. Types'
  BY Zenon, <1>1, <1>2, <1>4, <1>5, WakeningTypes DEF Types
<1>7. /\ nLocks'[p][l] = 0 /\ (\A k \in Locks \ {l} : nLocks'[p][k] = nLocks[p][k])
      /\ \A x \in Procs \ {p} : nLocks'[x] = nLocks[x] /\ backendLock'[x] = backendLock[x]
  BY Zenon, <1>1 DEF Types
<1>8. \A k \in Locks : Owns(p, k)' => Owns(p, k) /\ k # l
  <2>1. \A k \in Locks : Owns(p, k)' => k # l
    BY <1>7 DEF Owns
  <2>2. QED
    BY Zenon, <1>1, <1>7, <2>1 DEF Owns, Lock
<1>9. Control(p)'
  BY Zenon, <1>1, <1>7 DEF Control, Asking, Lock
<1>10. Strong(p)'
  <2>1. \A k \in strongHeld[p] : k \in Locks /\ k # l
    BY Zenon, <1>1 DEF Strong, Types
  <2>2. QED
    BY Zenon, <1>1, <1>7, <2>1 DEF Strong, Lock
<1>11. Owned(p)'
  <2>1. \A r \in Rels, m \in Modes : m \in hold[r][p] /\ <<r, m>> # l => m \in hold'[r][p]
    BY Zenon, <1>4, LockPairs
  <2>2. QED
    BY Zenon, <1>1, <1>2, <1>8, <2>1, LockPairs DEF Owned
<1>12. Bystanders(p) /\ WakesQuietly(p, G)
  BY Zenon, <1>1, <1>2, <1>4, <1>7, <1>8 DEF Bystanders, WakesQuietly, Kept
<1>13. QED
  BY Zenon, <1>4, <1>6, <1>9, <1>10, <1>11, <1>12, WakeningStep DEF Local

(* LockReleaseAll gives back what the proclock of a relation holds *)
LEMMA ReleaseProcLockStep ==
    ASSUME ConflictInv, NEW p \in Procs, NEW r \in Rels, Types, Control(p), Strong(p), Owned(p),
           ReleaseProcLock(p, r), setting' = setting
    PROVE  ConflictInv'
<1>1. /\ pc[p] = "proclocks" /\ pc' = pc /\ req' = req
      /\ LocalSame /\ StrongSame /\ SlotsSame
      /\ lockAwaited' = lockAwaited /\ deadlockTimer' = deadlockTimer
      /\ ReleaseInTable(p, r, ToRelease(p, r))
  BY Zenon DEF ReleaseProcLock, strong, fastPath, waiting, timers
<1>2. \A s \in Rels : p \notin Members(queue[s])
  BY Zenon, <1>1, LockPairs DEF ConflictInv, QueuesOK
<1>3. PICK G \in SUBSET Procs :
         /\ Wakening(p, G) /\ p \notin G
         /\ \A s \in Rels : p \notin Members(queue'[s])
         /\ waitStatus'[p] = waitStatus[p]
  BY <1>1, <1>2, ReleaseWakens
<1>4. Types'
  BY Zenon, <1>1, <1>3, WakeningTypes DEF Types
<1>5. \A l \in Locks : ~Owns(p, l)'
  BY <1>1 DEF Control, Owns
<1>6. Control(p)' /\ Strong(p)'
  BY Zenon, <1>1 DEF Control, Strong, Asking, Lock
<1>7. Owned(p)'
  BY Zenon, <1>1, <1>5, LockPairs DEF Owned
<1>8. Bystanders(p) /\ WakesQuietly(p, G)
  BY Zenon, <1>1, <1>3, <1>5 DEF Bystanders, WakesQuietly, Kept
<1>9. QED
  BY Zenon, <1>3, <1>4, <1>6, <1>7, <1>8, WakeningStep DEF Local

(* The deadlock check of a sleeping backend denies the lock, rearranges the queues or *)
(* panics.                                                                            *)
LEMMA CheckDeadLockStep ==
    ASSUME ConflictInv, NEW p \in Procs, Types, Control(p), Strong(p), Owned(p),
           CheckDeadLock(p), setting' = setting
    PROVE  ConflictInv'
<1>1. /\ deadlockTimer[p] /\ deadlockTimer' = [deadlockTimer EXCEPT ![p] = FALSE]
      /\ req' = req /\ LocalSame /\ StrongSame /\ SlotsSame /\ lockAwaited' = lockAwaited
  BY Zenon DEF CheckDeadLock, localLocks, strong, fastPath
<1>2. pc[p] \in {"sleep", "error"} /\ req[p] \in Requests /\ req[p].rel \in Rels
  BY Zenon, <1>1 DEF Control, Asking, Requests
<1>3. \/ pc' = pc /\ TableSame /\ waitStatus' = waitStatus
      \/ pc' = pc /\ \E rq, mask : RemoveFromWaitQueue(p, rq, mask, "error", {p})
      \/ pc' = pc /\ \E new, rq, mask, posted : \E rels \in SUBSET Rels :
            Rearranges(new) /\ ProcLockWakeup(hold, new, rq, mask, rels, waitStatus, posted)
      \/ pc' = [pc EXCEPT ![p] = "panic"] /\ TableSame /\ waitStatus' = waitStatus
  <2>1. CASE p \notin Members(queue[req[p].rel])
    BY Zenon, <2>1 DEF CheckDeadLock, table, wakeup
  <2>2. CASE p \in Members(queue[req[p].rel])
    <3>1. PICK new \in DeadLockCheck(p) :
             \/ RemoveFromWaitQueue(p, requested, waitMask, "error", {p}) /\ UNCHANGED pc
             \/ /\ Rearranges(new)
                /\ ProcLockWakeup(hold, new, requested, waitMask,
                                  {r \in Rels : new[r] # queue[r]}, waitStatus, {p})
                /\ UNCHANGED pc
             \/ Goto(p, "panic") /\ UNCHANGED <<table, wakeup>>
      BY Zenon, <2>2 DEF CheckDeadLock
    <3>2. {r \in Rels : new[r] # queue[r]} \in SUBSET Rels
      BY Zenon
    <3>3. QED
      BY Zenon, <3>1, <3>2 DEF Goto, table, wakeup
  <2>3. QED
    BY Zenon, <2>1, <2>2
<1>4. PICK G \in SUBSET Procs :
         /\ Wakening(p, G)
         /\ \A r \in Rels : hold[r][p] \subseteq hold'[r][p]
         /\ waitStatus'[p] = "ok" => p \in G \/ waitStatus[p] = "ok"
         /\ (\A r \in Rels : p \notin Members(queue'[r])) \/ waitStatus'[p] = waitStatus[p]
  <2>1. CASE TableSame /\ waitStatus' = waitStatus
    <3>1. Wakening(p, {})
      BY Zenon, <2>1, NobodyWakens DEF Types
    <3>2. QED
      BY Zenon, <2>1, <3>1
  <2>2. CASE \E rq, mask : RemoveFromWaitQueue(p, rq, mask, "error", {p})
    <3>1. PICK G \in SUBSET Procs :
             /\ Wakening(p, G) /\ p \notin G
             /\ \A r \in Rels : p \notin Members(queue'[r])
             /\ waitStatus'[p] = "error"
             /\ \A r \in Rels : hold[r][p] \subseteq hold'[r][p]
      BY Zenon, <1>2, <2>2, RemoveWakens
    <3>2. QED
      BY Zenon, <3>1
  <2>3. CASE \E new, rq, mask, posted : \E rels \in SUBSET Rels :
            Rearranges(new) /\ ProcLockWakeup(hold, new, rq, mask, rels, waitStatus, posted)
    <3>1. PICK new : /\ Rearranges(new)
                     /\ \E rq, mask, posted : \E rels \in SUBSET Rels :
                           ProcLockWakeup(hold, new, rq, mask, rels, waitStatus, posted)
      BY Zenon, <2>3
    <3>2. WakesFrom(p, hold, new, waitStatus)
      BY Zenon, <3>1 DEF Rearranges, WakesFrom, Types
    <3>3. PICK G \in SUBSET Procs :
             /\ Wakening(p, G)
             /\ waitStatus'[p] = IF p \in G THEN "ok" ELSE waitStatus[p]
             /\ \A r \in Rels : hold[r][p] \subseteq hold'[r][p]
      BY Zenon, <3>1, <3>2, WakeupWakens
    <3>4. p \in G => \A r \in Rels : p \notin Members(queue'[r])
      BY Zenon, <3>3 DEF Wakening
    <3>5. QED
      BY Zenon, <3>3, <3>4
  <2>4. QED
    BY Zenon, <1>3, <2>1, <2>2, <2>3
<1>5. /\ deadlockTimer'[p] = FALSE /\ \A x \in Procs \ {p} : deadlockTimer'[x] = deadlockTimer[x]
      /\ DOMAIN deadlockTimer' = Procs
  BY Zenon, <1>1 DEF Types
<1>6. /\ DOMAIN pc' = Procs /\ \A x \in Procs \ {p} : pc'[x] = pc[x]
      /\ pc'[p] = pc[p] \/ pc'[p] = "panic"
  BY Zenon, <1>3 DEF Types
<1>7. Types'
  BY Zenon, <1>1, <1>4, <1>5, <1>6, WakeningTypes DEF Types
<1>8. \A l \in Locks : Owns(p, l)' => Owns(p, l)
  BY Zenon, <1>1, <1>2, <1>6 DEF Owns, Lock
<1>9. waitStatus'[p] = "ok" /\ pc[p] = "sleep" => req[p].mode \in hold'[req[p].rel][p]
  BY Zenon, <1>2, <1>4 DEF Control, Wakening
<1>10. Control(p)'
  BY Zenon, <1>1, <1>2, <1>5, <1>6, <1>9 DEF Control, Asking, Lock
<1>11. Strong(p)'
  BY Zenon, <1>1, <1>2, <1>6 DEF Strong, Lock
<1>12. Owned(p)'
  BY Zenon, <1>1, <1>4, <1>8, LockPairs DEF Owned
<1>13. Bystanders(p)
  BY Zenon, <1>1, <1>5, <1>6 DEF Bystanders, Kept
<1>14. WakesQuietly(p, G)
  BY Zenon, <1>1, <1>2, <1>4, <1>6, <1>8 DEF WakesQuietly
<1>15. QED
  BY Zenon, <1>4, <1>7, <1>10, <1>11, <1>12, <1>13, <1>14, WakeningStep DEF Local

=============================================================================
