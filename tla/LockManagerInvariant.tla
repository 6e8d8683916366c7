------------------------ MODULE LockManagerInvariant ------------------------
(***************************************************************************)
(* The inductive invariant behind NoConflict of LockManager, what          *)
(* preserves its parts, and that the steps that grant nothing and leave    *)
(* the lock table alone preserve it.                                       *)
(***************************************************************************)
EXTENDS LockManager, TLAPS

(* The places of a backend inside LockAcquire, or on its way out with an error *)
Asking == {"fast_path", "transfer", "table", "sleep", "woken", "error", "cleanup", "panic"}

(* The types of what the argument is about, as far as it needs them *)
Types ==
    /\ DOMAIN pc = Procs /\ DOMAIN req = Procs /\ DOMAIN inTable = Procs
    /\ DOMAIN inProgress = Procs /\ DOMAIN untransferred = Procs /\ DOMAIN backendLock = Procs
    /\ DOMAIN waitStatus = Procs /\ DOMAIN deadlockTimer = Procs /\ DOMAIN lockAwaited = Procs
    /\ nLocks \in [Procs -> [Locks -> Nat]]
    /\ strongHeld \in [Procs -> SUBSET Locks]
    /\ fpLocks \in [Procs -> [Rels -> SUBSET Modes]]
    /\ hold \in [Rels -> [Procs -> SUBSET Modes]]
    /\ DOMAIN queue = Rels
    /\ setting \in Settings

(* What a backend knows of its own state: of the request it makes, ... *)
Control(p) ==
    /\ pc[p] \in Asking \cup {"cleaned", "release", "forget"} => req[p] \in Requests
    /\ pc[p] \in Asking \cup {"release", "forget"} => nLocks[p][Lock(p)] = 0
    /\ pc[p] = "fast_path" => req[p].mode < 4 /\ backendLock[p] = p
    /\ pc[p] = "transfer" => req[p].mode > 4
    /\ pc[p] \in {"transfer", "table", "sleep", "woken"} /\ req[p].mode > 4
          => Lock(p) \in strongHeld[p]
    /\ inProgress[p] =>
          /\ pc[p] \in {"transfer", "table", "sleep", "woken", "error", "panic"}
          /\ Lock(p) \in strongHeld[p]
    /\ pc[p] \in {"sleep", "woken"} =>
          /\ Lock(p) \in inTable[p]
          /\ waitStatus[p] = "ok" => req[p].mode \in hold[req[p].rel][p]
    /\ pc[p] = "proclocks" => \A l \in Locks : nLocks[p][l] = 0
    /\ deadlockTimer[p] => pc[p] \in {"sleep", "error"}

(* ... of the strong locks it has counted, ... *)
Strong(p) ==
    \A l \in strongHeld[p] :
        /\ l[2] > 4
        /\ nLocks[p][l] > 0 => l \in inTable[p]
        /\ nLocks[p][l] = 0 => Lock(p) = l /\ (inProgress[p] \/ pc[p] \in {"release", "forget"})

(* ... and of the locks it owns *)
Owned(p) ==
    /\ \A r \in Rels : \A m \in fpLocks[p][r] : m < 4
    /\ \A r \in Rels, m \in Modes : Owns(p, <<r, m>>) =>
          /\ m \in fpLocks[p][r] \/ m \in hold[r][p]
          /\ m > 4 => <<r, m>> \in strongHeld[p]

Local(p) == Control(p) /\ Strong(p) /\ Owned(p)

(* The wait queues: total orders of backends that wait for the relation *)
QueuesOK(q) ==
    \A r \in Rels :
        /\ \A p \in Members(q[r]) :
              /\ req[p].rel = r /\ waitStatus[p] = "waiting" /\ lockAwaited[p]
              /\ pc[p] \in {"sleep", "error", "cleanup", "panic"}
        /\ \A x, y \in Members(q[r]) : <<x, y>> \in q[r] \/ <<y, x>> \in q[r]

(* x, which asks for the strong lock, has yet to move the slots of p to the table *)
Transferring(x, p, r, s) == pc[x] = "transfer" /\ Lock(x) = <<r, s>> /\ p \in untransferred[x]

(* A counted strong lock of a relation and the fast path exclude each other: but for *)
(* the slots still to be moved, nobody has a lock of the relation in its slots or is *)
(* about to enter one.                                                               *)
FastExcluded ==
    \A x, p \in Procs, r \in Rels, s \in Modes : <<r, s>> \in strongHeld[x] =>
        \/ Transferring(x, p, r, s)
        \/ fpLocks[p][r] = {} /\ ~(pc[p] = "fast_path" /\ req[p].rel = r)

(* The lock is granted in the table, and p owns it or will when it wakes.  A lock that *)
(* was granted to a wait which failed is only there to be given back.                  *)
Live(p, r, m) ==
    /\ m \in hold[r][p]
    /\ Owns(p, <<r, m>>) \/ (pc[p] \in {"sleep", "woken"} /\ Lock(p) = <<r, m>> /\ waitStatus[p] = "ok")

(* The locks granted in the table do not conflict *)
TableExcludes ==
    \A p, x \in Procs, r \in Rels, m, n \in Modes :
        p # x /\ Live(p, r, m) /\ Live(x, r, n) => n \notin LockConflicts[m]

(* The inductive invariant, but for the strong lock counts (LockManagerProofs) *)
ConflictInv ==
    /\ Types
    /\ \A p \in Procs : Local(p)
    /\ QueuesOK(queue)
    /\ FastExcluded
    /\ TableExcludes

-----------------------------------------------------------------------------
(* Lemmas *)

(* The conflict table is symmetric *)
LEMMA ConflictsSymmetric ==
    \A m, n \in 1 .. 8 : n \in LockConflicts[m] <=> m \in LockConflicts[n]
  BY DEF LockConflicts

(* The weak modes conflict with strong ones only *)
LEMMA WeakConflicts ==
    \A m, n \in 1 .. 8 : m < 4 /\ n \in LockConflicts[m] => n > 4
  BY DEF LockConflicts

(* The locks are pairs of a relation and a mode *)
LEMMA LockPairs ==
    /\ \A r \in Rels, m \in Modes : <<r, m>> \in Locks
    /\ \A q \in Requests : <<q.rel, q.mode>> \in Locks
    /\ \A l \in Locks : l = <<l[1], l[2]>> /\ l[1] \in Rels /\ l[2] \in Modes /\ l[2] \in Nat
<1>1. \A m \in Modes : m \in Nat
  BY LockConstants
<1>2. QED
  BY <1>1 DEF Locks, Requests

(* What a step of another backend leaves alone *)
Kept(x) ==
    /\ pc'[x] = pc[x] /\ req'[x] = req[x]
    /\ nLocks'[x] = nLocks[x] /\ inTable'[x] = inTable[x]
    /\ strongHeld'[x] = strongHeld[x] /\ inProgress'[x] = inProgress[x]
    /\ untransferred'[x] = untransferred[x] /\ lockAwaited'[x] = lockAwaited[x]
    /\ deadlockTimer'[x] => deadlockTimer[x]

(* What a backend knows of itself survives the steps of the others: they may move its *)
(* locks from the slots to the table and grant it the lock it waits for.              *)
LEMMA LocalKept ==
    ASSUME Types, Types', NEW x \in Procs, Local(x), Kept(x),
           backendLock'[x] = backendLock[x] \/ pc[x] # "fast_path",
           \A r \in Rels : /\ fpLocks'[x][r] \subseteq fpLocks[x][r]
                           /\ fpLocks[x][r] \subseteq fpLocks'[x][r] \cup hold'[r][x]
                           /\ hold[r][x] \subseteq hold'[r][x],
           waitStatus'[x] = "ok" =>
              waitStatus[x] = "ok" \/ (req[x] \in Requests => req[x].mode \in hold'[req[x].rel][x])
    PROVE  Local(x)'
<1> USE DEF Kept, Lock
<1>1. pc[x] \in Asking \cup {"cleaned", "release", "forget"} => req[x] \in Requests
  BY Zenon DEF Local, Control
<1>2. pc[x] \in {"sleep", "woken"} /\ waitStatus'[x] = "ok" => req[x].mode \in hold'[req[x].rel][x]
  <2>1. pc[x] \in {"sleep", "woken"} => req[x].rel \in Rels
    BY Zenon, <1>1 DEF Asking, Requests
  <2>2. QED
    BY Zenon, <1>1, <2>1 DEF Local, Control, Asking
<1>3. Owned(x)'
  BY Zenon DEF Local, Owned, Owns
<1>4. Strong(x)'
  BY Zenon DEF Local, Strong
<1>5. Control(x)'
  BY Zenon, <1>1, <1>2 DEF Local, Control
<1>6. QED
  BY Zenon, <1>3, <1>4, <1>5 DEF Local

(* Nothing new is excluded, and nobody enters the fast path *)
LEMMA FastKept ==
    ASSUME FastExcluded,
           \A x \in Procs : strongHeld'[x] \subseteq strongHeld[x],
           \A x \in Procs : pc[x] = "transfer" =>
              pc'[x] = "transfer" /\ req'[x] = req[x] /\ untransferred'[x] = untransferred[x],
           \A x \in Procs, r \in Rels : fpLocks'[x][r] \subseteq fpLocks[x][r],
           \A x \in Procs : pc'[x] = "fast_path" => pc[x] = "fast_path" /\ req'[x] = req[x]
    PROVE  FastExcluded'
  BY DEF FastExcluded, Transferring, Lock

(* A step of p: the other backends, but for their part of the table *)
Frame(p) ==
    \A x \in Procs \ {p} :
        /\ Kept(x) /\ fpLocks'[x] = fpLocks[x] /\ waitStatus'[x] = waitStatus[x]
        /\ backendLock'[x] = backendLock[x] \/ pc[x] # "fast_path"

(* A step that leaves the table alone keeps what the other backends know *)
LEMMA FrameLocal ==
    ASSUME ConflictInv, NEW p \in Procs, Types', Frame(p), hold' = hold
    PROVE  \A x \in Procs \ {p} : Local(x)'
<1> SUFFICES ASSUME NEW x \in Procs, x # p PROVE Local(x)'
  OBVIOUS
<1>1. Types /\ Local(x) /\ Kept(x)
  BY Zenon DEF ConflictInv, Frame
<1>2. fpLocks'[x] = fpLocks[x] /\ waitStatus'[x] = waitStatus[x]
  BY Zenon DEF Frame
<1>3. backendLock'[x] = backendLock[x] \/ pc[x] # "fast_path"
  BY Zenon DEF Frame
<1>4. QED
  BY Zenon, <1>1, <1>2, <1>3, LocalKept

(* What p may do to its place in a queue while it is in one *)
StaysQueued(p) ==
    \/ \A r \in Rels : p \notin Members(queue[r])
    \/ /\ req'[p] = req[p] /\ waitStatus'[p] = waitStatus[p] /\ lockAwaited'[p] = lockAwaited[p]
       /\ pc'[p] \in {"sleep", "error", "cleanup", "panic"}

(* The queues stay as they are, and so do the waiters *)
LEMMA QueuesKept ==
    ASSUME ConflictInv, NEW p \in Procs, queue' = queue, StaysQueued(p),
           \A x \in Procs \ {p} : Kept(x) /\ waitStatus'[x] = waitStatus[x]
    PROVE  QueuesOK(queue)'
<1>1. \A x \in Procs \ {p} : /\ pc'[x] = pc[x] /\ req'[x] = req[x]
                              /\ waitStatus'[x] = waitStatus[x] /\ lockAwaited'[x] = lockAwaited[x]
  BY Zenon DEF Kept
<1>2. ASSUME NEW r \in Rels, NEW x \in Members(queue[r])
      PROVE  /\ req'[x].rel = r /\ waitStatus'[x] = "waiting" /\ lockAwaited'[x]
             /\ pc'[x] \in {"sleep", "error", "cleanup", "panic"}
  <2>1. /\ x \in Procs /\ req[x].rel = r /\ waitStatus[x] = "waiting" /\ lockAwaited[x]
        /\ pc[x] \in {"sleep", "error", "cleanup", "panic"}
    BY Zenon DEF ConflictInv, QueuesOK, Members
  <2>2. CASE x # p
    BY Zenon, <1>1, <2>1, <2>2
  <2>3. CASE x = p
    BY Zenon, <2>1, <2>3 DEF StaysQueued
  <2>4. QED
    BY Zenon, <2>2, <2>3
<1>3. QueuesOK(queue)
  BY Zenon DEF ConflictInv
<1>4. QED
  BY Zenon, <1>2, <1>3 DEF QueuesOK, Members

(* A step of p keeps the queues *)
LEMMA FrameQueues ==
    ASSUME ConflictInv, NEW p \in Procs, Frame(p), queue' = queue, StaysQueued(p)
    PROVE  QueuesOK(queue)'
  BY Zenon, QueuesKept DEF Frame

(* A step of p that enters no slot keeps strong locks and slots apart *)
LEMMA FrameFast ==
    ASSUME ConflictInv, NEW p \in Procs, Frame(p), pc[p] # "transfer", pc'[p] # "fast_path",
           strongHeld'[p] \subseteq strongHeld[p],
           \A r \in Rels : fpLocks'[p][r] \subseteq fpLocks[p][r]
    PROVE  FastExcluded'
<1>1. \A x \in Procs : strongHeld'[x] \subseteq strongHeld[x]
  BY Zenon DEF Frame, Kept
<1>2. \A x \in Procs : pc[x] = "transfer" =>
          pc'[x] = "transfer" /\ req'[x] = req[x] /\ untransferred'[x] = untransferred[x]
  BY Zenon DEF Frame, Kept
<1>3. \A x \in Procs, r \in Rels : fpLocks'[x][r] \subseteq fpLocks[x][r]
  BY Zenon DEF Frame
<1>4. \A x \in Procs : pc'[x] = "fast_path" => pc[x] = "fast_path" /\ req'[x] = req[x]
  BY Zenon DEF Frame, Kept
<1>5. QED
  BY Zenon, <1>1, <1>2, <1>3, <1>4, FastKept DEF ConflictInv

(* A step of p that is granted nothing keeps the table free of conflicts *)
LEMMA FrameTable ==
    ASSUME ConflictInv, NEW p \in Procs, Frame(p), hold' = hold,
           \A r \in Rels, m \in Modes : Live(p, r, m)' => Live(p, r, m)
    PROVE  TableExcludes'
<1>1. \A x \in Procs, r \in Rels, m \in Modes : Live(x, r, m)' => Live(x, r, m)
  <2> SUFFICES ASSUME NEW x \in Procs, x # p, NEW r \in Rels, NEW m \in Modes, Live(x, r, m)'
               PROVE  Live(x, r, m)
    OBVIOUS
  <2>1. QED
    BY Zenon DEF Frame, Kept, Live, Owns, Lock
<1>2. QED
  BY Zenon, <1>1 DEF ConflictInv, TableExcludes

(* A step of p that grants nothing and leaves the table alone *)
Quiet(p) ==
    /\ UNCHANGED <<hold, queue>>
    /\ Frame(p)
    /\ \A r \in Rels : fpLocks'[p][r] \subseteq fpLocks[p][r]
    /\ strongHeld'[p] \subseteq strongHeld[p]
    /\ pc[p] # "transfer" /\ pc'[p] # "fast_path"
    /\ StaysQueued(p)
    /\ \A l \in Locks : Owns(p, l)' => Owns(p, l)
    /\ pc'[p] \in {"sleep", "woken"} =>
          pc[p] \in {"sleep", "woken"} /\ req'[p] = req[p] /\ waitStatus'[p] = waitStatus[p]

(* Such a step preserves the invariant *)
LEMMA QuietStep ==
    ASSUME ConflictInv, NEW p \in Procs, Types', Quiet(p), Local(p)'
    PROVE  ConflictInv'
<1>1. \A x \in Procs : Local(x)'
  BY Zenon, FrameLocal DEF Quiet
<1>2. QueuesOK(queue)'
  BY Zenon, FrameQueues DEF Quiet
<1>3. FastExcluded'
  BY Zenon, FrameFast DEF Quiet
<1>4. TableExcludes'
  <2>1. \A r \in Rels, m \in Modes : Live(p, r, m)' => Live(p, r, m)
    BY Zenon, LockPairs DEF Quiet, Live, Lock
  <2>2. QED
    BY Zenon, <2>1, FrameTable DEF Quiet
<1>5. QED
  BY Zenon, <1>1, <1>2, <1>3, <1>4 DEF ConflictInv

(* The variables of one part are left alone *)
LocalSame == nLocks' = nLocks /\ inTable' = inTable
StrongSame ==
    strongHeld' = strongHeld /\ inProgress' = inProgress /\ untransferred' = untransferred
SlotsSame == fpLocks' = fpLocks /\ backendLock' = backendLock
TableSame == hold' = hold /\ queue' = queue
WaitSame == waitStatus' = waitStatus /\ lockAwaited' = lockAwaited /\ deadlockTimer' = deadlockTimer

USE DEF LocalSame, StrongSame, SlotsSame, TableSame, WaitSame

(* A step that changes nothing the invariant is about *)
LEMMA SameStep ==
    ASSUME ConflictInv, pc' = pc, req' = req, LocalSame, StrongSame, SlotsSame, TableSame, WaitSame,
           UNCHANGED setting
    PROVE  ConflictInv'
<1>1. Types'
  BY Zenon DEF ConflictInv, Types
<1>2. \A x \in Procs : Local(x)'
  BY DEF ConflictInv, Local, Control, Strong, Owned, Owns, Lock
<1>3. FastExcluded' /\ TableExcludes'
  BY DEF ConflictInv, FastExcluded, TableExcludes, Transferring, Live, Owns, Lock
<1>4. QueuesOK(queue)'
  BY Zenon DEF ConflictInv, QueuesOK, Members
<1>5. QED
  BY Zenon, <1>1, <1>2, <1>3, <1>4 DEF ConflictInv

(* AbortStrongLockAcquire and DropStrongCount, but for the count itself *)
LEMMA StrongAborted ==
    ASSUME Types, NEW p \in Procs, AbortStrongLockAcquire(p)
    PROVE  /\ strongHeld' \in [Procs -> SUBSET Locks]
           /\ DOMAIN inProgress' = Procs /\ DOMAIN untransferred' = Procs
           /\ \A x \in Procs \ {p} : /\ strongHeld'[x] = strongHeld[x]
                                    /\ inProgress'[x] = inProgress[x]
                                    /\ untransferred'[x] = untransferred[x]
           /\ strongHeld'[p] = IF inProgress[p] THEN strongHeld[p] \ {Lock(p)} ELSE strongHeld[p]
           /\ inProgress'[p] = FALSE
<1>1. strongHeld' \in [Procs -> SUBSET Locks]
  BY Zenon DEF Types, AbortStrongLockAcquire
<1>2. DOMAIN inProgress' = Procs /\ DOMAIN untransferred' = Procs
  BY Zenon DEF Types, AbortStrongLockAcquire
<1>3. \A x \in Procs \ {p} : /\ strongHeld'[x] = strongHeld[x]
                            /\ inProgress'[x] = inProgress[x]
                            /\ untransferred'[x] = untransferred[x]
  BY Zenon DEF Types, AbortStrongLockAcquire
<1>4. /\ strongHeld'[p] = IF inProgress[p] THEN strongHeld[p] \ {Lock(p)} ELSE strongHeld[p]
      /\ inProgress'[p] = FALSE
  BY Zenon DEF Types, AbortStrongLockAcquire
<1>5. QED
  BY Zenon, <1>1, <1>2, <1>3, <1>4

(* DropStrongCount, but for the count itself *)
LEMMA StrongDropped ==
    ASSUME Types, NEW p \in Procs, NEW l \in Locks, DropStrongCount(p, l)
    PROVE  /\ strongHeld' \in [Procs -> SUBSET Locks]
           /\ inProgress' = inProgress /\ untransferred' = untransferred
           /\ \A x \in Procs \ {p} : strongHeld'[x] = strongHeld[x]
           /\ strongHeld'[p] = strongHeld[p] \ {l}
  BY Zenon DEF Types, DropStrongCount

(* FastPathUnGrantRelationLock *)
LEMMA UnGranted ==
    ASSUME Types, NEW p \in Procs, NEW l \in Locks, UnGrantFast(p, l)
    PROVE  /\ fpLocks' \in [Procs -> [Rels -> SUBSET Modes]]
           /\ \A r \in Rels : fpLocks'[p][r] \subseteq fpLocks[p][r]
           /\ \A r \in Rels, m \in Modes : <<r, m>> # l /\ m \in fpLocks[p][r] => m \in fpLocks'[p][r]
           /\ \A x \in Procs \ {p} : fpLocks'[x] = fpLocks[x]
<1>1. l[1] \in Rels /\ fpLocks' = [fpLocks EXCEPT ![p] = [fpLocks[p] EXCEPT ![l[1]] = @ \ {l[2]}]]
  BY Zenon, LockPairs DEF UnGrantFast
<1>2. fpLocks' \in [Procs -> [Rels -> SUBSET Modes]]
  BY <1>1 DEF Types
<1>3. /\ \A x \in Procs \ {p} : fpLocks'[x] = fpLocks[x]
      /\ \A r \in Rels : fpLocks'[p][r] = IF r = l[1] THEN fpLocks[p][r] \ {l[2]} ELSE fpLocks[p][r]
  BY Zenon, <1>1 DEF Types
<1>4. \A r \in Rels, m \in Modes : <<r, m>> # l /\ m \in fpLocks[p][r] => m \in fpLocks'[p][r]
  BY Zenon, <1>3, LockPairs
<1>5. QED
  BY Zenon, <1>2, <1>3, <1>4

-----------------------------------------------------------------------------
(* Steps that leave the table alone *)

(* The backend only goes on: a request that goes to the table, the end of a        *)
(* transaction or of a subtransaction, an interrupt or a post that ends the sleep  *)
LEMMA MoveStep ==
    ASSUME ConflictInv, NEW p \in Procs, Types, Control(p), Strong(p), Owned(p),
           DOMAIN pc' = Procs, DOMAIN req' = Procs, DOMAIN deadlockTimer' = Procs,
           \A x \in Procs \ {p} : /\ pc'[x] = pc[x] /\ req'[x] = req[x]
                                  /\ deadlockTimer'[x] = deadlockTimer[x],
           \/ /\ pc[p] = "idle" /\ pc'[p] = "table" /\ req'[p] \in Requests
              /\ nLocks[p][Lock(p)'] = 0 /\ ~(req'[p].mode > 4)
           \/ pc[p] \in {"idle", "cleaned"} /\ pc'[p] = "release_all" /\ req'[p] = req[p]
           \/ pc[p] = "cleaned" /\ pc'[p] = "idle" /\ nLocks[p][Lock(p)] = 0
           \/ /\ pc[p] = "sleep" /\ pc'[p] \in {"sleep", "error", "woken"} /\ req'[p] = req[p]
              /\ pc'[p] = "woken" => waitStatus[p] # "waiting" /\ ~deadlockTimer'[p],
           deadlockTimer'[p] => deadlockTimer[p],
           LocalSame, StrongSame, SlotsSame, TableSame,
           waitStatus' = waitStatus, lockAwaited' = lockAwaited, setting' = setting
    PROVE  ConflictInv'
<1>3. Types'
  BY Zenon DEF Types
<1>5. \A l \in Locks : Owns(p, l)' => Owns(p, l)
  BY DEF Owns, Lock
<1>6. Control(p)'
  BY Zenon DEF Control, Asking, Lock
<1>7. Strong(p)'
  BY Zenon DEF Control, Strong, Types, Lock
<1>8. Owned(p)'
  BY Zenon, <1>5, LockPairs DEF Owned
<1>9. Quiet(p)
  <2>1. StaysQueued(p)
    <3>1. CASE pc'[p] \in {"sleep", "error"}
      BY Zenon, <3>1 DEF StaysQueued
    <3>2. CASE pc'[p] \notin {"sleep", "error"}
      BY Zenon, <3>2 DEF ConflictInv, QueuesOK, StaysQueued
    <3>3. QED
      BY Zenon, <3>1, <3>2
  <2>2. QED
    BY Zenon, <1>5, <2>1 DEF Quiet, Frame, Kept
<1>10. QED
  BY Zenon, <1>3, <1>6, <1>7, <1>8, <1>9, QuietStep DEF Local

(* A request that goes to the table at once *)
LEMMA AcquireInTableStep ==
    ASSUME ConflictInv, NEW p \in Procs, Types, Control(p), Strong(p), Owned(p),
           NEW q \in Requests, AcquireInTable(p, q), setting' = setting
    PROVE  ConflictInv'
<1>1. /\ pc[p] = "idle" /\ pc' = [pc EXCEPT ![p] = "table"] /\ req' = [req EXCEPT ![p] = q]
      /\ nLocks[p][<<q.rel, q.mode>>] = 0 /\ ~(q.mode > 4)
      /\ LocalSame /\ StrongSame /\ SlotsSame /\ TableSame /\ WaitSame
  BY Zenon DEF AcquireInTable, Ask, Goto, ConflictsWithRelationFastPath, ShareUpdateExclusiveLock,
         localLocks, strong, fastPath, table, wakeup, timers, waiting
<1>2. QED
  BY Zenon, <1>1, MoveStep DEF Types, Lock

(* LockReleaseAll begins *)
LEMMA EndTransactionStep ==
    ASSUME ConflictInv, NEW p \in Procs, Types, Control(p), Strong(p), Owned(p),
           NEW all \in BOOLEAN, EndTransaction(p, all), setting' = setting
    PROVE  ConflictInv'
<1>1. /\ pc[p] \in {"idle", "cleaned"} /\ pc' = [pc EXCEPT ![p] = "release_all"] /\ req' = req
      /\ LocalSame /\ StrongSame /\ SlotsSame /\ TableSame /\ WaitSame
  BY Zenon DEF EndTransaction, Goto, strong, fastPath, table, wakeup, timers, waiting
<1>2. QED
  BY Zenon, <1>1, MoveStep DEF Types

(* A subtransaction ends without the lock it asked for *)
LEMMA AbortSubTransactionStep ==
    ASSUME ConflictInv, NEW p \in Procs, Types, Control(p), Strong(p), Owned(p),
           AbortSubTransaction(p), setting' = setting
    PROVE  ConflictInv'
<1>1. /\ pc[p] = "cleaned" /\ pc' = [pc EXCEPT ![p] = "idle"] /\ nLocks[p][Lock(p)] = 0
      /\ req' = [req EXCEPT ![p] = NoRequest]
      /\ LocalSame /\ StrongSame /\ SlotsSame /\ TableSame /\ WaitSame
  BY Zenon DEF AbortSubTransaction, Return, Goto, localLocks, strong, fastPath, table, wakeup, timers, waiting
<1>2. QED
  BY Zenon, <1>1, MoveStep DEF Types

(* An interrupt ends the wait *)
LEMMA CancelStep ==
    ASSUME ConflictInv, NEW p \in Procs, Types, Control(p), Strong(p), Owned(p),
           Cancel(p), setting' = setting
    PROVE  ConflictInv'
<1>1. /\ pc[p] = "sleep" /\ pc' = [pc EXCEPT ![p] = "error"] /\ req' = req
      /\ LocalSame /\ StrongSame /\ SlotsSame /\ TableSame /\ WaitSame
  BY Zenon DEF Cancel, Goto, localLocks, strong, fastPath, table, wakeup, timers, waiting
<1>2. QED
  BY Zenon, <1>1, MoveStep DEF Types

(* The semaphore lets the backend go on *)
LEMMA WakeStep ==
    ASSUME ConflictInv, NEW p \in Procs, Types, Control(p), Strong(p), Owned(p),
           Wake(p), setting' = setting
    PROVE  ConflictInv'
<1>1. /\ pc[p] = "sleep" /\ req' = req /\ waitStatus' = waitStatus /\ lockAwaited' = lockAwaited
      /\ \/ pc' = [pc EXCEPT ![p] = "error"] /\ deadlockTimer' = deadlockTimer
         \/ pc' = pc /\ deadlockTimer' = deadlockTimer
         \/ /\ pc' = [pc EXCEPT ![p] = "woken"] /\ waitStatus[p] # "waiting"
            /\ deadlockTimer' = [deadlockTimer EXCEPT ![p] = FALSE]
      /\ LocalSame /\ StrongSame /\ SlotsSame /\ TableSame
  BY Zenon DEF Wake, Goto, localLocks, strong, fastPath, table, wakeup, timers, waiting
<1>2. /\ DOMAIN pc' = Procs /\ DOMAIN deadlockTimer' = Procs
      /\ \A x \in Procs \ {p} : pc'[x] = pc[x] /\ deadlockTimer'[x] = deadlockTimer[x]
      /\ pc'[p] \in {"sleep", "error", "woken"}
      /\ pc'[p] = "woken" => waitStatus[p] # "waiting" /\ ~deadlockTimer'[p]
      /\ deadlockTimer'[p] => deadlockTimer[p]
  BY Zenon, <1>1 DEF Types
<1>3. QED
  BY Zenon, <1>1, <1>2, MoveStep DEF Types

(* A lock that is held is counted once more, or once less *)
LEMMA CountStep ==
    ASSUME ConflictInv, NEW p \in Procs, Types, Control(p), Strong(p), Owned(p),
           nLocks' \in [Procs -> [Locks -> Nat]],
           \A x \in Procs \ {p} : nLocks'[x] = nLocks[x],
           \A l \in Locks : nLocks'[p][l] > 0 <=> nLocks[p][l] > 0,
           pc[p] = "idle", pc' = pc, req' = req, inTable' = inTable,
           StrongSame, SlotsSame, TableSame, WaitSame, setting' = setting
    PROVE  ConflictInv'
<1>1. Types'
  BY Zenon DEF Types
<1>2. \A l \in Locks : Owns(p, l)' => Owns(p, l)
  BY Zenon DEF Owns, Lock
<1>3. Control(p)' /\ Strong(p)'
  BY DEF Control, Strong, Types, Asking, Lock
<1>4. Owned(p)'
  BY Zenon, <1>2, LockPairs DEF Owned
<1>5. StaysQueued(p)
  BY Zenon DEF ConflictInv, QueuesOK, StaysQueued
<1>6. Quiet(p)
  BY Zenon, <1>2, <1>5 DEF Quiet, Frame, Kept
<1>7. QED
  BY Zenon, <1>1, <1>3, <1>4, <1>6, QuietStep DEF Local

(* A lock that is only counted once more *)
LEMMA AcquireAgainStep ==
    ASSUME ConflictInv, NEW p \in Procs, Types, Control(p), Strong(p), Owned(p),
           NEW q \in Requests, AcquireAgain(p, q), setting' = setting
    PROVE  ConflictInv'
<1>1. PICK k \in Locks : k = <<q.rel, q.mode>>
  BY Zenon, LockPairs
<1>2. /\ pc[p] = "idle" /\ pc' = pc /\ req' = req /\ nLocks[p][k] > 0
      /\ nLocks' = [nLocks EXCEPT ![p][k] = @ + 1] /\ inTable' = inTable
      /\ StrongSame /\ SlotsSame /\ TableSame /\ WaitSame
  BY <1>1 DEF AcquireAgain, strong, fastPath, table, wakeup, timers, waiting
<1>3. /\ nLocks' \in [Procs -> [Locks -> Nat]]
      /\ \A x \in Procs \ {p} : nLocks'[x] = nLocks[x]
      /\ \A l \in Locks : nLocks'[p][l] > 0 <=> nLocks[p][l] > 0
  BY <1>2 DEF Types
<1>4. QED
  BY Zenon, <1>2, <1>3, CountStep

(* LockRelease of a lock that was taken more than once *)
LEMMA ReleaseOnceStep ==
    ASSUME ConflictInv, NEW p \in Procs, Types, Control(p), Strong(p), Owned(p),
           NEW l \in Locks, ReleaseOnce(p, l), setting' = setting
    PROVE  ConflictInv'
<1>1. /\ pc[p] = "idle" /\ pc' = pc /\ req' = req /\ nLocks[p][l] > 1
      /\ nLocks' = [nLocks EXCEPT ![p][l] = @ - 1] /\ inTable' = inTable
      /\ StrongSame /\ SlotsSame /\ TableSame /\ WaitSame
  BY Zenon DEF ReleaseOnce, strong, fastPath, table, wakeup, timers, waiting
<1>2. /\ nLocks' \in [Procs -> [Locks -> Nat]]
      /\ \A x \in Procs \ {p} : nLocks'[x] = nLocks[x]
      /\ \A k \in Locks : nLocks'[p][k] > 0 <=> nLocks[p][k] > 0
  BY <1>1 DEF Types
<1>3. QED
  BY Zenon, <1>1, <1>2, CountStep

(* AbortStrongLockAcquire, and on to the end of the call or of the error cleanup *)
LEMMA AbortStep ==
    ASSUME ConflictInv, NEW p \in Procs, Types, Control(p), Strong(p), Owned(p),
           AbortStrongLockAcquire(p),
           \A f \in {pc, req, inTable, deadlockTimer, backendLock}' : DOMAIN f = Procs,
           \A x \in Procs \ {p} : /\ pc'[x] = pc[x] /\ req'[x] = req[x] /\ inTable'[x] = inTable[x]
                                  /\ deadlockTimer'[x] = deadlockTimer[x]
                                  /\ backendLock'[x] = backendLock[x] \/ pc[x] # "fast_path",
           \/ pc[p] = "table" /\ pc'[p] = "error" /\ req'[p] = req[p] /\ inTable'[p] = inTable[p]
           \/ pc[p] = "table" /\ pc'[p] = "idle" /\ inTable'[p] = inTable[p] \ {Lock(p)}
           \/ /\ pc[p] = "error" /\ pc'[p] = IF lockAwaited[p] THEN "cleanup" ELSE "cleaned"
              /\ req'[p] = req[p] /\ inTable'[p] = inTable[p] /\ ~deadlockTimer'[p],
           deadlockTimer'[p] => deadlockTimer[p],
           nLocks' = nLocks, fpLocks' = fpLocks, TableSame,
           waitStatus' = waitStatus, lockAwaited' = lockAwaited, setting' = setting
    PROVE  ConflictInv'
<1>1. req[p] \in Requests /\ Lock(p) \in Locks /\ nLocks[p][Lock(p)] = 0
  BY Zenon, LockPairs DEF Control, Asking, Lock
<1>2. /\ strongHeld' \in [Procs -> SUBSET Locks]
      /\ DOMAIN inProgress' = Procs /\ DOMAIN untransferred' = Procs
      /\ \A x \in Procs \ {p} : /\ strongHeld'[x] = strongHeld[x]
                               /\ inProgress'[x] = inProgress[x]
                               /\ untransferred'[x] = untransferred[x]
      /\ strongHeld'[p] = IF inProgress[p] THEN strongHeld[p] \ {Lock(p)} ELSE strongHeld[p]
      /\ inProgress'[p] = FALSE
  BY Zenon, StrongAborted
<1>3. Types'
  BY Zenon, <1>2 DEF Types
<1>4. \A l \in Locks : Owns(p, l)' => Owns(p, l) /\ l # Lock(p)
  BY <1>1 DEF Owns, Lock
<1>5. Control(p)'
  BY Zenon, <1>1, <1>2 DEF Control, Asking, Lock
<1>6. Strong(p)'
  BY SMTT(20), <1>1, <1>2 DEF Control, Strong, Types, Lock, Asking
<1>7. Owned(p)'
  BY Zenon, <1>2, <1>4, LockPairs DEF Owned
<1>8. StaysQueued(p)
  BY Zenon DEF ConflictInv, QueuesOK, StaysQueued
<1>9. Quiet(p)
  BY Zenon, <1>2, <1>4, <1>8 DEF Quiet, Frame, Kept
<1>10. QED
  BY Zenon, <1>3, <1>5, <1>6, <1>7, <1>9, QuietStep DEF Local

(* No shared memory for the lock *)
LEMMA SetupFailsStep ==
    ASSUME ConflictInv, NEW p \in Procs, Types, Control(p), Strong(p), Owned(p),
           SetupFails(p), setting' = setting
    PROVE  ConflictInv'
<1>1. /\ pc[p] = "table" /\ pc' = [pc EXCEPT ![p] = "error"] /\ req' = req
      /\ AbortStrongLockAcquire(p)
      /\ LocalSame /\ SlotsSame /\ TableSame /\ WaitSame
  BY Zenon DEF SetupFails, OutOfSharedMemory, Goto, localLocks, fastPath, table, wakeup, timers, waiting
<1>2. QED
  BY Zenon, <1>1, AbortStep DEF Types

(* The lock is not available *)
LEMMA DontWaitStep ==
    ASSUME ConflictInv, NEW p \in Procs, Types, Control(p), Strong(p), Owned(p),
           DontWait(p), setting' = setting
    PROVE  ConflictInv'
<1>1. /\ pc[p] = "table" /\ pc' = [pc EXCEPT ![p] = "idle"] /\ req' = [req EXCEPT ![p] = NoRequest]
      /\ AbortStrongLockAcquire(p)
      /\ inTable' = [inTable EXCEPT ![p] = @ \ {Lock(p)}] /\ nLocks' = nLocks
      /\ SlotsSame /\ TableSame /\ WaitSame
  BY Zenon DEF DontWait, Return, Goto, localLocks, fastPath, table, wakeup, timers, waiting
<1>2. QED
  BY Zenon, <1>1, AbortStep DEF Types

(* LockErrorCleanup begins: it also lets go of the slots it holds, of no backend *)
(* that is at its own slots                                                       *)
LEMMA StartErrorCleanupStep ==
    ASSUME ConflictInv, NEW p \in Procs, Types, Control(p), Strong(p), Owned(p),
           StartErrorCleanup(p), setting' = setting
    PROVE  ConflictInv'
<1>1. /\ pc[p] = "error" /\ pc' = [pc EXCEPT ![p] = IF lockAwaited[p] THEN "cleanup" ELSE "cleaned"]
      /\ AbortStrongLockAcquire(p) /\ req' = req
      /\ backendLock' = [x \in Procs |-> IF backendLock[x] = p THEN Nobody ELSE backendLock[x]]
      /\ deadlockTimer' = [deadlockTimer EXCEPT ![p] = FALSE]
      /\ waitStatus' = waitStatus /\ lockAwaited' = lockAwaited
      /\ fpLocks' = fpLocks /\ LocalSame /\ TableSame
  BY Zenon DEF StartErrorCleanup, Goto, localLocks, table, wakeup
<1>2. \A x \in Procs : pc[x] = "fast_path" => backendLock[x] = x
  BY Zenon DEF ConflictInv, Local, Control
<1>3. \A x \in Procs \ {p} : backendLock'[x] = backendLock[x] \/ pc[x] # "fast_path"
  BY Zenon, <1>1, <1>2
<1>4. QED
  BY Zenon, <1>1, <1>3, AbortStep DEF Types

(* The alarm of the lock wait: a post, and a flag *)
LEMMA LockWaitTimeoutStep ==
    ASSUME ConflictInv, NEW p \in Procs, LockWaitTimeout(p), setting' = setting
    PROVE  ConflictInv'
<1>1. pc' = pc /\ req' = req /\ LocalSame /\ StrongSame /\ SlotsSame /\ TableSame /\ WaitSame
  BY Zenon DEF LockWaitTimeout, localLocks, strong, fastPath, table
<1>2. QED
  BY Zenon, <1>1, SameStep

(* The strong lock count of a released lock is given back *)
LEMMA RemoveLocalLockStep ==
    ASSUME ConflictInv, NEW p \in Procs, Types, Control(p), Strong(p), Owned(p),
           RemoveLocalLock(p), setting' = setting
    PROVE  ConflictInv'
<1>k. PICK k \in Locks : k = Lock(p)
  <2>1. pc[p] = "forget"
    BY Zenon DEF RemoveLocalLock
  <2>2. QED
    BY Zenon, <2>1, LockPairs DEF Control, Lock
<1> SUFFICES ASSUME /\ pc[p] = "forget" /\ pc' = [pc EXCEPT ![p] = "idle"] /\ req' = [req EXCEPT ![p] = NoRequest]
                    /\ DropStrongCount(p, k)
                    /\ LocalSame /\ SlotsSame /\ TableSame /\ WaitSame
             PROVE  ConflictInv'
  BY Zenon, <1>k DEF RemoveLocalLock, Return, Goto, localLocks, strong, fastPath, table, wakeup, timers, waiting
<1>2. /\ strongHeld' \in [Procs -> SUBSET Locks]
      /\ inProgress' = inProgress /\ untransferred' = untransferred
      /\ \A x \in Procs \ {p} : strongHeld'[x] = strongHeld[x]
      /\ strongHeld'[p] = strongHeld[p] \ {k}
  BY Zenon, StrongDropped
<1>3. Types'
  BY Zenon, <1>2 DEF Types
<1>4. /\ pc'[p] = "idle" /\ req'[p] = NoRequest
      /\ \A x \in Procs \ {p} : pc'[x] = pc[x] /\ req'[x] = req[x]
  BY Zenon, <1>2, LockPairs DEF Types
<1>5. \A l \in Locks : Owns(p, l)' => Owns(p, l)
  BY Zenon, <1>2, <1>4 DEF Owns, Lock
<1>6. Control(p)'
  BY Zenon, <1>2, <1>4, LockPairs DEF Control, Asking, Lock
<1>7. Strong(p)'
  BY Zenon, <1>2, <1>4, <1>k DEF Control, Strong, Types, Lock
<1>8. Owned(p)'
  BY <1>2, <1>4, <1>5, <1>k, LockPairs DEF Owned, Owns, Control
<1>9. Quiet(p)
  <2>1. StaysQueued(p)
    BY Zenon DEF ConflictInv, QueuesOK, StaysQueued
  <2>2. QED
    BY Zenon, <1>2, <1>4, <1>5, <2>1 DEF Quiet, Frame, Kept, Types
<1>10. QED
  BY Zenon, <1>3, <1>6, <1>7, <1>8, <1>9, QuietStep DEF Local

(* LockReleaseAll marks a lock of the table *)
LEMMA MarkForReleaseStep ==
    ASSUME ConflictInv, NEW p \in Procs, NEW l \in Locks, Types, Control(p), Strong(p), Owned(p),
           MarkForRelease(p, l), setting' = setting
    PROVE  ConflictInv'
<1> SUFFICES ASSUME /\ pc[p] = "release_all" /\ pc' = pc /\ req' = req
                    /\ nLocks' = [nLocks EXCEPT ![p][l] = 0] /\ inTable' = [inTable EXCEPT ![p] = @ \ {l}]
                    /\ DropStrongCount(p, l)
                    /\ SlotsSame /\ TableSame /\ WaitSame
             PROVE  ConflictInv'
  BY Zenon DEF MarkForRelease, localLocks, strong, fastPath, table, wakeup, timers, waiting
<1>2. /\ strongHeld' \in [Procs -> SUBSET Locks]
      /\ inProgress' = inProgress /\ untransferred' = untransferred
      /\ \A x \in Procs \ {p} : strongHeld'[x] = strongHeld[x]
      /\ strongHeld'[p] = strongHeld[p] \ {l}
  BY Zenon, StrongDropped
<1>3. Types'
  <2>1. nLocks' \in [Procs -> [Locks -> Nat]]
    BY Zenon, <1>2, LockPairs DEF Types
  <2>2. QED
    BY Zenon, <1>2, <2>1 DEF Types
<1>4. /\ nLocks'[p][l] = 0 /\ (\A k \in Locks \ {l} : nLocks'[p][k] = nLocks[p][k])
      /\ inTable'[p] = inTable[p] \ {l}
      /\ \A x \in Procs \ {p} : nLocks'[x] = nLocks[x] /\ inTable'[x] = inTable[x]
  BY Zenon, <1>2, LockPairs DEF Types
<1>5. \A k \in Locks : Owns(p, k)' => Owns(p, k)
  BY <1>2, <1>4 DEF Owns, Lock
<1>6. Control(p)'
  BY Zenon, <1>2, <1>4, LockPairs DEF Control, Asking, Lock
<1>7. Strong(p)'
  <2>1. \A k \in strongHeld[p] : k \in Locks
    BY Zenon DEF Types
  <2>2. QED
    BY Zenon, <1>2, <1>4, <2>1 DEF Control, Strong, Lock
<1>8. Owned(p)'
  BY <1>2, <1>4, <1>5, LockPairs DEF Owned, Owns
<1>9. Quiet(p)
  <2>1. StaysQueued(p)
    BY Zenon DEF ConflictInv, QueuesOK, StaysQueued
  <2>2. QED
    BY Zenon, <1>2, <1>4, <1>5, <2>1 DEF Quiet, Frame, Kept, Types
<1>10. QED
  BY Zenon, <1>3, <1>6, <1>7, <1>8, <1>9, QuietStep DEF Local

(* LockReleaseAll gives back a lock of the slots *)
LEMMA ReleaseAllFastStep ==
    ASSUME ConflictInv, NEW p \in Procs, NEW l \in Locks, Types, Control(p), Strong(p), Owned(p),
           ReleaseAllFast(p, l), setting' = setting
    PROVE  ConflictInv'
<1> SUFFICES ASSUME /\ pc[p] = "release_all" /\ pc' = pc /\ req' = req
                    /\ nLocks[p][l] > 0 /\ l \notin inTable[p]
                    /\ nLocks' = [nLocks EXCEPT ![p][l] = 0] /\ inTable' = inTable
                    /\ UnGrantFast(p, l) /\ backendLock' = [backendLock EXCEPT ![p] = p]
                    /\ StrongSame /\ TableSame /\ WaitSame
             PROVE  ConflictInv'
  BY Zenon DEF ReleaseAllFast, localLocks, strong, fastPath, table, wakeup, timers, waiting
<1>2. /\ fpLocks' \in [Procs -> [Rels -> SUBSET Modes]]
      /\ \A r \in Rels : fpLocks'[p][r] \subseteq fpLocks[p][r]
      /\ \A r \in Rels, m \in Modes : <<r, m>> # l /\ m \in fpLocks[p][r] => m \in fpLocks'[p][r]
      /\ \A x \in Procs \ {p} : fpLocks'[x] = fpLocks[x]
  BY Zenon, UnGranted
<1>3. Types'
  <2>1. nLocks' \in [Procs -> [Locks -> Nat]]
    BY Zenon, <1>2, LockPairs DEF Types
  <2>2. QED
    BY Zenon, <1>2, <2>1 DEF Types
<1>4. /\ nLocks'[p][l] = 0 /\ (\A k \in Locks \ {l} : nLocks'[p][k] = nLocks[p][k])
      /\ \A x \in Procs \ {p} : nLocks'[x] = nLocks[x] /\ backendLock'[x] = backendLock[x]
  BY Zenon, <1>2, LockPairs DEF Types
<1>5. \A k \in Locks : Owns(p, k)' => Owns(p, k)
  BY Zenon, <1>2, <1>4 DEF Owns, Lock
<1>6. Control(p)'
  BY Zenon, <1>2, <1>4, LockPairs DEF Control, Asking, Lock
<1>7. Strong(p)'
  BY <1>2, <1>4 DEF Control, Strong, Types, Lock, Asking
<1>8. Owned(p)'
  <2>1. \A k \in Locks : Owns(p, k)' => k # l
    BY <1>4 DEF Owns
  <2>2. QED
    BY Zenon, <1>2, <1>5, <2>1, LockPairs DEF Owned
<1>9. Quiet(p)
  <2>1. StaysQueued(p)
    BY Zenon DEF ConflictInv, QueuesOK, StaysQueued
  <2>2. QED
    BY Zenon, <1>2, <1>4, <1>5, <2>1 DEF Quiet, Frame, Kept, Types
<1>10. QED
  BY Zenon, <1>3, <1>6, <1>7, <1>8, <1>9, QuietStep DEF Local

(* The scan of the local table ends *)
LEMMA EndOfLocalScanStep ==
    ASSUME ConflictInv, NEW p \in Procs, Types, Control(p), Strong(p), Owned(p),
           EndOfLocalScan(p), setting' = setting
    PROVE  ConflictInv'
<1> SUFFICES ASSUME /\ pc[p] = "release_all" /\ pc' = [pc EXCEPT ![p] = "proclocks"] /\ req' = req
                    /\ \A l \in Locks : nLocks[p][l] = 0
                    /\ nLocks' = nLocks /\ inTable' = [inTable EXCEPT ![p] = {}]
                    /\ fpLocks' = fpLocks /\ DOMAIN backendLock' = DOMAIN backendLock
                    /\ \A x \in Procs \ {p} : backendLock'[x] = backendLock[x]
                    /\ StrongSame /\ TableSame /\ WaitSame
             PROVE  ConflictInv'
  BY DEF EndOfLocalScan, Goto, localLocks, strong, fastPath, table, wakeup, timers, waiting
<1>3. Types'
  BY Zenon DEF Types
<1>4. /\ pc'[p] = "proclocks" /\ inTable'[p] = {}
      /\ \A x \in Procs \ {p} : pc'[x] = pc[x] /\ inTable'[x] = inTable[x]
  BY Zenon, LockPairs DEF Types
<1>5. \A l \in Locks : Owns(p, l)' => Owns(p, l)
  BY Zenon, <1>4 DEF Owns, Lock
<1>6. Control(p)'
  BY Zenon, <1>4, LockPairs DEF Control, Asking, Lock
<1>7. Strong(p)'
  BY Zenon, <1>4 DEF Control, Strong, Types, Lock
<1>8. Owned(p)'
  BY Zenon, <1>4, <1>5, LockPairs DEF Owned
<1>9. Quiet(p)
  <2>1. StaysQueued(p)
    BY Zenon DEF ConflictInv, QueuesOK, StaysQueued
  <2>2. QED
    BY Zenon, <1>4, <1>5, <2>1 DEF Quiet, Frame, Kept, Types
<1>10. QED
  BY Zenon, <1>3, <1>6, <1>7, <1>8, <1>9, QuietStep DEF Local

(* LockReleaseAll returns *)
LEMMA EndOfReleaseStep ==
    ASSUME ConflictInv, NEW p \in Procs, Types, Control(p), Strong(p), Owned(p),
           EndOfRelease(p), setting' = setting
    PROVE  ConflictInv'
<1> SUFFICES ASSUME /\ pc[p] = "proclocks" /\ pc' = [pc EXCEPT ![p] = "idle"] /\ req' = [req EXCEPT ![p] = NoRequest]
                    /\ fpLocks' = [fpLocks EXCEPT ![p] = [r \in Rels |-> {}]] /\ backendLock' = backendLock
                    /\ LocalSame /\ StrongSame /\ TableSame /\ WaitSame
             PROVE  ConflictInv'
  BY Zenon DEF EndOfRelease, Return, Goto, localLocks, strong, fastPath, table, wakeup, timers, waiting
<1>3. Types'
  <2>1. fpLocks' \in [Procs -> [Rels -> SUBSET Modes]]
    BY Zenon, LockPairs DEF Types
  <2>2. QED
    BY Zenon, <2>1 DEF Types
<1>4. /\ pc'[p] = "idle" /\ req'[p] = NoRequest
      /\ \A x \in Procs \ {p} : pc'[x] = pc[x] /\ req'[x] = req[x] /\ fpLocks'[x] = fpLocks[x]
      /\ \A r \in Rels : fpLocks'[p][r] = {}
  BY Zenon, LockPairs DEF Types
<1>5. \A l \in Locks : Owns(p, l)' => Owns(p, l)
  BY <1>4 DEF Owns, Control
<1>6. Control(p)'
  BY Zenon, <1>4, LockPairs DEF Control, Asking, Lock
<1>7. Strong(p)'
  BY Zenon, <1>4 DEF Control, Strong, Types, Lock
<1>8. Owned(p)'
  BY <1>4, LockPairs DEF Owned, Owns, Control
<1>9. Quiet(p)
  <2>1. StaysQueued(p)
    BY Zenon DEF ConflictInv, QueuesOK, StaysQueued
  <2>2. QED
    BY Zenon, <1>4, <1>5, <2>1 DEF Quiet, Frame, Kept, Types
<1>10. QED
  BY Zenon, <1>3, <1>6, <1>7, <1>8, <1>9, QuietStep DEF Local

(* LockRelease of a lock: its slot, or on to the table *)
LEMMA LockReleaseStep ==
    ASSUME ConflictInv, NEW p \in Procs, NEW l \in Locks, Types, Control(p), Strong(p), Owned(p),
           LockRelease(p, l), setting' = setting
    PROVE  ConflictInv'
<1>q. PICK q \in Requests : q = [rel |-> l[1], mode |-> l[2], dontWait |-> FALSE] /\ <<q.rel, q.mode>> = l
  <2>1. [rel |-> l[1], mode |-> l[2], dontWait |-> FALSE] \in Requests /\ l = <<l[1], l[2]>>
    BY Zenon, LockPairs DEF Requests
  <2>2. QED
    BY Zenon, <2>1
<1> SUFFICES ASSUME /\ pc[p] \in {"idle", "cleaned"} /\ (pc[p] = "cleaned" => l = Lock(p))
                    /\ nLocks[p][l] = 1 /\ nLocks' = [nLocks EXCEPT ![p][l] = 0]
                    /\ backendLock' = backendLock /\ (UnGrantFast(p, l) \/ fpLocks' = fpLocks)
                    /\ \/ /\ pc' = [pc EXCEPT ![p] = "idle"] /\ req' = [req EXCEPT ![p] = NoRequest]
                          /\ inTable' = [inTable EXCEPT ![p] = @ \ {l}] /\ l[2] < 4
                       \/ /\ pc' = [pc EXCEPT ![p] = "release"] /\ inTable' = inTable
                          /\ req' = [req EXCEPT ![p] = q]
                    /\ StrongSame /\ TableSame /\ WaitSame
             PROVE  ConflictInv'
  BY Zenon, <1>q DEF LockRelease, Return, Goto, EligibleForRelationFastPath, ShareUpdateExclusiveLock, localLocks, strong, fastPath, table, wakeup, timers, waiting
<1>2. /\ fpLocks' \in [Procs -> [Rels -> SUBSET Modes]]
      /\ \A r \in Rels : fpLocks'[p][r] \subseteq fpLocks[p][r]
      /\ \A r \in Rels, m \in Modes : <<r, m>> # l /\ m \in fpLocks[p][r] => m \in fpLocks'[p][r]
      /\ \A x \in Procs \ {p} : fpLocks'[x] = fpLocks[x]
  BY Zenon, UnGranted DEF Types
<1>3. Types'
  <2>1. nLocks' \in [Procs -> [Locks -> Nat]]
    BY Zenon, <1>2, LockPairs DEF Types
  <2>2. QED
    BY <1>2, <2>1 DEF Types
<1>4. /\ nLocks'[p][l] = 0 /\ (\A k \in Locks \ {l} : nLocks'[p][k] = nLocks[p][k])
      /\ pc'[p] = "idle" \/ (pc'[p] = "release" /\ req'[p] = q)
      /\ pc'[p] = "idle" => l[2] < 4 /\ inTable'[p] = inTable[p] \ {l}
      /\ pc'[p] = "release" => inTable'[p] = inTable[p]
      /\ \A x \in Procs \ {p} : pc'[x] = pc[x] /\ req'[x] = req[x] /\ nLocks'[x] = nLocks[x] /\ inTable'[x] = inTable[x]
  BY <1>2, LockPairs DEF Types
<1>5. \A k \in Locks : Owns(p, k)' => Owns(p, k)
  BY <1>2, <1>4 DEF Owns, Lock
<1>6. Control(p)'
  BY Zenon, <1>4, <1>q, LockPairs DEF Control, Asking, Lock
<1>7. Strong(p)'
  <2>1. \A k \in strongHeld[p] : nLocks[p][k] > 0 /\ k \in inTable[p] /\ k \in Locks /\ k[2] > 4
    BY DEF Control, Strong, Types
  <2>2. CASE pc'[p] = "idle"
    <3>1. l \notin strongHeld[p]
      BY <1>4, <2>1, <2>2, LockPairs
    <3>2. QED
      BY <1>4, <2>1, <2>2, <3>1 DEF Strong
  <2>3. CASE pc'[p] = "release"
    <3>1. Lock(p)' = l
      BY Zenon, <1>4, <1>q, <2>3 DEF Lock
    <3>2. QED
      BY <1>4, <2>1, <2>3, <3>1 DEF Strong
  <2>4. QED
    BY Zenon, <1>4, <2>2, <2>3
<1>8. Owned(p)'
  <2>1. \A k \in Locks : Owns(p, k)' => k # l
    BY <1>4 DEF Owns
  <2>2. QED
    BY Zenon, <1>2, <1>5, <2>1, LockPairs DEF Owned
<1>9. Quiet(p)
  <2>1. StaysQueued(p)
    BY Zenon DEF ConflictInv, QueuesOK, StaysQueued
  <2>2. QED
    BY Zenon, <1>2, <1>4, <1>5, <2>1 DEF Quiet, Frame, Kept, Types
<1>10. QED
  BY Zenon, <1>3, <1>6, <1>7, <1>8, <1>9, QuietStep DEF Local

(* The end of ProcSleep: the lock was live when it was granted *)
LEMMA ReturnFromSleepStep ==
    ASSUME ConflictInv, NEW p \in Procs, Types, Control(p), Strong(p), Owned(p),
           ReturnFromSleep(p), setting' = setting
    PROVE  ConflictInv'
<1> SUFFICES ASSUME pc[p] = "woken" PROVE ConflictInv'
  BY Zenon DEF ReturnFromSleep
<1>k. PICK k \in Locks : k = Lock(p)
  BY Zenon, LockPairs DEF Control, Asking, Lock
<1> SUFFICES ASSUME /\ \/ /\ waitStatus[p] = "ok" /\ nLocks' = [nLocks EXCEPT ![p][k] = 1]
                          /\ inProgress' = [inProgress EXCEPT ![p] = FALSE]
                          /\ pc' = [pc EXCEPT ![p] = "idle"] /\ req' = [req EXCEPT ![p] = NoRequest]
                       \/ /\ waitStatus[p] # "ok" /\ nLocks' = nLocks /\ inProgress' = inProgress
                          /\ pc' = [pc EXCEPT ![p] = "error"] /\ req' = req
                    /\ waitStatus' = [waitStatus EXCEPT ![p] = "ok"] /\ lockAwaited' = [lockAwaited EXCEPT ![p] = FALSE]
                    /\ inTable' = inTable /\ strongHeld' = strongHeld /\ untransferred' = untransferred
                    /\ SlotsSame /\ TableSame /\ deadlockTimer' = deadlockTimer
             PROVE  ConflictInv'
  BY Zenon, <1>k DEF ReturnFromSleep, ForgetWait, Return, Goto, fastPath, table
<1>3. Types'
  <2>1. nLocks' \in [Procs -> [Locks -> Nat]]
    <3>1. CASE nLocks' = [nLocks EXCEPT ![p][k] = 1]
      BY Zenon, <3>1 DEF Types
    <3>2. QED
      BY Zenon, <3>1 DEF Types
  <2>2. QED
    BY Zenon, <2>1 DEF Types
<1>4. /\ \/ pc'[p] = "idle" /\ nLocks'[p][k] = 1 /\ waitStatus[p] = "ok" /\ ~inProgress'[p]
         \/ pc'[p] = "error" /\ req'[p] = req[p] /\ nLocks' = nLocks /\ inProgress'[p] = inProgress[p]
      /\ \A l \in Locks \ {k} : nLocks'[p][l] = nLocks[p][l]
      /\ \A x \in Procs \ {p} : /\ pc'[x] = pc[x] /\ req'[x] = req[x] /\ nLocks'[x] = nLocks[x]
                               /\ inProgress'[x] = inProgress[x] /\ waitStatus'[x] = waitStatus[x]
                               /\ lockAwaited'[x] = lockAwaited[x]
  BY DEF Types
<1>5. /\ k \in inTable[p] /\ (waitStatus[p] = "ok" => k[2] \in hold[k[1]][p])
      /\ k[2] > 4 => k \in strongHeld[p]
  BY Zenon, <1>k DEF Control, Lock
<1>6. Control(p)'
  BY Zenon, <1>4, <1>k DEF Control, Asking, Lock
<1>7. Strong(p)'
  <2>1. \A l \in strongHeld[p] \ {k} : nLocks[p][l] > 0 /\ l \in inTable[p] /\ l \in Locks /\ l[2] > 4
    BY <1>k DEF Strong, Types
  <2>2. k \in strongHeld[p] => k[2] > 4 /\ (nLocks[p][k] = 0 => inProgress[p])
    BY Zenon DEF Strong
  <2>3. CASE pc'[p] = "idle"
    BY <1>4, <1>5, <2>1, <2>2, <2>3 DEF Strong
  <2>4. CASE pc'[p] = "error"
    BY <1>4, <1>5, <1>k, <2>1, <2>2, <2>4 DEF Strong, Lock
  <2>5. QED
    BY Zenon, <1>4, <2>3, <2>4
<1>8. Owned(p)'
  <2>1. \A l \in Locks \ {k} : Owns(p, l)' => Owns(p, l)
    BY Zenon, <1>4, <1>k DEF Owns
  <2>2. Owns(p, k)' => waitStatus[p] = "ok"
    BY <1>4, <1>k DEF Owns, Control, Asking
  <2>3. QED
    BY <1>4, <1>5, <2>1, <2>2, LockPairs DEF Owned
<1>9. Frame(p)
  BY Zenon, <1>4 DEF Frame, Kept
<1>10. TableExcludes'
  <2>1. \A r \in Rels, m \in Modes : Live(p, r, m)' => Live(p, r, m)
    BY Zenon, <1>4, <1>k, LockPairs DEF Live, Owns
  <2>2. QED
    BY Zenon, <1>9, <2>1, FrameTable
<1>11. QueuesOK(queue)'
  <2>1. StaysQueued(p)
    BY Zenon DEF ConflictInv, QueuesOK, StaysQueued
  <2>2. QED
    BY Zenon, <1>9, <2>1, FrameQueues
<1>12. FastExcluded'
  BY Zenon, <1>4, <1>9, FrameFast
<1>13. \A x \in Procs : Local(x)'
  BY Zenon, <1>3, <1>6, <1>7, <1>8, <1>9, FrameLocal DEF Local
<1>14. QED
  BY Zenon, <1>3, <1>10, <1>11, <1>12, <1>13 DEF ConflictInv

=============================================================================
