---------------------------- MODULE GroupXidClear ----------------------------
(***************************************************************************)
(* ProcArrayEndTransaction with group XID clearing (procarray.cpp).        *)
(*                                                                         *)
(* A backend that cannot get ProcArrayLock at once pushes itself onto a    *)
(* lock-free list.  The one that found the list empty is the leader: it    *)
(* gets the lock, takes the whole list off, ends the transactions of all   *)
(* members, calculates one snapshot, and wakes the members up one by one   *)
(* after it has released the lock.  A member sleeps on its semaphore,      *)
(* which other parts of the server post as well.                           *)
(***************************************************************************)
EXTENDS Naturals, FiniteSets

CONSTANTS
    Procs,
    INVALID_PGPROCNO,
    MaxRuns,        \* bound: transactions of one backend
    ForeignTargets, \* backends whose semaphore is posted from elsewhere: a subset of Procs
    MaxForeign      \* bound: such posts of one semaphore

VARIABLES
    pc,
    xid,                    \* xid[p]: pgxact->xid, its number among p's; 0 is invalid
    runs,                   \* transactions p has begun
    procArrayGroupMember,
    procArrayGroupNext,
    procArrayGroupFirst,
    nextidx,                \* nextidx[p]: local of p
    wakeidx,                \* wakeidx[p]: local of the leader p
    procArrayLock,
    sem,
    extraWaits,
    foreign,                \* foreign[p]: posts that came from elsewhere
    published               \* the running transactions, as the last snapshot knows them

shared == <<xid, runs, procArrayLock, published>>
list == <<procArrayGroupMember, procArrayGroupNext, procArrayGroupFirst>>
semaphores == <<sem, extraWaits, foreign>>
locals == <<nextidx, wakeidx>>
vars == <<pc, shared, list, semaphores, locals>>

NoProc == INVALID_PGPROCNO
Links == Procs \cup {INVALID_PGPROCNO}

Init ==
    /\ pc = [p \in Procs |-> "idle"]
    /\ xid = [p \in Procs |-> 0] /\ runs = [p \in Procs |-> 0]
    /\ procArrayGroupMember = [p \in Procs |-> FALSE]
    /\ procArrayGroupNext = [p \in Procs |-> INVALID_PGPROCNO]
    /\ procArrayGroupFirst = INVALID_PGPROCNO
    /\ nextidx = [p \in Procs |-> INVALID_PGPROCNO]
    /\ wakeidx = [p \in Procs |-> INVALID_PGPROCNO]
    /\ procArrayLock = NoProc
    /\ sem = [p \in Procs |-> 0] /\ extraWaits = [p \in Procs |-> 0]
    /\ foreign = [p \in Procs |-> 0]
    /\ published = [p \in Procs |-> 0]

Goto(p, where) == pc' = [pc EXCEPT ![p] = where]

(* The backend's next transaction.  Its xid is beyond latestCompletedXid, so that *)
(* every snapshot takes it for running at once.                                   *)
BeginTransaction(p) ==
    /\ pc[p] = "idle" /\ xid[p] = 0
    /\ runs[p] < MaxRuns
    /\ runs' = [runs EXCEPT ![p] = @ + 1]
    /\ xid' = [xid EXCEPT ![p] = runs[p] + 1]
    /\ published' = [published EXCEPT ![p] = runs[p] + 1]
    /\ UNCHANGED <<pc, procArrayLock, list, semaphores, locals>>

(* LWLockConditionalAcquire: the lock at once, or the group *)
ProcArrayEndTransaction(p) ==
    /\ pc[p] = "idle" /\ xid[p] # 0
    /\ \/ /\ procArrayLock = NoProc
          /\ procArrayLock' = p
          /\ Goto(p, "clear_own")
          /\ UNCHANGED procArrayGroupMember
       \/ /\ procArrayLock # NoProc
          /\ procArrayGroupMember' = [procArrayGroupMember EXCEPT ![p] = TRUE]
          /\ Goto(p, "read_first")
          /\ UNCHANGED procArrayLock
    /\ UNCHANGED <<xid, runs, published, procArrayGroupNext, procArrayGroupFirst, semaphores, locals>>

ProcArrayEndTransactionInternal(q) == xid' = [xid EXCEPT ![q] = 0]

ClearOwn(p) ==
    /\ pc[p] = "clear_own"
    /\ ProcArrayEndTransactionInternal(p)
    /\ Goto(p, "calculate_own")
    /\ UNCHANGED <<runs, procArrayLock, published, list, semaphores, locals>>

(* CalculateLocalLatestSnapshot *)
CalculateOwn(p) ==
    /\ pc[p] = "calculate_own"
    /\ published' = xid
    /\ Goto(p, "release_own")
    /\ UNCHANGED <<xid, runs, procArrayLock, list, semaphores, locals>>

ReleaseOwn(p) ==
    /\ pc[p] = "release_own"
    /\ procArrayLock' = NoProc
    /\ Goto(p, "idle")
    /\ UNCHANGED <<xid, runs, published, list, semaphores, locals>>

-----------------------------------------------------------------------------
(* ProcArrayGroupClearXid *)

(* The member links itself before the head it has read ... *)
ReadFirst(p) ==
    /\ pc[p] = "read_first"
    /\ nextidx' = [nextidx EXCEPT ![p] = procArrayGroupFirst]
    /\ procArrayGroupNext' = [procArrayGroupNext EXCEPT ![p] = procArrayGroupFirst]
    /\ Goto(p, "push")
    /\ UNCHANGED <<shared, procArrayGroupMember, procArrayGroupFirst, semaphores, wakeidx>>

(* ... and becomes the head, unless the head has changed *)
Push(p) ==
    /\ pc[p] = "push"
    /\ \/ /\ procArrayGroupFirst = nextidx[p]
          /\ procArrayGroupFirst' = p
          /\ Goto(p, IF nextidx[p] = INVALID_PGPROCNO THEN "lead" ELSE "sleep")
       \/ /\ procArrayGroupFirst # nextidx[p]
          /\ Goto(p, "read_first")
          /\ UNCHANGED procArrayGroupFirst
    /\ nextidx' = [nextidx EXCEPT ![p] = INVALID_PGPROCNO]
    /\ UNCHANGED <<shared, procArrayGroupMember, procArrayGroupNext, semaphores, wakeidx>>

(* Mutant of Sleep: the absorbed wakeups are lost *)
SleepAbsorbing(p) ==
    /\ pc[p] = "sleep"
    /\ sem[p] > 0
    /\ \/ /\ procArrayGroupMember[p]
          /\ sem' = [sem EXCEPT ![p] = @ - 1]
          /\ extraWaits' = [extraWaits EXCEPT ![p] = @ + 1]
          /\ UNCHANGED pc
       \/ /\ ~procArrayGroupMember[p]
          /\ sem' = [sem EXCEPT ![p] = @ - 1]
          /\ extraWaits' = [extraWaits EXCEPT ![p] = 0]
          /\ Goto(p, "idle")
    /\ UNCHANGED <<shared, list, foreign, locals>>

(* A wakeup; when it is not the leader's it is counted *)
Sleep(p) ==
    /\ pc[p] = "sleep"
    /\ sem[p] > 0
    /\ \/ /\ procArrayGroupMember[p]
          /\ sem' = [sem EXCEPT ![p] = @ - 1]
          /\ extraWaits' = [extraWaits EXCEPT ![p] = @ + 1]
          /\ UNCHANGED pc
       \/ /\ ~procArrayGroupMember[p]
          /\ sem' = [sem EXCEPT ![p] = @ - 1 + extraWaits[p]]
          /\ extraWaits' = [extraWaits EXCEPT ![p] = 0]
          /\ Goto(p, "idle")
    /\ UNCHANGED <<shared, list, foreign, locals>>

AcquireAsLeader(p) ==
    /\ pc[p] = "lead"
    /\ procArrayLock = NoProc
    /\ procArrayLock' = p
    /\ Goto(p, "take_list")
    /\ UNCHANGED <<xid, runs, published, list, semaphores, locals>>

(* Mutant of TakeList: pops the head and leaves the rest *)
TakeHead(p) ==
    /\ pc[p] = "take_list"
    /\ nextidx' = [nextidx EXCEPT ![p] = procArrayGroupFirst]
    /\ wakeidx' = [wakeidx EXCEPT ![p] = procArrayGroupFirst]
    /\ procArrayGroupFirst' = procArrayGroupNext[procArrayGroupFirst]
    /\ Goto(p, "clear")
    /\ UNCHANGED <<shared, procArrayGroupMember, procArrayGroupNext, semaphores>>

(* "Trying to pop elements one at a time could lead to an ABA problem." *)
TakeList(p) ==
    /\ pc[p] = "take_list"
    /\ nextidx' = [nextidx EXCEPT ![p] = procArrayGroupFirst]
    /\ wakeidx' = [wakeidx EXCEPT ![p] = procArrayGroupFirst]
    /\ procArrayGroupFirst' = INVALID_PGPROCNO
    /\ Goto(p, "clear")
    /\ UNCHANGED <<shared, procArrayGroupMember, procArrayGroupNext, semaphores>>

ClearMember(p) ==
    /\ pc[p] = "clear"
    /\ nextidx[p] # INVALID_PGPROCNO
    /\ ProcArrayEndTransactionInternal(nextidx[p])
    /\ nextidx' = [nextidx EXCEPT ![p] = procArrayGroupNext[nextidx[p]]]
    /\ UNCHANGED <<pc, runs, procArrayLock, published, list, semaphores, wakeidx>>

(* Mutant of CalculateForGroup: no new snapshot *)
SkipSnapshot(p) ==
    /\ pc[p] = "clear"
    /\ nextidx[p] = INVALID_PGPROCNO
    /\ procArrayLock' = NoProc
    /\ Goto(p, "wake")
    /\ UNCHANGED <<xid, runs, published, list, semaphores, locals>>

CalculateForGroup(p) ==
    /\ pc[p] = "clear"
    /\ nextidx[p] = INVALID_PGPROCNO
    /\ published' = xid
    /\ procArrayLock' = NoProc
    /\ Goto(p, "wake")
    /\ UNCHANGED <<xid, runs, list, semaphores, locals>>

(* Mutant of Unlink: the link is cleared before it is read *)
UnlinkFirst(p) ==
    /\ pc[p] = "wake"
    /\ wakeidx[p] # INVALID_PGPROCNO
    /\ nextidx' = [nextidx EXCEPT ![p] = wakeidx[p]]
    /\ wakeidx' = [wakeidx EXCEPT ![p] = INVALID_PGPROCNO]
    /\ procArrayGroupNext' = [procArrayGroupNext EXCEPT ![wakeidx[p]] = INVALID_PGPROCNO]
    /\ Goto(p, "tell")
    /\ UNCHANGED <<shared, procArrayGroupMember, procArrayGroupFirst, semaphores>>

(* The member is unlinked, then told, then woken up.  nextidx is free by now and  *)
(* holds the member in hand.                                                      *)
Unlink(p) ==
    /\ pc[p] = "wake"
    /\ wakeidx[p] # INVALID_PGPROCNO
    /\ nextidx' = [nextidx EXCEPT ![p] = wakeidx[p]]
    /\ wakeidx' = [wakeidx EXCEPT ![p] = procArrayGroupNext[wakeidx[p]]]
    /\ procArrayGroupNext' = [procArrayGroupNext EXCEPT ![wakeidx[p]] = INVALID_PGPROCNO]
    /\ Goto(p, "tell")
    /\ UNCHANGED <<shared, procArrayGroupMember, procArrayGroupFirst, semaphores>>

Tell(p) ==
    /\ pc[p] = "tell"
    /\ procArrayGroupMember' = [procArrayGroupMember EXCEPT ![nextidx[p]] = FALSE]
    /\ Goto(p, "post")
    /\ UNCHANGED <<shared, procArrayGroupNext, procArrayGroupFirst, semaphores, locals>>

Post(p) ==
    /\ pc[p] = "post"
    /\ sem' = IF nextidx[p] = p THEN sem ELSE [sem EXCEPT ![nextidx[p]] = @ + 1]
    /\ nextidx' = [nextidx EXCEPT ![p] = INVALID_PGPROCNO]
    /\ Goto(p, "wake")
    /\ UNCHANGED <<shared, list, extraWaits, foreign, wakeidx>>

LeaderDone(p) ==
    /\ pc[p] = "wake"
    /\ wakeidx[p] = INVALID_PGPROCNO
    /\ Goto(p, "idle")
    /\ UNCHANGED <<shared, list, semaphores, locals>>

(* Somebody else's PGSemaphoreUnlock, meant for another wait of this backend *)
ForeignPost(p) ==
    /\ p \in ForeignTargets
    /\ foreign[p] < MaxForeign
    /\ foreign' = [foreign EXCEPT ![p] = @ + 1]
    /\ sem' = [sem EXCEPT ![p] = @ + 1]
    /\ UNCHANGED <<pc, shared, list, extraWaits, locals>>

-----------------------------------------------------------------------------
EndStep(p) ==
    \/ ClearOwn(p) \/ CalculateOwn(p) \/ ReleaseOwn(p) \/ ReadFirst(p) \/ Push(p) \/ Sleep(p)
    \/ AcquireAsLeader(p) \/ TakeList(p) \/ ClearMember(p) \/ CalculateForGroup(p)
    \/ Unlink(p) \/ Tell(p) \/ Post(p) \/ LeaderDone(p)

Next == \E p \in Procs :
    BeginTransaction(p) \/ ProcArrayEndTransaction(p) \/ EndStep(p) \/ ForeignPost(p)

Spec == Init /\ [][Next]_vars

(* Interrupts are held off here.  Weak fairness suffices for the leader's wait for *)
(* ProcArrayLock, too: the transactions that can barge in are bounded.             *)
FairSpec == Spec /\ \A p \in Procs : WF_vars(EndStep(p))

-----------------------------------------------------------------------------
(* Properties *)

(* Shapes and ranges; nobody awake has more wakeups than came from elsewhere *)
TypeOK ==
    /\ xid \in [Procs -> 0..MaxRuns] /\ runs \in [Procs -> 0..MaxRuns]
    /\ published \in [Procs -> 0..MaxRuns]
    /\ procArrayGroupMember \in [Procs -> BOOLEAN]
    /\ procArrayGroupNext \in [Procs -> Links] /\ procArrayGroupFirst \in Links
    /\ nextidx \in [Procs -> Links] /\ wakeidx \in [Procs -> Links]
    /\ procArrayLock \in Links
    /\ sem \in [Procs -> Nat] /\ extraWaits \in [Procs -> 0..MaxForeign]
    /\ \A p \in Procs : sem[p] <= foreign[p] + (IF pc[p] = "sleep" THEN 1 ELSE 0)

Leader(p) == pc[p] \in {"lead", "take_list", "clear", "wake", "tell", "post"}

(* From where a link chain leads *)
Chain(from) ==
    LET step[k \in 0..Cardinality(Procs)] ==
            IF k = 0 THEN {from} \ {INVALID_PGPROCNO}
            ELSE step[k - 1] \cup ({procArrayGroupNext[q] : q \in step[k - 1]} \ {INVALID_PGPROCNO})
    IN  step[Cardinality(Procs)]

(* The members a leader is still going to wake up *)
ToWake(p) ==
    IF pc[p] \in {"lead", "take_list"} THEN Chain(procArrayGroupFirst)
    ELSE IF pc[p] \in {"clear", "wake", "tell", "post"}
         THEN Chain(wakeidx[p]) \cup (IF pc[p] \in {"tell", "post"} THEN {nextidx[p]} ELSE {})
         ELSE {}

(* No backend sleeps without a leader that has it on its list, and no backend is  *)
(* on the list of two: a list pushed while a leader wakes up its members has a    *)
(* leader of its own, and the links of the two never mix.                         *)
OneLeaderEach ==
    /\ \A p \in Procs : pc[p] = "sleep" /\ procArrayGroupMember[p] =>
            \E l \in Procs : Leader(l) /\ p \in ToWake(l)
    /\ \A l, m \in Procs : l # m /\ Leader(l) /\ Leader(m) =>
            \A p \in ToWake(l) \cap ToWake(m) :
                \* one of the two has released p already, and is only about to post it
                \E k \in {l, m} : pc[k] = "post" /\ nextidx[k] = p

(* The semaphore count is exact: what was posted from elsewhere is given back,    *)
(* and a member's own wakeup is consumed once, even if the member saw itself      *)
(* released, returned and joined the next group before the leader posted it.      *)
Posters(p) == {l \in Procs \ {p} : p \in ToWake(l)}

SignalsConserved ==
    \A p \in Procs :
        sem[p] + extraWaits[p] + Cardinality(Posters(p))
            = foreign[p] + (IF pc[p] = "sleep" THEN 1 ELSE 0)

(* Through a member or through a leader, ProcArrayEndTransaction takes effect     *)
(* once, between call and return, in what later snapshots show.                   *)
Ends == INSTANCE XidEnd WITH running <- published, calling <- [p \in Procs |-> pc[p] # "idle"]
ImplementsXidEnd == Ends!Spec

(* Every call of ProcArrayEndTransaction returns *)
EveryEndReturns == \A p \in Procs : []<>(pc[p] = "idle")
=============================================================================
