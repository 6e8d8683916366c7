---------------------------- MODULE MCLWLockLive ----------------------------
(***************************************************************************)
(* LWLock with a bounded number of acquiring calls: LWLocks let            *)
(* late-comers barge in, so an unbounded stream of them may starve a       *)
(* waiter, and that is not a flaw.                                         *)
(***************************************************************************)
EXTENDS LWLock

CONSTANTS p1, p2, p3, l1, l2, Scopes

VARIABLES
    scope,      \* the threads and locks of this instance, for good
    budget      \* acquiring calls the threads may still make

LiveVars == <<vars, scope, budget>>

(* Three threads on one lock and its variable *)
OneLock == [procs |-> {p1, p2, p3}, locks |-> {l1}, calls |-> 3, signalled |-> {}]

(* Two locks and a thread whose semaphore others post *)
TwoLocks == [procs |-> {p1, p2}, locks |-> {l1, l2}, calls |-> 3, signalled |-> {p1}]

BothScopes == {OneLock, TwoLocks}

LiveInit == Init /\ scope \in Scopes /\ budget = scope.calls

(* The call is for one of the locks of the scope *)
InScope(p) ==
    \A l \in Locks \ scope.locks :
        heldMode'[p][l] = None /\ (pc'[p] # "idle" => call'[p].lock # l)

CallWithinBudget(p) ==
    /\ budget > 0 /\ p \in scope.procs
    /\ AcquiringCall(p) /\ InScope(p)
    /\ budget' = budget - 1

LiveNext ==
    /\ UNCHANGED scope
    /\ \E p \in Procs :
          \/ CallWithinBudget(p)
          \/ (Step(p) \/ ReleasingCall(p)) /\ UNCHANGED budget
          \/ p \in scope.signalled /\ (ForeignPost(p) \/ ForeignWait(p)) /\ UNCHANGED budget

Running(p) == pc[p] \notin {"idle", "panic"} /\ (pc[p] \in {"sleep", "absorb"} => sem[p] > 0)

(* A thread inside a call keeps running, and a thread that holds a lock releases it:  *)
(* LWLocks are held over short, non-blocking sections.                                *)
Fairness ==
    \A p \in Procs :
        /\ []<>~Running(p) \/ []<><<Step(p) /\ UNCHANGED budget>>_LiveVars
        /\ []<>(pc[p] # "idle" \/ HeldBy(p) = {})

LiveSpec == LiveInit /\ [][LiveNext]_LiveVars /\ Fairness

(* Every LWLock call returns: whatever the order in which threads queue, wake    *)
(* up, retry and undo their queueing, no thread sleeps for ever.                 *)
EveryCallReturns == \A p \in Procs : []<>(pc[p] = "idle")
=============================================================================
