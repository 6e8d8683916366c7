---------------------------- MODULE LWLockHandoff ----------------------------
(***************************************************************************)
(* The book keeping of held lightweight locks (lwlock.cpp): the array      *)
(* held_lwlocks of a thread, and the hand-over of a lock from the thread   *)
(* that acquired it to the one that releases it (LWLockDisown, LWLockOwn), *)
(* as asynchronous I/O does with the locks of a buffer (md.cpp).           *)
(*                                                                         *)
(* A slot of the array keeps its content when the lock is removed from it. *)
(* Waiting is left out: a lock is acquired when it is free for the mode    *)
(* (module LWLock has the rest).                                           *)
(***************************************************************************)
EXTENDS Integers, FiniteSets

CONSTANTS
    Threads, Locks, NoLock,
    Modes,                  \* the modes in which locks are acquired
    MAX_SIMUL_LWLOCKS,
    LW_VAL_EXCLUSIVE        \* greater than the number of threads

VARIABLES
    state,          \* state[l]: LW_LOCK_MASK of the lock word
    grants,         \* grants[l]: the acquisitions not released, by mode
    held_lwlocks,   \* held_lwlocks[t][i]: the array, beyond num_held_lwlocks too
    num_held_lwlocks,
    inFlight        \* inFlight[l]: acquisitions of l that were disowned and not yet owned

vars == <<state, grants, held_lwlocks, num_held_lwlocks, inFlight>>

Slots == 0..MAX_SIMUL_LWLOCKS - 1

Weight(mode) == IF mode = "LW_EXCLUSIVE" THEN LW_VAL_EXCLUSIVE ELSE 1

(* The array is allocated with palloc0, and LW_EXCLUSIVE is 0 *)
Init ==
    /\ state = [l \in Locks |-> 0]
    /\ grants = [l \in Locks |-> [m \in {"LW_EXCLUSIVE", "LW_SHARED"} |-> 0]]
    /\ held_lwlocks = [t \in Threads |-> [i \in Slots |-> [lock |-> NoLock, mode |-> "LW_EXCLUSIVE"]]]
    /\ num_held_lwlocks = [t \in Threads |-> 0]
    /\ inFlight = [l \in Locks |-> 0]

Record(t, entry) ==
    /\ held_lwlocks' = [held_lwlocks EXCEPT ![t][num_held_lwlocks[t]] = entry]
    /\ num_held_lwlocks' = [num_held_lwlocks EXCEPT ![t] = @ + 1]

(* The latest slot that holds the lock *)
Holding(t, l) == {i \in Slots : i < num_held_lwlocks[t] /\ held_lwlocks[t][i].lock = l}

SlotOf(t, l) == CHOOSE i \in Holding(t, l) : \A j \in Holding(t, l) : j <= i

(* The entries behind slot k move down by one; the last slot keeps its content *)
Compact(t, k) ==
    [i \in Slots |-> IF k <= i /\ i < num_held_lwlocks[t] - 1 THEN held_lwlocks[t][i + 1]
                     ELSE held_lwlocks[t][i]]

Remove(t, k) ==
    /\ held_lwlocks' = [held_lwlocks EXCEPT ![t] = Compact(t, k)]
    /\ num_held_lwlocks' = [num_held_lwlocks EXCEPT ![t] = @ - 1]

(* LWLockAttemptLock succeeds *)
LWLockAcquire(t, l, mode) ==
    /\ num_held_lwlocks[t] < MAX_SIMUL_LWLOCKS
    /\ IF mode = "LW_EXCLUSIVE" THEN state[l] = 0 ELSE state[l] < LW_VAL_EXCLUSIVE
    /\ state' = [state EXCEPT ![l] = @ + Weight(mode)]
    /\ grants' = [grants EXCEPT ![l][mode] = @ + 1]
    /\ Record(t, [lock |-> l, mode |-> mode])
    /\ UNCHANGED inFlight

(* A thread releases in the mode of its record; what it acquired, or took over,   *)
(* is one of the grants that are left                                             *)
LWLockRelease(t, l) ==
    /\ Holding(t, l) # {}
    /\ LET k == SlotOf(t, l)
       IN  /\ state' = [state EXCEPT ![l] = @ - Weight(held_lwlocks[t][k].mode)]
           /\ Remove(t, k)
    /\ \E mode \in {m \in Modes : grants[l][m] > 0} : grants' = [grants EXCEPT ![l][mode] = @ - 1]
    /\ UNCHANGED inFlight

(* Mutant of LWLockDisown: the thread keeps its record *)
DisownStillRecorded(t, l) ==
    /\ state[l] > 0
    /\ Holding(t, l) # {}
    /\ inFlight' = [inFlight EXCEPT ![l] = @ + 1]
    /\ UNCHANGED <<state, grants, held_lwlocks, num_held_lwlocks>>

(* The I/O is dispatched, its locks stay held *)
LWLockDisown(t, l) ==
    /\ state[l] > 0
    /\ Holding(t, l) # {}
    /\ Remove(t, SlotOf(t, l))
    /\ inFlight' = [inFlight EXCEPT ![l] = @ + 1]
    /\ UNCHANGED <<state, grants>>

(* The completer takes the lock over: only the lock of the new slot is assigned *)
LWLockOwn(t, l) ==
    /\ inFlight[l] > 0
    /\ num_held_lwlocks[t] < MAX_SIMUL_LWLOCKS
    /\ state[l] > 0
    /\ Record(t, [held_lwlocks[t][num_held_lwlocks[t]] EXCEPT !.lock = l])
    /\ inFlight' = [inFlight EXCEPT ![l] = @ - 1]
    /\ UNCHANGED <<state, grants>>

Next == \E t \in Threads, l \in Locks :
    \/ \E mode \in Modes : LWLockAcquire(t, l, mode)
    \/ LWLockRelease(t, l)
    \/ LWLockDisown(t, l) \/ LWLockOwn(t, l)

Spec == Init /\ [][Next]_vars

-----------------------------------------------------------------------------
(* Properties *)

(* Shapes, and the bound of the array *)
TypeOK ==
    /\ state \in [Locks -> Nat] /\ inFlight \in [Locks -> Nat]
    /\ num_held_lwlocks \in [Threads -> 0..MAX_SIMUL_LWLOCKS]
    /\ held_lwlocks \in [Threads -> [Slots -> [lock : Locks \cup {NoLock},
                                               mode : {"LW_EXCLUSIVE", "LW_SHARED"}]]]

(* Every acquisition is recorded by exactly one thread or is on its way to one,   *)
(* so that it will be released exactly once.                                      *)
OneOwnerEach ==
    \A l \in Locks :
        Cardinality({<<t, i>> \in Threads \X Slots : i \in Holding(t, l)}) + inFlight[l]
            = grants[l]["LW_EXCLUSIVE"] + grants[l]["LW_SHARED"]

(* "The lock is unaffected, it remains held.  All that changes is the book        *)
(* keeping" (LWLockOwn): the lock word always says in which modes the lock is     *)
(* held, also after the thread that took the lock over has released it.           *)
WordMatchesGrants ==
    \A l \in Locks :
        state[l] = grants[l]["LW_EXCLUSIVE"] * LW_VAL_EXCLUSIVE + grants[l]["LW_SHARED"]
=============================================================================
