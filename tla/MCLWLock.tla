------------------------------ MODULE MCLWLock ------------------------------
(***************************************************************************)
(* LWLock and LWLockHandoff for TLC, as two instances in one run: the      *)
(* first choice decides which of them moves.                               *)
(***************************************************************************)
EXTENDS LWLock, TLC

CONSTANTS BufferLocks, NoLock

VARIABLES
    part,       \* the instance that runs
    state, grants, held_lwlocks, num_held_lwlocks, inFlight     \* of LWLockHandoff

handoffVars == <<state, grants, held_lwlocks, num_held_lwlocks, inFlight>>

(* The locks of buffers under asynchronous I/O, taken exclusively *)
Handoff ==
    INSTANCE LWLockHandoff WITH Threads <- Procs, Locks <- BufferLocks,
                                Modes <- {"LW_EXCLUSIVE"}, MAX_SIMUL_LWLOCKS <- 2

MCInit == part \in {"locks", "handoff"} /\ Init /\ Handoff!Init

MCNext ==
    \/ part = "locks" /\ Next /\ UNCHANGED <<part, handoffVars>>
    \/ part = "handoff" /\ Handoff!Next /\ UNCHANGED <<part, vars>>

MCSpec == MCInit /\ [][MCNext]_<<part, vars, handoffVars>>

Symmetry == Permutations(Procs) \cup Permutations(BufferLocks)

(* TypeOK and OneOwnerEach of LWLockHandoff: held_lwlocks stays within its bound, and  *)
(* every acquisition is recorded by exactly one thread, or on its way to one between   *)
(* LWLockDisown and LWLockOwn.                                                         *)
OneOwnerEach == Handoff!TypeOK /\ Handoff!OneOwnerEach
=============================================================================
