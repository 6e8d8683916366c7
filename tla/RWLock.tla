------------------------------- MODULE RWLock -------------------------------
(***************************************************************************)
(* What the lightweight locks promise: shared/exclusive locks.  There is   *)
(* no queue, no flag and no wakeup: a thread gets a lock when no holder    *)
(* stands in the way, and gives it back.                                   *)
(***************************************************************************)
CONSTANTS Procs, Locks, Exclusive, Shared, None

VARIABLE holding    \* holding[p][l]: the mode in which p holds l, or None

Compatible(p, l, m) ==
    \A q \in Procs \ {p} :
        holding[q][l] = None \/ (m = Shared /\ holding[q][l] = Shared)

Init == holding = [p \in Procs |-> [l \in Locks |-> None]]

Grant(p, l, m) ==
    /\ holding[p][l] = None
    /\ Compatible(p, l, m)
    /\ holding' = [holding EXCEPT ![p][l] = m]

Drop(p, l) ==
    /\ holding[p][l] # None
    /\ holding' = [holding EXCEPT ![p][l] = None]

Next ==
    \E p \in Procs, l \in Locks :
        Drop(p, l) \/ \E m \in {Exclusive, Shared} : Grant(p, l, m)

Spec == Init /\ [][Next]_holding
=============================================================================
