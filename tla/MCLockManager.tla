--------------------------- MODULE MCLockManager ---------------------------
(* Instances of LockManager for TLC *)
EXTENDS LockManager, TLC

CONSTANTS p1, p2, p3, r1, r2

RowExclusiveLock == 3

MCModes == {AccessShareLock, RowExclusiveLock, ShareUpdateExclusiveLock, AccessExclusiveLock}

OneBucket == [r \in Rels |-> "b"]

Share(r) == [rel |-> r, mode |-> AccessShareLock, dontWait |-> FALSE]
Exclusive(r) == [rel |-> r, mode |-> AccessExclusiveLock, dontWait |-> FALSE]
RowExclusive(r) == [rel |-> r, mode |-> RowExclusiveLock, dontWait |-> FALSE]
Vacuum(r) == [rel |-> r, mode |-> ShareUpdateExclusiveLock, dontWait |-> FALSE]
TryShare(r) == [rel |-> r, mode |-> AccessShareLock, dontWait |-> TRUE]

(* p1 and p3 lock r1 and r2 in either order while p2 wants r1: deadlocks, some of *)
(* which a new order of the queue of r1 resolves.                                 *)
Crossing ==
    [wants |-> p1 :> {Share(r1), Exclusive(r2)} @@ p2 :> {Exclusive(r1)}
               @@ p3 :> {Share(r1), Share(r2)},
     aborting |-> {}, subs |-> {}, canceled |-> {}, short |-> {}, streams |-> {}, maxLocks |-> 1]

(* Two backends that lock r1 and r2 in opposite order, or twice: deadlocks that *)
(* only an error ends.                                                          *)
Opposite ==
    [wants |-> p1 :> {Share(r1), Exclusive(r2)} @@ p2 :> {Share(r2), Exclusive(r1)} @@ p3 :> {},
     aborting |-> {p1}, subs |-> {}, canceled |-> {}, short |-> {}, streams |-> {}, maxLocks |-> 2]

(* Two backends that turn a share lock into an exclusive one, one of them in a  *)
(* subtransaction and with all that may go wrong.                               *)
Upgrading ==
    [wants |-> p1 :> {Share(r1), Exclusive(r1)} @@ p2 :> {Share(r1), Exclusive(r1), TryShare(r1)}
               @@ p3 :> {},
     aborting |-> {p2}, subs |-> {p1}, canceled |-> {p1}, short |-> {p1}, streams |-> {}, maxLocks |-> 1]

(* Two weak modes of one backend, which a strong locker moves to the table one by one *)
(* unless memory runs out between them, and the mode that is neither weak nor strong. *)
Mixed ==
    [wants |-> p1 :> {Share(r1), RowExclusive(r1)} @@ p2 :> {Exclusive(r1)} @@ p3 :> {Vacuum(r1)},
     aborting |-> {}, subs |-> {}, canceled |-> {}, short |-> {p2}, streams |-> {}, maxLocks |-> 1]

(* Two stream threads take turns and overtake a waiter, which may give up *)
Streaming ==
    [wants |-> p1 :> {Exclusive(r1)} @@ p2 :> {Share(r1)} @@ p3 :> {Share(r1)},
     aborting |-> {}, subs |-> {}, canceled |-> {p1}, short |-> {}, streams |-> {p2, p3}, maxLocks |-> 1]

MCSettings == {Crossing, Opposite, Upgrading, Mixed, Streaming}
=============================================================================
