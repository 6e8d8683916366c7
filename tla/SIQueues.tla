------------------------------ MODULE SIQueues ------------------------------
(***************************************************************************)
(* What the shared invalidation queue promises: every backend has a FIFO   *)
(* queue of its own, which gets every message sent while the backend is    *)
(* active.  A backend that does not keep up may lose its queue, and is     *)
(* then told to reset its caches.                                          *)
(***************************************************************************)
EXTENDS Naturals, Sequences

CONSTANTS Backends, Msgs, Inactive, Overrun

VARIABLE owed       \* owed[b]: the messages b has not received yet

Active == {b \in Backends : owed[b] # Inactive}

Init == owed = [b \in Backends |-> Inactive]

Join(b) == owed[b] = Inactive /\ owed' = [owed EXCEPT ![b] = <<>>]

Leave(b) == owed[b] # Inactive /\ owed' = [owed EXCEPT ![b] = Inactive]

Post(batch) ==
    owed' = [b \in Backends |-> IF owed[b] \in {Inactive, Overrun} THEN owed[b]
                                ELSE owed[b] \o batch]

Lose(B) == owed' = [b \in Backends |-> IF b \in B THEN Overrun ELSE owed[b]]

Receive(b, k) ==
    /\ owed[b] \notin {Inactive, Overrun}
    /\ k <= Len(owed[b])
    /\ owed' = [owed EXCEPT ![b] = SubSeq(@, k + 1, Len(@))]

Reset(b) == owed[b] = Overrun /\ owed' = [owed EXCEPT ![b] = <<>>]

Next(MaxBatch, MaxFetch) ==
    \/ \E b \in Backends : Join(b) \/ Leave(b) \/ Reset(b)
                            \/ \E k \in 1..MaxFetch : Receive(b, k)
    \/ \E n \in 1..MaxBatch : \E batch \in [1..n -> Msgs] : Post(batch)
    \/ \E B \in SUBSET Active : Lose(B)
=============================================================================
