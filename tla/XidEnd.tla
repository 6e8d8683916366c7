------------------------------- MODULE XidEnd -------------------------------
(***************************************************************************)
(* What ending a transaction promises: the call takes effect at one moment *)
(* between its beginning and its return.  Before that moment everybody     *)
(* takes the transaction for running, after it nobody does.                *)
(***************************************************************************)
EXTENDS Naturals

CONSTANTS Procs, MaxRuns
VARIABLES running, calling

Init ==
    /\ running = [p \in Procs |-> 0]
    /\ calling = [p \in Procs |-> FALSE]

Begin(p, n) ==
    /\ ~calling[p] /\ running[p] = 0
    /\ running' = [running EXCEPT ![p] = n]
    /\ UNCHANGED calling

Call(p) ==
    /\ ~calling[p] /\ running[p] # 0
    /\ calling' = [calling EXCEPT ![p] = TRUE]
    /\ UNCHANGED running

(* One snapshot may take notice of several ends at once *)
End(S) ==
    /\ \A p \in S : calling[p] /\ running[p] # 0
    /\ running' = [p \in Procs |-> IF p \in S THEN 0 ELSE running[p]]
    /\ UNCHANGED calling

Return(p) ==
    /\ calling[p] /\ running[p] = 0
    /\ calling' = [calling EXCEPT ![p] = FALSE]
    /\ UNCHANGED running

Next ==
    \/ \E p \in Procs : Call(p) \/ Return(p) \/ \E n \in 1..MaxRuns : Begin(p, n)
    \/ \E S \in SUBSET Procs : End(S)

Spec == Init /\ [][Next]_<<running, calling>>
=============================================================================
