------------------------------ MODULE MCXactEnd ------------------------------
(***************************************************************************)
(* The end of transactions for TLC, as instances in one run: the first     *)
(* choice decides whether CSNSnapshot moves, where a transaction ends in   *)
(* the logs and in the snapshots, or GroupXidClear, where backends end     *)
(* theirs together.  CSNSnapshot has as many readers as the ring has slots *)
(* and one transaction, or one reader and two transactions that may end at *)
(* the same time.                                                          *)
(***************************************************************************)
EXTENDS CSNSnapshot

CONSTANTS w1, r1, Procs, INVALID_PGPROCNO, MaxRuns, ForeignTargets, MaxForeign

VARIABLES
    part,       \* the instance that runs
    pc, groupXid, runs, procArrayGroupMember, procArrayGroupNext, procArrayGroupFirst,
    nextidx, wakeidx, groupLock, sem, extraWaits, foreign, published    \* of GroupXidClear

groupVars ==
    <<pc, groupXid, runs, procArrayGroupMember, procArrayGroupNext, procArrayGroupFirst,
      nextidx, wakeidx, groupLock, sem, extraWaits, foreign, published>>
allVars == <<part, vars, groupVars>>

Group == INSTANCE GroupXidClear WITH xid <- groupXid, procArrayLock <- groupLock

EndInit == part \in {"readers", "writers", "group"} /\ Init /\ Group!Init

(* A step of CSNSnapshot within the bounds of its part *)
InPart(step) ==
    /\ step
    /\ \/ part = "readers" /\ nextXid' <= 2 /\ \A w \in Writers \ {w1} : wpc'[w] = "idle"
       \/ part = "writers" /\ \A r \in Readers \ {r1} : rpc'[r] = "idle"
    /\ UNCHANGED <<part, groupVars>>

EndNext ==
    \/ InPart(Next)
    \/ part = "group" /\ Group!Next /\ UNCHANGED <<part, vars>>

(* The fairness of FairSpec of either module *)
EndSpec ==
    /\ EndInit /\ [][EndNext]_allVars
    /\ \A w \in Writers : WF_allVars(InPart(WriterGoesOn(w)))
    /\ \A r \in Readers : WF_allVars(InPart(ReaderGoesOn(r)))
    /\ \A p \in Procs : WF_allVars(part = "group" /\ Group!EndStep(p) /\ UNCHANGED <<part, vars>>)

(* TypeOK and OneLeaderEach of GroupXidClear: every backend that sleeps in a group *)
(* is on the list of exactly one leader, which is going to wake it up.             *)
OneLeaderEach == Group!TypeOK /\ Group!OneLeaderEach

(* SignalsConserved of GroupXidClear: a wakeup that came from elsewhere is given  *)
(* back, and a member's own one is consumed once.                                 *)
SignalsConserved == Group!SignalsConserved

(* ImplementsXidEnd of GroupXidClear: by a leader or alone, a transaction ends at *)
(* one moment between call and return of ProcArrayEndTransaction.                 *)
ImplementsXidEnd == Group!ImplementsXidEnd

(* EveryEndReturns of GroupXidClear: no call of ProcArrayEndTransaction hangs *)
EveryEndReturns == Group!EveryEndReturns
=============================================================================
