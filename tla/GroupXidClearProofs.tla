------------------------ MODULE GroupXidClearProofs ------------------------
(***************************************************************************)
(* Group XID clearing implements XidEnd for any number of backends and     *)
(* transactions: a transaction ends once, between the call and the return  *)
(* of its ProcArrayEndTransaction, whoever clears its xid.                 *)
(***************************************************************************)
EXTENDS GroupXidClear, TLAPS

(* The mark for "no backend" is no backend, and the bound is a number *)
GroupConstants == INVALID_PGPROCNO \notin Procs /\ MaxRuns \in Nat

(* Where a leader is: while others still join its list, and after the members' *)
(* transactions have ended                                                     *)
Leading == {"lead", "take_list", "clear", "wake", "tell", "post"}
Collecting == {"lead", "take_list"}
Waking == {"wake", "tell", "post"}
Steps == {"idle", "clear_own", "calculate_own", "release_own", "read_first", "push", "sleep"} \cup Leading

(* The shapes and ranges the walks rely on *)
Types ==
    /\ pc \in [Procs -> Steps]
    /\ xid \in [Procs -> 0..MaxRuns] /\ runs \in [Procs -> 0..MaxRuns]
    /\ published \in [Procs -> 0..MaxRuns]
    /\ procArrayGroupMember \in [Procs -> BOOLEAN]
    /\ procArrayGroupNext \in [Procs -> Links] /\ procArrayGroupFirst \in Links
    /\ nextidx \in [Procs -> Links] /\ wakeidx \in [Procs -> Links]

(* The first member of the list of leader l: shared until l takes the list off *)
HeadOf(l) == IF pc[l] \in Collecting THEN procArrayGroupFirst ELSE wakeidx[l]

(* Leader l has the xid of a member at this rank cleared *)
Passed(rank, l, k) == nextidx[l] = INVALID_PGPROCNO \/ k > rank[nextidx[l]]

(* own[q] is the leader whose list q is on, if any, and rank[q] the number of members *)
(* behind q on that list.  Nobody but the leader is last, no two members have the     *)
(* same rank and none ranks above the head, so that the list is exactly what a walk   *)
(* from the head meets; its members are asleep, and their xids are cleared from the   *)
(* head on, while the leader has the lock.                                            *)
OnList(own, rank, q) ==
    own[q] # INVALID_PGPROCNO =>
        /\ pc[own[q]] \in Leading /\ (pc[q] = "sleep" \/ own[q] = q) /\ procArrayGroupMember[q]
        /\ IF procArrayGroupNext[q] = INVALID_PGPROCNO THEN own[q] = q /\ rank[q] = 0
           ELSE own[procArrayGroupNext[q]] = own[q] /\ rank[q] = rank[procArrayGroupNext[q]] + 1
        /\ \A r \in Procs : own[r] = own[q] /\ rank[r] = rank[q] => r = q
        /\ HeadOf(own[q]) # INVALID_PGPROCNO /\ rank[q] <= rank[HeadOf(own[q])]
        /\ pc[own[q]] \in Collecting => xid[q] # 0
        /\ pc[own[q]] = "clear" /\ Passed(rank, own[q], rank[q]) => xid[q] = 0
        /\ pc[own[q]] \in Waking => xid[q] = 0

(* A leader walks its own list only, and is itself cleared when the walk is over *)
Leads(own, l) ==
    /\ pc[l] \in Leading => own[l] \in {l, INVALID_PGPROCNO}
    /\ pc[l] \in Leading /\ HeadOf(l) # INVALID_PGPROCNO => own[HeadOf(l)] = l
    /\ pc[l] \in Collecting \cup {"clear"} => HeadOf(l) # INVALID_PGPROCNO
    /\ pc[l] = "clear" => IF nextidx[l] = INVALID_PGPROCNO THEN xid[l] = 0 ELSE own[nextidx[l]] = l
    /\ pc[l] \in Waking => xid[l] = 0

(* The member a leader has unlinked and not told yet still sleeps, on no list, and no *)
(* other leader has it in hand                                                        *)
Unlinked(own, l) ==
    pc[l] = "tell" =>
        /\ nextidx[l] \in Procs /\ own[nextidx[l]] = INVALID_PGPROCNO
        /\ procArrayGroupMember[nextidx[l]] /\ xid[nextidx[l]] = 0
        /\ pc[nextidx[l]] = "sleep" \/ nextidx[l] = l
        /\ \A k \in Procs : pc[k] = "tell" /\ nextidx[k] = nextidx[l] => k = l

(* What a backend's place says of it; an xid is cleared and not yet published only *)
(* under the lock, by its backend or by the leader of its list                     *)
Alone(own, q) ==
    /\ pc[q] \in {"read_first", "push"} => procArrayGroupMember[q] /\ xid[q] # 0
    /\ pc[q] = "push" => procArrayGroupNext[q] = nextidx[q]
    /\ pc[q] \in {"calculate_own", "release_own"} => xid[q] = 0
    /\ pc[q] = "sleep" /\ ~procArrayGroupMember[q] => xid[q] = 0 /\ own[q] = INVALID_PGPROCNO
    /\ published[q] # xid[q] =>
          /\ xid[q] = 0
          /\ pc[q] = "calculate_own" \/ (own[q] # INVALID_PGPROCNO /\ pc[own[q]] = "clear")

(* The shared head belongs to a leader that has not taken the list off *)
FirstOK(own) ==
    procArrayGroupFirst # INVALID_PGPROCNO =>
        own[procArrayGroupFirst] # INVALID_PGPROCNO /\ pc[own[procArrayGroupFirst]] \in Collecting

(* One labelling explains the shared head, the lists and every backend *)
Lists(own, rank) ==
    /\ FirstOK(own)
    /\ \A q \in Procs : OnList(own, rank, q) /\ Leads(own, q) /\ Unlinked(own, q) /\ Alone(own, q)

(* The inductive invariant: the backends can be labelled with leaders and ranks *)
Grouped(own, rank) ==
    Types /\ own \in [Procs -> Links] /\ rank \in [Procs -> Nat] /\ Lists(own, rank)

GroupInv == \E own, rank : Grouped(own, rank)

-----------------------------------------------------------------------------
(* The steps *)

(* A transaction begins: the backend is on no list. *)
LEMMA BeginTransactionKeeps ==
    ASSUME GroupConstants, NEW own, NEW rank, Grouped(own, rank), NEW p \in Procs, BeginTransaction(p)
    PROVE  Grouped(own, rank)'
<1> USE DEF GroupConstants, Grouped, BeginTransaction, Goto, Types, Links, Steps,
            Leading, Collecting, Waking, shared, list, locals
<1>1. Types'
    BY DEF Lists, Leads
<1>2. FirstOK(own)'
    BY DEF Lists, FirstOK, OnList, Leads, HeadOf
<1>3. ASSUME NEW q \in Procs
      PROVE  OnList(own, rank, q)'
    BY DEF Lists, FirstOK, OnList, Leads, HeadOf, Passed, Unlinked, Alone
<1>4. ASSUME NEW q \in Procs
      PROVE  Leads(own, q)'
    BY DEF Lists, FirstOK, OnList, Leads, HeadOf, Passed, Unlinked, Alone
<1>5. ASSUME NEW q \in Procs
      PROVE  Unlinked(own, q)'
    BY DEF Lists, FirstOK, OnList, Leads, HeadOf, Passed, Unlinked, Alone
<1>6. ASSUME NEW q \in Procs
      PROVE  Alone(own, q)'
    BY DEF Lists, FirstOK, OnList, Leads, HeadOf, Passed, Unlinked, Alone
<1> QED
    BY <1>1, <1>2, <1>3, <1>4, <1>5, <1>6 DEF Lists

(* A call begins: the backend takes the lock, or is about to join a group. *)
LEMMA ProcArrayEndTransactionKeeps ==
    ASSUME GroupConstants, NEW own, NEW rank, Grouped(own, rank), NEW p \in Procs, ProcArrayEndTransaction(p)
    PROVE  Grouped(own, rank)'
<1> USE DEF GroupConstants, Grouped, ProcArrayEndTransaction, Goto, Types, Links, Steps,
            Leading, Collecting, Waking, shared, list, locals, NoProc
<1>1. Types'
    <2>1. pc' \in [Procs -> Steps] /\ procArrayGroupMember' \in [Procs -> BOOLEAN]
        BY Zenon
    <2> QED
        BY <2>1
<1>2. FirstOK(own)'
    BY DEF Lists, FirstOK, OnList, Leads, HeadOf
<1>3. ASSUME NEW q \in Procs
      PROVE  OnList(own, rank, q)'
    BY DEF Lists, FirstOK, OnList, Leads, HeadOf, Passed, Unlinked, Alone
<1>4. ASSUME NEW q \in Procs
      PROVE  Leads(own, q)'
    BY DEF Lists, FirstOK, OnList, Leads, HeadOf, Passed, Unlinked, Alone
<1>5. ASSUME NEW q \in Procs
      PROVE  Unlinked(own, q)'
    BY DEF Lists, FirstOK, OnList, Leads, HeadOf, Passed, Unlinked, Alone
<1>6. ASSUME NEW q \in Procs
      PROVE  Alone(own, q)'
    BY DEF Lists, FirstOK, OnList, Leads, HeadOf, Passed, Unlinked, Alone
<1> QED
    BY <1>1, <1>2, <1>3, <1>4, <1>5, <1>6 DEF Lists

(* The backend that has the lock clears its own xid. *)
LEMMA ClearOwnKeeps ==
    ASSUME GroupConstants, NEW own, NEW rank, Grouped(own, rank), NEW p \in Procs, ClearOwn(p)
    PROVE  Grouped(own, rank)'
<1> USE DEF GroupConstants, Grouped, ClearOwn, Goto, Types, Links, Steps,
            Leading, Collecting, Waking, shared, list, locals, ProcArrayEndTransactionInternal
<1>1. Types'
    BY DEF Lists, Leads
<1>2. FirstOK(own)'
    BY DEF Lists, FirstOK, OnList, Leads, HeadOf
<1>3. ASSUME NEW q \in Procs
      PROVE  OnList(own, rank, q)'
    BY DEF Lists, FirstOK, OnList, Leads, HeadOf, Passed, Unlinked, Alone
<1>4. ASSUME NEW q \in Procs
      PROVE  Leads(own, q)'
    BY DEF Lists, FirstOK, OnList, Leads, HeadOf, Passed, Unlinked, Alone
<1>5. ASSUME NEW q \in Procs
      PROVE  Unlinked(own, q)'
    BY DEF Lists, FirstOK, OnList, Leads, HeadOf, Passed, Unlinked, Alone
<1>6. ASSUME NEW q \in Procs
      PROVE  Alone(own, q)'
    BY DEF Lists, FirstOK, OnList, Leads, HeadOf, Passed, Unlinked, Alone
<1> QED
    BY <1>1, <1>2, <1>3, <1>4, <1>5, <1>6 DEF Lists

(* A snapshot after the own end: every cleared xid is published. *)
LEMMA CalculateOwnKeeps ==
    ASSUME GroupConstants, NEW own, NEW rank, Grouped(own, rank), NEW p \in Procs, CalculateOwn(p)
    PROVE  Grouped(own, rank)'
<1> USE DEF GroupConstants, Grouped, CalculateOwn, Goto, Types, Links, Steps,
            Leading, Collecting, Waking, shared, list, locals
<1>1. Types'
    BY DEF Lists, Leads
<1>2. FirstOK(own)'
    BY DEF Lists, FirstOK, OnList, Leads, HeadOf
<1>3. ASSUME NEW q \in Procs
      PROVE  OnList(own, rank, q)'
    BY DEF Lists, FirstOK, OnList, Leads, HeadOf, Passed, Unlinked, Alone
<1>4. ASSUME NEW q \in Procs
      PROVE  Leads(own, q)'
    BY DEF Lists, FirstOK, OnList, Leads, HeadOf, Passed, Unlinked, Alone
<1>5. ASSUME NEW q \in Procs
      PROVE  Unlinked(own, q)'
    BY DEF Lists, FirstOK, OnList, Leads, HeadOf, Passed, Unlinked, Alone
<1>6. ASSUME NEW q \in Procs
      PROVE  Alone(own, q)'
    BY DEF Lists, FirstOK, OnList, Leads, HeadOf, Passed, Unlinked, Alone
<1> QED
    BY <1>1, <1>2, <1>3, <1>4, <1>5, <1>6 DEF Lists

(* The call without a group returns. *)
LEMMA ReleaseOwnKeeps ==
    ASSUME GroupConstants, NEW own, NEW rank, Grouped(own, rank), NEW p \in Procs, ReleaseOwn(p)
    PROVE  Grouped(own, rank)'
<1> USE DEF GroupConstants, Grouped, ReleaseOwn, Goto, Types, Links, Steps,
            Leading, Collecting, Waking, shared, list, locals, NoProc
<1>1. Types'
    BY DEF Lists, Leads
<1>2. FirstOK(own)'
    BY DEF Lists, FirstOK, OnList, Leads, HeadOf
<1>3. ASSUME NEW q \in Procs
      PROVE  OnList(own, rank, q)'
    BY DEF Lists, FirstOK, OnList, Leads, HeadOf, Passed, Unlinked, Alone
<1>4. ASSUME NEW q \in Procs
      PROVE  Leads(own, q)'
    BY DEF Lists, FirstOK, OnList, Leads, HeadOf, Passed, Unlinked, Alone
<1>5. ASSUME NEW q \in Procs
      PROVE  Unlinked(own, q)'
    BY DEF Lists, FirstOK, OnList, Leads, HeadOf, Passed, Unlinked, Alone
<1>6. ASSUME NEW q \in Procs
      PROVE  Alone(own, q)'
    BY DEF Lists, FirstOK, OnList, Leads, HeadOf, Passed, Unlinked, Alone
<1> QED
    BY <1>1, <1>2, <1>3, <1>4, <1>5, <1>6 DEF Lists

(* A member links itself to the head it reads: it is on no list yet. *)
LEMMA ReadFirstKeeps ==
    ASSUME GroupConstants, NEW own, NEW rank, Grouped(own, rank), NEW p \in Procs, ReadFirst(p)
    PROVE  Grouped(own, rank)'
<1> USE DEF GroupConstants, Grouped, ReadFirst, Goto, Types, Links, Steps,
            Leading, Collecting, Waking, shared, list, locals
<1>1. Types'
    BY DEF Lists, Leads
<1>2. FirstOK(own)'
    BY DEF Lists, FirstOK, OnList, Leads, HeadOf
<1>3. ASSUME NEW q \in Procs
      PROVE  OnList(own, rank, q)'
    BY DEF Lists, FirstOK, OnList, Leads, HeadOf, Passed, Unlinked, Alone
<1>4. ASSUME NEW q \in Procs
      PROVE  Leads(own, q)'
    BY DEF Lists, FirstOK, OnList, Leads, HeadOf, Passed, Unlinked, Alone
<1>5. ASSUME NEW q \in Procs
      PROVE  Unlinked(own, q)'
    BY DEF Lists, FirstOK, OnList, Leads, HeadOf, Passed, Unlinked, Alone
<1>6. ASSUME NEW q \in Procs
      PROVE  Alone(own, q)'
    BY DEF Lists, FirstOK, OnList, Leads, HeadOf, Passed, Unlinked, Alone
<1> QED
    BY <1>1, <1>2, <1>3, <1>4, <1>5, <1>6 DEF Lists

(* A wakeup: the member sleeps on, or returns because it has been told. *)
LEMMA SleepKeeps ==
    ASSUME GroupConstants, NEW own, NEW rank, Grouped(own, rank), NEW p \in Procs, Sleep(p)
    PROVE  Grouped(own, rank)'
<1> USE DEF GroupConstants, Grouped, Sleep, Goto, Types, Links, Steps,
            Leading, Collecting, Waking, shared, list, locals
<1>1. Types'
    BY DEF Lists, Leads
<1>2. FirstOK(own)'
    BY DEF Lists, FirstOK, OnList, Leads, HeadOf
<1>3. ASSUME NEW q \in Procs
      PROVE  OnList(own, rank, q)'
    BY DEF Lists, FirstOK, OnList, Leads, HeadOf, Passed, Unlinked, Alone
<1>4. ASSUME NEW q \in Procs
      PROVE  Leads(own, q)'
    BY DEF Lists, FirstOK, OnList, Leads, HeadOf, Passed, Unlinked, Alone
<1>5. ASSUME NEW q \in Procs
      PROVE  Unlinked(own, q)'
    BY DEF Lists, FirstOK, OnList, Leads, HeadOf, Passed, Unlinked, Alone
<1>6. ASSUME NEW q \in Procs
      PROVE  Alone(own, q)'
    BY DEF Lists, FirstOK, OnList, Leads, HeadOf, Passed, Unlinked, Alone
<1> QED
    BY <1>1, <1>2, <1>3, <1>4, <1>5, <1>6 DEF Lists

(* The leader gets the lock: its list is still open. *)
LEMMA AcquireAsLeaderKeeps ==
    ASSUME GroupConstants, NEW own, NEW rank, Grouped(own, rank), NEW p \in Procs, AcquireAsLeader(p)
    PROVE  Grouped(own, rank)'
<1> USE DEF GroupConstants, Grouped, AcquireAsLeader, Goto, Types, Links, Steps,
            Leading, Collecting, Waking, shared, list, locals, NoProc
<1>1. Types'
    BY DEF Lists, Leads
<1>2. FirstOK(own)'
    BY DEF Lists, FirstOK, OnList, Leads, HeadOf
<1>3. ASSUME NEW q \in Procs
      PROVE  OnList(own, rank, q)'
    BY DEF Lists, FirstOK, OnList, Leads, HeadOf, Passed, Unlinked, Alone
<1>4. ASSUME NEW q \in Procs
      PROVE  Leads(own, q)'
    BY DEF Lists, FirstOK, OnList, Leads, HeadOf, Passed, Unlinked, Alone
<1>5. ASSUME NEW q \in Procs
      PROVE  Unlinked(own, q)'
    BY DEF Lists, FirstOK, OnList, Leads, HeadOf, Passed, Unlinked, Alone
<1>6. ASSUME NEW q \in Procs
      PROVE  Alone(own, q)'
    BY DEF Lists, FirstOK, OnList, Leads, HeadOf, Passed, Unlinked, Alone
<1> QED
    BY <1>1, <1>2, <1>3, <1>4, <1>5, <1>6 DEF Lists

(* The leader takes the list off: the shared head becomes its own. *)
LEMMA TakeListKeeps ==
    ASSUME GroupConstants, NEW own, NEW rank, Grouped(own, rank), NEW p \in Procs, TakeList(p)
    PROVE  Grouped(own, rank)'
<1> USE DEF GroupConstants, Grouped, TakeList, Goto, Types, Links, Steps,
            Leading, Collecting, Waking, shared, list, locals
<1>1. Types'
    BY DEF Lists, Leads
<1>2. FirstOK(own)'
    BY SMTT(20) DEF Lists, FirstOK, OnList, Leads, HeadOf
<1>3. ASSUME NEW q \in Procs
      PROVE  OnList(own, rank, q)'
    BY DEF Lists, FirstOK, OnList, Leads, HeadOf, Passed, Unlinked, Alone
<1>4. ASSUME NEW q \in Procs
      PROVE  Leads(own, q)'
    BY DEF Lists, FirstOK, OnList, Leads, HeadOf, Passed, Unlinked, Alone
<1>5. ASSUME NEW q \in Procs
      PROVE  Unlinked(own, q)'
    BY SMTT(20) DEF Lists, FirstOK, OnList, Leads, HeadOf, Passed, Unlinked, Alone
<1>6. ASSUME NEW q \in Procs
      PROVE  Alone(own, q)'
    BY DEF Lists, FirstOK, OnList, Leads, HeadOf, Passed, Unlinked, Alone
<1> QED
    BY <1>1, <1>2, <1>3, <1>4, <1>5, <1>6 DEF Lists

(* The leader clears one member: the ranks above the next one are done. *)
LEMMA ClearMemberKeeps ==
    ASSUME GroupConstants, NEW own, NEW rank, Grouped(own, rank), NEW p \in Procs, ClearMember(p)
    PROVE  Grouped(own, rank)'
<1> USE DEF GroupConstants, Grouped, ClearMember, Goto, Types, Links, Steps,
            Leading, Collecting, Waking, shared, list, locals, ProcArrayEndTransactionInternal
<1>1. Types'
    BY DEF Lists, Leads
<1>2. FirstOK(own)'
    BY DEF Lists, FirstOK, OnList, Leads, HeadOf
<1>3. ASSUME NEW q \in Procs
      PROVE  OnList(own, rank, q)'
    BY DEF Lists, FirstOK, OnList, Leads, HeadOf, Passed, Unlinked, Alone
<1>4. ASSUME NEW q \in Procs
      PROVE  Leads(own, q)'
    BY DEF Lists, FirstOK, OnList, Leads, HeadOf, Passed, Unlinked, Alone
<1>5. ASSUME NEW q \in Procs
      PROVE  Unlinked(own, q)'
    BY DEF Lists, FirstOK, OnList, Leads, HeadOf, Passed, Unlinked, Alone
<1>6. ASSUME NEW q \in Procs
      PROVE  Alone(own, q)'
    BY DEF Lists, FirstOK, OnList, Leads, HeadOf, Passed, Unlinked, Alone
<1> QED
    BY <1>1, <1>2, <1>3, <1>4, <1>5, <1>6 DEF Lists

(* The snapshot for the group: the walk is at its end, so all members are cleared. *)
LEMMA CalculateForGroupKeeps ==
    ASSUME GroupConstants, NEW own, NEW rank, Grouped(own, rank), NEW p \in Procs, CalculateForGroup(p)
    PROVE  Grouped(own, rank)'
<1> USE DEF GroupConstants, Grouped, CalculateForGroup, Goto, Types, Links, Steps,
            Leading, Collecting, Waking, shared, list, locals, NoProc
<1>1. Types'
    BY DEF Lists, Leads
<1>2. FirstOK(own)'
    BY SMTT(20) DEF Lists, FirstOK, OnList, Leads, HeadOf
<1>3. ASSUME NEW q \in Procs
      PROVE  OnList(own, rank, q)'
    BY DEF Lists, FirstOK, OnList, Leads, HeadOf, Passed, Unlinked, Alone
<1>4. ASSUME NEW q \in Procs
      PROVE  Leads(own, q)'
    BY DEF Lists, FirstOK, OnList, Leads, HeadOf, Passed, Unlinked, Alone
<1>5. ASSUME NEW q \in Procs
      PROVE  Unlinked(own, q)'
    BY DEF Lists, FirstOK, OnList, Leads, HeadOf, Passed, Unlinked, Alone
<1>6. ASSUME NEW q \in Procs
      PROVE  Alone(own, q)'
    BY DEF Lists, FirstOK, OnList, Leads, HeadOf, Passed, Unlinked, Alone
<1> QED
    BY <1>1, <1>2, <1>3, <1>4, <1>5, <1>6 DEF Lists

(* The unlinked member is told: it was asleep, on no list, and its xid is cleared. *)
LEMMA TellKeeps ==
    ASSUME GroupConstants, NEW own, NEW rank, Grouped(own, rank), NEW p \in Procs, Tell(p)
    PROVE  Grouped(own, rank)'
<1> USE DEF GroupConstants, Grouped, Tell, Goto, Types, Links, Steps,
            Leading, Collecting, Waking, shared, list, locals
<1>1. Types'
    <2>1. nextidx[p] \in Procs
        BY DEF Lists, Unlinked
    <2> QED
        BY <2>1, Zenon
<1>2. FirstOK(own)'
    BY SMTT(20) DEF Lists, FirstOK, OnList, Leads, HeadOf
<1>3. ASSUME NEW q \in Procs
      PROVE  OnList(own, rank, q)'
    BY DEF Lists, FirstOK, OnList, Leads, HeadOf, Passed, Unlinked, Alone
<1>4. ASSUME NEW q \in Procs
      PROVE  Leads(own, q)'
    BY DEF Lists, FirstOK, OnList, Leads, HeadOf, Passed, Unlinked, Alone
<1>5. ASSUME NEW q \in Procs
      PROVE  Unlinked(own, q)'
    BY DEF Lists, FirstOK, OnList, Leads, HeadOf, Passed, Unlinked, Alone
<1>6. ASSUME NEW q \in Procs
      PROVE  Alone(own, q)'
    BY DEF Lists, FirstOK, OnList, Leads, HeadOf, Passed, Unlinked, Alone
<1> QED
    BY <1>1, <1>2, <1>3, <1>4, <1>5, <1>6 DEF Lists

(* The member is woken up. *)
LEMMA PostKeeps ==
    ASSUME GroupConstants, NEW own, NEW rank, Grouped(own, rank), NEW p \in Procs, Post(p)
    PROVE  Grouped(own, rank)'
<1> USE DEF GroupConstants, Grouped, Post, Goto, Types, Links, Steps,
            Leading, Collecting, Waking, shared, list, locals
<1>1. Types'
    BY DEF Lists, Leads
<1>2. FirstOK(own)'
    BY SMTT(20) DEF Lists, FirstOK, OnList, Leads, HeadOf
<1>3. ASSUME NEW q \in Procs
      PROVE  OnList(own, rank, q)'
    BY SMTT(20) DEF Lists, FirstOK, OnList, Leads, HeadOf, Passed, Unlinked, Alone
<1>4. ASSUME NEW q \in Procs
      PROVE  Leads(own, q)'
    BY SMTT(20) DEF Lists, FirstOK, OnList, Leads, HeadOf, Passed, Unlinked, Alone
<1>5. ASSUME NEW q \in Procs
      PROVE  Unlinked(own, q)'
    BY SMTT(20) DEF Lists, FirstOK, OnList, Leads, HeadOf, Passed, Unlinked, Alone
<1>6. ASSUME NEW q \in Procs
      PROVE  Alone(own, q)'
    BY DEF Lists, FirstOK, OnList, Leads, HeadOf, Passed, Unlinked, Alone
<1> QED
    BY <1>1, <1>2, <1>3, <1>4, <1>5, <1>6 DEF Lists

(* The leader returns: its list is empty, because nothing ranks above an absent head. *)
LEMMA LeaderDoneKeeps ==
    ASSUME GroupConstants, NEW own, NEW rank, Grouped(own, rank), NEW p \in Procs, LeaderDone(p)
    PROVE  Grouped(own, rank)'
<1> USE DEF GroupConstants, Grouped, LeaderDone, Goto, Types, Links, Steps,
            Leading, Collecting, Waking, shared, list, locals
<1>1. Types'
    BY DEF Lists, Leads
<1>2. FirstOK(own)'
    BY SMTT(20) DEF Lists, FirstOK, OnList, Leads, HeadOf
<1>3. ASSUME NEW q \in Procs
      PROVE  OnList(own, rank, q)'
    BY SMTT(20) DEF Lists, FirstOK, OnList, Leads, HeadOf, Passed, Unlinked, Alone
<1>4. ASSUME NEW q \in Procs
      PROVE  Leads(own, q)'
    BY SMTT(20) DEF Lists, FirstOK, OnList, Leads, HeadOf, Passed, Unlinked, Alone
<1>5. ASSUME NEW q \in Procs
      PROVE  Unlinked(own, q)'
    BY SMTT(20) DEF Lists, FirstOK, OnList, Leads, HeadOf, Passed, Unlinked, Alone
<1>6. ASSUME NEW q \in Procs
      PROVE  Alone(own, q)'
    BY DEF Lists, FirstOK, OnList, Leads, HeadOf, Passed, Unlinked, Alone
<1> QED
    BY <1>1, <1>2, <1>3, <1>4, <1>5, <1>6 DEF Lists

(* A wakeup from elsewhere changes no list. *)
LEMMA ForeignPostKeeps ==
    ASSUME GroupConstants, NEW own, NEW rank, Grouped(own, rank), NEW p \in Procs, ForeignPost(p)
    PROVE  Grouped(own, rank)'
<1> USE DEF GroupConstants, Grouped, ForeignPost, Goto, Types, Links, Steps,
            Leading, Collecting, Waking, shared, list, locals
<1>1. Types'
    BY SMTT(20) DEF Lists, Leads
<1>2. FirstOK(own)'
    BY SMTT(20) DEF Lists, FirstOK, OnList, Leads, HeadOf
<1>3. ASSUME NEW q \in Procs
      PROVE  OnList(own, rank, q)'
    BY SMTT(20) DEF Lists, FirstOK, OnList, Leads, HeadOf, Passed, Unlinked, Alone
<1>4. ASSUME NEW q \in Procs
      PROVE  Leads(own, q)'
    BY SMTT(20) DEF Lists, FirstOK, OnList, Leads, HeadOf, Passed, Unlinked, Alone
<1>5. ASSUME NEW q \in Procs
      PROVE  Unlinked(own, q)'
    BY SMTT(20) DEF Lists, FirstOK, OnList, Leads, HeadOf, Passed, Unlinked, Alone
<1>6. ASSUME NEW q \in Procs
      PROVE  Alone(own, q)'
    BY DEF Lists, FirstOK, OnList, Leads, HeadOf, Passed, Unlinked, Alone
<1> QED
    BY <1>1, <1>2, <1>3, <1>4, <1>5, <1>6 DEF Lists

(* A member becomes the head: it ranks above all the others of its list, or leads a new one. *)
LEMMA PushKeeps ==
    ASSUME GroupConstants, NEW own, NEW rank, Grouped(own, rank), NEW p \in Procs, Push(p)
    PROVE  GroupInv'
<1> USE DEF GroupConstants, Grouped, Push, Goto, Types, Links, Steps,
            Leading, Collecting, Waking, shared
<1>1. CASE procArrayGroupFirst # nextidx[p]
    <2>1. Types'
        BY <1>1
    <2>2. FirstOK(own)'
        BY <1>1, SMTT(20) DEF Lists, FirstOK, OnList, Leads, HeadOf
    <2>3. ASSUME NEW q \in Procs
          PROVE  OnList(own, rank, q)' /\ Leads(own, q)'
        BY <1>1, SMTT(20) DEF Lists, FirstOK, OnList, Leads, HeadOf, Passed, Unlinked, Alone
    <2>4. ASSUME NEW q \in Procs
          PROVE  Unlinked(own, q)' /\ Alone(own, q)'
        BY <1>1 DEF Lists, FirstOK, OnList, Leads, HeadOf, Passed, Unlinked, Alone
    <2>5. Grouped(own, rank)'
        BY <2>1, <2>2, <2>3, <2>4 DEF Lists
    <2> QED
        BY <2>5 DEF GroupInv
<1>2. CASE procArrayGroupFirst = nextidx[p]
    <2>0. PICK f \in Links : f = procArrayGroupFirst
        OBVIOUS
    <2> DEFINE o == [own EXCEPT ![p] = IF f = INVALID_PGPROCNO THEN p ELSE own[f]]
               k == [rank EXCEPT ![p] = IF f = INVALID_PGPROCNO THEN 0 ELSE rank[f] + 1]
    <2>1. /\ own[p] = INVALID_PGPROCNO /\ procArrayGroupNext[p] = f
          /\ procArrayGroupMember[p] /\ xid[p] # 0 /\ published[p] = xid[p]
        BY <1>2, <2>0 DEF Lists, OnList, Alone
    <2>2. f # INVALID_PGPROCNO => f \in Procs /\ f # p /\ own[f] \in Procs /\ pc[own[f]] \in Collecting
        BY <2>0, <2>1 DEF Lists, FirstOK
    <2>3. o \in [Procs -> Links] /\ k \in [Procs -> Nat]
        BY <2>2
    <2>4. /\ o[p] = (IF f = INVALID_PGPROCNO THEN p ELSE own[f])
          /\ k[p] = (IF f = INVALID_PGPROCNO THEN 0 ELSE rank[f] + 1)
          /\ \A q \in Procs \ {p} : o[q] = own[q] /\ k[q] = rank[q]
        OBVIOUS
    <2> HIDE DEF o, k
    <2>5. Types'
        BY <1>2
    <2>6. FirstOK(o)'
        BY <1>2, <2>0, <2>1, <2>2, <2>3, <2>4 DEF FirstOK
    <2>7. \A q \in Procs : own[q] = p => FALSE
        BY <2>1 DEF Lists, OnList
    <2>8. \A q \in Procs : f = INVALID_PGPROCNO => pc[q] \notin Collecting
        BY <2>0 DEF Lists, Leads, HeadOf
    <2>9. ASSUME NEW q \in Procs
          PROVE  OnList(o, k, q)'
        <3>1. CASE q = p
            BY <3>1, <1>2, <2>0, <2>1, <2>2, <2>3, <2>4, <2>7, SMTT(30)
            DEF Lists, FirstOK, OnList, Leads, HeadOf, Passed
        <3>2. CASE q # p /\ own[q] # INVALID_PGPROCNO
            <4>1. /\ pc'[own[q]] = pc[own[q]] /\ pc'[q] = pc[q] /\ own[q] \in Procs /\ own[q] # p
                  /\ o[q] = own[q] /\ k[q] = rank[q] /\ nextidx'[own[q]] = nextidx[own[q]]
                  /\ procArrayGroupFirst' = p
                  /\ UNCHANGED <<xid, procArrayGroupMember, procArrayGroupNext, wakeidx>>
                BY <3>2, <1>2, <2>4, <2>7
            <4>2. OnList(own, rank, q) /\ Leads(own, own[q])
                BY SMTT(20), <4>1 DEF Lists
            <4>3. procArrayGroupNext[q] \in Links /\ procArrayGroupNext[q] # p
                BY SMTT(20), <3>2, <4>1, <4>2, <2>1 DEF OnList
            <4>4. pc[own[q]] \in Collecting => own[q] = own[f] /\ rank[q] < k[p] /\ f # INVALID_PGPROCNO
                BY <3>2, <4>1, <4>2, <2>0, <2>2, <2>3, <2>4, SMTT(20) DEF OnList, Leads, HeadOf
            <4>5. \A r \in Procs : o[r] = o[q] /\ k[r] = k[q] => r = q
                BY SMTT(20), <3>2, <4>1, <4>2, <4>4, <2>2, <2>4 DEF OnList
            <4>6. HeadOf(own[q])' # INVALID_PGPROCNO /\ k[q] <= k[HeadOf(own[q])']
                <5>1. CASE pc[own[q]] \in Collecting
                    <6>1. HeadOf(own[q])' = p
                        BY <5>1, <4>1 DEF HeadOf
                    <6>2. k[q] \in Nat /\ k[p] \in Nat /\ k[q] < k[p]
                        BY <5>1, <4>1, <4>4, <2>3, ZenonT(40)
                    <6> QED
                        BY <6>1, <6>2
                <5>2. CASE pc[own[q]] \notin Collecting
                    BY <5>2, <3>2, <4>1, <4>2, <2>1, <2>4, SMTT(20) DEF OnList, Leads, HeadOf
                <5> QED
                    BY <5>1, <5>2
            <4>7. pc[own[q]] = "clear" /\ Passed(k, own[q], k[q])' => xid[q] = 0
                BY <3>2, <4>1, <4>2, <2>1, <2>4, SMTT(20) DEF OnList, Leads, Passed
            <4> HIDE DEF Push, Grouped, Types
            <4> QED
                BY <3>2, <4>1, <4>2, <4>3, <4>5, <4>6, <4>7, <2>4, ZenonT(60) DEF OnList
        <3>3. CASE q # p /\ own[q] = INVALID_PGPROCNO
            BY <3>3, <2>4, SMTT(20) DEF OnList
        <3> QED
            BY <3>1, <3>2, <3>3, SMTT(20)
    <2>10. ASSUME NEW q \in Procs
           PROVE  Leads(o, q)'
        BY SMTT(20), <1>2, <2>0, <2>1, <2>2, <2>3, <2>4, <2>7, <2>8 DEF Lists, FirstOK, OnList, Leads, HeadOf
    <2>11. ASSUME NEW q \in Procs
           PROVE  Unlinked(o, q)'
        BY SMTT(20), <1>2, <2>0, <2>1, <2>2, <2>3, <2>4 DEF Lists, Unlinked
    <2>12. ASSUME NEW q \in Procs
           PROVE  Alone(o, q)'
        BY SMTT(20), <1>2, <2>0, <2>1, <2>2, <2>3, <2>4, <2>7 DEF Lists, Alone
    <2>13. Grouped(o, k)'
        BY <2>3, <2>5, <2>6, <2>9, <2>10, <2>11, <2>12 DEF Lists
    <2> QED
        BY <2>13 DEF GroupInv
<1> QED
    BY <1>1, <1>2

(* The leader takes the head off its list: what remains ranks below it. *)
LEMMA UnlinkKeeps ==
    ASSUME GroupConstants, NEW own, NEW rank, Grouped(own, rank), NEW p \in Procs, Unlink(p)
    PROVE  GroupInv'
<1> USE DEF GroupConstants, Grouped, Unlink, Goto, Types, Links, Steps,
            Leading, Collecting, Waking, shared
<1>0. PICK w \in Links, r \in Links : w = wakeidx[p] /\ r = procArrayGroupNext[w]
    BY SMTT(20) DEF Lists, Leads, HeadOf
<1> DEFINE o == [own EXCEPT ![w] = INVALID_PGPROCNO]
<1>1. /\ w \in Procs /\ own[w] = p /\ xid[w] = 0 /\ procArrayGroupMember[w]
      /\ pc[w] = "sleep" \/ w = p
      /\ r \in Links /\ (r # INVALID_PGPROCNO => own[r] = p /\ rank[w] = rank[r] + 1)
      /\ r = INVALID_PGPROCNO => rank[w] = 0
    BY SMTT(20), <1>0 DEF Lists, OnList, Leads, HeadOf
<1>2. \A q \in Procs : own[q] = p /\ q # w => rank[q] < rank[w]
    BY <1>0, <1>1 DEF Lists, OnList, HeadOf
<1>3. o \in [Procs -> Links]
    BY Zenon
<1>4. o[w] = INVALID_PGPROCNO /\ \A q \in Procs \ {w} : o[q] = own[q]
    BY <1>1
<1>5. /\ nextidx'[p] = w /\ wakeidx'[p] = r /\ pc'[p] = "tell"
      /\ \A q \in Procs \ {p} : nextidx'[q] = nextidx[q] /\ wakeidx'[q] = wakeidx[q] /\ pc'[q] = pc[q]
      /\ \A q \in Procs \ {w} : procArrayGroupNext'[q] = procArrayGroupNext[q]
      /\ UNCHANGED <<xid, runs, published, procArrayGroupMember, procArrayGroupFirst>>
      /\ pc[p] = "wake" /\ w # INVALID_PGPROCNO
    BY SMTT(20), <1>0, <1>1
<1>6. Types'
    BY SMTT(20), <1>0, <1>1
<1> HIDE DEF o, Unlink
<1>7. FirstOK(o)'
    BY <1>1, <1>3, <1>4, <1>5 DEF Lists, FirstOK
<1>8. ASSUME NEW q \in Procs
      PROVE  OnList(o, rank, q)'
    <2>1. CASE own[q] = p
        BY <2>1, <1>1, <1>2, <1>3, <1>4, <1>5, <1>6, SMTT(20) DEF Lists, OnList, HeadOf, Passed
    <2>2. CASE own[q] # p
        BY <2>2, <1>1, <1>3, <1>4, <1>5, <1>6, SMTT(20) DEF Lists, OnList, HeadOf, Passed
    <2> QED
        BY <2>1, <2>2, Zenon
<1>9. ASSUME NEW q \in Procs
      PROVE  Leads(o, q)'
    BY <1>1, <1>2, <1>3, <1>4, <1>5, <1>6, SMTT(20) DEF Lists, OnList, Leads, HeadOf
<1>10. ASSUME NEW q \in Procs
       PROVE  Unlinked(o, q)'
    BY SMTT(20), <1>1, <1>3, <1>4, <1>5, <1>6 DEF Lists, Unlinked
<1>11. ASSUME NEW q \in Procs
       PROVE  Alone(o, q)'
    BY <1>1, <1>3, <1>4, <1>5, <1>6 DEF Lists, Alone
<1>12. Grouped(o, rank)'
    BY <1>3, <1>6, <1>7, <1>8, <1>9, <1>10, <1>11 DEF Lists
<1> QED
    BY <1>12 DEF GroupInv

(* Every step keeps the invariant. *)
LEMMA StepKeeps ==
    ASSUME GroupConstants, GroupInv, [Next]_vars
    PROVE  GroupInv'
<1>1. PICK own, rank : Grouped(own, rank)
    BY DEF GroupInv
<1>2. ASSUME NEW p \in Procs, BeginTransaction(p) \/ ProcArrayEndTransaction(p) \/ ForeignPost(p)
      PROVE  GroupInv'
    BY <1>1, <1>2, BeginTransactionKeeps, ProcArrayEndTransactionKeeps, ForeignPostKeeps DEF GroupInv
<1>3. ASSUME NEW p \in Procs, ClearOwn(p) \/ CalculateOwn(p) \/ ReleaseOwn(p)
      PROVE  GroupInv'
    BY <1>1, <1>3, ClearOwnKeeps, CalculateOwnKeeps, ReleaseOwnKeeps DEF GroupInv
<1>4. ASSUME NEW p \in Procs, ReadFirst(p) \/ Push(p) \/ Sleep(p)
      PROVE  GroupInv'
    BY <1>1, <1>4, ReadFirstKeeps, PushKeeps, SleepKeeps DEF GroupInv
<1>5. ASSUME NEW p \in Procs,
             AcquireAsLeader(p) \/ TakeList(p) \/ ClearMember(p) \/ CalculateForGroup(p)
      PROVE  GroupInv'
    BY <1>1, <1>5, AcquireAsLeaderKeeps, TakeListKeeps, ClearMemberKeeps, CalculateForGroupKeeps
    DEF GroupInv
<1>6. ASSUME NEW p \in Procs, Unlink(p) \/ Tell(p) \/ Post(p) \/ LeaderDone(p)
      PROVE  GroupInv'
    BY <1>1, <1>6, UnlinkKeeps, TellKeeps, PostKeeps, LeaderDoneKeeps DEF GroupInv
<1>7. CASE UNCHANGED vars
    <2>1. Grouped(own, rank)'
        BY <1>1, <1>7 DEF Grouped, Types, Lists, FirstOK, OnList, Leads, HeadOf, Passed,
                          Unlinked, Alone, vars, shared, list, locals
    <2> QED
        BY <2>1, ZenonT(40) DEF GroupInv
<1> QED
    BY <1>2, <1>3, <1>4, <1>5, <1>6, <1>7, Zenon DEF Next, EndStep

(* At first nobody is on a list. *)
LEMMA InitGrouped ==
    ASSUME GroupConstants, Init
    PROVE  GroupInv
<1> DEFINE none == [q \in Procs |-> INVALID_PGPROCNO]
           zero == [q \in Procs |-> 0]
<1>1. Types
    BY DEF GroupConstants, Init, Types, Steps, Links
<1>2. none \in [Procs -> Links] /\ zero \in [Procs -> Nat]
    BY SMTT(20) DEF Links
<1>3. Lists(none, zero)
    BY DEF Init, Lists, FirstOK, OnList, Leads, HeadOf, Unlinked, Alone, Leading, Collecting, Waking
<1>4. Grouped(none, zero)
    BY SMTT(20), <1>1, <1>2, <1>3 DEF Grouped
<1> QED
    BY <1>4 DEF GroupInv

-----------------------------------------------------------------------------
(* The refinement of XidEnd *)

Calling == [q \in Procs |-> pc[q] # "idle"]

(* A step that publishes nothing and leaves everybody inside or outside its call *)
(* changes nothing of XidEnd.                                                    *)
LEMMA QuietStep ==
    ASSUME UNCHANGED published, \A q \in Procs : (pc'[q] = "idle") <=> (pc[q] = "idle")
    PROVE  UNCHANGED <<published, Calling>>
    BY DEF Calling

(* A snapshot ends the transactions whose xid has been cleared since the last one, *)
(* all of them inside their calls.                                                 *)
LEMMA SnapshotEnds ==
    ASSUME GroupConstants, GroupInv, published' = xid,
           \A q \in Procs : (pc'[q] = "idle") <=> (pc[q] = "idle")
    PROVE  Ends!Next
<1>1. PICK own, rank : Grouped(own, rank)
    BY SMTT(20) DEF GroupInv
<1> DEFINE S == {q \in Procs : published[q] # xid[q]}
<1>2. \A q \in S : xid[q] = 0 /\ published[q] # 0 /\ pc[q] # "idle"
    BY SMTT(20), <1>1 DEF Grouped, Lists, Alone, OnList, Leading
<1>3. Calling' = Calling
    BY DEF Calling
<1>4. published' = [q \in Procs |-> IF q \in S THEN 0 ELSE published[q]]
    BY <1>1, <1>2 DEF Grouped, Types
<1>5. Ends!End(S)
    BY <1>2, <1>3, <1>4, Zenon DEF Ends!End, Calling
<1> QED
    BY <1>5 DEF Ends!Next

(* A backend returns with its transaction ended. *)
LEMMA ReturnEnds ==
    ASSUME GroupConstants, GroupInv, NEW p \in Procs, pc[p] # "idle",
           pc' = [pc EXCEPT ![p] = "idle"], UNCHANGED published,
           published[p] = 0
    PROVE  Ends!Next
<1>1. pc \in [Procs -> Steps]
    BY DEF GroupInv, Grouped, Types
<1>2. Calling' = [Calling EXCEPT ![p] = FALSE]
    BY <1>1, Zenon DEF Calling
<1>3. Ends!Return(p)
    BY <1>2, Zenon DEF Ends!Return, Calling
<1> QED
    BY <1>3 DEF Ends!Next

(* Every step of the group is a step of XidEnd, or none. *)
LEMMA StepIsXidEnd ==
    ASSUME GroupConstants, GroupInv, [Next]_vars
    PROVE  Ends!Next \/ UNCHANGED <<published, Calling>>
<1>1. PICK own, rank : Grouped(own, rank)
    BY DEF GroupInv
<1>2. pc \in [Procs -> Steps] /\ published \in [Procs -> 0..MaxRuns] /\ runs \in [Procs -> 0..MaxRuns]
    BY <1>1 DEF Grouped, Types
<1>3. \A q \in Procs : pc[q] \notin Leading \cup {"calculate_own", "sleep"} => published[q] = xid[q]
    BY <1>1, ZenonT(40) DEF Grouped, Lists, Alone, OnList, Leading
<1>4. ASSUME NEW p \in Procs, BeginTransaction(p)
      PROVE  Ends!Next
    <2>1. published[p] = 0 /\ pc[p] = "idle" /\ runs[p] + 1 \in 1..MaxRuns
        BY <1>2, <1>3, <1>4 DEF BeginTransaction, Leading, GroupConstants
    <2>2. Ends!Begin(p, runs[p] + 1)
        BY <1>4, <2>1, Zenon DEF BeginTransaction, Ends!Begin
    <2> QED
        BY <2>1, <2>2 DEF Ends!Next
<1>5. ASSUME NEW p \in Procs, ProcArrayEndTransaction(p)
      PROVE  Ends!Next
    <2>1. published[p] # 0 /\ pc[p] = "idle" /\ UNCHANGED published
        BY <1>3, <1>5 DEF ProcArrayEndTransaction, Leading
    <2>2. Calling' = [Calling EXCEPT ![p] = TRUE]
        BY <1>2, <1>5, Zenon DEF ProcArrayEndTransaction, Goto, Calling
    <2>3. Ends!Call(p)
        BY <2>1, <2>2, Zenon DEF Ends!Call, Calling
    <2> QED
        BY <2>3 DEF Ends!Next
<1>6. ASSUME NEW p \in Procs, CalculateOwn(p) \/ CalculateForGroup(p)
      PROVE  Ends!Next
    <2>1. published' = xid /\ \A q \in Procs : (pc'[q] = "idle") <=> (pc[q] = "idle")
        BY <1>2, <1>6 DEF CalculateOwn, CalculateForGroup, Goto
    <2> QED
        BY <2>1, SnapshotEnds
<1>7. ASSUME NEW p \in Procs, ReleaseOwn(p) \/ LeaderDone(p) \/ (Sleep(p) /\ ~procArrayGroupMember[p])
      PROVE  Ends!Next
    <2>1. OnList(own, rank, p) /\ Leads(own, p) /\ Alone(own, p)
        BY <1>1, Zenon DEF Grouped, Lists
    <2>2. CASE ReleaseOwn(p)
        <3>1. pc[p] = "release_own" /\ pc' = [pc EXCEPT ![p] = "idle"] /\ UNCHANGED published
            BY <2>2, Zenon DEF ReleaseOwn, Goto
        <3>2. xid[p] = 0 /\ published[p] = xid[p]
            BY <2>1, <3>1, Zenon DEF Alone, OnList, Leading
        <3> QED
            BY <3>1, <3>2, ReturnEnds, Zenon
    <2>3. CASE LeaderDone(p)
        <3>1. pc[p] = "wake" /\ pc' = [pc EXCEPT ![p] = "idle"] /\ UNCHANGED published
            BY <2>3, Zenon DEF LeaderDone, Goto, shared
        <3>2. xid[p] = 0 /\ own[p] \in {p, INVALID_PGPROCNO}
            BY <2>1, <3>1, Zenon DEF Leads, Leading, Waking
        <3>3. published[p] = xid[p]
            BY <2>1, <3>1, <3>2, Zenon DEF Alone
        <3> QED
            BY <3>1, <3>2, <3>3, ReturnEnds, Zenon
    <2>4. CASE Sleep(p) /\ ~procArrayGroupMember[p]
        <3>1. pc[p] = "sleep" /\ pc' = [pc EXCEPT ![p] = "idle"] /\ UNCHANGED published
            BY <2>4, Zenon DEF Sleep, Goto, shared
        <3>2. xid[p] = 0 /\ published[p] = xid[p]
            BY <2>1, <2>4, <3>1, Zenon DEF Alone
        <3> QED
            BY <3>1, <3>2, ReturnEnds, Zenon
    <2> QED
        BY <1>7, <2>2, <2>3, <2>4
<1>8. ASSUME NEW p \in Procs,
             \/ ClearOwn(p) \/ ReadFirst(p) \/ Push(p) \/ (Sleep(p) /\ procArrayGroupMember[p])
             \/ AcquireAsLeader(p) \/ TakeList(p) \/ ClearMember(p)
             \/ Unlink(p) \/ Tell(p) \/ Post(p) \/ ForeignPost(p)
      PROVE  UNCHANGED <<published, Calling>>
    <2>1. UNCHANGED published
        BY <1>8, ZenonT(40) DEF ClearOwn, ReadFirst, Push, Sleep, AcquireAsLeader, TakeList, ClearMember,
                    Unlink, Tell, Post, ForeignPost, shared
    <2>2. \A q \in Procs : (pc'[q] = "idle") <=> (pc[q] = "idle")
        BY <1>2, <1>8 DEF ClearOwn, ReadFirst, Push, Sleep, AcquireAsLeader, TakeList, ClearMember,
                          Unlink, Tell, Post, ForeignPost, Goto
    <2> QED
        BY <2>1, <2>2, QuietStep, Zenon
<1>9. CASE UNCHANGED vars
    BY <1>9 DEF vars, shared, Calling
<1> QED
    BY <1>4, <1>5, <1>6, <1>7, <1>8, <1>9, Zenon DEF Next, EndStep

(* Through a member or through a leader, for any number of backends and transactions,  *)
(* ProcArrayEndTransaction takes effect once, between its call and its return: before  *)
(* that every snapshot has the transaction running, after that none has, and no leader *)
(* ends a transaction its backend has not asked to end.                                *)
THEOREM GroupImplementsXidEnd ==
    ASSUME GroupConstants
    PROVE  Spec => ImplementsXidEnd
<1>1. Init => GroupInv /\ Ends!Init
    <2>1. Init => Ends!Init
        BY Zenon DEF Init, Ends!Init
    <2> QED
        BY <2>1, InitGrouped
<1>2. GroupInv /\ [Next]_vars => GroupInv'
    BY SMTT(20), StepKeeps
<1>3. GroupInv /\ [Next]_vars => [Ends!Next]_<<published, [p \in Procs |-> pc[p] # "idle"]>>
    BY StepIsXidEnd DEF Calling
<1> QED
    BY <1>1, <1>2, <1>3, PTL DEF Spec, ImplementsXidEnd, Ends!Spec
=============================================================================
