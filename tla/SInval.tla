------------------------------- MODULE SInval -------------------------------
(***************************************************************************)
(* The shared invalidation queue: storage/ipc/sinvaladt.cpp and the loop   *)
(* of sinval.cpp that reads it.                                            *)
(*                                                                         *)
(* SInvalWriteLock is held over several steps; SInvalReadLock is held by   *)
(* readers over several steps and taken exclusively for one step only,     *)
(* SICleanupQueue's, which nobody can observe half-way.                    *)
(***************************************************************************)
EXTENDS Integers, Sequences, FiniteSets

CONSTANTS
    maxBackends, maxreserveBackends,    \* procState[] and its reserved part
    Msgs,                               \* invalidation messages
    MAXNUMMESSAGES, MSGNUMWRAPAROUND, CLEANUP_MIN, CLEANUP_QUANTUM,
    SIG_THRESHOLD, WRITE_QUANTUM, MAXINVALMSGS,
    SendOnlyChoices,                    \* of the threads of an instance: a subset of BOOLEAN
    Batches,                            \* the message lists an instance sends
    NoMsg,                              \* what a slot of the buffer holds before its first use
    Inactive, Overrun                   \* of the abstract queues

ASSUME RingFits ==
    /\ MAXNUMMESSAGES \in Nat \ {0} /\ MSGNUMWRAPAROUND \in Nat
    /\ MSGNUMWRAPAROUND % MAXNUMMESSAGES = 0 /\ MSGNUMWRAPAROUND > 0
    /\ WRITE_QUANTUM \in 1..MAXNUMMESSAGES
ASSUME BatchesAreMsgs == Batches \subseteq Seq(Msgs) \ {<<>>}
ASSUME SlotsFit == maxBackends \in Nat /\ maxreserveBackends \in 0..maxBackends
ASSUME Tunables ==
    /\ CLEANUP_MIN \in Nat /\ CLEANUP_QUANTUM \in Nat \ {0} /\ SIG_THRESHOLD \in Nat
    /\ MAXINVALMSGS \in Nat \ {0} /\ SendOnlyChoices \subseteq BOOLEAN
ASSUME MarksAreNotQueues ==
    Inactive # Overrun /\ {Inactive, Overrun} \cap Seq(Msgs \cup {NoMsg}) = {}

Slots == 1..maxBackends
Reserved == 1..maxreserveBackends
Nobody == 0

VARIABLES
    buffer, minMsgNum, maxMsgNum, nextThreshold, lastBackend, lastreserveBackend,
    procState,          \* per slot: active, nextMsgNum, resetState, signaled, hasMessages, sendOnly
    writeLock,          \* holder of SInvalWriteLock, or Nobody
    readers,            \* holders of SInvalReadLock
    pc,                 \* where the backend of a slot is
    todo,               \* messages SIInsertDataEntries has still to add
    max,                \* local of SIGetDataEntries
    target,             \* whom SICleanupQueue is about to signal, or Nobody
    catchup,            \* catchupInterruptPending
    due                 \* messages queued before the running Receive was entered, not yet read

ring == <<buffer, minMsgNum, maxMsgNum, nextThreshold>>
slotCounts == <<lastBackend, lastreserveBackend>>
local == <<todo, max, target, catchup, due>>
vars == <<ring, slotCounts, procState, writeLock, readers, pc, local>>

FreeSlot == [active |-> FALSE, nextMsgNum |-> 0, resetState |-> FALSE, signaled |-> FALSE,
             hasMessages |-> FALSE, sendOnly |-> FALSE]

(* int arithmetic: an int spans four times MSGNUMWRAPAROUND *)
AsInt(x) == ((x + 2 * MSGNUMWRAPAROUND) % (4 * MSGNUMWRAPAROUND)) - 2 * MSGNUMWRAPAROUND

Least(a, b) == IF a < b THEN a ELSE b

LastActive(ps, limit) ==
    LET inUse == {i \in 1..limit : ps[i].active}
    IN  IF inUse = {} THEN 0 ELSE CHOOSE i \in inUse : \A j \in inUse : j <= i

Init ==
    /\ buffer = [s \in 0..MAXNUMMESSAGES - 1 |-> NoMsg]
    /\ minMsgNum = 0 /\ maxMsgNum = 0 /\ nextThreshold = CLEANUP_MIN
    /\ lastBackend = 0 /\ lastreserveBackend = 0
    /\ procState = [i \in Slots |-> FreeSlot]
    /\ writeLock = Nobody /\ readers = {}
    /\ pc = [i \in Slots |-> "idle"]
    /\ todo = [i \in Slots |-> <<>>]
    /\ max = [i \in Slots |-> 0]
    /\ target = [i \in Slots |-> Nobody]
    /\ catchup = [i \in Slots |-> FALSE]
    /\ due = [i \in Slots |-> 0]

Goto(b, where) == pc' = [pc EXCEPT ![b] = where]

Idle(b) == procState[b].active /\ pc[b] = "idle"

-----------------------------------------------------------------------------
(* Backends come and go, under SInvalWriteLock *)

Occupy(i, sendOnly) ==
    procState' = [procState EXCEPT ![i] =
        [FreeSlot EXCEPT !.active = TRUE, !.nextMsgNum = maxMsgNum, !.sendOnly = sendOnly]]

(* The first free entry below lastreserveBackend, or else a new one.  A full     *)
(* array is FATAL for the new thread and changes nothing.                        *)
SharedInvalReserveBackendInit(sendOnly) ==
    LET free == {i \in 1..lastreserveBackend : ~procState[i].active}
        index == IF free # {} THEN CHOOSE i \in free : \A j \in free : i <= j
                 ELSE lastreserveBackend + 1
    IN  /\ writeLock = Nobody
        /\ index <= maxreserveBackends
        /\ lastreserveBackend' = IF index > lastreserveBackend THEN index ELSE lastreserveBackend
        /\ lastBackend' = IF lastreserveBackend' > lastBackend THEN lastreserveBackend' ELSE lastBackend
        /\ Occupy(index, sendOnly)
        /\ UNCHANGED <<ring, writeLock, readers, pc, local>>

(* A thread pool session brings its own index *)
SharedInvalWorkSessionInit(i) ==
    /\ writeLock = Nobody
    /\ i \in Slots \ Reserved
    /\ ~procState[i].active
    /\ lastBackend' = IF i > lastBackend THEN i ELSE lastBackend
    /\ Occupy(i, FALSE)
    /\ UNCHANGED <<ring, lastreserveBackend, writeLock, readers, pc, local>>

(* A pending catchup dies with the thread, and SendProcSignal to it finds nobody.  *)
(* The flags the code leaves in a free slot are set anew by its next owner.        *)
Vacate(b) ==
    /\ writeLock = Nobody
    /\ Idle(b)
    /\ procState' = [procState EXCEPT ![b] = FreeSlot]
    /\ lastBackend' = LastActive(procState', lastBackend)
    /\ catchup' = [catchup EXCEPT ![b] = FALSE]
    /\ target' = [i \in Slots |-> IF target[i] = b THEN Nobody ELSE target[i]]
    /\ UNCHANGED <<ring, writeLock, readers, pc, todo, max, due>>

CleanupInvalidationState(b) ==
    /\ b \in Reserved
    /\ Vacate(b)
    /\ lastreserveBackend' = LastActive(procState', lastreserveBackend)

CleanupWorkSessionInvalidation(b) ==
    /\ b \notin Reserved
    /\ Vacate(b)
    /\ UNCHANGED lastreserveBackend

-----------------------------------------------------------------------------
(* Sending *)

numMsgs == maxMsgNum - minMsgNum

nthistime(b) == Least(Len(todo[b]), WRITE_QUANTUM)

(* Mutant: the buffer is taken to be one slot larger *)
MustCleanLate(num, k) == num + k > MAXNUMMESSAGES + 1 \/ num >= nextThreshold + 1

MustClean(num, k) == num + k > MAXNUMMESSAGES \/ num >= nextThreshold

(* SInvalWriteLock is taken for a group of messages, and the loop's test made *)
LockAndTest(b) ==
    /\ writeLock \in {Nobody, b}
    /\ writeLock' = b
    /\ Goto(b, IF MustClean(numMsgs, Least(Len(todo'[b]), WRITE_QUANTUM)) THEN "cleanup" ELSE "insert")
    /\ UNCHANGED <<ring, slotCounts, procState, readers, max, target, catchup, due>>

SIInsertDataEntries(b, batch) ==
    /\ Idle(b)
    /\ todo' = [todo EXCEPT ![b] = batch]
    /\ LockAndTest(b)

(* For the next group, or after SICleanupQueue *)
InsertMore(b) ==
    /\ pc[b] = "send"
    /\ UNCHANGED todo
    /\ LockAndTest(b)

(* The messages go into slots no reader is interested in ... *)
InsertMessages(b) ==
    /\ pc[b] = "insert"
    /\ buffer' = [s \in DOMAIN buffer |->
                    LET hits == {k \in 1..nthistime(b) : (maxMsgNum + k - 1) % MAXNUMMESSAGES = s}
                    IN  IF hits = {} THEN buffer[s] ELSE todo[b][CHOOSE k \in hits : TRUE]]
    /\ Goto(b, "publish")
    /\ UNCHANGED <<minMsgNum, maxMsgNum, nextThreshold, slotCounts, procState, writeLock,
                   readers, local>>

(* ... become visible under msgnumLock ... *)
PublishMaxMsgNum(b) ==
    /\ pc[b] = "publish"
    /\ maxMsgNum' = maxMsgNum + nthistime(b)
    /\ Goto(b, "kick")
    /\ UNCHANGED <<buffer, minMsgNum, nextThreshold, slotCounts, procState, writeLock,
                   readers, local>>

(* ... and everyone is told *)
SetHasMessages(b) ==
    LET rest == SubSeq(todo[b], nthistime(b) + 1, Len(todo[b]))
    IN  /\ pc[b] = "kick"
        /\ procState' = [i \in Slots |->
                            IF i <= lastBackend /\ procState[i].active
                              THEN [procState[i] EXCEPT !.hasMessages = TRUE]
                              ELSE procState[i]]
        /\ writeLock' = Nobody
        /\ todo' = [todo EXCEPT ![b] = rest]
        /\ Goto(b, IF rest = <<>> THEN "idle" ELSE "send")
        /\ UNCHANGED <<ring, slotCounts, readers, max, target, catchup, due>>

-----------------------------------------------------------------------------
(* SICleanupQueue *)

(* Mutant: the loop stops one slot early *)
FollowersBelowLast ==
    {i \in 1..lastBackend - 1 : /\ procState[i].active /\ ~procState[i].resetState
                                /\ ~procState[i].sendOnly}

(* Backends whose position counts *)
Followers == {i \in 1..lastBackend : /\ procState[i].active /\ ~procState[i].resetState
                                     /\ ~procState[i].sendOnly}

(* Mutant: one slot short *)
lowboundShort(minFree) == maxMsgNum - MAXNUMMESSAGES + minFree - 1

lowbound(minFree) == maxMsgNum - MAXNUMMESSAGES + minFree

TooFarBack(minFree) == {i \in Followers : procState[i].nextMsgNum < lowbound(minFree)}

MinNext(S) ==
    CHOOSE x \in {maxMsgNum} \cup {procState[i].nextMsgNum : i \in S} :
        \A i \in S : x <= procState[i].nextMsgNum /\ x <= maxMsgNum

(* The furthest back of the backends to be signaled, the first of equals *)
NeedSig(S) ==
    LET behind == {i \in S \cap Reserved : /\ procState[i].nextMsgNum < maxMsgNum - SIG_THRESHOLD
                                           /\ ~procState[i].signaled}
    IN  IF behind = {} THEN Nobody
        ELSE CHOOSE i \in behind : \A j \in behind :
                \/ procState[i].nextMsgNum < procState[j].nextMsgNum
                \/ procState[i].nextMsgNum = procState[j].nextMsgNum /\ i <= j

Threshold(num) ==
    IF num < CLEANUP_MIN THEN CLEANUP_MIN ELSE (num \div CLEANUP_QUANTUM + 1) * CLEANUP_QUANTUM

Renumbering(min) == IF min >= MSGNUMWRAPAROUND THEN MSGNUMWRAPAROUND ELSE 0

SICleanupQueue(b, minFree) ==
    LET late == TooFarBack(minFree)
        min == MinNext(Followers \ late)
        sig == NeedSig(Followers \ late)
        down == Renumbering(min)
    IN  /\ readers = {}
        /\ minMsgNum' = min - down
        /\ maxMsgNum' = maxMsgNum - down
        /\ procState' = [i \in Slots |->
                IF i <= lastBackend /\ procState[i].active
                  THEN [procState[i] EXCEPT !.nextMsgNum = AsInt(@ - down),
                                            !.resetState = @ \/ i \in late,
                                            !.signaled = @ \/ i = sig]
                  ELSE procState[i]]
        /\ nextThreshold' = Threshold(maxMsgNum - min)
        /\ target' = [target EXCEPT ![b] = sig]

(* Called by a sender: both locks are released if there is somebody to signal *)
CleanupForSpace(b) ==
    /\ pc[b] = "cleanup"
    /\ SICleanupQueue(b, nthistime(b))
    /\ IF target'[b] # Nobody
         THEN writeLock' = Nobody /\ Goto(b, "signal")
         ELSE UNCHANGED writeLock /\ Goto(b, "send")
    /\ UNCHANGED <<buffer, slotCounts, readers, todo, max, catchup, due>>

(* Called by a backend that has caught up *)
PassOnCatchup(b) ==
    /\ pc[b] = "pass_on"
    /\ writeLock = b
    /\ SICleanupQueue(b, 0)
    /\ writeLock' = Nobody
    /\ Goto(b, IF target'[b] # Nobody THEN "signal" ELSE "idle")
    /\ UNCHANGED <<buffer, slotCounts, readers, todo, max, catchup, due>>

(* SendProcSignal; HandleCatchupInterrupt sets the flag of the other thread *)
SendCatchup(b) ==
    /\ pc[b] = "signal"
    /\ catchup' = [i \in Slots |-> catchup[i] \/ i = target[b]]
    /\ target' = [target EXCEPT ![b] = Nobody]
    /\ Goto(b, IF todo[b] = <<>> THEN "idle" ELSE "send")
    /\ UNCHANGED <<ring, slotCounts, procState, writeLock, readers, todo, max, due>>

-----------------------------------------------------------------------------
(* Receiving *)

(* The last message whose sender has told everyone *)
Announced ==
    IF writeLock # Nobody /\ pc[writeLock] = "kick" THEN maxMsgNum - nthistime(writeLock) ELSE maxMsgNum

(* ReceiveSharedInvalidMessages begins with the unlocked test of hasMessages *)
QuickTest(b) == Goto(b, IF procState[b].hasMessages THEN "get" ELSE "caught_up")

ReceiveSharedInvalidMessages(b) ==
    /\ Idle(b)
    /\ ~procState[b].sendOnly
    /\ due' = [due EXCEPT ![b] = IF procState[b].resetState THEN 1
                                 ELSE Announced - Least(Announced, procState[b].nextMsgNum)]
    /\ QuickTest(b)
    /\ UNCHANGED <<ring, slotCounts, procState, writeLock, readers, todo, max, target, catchup>>

(* A full array was read: SIGetDataEntries again *)
GetMore(b) ==
    /\ pc[b] = "again"
    /\ QuickTest(b)
    /\ UNCHANGED <<ring, slotCounts, procState, writeLock, readers, local>>

AcquireReadLock(b) ==
    /\ pc[b] = "get"
    /\ readers' = readers \cup {b}
    /\ procState' = [procState EXCEPT ![b].hasMessages = FALSE]
    /\ Goto(b, "fetch_max")
    /\ UNCHANGED <<ring, slotCounts, writeLock, local>>

(* Mutant: a reset leaves the signaled flag alone *)
StaySignaled(ps) == [ps EXCEPT !.nextMsgNum = maxMsgNum, !.resetState = FALSE]

AfterReset(ps) == [ps EXCEPT !.nextMsgNum = maxMsgNum, !.resetState = FALSE, !.signaled = FALSE]

ForceReset(b) ==
    /\ procState[b].resetState
    /\ procState' = [procState EXCEPT ![b] = AfterReset(@)]
    /\ readers' = readers \ {b}
    /\ due' = [due EXCEPT ![b] = 0]
    /\ Goto(b, "caught_up")
    /\ UNCHANGED max

(* max is read under msgnumLock; resetState cannot change under SInvalReadLock *)
FetchMaxMsgNum(b) ==
    /\ pc[b] = "fetch_max"
    /\ \/ ForceReset(b)
       \/ /\ ~procState[b].resetState
          /\ max' = [max EXCEPT ![b] = maxMsgNum]
          /\ Goto(b, "copy")
          /\ UNCHANGED <<procState, readers, due>>
    /\ UNCHANGED <<ring, slotCounts, writeLock, todo, target, catchup>>

(* How many messages fit *)
Fetched(b) == Least(MAXINVALMSGS, max[b] - procState[b].nextMsgNum)

(* Mutant: the loop is left although the array was full *)
StopWhenFull(b) == "caught_up"

AfterFetch(b) == IF Fetched(b) = MAXINVALMSGS THEN "again" ELSE "caught_up"

(* Mutant: hasMessages is cleared after maxMsgNum was read *)
ClearWhenCaughtUp(ps, next, upTo) ==
    IF next >= upTo THEN [ps EXCEPT !.nextMsgNum = next, !.signaled = FALSE, !.hasMessages = FALSE]
    ELSE [ps EXCEPT !.nextMsgNum = next, !.hasMessages = TRUE]

AfterCopy(ps, next, upTo) ==
    IF next >= upTo THEN [ps EXCEPT !.nextMsgNum = next, !.signaled = FALSE]
    ELSE [ps EXCEPT !.nextMsgNum = next, !.hasMessages = TRUE]

(* Under SInvalReadLock nothing before max changes, so the loop is one step *)
CopyMessages(b) ==
    LET next == procState[b].nextMsgNum + Fetched(b)
    IN  /\ pc[b] = "copy"
        /\ procState' = [procState EXCEPT ![b] = AfterCopy(@, next, max[b])]
        /\ readers' = readers \ {b}
        /\ due' = [due EXCEPT ![b] = @ - Least(@, Fetched(b))]
        /\ max' = [max EXCEPT ![b] = 0]
        /\ Goto(b, AfterFetch(b))
        /\ UNCHANGED <<ring, slotCounts, writeLock, todo, target, catchup>>

(* "We are now caught up.  If we received a catchup signal, reset that flag" *)
CaughtUp(b) ==
    /\ pc[b] = "caught_up"
    /\ IF catchup[b]
         THEN /\ writeLock = Nobody
              /\ writeLock' = b
              /\ catchup' = [catchup EXCEPT ![b] = FALSE]
              /\ Goto(b, "pass_on")
         ELSE Goto(b, "idle") /\ UNCHANGED <<writeLock, catchup>>
    /\ UNCHANGED <<ring, slotCounts, procState, readers, todo, max, target, due>>

-----------------------------------------------------------------------------
Sender(b) ==
    \/ \E batch \in Batches : SIInsertDataEntries(b, batch)
    \/ InsertMore(b) \/ CleanupForSpace(b) \/ SendCatchup(b)
    \/ InsertMessages(b) \/ PublishMaxMsgNum(b) \/ SetHasMessages(b)

Receiver(b) ==
    \/ ReceiveSharedInvalidMessages(b) \/ GetMore(b) \/ AcquireReadLock(b) \/ FetchMaxMsgNum(b)
    \/ CopyMessages(b) \/ CaughtUp(b) \/ PassOnCatchup(b)

Next ==
    \/ \E so \in SendOnlyChoices : SharedInvalReserveBackendInit(so)
    \/ \E b \in Slots : \/ SharedInvalWorkSessionInit(b)
                        \/ CleanupInvalidationState(b) \/ CleanupWorkSessionInvalidation(b)
                        \/ Sender(b) \/ Receiver(b)

Spec == Init /\ [][Next]_vars
-----------------------------------------------------------------------------
(* Properties *)

Steps == {"idle", "send", "cleanup", "insert", "publish", "kick", "signal",
          "get", "fetch_max", "copy", "again", "caught_up", "pass_on"}

ProcStates == [active : BOOLEAN, nextMsgNum : Int, resetState : BOOLEAN,
               signaled : BOOLEAN, hasMessages : BOOLEAN, sendOnly : BOOLEAN]

(* The shapes and ranges of the queue's state: message numbers stay below        *)
(* MSGNUMWRAPAROUND + MAXNUMMESSAGES however long the server runs.               *)
TypeOK ==
    /\ buffer \in [0..MAXNUMMESSAGES - 1 -> Msgs \cup {NoMsg}]
    /\ minMsgNum \in 0..MSGNUMWRAPAROUND - 1
    /\ maxMsgNum \in 0..MSGNUMWRAPAROUND + MAXNUMMESSAGES - 1
    /\ nextThreshold \in Nat
    /\ lastBackend \in 0..maxBackends /\ lastreserveBackend \in 0..maxreserveBackends
    /\ procState \in [Slots -> ProcStates]
    /\ writeLock \in Slots \cup {Nobody} /\ readers \subseteq Slots
    /\ pc \in [Slots -> Steps]
    /\ todo \in [Slots -> Seq(Msgs)]
    /\ max \in [Slots -> Nat]
    /\ target \in [Slots -> Slots \cup {Nobody}] /\ catchup \in [Slots -> BOOLEAN]
    /\ due \in [Slots -> Nat]

(* sinvaladt.cpp's header: maxMsgNum >= nextMsgNum >= minMsgNum for every backend *)
(* that is not reset (and not sendOnly), and no more than the buffer's size       *)
(* between the two ends, across every renumbering by MSGNUMWRAPAROUND; and all    *)
(* variables are in their ranges.                                                 *)
PositionsInOrder ==
    /\ TypeOK
    /\ maxMsgNum - minMsgNum \in 0..MAXNUMMESSAGES
    /\ \A i \in Slots : procState[i].active /\ ~procState[i].resetState /\ ~procState[i].sendOnly
            => procState[i].nextMsgNum \in minMsgNum..maxMsgNum

(* A cleared hasMessages really means "nothing announced and unread": the kick of *)
(* SIInsertDataEntries and the clearing in SIGetDataEntries, which share no lock, *)
(* never cancel each other.                                                       *)
NothingMissed ==
    \A b \in Slots : /\ procState[b].active /\ ~procState[b].sendOnly /\ ~procState[b].hasMessages
                     /\ pc[b] \notin {"fetch_max", "copy"}
        => ~procState[b].resetState /\ procState[b].nextMsgNum >= Announced

(* "We guarantee to process all messages that had been queued before the routine  *)
(* was entered": when ReceiveSharedInvalidMessages has left its loop it has read, *)
(* or been told to reset instead of, each of them.                                *)
ReceivesAll == \A b \in Slots : pc[b] \in {"caught_up", "pass_on"} => due[b] = 0

(* The signaled flag, which keeps SICleanupQueue from signalling a backend again, *)
(* is never stuck: while it is set the signal is under way or not yet served, or  *)
(* the backend's next receive has messages to read, or is reading them, and will  *)
(* clear it.  (A signal that arrives between a backend's last look at the queue   *)
(* and its clearing of catchupInterruptPending is lost: only hasMessages is left.) *)
SignalNotStuck ==
    \A b \in Slots : procState[b].active /\ procState[b].signaled =>
        \/ catchup[b]
        \/ \E s \in Slots : target[s] = b
        \/ procState[b].hasMessages
        \/ pc[b] \in {"fetch_max", "copy"}

(* SICleanupQueue(true, n) leaves room for n messages and a threshold above the   *)
(* fill level, so SIInsertDataEntries's loop calls it again only if the lock was  *)
(* released in between.                                                           *)
CleanupMakesRoom ==
    [][\A b \in Slots : pc[b] = "cleanup" /\ pc'[b] # "cleanup" =>
            /\ numMsgs' + nthistime(b) <= MAXNUMMESSAGES
            /\ numMsgs' < nextThreshold']_vars

(* The messages a backend has not read, as the circular buffer holds them *)
Unread(b) ==
    IF ~procState[b].active \/ procState[b].sendOnly THEN Inactive
    ELSE IF procState[b].resetState THEN Overrun
    ELSE [k \in 1..maxMsgNum - procState[b].nextMsgNum |->
            buffer[(procState[b].nextMsgNum + k - 1) % MAXNUMMESSAGES]]

Queues == INSTANCE SIQueues WITH Backends <- Slots,
                                 owed <- [b \in Slots |-> Unread(b)]

(* One circular buffer with a position per backend behaves as a FIFO queue per    *)
(* backend: no unread message is overwritten, skipped, read twice or reordered.   *)
ImplementsQueues == Queues!Init /\ [][Queues!Next(WRITE_QUANTUM, MAXINVALMSGS)]_([b \in Slots |-> Unread(b)])
=============================================================================
