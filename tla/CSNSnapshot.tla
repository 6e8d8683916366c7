----------------------------- MODULE CSNSnapshot -----------------------------
(***************************************************************************)
(* Commit sequence numbers, snapshots and visibility.                      *)
(*                                                                         *)
(*  - a writer assigns itself a transaction id, and commits or aborts:     *)
(*    RecordTransactionCommit / RecordTransactionAbort (xact.cpp),         *)
(*    TransactionIdAsyncCommitTree (transam.cpp), and                      *)
(*    ProcArrayEndTransaction (procarray.cpp);                             *)
(*  - CalculateLocalLatestSnapshot, run by a writer that ends under        *)
(*    ProcArrayLock, puts a new snapshot into the ring buffer;             *)
(*  - a reader takes a snapshot from the ring without any lock             *)
(*    (GetSnapshotData, GetLocalSnapshotData), and asks whether a          *)
(*    transaction is visible in it (XidVisibleInSnapshot); it may hold an  *)
(*    older snapshot besides, as a cursor does;                            *)
(*  - the checkpointer truncates the csnlog (CreateCheckPoint).            *)
(*                                                                         *)
(* The local mode (GTM_FREE_MODE) of a primary, transactions without       *)
(* subtransactions.                                                        *)
(***************************************************************************)
EXTENDS Naturals, FiniteSets

CONSTANTS
    Writers, Readers,
    MaxXid,             \* bound: transaction ids an instance hands out
    MaxNumSnapVersion,  \* slots of the ring buffer
    SNAP_ERROR_COUNT,   \* used slots after which the search for a free one gives up
    Nobody,
    Rare                \* the rarer steps that happen: of "defer", "cursor" and "checkpoint"

ASSUME RingHasNext ==
    /\ MaxNumSnapVersion \in Nat /\ MaxNumSnapVersion >= 2
    /\ SNAP_ERROR_COUNT \in Nat /\ SNAP_ERROR_COUNT > MaxNumSnapVersion
ASSUME SnapshotConstants == MaxXid \in Nat /\ IsFiniteSet(Readers) /\ Nobody \notin Writers

Xids == 1..MaxXid
InvalidTransactionId == 0
COMMITSEQNO_FROZEN == 2
COMMITSEQNO_FIRST_NORMAL == 3
Ring == 0..MaxNumSnapVersion - 1

(* An entry of the csnlog: a status with a csn.  While "committing" the csn is a  *)
(* lower bound of the final one.                                                  *)
Inprogress == [status |-> "inprogress", csn |-> 0]
Committing(c) == [status |-> "committing", csn |-> c]
Committed(c) == [status |-> "committed", csn |-> c]
Aborted == [status |-> "aborted", csn |-> 1]

VARIABLES
    nextXid, nextCommitSeqNo, latestCompletedXid,   \* ShmemVariableCache
    shmemXmin, recentLocalXmin,                     \* ShmemVariableCache
    csnlog, clog,
    xid,            \* xid[w]: pgxact->xid, what the proc array shows
    lockXid,        \* lockXid[w]: the transaction id w holds the lock of
    commitCSN,      \* commitCSN[w]: proc->commitCSN, and before it the csn last read
    wpc,
    procArrayLock,  \* the writer that holds ProcArrayLock exclusively
    globalxmin,     \* of the running CalculateLocalLatestSnapshot
    snap, refcnt, snapCurrent, snapNext,    \* the ring buffer
    nofindCount,    \* of the running SetNextSnapXid
    xmin,           \* xmin[r]: pgxact->xmin
    rpc,
    snapxid,        \* snapxid[r]: the ring slot r reads
    snapshot,       \* snapshot[r]: the reader's copy: xmin and snapshotcsn
    held,           \* held[r]: an older snapshot of the same transaction
    cached,         \* cached[r]: cachedFetchCSNXid and cachedFetchCSN
    asked,          \* asked[r]: the transaction whose visibility is being decided
    answer,         \* answer[r][x]: the last answer to r about x in this snapshot
    ckptXmin,       \* the checkpointer's globalXmin, 0 outside a checkpoint
    csnlogStart     \* the oldest transaction the csnlog still holds

shmem == <<nextXid, nextCommitSeqNo, latestCompletedXid>>
horizon == <<shmemXmin, recentLocalXmin>>
logs == <<csnlog, clog>>
writer == <<xid, lockXid, commitCSN, wpc>>
ringVars == <<snap, refcnt, snapCurrent, snapNext, nofindCount>>
reader == <<xmin, rpc, snapxid, snapshot, held, cached, asked, answer>>
ckpt == <<ckptXmin, csnlogStart>>
vars == <<shmem, horizon, logs, writer, procArrayLock, globalxmin, ringVars, reader, ckpt>>

NoAnswers == [x \in Xids |-> "none"]
NoSnapshot == [xmin |-> 0, csn |-> 0]
NothingCached == [xid |-> 0, entry |-> Inprogress]

(* After startup: one snapshot has been calculated, into slot 1 *)
Init ==
    /\ nextXid = 1 /\ nextCommitSeqNo = COMMITSEQNO_FIRST_NORMAL /\ latestCompletedXid = 0
    /\ shmemXmin = 1 /\ recentLocalXmin = 1
    /\ csnlog = [x \in Xids |-> Inprogress] /\ clog = [x \in Xids |-> "inprogress"]
    /\ xid = [w \in Writers |-> 0] /\ lockXid = [w \in Writers |-> 0]
    /\ commitCSN = [w \in Writers |-> 0] /\ wpc = [w \in Writers |-> "idle"]
    /\ procArrayLock = Nobody /\ globalxmin = 0
    /\ snap = [i \in Ring |-> IF i = 1 THEN [xmin |-> 1, localxmin |-> 1]
                              ELSE [xmin |-> 0, localxmin |-> 0]]
    /\ refcnt = [i \in Ring |-> 0]
    /\ snapCurrent = 1 /\ snapNext = 2 % MaxNumSnapVersion /\ nofindCount = 0
    /\ xmin = [r \in Readers |-> 0] /\ rpc = [r \in Readers |-> "idle"]
    /\ snapxid = [r \in Readers |-> 0] /\ snapshot = [r \in Readers |-> NoSnapshot]
    /\ held = [r \in Readers |-> NoSnapshot] /\ cached = [r \in Readers |-> NothingCached]
    /\ ckptXmin = 0 /\ csnlogStart = 1
    /\ asked = [r \in Readers |-> 0] /\ answer = [r \in Readers |-> NoAnswers]

WGoto(w, where) == wpc' = [wpc EXCEPT ![w] = where]
RGoto(r, where) == rpc' = [rpc EXCEPT ![r] = where]

Lowest(S) == CHOOSE x \in S : \A y \in S : x <= y

-----------------------------------------------------------------------------
(* Writers *)

(* GetNewTransactionId, under XidGenLock, and XactLockTableInsert *)
AssignTransactionId(w) ==
    /\ wpc[w] = "idle"
    /\ nextXid \in Xids
    /\ xid' = [xid EXCEPT ![w] = nextXid]
    /\ lockXid' = [lockXid EXCEPT ![w] = nextXid]
    /\ nextXid' = nextXid + 1
    /\ WGoto(w, "running")
    /\ UNCHANGED <<nextCommitSeqNo, latestCompletedXid, horizon, logs, commitCSN, procArrayLock,
                   globalxmin, ringVars, reader, ckpt>>

(* SetXact2CommitInProgress reads nextCommitSeqNo ... *)
ReadLatestCSN(w) ==
    /\ wpc[w] = "running"
    /\ commitCSN' = [commitCSN EXCEPT ![w] = nextCommitSeqNo]
    /\ WGoto(w, "mark")
    /\ UNCHANGED <<shmem, horizon, logs, xid, lockXid, procArrayLock, globalxmin, ringVars, reader, ckpt>>

(* ... and stores it in the csnlog with COMMITSEQNO_COMMIT_INPROGRESS *)
SetXact2CommitInProgress(w) ==
    /\ wpc[w] = "mark"
    /\ csnlog' = [csnlog EXCEPT ![xid[w]] = Committing(commitCSN[w])]
    /\ WGoto(w, "take_csn")
    /\ UNCHANGED <<shmem, horizon, clog, xid, lockXid, commitCSN, procArrayLock, globalxmin,
                   ringVars, reader, ckpt>>

getLocalNextCSN(w) ==
    /\ wpc[w] = "take_csn"
    /\ commitCSN' = [commitCSN EXCEPT ![w] = nextCommitSeqNo]
    /\ nextCommitSeqNo' = nextCommitSeqNo + 1
    /\ WGoto(w, "commit_clog")
    /\ UNCHANGED <<nextXid, latestCompletedXid, horizon, logs, xid, lockXid, procArrayLock,
                   globalxmin, ringVars, reader, ckpt>>

(* TransactionIdAsyncCommitTree, once the commit record is written *)
CommitCLog(w) ==
    /\ wpc[w] = "commit_clog"
    /\ clog' = [clog EXCEPT ![xid[w]] = "committed"]
    /\ WGoto(w, "commit_csnlog")
    /\ UNCHANGED <<shmem, horizon, csnlog, xid, lockXid, commitCSN, procArrayLock, globalxmin,
                   ringVars, reader, ckpt>>

UpdateCSNLogAtTransactionEND(w) ==
    /\ wpc[w] = "commit_csnlog"
    /\ csnlog' = [csnlog EXCEPT ![xid[w]] = Committed(commitCSN[w])]
    /\ WGoto(w, "end")
    /\ UNCHANGED <<shmem, horizon, clog, xid, lockXid, commitCSN, procArrayLock, globalxmin,
                   ringVars, reader, ckpt>>

(* TransactionIdAbortTree: onlookers take the transaction for unfinished anyway *)
TransactionIdAbortTree(w) ==
    /\ wpc[w] = "running"
    /\ clog' = [clog EXCEPT ![xid[w]] = "aborted"]
    /\ csnlog' = [csnlog EXCEPT ![xid[w]] = Aborted]
    /\ WGoto(w, "end")
    /\ UNCHANGED <<shmem, horizon, xid, lockXid, commitCSN, procArrayLock, globalxmin, ringVars, reader, ckpt>>

(* ProcArrayEndTransactionInternal, by the writer or by the leader of its group *)
ProcArrayEndTransaction(w) ==
    /\ wpc[w] = "end"
    /\ procArrayLock = Nobody
    /\ procArrayLock' = w
    /\ xid' = [xid EXCEPT ![w] = 0]
    /\ latestCompletedXid' = IF latestCompletedXid < xid[w] THEN xid[w] ELSE latestCompletedXid
    /\ commitCSN' = [commitCSN EXCEPT ![w] = 0]
    /\ WGoto(w, "calculate")
    /\ UNCHANGED <<nextXid, nextCommitSeqNo, horizon, logs, lockXid, globalxmin, ringVars, reader, ckpt>>

(* Mutant of ReleaseXidLock: the lock of a transaction outlives it *)
KeepXidLock(w) ==
    /\ wpc[w] = "unlock"
    /\ WGoto(w, "idle")
    /\ UNCHANGED <<shmem, horizon, logs, xid, lockXid, commitCSN, procArrayLock, globalxmin,
                   ringVars, reader, ckpt>>

(* ResourceOwnerRelease(RESOURCE_RELEASE_LOCKS) *)
ReleaseXidLock(w) ==
    /\ wpc[w] = "unlock"
    /\ lockXid' = [lockXid EXCEPT ![w] = 0]
    /\ WGoto(w, "idle")
    /\ UNCHANGED <<shmem, horizon, logs, xid, commitCSN, procArrayLock, globalxmin, ringVars, reader, ckpt>>

-----------------------------------------------------------------------------
(* CalculateLocalLatestSnapshot, under ProcArrayLock but concurrent with readers *)

xmax == latestCompletedXid + 1

(* The snapshots in the ring that somebody is copying.  With deferred calculation *)
(* the last xmin and recentLocalXmin are used again.                              *)
ScanRing(w) ==
    LET inUse == {snapCurrent} \cup {i \in Ring : refcnt[i] > 0}
    IN  /\ wpc[w] = "calculate"
        /\ globalxmin' = Lowest({xmax} \cup ({snap[i].xmin : i \in inUse} \ {0}))
        /\ WGoto(w, "scan_procs")
        /\ UNCHANGED <<shmem, horizon, logs, xid, lockXid, commitCSN, procArrayLock, ringVars, reader, ckpt>>

DeferCalculation(w) ==
    /\ "defer" \in Rare
    /\ wpc[w] = "calculate"
    /\ WGoto(w, "store")
    /\ UNCHANGED <<shmem, horizon, logs, xid, lockXid, commitCSN, procArrayLock, globalxmin,
                   ringVars, reader, ckpt>>

(* The xids and the xmins in the proc array *)
ScanProcs(w) ==
    LET running == {xid[v] : v \in Writers} \cap 1..xmax - 1
        oldest == Lowest({xmax} \cup running)
    IN  /\ wpc[w] = "scan_procs"
        /\ shmemXmin' = oldest
        /\ recentLocalXmin' = Lowest({globalxmin, oldest} \cup ({xmin[r] : r \in Readers} \ {0}))
        /\ globalxmin' = 0
        /\ WGoto(w, "store")
        /\ UNCHANGED <<shmem, logs, xid, lockXid, commitCSN, procArrayLock, ringVars, reader, ckpt>>

StoreSnapshot(w) ==
    /\ wpc[w] = "store"
    /\ snap' = [snap EXCEPT ![snapNext] = [xmin |-> shmemXmin, localxmin |-> recentLocalXmin]]
    /\ WGoto(w, "publish")
    /\ UNCHANGED <<shmem, horizon, logs, xid, lockXid, commitCSN, procArrayLock, globalxmin,
                   refcnt, snapCurrent, snapNext, nofindCount, reader, ckpt>>

(* SetNextSnapXid publishes the snapshot, ... *)
PublishSnapshot(w) ==
    /\ wpc[w] = "publish"
    /\ snapCurrent' = snapNext
    /\ WGoto(w, "find_next")
    /\ UNCHANGED <<shmem, horizon, logs, xid, lockXid, commitCSN, procArrayLock, globalxmin,
                   snap, refcnt, snapNext, nofindCount, reader, ckpt>>

(* ... and looks at the slots behind it one by one, the current one last, round after *)
(* round, until it finds one that nobody uses.  At the end of a round that leaves      *)
(* SNAP_ERROR_COUNT used slots or more behind it, it gives up with a PANIC.            *)
Behind(i) == (snapCurrent + i) % MaxNumSnapVersion

(* Mutant: the first round is the last *)
GivesUpAtOnce(slot, used) == slot = snapNext

GivesUp(slot, used) == slot = snapNext /\ used >= SNAP_ERROR_COUNT

SetNextSnapXid(w) ==
    LET slot == Behind(nofindCount + 1)
    IN  /\ wpc[w] = "find_next"
        /\ IF refcnt[slot] = 0
             THEN /\ snapNext' = slot
                  /\ nofindCount' = 0
                  /\ procArrayLock' = Nobody
                  /\ WGoto(w, "unlock")
             ELSE /\ nofindCount' = nofindCount + 1
                  /\ WGoto(w, IF GivesUp(slot, nofindCount + 1) THEN "panic" ELSE "find_next")
                  /\ UNCHANGED <<snapNext, procArrayLock>>
        /\ UNCHANGED <<shmem, horizon, logs, xid, lockXid, commitCSN, globalxmin, snap, refcnt,
                       snapCurrent, reader, ckpt>>

-----------------------------------------------------------------------------
(* Readers: GetSnapshotData *)

(* GetCurrentSnapXid reads the pointer ... *)
GetCurrentSnapXid(r) ==
    /\ rpc[r] = "idle"
    /\ snapxid' = [snapxid EXCEPT ![r] = snapCurrent]
    /\ RGoto(r, "pin")
    /\ UNCHANGED <<shmem, horizon, logs, writer, procArrayLock, globalxmin, ringVars, xmin,
                   snapshot, held, cached, asked, answer, ckpt>>

(* ... and then counts the reference *)
IncrRefCount(r) ==
    /\ rpc[r] = "pin"
    /\ refcnt' = [refcnt EXCEPT ![snapxid[r]] = @ + 1]
    /\ RGoto(r, "set_xmin")
    /\ UNCHANGED <<shmem, horizon, logs, writer, procArrayLock, globalxmin, snap, snapCurrent,
                   snapNext, nofindCount, xmin, snapxid, snapshot, held, cached, asked, answer, ckpt>>

(* Mutant of SetPgxactXmin: the newest snapshot decides *)
OverwritePgxactXmin(r) ==
    /\ rpc[r] = "set_xmin"
    /\ xmin' = [xmin EXCEPT ![r] = snap[snapxid[r]].xmin]
    /\ RGoto(r, "copy")
    /\ UNCHANGED <<shmem, horizon, logs, writer, procArrayLock, globalxmin, ringVars, snapxid,
                   snapshot, held, cached, asked, answer, ckpt>>

(* pgxact->xmin, unless an older snapshot of this transaction has set it *)
SetPgxactXmin(r) ==
    /\ rpc[r] = "set_xmin"
    /\ xmin' = [xmin EXCEPT ![r] = IF @ = InvalidTransactionId THEN snap[snapxid[r]].xmin ELSE @]
    /\ RGoto(r, "copy")
    /\ UNCHANGED <<shmem, horizon, logs, writer, procArrayLock, globalxmin, ringVars, snapxid,
                   snapshot, held, cached, asked, answer, ckpt>>

CopySnapshot(r) ==
    /\ rpc[r] = "copy"
    /\ snapshot' = [snapshot EXCEPT ![r] = [xmin |-> snap[snapxid[r]].xmin, csn |-> 0]]
    /\ RGoto(r, "unpin")
    /\ UNCHANGED <<shmem, horizon, logs, writer, procArrayLock, globalxmin, ringVars, xmin,
                   snapxid, held, cached, asked, answer, ckpt>>

DecrRefCount(r) ==
    /\ rpc[r] = "unpin"
    /\ refcnt' = [refcnt EXCEPT ![snapxid[r]] = @ - 1]
    /\ snapxid' = [snapxid EXCEPT ![r] = 0]
    /\ RGoto(r, "read_csn")
    /\ UNCHANGED <<shmem, horizon, logs, writer, procArrayLock, globalxmin, snap, snapCurrent,
                   snapNext, nofindCount, xmin, snapshot, held, cached, asked, answer, ckpt>>

(* snapshotcsn is read last *)
ReadSnapshotCSN(r) ==
    /\ rpc[r] = "read_csn"
    /\ snapshot' = [snapshot EXCEPT ![r].csn = nextCommitSeqNo]
    /\ RGoto(r, "ready")
    /\ UNCHANGED <<shmem, horizon, logs, writer, procArrayLock, globalxmin, ringVars, xmin,
                   snapxid, held, cached, asked, answer, ckpt>>

(* The next statement of the transaction gets a new snapshot and keeps xmin.  The *)
(* old snapshot stays in use if a cursor was opened with it.                      *)
NextStatement(r, cursor) ==
    /\ rpc[r] = "ready"
    /\ cursor => "cursor" \in Rare
    /\ held' = [held EXCEPT ![r] = IF cursor THEN snapshot[r] ELSE @]
    /\ snapshot' = [snapshot EXCEPT ![r] = NoSnapshot]
    /\ answer' = [answer EXCEPT ![r] = NoAnswers]
    /\ snapxid' = [snapxid EXCEPT ![r] = snapCurrent]
    /\ RGoto(r, "pin")
    /\ UNCHANGED <<shmem, horizon, logs, writer, procArrayLock, globalxmin, ringVars, xmin,
                   cached, asked, ckpt>>

(* PushActiveSnapshot / PopActiveSnapshot around a FETCH from the cursor *)
SwitchSnapshot(r) ==
    /\ rpc[r] = "ready" /\ held[r] # NoSnapshot
    /\ held' = [held EXCEPT ![r] = snapshot[r]]
    /\ snapshot' = [snapshot EXCEPT ![r] = held[r]]
    /\ answer' = [answer EXCEPT ![r] = NoAnswers]
    /\ UNCHANGED <<shmem, horizon, logs, writer, procArrayLock, globalxmin, ringVars, xmin, rpc,
                   snapxid, cached, asked, ckpt>>

(* End of a transaction without an xid: no lock *)
LeaveTransaction(r) ==
    /\ xmin' = [xmin EXCEPT ![r] = InvalidTransactionId]
    /\ snapshot' = [snapshot EXCEPT ![r] = NoSnapshot]
    /\ held' = [held EXCEPT ![r] = NoSnapshot]
    /\ answer' = [answer EXCEPT ![r] = NoAnswers]
    /\ asked' = [asked EXCEPT ![r] = 0]
    /\ RGoto(r, "idle")

EndReader(r) ==
    /\ rpc[r] = "ready"
    /\ LeaveTransaction(r)
    /\ UNCHANGED <<shmem, horizon, logs, writer, procArrayLock, globalxmin, ringVars, snapxid,
                   cached, ckpt>>

-----------------------------------------------------------------------------
(* Readers: XidVisibleInSnapshot *)

(* Mutant of FromCache: a frozen csn is good for every snapshot *)
FromCacheFrozen(r, x) == cached[r].xid = x

(* FetchCSNFromCache: "frozen csn is not the true csn, only use frozen csn cache  *)
(* if we know xid is finished in my snapshot"                                     *)
FromCache(r, x) ==
    /\ cached[r].xid = x
    /\ x < snapshot[r].xmin \/ cached[r].entry # Committed(COMMITSEQNO_FROZEN)

(* GetCSNByCLog *)
FromCLog(x) == IF clog[x] = "committed" THEN Committed(COMMITSEQNO_FROZEN) ELSE Aborted

(* TransactionIdGetCommitSeqNo: the clog for what precedes the snapshot's xmin *)
GetCommitSeqNo(r, x) ==
    IF FromCache(r, x) THEN cached[r].entry
    ELSE IF x < snapshot[r].xmin THEN FromCLog(x) ELSE csnlog[x]

(* The csnlog is wanted, and has been truncated *)
Missing(r, x) == ~FromCache(r, x) /\ x >= snapshot[r].xmin /\ x < csnlogStart

(* "DO NOT cache status for unfinished transactions!" *)
Remember(r, x, entry) ==
    cached' = [cached EXCEPT ![r] = IF entry.status \in {"committed", "aborted"}
                                    THEN [xid |-> x, entry |-> entry] ELSE @]

(* "If snapshotcsn lower than csn stored in csn log, don't need to wait" *)
MustWait(entry, s) == entry.status = "committing" /\ entry.csn < s.csn

Visible(entry, s) == entry.status = "committed" /\ entry.csn < s.csn

(* The first look *)
XidVisibleInSnapshot(r, x) ==
    LET entry == GetCommitSeqNo(r, x)
    IN  /\ rpc[r] = "ready"
        /\ x < nextXid
        /\ ~Missing(r, x)
        /\ Remember(r, x, entry)
        /\ IF MustWait(entry, snapshot[r])
             THEN /\ RGoto(r, "wait")
                  /\ asked' = [asked EXCEPT ![r] = x]
                  /\ UNCHANGED answer
             ELSE /\ answer' = [answer EXCEPT ![r][x] = IF Visible(entry, snapshot[r]) THEN "yes" ELSE "no"]
                  /\ UNCHANGED <<rpc, asked>>
        /\ UNCHANGED <<shmem, horizon, logs, writer, procArrayLock, globalxmin, ringVars, xmin,
                       snapxid, snapshot, held, ckpt>>

(* PG_RE_THROW: "could not access status of transaction", the reader aborts *)
StatusMissing(r, x) ==
    /\ rpc[r] = "ready"
    /\ Missing(r, x)
    /\ LeaveTransaction(r)
    /\ UNCHANGED <<shmem, horizon, logs, writer, procArrayLock, globalxmin, ringVars, snapxid,
                   cached, ckpt>>

(* Mutant of SyncWaitXidEnd: the lock is not waited for *)
DoNotWait(r) ==
    /\ rpc[r] = "wait"
    /\ RGoto(r, "look_again")
    /\ UNCHANGED <<shmem, horizon, logs, writer, procArrayLock, globalxmin, ringVars, xmin,
                   snapxid, snapshot, held, cached, asked, answer, ckpt>>

(* SyncWaitXidEnd: the transaction's lock is free *)
SyncWaitXidEnd(r) ==
    /\ rpc[r] = "wait"
    /\ \A w \in Writers : lockXid[w] # asked[r]
    /\ RGoto(r, "look_again")
    /\ UNCHANGED <<shmem, horizon, logs, writer, procArrayLock, globalxmin, ringVars, xmin,
                   snapxid, snapshot, held, cached, asked, answer, ckpt>>

(* transaction_sync_timeout, or an interrupt: the wait ends with an error *)
SyncWaitFails(r) ==
    /\ rpc[r] = "wait"
    /\ LeaveTransaction(r)
    /\ UNCHANGED <<shmem, horizon, logs, writer, procArrayLock, globalxmin, ringVars, snapxid,
                   cached, ckpt>>

(* Mutant of LookAgain: what is not visible is set to aborted *)
AbortUnlessVisible(r) ==
    LET x == asked[r]
        entry == GetCommitSeqNo(r, x)
    IN  /\ rpc[r] = "look_again"
        /\ Remember(r, x, entry)
        /\ csnlog' = IF Visible(entry, snapshot[r]) THEN csnlog ELSE [csnlog EXCEPT ![x] = Aborted]
        /\ answer' = [answer EXCEPT ![r][x] = IF Visible(entry, snapshot[r]) THEN "yes" ELSE "no"]
        /\ asked' = [asked EXCEPT ![r] = 0]
        /\ RGoto(r, "ready")
        /\ UNCHANGED <<shmem, horizon, clog, writer, procArrayLock, globalxmin, ringVars, xmin,
                       snapxid, snapshot, held, ckpt>>

(* The second look: what is still committing is set to aborted *)
LookAgain(r) ==
    LET x == asked[r]
        entry == GetCommitSeqNo(r, x)
    IN  /\ rpc[r] = "look_again"
        /\ Remember(r, x, entry)
        /\ csnlog' = IF entry.status = "committing" THEN [csnlog EXCEPT ![x] = Aborted] ELSE csnlog
        /\ answer' = [answer EXCEPT ![r][x] = IF Visible(entry, snapshot[r]) THEN "yes" ELSE "no"]
        /\ asked' = [asked EXCEPT ![r] = 0]
        /\ RGoto(r, "ready")
        /\ UNCHANGED <<shmem, horizon, clog, writer, procArrayLock, globalxmin, ringVars, xmin,
                       snapxid, snapshot, held, ckpt>>

-----------------------------------------------------------------------------
(* The checkpointer *)

(* GetOldestActiveTransactionId(&globalXmin), under ProcArrayLock shared.  The    *)
(* latestCompletedXid behind xmax is read just before the lock: an older value    *)
(* only lowers globalXmin.                                                        *)
CheckpointScan ==
    LET inProcArray == {xid[w] : w \in Writers} \cup {xmin[r] : r \in Readers}
    IN  /\ "checkpoint" \in Rare
        /\ ckptXmin = 0 /\ procArrayLock = Nobody
        /\ ckptXmin' = Lowest({xmax, nextXid} \cup (inProcArray \ {0}))
        /\ UNCHANGED <<shmem, horizon, logs, writer, procArrayLock, globalxmin, ringVars, reader, csnlogStart>>

(* TruncateCSNLOG(GetOldestXmin(NULL)), lowered to globalXmin *)
TruncateCSNLOG ==
    LET cutoff == Lowest({ckptXmin, recentLocalXmin, snap[snapCurrent].localxmin})
    IN  /\ ckptXmin # 0
        /\ ckptXmin' = 0
        /\ csnlogStart' = IF csnlogStart < cutoff THEN cutoff ELSE csnlogStart
        /\ UNCHANGED <<shmem, horizon, logs, writer, procArrayLock, globalxmin, ringVars, reader>>

-----------------------------------------------------------------------------
WriterStep(w) ==
    \/ AssignTransactionId(w) \/ ReadLatestCSN(w) \/ SetXact2CommitInProgress(w)
    \/ getLocalNextCSN(w) \/ CommitCLog(w) \/ UpdateCSNLogAtTransactionEND(w)
    \/ TransactionIdAbortTree(w) \/ ProcArrayEndTransaction(w) \/ ReleaseXidLock(w)
    \/ ScanRing(w) \/ DeferCalculation(w) \/ ScanProcs(w) \/ StoreSnapshot(w)
    \/ PublishSnapshot(w) \/ SetNextSnapXid(w)

ReaderStep(r) ==
    \/ GetCurrentSnapXid(r) \/ IncrRefCount(r) \/ SetPgxactXmin(r) \/ CopySnapshot(r)
    \/ DecrRefCount(r) \/ ReadSnapshotCSN(r) \/ SwitchSnapshot(r) \/ EndReader(r)
    \/ SyncWaitXidEnd(r) \/ SyncWaitFails(r) \/ LookAgain(r)
    \/ \E cursor \in BOOLEAN : NextStatement(r, cursor)
    \/ \E x \in Xids : XidVisibleInSnapshot(r, x) \/ StatusMissing(r, x)

(* A PANIC ends all processes *)
Panicked == \E w \in Writers : wpc[w] = "panic"

Next ==
    /\ ~Panicked
    /\ \/ \E w \in Writers : WriterStep(w)
       \/ \E r \in Readers : ReaderStep(r)
       \/ CheckpointScan \/ TruncateCSNLOG

Spec == Init /\ [][Next]_vars

(* A writer that has begun to commit or to abort goes on, its thread cannot be    *)
(* interrupted; so does a reader that takes a snapshot or has been woken up.  No  *)
(* wait has to fail.                                                              *)
WriterGoesOn(w) == ~Panicked /\ wpc[w] \notin {"idle", "running"} /\ WriterStep(w)
ReaderGoesOn(r) ==
    ~Panicked /\ rpc[r] \notin {"idle", "ready"} /\ ReaderStep(r) /\ ~SyncWaitFails(r)

FairSpec ==
    /\ Spec
    /\ \A w \in Writers : WF_vars(WriterGoesOn(w))
    /\ \A r \in Readers : WF_vars(ReaderGoesOn(r))

-----------------------------------------------------------------------------
(* Properties *)

CSNs == COMMITSEQNO_FIRST_NORMAL..COMMITSEQNO_FIRST_NORMAL + MaxXid

(* Shapes and ranges; a slot's count is the number of readers that hold it *)
TypeOK ==
    /\ nextXid \in 1..MaxXid + 1 /\ nextCommitSeqNo \in CSNs /\ latestCompletedXid \in 0..MaxXid
    /\ shmemXmin \in 1..MaxXid + 1 /\ recentLocalXmin \in 1..MaxXid + 1
    /\ csnlog \in [Xids -> {Inprogress, Aborted} \cup {Committing(c) : c \in CSNs}
                             \cup {Committed(c) : c \in CSNs}]
    /\ clog \in [Xids -> {"inprogress", "committed", "aborted"}]
    /\ xid \in [Writers -> 0..MaxXid] /\ lockXid \in [Writers -> 0..MaxXid]
    /\ commitCSN \in [Writers -> {0} \cup CSNs]
    /\ procArrayLock \in Writers \cup {Nobody}
    /\ snapCurrent \in Ring /\ snapNext \in Ring /\ nofindCount \in Nat
    /\ refcnt = [i \in Ring |->
            Cardinality({r \in Readers : snapxid[r] = i /\ rpc[r] \in {"set_xmin", "copy", "unpin"}})]
    /\ xmin \in [Readers -> 0..MaxXid + 1]

HasSnapshot(r) == rpc[r] \in {"ready", "wait", "look_again"}

(* The csn the transaction has committed, or is going to commit, with: 0 if it    *)
(* has not taken one                                                              *)
FinalCSN(x) ==
    IF csnlog[x].status = "committed" THEN csnlog[x].csn
    ELSE IF \E w \in Writers : xid[w] = x /\ wpc[w] \in {"commit_clog", "commit_csnlog"}
         THEN commitCSN[CHOOSE w \in Writers : xid[w] = x] ELSE 0

(* A snapshot is one cut through the commit order: a transaction is seen if and   *)
(* only if its csn precedes snapshotcsn, whenever it is asked about: before it    *)
(* has taken its csn, between that and the csnlog, or long after.  So an answer   *)
(* never changes, and two transactions are never seen in the wrong order.         *)
SnapshotIsACut ==
    \A r \in Readers, x \in Xids : HasSnapshot(r) =>
        LET before == FinalCSN(x) # 0 /\ FinalCSN(x) < snapshot[r].csn
        IN  (answer[r][x] = "yes" => before) /\ (answer[r][x] = "no" => ~before)

(* What is not finished when its lock is free would be set to aborted behind the  *)
(* back of its writer: the csnlog is always final by then.                        *)
FinalWhenUnlocked ==
    \A r \in Readers : rpc[r] = "look_again" =>
        GetCommitSeqNo(r, asked[r]).status \in {"committed", "aborted"}

(* recentLocalXmin, the horizon behind which dead row versions are removed, never *)
(* passes a transaction that some reader's snapshot takes for unfinished, though  *)
(* the reader reads the ring, publishes its xmin and reads its csn without a lock *)
(* while the horizon is being computed.                                           *)
HorizonSafe ==
    \A r \in Readers, x \in Xids : HasSnapshot(r) /\ x < recentLocalXmin =>
        \A s \in {snapshot[r], held[r]} \ {NoSnapshot} :
            \/ csnlog[x].status = "aborted"
            \/ csnlog[x].status = "committed" /\ csnlog[x].csn < s.csn

(* The status of a finished transaction never changes in either log *)
LogsFinal ==
    [][\A x \in Xids : /\ csnlog[x].status \in {"committed", "aborted"} => csnlog'[x] = csnlog[x]
                       /\ clog[x] # "inprogress" => clog'[x] = clog[x]]_vars

(* The types hold, and the ring suffices while it has more slots than there are        *)
(* readers: then no PANIC stops the server, though readers keep moving to the current  *)
(* slot behind the back of the search, so that a whole round of it may find nothing.   *)
(* "we alloc sufficient space for local snapshot , overflow should not happen here".   *)
RingSuffices == TypeOK /\ (Cardinality(Readers) < MaxNumSnapVersion => ~Panicked)

(* Unless the server panics, a reader that waits for a committing transaction gets its *)
(* answer (or an error, which is not needed for that), and takes its snapshot whatever *)
(* the writers do; a transaction that has begun to commit ends, though the last step   *)
(* of it needs a ring slot that no reader holds and all slots may be held at a time.   *)
WaitsEnd ==
    \/ <>Panicked
    \/ /\ \A r \in Readers : []<>(rpc[r] \in {"idle", "ready"})
       /\ \A w \in Writers : []<>(wpc[w] \in {"idle", "running"})

(* "We can throw away all data before the oldest XMIN of any running transaction. *)
(* No future transaction will attempt to reference any pg_csnlog entry older than *)
(* that" (CreateCheckPoint): no running reader has an xmin the csnlog has been    *)
(* truncated beyond.                                                              *)
TruncatedBehindAll == \A r \in Readers : HasSnapshot(r) => csnlogStart <= xmin[r]
=============================================================================
