------------------------- MODULE CSNSnapshotProofs -------------------------
(***************************************************************************)
(* The inductive invariant of CSNSnapshot: what a snapshot sees, the logs, *)
(* the horizon and the types hold for any number of writers, readers and   *)
(* transactions, and any size of the ring.                                 *)
(***************************************************************************)
EXTENDS CSNSnapshot, TLAPS, FiniteSetTheorems, WellFoundedInduction

(* A writer is "unfinished" while its transaction may still go either way, and  *)
(* "calculating" while it holds ProcArrayLock.                                  *)
Unfinished == {"running", "mark", "take_csn", "commit_clog", "commit_csnlog"}
Calculating == {"calculate", "scan_procs", "store", "publish", "find_next", "panic"}

(* It has taken its csn *)
HasCSN == {"commit_clog", "commit_csnlog"}

(* An entry e of the csnlog and a status s of the clog are final, and if the       *)
(* transaction has committed then before csn c                                     *)
Finished(e, s, c) ==
    \/ e = Aborted /\ s = "aborted"
    \/ e.status = "committed" /\ e.csn < c /\ s = "committed"

FinishedBefore(x, c) == Finished(csnlog[x], clog[x], c)

FinishedUpTo(log, stats, m, c) == \A x \in Xids : x < m => Finished(log[x], stats[x], c)

(* All transactions that precede m are finished, before csn c *)
AllBefore(m, c) == FinishedUpTo(csnlog, clog, m, c)

Entries == [status : {"inprogress", "committing", "committed", "aborted"}, csn : Nat]
Snapshots == [xmin : Nat, csn : Nat]

(* The types of what is shared, of the writers and of the readers *)
SharedTypes ==
    /\ nextXid \in 1..MaxXid + 1 /\ latestCompletedXid \in Nat
    /\ nextCommitSeqNo \in Nat /\ nextCommitSeqNo >= COMMITSEQNO_FIRST_NORMAL
    /\ shmemXmin \in Nat /\ recentLocalXmin \in Nat /\ globalxmin \in Nat
    /\ csnlog \in [Xids -> Entries]
    /\ clog \in [Xids -> {"inprogress", "committed", "aborted"}]
    /\ snap \in [Ring -> [xmin : Nat, localxmin : Nat]]
    /\ snapCurrent \in Ring /\ snapNext \in Ring

WriterTypes ==
    /\ xid \in [Writers -> Nat] /\ lockXid \in [Writers -> Nat] /\ commitCSN \in [Writers -> Nat]
    /\ wpc \in [Writers -> {"idle", "end", "unlock"} \cup Unfinished \cup Calculating]
    /\ procArrayLock \in Writers \cup {Nobody}

ReaderTypes ==
    /\ xmin \in [Readers -> Nat]
    /\ rpc \in [Readers -> {"idle", "pin", "set_xmin", "copy", "unpin", "read_csn", "ready",
                            "wait", "look_again"}]
    /\ snapxid \in [Readers -> Ring]
    /\ snapshot \in [Readers -> Snapshots] /\ held \in [Readers -> Snapshots]
    /\ cached \in [Readers -> [xid : Nat, entry : Entries]]
    /\ asked \in [Readers -> Nat]
    /\ answer \in [Readers -> [Xids -> {"none", "yes", "no"}]]

(* Where a writer is, and what the logs say of its transaction *)
WriterOK(w) ==
    /\ wpc[w] = "idle" => xid[w] = 0 /\ lockXid[w] = 0
    /\ wpc[w] \in Unfinished \cup {"end"} =>
          xid[w] \in Xids /\ xid[w] < nextXid /\ lockXid[w] = xid[w]
    /\ wpc[w] \in Calculating \cup {"unlock"} =>
          xid[w] = 0 /\ lockXid[w] \in Xids /\ lockXid[w] < nextXid
    /\ wpc[w] \in Calculating <=> procArrayLock = w
    /\ commitCSN[w] = 0 \/ commitCSN[w] \in COMMITSEQNO_FIRST_NORMAL..nextCommitSeqNo
    /\ wpc[w] \in {"running", "mark"} => csnlog[xid[w]] = Inprogress
    /\ wpc[w] \in {"take_csn", "commit_clog", "commit_csnlog"} =>
          /\ csnlog[xid[w]].status = "committing"
          /\ csnlog[xid[w]].csn \in COMMITSEQNO_FIRST_NORMAL..commitCSN[w]
    /\ wpc[w] = "mark" => commitCSN[w] # 0
    /\ wpc[w] \in {"commit_clog", "commit_csnlog"} => commitCSN[w] < nextCommitSeqNo
    /\ wpc[w] \in {"running", "mark", "take_csn", "commit_clog"} => clog[xid[w]] = "inprogress"
    /\ wpc[w] = "commit_csnlog" => clog[xid[w]] = "committed"
    /\ wpc[w] = "scan_procs" => globalxmin # 0
    /\ wpc[w] = "publish" => snap[snapNext].xmin # 0

(* No two writers have one transaction; what has not begun is in progress in the   *)
(* logs, and what has begun is finished or has a writer that will finish it.       *)
XidsOK ==
    /\ \A v, w \in Writers : v # w => lockXid[v] = 0 \/ lockXid[v] # lockXid[w]
    /\ \A x \in Xids :
          /\ x >= nextXid => csnlog[x] = Inprogress /\ clog[x] = "inprogress"
          /\ x < nextXid => \/ \E w \in Writers : xid[w] = x /\ wpc[w] \in Unfinished
                            \/ FinishedBefore(x, nextCommitSeqNo)
          /\ csnlog[x].status = "committed" => csnlog[x].csn >= COMMITSEQNO_FIRST_NORMAL

(* What precedes an xmin in shared memory is finished *)
HorizonsOK ==
    /\ latestCompletedXid < nextXid
    /\ shmemXmin \in 1..latestCompletedXid + 1
    /\ recentLocalXmin \in 1..nextXid
    /\ AllBefore(shmemXmin, nextCommitSeqNo)
    /\ AllBefore(recentLocalXmin, nextCommitSeqNo)
    /\ \A i \in Ring : snap[i].xmin <= nextXid /\ AllBefore(snap[i].xmin, nextCommitSeqNo)
    /\ snap[snapCurrent].xmin # 0

(* What precedes the xmin of a snapshot, the xmin its reader shows, or the horizon *)
(* is finished before the snapshot                                                 *)
SnapshotOK(r, s) ==
    /\ s.csn \in COMMITSEQNO_FIRST_NORMAL..nextCommitSeqNo
    /\ AllBefore(s.xmin, s.csn)
    /\ AllBefore(xmin[r], s.csn)
    /\ AllBefore(recentLocalXmin, s.csn)

(* A cached status is final, and is the true one or the frozen csn *)
CacheOK(c) ==
    c.xid # 0 =>
        /\ c.xid \in Xids
        /\ FinishedBefore(c.xid, nextCommitSeqNo)
        /\ \/ c.entry = csnlog[c.xid]
           \/ c.entry = Committed(COMMITSEQNO_FROZEN) /\ csnlog[c.xid].status = "committed"

(* An answer is right, and stays so: a transaction that is seen has committed, and *)
(* one that is not seen has not taken a csn yet or has taken one after the snapshot *)
AnswerOK(r, x) ==
    /\ answer[r][x] = "yes" => csnlog[x].status = "committed" /\ csnlog[x].csn < snapshot[r].csn
    /\ answer[r][x] = "no" =>
          /\ csnlog[x].status = "committed" => csnlog[x].csn >= snapshot[r].csn
          /\ \A w \in Writers : xid[w] = x /\ wpc[w] \in HasCSN => commitCSN[w] >= snapshot[r].csn

ReaderOK(r) ==
    /\ xmin[r] <= nextXid
    /\ AllBefore(xmin[r], nextCommitSeqNo)
    /\ rpc[r] \in {"pin", "set_xmin", "copy"} => snap[snapxid[r]].xmin # 0
    /\ rpc[r] \in {"copy", "unpin", "read_csn"} \/ HasSnapshot(r) => xmin[r] # 0
    /\ rpc[r] \in {"unpin", "read_csn"} => AllBefore(snapshot[r].xmin, nextCommitSeqNo)
    /\ HasSnapshot(r) => SnapshotOK(r, snapshot[r])
    /\ held[r] # NoSnapshot => xmin[r] # 0 /\ SnapshotOK(r, held[r])
    /\ ~HasSnapshot(r) => answer[r] = NoAnswers
    /\ rpc[r] \in {"wait", "look_again"} => asked[r] \in Xids /\ asked[r] < nextXid
    /\ rpc[r] = "look_again" => FinishedBefore(asked[r], nextCommitSeqNo)
    /\ CacheOK(cached[r])
    /\ \A x \in Xids : AnswerOK(r, x)

(* The inductive invariant of everything but the counts *)
CutInv ==
    /\ SharedTypes /\ WriterTypes /\ ReaderTypes
    /\ \A w \in Writers : WriterOK(w)
    /\ XidsOK
    /\ HorizonsOK
    /\ \A r \in Readers : ReaderOK(r)

-----------------------------------------------------------------------------
(* Lemmas *)

(* What no step undoes: the counters grow, a finished transaction stays as it is, *)
(* a csn is kept once it is taken, and a new one is not below the next csn.       *)
Onward ==
    /\ nextXid <= nextXid' /\ nextCommitSeqNo <= nextCommitSeqNo'
    /\ \A x \in Xids :
          /\ csnlog[x].status \in {"committed", "aborted"} => csnlog'[x] = csnlog[x]
          /\ clog[x] # "inprogress" => clog'[x] = clog[x]
          /\ \/ csnlog'[x] = csnlog[x]
             \/ csnlog'[x].status # "committed"
             \/ \E w \in Writers : xid[w] = x /\ wpc[w] \in HasCSN /\ csnlog'[x].csn = commitCSN[w]
    /\ \A w \in Writers : wpc'[w] \in HasCSN =>
          \/ wpc[w] \in HasCSN /\ xid'[w] = xid[w] /\ commitCSN'[w] = commitCSN[w]
          \/ commitCSN'[w] >= nextCommitSeqNo

(* What is finished before a csn stays so *)
LEMMA FinishedKept ==
    ASSUME SharedTypes, Onward, NEW x \in Xids, NEW c \in Nat, NEW d \in Nat, c <= d,
           FinishedBefore(x, c)
    PROVE  Finished(csnlog'[x], clog'[x], d)
<1>1. csnlog'[x] = csnlog[x] /\ clog'[x] = clog[x]
  BY DEF Onward, FinishedBefore, Finished, Aborted
<1>2. csnlog[x].csn \in Nat
  BY Zenon DEF SharedTypes, Entries
<1> QED
  BY <1>1, <1>2 DEF FinishedBefore, Finished

(* ... and so does all that precedes an xmin *)
LEMMA AllKept ==
    ASSUME SharedTypes, Onward, NEW m, NEW c \in Nat, NEW d \in Nat, c <= d, AllBefore(m, c)
    PROVE  FinishedUpTo(csnlog', clog', m, d)
<1> SUFFICES ASSUME NEW x \in Xids, x < m
             PROVE  Finished(csnlog'[x], clog'[x], d)
  BY Zenon DEF FinishedUpTo
<1>1. FinishedBefore(x, c)
  BY Zenon DEF AllBefore, FinishedUpTo, FinishedBefore
<1> QED
  BY Zenon, <1>1, FinishedKept

(* What readers know survives the steps of writers: nothing is undone, the horizon *)
(* does not pass the xmin of a reader, and no slot of the ring is emptied.         *)
LEMMA ReaderFrame ==
    ASSUME SharedTypes, SharedTypes', WriterTypes', ReaderTypes, Onward, UNCHANGED reader,
           NEW r \in Readers, ReaderOK(r),
           recentLocalXmin' = recentLocalXmin \/ (xmin[r] # 0 => recentLocalXmin' <= xmin[r]),
           \A i \in Ring : snap[i].xmin # 0 => snap'[i].xmin # 0
    PROVE  ReaderOK(r)'
<1> DEFINE n == nextCommitSeqNo
           n2 == nextCommitSeqNo'
<1>1. n \in Nat /\ n2 \in Nat /\ n <= n2 /\ nextXid \in Nat /\ nextXid' \in Nat /\ nextXid <= nextXid'
  BY DEF SharedTypes, Onward
<1>2. /\ xmin' = xmin /\ rpc' = rpc /\ snapxid' = snapxid /\ snapshot' = snapshot /\ held' = held
      /\ cached' = cached /\ asked' = asked /\ answer' = answer
  BY Zenon DEF reader
<1>3. xmin[r] \in Nat /\ asked[r] \in Nat /\ recentLocalXmin' \in Nat
  BY Zenon DEF ReaderTypes, SharedTypes
<1>4. FinishedUpTo(csnlog', clog', xmin[r], n2)
  BY Zenon, <1>1, AllKept DEF ReaderOK
<1>5. ASSUME NEW s \in Snapshots, SnapshotOK(r, s), xmin[r] # 0
      PROVE  /\ s.csn \in COMMITSEQNO_FIRST_NORMAL..n2
             /\ FinishedUpTo(csnlog', clog', s.xmin, s.csn)
             /\ FinishedUpTo(csnlog', clog', xmin[r], s.csn)
             /\ FinishedUpTo(csnlog', clog', recentLocalXmin', s.csn)
  <2>1. s.csn \in Nat /\ s.csn \in COMMITSEQNO_FIRST_NORMAL..n2
    BY <1>5, <1>1 DEF SnapshotOK, Snapshots
  <2>2. /\ FinishedUpTo(csnlog', clog', s.xmin, s.csn)
        /\ FinishedUpTo(csnlog', clog', xmin[r], s.csn)
        /\ FinishedUpTo(csnlog', clog', recentLocalXmin, s.csn)
    BY <2>1, <1>5, AllKept DEF SnapshotOK
  <2>3. FinishedUpTo(csnlog', clog', recentLocalXmin', s.csn)
    <3>1. CASE recentLocalXmin' = recentLocalXmin
      BY Zenon, <2>2, <3>1
    <3>2. CASE recentLocalXmin' <= xmin[r]
      <4>1. \A x \in Xids : x < recentLocalXmin' => x < xmin[r]
        BY <3>2, <1>3, SnapshotConstants DEF Xids
      <4> QED
        BY Zenon, <4>1, <2>2 DEF FinishedUpTo
    <3> QED
      BY Zenon, <3>1, <3>2, <1>5
  <2> QED
    BY Zenon, <2>1, <2>2, <2>3
<1>6. rpc[r] \in {"unpin", "read_csn"} => FinishedUpTo(csnlog', clog', snapshot[r].xmin, n2)
  BY Zenon, <1>1, AllKept DEF ReaderOK
<1>7. snapshot[r] \in Snapshots /\ held[r] \in Snapshots /\ snapxid[r] \in Ring
  BY Zenon DEF ReaderTypes
<1>8. /\ HasSnapshot(r) => SnapshotOK(r, snapshot[r])'
      /\ held[r] # NoSnapshot => SnapshotOK(r, held[r])'
  BY Zenon, <1>2, <1>5, <1>7 DEF ReaderOK, SnapshotOK, AllBefore
<1>9. rpc[r] = "look_again" => Finished(csnlog'[asked[r]], clog'[asked[r]], n2)
  BY Zenon, <1>1, FinishedKept DEF ReaderOK
<1>10. CacheOK(cached[r])'
  <2> SUFFICES ASSUME cached[r].xid # 0
               PROVE  /\ cached[r].xid \in Xids
                      /\ Finished(csnlog'[cached[r].xid], clog'[cached[r].xid], n2)
                      /\ \/ cached[r].entry = csnlog'[cached[r].xid]
                         \/ /\ cached[r].entry = Committed(COMMITSEQNO_FROZEN)
                            /\ csnlog'[cached[r].xid].status = "committed"
    BY Zenon, <1>2 DEF CacheOK, FinishedBefore
  <2>1. cached[r].xid \in Xids /\ FinishedBefore(cached[r].xid, n)
    BY Zenon DEF ReaderOK, CacheOK
  <2>2. csnlog'[cached[r].xid] = csnlog[cached[r].xid]
    BY <2>1 DEF FinishedBefore, Finished, Onward, Aborted
  <2>3. Finished(csnlog'[cached[r].xid], clog'[cached[r].xid], n2)
    BY Zenon, <2>1, <1>1, FinishedKept
  <2> QED
    BY Zenon, <2>1, <2>2, <2>3 DEF ReaderOK, CacheOK
<1>11. ASSUME NEW x \in Xids
       PROVE  AnswerOK(r, x)'
  <2>1. AnswerOK(r, x) /\ answer' = answer /\ snapshot' = snapshot
    BY Zenon, <1>2 DEF ReaderOK
  <2>2. ASSUME answer[r][x] = "yes"
        PROVE  csnlog'[x].status = "committed" /\ csnlog'[x].csn < snapshot[r].csn
    BY Zenon, <2>1, <2>2 DEF AnswerOK, Onward
  <2>3. ASSUME answer[r][x] = "no"
        PROVE  csnlog'[x].status = "committed" => csnlog'[x].csn >= snapshot[r].csn
    BY Zenon, <2>1, <2>3 DEF AnswerOK, Onward
  <2>4. ASSUME answer[r][x] = "no", NEW w \in Writers, xid'[w] = x, wpc'[w] \in HasCSN
        PROVE  commitCSN'[w] >= snapshot[r].csn
    <3>1. snapshot[r].csn \in Nat /\ snapshot[r].csn <= n
      <4>1. HasSnapshot(r)
        BY Zenon, <2>4 DEF ReaderOK, NoAnswers
      <4> QED
        BY <4>1, <1>7 DEF ReaderOK, SnapshotOK, Snapshots
    <3>2. commitCSN'[w] \in Nat
      BY Zenon DEF WriterTypes
    <3>3. CASE commitCSN'[w] >= n
      BY <3>1, <3>2, <3>3, <1>1
    <3>4. CASE xid[w] = x /\ wpc[w] \in HasCSN /\ commitCSN'[w] = commitCSN[w]
      BY Zenon, <2>1, <2>4, <3>4 DEF AnswerOK
    <3> QED
      BY Zenon, <2>4, <3>3, <3>4 DEF Onward
  <2> QED
    BY Zenon, <2>1, <2>2, <2>3, <2>4 DEF AnswerOK
<1>12. xmin[r] <= nextXid' /\ (rpc[r] \in {"wait", "look_again"} => asked[r] < nextXid')
  BY <1>1, <1>3 DEF ReaderOK
<1>13. rpc[r] \in {"pin", "set_xmin", "copy"} => snap'[snapxid[r]].xmin # 0
  BY Zenon, <1>7 DEF ReaderOK
<1> QED
  BY Zenon, <1>2, <1>4, <1>6, <1>8, <1>9, <1>10, <1>11, <1>12, <1>13
     DEF ReaderOK, AllBefore, FinishedBefore, HasSnapshot

-----------------------------------------------------------------------------
(* Steps of a writer whose transaction is unfinished *)

(* Such a step changes the status of its own transaction only *)
LogStep(w) ==
    /\ wpc[w] \in Unfinished
    /\ \A v \in Writers \ {w} : wpc'[v] = wpc[v] /\ commitCSN'[v] = commitCSN[v]
    /\ \A x \in Xids \ {xid[w]} : csnlog'[x] = csnlog[x] /\ clog'[x] = clog[x]
    /\ nextCommitSeqNo <= nextCommitSeqNo'
    /\ clog'[xid[w]] = clog[xid[w]] \/ clog[xid[w]] = "inprogress"
    /\ \/ csnlog'[xid[w]] = csnlog[xid[w]] \/ csnlog'[xid[w]].status # "committed"
       \/ wpc[w] \in HasCSN /\ csnlog'[xid[w]].csn = commitCSN[w]
    /\ wpc'[w] \in HasCSN => \/ wpc[w] \in HasCSN /\ commitCSN'[w] = commitCSN[w]
                             \/ commitCSN'[w] >= nextCommitSeqNo
    /\ \/ wpc'[w] \in Unfinished
       \/ Finished(csnlog'[xid[w]], clog'[xid[w]], nextCommitSeqNo')
    /\ UNCHANGED <<xid, lockXid, nextXid, latestCompletedXid, horizon, procArrayLock, globalxmin,
                   snap, snapCurrent, snapNext, reader>>

(* The transaction of a writer is its alone *)
LEMMA SoleWriter ==
    ASSUME CutInv, NEW v \in Writers, NEW w \in Writers, v # w, xid[v] # 0
    PROVE  xid[v] # xid[w]
<1>1. WriterOK(v) /\ WriterOK(w)
  BY Zenon DEF CutInv
<1>2. /\ wpc[v] \in {"idle", "end", "unlock"} \cup Unfinished \cup Calculating
      /\ wpc[w] \in {"idle", "end", "unlock"} \cup Unfinished \cup Calculating
  BY Zenon DEF CutInv, WriterTypes
<1>3. xid[v] = lockXid[v]
  BY Zenon, <1>1, <1>2 DEF WriterOK
<1>4. xid[w] = 0 \/ xid[w] = lockXid[w]
  BY Zenon, <1>1, <1>2 DEF WriterOK
<1> QED
  BY Zenon, <1>3, <1>4 DEF CutInv, XidsOK

(* Such a step undoes nothing ... *)
LEMMA LogStepOnward ==
    ASSUME CutInv, NEW w \in Writers, LogStep(w)
    PROVE  Onward
<1>1. xid[w] \in Xids /\ csnlog[xid[w]].status \in {"inprogress", "committing"}
  <2>1. WriterOK(w)
    BY Zenon DEF CutInv
  <2> QED
    BY <2>1 DEF WriterOK, LogStep, Unfinished, Inprogress
<1>2. nextXid <= nextXid' /\ nextCommitSeqNo <= nextCommitSeqNo'
  BY DEF LogStep, CutInv, SharedTypes
<1>3. ASSUME NEW x \in Xids
      PROVE  /\ csnlog[x].status \in {"committed", "aborted"} => csnlog'[x] = csnlog[x]
             /\ clog[x] # "inprogress" => clog'[x] = clog[x]
             /\ \/ csnlog'[x] = csnlog[x]
                \/ csnlog'[x].status # "committed"
                \/ \E v \in Writers : xid[v] = x /\ wpc[v] \in HasCSN /\ csnlog'[x].csn = commitCSN[v]
  <2>1. CASE x # xid[w]
    BY Zenon, <2>1 DEF LogStep
  <2>2. CASE x = xid[w]
    <3>1. csnlog[x].status \notin {"committed", "aborted"}
      BY Zenon, <1>1, <2>2
    <3> QED
      BY Zenon, <2>2, <3>1 DEF LogStep
  <2> QED
    BY Zenon, <2>1, <2>2
<1>4. \A v \in Writers : wpc'[v] \in HasCSN =>
          \/ wpc[v] \in HasCSN /\ xid'[v] = xid[v] /\ commitCSN'[v] = commitCSN[v]
          \/ commitCSN'[v] >= nextCommitSeqNo
  BY Zenon DEF LogStep
<1> QED
  BY Zenon, <1>2, <1>3, <1>4 DEF Onward

(* The horizons, when only the logs and the counters move *)
LEMMA HorizonsFrame ==
    ASSUME SharedTypes, SharedTypes', HorizonsOK, Onward,
           UNCHANGED <<latestCompletedXid, horizon, snap, snapCurrent>>
    PROVE  HorizonsOK'
<1> DEFINE n == nextCommitSeqNo
           n2 == nextCommitSeqNo'
<1>1. n \in Nat /\ n2 \in Nat /\ n <= n2 /\ nextXid \in Nat /\ nextXid' \in Nat /\ nextXid <= nextXid'
  BY DEF SharedTypes, Onward
<1>2. /\ latestCompletedXid' = latestCompletedXid /\ shmemXmin' = shmemXmin
      /\ recentLocalXmin' = recentLocalXmin /\ snap' = snap /\ snapCurrent' = snapCurrent
  BY Zenon DEF horizon
<1>3. /\ latestCompletedXid < nextXid' /\ recentLocalXmin \in 1..nextXid'
      /\ shmemXmin \in 1..latestCompletedXid + 1 /\ snap[snapCurrent].xmin # 0
  BY <1>1 DEF HorizonsOK, SharedTypes
<1>4. /\ FinishedUpTo(csnlog', clog', shmemXmin, n2)
      /\ FinishedUpTo(csnlog', clog', recentLocalXmin, n2)
  BY Zenon, <1>1, AllKept DEF HorizonsOK
<1>5. ASSUME NEW i \in Ring
      PROVE  snap[i].xmin <= nextXid' /\ FinishedUpTo(csnlog', clog', snap[i].xmin, n2)
  <2>1. snap[i].xmin \in Nat
    BY Zenon DEF SharedTypes
  <2> QED
    BY <2>1, <1>1, AllKept DEF HorizonsOK
<1> QED
  BY Zenon, <1>2, <1>3, <1>4, <1>5 DEF HorizonsOK, AllBefore

(* ... and preserves the invariant, if it does for its writer *)
LEMMA LogStepInv ==
    ASSUME CutInv, NEW w \in Writers, LogStep(w), SharedTypes', WriterTypes', WriterOK(w)',
           csnlog'[xid[w]].status = "committed" => csnlog'[xid[w]].csn >= COMMITSEQNO_FIRST_NORMAL
    PROVE  CutInv'
<1>0. Onward
  BY Zenon, LogStepOnward
<1>1. SharedTypes /\ WriterTypes /\ ReaderTypes /\ HorizonsOK /\ XidsOK
  BY Zenon DEF CutInv
<1>2. ReaderTypes'
  BY Zenon, <1>1 DEF ReaderTypes, LogStep, reader
<1>3. HorizonsOK'
  BY Zenon, <1>0, <1>1, HorizonsFrame DEF LogStep
<1>4. ASSUME NEW r \in Readers
      PROVE  ReaderOK(r)'
  <2>1. ReaderOK(r)
    BY Zenon DEF CutInv
  <2>2. UNCHANGED reader /\ recentLocalXmin' = recentLocalXmin /\ snap' = snap
    BY Zenon DEF LogStep, horizon
  <2> QED
    BY Zenon, <1>0, <1>1, <2>1, <2>2, ReaderFrame
<1>5. ASSUME NEW v \in Writers, v # w
      PROVE  WriterOK(v)'
  <2>1. WriterOK(v) /\ (xid[v] \in Xids => csnlog'[xid[v]] = csnlog[xid[v]] /\ clog'[xid[v]] = clog[xid[v]])
    <3>1. xid[v] \in Xids => xid[v] # 0
      BY SnapshotConstants DEF Xids
    <3> QED
      BY Zenon, <1>5, <3>1, SoleWriter DEF LogStep, CutInv
  <2>2. /\ xid'[v] = xid[v] /\ lockXid'[v] = lockXid[v] /\ commitCSN'[v] = commitCSN[v]
        /\ wpc'[v] = wpc[v] /\ nextXid' = nextXid /\ procArrayLock' = procArrayLock
        /\ globalxmin' = globalxmin /\ snap' = snap /\ snapNext' = snapNext
    BY Zenon, <1>5 DEF LogStep
  <2>3. /\ commitCSN[v] = 0 \/ commitCSN[v] \in COMMITSEQNO_FIRST_NORMAL..nextCommitSeqNo'
        /\ wpc[v] \in HasCSN => commitCSN[v] < nextCommitSeqNo'
    <3>1. nextCommitSeqNo \in Nat /\ nextCommitSeqNo' \in Nat /\ commitCSN[v] \in Nat
          /\ nextCommitSeqNo <= nextCommitSeqNo'
      BY Zenon, <1>1 DEF SharedTypes, WriterTypes, LogStep
    <3> QED
      BY <2>1, <3>1 DEF WriterOK, HasCSN, COMMITSEQNO_FIRST_NORMAL
  <2>4. wpc[v] \in Unfinished \cup {"end"} =>
            xid[v] \in Xids /\ csnlog'[xid[v]] = csnlog[xid[v]] /\ clog'[xid[v]] = clog[xid[v]]
    BY Zenon, <2>1 DEF WriterOK
  <2> QED
    BY ZenonT(60), <2>1, <2>2, <2>3, <2>4 DEF WriterOK, Unfinished, HasCSN
<1>6. XidsOK'
  <2>1. xid' = xid /\ lockXid' = lockXid /\ nextXid' = nextXid /\ xid[w] \in Xids /\ xid[w] < nextXid
    BY Zenon DEF LogStep, CutInv, WriterOK
  <2>2. ASSUME NEW x \in Xids, x # xid[w]
        PROVE  /\ x >= nextXid => csnlog'[x] = Inprogress /\ clog'[x] = "inprogress"
               /\ x < nextXid => \/ \E v \in Writers : xid[v] = x /\ wpc'[v] \in Unfinished
                                 \/ Finished(csnlog'[x], clog'[x], nextCommitSeqNo')
               /\ csnlog'[x].status = "committed" => csnlog'[x].csn >= COMMITSEQNO_FIRST_NORMAL
    <3>1. csnlog'[x] = csnlog[x] /\ clog'[x] = clog[x]
      BY Zenon, <2>2 DEF LogStep
    <3>2. \A v \in Writers : xid[v] = x => wpc'[v] = wpc[v]
      BY Zenon, <2>2 DEF LogStep
    <3>3. nextCommitSeqNo \in Nat /\ nextCommitSeqNo' \in Nat /\ nextCommitSeqNo <= nextCommitSeqNo'
      BY Zenon, <1>1, <1>0 DEF SharedTypes, Onward
    <3>4. FinishedBefore(x, nextCommitSeqNo) => Finished(csnlog'[x], clog'[x], nextCommitSeqNo')
      BY Zenon, <1>0, <1>1, <3>3, FinishedKept
    <3> QED
      BY Zenon, <1>1, <3>1, <3>2, <3>4 DEF XidsOK
  <2>3. ~(xid[w] >= nextXid)
    <3>1. nextXid \in Nat /\ xid[w] \in Nat
      BY <1>1, SnapshotConstants DEF SharedTypes, WriterTypes
    <3> QED
      BY <2>1, <3>1
  <2>4. \/ \E v \in Writers : xid[v] = xid[w] /\ wpc'[v] \in Unfinished
        \/ Finished(csnlog'[xid[w]], clog'[xid[w]], nextCommitSeqNo')
    BY Zenon DEF LogStep
  <2> QED
    BY Zenon, <1>1, <2>1, <2>2, <2>3, <2>4 DEF XidsOK, FinishedBefore
<1> QED
  BY Zenon, <1>2, <1>3, <1>4, <1>5, <1>6 DEF CutInv

(* A transaction begins *)
LEMMA AssignTransactionIdInv ==
    ASSUME CutInv, NEW w \in Writers, AssignTransactionId(w)
    PROVE  CutInv' /\ Onward
<1>1. SharedTypes /\ WriterTypes /\ ReaderTypes /\ HorizonsOK /\ XidsOK
  BY Zenon DEF CutInv
<1>2. /\ wpc[w] = "idle" /\ nextXid \in Xids /\ xid' = [xid EXCEPT ![w] = nextXid]
      /\ lockXid' = [lockXid EXCEPT ![w] = nextXid] /\ nextXid' = nextXid + 1
      /\ wpc' = [wpc EXCEPT ![w] = "running"]
      /\ UNCHANGED <<nextCommitSeqNo, latestCompletedXid, shmemXmin, recentLocalXmin, csnlog, clog,
                     commitCSN, procArrayLock, globalxmin, snap, snapCurrent, snapNext, reader>>
  BY Zenon DEF AssignTransactionId, WGoto, horizon, logs, ringVars
<1>3. nextXid \in Nat /\ nextXid + 1 \in 1..MaxXid + 1 /\ nextXid # 0 /\ nextXid < nextXid + 1
  BY <1>2, SnapshotConstants DEF Xids
<1>4. SharedTypes' /\ WriterTypes' /\ ReaderTypes'
  <2>1. SharedTypes'
    BY Zenon, <1>1, <1>2, <1>3 DEF SharedTypes
  <2>2. WriterTypes'
    BY Zenon, <1>1, <1>2, <1>3 DEF WriterTypes, Unfinished
  <2>3. ReaderTypes'
    BY Zenon, <1>1, <1>2 DEF ReaderTypes, reader
  <2> QED
    BY Zenon, <2>1, <2>2, <2>3
<1>5. /\ xid'[w] = nextXid /\ lockXid'[w] = nextXid /\ wpc'[w] = "running"
      /\ \A v \in Writers \ {w} : xid'[v] = xid[v] /\ lockXid'[v] = lockXid[v] /\ wpc'[v] = wpc[v]
  BY Zenon, <1>1, <1>2 DEF WriterTypes
<1>6. Onward
  <2>1. nextXid <= nextXid' /\ nextCommitSeqNo <= nextCommitSeqNo'
    BY <1>1, <1>2, <1>3 DEF SharedTypes
  <2>2. \A v \in Writers : wpc'[v] \in HasCSN => wpc[v] \in HasCSN /\ xid'[v] = xid[v]
    BY Zenon, <1>5 DEF HasCSN
  <2> QED
    BY Zenon, <1>2, <2>1, <2>2 DEF Onward
<1>7. HorizonsOK'
  BY Zenon, <1>1, <1>2, <1>4, <1>6, HorizonsFrame DEF horizon
<1>8. \A r \in Readers : ReaderOK(r)'
  BY Zenon, <1>1, <1>2, <1>4, <1>6, ReaderFrame DEF CutInv
<1>9. ASSUME NEW v \in Writers
      PROVE  WriterOK(v)'
  <2>1. WriterOK(v) /\ WriterOK(w)
    BY Zenon DEF CutInv
  <2>2. CASE v = w
    <3>1. csnlog[nextXid] = Inprogress /\ clog[nextXid] = "inprogress"
      BY <1>1, <1>2, <1>3 DEF XidsOK
    <3>2. procArrayLock # w
      BY Zenon, <1>2, <2>1 DEF WriterOK, Calculating
    <3> QED
      BY SMTT(20), <1>2, <1>3, <1>5, <2>1, <2>2, <3>1, <3>2 DEF WriterOK, Unfinished, Calculating
  <2>3. CASE v # w
    <3>1. xid[v] \in Nat /\ lockXid[v] \in Nat
      BY Zenon, <1>1 DEF WriterTypes
    <3> QED
      BY <1>2, <1>3, <1>5, <2>1, <2>3, <3>1 DEF WriterOK
  <2> QED
    BY Zenon, <2>2, <2>3
<1>10. XidsOK'
  <2>1. ASSUME NEW v \in Writers
        PROVE  lockXid[v] # nextXid
    <3>1. WriterOK(v) /\ wpc[v] \in {"idle", "end", "unlock"} \cup Unfinished \cup Calculating
      BY Zenon, <1>1 DEF CutInv, WriterTypes
    <3>2. lockXid[v] = 0 \/ lockXid[v] < nextXid
      BY Zenon, <3>1 DEF WriterOK
    <3> QED
      BY <3>2, <1>3
  <2>2. \A u, v \in Writers : u # v => lockXid'[u] = 0 \/ lockXid'[u] # lockXid'[v]
    BY ZenonT(60), <1>1, <1>5, <2>1 DEF XidsOK
  <2>3. ASSUME NEW x \in Xids
        PROVE  /\ x >= nextXid' => csnlog[x] = Inprogress /\ clog[x] = "inprogress"
               /\ x < nextXid' => \/ \E v \in Writers : xid'[v] = x /\ wpc'[v] \in Unfinished
                                  \/ FinishedBefore(x, nextCommitSeqNo)
    <3>1. x \in Nat
      BY SnapshotConstants DEF Xids
    <3>2. CASE x >= nextXid'
      BY <1>1, <1>2, <1>3, <3>1, <3>2 DEF XidsOK
    <3>3. CASE x < nextXid
      <4>1. \A v \in Writers : wpc[v] \in Unfinished => v # w
        BY Zenon, <1>2 DEF Unfinished
      <4>2. \/ \E v \in Writers : xid'[v] = x /\ wpc'[v] \in Unfinished
            \/ FinishedBefore(x, nextCommitSeqNo)
        BY Zenon, <1>1, <1>5, <4>1, <3>3 DEF XidsOK
      <4> QED
        BY <1>2, <1>3, <3>1, <3>3, <4>2
    <3>4. CASE x = nextXid
      BY <1>2, <1>3, <1>5, <3>4 DEF Unfinished
    <3> QED
      BY <1>2, <1>3, <3>1, <3>2, <3>3, <3>4
  <2> QED
    BY Zenon, <1>1, <1>2, <2>2, <2>3 DEF XidsOK, FinishedBefore
<1> QED
  BY Zenon, <1>4, <1>6, <1>7, <1>8, <1>9, <1>10 DEF CutInv

(* It begins to commit, ... *)
LEMMA ReadLatestCSNInv ==
    ASSUME CutInv, NEW w \in Writers, ReadLatestCSN(w)
    PROVE  CutInv' /\ Onward
<1>1. SharedTypes /\ WriterTypes /\ WriterOK(w)
  BY Zenon DEF CutInv
<1>2. /\ wpc[w] = "running" /\ wpc' = [wpc EXCEPT ![w] = "mark"]
      /\ commitCSN' = [commitCSN EXCEPT ![w] = nextCommitSeqNo]
      /\ UNCHANGED <<csnlog, clog, nextCommitSeqNo, xid, lockXid, nextXid, latestCompletedXid, horizon, procArrayLock, globalxmin,
                     snap, snapCurrent, snapNext, reader>>
  BY Zenon DEF ReadLatestCSN, WGoto, shmem, logs, ringVars
<1>3. /\ xid[w] \in Xids /\ xid[w] < nextXid /\ lockXid[w] = xid[w] /\ procArrayLock # w
      /\ commitCSN[w] \in Nat /\ nextCommitSeqNo \in Nat
      /\ nextCommitSeqNo >= COMMITSEQNO_FIRST_NORMAL
  BY Zenon, <1>1, <1>2 DEF WriterOK, SharedTypes, WriterTypes, Unfinished, Calculating
<1>4. SharedTypes' /\ WriterTypes'
  <2>1. SharedTypes'
    BY Zenon, <1>1, <1>2, <1>3 DEF SharedTypes, horizon
  <2>2. WriterTypes'
    BY Zenon, <1>1, <1>2, <1>3 DEF WriterTypes, Unfinished
  <2> QED
    BY Zenon, <2>1, <2>2
<1>5. /\ wpc'[w] = "mark" /\ \A v \in Writers \ {w} : wpc'[v] = wpc[v] /\ commitCSN'[v] = commitCSN[v]
      /\ \A x \in Xids \ {xid[w]} : csnlog'[x] = csnlog[x] /\ clog'[x] = clog[x]
  BY Zenon, <1>1, <1>2, <1>3 DEF WriterTypes, SharedTypes
<1>6. commitCSN'[w] = nextCommitSeqNo
  BY Zenon, <1>1, <1>2, <1>3 DEF WriterTypes, SharedTypes, Committing, Committed
<1>7. LogStep(w)
  BY SMTT(20), <1>1, <1>2, <1>3, <1>5, <1>6
     DEF LogStep, WriterOK, Unfinished, HasCSN, Finished, Aborted, Inprogress
<1>8. WriterOK(w)'
  BY SMTT(20), <1>1, <1>2, <1>3, <1>5, <1>6
     DEF WriterOK, Unfinished, Calculating, Inprogress, COMMITSEQNO_FIRST_NORMAL
<1>9. csnlog'[xid[w]].status = "committed" => csnlog'[xid[w]].csn >= COMMITSEQNO_FIRST_NORMAL
  BY SMTT(20), <1>1, <1>2, <1>3, <1>6 DEF WriterOK, Inprogress, Aborted, COMMITSEQNO_FIRST_NORMAL
<1> QED
  BY Zenon, <1>4, <1>7, <1>8, <1>9, LogStepInv, LogStepOnward

(* ... is marked as committing, ... *)
LEMMA SetXact2CommitInProgressInv ==
    ASSUME CutInv, NEW w \in Writers, SetXact2CommitInProgress(w)
    PROVE  CutInv' /\ Onward
<1>1. SharedTypes /\ WriterTypes /\ WriterOK(w)
  BY Zenon DEF CutInv
<1>2. /\ wpc[w] = "mark" /\ wpc' = [wpc EXCEPT ![w] = "take_csn"]
      /\ csnlog' = [csnlog EXCEPT ![xid[w]] = Committing(commitCSN[w])]
      /\ UNCHANGED <<clog, commitCSN, nextCommitSeqNo, xid, lockXid, nextXid, latestCompletedXid, horizon, procArrayLock, globalxmin,
                     snap, snapCurrent, snapNext, reader>>
  BY Zenon DEF SetXact2CommitInProgress, WGoto, shmem, logs, ringVars
<1>3. /\ xid[w] \in Xids /\ xid[w] < nextXid /\ lockXid[w] = xid[w] /\ procArrayLock # w
      /\ commitCSN[w] \in Nat /\ nextCommitSeqNo \in Nat
      /\ nextCommitSeqNo >= COMMITSEQNO_FIRST_NORMAL
  BY Zenon, <1>1, <1>2 DEF WriterOK, SharedTypes, WriterTypes, Unfinished, Calculating
<1>4. SharedTypes' /\ WriterTypes'
  <2>1. SharedTypes'
    BY Zenon, <1>1, <1>2, <1>3 DEF SharedTypes, horizon, Entries, Committing
  <2>2. WriterTypes'
    BY Zenon, <1>1, <1>2, <1>3 DEF WriterTypes, Unfinished
  <2> QED
    BY Zenon, <2>1, <2>2
<1>5. /\ wpc'[w] = "take_csn" /\ \A v \in Writers \ {w} : wpc'[v] = wpc[v] /\ commitCSN'[v] = commitCSN[v]
      /\ \A x \in Xids \ {xid[w]} : csnlog'[x] = csnlog[x] /\ clog'[x] = clog[x]
  BY Zenon, <1>1, <1>2, <1>3 DEF WriterTypes, SharedTypes
<1>6. csnlog'[xid[w]] = [status |-> "committing", csn |-> commitCSN[w]]
  BY ZenonT(40), <1>1, <1>2, <1>3 DEF WriterTypes, SharedTypes, Committing, Committed
<1>7. LogStep(w)
  BY SMTT(20), <1>1, <1>2, <1>3, <1>5, <1>6
     DEF LogStep, WriterOK, Unfinished, HasCSN, Finished, Aborted, Inprogress
<1>8. WriterOK(w)'
  BY SMTT(20), <1>1, <1>2, <1>3, <1>5, <1>6
     DEF WriterOK, Unfinished, Calculating, Inprogress, COMMITSEQNO_FIRST_NORMAL
<1>9. csnlog'[xid[w]].status = "committed" => csnlog'[xid[w]].csn >= COMMITSEQNO_FIRST_NORMAL
  BY SMTT(20), <1>1, <1>2, <1>3, <1>6 DEF WriterOK, Inprogress, Aborted, COMMITSEQNO_FIRST_NORMAL
<1> QED
  BY Zenon, <1>4, <1>7, <1>8, <1>9, LogStepInv, LogStepOnward

(* ... takes its csn, which no snapshot so far exceeds, ... *)
LEMMA getLocalNextCSNInv ==
    ASSUME CutInv, NEW w \in Writers, getLocalNextCSN(w)
    PROVE  CutInv' /\ Onward
<1>1. SharedTypes /\ WriterTypes /\ WriterOK(w)
  BY Zenon DEF CutInv
<1>2. /\ wpc[w] = "take_csn" /\ wpc' = [wpc EXCEPT ![w] = "commit_clog"]
      /\ commitCSN' = [commitCSN EXCEPT ![w] = nextCommitSeqNo] /\ nextCommitSeqNo' = nextCommitSeqNo + 1
      /\ UNCHANGED <<csnlog, clog, xid, lockXid, nextXid, latestCompletedXid, horizon, procArrayLock, globalxmin,
                     snap, snapCurrent, snapNext, reader>>
  BY Zenon DEF getLocalNextCSN, WGoto, shmem, logs, ringVars
<1>3. /\ xid[w] \in Xids /\ xid[w] < nextXid /\ lockXid[w] = xid[w] /\ procArrayLock # w
      /\ commitCSN[w] \in Nat /\ nextCommitSeqNo \in Nat
      /\ nextCommitSeqNo >= COMMITSEQNO_FIRST_NORMAL
  BY Zenon, <1>1, <1>2 DEF WriterOK, SharedTypes, WriterTypes, Unfinished, Calculating
<1>4. SharedTypes' /\ WriterTypes'
  <2>1. SharedTypes'
    BY <1>1, <1>2, <1>3 DEF SharedTypes, horizon, COMMITSEQNO_FIRST_NORMAL
  <2>2. WriterTypes'
    BY Zenon, <1>1, <1>2, <1>3 DEF WriterTypes, Unfinished
  <2> QED
    BY Zenon, <2>1, <2>2
<1>5. /\ wpc'[w] = "commit_clog" /\ \A v \in Writers \ {w} : wpc'[v] = wpc[v] /\ commitCSN'[v] = commitCSN[v]
      /\ \A x \in Xids \ {xid[w]} : csnlog'[x] = csnlog[x] /\ clog'[x] = clog[x]
  BY Zenon, <1>1, <1>2, <1>3 DEF WriterTypes, SharedTypes
<1>6. commitCSN'[w] = nextCommitSeqNo
  BY ZenonT(40), <1>1, <1>2, <1>3 DEF WriterTypes, SharedTypes, Committing, Committed
<1>7. LogStep(w)
  BY SMTT(20), <1>1, <1>2, <1>3, <1>5, <1>6
     DEF LogStep, WriterOK, Unfinished, HasCSN, Finished, Aborted, Inprogress
<1>8. WriterOK(w)'
  BY SMTT(20), <1>1, <1>2, <1>3, <1>5, <1>6
     DEF WriterOK, Unfinished, Calculating, Inprogress, COMMITSEQNO_FIRST_NORMAL
<1>9. csnlog'[xid[w]].status = "committed" => csnlog'[xid[w]].csn >= COMMITSEQNO_FIRST_NORMAL
  BY Zenon, <1>1, <1>2, <1>3, <1>6 DEF WriterOK, Inprogress, Aborted, COMMITSEQNO_FIRST_NORMAL
<1> QED
  BY Zenon, <1>4, <1>7, <1>8, <1>9, LogStepInv, LogStepOnward

(* ... is committed in the clog ... *)
LEMMA CommitCLogInv ==
    ASSUME CutInv, NEW w \in Writers, CommitCLog(w)
    PROVE  CutInv' /\ Onward
<1>1. SharedTypes /\ WriterTypes /\ WriterOK(w)
  BY Zenon DEF CutInv
<1>2. /\ wpc[w] = "commit_clog" /\ wpc' = [wpc EXCEPT ![w] = "commit_csnlog"]
      /\ clog' = [clog EXCEPT ![xid[w]] = "committed"]
      /\ UNCHANGED <<csnlog, commitCSN, nextCommitSeqNo, xid, lockXid, nextXid, latestCompletedXid, horizon, procArrayLock, globalxmin,
                     snap, snapCurrent, snapNext, reader>>
  BY Zenon DEF CommitCLog, WGoto, shmem, logs, ringVars
<1>3. /\ xid[w] \in Xids /\ xid[w] < nextXid /\ lockXid[w] = xid[w] /\ procArrayLock # w
      /\ commitCSN[w] \in Nat /\ nextCommitSeqNo \in Nat
      /\ nextCommitSeqNo >= COMMITSEQNO_FIRST_NORMAL
  BY Zenon, <1>1, <1>2 DEF WriterOK, SharedTypes, WriterTypes, Unfinished, Calculating
<1>4. SharedTypes' /\ WriterTypes'
  <2>1. SharedTypes'
    BY Zenon, <1>1, <1>2, <1>3 DEF SharedTypes, horizon
  <2>2. WriterTypes'
    BY Zenon, <1>1, <1>2, <1>3 DEF WriterTypes, Unfinished
  <2> QED
    BY Zenon, <2>1, <2>2
<1>5. /\ wpc'[w] = "commit_csnlog" /\ \A v \in Writers \ {w} : wpc'[v] = wpc[v] /\ commitCSN'[v] = commitCSN[v]
      /\ \A x \in Xids \ {xid[w]} : csnlog'[x] = csnlog[x] /\ clog'[x] = clog[x]
  BY Zenon, <1>1, <1>2, <1>3 DEF WriterTypes, SharedTypes
<1>6. clog'[xid[w]] = "committed"
  BY ZenonT(40), <1>1, <1>2, <1>3 DEF WriterTypes, SharedTypes, Committing, Committed
<1>7. LogStep(w)
  BY <1>1, <1>2, <1>3, <1>5, <1>6
     DEF LogStep, WriterOK, Unfinished, HasCSN, Finished, Aborted, Inprogress
<1>8. WriterOK(w)'
  BY Zenon, <1>1, <1>2, <1>3, <1>5, <1>6
     DEF WriterOK, Unfinished, Calculating, Inprogress, COMMITSEQNO_FIRST_NORMAL
<1>9. csnlog'[xid[w]].status = "committed" => csnlog'[xid[w]].csn >= COMMITSEQNO_FIRST_NORMAL
  BY ZenonT(40), <1>1, <1>2, <1>3, <1>6 DEF WriterOK, Inprogress, Aborted, COMMITSEQNO_FIRST_NORMAL
<1> QED
  BY Zenon, <1>4, <1>7, <1>8, <1>9, LogStepInv, LogStepOnward

(* ... and in the csnlog; *)
LEMMA UpdateCSNLogAtTransactionENDInv ==
    ASSUME CutInv, NEW w \in Writers, UpdateCSNLogAtTransactionEND(w)
    PROVE  CutInv' /\ Onward
<1>1. SharedTypes /\ WriterTypes /\ WriterOK(w)
  BY Zenon DEF CutInv
<1>2. /\ wpc[w] = "commit_csnlog" /\ wpc' = [wpc EXCEPT ![w] = "end"]
      /\ csnlog' = [csnlog EXCEPT ![xid[w]] = Committed(commitCSN[w])]
      /\ UNCHANGED <<clog, commitCSN, nextCommitSeqNo, xid, lockXid, nextXid, latestCompletedXid, horizon, procArrayLock, globalxmin,
                     snap, snapCurrent, snapNext, reader>>
  BY Zenon DEF UpdateCSNLogAtTransactionEND, WGoto, shmem, logs, ringVars
<1>3. /\ xid[w] \in Xids /\ xid[w] < nextXid /\ lockXid[w] = xid[w] /\ procArrayLock # w
      /\ commitCSN[w] \in Nat /\ nextCommitSeqNo \in Nat
      /\ nextCommitSeqNo >= COMMITSEQNO_FIRST_NORMAL
  BY Zenon, <1>1, <1>2 DEF WriterOK, SharedTypes, WriterTypes, Unfinished, Calculating
<1>4. SharedTypes' /\ WriterTypes'
  <2>1. SharedTypes'
    BY Zenon, <1>1, <1>2, <1>3 DEF SharedTypes, horizon, Entries, Committed
  <2>2. WriterTypes'
    BY Zenon, <1>1, <1>2, <1>3 DEF WriterTypes, Unfinished
  <2> QED
    BY Zenon, <2>1, <2>2
<1>5. /\ wpc'[w] = "end" /\ \A v \in Writers \ {w} : wpc'[v] = wpc[v] /\ commitCSN'[v] = commitCSN[v]
      /\ \A x \in Xids \ {xid[w]} : csnlog'[x] = csnlog[x] /\ clog'[x] = clog[x]
  BY Zenon, <1>1, <1>2, <1>3 DEF WriterTypes, SharedTypes
<1>6. csnlog'[xid[w]] = [status |-> "committed", csn |-> commitCSN[w]]
  BY ZenonT(40), <1>1, <1>2, <1>3 DEF WriterTypes, SharedTypes, Committing, Committed
<1>7. LogStep(w)
  BY <1>1, <1>2, <1>3, <1>5, <1>6
     DEF LogStep, WriterOK, Unfinished, HasCSN, Finished, Aborted, Inprogress
<1>8. WriterOK(w)'
  BY ZenonT(40), <1>1, <1>2, <1>3, <1>5, <1>6
     DEF WriterOK, Unfinished, Calculating, Inprogress, COMMITSEQNO_FIRST_NORMAL
<1>9. csnlog'[xid[w]].status = "committed" => csnlog'[xid[w]].csn >= COMMITSEQNO_FIRST_NORMAL
  BY SMTT(20), <1>1, <1>2, <1>3, <1>6 DEF WriterOK, Inprogress, Aborted, COMMITSEQNO_FIRST_NORMAL
<1> QED
  BY Zenon, <1>4, <1>7, <1>8, <1>9, LogStepInv, LogStepOnward

(* or it aborts *)
LEMMA TransactionIdAbortTreeInv ==
    ASSUME CutInv, NEW w \in Writers, TransactionIdAbortTree(w)
    PROVE  CutInv' /\ Onward
<1>1. SharedTypes /\ WriterTypes /\ WriterOK(w)
  BY Zenon DEF CutInv
<1>2. /\ wpc[w] = "running" /\ wpc' = [wpc EXCEPT ![w] = "end"]
      /\ clog' = [clog EXCEPT ![xid[w]] = "aborted"] /\ csnlog' = [csnlog EXCEPT ![xid[w]] = Aborted]
      /\ UNCHANGED <<commitCSN, nextCommitSeqNo, xid, lockXid, nextXid, latestCompletedXid, horizon, procArrayLock, globalxmin,
                     snap, snapCurrent, snapNext, reader>>
  BY Zenon DEF TransactionIdAbortTree, WGoto, shmem, logs, ringVars
<1>3. /\ xid[w] \in Xids /\ xid[w] < nextXid /\ lockXid[w] = xid[w] /\ procArrayLock # w
      /\ commitCSN[w] \in Nat /\ nextCommitSeqNo \in Nat
      /\ nextCommitSeqNo >= COMMITSEQNO_FIRST_NORMAL
  BY Zenon, <1>1, <1>2 DEF WriterOK, SharedTypes, WriterTypes, Unfinished, Calculating
<1>4. SharedTypes' /\ WriterTypes'
  <2>1. SharedTypes'
    BY Zenon, <1>1, <1>2, <1>3 DEF SharedTypes, horizon, Entries, Aborted
  <2>2. WriterTypes'
    BY Zenon, <1>1, <1>2, <1>3 DEF WriterTypes, Unfinished
  <2> QED
    BY Zenon, <2>1, <2>2
<1>5. /\ wpc'[w] = "end" /\ \A v \in Writers \ {w} : wpc'[v] = wpc[v] /\ commitCSN'[v] = commitCSN[v]
      /\ \A x \in Xids \ {xid[w]} : csnlog'[x] = csnlog[x] /\ clog'[x] = clog[x]
  BY Zenon, <1>1, <1>2, <1>3 DEF WriterTypes, SharedTypes
<1>6. clog'[xid[w]] = "aborted" /\ csnlog'[xid[w]] = Aborted
  BY ZenonT(40), <1>1, <1>2, <1>3 DEF WriterTypes, SharedTypes, Committing, Committed
<1>7. LogStep(w)
  BY <1>1, <1>2, <1>3, <1>5, <1>6
     DEF LogStep, WriterOK, Unfinished, HasCSN, Finished, Aborted, Inprogress
<1>8. WriterOK(w)'
  BY ZenonT(40), <1>1, <1>2, <1>3, <1>5, <1>6
     DEF WriterOK, Unfinished, Calculating, Inprogress, COMMITSEQNO_FIRST_NORMAL
<1>9. csnlog'[xid[w]].status = "committed" => csnlog'[xid[w]].csn >= COMMITSEQNO_FIRST_NORMAL
  BY <1>1, <1>2, <1>3, <1>6 DEF WriterOK, Inprogress, Aborted, COMMITSEQNO_FIRST_NORMAL
<1> QED
  BY Zenon, <1>4, <1>7, <1>8, <1>9, LogStepInv, LogStepOnward

-----------------------------------------------------------------------------
(* Steps of readers *)

(* A step of a reader changes its own state, and no status *)
ReaderMoves(r) ==
    /\ \A q \in Readers \ {r} :
          /\ xmin'[q] = xmin[q] /\ rpc'[q] = rpc[q] /\ snapxid'[q] = snapxid[q]
          /\ snapshot'[q] = snapshot[q] /\ held'[q] = held[q] /\ cached'[q] = cached[q]
          /\ asked'[q] = asked[q] /\ answer'[q] = answer[q]
    /\ UNCHANGED <<shmem, horizon, logs, writer, procArrayLock, globalxmin, snap, snapCurrent, snapNext>>

(* Such a step preserves the invariant, if it does for its reader *)
LEMMA ReaderMovesInv ==
    ASSUME CutInv, NEW r \in Readers, ReaderMoves(r), ReaderTypes', ReaderOK(r)'
    PROVE  CutInv' /\ Onward
<1>1. /\ nextXid' = nextXid /\ nextCommitSeqNo' = nextCommitSeqNo /\ latestCompletedXid' = latestCompletedXid
      /\ shmemXmin' = shmemXmin /\ recentLocalXmin' = recentLocalXmin /\ csnlog' = csnlog /\ clog' = clog
      /\ xid' = xid /\ lockXid' = lockXid /\ commitCSN' = commitCSN /\ wpc' = wpc
      /\ procArrayLock' = procArrayLock /\ globalxmin' = globalxmin
      /\ snap' = snap /\ snapCurrent' = snapCurrent /\ snapNext' = snapNext
  BY Zenon DEF ReaderMoves, shmem, horizon, logs, writer
<1>2. SharedTypes /\ WriterTypes /\ HorizonsOK /\ XidsOK
  BY Zenon DEF CutInv
<1>3. SharedTypes' /\ WriterTypes'
  BY Zenon, <1>1, <1>2 DEF SharedTypes, WriterTypes
<1>4. HorizonsOK' /\ XidsOK'
  <2>1. HorizonsOK'
    BY Zenon, <1>1, <1>2 DEF HorizonsOK, AllBefore
  <2>2. XidsOK'
    BY ZenonT(40), <1>1, <1>2 DEF XidsOK, FinishedBefore
  <2> QED
    BY Zenon, <2>1, <2>2
<1>5. \A w \in Writers : WriterOK(w)'
  BY <1>1 DEF WriterOK, CutInv
<1>6. ASSUME NEW q \in Readers, q # r
      PROVE  ReaderOK(q)'
  <2>1. ReaderOK(q)
    BY Zenon DEF CutInv
  <2>2. /\ xmin'[q] = xmin[q] /\ rpc'[q] = rpc[q] /\ snapxid'[q] = snapxid[q]
        /\ snapshot'[q] = snapshot[q] /\ held'[q] = held[q] /\ cached'[q] = cached[q]
        /\ asked'[q] = asked[q] /\ answer'[q] = answer[q]
    BY Zenon, <1>6 DEF ReaderMoves
  <2> QED
    BY ZenonT(40), <2>1, <2>2, <1>1
       DEF ReaderOK, SnapshotOK, CacheOK, AnswerOK, AllBefore, FinishedBefore, HasSnapshot
<1>7. Onward
  <2>1. nextXid <= nextXid /\ nextCommitSeqNo <= nextCommitSeqNo
    BY <1>2 DEF SharedTypes
  <2> QED
    BY Zenon, <2>1, <1>1 DEF Onward
<1> QED
  BY Zenon, <1>3, <1>4, <1>5, <1>6, <1>7 DEF CutInv

(* What TransactionIdGetCommitSeqNo finds, in the cache, in the clog or in the csnlog,  *)
(* is good enough for the snapshot: what is visible has committed before it, what is    *)
(* not visible and need not be waited for has not and will not, and a final status may  *)
(* be cached.                                                                           *)
LEMMA StatusRight ==
    ASSUME CutInv, NEW r \in Readers, HasSnapshot(r), NEW x \in Xids
    PROVE  LET e == GetCommitSeqNo(r, x)
               s == snapshot[r]
           IN  /\ e \in Entries
               /\ e.status \in {"committed", "aborted"} => CacheOK([xid |-> x, entry |-> e])
               /\ Visible(e, s) => csnlog[x].status = "committed" /\ csnlog[x].csn < s.csn
               /\ ~Visible(e, s) /\ ~MustWait(e, s) =>
                     /\ csnlog[x].status = "committed" => csnlog[x].csn >= s.csn
                     /\ \A w \in Writers : xid[w] = x /\ wpc[w] \in HasCSN => commitCSN[w] >= s.csn
               /\ FinishedBefore(x, nextCommitSeqNo) => e.status \in {"committed", "aborted"}
<1> DEFINE e == GetCommitSeqNo(r, x)
           s == snapshot[r]
<1>1. /\ csnlog[x] \in Entries /\ csnlog[x].csn \in Nat /\ csnlog[x].csn <= csnlog[x].csn
      /\ csnlog[x].status \in {"inprogress", "committing", "committed", "aborted"}
      /\ nextCommitSeqNo \in Nat
  BY SMTT(20) DEF CutInv, SharedTypes, Entries
<1>2. s.csn \in Nat /\ s.csn >= 3 /\ s.csn <= nextCommitSeqNo
  BY <1>1 DEF CutInv, ReaderOK, SnapshotOK, COMMITSEQNO_FIRST_NORMAL
<1>3. /\ FinishedUpTo(csnlog, clog, s.xmin, s.csn) /\ CacheOK(cached[r])
  BY Zenon DEF CutInv, ReaderOK, SnapshotOK, AllBefore
<1>4. x < s.xmin => Finished(csnlog[x], clog[x], s.csn)
  BY Zenon, <1>3 DEF FinishedUpTo
<1>5. Finished(csnlog[x], clog[x], s.csn) => FinishedBefore(x, nextCommitSeqNo)
  BY SMTT(20), <1>1, <1>2 DEF FinishedBefore, Finished
<1>6. \A w \in Writers : xid[w] = x /\ wpc[w] \in HasCSN =>
         csnlog[x].status = "committing" /\ commitCSN[w] \in Nat /\ commitCSN[w] >= csnlog[x].csn
  BY <1>1 DEF CutInv, WriterOK, WriterTypes, HasCSN
<1>7. FinishedBefore(x, nextCommitSeqNo) => csnlog[x].status \in {"committed", "aborted"}
  BY <1>1 DEF FinishedBefore, Finished, Aborted
<1>8. x # 0
  BY SnapshotConstants DEF Xids
<1> HIDE DEF s
<1>9. CASE e = csnlog[x]
  <2>1. csnlog[x].status \in {"committed", "aborted"} => FinishedBefore(x, nextCommitSeqNo)
    <3>1. ASSUME NEW w \in Writers, xid[w] = x, wpc[w] \in Unfinished
          PROVE  csnlog[x].status \in {"inprogress", "committing"}
      BY SMTT(20), <3>1 DEF CutInv, WriterOK, Unfinished, Inprogress
    <3>2. x >= nextXid => csnlog[x].status = "inprogress"
      BY DEF CutInv, XidsOK, Inprogress
    <3>3. x >= nextXid \/ x < nextXid
      BY SnapshotConstants DEF CutInv, SharedTypes, Xids
    <3> QED
      BY ZenonT(40), <3>1, <3>2, <3>3 DEF CutInv, XidsOK
  <2>2. e.status \in {"committed", "aborted"} => CacheOK([xid |-> x, entry |-> e])
    BY Zenon, <1>9, <2>1 DEF CacheOK
  <2>3. ~Visible(e, s) /\ ~MustWait(e, s) =>
           /\ csnlog[x].status = "committed" => csnlog[x].csn >= s.csn
           /\ \A w \in Writers : xid[w] = x /\ wpc[w] \in HasCSN => commitCSN[w] >= s.csn
    BY <1>1, <1>2, <1>6, <1>9 DEF Visible, MustWait
  <2> QED
    BY Zenon, <1>1, <1>7, <1>9, <2>2, <2>3 DEF Visible, s
<1>10. CASE e = Committed(COMMITSEQNO_FROZEN) /\ csnlog[x].status = "committed"
            /\ Finished(csnlog[x], clog[x], s.csn)
  <2>1. e \in Entries /\ e.status = "committed" /\ e.csn = 2
    BY <1>10 DEF Entries, Committed, COMMITSEQNO_FROZEN
  <2>2. Visible(e, s)
    BY <1>2, <2>1 DEF Visible
  <2>3. csnlog[x].csn < s.csn
    BY <1>10 DEF Finished, Aborted
  <2>4. CacheOK([xid |-> x, entry |-> e])
    BY Zenon, <1>10, <1>5 DEF CacheOK
  <2> QED
    BY Zenon, <1>10, <2>1, <2>2, <2>3, <2>4 DEF s
<1>11. e = csnlog[x] \/ (e = Committed(COMMITSEQNO_FROZEN) /\ csnlog[x].status = "committed"
                         /\ Finished(csnlog[x], clog[x], s.csn))
  <2>1. CASE FromCache(r, x)
    <3>1. e = cached[r].entry /\ cached[r].xid = x
      BY Zenon, <2>1 DEF GetCommitSeqNo, FromCache
    <3>2. \/ e = csnlog[x]
          \/ e = Committed(COMMITSEQNO_FROZEN) /\ csnlog[x].status = "committed"
      BY Zenon, <1>3, <1>8, <3>1 DEF CacheOK
    <3>3. e = Committed(COMMITSEQNO_FROZEN) => x < s.xmin
      BY Zenon, <2>1, <3>1 DEF FromCache, s
    <3> QED
      BY Zenon, <1>4, <3>2, <3>3
  <2>2. CASE ~FromCache(r, x) /\ x < s.xmin
    <3>1. e = FromCLog(x)
      BY Zenon, <2>2 DEF GetCommitSeqNo, s
    <3> QED
      BY Zenon, <1>4, <2>2, <3>1 DEF FromCLog, Finished
  <2>3. CASE ~FromCache(r, x) /\ ~(x < s.xmin)
    BY Zenon, <2>3 DEF GetCommitSeqNo, s
  <2> QED
    BY Zenon, <2>1, <2>2, <2>3
<1> QED
  BY Zenon, <1>9, <1>10, <1>11 DEF s

(* The pointer to the current slot is read: that slot holds a snapshot, ... *)
LEMMA GetCurrentSnapXidInv ==
    ASSUME CutInv, NEW r \in Readers, GetCurrentSnapXid(r)
    PROVE  CutInv' /\ Onward
<1>1. ReaderTypes /\ ReaderOK(r) /\ HorizonsOK /\ SharedTypes
  BY Zenon DEF CutInv
<1>2. /\ rpc[r] = "idle"
      /\ snapxid' = [snapxid EXCEPT ![r] = snapCurrent]
      /\ rpc' = [rpc EXCEPT ![r] = "pin"]
      /\ UNCHANGED <<shmem, horizon, logs, writer, procArrayLock, globalxmin, snap, snapCurrent, snapNext,
                     xmin, snapshot, held, cached, asked, answer>>
  BY Zenon DEF GetCurrentSnapXid, RGoto, ringVars
<1>3. /\ nextXid' = nextXid /\ nextCommitSeqNo' = nextCommitSeqNo /\ recentLocalXmin' = recentLocalXmin
      /\ csnlog' = csnlog /\ clog' = clog /\ xid' = xid /\ commitCSN' = commitCSN /\ wpc' = wpc
      /\ snap' = snap
  BY Zenon, <1>2 DEF shmem, horizon, logs, writer
<1>4. ReaderTypes'
  BY Zenon, <1>1, <1>2 DEF ReaderTypes, SharedTypes
<1>5. /\ snapxid'[r] = snapCurrent /\ rpc'[r] = "pin"
      /\ \A q \in Readers \ {r} : snapxid'[q] = snapxid[q] /\ rpc'[q] = rpc[q]
  BY Zenon, <1>1, <1>2 DEF ReaderTypes
<1>6. ReaderMoves(r)
  BY Zenon, <1>2, <1>5 DEF ReaderMoves
<1>7. ReaderOK(r)'
  BY Zenon, <1>1, <1>2, <1>3, <1>5
     DEF ReaderOK, SnapshotOK, CacheOK, AnswerOK, AllBefore, FinishedBefore, HasSnapshot, HorizonsOK
<1> QED
  BY Zenon, <1>4, <1>6, <1>7, ReaderMovesInv

(* ... and is referenced, *)
LEMMA IncrRefCountInv ==
    ASSUME CutInv, NEW r \in Readers, IncrRefCount(r)
    PROVE  CutInv' /\ Onward
<1>1. ReaderTypes /\ ReaderOK(r) /\ HorizonsOK /\ SharedTypes
  BY Zenon DEF CutInv
<1>2. /\ rpc[r] = "pin"
      /\ rpc' = [rpc EXCEPT ![r] = "set_xmin"]
      /\ UNCHANGED <<shmem, horizon, logs, writer, procArrayLock, globalxmin, snap, snapCurrent, snapNext,
                     xmin, snapxid, snapshot, held, cached, asked, answer>>
  BY Zenon DEF IncrRefCount, RGoto
<1>3. /\ nextXid' = nextXid /\ nextCommitSeqNo' = nextCommitSeqNo /\ recentLocalXmin' = recentLocalXmin
      /\ csnlog' = csnlog /\ clog' = clog /\ xid' = xid /\ commitCSN' = commitCSN /\ wpc' = wpc
      /\ snap' = snap
  BY Zenon, <1>2 DEF shmem, horizon, logs, writer
<1>4. ReaderTypes'
  BY Zenon, <1>1, <1>2 DEF ReaderTypes
<1>5. /\ rpc'[r] = "set_xmin"
      /\ \A q \in Readers \ {r} : rpc'[q] = rpc[q]
  BY Zenon, <1>1, <1>2 DEF ReaderTypes
<1>6. ReaderMoves(r)
  BY Zenon, <1>2, <1>5 DEF ReaderMoves
<1>7. ReaderOK(r)'
  BY ZenonT(40), <1>1, <1>2, <1>3, <1>5
     DEF ReaderOK, SnapshotOK, CacheOK, AnswerOK, AllBefore, FinishedBefore, HasSnapshot
<1> QED
  BY Zenon, <1>4, <1>6, <1>7, ReaderMovesInv

(* its xmin is shown to the writers, unless an older one is, *)
LEMMA SetPgxactXminInv ==
    ASSUME CutInv, NEW r \in Readers, SetPgxactXmin(r)
    PROVE  CutInv' /\ Onward
<1>1. ReaderTypes /\ ReaderOK(r) /\ HorizonsOK /\ SharedTypes
  BY Zenon DEF CutInv
<1>2. /\ rpc[r] = "set_xmin"
      /\ xmin' = [xmin EXCEPT ![r] = IF @ = InvalidTransactionId THEN snap[snapxid[r]].xmin ELSE @]
      /\ rpc' = [rpc EXCEPT ![r] = "copy"]
      /\ UNCHANGED <<shmem, horizon, logs, writer, procArrayLock, globalxmin, snap, snapCurrent, snapNext,
                     snapxid, snapshot, held, cached, asked, answer>>
  BY Zenon DEF SetPgxactXmin, RGoto, ringVars
<1>3. /\ nextXid' = nextXid /\ nextCommitSeqNo' = nextCommitSeqNo /\ recentLocalXmin' = recentLocalXmin
      /\ csnlog' = csnlog /\ clog' = clog /\ xid' = xid /\ commitCSN' = commitCSN /\ wpc' = wpc
      /\ snap' = snap
  BY Zenon, <1>2 DEF shmem, horizon, logs, writer
<1>4. ReaderTypes'
  BY Zenon, <1>1, <1>2 DEF ReaderTypes, SharedTypes
<1>5. /\ xmin'[r] = (IF xmin[r] = InvalidTransactionId THEN snap[snapxid[r]].xmin ELSE xmin[r]) /\ rpc'[r] = "copy"
      /\ \A q \in Readers \ {r} : xmin'[q] = xmin[q] /\ rpc'[q] = rpc[q]
  BY Zenon, <1>1, <1>2 DEF ReaderTypes
<1>6. ReaderMoves(r)
  BY Zenon, <1>2, <1>5 DEF ReaderMoves
<1>7. ReaderOK(r)'
  <2>1. /\ snapxid[r] \in Ring /\ snap[snapxid[r]].xmin # 0
    BY Zenon, <1>1, <1>2 DEF ReaderOK, ReaderTypes
  <2>2. xmin'[r] # 0 /\ xmin'[r] <= nextXid /\ FinishedUpTo(csnlog, clog, xmin'[r], nextCommitSeqNo)
    BY Zenon, <1>1, <1>5, <2>1 DEF ReaderOK, HorizonsOK, AllBefore, InvalidTransactionId
  <2>3. xmin[r] # 0 => xmin'[r] = xmin[r]
    BY Zenon, <1>5 DEF InvalidTransactionId
  <2> QED
    BY Zenon, <1>1, <1>2, <1>3, <1>5, <2>1, <2>2, <2>3
       DEF ReaderOK, SnapshotOK, CacheOK, AnswerOK, AllBefore, FinishedBefore, HasSnapshot
<1> QED
  BY Zenon, <1>4, <1>6, <1>7, ReaderMovesInv

(* it is copied, *)
LEMMA CopySnapshotInv ==
    ASSUME CutInv, NEW r \in Readers, CopySnapshot(r)
    PROVE  CutInv' /\ Onward
<1>1. ReaderTypes /\ ReaderOK(r) /\ HorizonsOK /\ SharedTypes
  BY Zenon DEF CutInv
<1>2. /\ rpc[r] = "copy"
      /\ snapshot' = [snapshot EXCEPT ![r] = [xmin |-> snap[snapxid[r]].xmin, csn |-> 0]]
      /\ rpc' = [rpc EXCEPT ![r] = "unpin"]
      /\ UNCHANGED <<shmem, horizon, logs, writer, procArrayLock, globalxmin, snap, snapCurrent, snapNext,
                     xmin, snapxid, held, cached, asked, answer>>
  BY Zenon DEF CopySnapshot, RGoto, ringVars
<1>3. /\ nextXid' = nextXid /\ nextCommitSeqNo' = nextCommitSeqNo /\ recentLocalXmin' = recentLocalXmin
      /\ csnlog' = csnlog /\ clog' = clog /\ xid' = xid /\ commitCSN' = commitCSN /\ wpc' = wpc
      /\ snap' = snap
  BY Zenon, <1>2 DEF shmem, horizon, logs, writer
<1>4. ReaderTypes'
  BY Zenon, <1>1, <1>2 DEF ReaderTypes, SharedTypes, Snapshots
<1>5. /\ snapshot'[r] = [xmin |-> snap[snapxid[r]].xmin, csn |-> 0] /\ rpc'[r] = "unpin"
      /\ \A q \in Readers \ {r} : snapshot'[q] = snapshot[q] /\ rpc'[q] = rpc[q]
  BY Zenon, <1>1, <1>2 DEF ReaderTypes
<1>6. ReaderMoves(r)
  BY Zenon, <1>2, <1>5 DEF ReaderMoves
<1>7. ReaderOK(r)'
  <2>1. snapxid[r] \in Ring /\ snapshot'[r].xmin = snap[snapxid[r]].xmin
    BY <1>1, <1>5 DEF ReaderTypes
  <2>2. FinishedUpTo(csnlog, clog, snapshot'[r].xmin, nextCommitSeqNo)
    BY Zenon, <1>1, <2>1 DEF HorizonsOK, AllBefore
  <2>3. \A x \in Xids : answer[r][x] = "none"
    BY Zenon, <1>1, <1>2 DEF ReaderOK, HasSnapshot, NoAnswers
  <2> QED
    BY ZenonT(40), <1>1, <1>2, <1>3, <1>5, <2>2, <2>3
       DEF ReaderOK, SnapshotOK, CacheOK, AnswerOK, AllBefore, FinishedBefore, HasSnapshot
<1> QED
  BY Zenon, <1>4, <1>6, <1>7, ReaderMovesInv

(* the reference is given back, *)
LEMMA DecrRefCountInv ==
    ASSUME CutInv, NEW r \in Readers, DecrRefCount(r)
    PROVE  CutInv' /\ Onward
<1>1. ReaderTypes /\ ReaderOK(r) /\ HorizonsOK /\ SharedTypes
  BY Zenon DEF CutInv
<1>2. /\ rpc[r] = "unpin"
      /\ snapxid' = [snapxid EXCEPT ![r] = 0]
      /\ rpc' = [rpc EXCEPT ![r] = "read_csn"]
      /\ UNCHANGED <<shmem, horizon, logs, writer, procArrayLock, globalxmin, snap, snapCurrent, snapNext,
                     xmin, snapshot, held, cached, asked, answer>>
  BY Zenon DEF DecrRefCount, RGoto
<1>3. /\ nextXid' = nextXid /\ nextCommitSeqNo' = nextCommitSeqNo /\ recentLocalXmin' = recentLocalXmin
      /\ csnlog' = csnlog /\ clog' = clog /\ xid' = xid /\ commitCSN' = commitCSN /\ wpc' = wpc
      /\ snap' = snap
  BY Zenon, <1>2 DEF shmem, horizon, logs, writer
<1>4. ReaderTypes'
  <2>1. 0 \in Ring
    BY RingHasNext DEF Ring
  <2> QED
    BY Zenon, <1>1, <1>2, <2>1 DEF ReaderTypes
<1>5. /\ snapxid'[r] = 0 /\ rpc'[r] = "read_csn"
      /\ \A q \in Readers \ {r} : snapxid'[q] = snapxid[q] /\ rpc'[q] = rpc[q]
  BY Zenon, <1>1, <1>2 DEF ReaderTypes
<1>6. ReaderMoves(r)
  BY Zenon, <1>2, <1>5 DEF ReaderMoves
<1>7. ReaderOK(r)'
  BY Zenon, <1>1, <1>2, <1>3, <1>5
     DEF ReaderOK, SnapshotOK, CacheOK, AnswerOK, AllBefore, FinishedBefore, HasSnapshot
<1> QED
  BY Zenon, <1>4, <1>6, <1>7, ReaderMovesInv

(* and the csn is read: what is finished by now is finished before it *)
LEMMA ReadSnapshotCSNInv ==
    ASSUME CutInv, NEW r \in Readers, ReadSnapshotCSN(r)
    PROVE  CutInv' /\ Onward
<1>1. ReaderTypes /\ ReaderOK(r) /\ HorizonsOK /\ SharedTypes
  BY Zenon DEF CutInv
<1>2. /\ rpc[r] = "read_csn"
      /\ snapshot' = [snapshot EXCEPT ![r].csn = nextCommitSeqNo]
      /\ rpc' = [rpc EXCEPT ![r] = "ready"]
      /\ UNCHANGED <<shmem, horizon, logs, writer, procArrayLock, globalxmin, snap, snapCurrent, snapNext,
                     xmin, snapxid, held, cached, asked, answer>>
  BY Zenon DEF ReadSnapshotCSN, RGoto, ringVars
<1>3. /\ nextXid' = nextXid /\ nextCommitSeqNo' = nextCommitSeqNo /\ recentLocalXmin' = recentLocalXmin
      /\ csnlog' = csnlog /\ clog' = clog /\ xid' = xid /\ commitCSN' = commitCSN /\ wpc' = wpc
      /\ snap' = snap
  BY Zenon, <1>2 DEF shmem, horizon, logs, writer
<1>4. ReaderTypes'
  <2>1. nextCommitSeqNo \in Nat
    BY Zenon, <1>1 DEF SharedTypes
  <2>2. snapshot' \in [Readers -> Snapshots]
    BY ZenonT(40), <1>1, <1>2, <2>1 DEF ReaderTypes, Snapshots
  <2>3. rpc' \in [Readers -> {"idle", "pin", "set_xmin", "copy", "unpin", "read_csn", "ready",
                             "wait", "look_again"}]
    BY Zenon, <1>1, <1>2 DEF ReaderTypes
  <2> QED
    BY Zenon, <1>1, <1>2, <2>2, <2>3 DEF ReaderTypes
<1>5. /\ snapshot'[r] = [snapshot[r] EXCEPT !.csn = nextCommitSeqNo] /\ rpc'[r] = "ready"
      /\ \A q \in Readers \ {r} : snapshot'[q] = snapshot[q] /\ rpc'[q] = rpc[q]
  BY Zenon, <1>1, <1>2 DEF ReaderTypes
<1>6. ReaderMoves(r)
  BY Zenon, <1>2, <1>5 DEF ReaderMoves
<1>7. ReaderOK(r)'
  <2>1. snapshot'[r].csn = nextCommitSeqNo /\ snapshot'[r].xmin = snapshot[r].xmin
    BY <1>1, <1>5 DEF ReaderTypes, Snapshots
  <2>2. snapshot'[r].csn \in COMMITSEQNO_FIRST_NORMAL..nextCommitSeqNo
    BY <1>1, <2>1 DEF SharedTypes, COMMITSEQNO_FIRST_NORMAL
  <2>3. \A x \in Xids : answer[r][x] = "none"
    BY Zenon, <1>1, <1>2 DEF ReaderOK, HasSnapshot, NoAnswers
  <2> QED
    BY Zenon, <1>1, <1>2, <1>3, <1>5, <2>1, <2>2, <2>3
       DEF ReaderOK, SnapshotOK, CacheOK, AnswerOK, AllBefore, FinishedBefore, HasSnapshot, HorizonsOK
<1> QED
  BY Zenon, <1>4, <1>6, <1>7, ReaderMovesInv

(* The lock of the transaction that is asked about is free: it is finished *)
LEMMA SyncWaitXidEndInv ==
    ASSUME CutInv, NEW r \in Readers, SyncWaitXidEnd(r)
    PROVE  CutInv' /\ Onward
<1>1. ReaderTypes /\ ReaderOK(r) /\ HorizonsOK /\ SharedTypes
  BY Zenon DEF CutInv
<1>2. /\ rpc[r] = "wait" /\ \A w \in Writers : lockXid[w] # asked[r]
      /\ rpc' = [rpc EXCEPT ![r] = "look_again"]
      /\ UNCHANGED <<shmem, horizon, logs, writer, procArrayLock, globalxmin, snap, snapCurrent, snapNext,
                     xmin, snapxid, snapshot, held, cached, asked, answer>>
  BY Zenon DEF SyncWaitXidEnd, RGoto, ringVars
<1>3. /\ nextXid' = nextXid /\ nextCommitSeqNo' = nextCommitSeqNo /\ recentLocalXmin' = recentLocalXmin
      /\ csnlog' = csnlog /\ clog' = clog /\ xid' = xid /\ commitCSN' = commitCSN /\ wpc' = wpc
      /\ snap' = snap
  BY Zenon, <1>2 DEF shmem, horizon, logs, writer
<1>4. ReaderTypes'
  BY Zenon, <1>1, <1>2 DEF ReaderTypes
<1>5. /\ rpc'[r] = "look_again"
      /\ \A q \in Readers \ {r} : rpc'[q] = rpc[q]
  BY Zenon, <1>1, <1>2 DEF ReaderTypes
<1>6. ReaderMoves(r)
  BY Zenon, <1>2, <1>5 DEF ReaderMoves
<1>7. ReaderOK(r)'
  <2>1. asked[r] \in Xids /\ asked[r] < nextXid
    BY Zenon, <1>1, <1>2 DEF ReaderOK
  <2>2. \A w \in Writers : ~(xid[w] = asked[r] /\ wpc[w] \in Unfinished)
    BY Zenon, <1>2 DEF CutInv, WriterOK
  <2>3. Finished(csnlog[asked[r]], clog[asked[r]], nextCommitSeqNo)
    BY Zenon, <2>1, <2>2 DEF CutInv, XidsOK, FinishedBefore
  <2> QED
    BY Zenon, <1>1, <1>2, <1>3, <1>5, <2>1, <2>3
       DEF ReaderOK, SnapshotOK, CacheOK, AnswerOK, AllBefore, FinishedBefore, HasSnapshot
<1> QED
  BY Zenon, <1>4, <1>6, <1>7, ReaderMovesInv

(* The snapshot of a cursor is used, or put back *)
LEMMA SwitchSnapshotInv ==
    ASSUME CutInv, NEW r \in Readers, SwitchSnapshot(r)
    PROVE  CutInv' /\ Onward
<1>1. ReaderTypes /\ ReaderOK(r) /\ HorizonsOK /\ SharedTypes
  BY Zenon DEF CutInv
<1>2. /\ rpc[r] = "ready" /\ held[r] # NoSnapshot
      /\ held' = [held EXCEPT ![r] = snapshot[r]]
      /\ snapshot' = [snapshot EXCEPT ![r] = held[r]]
      /\ answer' = [answer EXCEPT ![r] = NoAnswers]
      /\ UNCHANGED <<shmem, horizon, logs, writer, procArrayLock, globalxmin, snap, snapCurrent, snapNext,
                     xmin, rpc, snapxid, cached, asked>>
  BY Zenon DEF SwitchSnapshot, RGoto, ringVars
<1>3. /\ nextXid' = nextXid /\ nextCommitSeqNo' = nextCommitSeqNo /\ recentLocalXmin' = recentLocalXmin
      /\ csnlog' = csnlog /\ clog' = clog /\ xid' = xid /\ commitCSN' = commitCSN /\ wpc' = wpc
      /\ snap' = snap
  BY Zenon, <1>2 DEF shmem, horizon, logs, writer
<1>4. ReaderTypes'
  BY Zenon, <1>1, <1>2 DEF ReaderTypes, NoAnswers
<1>5. /\ held'[r] = snapshot[r] /\ snapshot'[r] = held[r] /\ answer'[r] = NoAnswers
      /\ \A q \in Readers \ {r} : held'[q] = held[q] /\ snapshot'[q] = snapshot[q] /\ answer'[q] = answer[q]
  BY Zenon, <1>1, <1>2 DEF ReaderTypes
<1>6. ReaderMoves(r)
  BY Zenon, <1>2, <1>5 DEF ReaderMoves
<1>7. ReaderOK(r)'
  <2>1. \A x \in Xids : answer'[r][x] = "none"
    BY Zenon, <1>5 DEF NoAnswers
  <2> QED
    BY Zenon, <1>1, <1>2, <1>3, <1>5, <2>1
       DEF ReaderOK, SnapshotOK, CacheOK, AnswerOK, AllBefore, FinishedBefore, HasSnapshot
<1> QED
  BY Zenon, <1>4, <1>6, <1>7, ReaderMovesInv

(* A new statement takes a new snapshot, and may keep the old one *)
LEMMA NextStatementInv ==
    ASSUME CutInv, NEW r \in Readers, NEW cursor \in BOOLEAN, NextStatement(r, cursor)
    PROVE  CutInv' /\ Onward
<1>1. ReaderTypes /\ ReaderOK(r) /\ HorizonsOK /\ SharedTypes
  BY Zenon DEF CutInv
<1>2. /\ rpc[r] = "ready"
      /\ held' = [held EXCEPT ![r] = IF cursor THEN snapshot[r] ELSE @]
      /\ snapshot' = [snapshot EXCEPT ![r] = NoSnapshot]
      /\ answer' = [answer EXCEPT ![r] = NoAnswers]
      /\ snapxid' = [snapxid EXCEPT ![r] = snapCurrent]
      /\ rpc' = [rpc EXCEPT ![r] = "pin"]
      /\ UNCHANGED <<shmem, horizon, logs, writer, procArrayLock, globalxmin, snap, snapCurrent, snapNext,
                     xmin, cached, asked>>
  BY Zenon DEF NextStatement, RGoto, ringVars
<1>3. /\ nextXid' = nextXid /\ nextCommitSeqNo' = nextCommitSeqNo /\ recentLocalXmin' = recentLocalXmin
      /\ csnlog' = csnlog /\ clog' = clog /\ xid' = xid /\ commitCSN' = commitCSN /\ wpc' = wpc
      /\ snap' = snap
  BY Zenon, <1>2 DEF shmem, horizon, logs, writer
<1>4. ReaderTypes'
  <2>1. NoSnapshot \in Snapshots /\ NoAnswers \in [Xids -> {"none", "yes", "no"}]
    BY Zenon DEF NoSnapshot, Snapshots, NoAnswers
  <2>2. snapCurrent \in Ring
    BY Zenon, <1>1 DEF SharedTypes
  <2> QED
    BY Zenon, <1>1, <1>2, <2>1, <2>2 DEF ReaderTypes
<1>5. /\ held'[r] \in {held[r], snapshot[r]} /\ snapshot'[r] = NoSnapshot /\ answer'[r] = NoAnswers
      /\ snapxid'[r] = snapCurrent /\ rpc'[r] = "pin"
      /\ \A q \in Readers \ {r} : /\ held'[q] = held[q] /\ snapshot'[q] = snapshot[q] /\ answer'[q] = answer[q]
                                  /\ snapxid'[q] = snapxid[q] /\ rpc'[q] = rpc[q]
  BY Zenon, <1>1, <1>2 DEF ReaderTypes
<1>6. ReaderMoves(r)
  <2>1. xmin' = xmin /\ cached' = cached /\ asked' = asked
    BY Zenon, <1>2
  <2> QED
    BY Zenon, <1>2, <1>5, <2>1 DEF ReaderMoves
<1>7. ReaderOK(r)'
  <2>1. \A x \in Xids : answer'[r][x] = "none"
    BY Zenon, <1>5 DEF NoAnswers
  <2>2. held'[r] # NoSnapshot => xmin[r] # 0 /\ SnapshotOK(r, held'[r])
    BY Zenon, <1>1, <1>2, <1>5 DEF ReaderOK, HasSnapshot
  <2> QED
    BY Zenon, <1>1, <1>2, <1>3, <1>5, <2>1, <2>2
       DEF ReaderOK, SnapshotOK, CacheOK, AnswerOK, AllBefore, FinishedBefore, HasSnapshot, HorizonsOK
<1> QED
  BY Zenon, <1>4, <1>6, <1>7, ReaderMovesInv

(* The transaction of a reader ends, in order or with an error *)
LEMMA LeaveTransactionInv ==
    ASSUME CutInv, NEW r \in Readers, LeaveTransaction(r),
           UNCHANGED <<shmem, horizon, logs, writer, procArrayLock, globalxmin, ringVars, snapxid, cached>>
    PROVE  CutInv' /\ Onward
<1>1. ReaderTypes /\ ReaderOK(r) /\ SharedTypes
  BY Zenon DEF CutInv
<1>2. /\ xmin' = [xmin EXCEPT ![r] = 0] /\ rpc' = [rpc EXCEPT ![r] = "idle"]
      /\ snapshot' = [snapshot EXCEPT ![r] = NoSnapshot] /\ held' = [held EXCEPT ![r] = NoSnapshot]
      /\ answer' = [answer EXCEPT ![r] = NoAnswers] /\ asked' = [asked EXCEPT ![r] = 0]
      /\ UNCHANGED <<shmem, horizon, logs, writer, procArrayLock, globalxmin, snap, snapCurrent, snapNext,
                     snapxid, cached>>
  BY Zenon DEF LeaveTransaction, RGoto, ringVars, InvalidTransactionId
<1>3. /\ nextXid' = nextXid /\ nextCommitSeqNo' = nextCommitSeqNo /\ recentLocalXmin' = recentLocalXmin
      /\ csnlog' = csnlog /\ clog' = clog /\ xid' = xid /\ commitCSN' = commitCSN /\ wpc' = wpc
      /\ snap' = snap
  BY Zenon, <1>2 DEF shmem, horizon, logs, writer
<1>4. ReaderTypes'
  <2>1. NoSnapshot \in Snapshots /\ NoAnswers \in [Xids -> {"none", "yes", "no"}]
    BY Zenon DEF NoSnapshot, Snapshots, NoAnswers
  <2> QED
    BY Zenon, <1>1, <1>2, <2>1 DEF ReaderTypes
<1>5. /\ xmin'[r] = 0 /\ rpc'[r] = "idle" /\ snapshot'[r] = NoSnapshot /\ held'[r] = NoSnapshot
      /\ answer'[r] = NoAnswers /\ asked'[r] = 0
      /\ \A q \in Readers \ {r} : /\ xmin'[q] = xmin[q] /\ rpc'[q] = rpc[q] /\ snapshot'[q] = snapshot[q]
                                  /\ held'[q] = held[q] /\ answer'[q] = answer[q] /\ asked'[q] = asked[q]
  BY Zenon, <1>1, <1>2 DEF ReaderTypes
<1>6. ReaderMoves(r)
  <2>1. snapxid' = snapxid /\ cached' = cached
    BY Zenon, <1>2
  <2> QED
    BY Zenon, <1>2, <1>5, <2>1 DEF ReaderMoves
<1>7. ReaderOK(r)'
  <2>1. \A x \in Xids : answer'[r][x] = "none"
    BY Zenon, <1>5 DEF NoAnswers
  <2>2. FinishedUpTo(csnlog, clog, 0, nextCommitSeqNo) /\ 0 <= nextXid
    BY <1>1, SnapshotConstants DEF FinishedUpTo, Xids, SharedTypes
  <2> QED
    BY Zenon, <1>1, <1>2, <1>3, <1>5, <2>1, <2>2
       DEF ReaderOK, SnapshotOK, CacheOK, AnswerOK, AllBefore, FinishedBefore, HasSnapshot
<1> QED
  BY Zenon, <1>4, <1>6, <1>7, ReaderMovesInv

(* A reader caches what it has found *)
LEMMA RememberTypes ==
    ASSUME ReaderTypes, NEW r \in Readers, NEW x \in Nat, NEW e \in Entries, Remember(r, x, e)
    PROVE  /\ cached' \in [Readers -> [xid : Nat, entry : Entries]]
           /\ \A q \in Readers \ {r} : cached'[q] = cached[q]
           /\ IF e.status \in {"committed", "aborted"} THEN cached'[r] = [xid |-> x, entry |-> e]
              ELSE cached'[r] = cached[r]
  BY Zenon DEF ReaderTypes, Remember

(* The reader gets an answer about x, by the status e that is final for it *)
LEMMA AnswerInv ==
    ASSUME CutInv, NEW r \in Readers, HasSnapshot(r), NEW x \in Xids, NEW e, e = GetCommitSeqNo(r, x),
           ~MustWait(e, snapshot[r]), Remember(r, x, e),
           answer' = [answer EXCEPT ![r][x] = IF Visible(e, snapshot[r]) THEN "yes" ELSE "no"],
           rpc' = [rpc EXCEPT ![r] = "ready"], asked' \in [Readers -> Nat],
           \A q \in Readers \ {r} : asked'[q] = asked[q],
           UNCHANGED <<shmem, horizon, logs, writer, procArrayLock, globalxmin, snap, snapCurrent, snapNext,
                       xmin, snapxid, snapshot, held>>
    PROVE  CutInv' /\ Onward
<1>1. ReaderTypes /\ ReaderOK(r) /\ SharedTypes
  BY Zenon DEF CutInv
<1>2. /\ e \in Entries
      /\ e.status \in {"committed", "aborted"} => CacheOK([xid |-> x, entry |-> e])
      /\ Visible(e, snapshot[r]) => csnlog[x].status = "committed" /\ csnlog[x].csn < snapshot[r].csn
      /\ ~Visible(e, snapshot[r]) =>
            /\ csnlog[x].status = "committed" => csnlog[x].csn >= snapshot[r].csn
            /\ \A w \in Writers : xid[w] = x /\ wpc[w] \in HasCSN => commitCSN[w] >= snapshot[r].csn
  BY Zenon, StatusRight
<1>3. /\ nextXid' = nextXid /\ nextCommitSeqNo' = nextCommitSeqNo /\ recentLocalXmin' = recentLocalXmin
      /\ csnlog' = csnlog /\ clog' = clog /\ xid' = xid /\ commitCSN' = commitCSN /\ wpc' = wpc
      /\ snap' = snap /\ xmin' = xmin /\ snapxid' = snapxid /\ snapshot' = snapshot /\ held' = held
  BY Zenon DEF shmem, horizon, logs, writer
<1>4. /\ cached' \in [Readers -> [xid : Nat, entry : Entries]]
      /\ \A q \in Readers \ {r} : cached'[q] = cached[q]
      /\ IF e.status \in {"committed", "aborted"} THEN cached'[r] = [xid |-> x, entry |-> e]
         ELSE cached'[r] = cached[r]
  <2>1. x \in Nat
    BY SnapshotConstants DEF Xids
  <2> QED
    BY Zenon, <1>1, <1>2, <2>1, RememberTypes
<1>5. ReaderTypes'
  <2>1. answer' \in [Readers -> [Xids -> {"none", "yes", "no"}]]
    BY Zenon, <1>1 DEF ReaderTypes
  <2>2. rpc' \in [Readers -> {"idle", "pin", "set_xmin", "copy", "unpin", "read_csn", "ready",
                              "wait", "look_again"}]
    BY Zenon, <1>1 DEF ReaderTypes
  <2> QED
    BY Zenon, <1>1, <1>3, <1>4, <2>1, <2>2 DEF ReaderTypes
<1>6. /\ answer'[r][x] = IF Visible(e, snapshot[r]) THEN "yes" ELSE "no"
      /\ \A y \in Xids \ {x} : answer'[r][y] = answer[r][y]
      /\ rpc'[r] = "ready"
      /\ \A q \in Readers \ {r} : answer'[q] = answer[q] /\ rpc'[q] = rpc[q]
  BY Zenon, <1>1 DEF ReaderTypes
<1>7. ReaderMoves(r)
  BY Zenon, <1>3, <1>4, <1>6 DEF ReaderMoves
<1>8. ReaderOK(r)'
  <2>1. CacheOK(cached'[r])
    BY Zenon, <1>1, <1>2, <1>4 DEF ReaderOK
  <2>2. ASSUME NEW y \in Xids
        PROVE  AnswerOK(r, y)'
    <3>1. CASE y = x
      BY <1>2, <1>3, <1>6, <3>1 DEF AnswerOK
    <3>2. CASE y # x
      BY ZenonT(40), <1>1, <1>3, <1>6, <3>2 DEF ReaderOK, AnswerOK
    <3> QED
      BY Zenon, <3>1, <3>2
  <2>3. CacheOK(cached[r])'
    BY Zenon, <1>3, <2>1 DEF CacheOK, FinishedBefore
  <2> QED
    BY Zenon, <1>1, <1>3, <1>6, <2>2, <2>3
       DEF ReaderOK, SnapshotOK, AllBefore, HasSnapshot
<1> QED
  BY Zenon, <1>5, <1>7, <1>8, ReaderMovesInv

(* The first look: the reader answers, or waits for a transaction that has begun *)
LEMMA XidVisibleInSnapshotInv ==
    ASSUME CutInv, NEW r \in Readers, NEW x \in Xids, XidVisibleInSnapshot(r, x)
    PROVE  CutInv' /\ Onward
<1> DEFINE e == GetCommitSeqNo(r, x)
<1>1. ReaderTypes /\ ReaderOK(r) /\ SharedTypes
  BY Zenon DEF CutInv
<1>2. /\ rpc[r] = "ready" /\ x < nextXid /\ Remember(r, x, e)
      /\ UNCHANGED <<shmem, horizon, logs, writer, procArrayLock, globalxmin, snap, snapCurrent, snapNext,
                     xmin, snapxid, snapshot, held>>
  BY Zenon DEF XidVisibleInSnapshot, ringVars
<1>3. HasSnapshot(r) /\ e \in Entries
  <2>1. HasSnapshot(r)
    BY Zenon, <1>2 DEF HasSnapshot
  <2> QED
    BY Zenon, <2>1, StatusRight
<1>4. CASE MustWait(e, snapshot[r])
  <2>1. rpc' = [rpc EXCEPT ![r] = "wait"] /\ asked' = [asked EXCEPT ![r] = x] /\ answer' = answer
    BY Zenon, <1>4 DEF XidVisibleInSnapshot, RGoto
  <2>2. x \in Nat /\ e.status \notin {"committed", "aborted"}
    BY <1>4, SnapshotConstants DEF Xids, MustWait
  <2> HIDE DEF e
  <2>3. cached' \in [Readers -> [xid : Nat, entry : Entries]] /\ \A q \in Readers : cached'[q] = cached[q]
    BY Zenon, <1>1, <1>2, <1>3, <2>2, RememberTypes
  <2>4. ReaderTypes'
    <3>1. rpc' \in [Readers -> {"idle", "pin", "set_xmin", "copy", "unpin", "read_csn", "ready",
                                "wait", "look_again"}] /\ asked' \in [Readers -> Nat]
      BY Zenon, <1>1, <2>1, <2>2 DEF ReaderTypes
    <3> QED
      BY Zenon, <1>1, <1>2, <2>1, <2>3, <3>1 DEF ReaderTypes
  <2>5. /\ rpc'[r] = "wait" /\ asked'[r] = x
        /\ \A q \in Readers \ {r} : rpc'[q] = rpc[q] /\ asked'[q] = asked[q]
    BY Zenon, <1>1, <2>1 DEF ReaderTypes
  <2>6. ReaderMoves(r)
    <3>1. xmin' = xmin /\ snapxid' = snapxid /\ snapshot' = snapshot /\ held' = held
      BY Zenon, <1>2
    <3> QED
      BY Zenon, <1>2, <2>1, <2>3, <2>5, <3>1 DEF ReaderMoves
  <2>7. /\ nextXid' = nextXid /\ nextCommitSeqNo' = nextCommitSeqNo /\ recentLocalXmin' = recentLocalXmin
        /\ csnlog' = csnlog /\ clog' = clog /\ xid' = xid /\ commitCSN' = commitCSN /\ wpc' = wpc
        /\ snap' = snap /\ xmin' = xmin /\ snapxid' = snapxid /\ snapshot' = snapshot /\ held' = held
    BY Zenon, <1>2 DEF shmem, horizon, logs, writer
  <2>8. ReaderOK(r)'
    BY Zenon, <1>1, <1>2, <2>1, <2>3, <2>5, <2>7
       DEF ReaderOK, SnapshotOK, CacheOK, AnswerOK, AllBefore, FinishedBefore, HasSnapshot
  <2> QED
    BY Zenon, <2>4, <2>6, <2>8, ReaderMovesInv
<1>5. CASE ~MustWait(e, snapshot[r])
  <2>1. /\ answer' = [answer EXCEPT ![r][x] = IF Visible(e, snapshot[r]) THEN "yes" ELSE "no"]
        /\ rpc' = rpc /\ asked' = asked
    BY Zenon, <1>5 DEF XidVisibleInSnapshot
  <2> HIDE DEF e
  <2>2. rpc' = [rpc EXCEPT ![r] = "ready"] /\ asked' \in [Readers -> Nat]
    BY Zenon, <1>1, <1>2, <2>1 DEF ReaderTypes
  <2> USE DEF e
  <2> QED
    BY Zenon, <1>2, <1>3, <1>5, <2>1, <2>2, AnswerInv
<1> QED
  BY Zenon, <1>4, <1>5

(* When the wait is over the status is final ... *)
LEMMA StatusFinal ==
    ASSUME CutInv, NEW r \in Readers, rpc[r] = "look_again"
    PROVE  /\ HasSnapshot(r) /\ asked[r] \in Xids
           /\ GetCommitSeqNo(r, asked[r]).status \in {"committed", "aborted"}
<1>1. asked[r] \in Xids /\ FinishedBefore(asked[r], nextCommitSeqNo)
  BY Zenon DEF CutInv, ReaderOK
<1>2. HasSnapshot(r)
  BY Zenon DEF HasSnapshot
<1> QED
  BY Zenon, <1>1, <1>2, StatusRight

(* ... and the second look changes nothing in the csnlog *)
LEMMA LookAgainInv ==
    ASSUME CutInv, NEW r \in Readers, LookAgain(r)
    PROVE  CutInv' /\ Onward
<1> DEFINE x == asked[r]
           e == GetCommitSeqNo(r, x)
<1>1. /\ rpc[r] = "look_again" /\ Remember(r, x, e)
      /\ csnlog' = IF e.status = "committing" THEN [csnlog EXCEPT ![x] = Aborted] ELSE csnlog
      /\ answer' = [answer EXCEPT ![r][x] = IF Visible(e, snapshot[r]) THEN "yes" ELSE "no"]
      /\ asked' = [asked EXCEPT ![r] = 0] /\ rpc' = [rpc EXCEPT ![r] = "ready"]
      /\ UNCHANGED <<shmem, horizon, clog, writer, procArrayLock, globalxmin, snap, snapCurrent, snapNext,
                     xmin, snapxid, snapshot, held>>
  BY Zenon DEF LookAgain, RGoto, ringVars
<1>2. HasSnapshot(r) /\ x \in Xids /\ e.status \in {"committed", "aborted"}
  BY Zenon, <1>1, StatusFinal
<1>3. UNCHANGED logs /\ ~MustWait(e, snapshot[r])
  <2>1. e.status # "committing"
    BY Zenon, <1>2
  <2> QED
    BY Zenon, <1>1, <2>1 DEF logs, MustWait
<1>4. asked' \in [Readers -> Nat] /\ \A q \in Readers \ {r} : asked'[q] = asked[q]
  <2>1. asked \in [Readers -> Nat]
    BY Zenon DEF CutInv, ReaderTypes
  <2> QED
    BY Zenon, <1>1, <2>1
<1> QED
  BY Zenon, <1>1, <1>2, <1>3, <1>4, AnswerInv

-----------------------------------------------------------------------------
(* Commits, the horizon and the theorems *)

(* Lowest is the minimum of any set of numbers that is not empty *)
LEMMA LowestIs ==
    ASSUME NEW S, S \subseteq Nat, S # {}
    PROVE  Lowest(S) \in S /\ \A y \in S : Lowest(S) <= y
<1> DEFINE R == OpToRel(<, Nat)
<1>1. IsWellFoundedOn(R, Nat)
  BY Zenon, NatLessThanWellFounded
<1>2. \A x, y \in Nat : <<x, y>> \in R <=> x < y
  BY Zenon DEF OpToRel
<1> HIDE DEF R
<1>3. \E x \in S : \A y \in S : <<y, x>> \notin R
  BY ONLY Zenon, WFMin, <1>1, S \subseteq Nat, S # {}
<1>4. PICK x \in S : \A y \in S : <<y, x>> \notin R
  BY Zenon, <1>3
<1>5. \A y \in S : ~(y < x)
  BY Zenon, <1>2, <1>4
<1>6. \A y \in S : x <= y
  BY <1>5
<1> QED
  BY Zenon, <1>6 DEF Lowest

-----------------------------------------------------------------------------
(* Steps of a writer whose transaction is finished *)

(* Such a step changes no status, and shared memory only under ProcArrayLock *)
CalcStep(w) ==
    /\ wpc[w] \notin Unfinished /\ wpc'[w] \notin Unfinished
    /\ \A v \in Writers \ {w} : /\ xid'[v] = xid[v] /\ lockXid'[v] = lockXid[v]
                                /\ wpc'[v] = wpc[v] /\ commitCSN'[v] = commitCSN[v]
    /\ lockXid'[w] \in {0, lockXid[w]}
    /\ \/ UNCHANGED <<procArrayLock, globalxmin, snap, snapNext>>
       \/ procArrayLock \in {Nobody, w} /\ procArrayLock' \in {Nobody, w}
    /\ UNCHANGED <<nextXid, nextCommitSeqNo, csnlog, clog, reader>>

(* Such a step undoes nothing ... *)
LEMMA CalcStepOnward ==
    ASSUME SharedTypes, NEW w \in Writers, CalcStep(w)
    PROVE  Onward
<1>1. nextXid <= nextXid' /\ nextCommitSeqNo <= nextCommitSeqNo'
  BY DEF CalcStep, SharedTypes
<1>2. wpc'[w] \notin HasCSN
  BY Zenon DEF CalcStep, HasCSN, Unfinished
<1> QED
  BY ZenonT(40), <1>1, <1>2 DEF Onward, CalcStep

(* ... and preserves the invariant, if it does for its writer and for the horizons *)
LEMMA CalcStepInv ==
    ASSUME CutInv, NEW w \in Writers, CalcStep(w), SharedTypes', WriterTypes', WriterOK(w)', HorizonsOK',
           \A r \in Readers :
              recentLocalXmin' = recentLocalXmin \/ (xmin[r] # 0 => recentLocalXmin' <= xmin[r]),
           \A i \in Ring : snap[i].xmin # 0 => snap'[i].xmin # 0
    PROVE  CutInv' /\ Onward
<1>1. SharedTypes /\ WriterTypes /\ ReaderTypes /\ XidsOK
  BY Zenon DEF CutInv
<1>2. Onward
  BY Zenon, <1>1, CalcStepOnward
<1>3. ReaderTypes'
  BY Zenon, <1>1 DEF ReaderTypes, CalcStep, reader
<1>4. \A r \in Readers : ReaderOK(r)'
  BY Zenon, <1>1, <1>2, ReaderFrame DEF CutInv, CalcStep
<1>5. ASSUME NEW v \in Writers, v # w
      PROVE  WriterOK(v)'
  <2>1. WriterOK(v)
    BY Zenon DEF CutInv
  <2>2. /\ xid'[v] = xid[v] /\ lockXid'[v] = lockXid[v] /\ wpc'[v] = wpc[v] /\ commitCSN'[v] = commitCSN[v]
        /\ nextXid' = nextXid /\ nextCommitSeqNo' = nextCommitSeqNo /\ csnlog' = csnlog /\ clog' = clog
    BY Zenon, <1>5 DEF CalcStep
  <2>3. CASE UNCHANGED <<procArrayLock, globalxmin, snap, snapNext>>
    BY ZenonT(60), <2>1, <2>2, <2>3 DEF WriterOK
  <2>4. CASE procArrayLock \in {Nobody, w} /\ procArrayLock' \in {Nobody, w}
    <3>1. procArrayLock # v /\ procArrayLock' # v
      BY Zenon, <1>5, <2>4, SnapshotConstants
    <3>2. wpc[v] \notin Calculating /\ wpc[v] # "scan_procs" /\ wpc[v] # "publish"
      BY Zenon, <2>1, <3>1 DEF WriterOK, Calculating
    <3> QED
      BY Zenon, <2>1, <2>2, <3>1, <3>2 DEF WriterOK
  <2> QED
    BY Zenon, <2>3, <2>4 DEF CalcStep
<1>6. XidsOK'
  <2>1. \A u, v \in Writers : u # v => lockXid'[u] = 0 \/ lockXid'[u] # lockXid'[v]
    <3>1. \A u \in Writers : lockXid'[u] = 0 \/ lockXid'[u] = lockXid[u]
      BY Zenon DEF CalcStep
    <3> QED
      BY Zenon, <1>1, <3>1 DEF XidsOK
  <2>2. \A v \in Writers : wpc[v] \in Unfinished => xid'[v] = xid[v] /\ wpc'[v] = wpc[v]
    BY Zenon DEF CalcStep
  <2>3. nextXid' = nextXid /\ nextCommitSeqNo' = nextCommitSeqNo /\ csnlog' = csnlog /\ clog' = clog
    BY Zenon DEF CalcStep
  <2> QED
    BY Zenon, <1>1, <2>1, <2>2, <2>3 DEF XidsOK, FinishedBefore
<1> QED
  BY Zenon, <1>2, <1>3, <1>4, <1>5, <1>6 DEF CutInv

(* The transaction leaves the proc array *)
LEMMA ProcArrayEndTransactionInv ==
    ASSUME CutInv, NEW w \in Writers, ProcArrayEndTransaction(w)
    PROVE  CutInv' /\ Onward
<1>1. SharedTypes /\ WriterTypes /\ WriterOK(w) /\ HorizonsOK
  BY Zenon DEF CutInv
<1>2. /\ wpc[w] = "end" /\ wpc' = [wpc EXCEPT ![w] = "calculate"]
      /\ procArrayLock = Nobody /\ procArrayLock' = w
      /\ xid' = [xid EXCEPT ![w] = 0] /\ commitCSN' = [commitCSN EXCEPT ![w] = 0]
      /\ latestCompletedXid' = IF latestCompletedXid < xid[w] THEN xid[w] ELSE latestCompletedXid
      /\ UNCHANGED <<nextXid, nextCommitSeqNo, shmemXmin, recentLocalXmin, csnlog, clog, lockXid,
                     globalxmin, snap, snapCurrent, snapNext, reader>>
  BY Zenon DEF ProcArrayEndTransaction, WGoto, horizon, logs, ringVars
<1>3. xid[w] \in Nat /\ xid[w] \in Xids /\ xid[w] < nextXid /\ lockXid[w] = xid[w]
  BY Zenon, <1>1, <1>2 DEF WriterOK, WriterTypes
<1>4. /\ latestCompletedXid' \in Nat /\ latestCompletedXid' >= latestCompletedXid
      /\ latestCompletedXid' < nextXid /\ latestCompletedXid \in Nat /\ nextXid \in Nat
  BY SMTT(20), <1>1, <1>2, <1>3 DEF HorizonsOK, SharedTypes
<1>5. SharedTypes' /\ WriterTypes'
  <2>1. SharedTypes'
    BY Zenon, <1>1, <1>2, <1>4 DEF SharedTypes
  <2>2. WriterTypes'
    BY Zenon, <1>1, <1>2 DEF WriterTypes, Calculating
  <2> QED
    BY Zenon, <2>1, <2>2
<1>6. /\ wpc'[w] = "calculate" /\ xid'[w] = 0 /\ commitCSN'[w] = 0
      /\ \A v \in Writers \ {w} : wpc'[v] = wpc[v] /\ xid'[v] = xid[v] /\ commitCSN'[v] = commitCSN[v]
  BY Zenon, <1>1, <1>2 DEF WriterTypes
<1>7. CalcStep(w)
  BY Zenon, <1>2, <1>6 DEF CalcStep, Unfinished
<1>8. WriterOK(w)'
  BY Zenon, <1>1, <1>2, <1>3, <1>6 DEF WriterOK, Unfinished, Calculating
<1>9. HorizonsOK'
  <2>1. shmemXmin \in 1..latestCompletedXid' + 1
    <3>1. shmemXmin \in 1..latestCompletedXid + 1
      BY Zenon, <1>1 DEF HorizonsOK
    <3>2. \A c, d \in Nat : d >= c => 1..c + 1 \subseteq 1..d + 1
      OBVIOUS
    <3> QED
      BY Zenon, <1>4, <3>1, <3>2
  <2> QED
    BY Zenon, <1>1, <1>2, <1>4, <2>1 DEF HorizonsOK, AllBefore
<1> QED
  BY Zenon, <1>2, <1>5, <1>7, <1>8, <1>9, CalcStepInv

(* The lock of the transaction is given back *)
LEMMA ReleaseXidLockInv ==
    ASSUME CutInv, NEW w \in Writers, ReleaseXidLock(w)
    PROVE  CutInv' /\ Onward
<1>1. SharedTypes /\ WriterTypes /\ WriterOK(w) /\ HorizonsOK
  BY Zenon DEF CutInv
<1>2. /\ wpc[w] = "unlock" /\ wpc' = [wpc EXCEPT ![w] = "idle"] /\ lockXid' = [lockXid EXCEPT ![w] = 0]
      /\ UNCHANGED <<nextXid, nextCommitSeqNo, latestCompletedXid, shmemXmin, recentLocalXmin, csnlog, clog,
                     xid, commitCSN, procArrayLock, globalxmin, snap, snapCurrent, snapNext, reader>>
  BY Zenon DEF ReleaseXidLock, WGoto, shmem, horizon, logs, ringVars
<1>3. SharedTypes' /\ WriterTypes'
  <2>1. SharedTypes'
    BY Zenon, <1>1, <1>2 DEF SharedTypes
  <2>2. WriterTypes'
    BY Zenon, <1>1, <1>2 DEF WriterTypes
  <2> QED
    BY Zenon, <2>1, <2>2
<1>4. /\ wpc'[w] = "idle" /\ lockXid'[w] = 0
      /\ \A v \in Writers \ {w} : wpc'[v] = wpc[v] /\ lockXid'[v] = lockXid[v]
  BY Zenon, <1>1, <1>2 DEF WriterTypes
<1>5. CalcStep(w)
  BY Zenon, <1>2, <1>4 DEF CalcStep, Unfinished
<1>6. WriterOK(w)'
  BY Zenon, <1>1, <1>2, <1>4 DEF WriterOK, Unfinished, Calculating
<1>7. HorizonsOK'
  BY Zenon, <1>1, <1>2 DEF HorizonsOK, AllBefore
<1> QED
  BY Zenon, <1>2, <1>3, <1>5, <1>6, <1>7, CalcStepInv

(* The steps of CalculateLocalLatestSnapshot *)
LEMMA CalculationInv ==
    ASSUME CutInv, NEW w \in Writers, wpc[w] \in Calculating,
           NEW to \in Calculating \cup {"unlock"}, wpc' = [wpc EXCEPT ![w] = to],
           procArrayLock' = IF to = "unlock" THEN Nobody ELSE w,
           UNCHANGED <<nextXid, nextCommitSeqNo, csnlog, clog, xid, lockXid, commitCSN, reader>>,
           SharedTypes', HorizonsOK',
           to = "scan_procs" => globalxmin' # 0, to = "publish" => snap'[snapNext'].xmin # 0,
           \A r \in Readers :
              recentLocalXmin' = recentLocalXmin \/ (xmin[r] # 0 => recentLocalXmin' <= xmin[r]),
           \A i \in Ring : snap[i].xmin # 0 => snap'[i].xmin # 0
    PROVE  CutInv' /\ Onward
<1>1. WriterTypes /\ WriterOK(w)
  BY Zenon DEF CutInv
<1>2. procArrayLock = w
  BY Zenon, <1>1 DEF WriterOK
<1>3. WriterTypes'
  BY Zenon, <1>1, <1>2 DEF WriterTypes
<1>4. wpc'[w] = to /\ \A v \in Writers \ {w} : wpc'[v] = wpc[v]
  BY Zenon, <1>1 DEF WriterTypes
<1>5. wpc[w] \notin Unfinished /\ to \notin Unfinished
  BY Zenon DEF Unfinished, Calculating
<1>6. CalcStep(w)
  BY Zenon, <1>2, <1>4, <1>5 DEF CalcStep
<1>7. WriterOK(w)'
  <2>1. to \in Calculating <=> procArrayLock' = w
    BY Zenon, SnapshotConstants DEF Calculating
  <2>2. to \notin {"idle", "end", "running", "mark", "take_csn", "commit_clog", "commit_csnlog"}
    BY Zenon DEF Calculating
  <2> QED
    BY Zenon, <1>1, <1>4, <1>5, <2>1, <2>2 DEF WriterOK
<1> QED
  BY Zenon, <1>3, <1>6, <1>7, CalcStepInv

(* The ring is scanned, ... *)
LEMMA ScanRingInv ==
    ASSUME CutInv, NEW w \in Writers, ScanRing(w)
    PROVE  CutInv' /\ Onward
<1> DEFINE mins == {xmax} \cup ({snap[i].xmin : i \in {snapCurrent} \cup {j \in Ring : refcnt[j] > 0}} \ {0})
<1>1. SharedTypes /\ HorizonsOK /\ WriterTypes /\ WriterOK(w)
  BY Zenon DEF CutInv
<1>2. /\ wpc[w] = "calculate" /\ wpc' = [wpc EXCEPT ![w] = "scan_procs"] /\ globalxmin' = Lowest(mins)
      /\ UNCHANGED <<nextXid, nextCommitSeqNo, latestCompletedXid, shmemXmin, recentLocalXmin, csnlog, clog,
                     xid, lockXid, commitCSN, procArrayLock, snap, snapCurrent, snapNext, reader>>
  BY Zenon DEF ScanRing, WGoto, shmem, horizon, logs, ringVars
<1>3. mins \subseteq Nat \ {0} /\ mins # {}
  BY <1>1 DEF SharedTypes, xmax
<1> HIDE DEF mins
<1>4. Lowest(mins) \in Nat /\ Lowest(mins) # 0
  BY Zenon, <1>3, LowestIs
<1>5. SharedTypes' /\ HorizonsOK'
  BY Zenon, <1>1, <1>2, <1>4 DEF SharedTypes, HorizonsOK, AllBefore
<1>6. procArrayLock' = w
  BY Zenon, <1>1, <1>2 DEF WriterOK, Calculating
<1> QED
  BY Zenon, <1>2, <1>4, <1>5, <1>6, CalculationInv DEF Calculating

(* ... or the last xmin is used again; *)
LEMMA DeferCalculationInv ==
    ASSUME CutInv, NEW w \in Writers, DeferCalculation(w)
    PROVE  CutInv' /\ Onward
<1>1. SharedTypes /\ HorizonsOK /\ WriterTypes /\ WriterOK(w)
  BY Zenon DEF CutInv
<1>2. /\ wpc[w] = "calculate" /\ wpc' = [wpc EXCEPT ![w] = "store"]
      /\ UNCHANGED <<nextXid, nextCommitSeqNo, latestCompletedXid, shmemXmin, recentLocalXmin, csnlog, clog,
                     xid, lockXid, commitCSN, procArrayLock, globalxmin, snap, snapCurrent, snapNext, reader>>
  BY Zenon DEF DeferCalculation, WGoto, shmem, horizon, logs, ringVars
<1>3. SharedTypes' /\ HorizonsOK'
  BY Zenon, <1>1, <1>2 DEF SharedTypes, HorizonsOK, AllBefore
<1>4. procArrayLock' = w
  BY Zenon, <1>1, <1>2 DEF WriterOK, Calculating
<1> QED
  BY Zenon, <1>2, <1>3, <1>4, CalculationInv DEF Calculating

(* the proc array is scanned: what precedes the oldest xid in it is finished, and the *)
(* horizon is behind the xmin of every reader;                                        *)
LEMMA ScanProcsInv ==
    ASSUME CutInv, NEW w \in Writers, ScanProcs(w)
    PROVE  CutInv' /\ Onward
<1> DEFINE running == {xid[v] : v \in Writers} \cap 1..xmax - 1
           xids == {xmax} \cup running
           mins == {globalxmin, Lowest(xids)} \cup ({xmin[r] : r \in Readers} \ {0})
<1>1. SharedTypes /\ HorizonsOK /\ WriterTypes /\ WriterOK(w) /\ ReaderTypes /\ XidsOK
  BY Zenon DEF CutInv
<1>2. /\ wpc[w] = "scan_procs" /\ wpc' = [wpc EXCEPT ![w] = "store"]
      /\ shmemXmin' = Lowest(xids) /\ recentLocalXmin' = Lowest(mins) /\ globalxmin' = 0
      /\ UNCHANGED <<nextXid, nextCommitSeqNo, latestCompletedXid, csnlog, clog,
                     xid, lockXid, commitCSN, procArrayLock, snap, snapCurrent, snapNext, reader>>
  BY Zenon DEF ScanProcs, WGoto, shmem, logs, ringVars
<1>3. xmax \in Nat /\ xmax # 0 /\ xmax <= nextXid /\ nextXid \in Nat
  BY <1>1 DEF SharedTypes, HorizonsOK, xmax
<1>4. xids \subseteq Nat \ {0} /\ xmax \in xids
  BY <1>3
<1>5. Lowest(xids) \in 1..xmax /\ \A x \in running : Lowest(xids) <= x
  <2>1. Lowest(xids) \in xids /\ \A x \in xids : Lowest(xids) <= x
    BY Zenon, <1>4, LowestIs
  <2> QED
    BY <1>3, <1>4, <2>1
<1>6. mins \subseteq Nat \ {0} /\ Lowest(xids) \in mins
  <2>1. globalxmin \in Nat /\ globalxmin # 0
    BY Zenon, <1>1, <1>2 DEF WriterOK, SharedTypes
  <2>2. \A r \in Readers : xmin[r] \in Nat
    BY Zenon, <1>1 DEF ReaderTypes
  <2>3. Lowest(xids) \in Nat /\ Lowest(xids) # 0
    BY <1>3, <1>5
  <2> HIDE DEF xids
  <2> QED
    BY Zenon, <2>1, <2>2, <2>3
<1>7. Lowest(mins) \in 1..Lowest(xids) /\ \A r \in Readers : xmin[r] # 0 => Lowest(mins) <= xmin[r]
  <2>1. Lowest(mins) \in mins /\ \A x \in mins : Lowest(mins) <= x
    BY Zenon, <1>6, LowestIs
  <2>2. \A r \in Readers : xmin[r] # 0 => xmin[r] \in mins
    BY Zenon
  <2> HIDE DEF mins, xids
  <2>3. Lowest(mins) \in Nat \ {0} /\ Lowest(xids) \in Nat /\ Lowest(mins) <= Lowest(xids)
    BY Zenon, <1>6, <2>1
  <2>4. Lowest(mins) \in 1..Lowest(xids)
    BY <2>3
  <2> QED
    BY Zenon, <2>1, <2>2, <2>4
<1>8. ASSUME NEW x \in Xids, x < Lowest(xids)
      PROVE  Finished(csnlog[x], clog[x], nextCommitSeqNo)
  <2>1. x \in 1..xmax - 1 /\ x < nextXid
    BY SMTT(20), <1>3, <1>5, <1>8, SnapshotConstants DEF Xids
  <2>2. x \notin running
    BY <1>5, <1>8, <2>1
  <2>3. \A v \in Writers : xid[v] # x
    BY Zenon, <2>1, <2>2
  <2> QED
    BY Zenon, <1>1, <2>1, <2>3 DEF XidsOK, FinishedBefore
<1> HIDE DEF mins, xids, running
<1>9. SharedTypes'
  <2>1. Lowest(xids) \in Nat /\ Lowest(mins) \in Nat
    BY <1>5, <1>7
  <2> QED
    BY Zenon, <1>1, <1>2, <2>1 DEF SharedTypes
<1>10. HorizonsOK'
  <2>1. Lowest(xids) \in 1..latestCompletedXid + 1 /\ Lowest(mins) \in 1..nextXid
    BY <1>3, <1>5, <1>7 DEF xmax
  <2>2. FinishedUpTo(csnlog, clog, Lowest(xids), nextCommitSeqNo)
    BY Zenon, <1>8 DEF FinishedUpTo
  <2>3. \A x \in Xids : x < Lowest(mins) => x < Lowest(xids)
    BY <1>5, <1>7, SnapshotConstants DEF Xids
  <2>4. FinishedUpTo(csnlog, clog, Lowest(mins), nextCommitSeqNo)
    BY Zenon, <2>2, <2>3 DEF FinishedUpTo
  <2> QED
    BY Zenon, <1>1, <1>2, <2>1, <2>2, <2>4 DEF HorizonsOK, AllBefore
<1>11. procArrayLock' = w
  BY Zenon, <1>1, <1>2 DEF WriterOK, Calculating
<1> QED
  BY Zenon, <1>2, <1>7, <1>9, <1>10, <1>11, CalculationInv DEF Calculating

(* the snapshot is stored ... *)
LEMMA StoreSnapshotInv ==
    ASSUME CutInv, NEW w \in Writers, StoreSnapshot(w)
    PROVE  CutInv' /\ Onward
<1>1. SharedTypes /\ HorizonsOK /\ WriterTypes /\ WriterOK(w)
  BY Zenon DEF CutInv
<1>2. /\ wpc[w] = "store" /\ wpc' = [wpc EXCEPT ![w] = "publish"]
      /\ snap' = [snap EXCEPT ![snapNext] = [xmin |-> shmemXmin, localxmin |-> recentLocalXmin]]
      /\ UNCHANGED <<nextXid, nextCommitSeqNo, latestCompletedXid, shmemXmin, recentLocalXmin, csnlog, clog,
                     xid, lockXid, commitCSN, procArrayLock, globalxmin, snapCurrent, snapNext, reader>>
  BY Zenon DEF StoreSnapshot, WGoto, shmem, horizon, logs
<1>3. SharedTypes'
  BY Zenon, <1>1, <1>2 DEF SharedTypes
<1>4. /\ \A i \in Ring : snap'[i].xmin = snap[i].xmin \/ snap'[i].xmin = shmemXmin
      /\ snap'[snapNext].xmin = shmemXmin
  BY Zenon, <1>1, <1>2 DEF SharedTypes
<1>5. shmemXmin # 0 /\ shmemXmin <= nextXid
  BY <1>1 DEF SharedTypes, HorizonsOK
<1>6. snapCurrent \in Ring
  BY Zenon, <1>1 DEF SharedTypes
<1>7. HorizonsOK'
  BY Zenon, <1>1, <1>2, <1>4, <1>5, <1>6 DEF HorizonsOK, AllBefore
<1>8. procArrayLock' = w
  BY Zenon, <1>1, <1>2 DEF WriterOK, Calculating
<1>9. \A i \in Ring : snap[i].xmin # 0 => snap'[i].xmin # 0
  BY Zenon, <1>4, <1>5
<1> QED
  BY ZenonT(40), <1>2, <1>3, <1>4, <1>5, <1>7, <1>8, <1>9, CalculationInv DEF Calculating

(* ... and published, ... *)
LEMMA PublishSnapshotInv ==
    ASSUME CutInv, NEW w \in Writers, PublishSnapshot(w)
    PROVE  CutInv' /\ Onward
<1>1. SharedTypes /\ HorizonsOK /\ WriterTypes /\ WriterOK(w)
  BY Zenon DEF CutInv
<1>2. /\ wpc[w] = "publish" /\ wpc' = [wpc EXCEPT ![w] = "find_next"] /\ snapCurrent' = snapNext
      /\ UNCHANGED <<nextXid, nextCommitSeqNo, latestCompletedXid, shmemXmin, recentLocalXmin, csnlog, clog,
                     xid, lockXid, commitCSN, procArrayLock, globalxmin, snap, snapNext, reader>>
  BY Zenon DEF PublishSnapshot, WGoto, shmem, horizon, logs
<1>3. SharedTypes'
  BY Zenon, <1>1, <1>2 DEF SharedTypes
<1>4. snap[snapNext].xmin # 0
  BY Zenon, <1>1, <1>2 DEF WriterOK
<1>5. HorizonsOK'
  BY Zenon, <1>1, <1>2, <1>4 DEF HorizonsOK, AllBefore
<1>6. procArrayLock' = w
  BY Zenon, <1>1, <1>2 DEF WriterOK, Calculating
<1> QED
  BY Zenon, <1>2, <1>3, <1>5, <1>6, CalculationInv DEF Calculating

(* A slot of the ring, counted from the current one *)
LEMMA BehindInRing ==
    ASSUME SharedTypes, NEW i \in Nat
    PROVE  Behind(i) \in Ring
<1>1. snapCurrent \in Nat
  BY RingHasNext DEF SharedTypes, Ring
<1>2. \A k \in Nat : k % MaxNumSnapVersion \in 0..MaxNumSnapVersion - 1
  BY RingHasNext
<1>3. snapCurrent + i \in Nat
  BY <1>1
<1> QED
  BY Zenon, <1>2, <1>3 DEF Behind, Ring

(* ... and the next slot is looked for *)
LEMMA SetNextSnapXidInv ==
    ASSUME CutInv, nofindCount \in Nat, NEW w \in Writers, SetNextSnapXid(w)
    PROVE  CutInv' /\ Onward
<1> DEFINE slot == Behind(nofindCount + 1)
<1>1. SharedTypes /\ HorizonsOK /\ WriterTypes /\ WriterOK(w)
  BY Zenon DEF CutInv
<1>2. /\ wpc[w] = "find_next"
      /\ UNCHANGED <<nextXid, nextCommitSeqNo, latestCompletedXid, shmemXmin, recentLocalXmin, csnlog, clog,
                     xid, lockXid, commitCSN, globalxmin, snap, snapCurrent, reader>>
  BY Zenon DEF SetNextSnapXid, shmem, horizon, logs
<1>3. slot \in Ring
  BY BehindInRing, <1>1
<1>4. \/ snapNext' = slot /\ procArrayLock' = Nobody /\ wpc' = [wpc EXCEPT ![w] = "unlock"]
      \/ /\ snapNext' = snapNext /\ procArrayLock' = procArrayLock
         /\ wpc' = [wpc EXCEPT ![w] = "panic"] \/ wpc' = [wpc EXCEPT ![w] = "find_next"]
  BY Zenon DEF SetNextSnapXid, WGoto
<1> HIDE DEF slot
<1>5. SharedTypes'
  BY Zenon, <1>1, <1>2, <1>3, <1>4 DEF SharedTypes
<1>6. HorizonsOK'
  BY Zenon, <1>1, <1>2 DEF HorizonsOK, AllBefore
<1>7. procArrayLock = w
  BY Zenon, <1>1, <1>2 DEF WriterOK, Calculating
<1>8. CASE procArrayLock' = Nobody /\ wpc' = [wpc EXCEPT ![w] = "unlock"]
  BY Zenon, <1>2, <1>5, <1>6, <1>8, CalculationInv DEF Calculating
<1>9. CASE procArrayLock' = w /\ wpc' = [wpc EXCEPT ![w] = "panic"]
  BY Zenon, <1>2, <1>5, <1>6, <1>9, CalculationInv DEF Calculating
<1>10. CASE procArrayLock' = w /\ wpc' = [wpc EXCEPT ![w] = "find_next"]
  BY Zenon, <1>2, <1>5, <1>6, <1>10, CalculationInv DEF Calculating
<1> QED
  BY Zenon, <1>4, <1>7, <1>8, <1>9, <1>10

-----------------------------------------------------------------------------
(* All steps *)

(* The initial state *)
LEMMA InitCut == Init => CutInv
<1> SUFFICES ASSUME Init
             PROVE  CutInv
  OBVIOUS
<1>1. SharedTypes
  <2>1. 2 % MaxNumSnapVersion \in Ring /\ 1 \in Ring /\ 0 \in Ring
    BY SMTT(20), RingHasNext DEF Ring
  <2>2. nextXid = 1 /\ 1 \in 1..MaxXid + 1
    BY SnapshotConstants DEF Init
  <2> QED
    BY <2>1, <2>2 DEF Init, SharedTypes, Entries, Inprogress, COMMITSEQNO_FIRST_NORMAL
<1>2. WriterTypes
  BY Zenon DEF Init, WriterTypes
<1>3. ReaderTypes
  <2>1. 0 \in Ring
    BY RingHasNext DEF Ring
  <2> QED
    BY Zenon, <2>1 DEF Init, ReaderTypes, Snapshots, NoSnapshot, NothingCached, Entries, Inprogress, NoAnswers
<1>4. \A w \in Writers : WriterOK(w)
  BY Zenon, SnapshotConstants DEF Init, WriterOK, Unfinished, Calculating
<1>5. FinishedUpTo(csnlog, clog, 1, nextCommitSeqNo) /\ FinishedUpTo(csnlog, clog, 0, nextCommitSeqNo)
  BY SnapshotConstants DEF FinishedUpTo, Xids
<1>6. XidsOK
  <2>1. \A x \in Xids : ~(x < nextXid)
    BY SnapshotConstants DEF Init, Xids
  <2>2. \A x \in Xids : csnlog[x] = Inprogress /\ clog[x] = "inprogress" /\ csnlog[x].status # "committed"
    BY Zenon DEF Init, Inprogress
  <2>3. \A w \in Writers : lockXid[w] = 0
    BY Zenon DEF Init
  <2> QED
    BY Zenon, <2>1, <2>2, <2>3 DEF XidsOK
<1>7. HorizonsOK
  <2>1. /\ latestCompletedXid < nextXid /\ shmemXmin \in 1..latestCompletedXid + 1
        /\ recentLocalXmin \in 1..nextXid /\ shmemXmin = 1 /\ recentLocalXmin = 1 /\ nextXid = 1
    BY DEF Init
  <2>2. \A i \in Ring : snap[i].xmin = 0 \/ snap[i].xmin = 1
    BY Zenon DEF Init
  <2>3. snap[snapCurrent].xmin = 1
    BY SMTT(20), RingHasNext DEF Init, Ring
  <2> QED
    BY SMTT(20), <1>5, <2>1, <2>2, <2>3 DEF HorizonsOK, AllBefore
<1>8. ASSUME NEW r \in Readers
      PROVE  ReaderOK(r)
  <2>1. /\ xmin[r] = 0 /\ rpc[r] = "idle" /\ held[r] = NoSnapshot /\ answer[r] = NoAnswers
        /\ cached[r].xid = 0 /\ nextXid = 1
    BY Zenon DEF Init, NothingCached
  <2>2. \A x \in Xids : answer[r][x] = "none"
    BY Zenon, <2>1 DEF NoAnswers
  <2> QED
    BY <1>5, <2>1, <2>2 DEF ReaderOK, AllBefore, HasSnapshot, CacheOK, AnswerOK
<1> QED
  BY ZenonT(40), <1>1, <1>2, <1>3, <1>4, <1>6, <1>7, <1>8 DEF CutInv

(* A step that changes at most what the checkpointer keeps *)
LEMMA QuietInv ==
    ASSUME CutInv,
           UNCHANGED <<shmem, horizon, logs, writer, procArrayLock, globalxmin, ringVars, reader>>
    PROVE  CutInv' /\ Onward
<1>1. SharedTypes /\ WriterTypes /\ ReaderTypes /\ XidsOK /\ HorizonsOK
  BY Zenon DEF CutInv
<1>2. /\ nextXid' = nextXid /\ nextCommitSeqNo' = nextCommitSeqNo /\ latestCompletedXid' = latestCompletedXid
      /\ shmemXmin' = shmemXmin /\ recentLocalXmin' = recentLocalXmin /\ csnlog' = csnlog /\ clog' = clog
      /\ xid' = xid /\ lockXid' = lockXid /\ commitCSN' = commitCSN /\ wpc' = wpc
      /\ procArrayLock' = procArrayLock /\ globalxmin' = globalxmin
      /\ snap' = snap /\ snapCurrent' = snapCurrent /\ snapNext' = snapNext /\ reader' = reader
  BY Zenon DEF shmem, horizon, logs, writer, ringVars
<1>3. SharedTypes' /\ WriterTypes' /\ ReaderTypes'
  BY Zenon, <1>1, <1>2 DEF SharedTypes, WriterTypes, ReaderTypes, reader
<1>4. Onward
  <2>1. nextXid <= nextXid /\ nextCommitSeqNo <= nextCommitSeqNo
    BY <1>1 DEF SharedTypes
  <2> QED
    BY Zenon, <2>1, <1>2 DEF Onward
<1>5. HorizonsOK' /\ XidsOK'
  <2>1. HorizonsOK'
    BY Zenon, <1>1, <1>2 DEF HorizonsOK, AllBefore
  <2>2. XidsOK'
    BY ZenonT(40), <1>1, <1>2 DEF XidsOK, FinishedBefore
  <2> QED
    BY Zenon, <2>1, <2>2
<1>6. \A w \in Writers : WriterOK(w)'
  BY <1>2 DEF WriterOK, CutInv
<1>7. \A r \in Readers : ReaderOK(r)'
  BY Zenon, <1>1, <1>2, <1>3, <1>4, ReaderFrame DEF CutInv
<1> QED
  BY Zenon, <1>3, <1>4, <1>5, <1>6, <1>7 DEF CutInv

(* Every step preserves the invariant, and undoes nothing *)
LEMMA StepCut == CutInv /\ nofindCount \in Nat /\ [Next]_vars => CutInv' /\ Onward
<1> SUFFICES ASSUME CutInv, nofindCount \in Nat, [Next]_vars
             PROVE  CutInv' /\ Onward
  OBVIOUS
<1>1. ASSUME NEW w \in Writers, WriterStep(w)
      PROVE  CutInv' /\ Onward
  BY ZenonT(40), <1>1, AssignTransactionIdInv, ReadLatestCSNInv, SetXact2CommitInProgressInv, getLocalNextCSNInv,
     CommitCLogInv, UpdateCSNLogAtTransactionENDInv, TransactionIdAbortTreeInv, ProcArrayEndTransactionInv,
     ReleaseXidLockInv, ScanRingInv, DeferCalculationInv, ScanProcsInv, StoreSnapshotInv,
     PublishSnapshotInv, SetNextSnapXidInv DEF WriterStep
<1>2. ASSUME NEW r \in Readers, EndReader(r) \/ SyncWaitFails(r) \/ \E x \in Xids : StatusMissing(r, x)
      PROVE  CutInv' /\ Onward
  BY Zenon, <1>2, LeaveTransactionInv DEF EndReader, SyncWaitFails, StatusMissing
<1>3. ASSUME NEW r \in Readers, ReaderStep(r)
      PROVE  CutInv' /\ Onward
  BY ZenonT(40), <1>2, <1>3, GetCurrentSnapXidInv, IncrRefCountInv, SetPgxactXminInv, CopySnapshotInv,
     DecrRefCountInv, ReadSnapshotCSNInv, SwitchSnapshotInv, SyncWaitXidEndInv, LookAgainInv,
     NextStatementInv, XidVisibleInSnapshotInv DEF ReaderStep
<1>4. CASE CheckpointScan \/ TruncateCSNLOG
  BY Zenon, <1>4, QuietInv DEF CheckpointScan, TruncateCSNLOG
<1>5. CASE UNCHANGED vars
  BY Zenon, <1>5, QuietInv DEF vars
<1> QED
  BY Zenon, <1>1, <1>3, <1>4, <1>5 DEF Next

(* Only the search for a slot counts *)
LEMMA CountMoves ==
    ASSUME [Next]_vars, \A w \in Writers : ~SetNextSnapXid(w)
    PROVE  nofindCount' = nofindCount
<1>1. ASSUME NEW w \in Writers, WriterStep(w)
      PROVE  nofindCount' = nofindCount
  BY Zenon, <1>1 DEF WriterStep, AssignTransactionId, ReadLatestCSN, SetXact2CommitInProgress,
     getLocalNextCSN, CommitCLog, UpdateCSNLogAtTransactionEND, TransactionIdAbortTree,
     ProcArrayEndTransaction, ReleaseXidLock, ScanRing, DeferCalculation, ScanProcs, StoreSnapshot,
     PublishSnapshot, ringVars
<1>2. ASSUME NEW r \in Readers, ReaderStep(r)
      PROVE  nofindCount' = nofindCount
  BY Zenon, <1>2 DEF ReaderStep, GetCurrentSnapXid, IncrRefCount, SetPgxactXmin, CopySnapshot,
     DecrRefCount, ReadSnapshotCSN, SwitchSnapshot, EndReader, SyncWaitXidEnd, SyncWaitFails, LookAgain,
     NextStatement, XidVisibleInSnapshot, StatusMissing, ringVars
<1>3. CASE CheckpointScan \/ TruncateCSNLOG \/ UNCHANGED vars
  BY Zenon, <1>3 DEF CheckpointScan, TruncateCSNLOG, vars, ringVars
<1> QED
  BY Zenon, <1>1, <1>2, <1>3 DEF Next

(* The slots that were found in use are a number *)
CountTyped == nofindCount \in Nat

(* ... in every state *)
LEMMA CountIsNat == Spec => []CountTyped
<1>1. Init => CountTyped
  BY DEF Init, CountTyped
<1>2. CountTyped /\ [Next]_vars => CountTyped'
  <2> SUFFICES ASSUME nofindCount \in Nat, [Next]_vars
               PROVE  nofindCount' \in Nat
    BY DEF CountTyped
  <2>1. ASSUME NEW w \in Writers, SetNextSnapXid(w)
        PROVE  nofindCount' = 0 \/ nofindCount' = nofindCount + 1
    BY Zenon, <2>1 DEF SetNextSnapXid
  <2> QED
    BY <2>1, CountMoves
<1> QED
  BY <1>1, <1>2, PTL DEF Spec

(* The inductive invariant holds, for any number of writers, readers and transactions *)
(* and any size of the ring: what the logs say of a transaction follows from where    *)
(* its writer is, all that precedes an xmin is finished, and every answer is right.   *)
THEOREM CutInvariant == Spec => []CutInv
<1>1. Init => CutInv
  BY Zenon, InitCut
<1>2. CutInv /\ CountTyped /\ [Next]_vars => CutInv'
  BY Zenon, StepCut DEF CountTyped
<1> QED
  BY <1>1, <1>2, CountIsNat, PTL DEF Spec

(* A snapshot is one cut through the commit order: a reader sees a transaction if and *)
(* only if its csn precedes snapshotcsn, whenever it asks and wherever the status was *)
(* found (XidVisibleInSnapshot, TransactionIdGetCommitSeqNo).                         *)
THEOREM SnapshotsAreCuts == Spec => []SnapshotIsACut
<1>1. CutInv => SnapshotIsACut
  <2> SUFFICES ASSUME CutInv, NEW r \in Readers, NEW x \in Xids, HasSnapshot(r)
               PROVE  /\ answer[r][x] = "yes" => FinalCSN(x) # 0 /\ FinalCSN(x) < snapshot[r].csn
                      /\ answer[r][x] = "no" => ~(FinalCSN(x) # 0 /\ FinalCSN(x) < snapshot[r].csn)
    BY Zenon DEF SnapshotIsACut
  <2>1. AnswerOK(r, x)
    BY ZenonT(40) DEF CutInv, ReaderOK
  <2>2. /\ csnlog[x].csn \in Nat /\ snapshot[r].csn \in Nat /\ \A w \in Writers : commitCSN[w] \in Nat
        /\ csnlog[x].status = "committed" => csnlog[x].csn # 0
    BY SMTT(20) DEF CutInv, SharedTypes, ReaderTypes, WriterTypes, Entries, Snapshots, XidsOK, COMMITSEQNO_FIRST_NORMAL
  <2>3. CASE csnlog[x].status = "committed"
    <3>1. FinalCSN(x) = csnlog[x].csn
      BY Zenon, <2>3 DEF FinalCSN
    <3>2. /\ answer[r][x] = "yes" => csnlog[x].csn < snapshot[r].csn
          /\ answer[r][x] = "no" => csnlog[x].csn >= snapshot[r].csn
      BY Zenon, <2>1, <2>3 DEF AnswerOK
    <3>3. csnlog[x].csn >= snapshot[r].csn => ~(csnlog[x].csn < snapshot[r].csn)
      BY SMTT(20), <2>2
    <3>4. csnlog[x].csn # 0
      BY ZenonT(40), <2>2, <2>3
    <3> QED
      BY Zenon, <3>1, <3>2, <3>3, <3>4
  <2>4. CASE csnlog[x].status # "committed" /\ \E w \in Writers : xid[w] = x /\ wpc[w] \in HasCSN
    <3>1. PICK w \in Writers : xid[w] = x /\ wpc[w] \in HasCSN
      BY Zenon, <2>4
    <3>2. x # 0
      BY SnapshotConstants DEF Xids
    <3>3. \A v \in Writers : xid[v] = x => v = w
      BY Zenon, <3>1, <3>2, SoleWriter
    <3>4. (CHOOSE v \in Writers : xid[v] = x) = w
      BY Zenon, <3>1, <3>3
    <3>5. FinalCSN(x) = commitCSN[w]
      BY Zenon, <2>4, <3>4 DEF FinalCSN, HasCSN
    <3> QED
      BY SMTT(20), <2>1, <2>2, <2>4, <3>1, <3>5 DEF AnswerOK
  <2>5. CASE csnlog[x].status # "committed" /\ ~\E w \in Writers : xid[w] = x /\ wpc[w] \in HasCSN
    <3>1. FinalCSN(x) = 0
      BY Zenon, <2>5 DEF FinalCSN, HasCSN
    <3> QED
      BY Zenon, <2>1, <2>5, <3>1 DEF AnswerOK
  <2> QED
    BY Zenon, <2>3, <2>4, <2>5
<1> QED
  BY <1>1, CutInvariant, PTL

(* When SyncWaitXidEnd returns because the lock of the transaction is free, the status *)
(* is final: the reader never sets a transaction to aborted that may yet commit.       *)
THEOREM StatusIsFinal == Spec => []FinalWhenUnlocked
<1>1. CutInv => FinalWhenUnlocked
  BY ZenonT(40), StatusFinal DEF FinalWhenUnlocked
<1> QED
  BY <1>1, CutInvariant, PTL

(* recentLocalXmin never passes a transaction that a snapshot in use takes for  *)
(* unfinished, though readers take no lock (CalculateLocalLatestSnapshot against *)
(* GetSnapshotData).                                                             *)
THEOREM HorizonIsSafe == Spec => []HorizonSafe
<1>1. CutInv => HorizonSafe
  <2> SUFFICES ASSUME CutInv, NEW r \in Readers, NEW x \in Xids, HasSnapshot(r), x < recentLocalXmin,
                      NEW s \in {snapshot[r], held[r]} \ {NoSnapshot}
               PROVE  \/ csnlog[x].status = "aborted"
                      \/ csnlog[x].status = "committed" /\ csnlog[x].csn < s.csn
    BY Zenon DEF HorizonSafe
  <2>1. FinishedUpTo(csnlog, clog, recentLocalXmin, s.csn)
    BY Zenon DEF CutInv, ReaderOK, SnapshotOK, AllBefore
  <2>2. Finished(csnlog[x], clog[x], s.csn)
    BY Zenon, <2>1 DEF FinishedUpTo
  <2>3. Aborted.status = "aborted"
    BY DEF Aborted
  <2> QED
    BY Zenon, <2>2, <2>3 DEF Finished
<1> QED
  BY <1>1, CutInvariant, PTL

(* No step changes the status of a finished transaction, in the csnlog or in the clog: *)
(* not its writer, and not a reader after its wait.                                    *)
THEOREM LogsAreFinal == Spec => LogsFinal
<1>1. CutInv /\ CountTyped /\ [Next]_vars =>
         [\A x \in Xids : /\ csnlog[x].status \in {"committed", "aborted"} => csnlog'[x] = csnlog[x]
                          /\ clog[x] # "inprogress" => clog'[x] = clog[x]]_vars
  BY Zenon, StepCut DEF Onward, CountTyped
<1> QED
  BY <1>1, CutInvariant, CountIsNat, PTL DEF Spec, LogsFinal

-----------------------------------------------------------------------------
(* Counts, and the types *)

(* The readers that hold a slot of the ring *)
Pinned == {"set_xmin", "copy", "unpin"}
Holders(i) == {r \in Readers : snapxid[r] = i /\ rpc[r] \in Pinned}
RefsCounted == refcnt = [i \in Ring |-> Cardinality(Holders(i))]

(* The transactions that have taken a csn *)
HaveCSN == {x \in Xids : \/ csnlog[x].status = "committed"
                         \/ \E w \in Writers : xid[w] = x /\ wpc[w] \in HasCSN}
CSNsCounted == nextCommitSeqNo = COMMITSEQNO_FIRST_NORMAL + Cardinality(HaveCSN)

(* No csn is taken *)
LEMMA CSNsKept ==
    ASSUME CSNsCounted, nextCommitSeqNo' = nextCommitSeqNo,
           \A x \in Xids : csnlog'[x].status = "committed" <=> csnlog[x].status = "committed",
           \A w \in Writers : /\ wpc'[w] \in HasCSN <=> wpc[w] \in HasCSN
                              /\ wpc[w] \in HasCSN => xid'[w] = xid[w]
    PROVE  CSNsCounted'
<1>1. \A x \in Xids : (\E w \in Writers : xid'[w] = x /\ wpc'[w] \in HasCSN)
                      <=> (\E w \in Writers : xid[w] = x /\ wpc[w] \in HasCSN)
  BY Zenon
<1>2. HaveCSN' = HaveCSN
  BY Zenon, <1>1 DEF HaveCSN
<1> QED
  BY Zenon, <1>2 DEF CSNsCounted

(* A step of a writer that neither takes a csn nor writes one to the csnlog *)
LEMMA WriterKeepsCSNs ==
    ASSUME CutInv, CSNsCounted, NEW w \in Writers, nextCommitSeqNo' = nextCommitSeqNo,
           NEW to, wpc' = [wpc EXCEPT ![w] = to], to \in HasCSN <=> wpc[w] \in HasCSN,
           xid' = xid \/ (wpc[w] \notin HasCSN /\ \A v \in Writers \ {w} : xid'[v] = xid[v]),
           \/ csnlog' = csnlog
           \/ /\ wpc[w] \in {"running", "mark"}
              /\ \E e : e.status # "committed" /\ csnlog' = [csnlog EXCEPT ![xid[w]] = e]
    PROVE  CSNsCounted'
<1>1. WriterTypes /\ SharedTypes /\ WriterOK(w)
  BY Zenon DEF CutInv
<1>2. \A v \in Writers : /\ wpc'[v] \in HasCSN <=> wpc[v] \in HasCSN
                         /\ wpc[v] \in HasCSN => xid'[v] = xid[v]
  <2>1. wpc'[w] = to /\ \A v \in Writers \ {w} : wpc'[v] = wpc[v]
    BY Zenon, <1>1 DEF WriterTypes
  <2> QED
    BY Zenon, <2>1
<1>3. \A x \in Xids : csnlog'[x].status = "committed" <=> csnlog[x].status = "committed"
  <2>1. CASE csnlog' = csnlog
    BY Zenon, <2>1
  <2>2. CASE /\ wpc[w] \in {"running", "mark"}
             /\ \E e : e.status # "committed" /\ csnlog' = [csnlog EXCEPT ![xid[w]] = e]
    <3>1. PICK e : e.status # "committed" /\ csnlog' = [csnlog EXCEPT ![xid[w]] = e]
      BY Zenon, <2>2
    <3>2. csnlog[xid[w]] = Inprogress
      BY Zenon, <1>1, <2>2 DEF WriterOK
    <3>3. csnlog[xid[w]].status # "committed"
      BY <3>2 DEF Inprogress
    <3>4. \A x \in Xids : csnlog'[x] = IF x = xid[w] THEN e ELSE csnlog[x]
      BY Zenon, <1>1, <3>1 DEF SharedTypes
    <3> QED
      BY Zenon, <3>1, <3>3, <3>4
  <2> QED
    BY Zenon, <2>1, <2>2
<1> QED
  BY Zenon, <1>2, <1>3, CSNsKept

(* Those are the steps of writers but two *)
LEMMA OtherWriterStepsCount ==
    ASSUME CutInv, CSNsCounted, NEW w \in Writers,
           \/ AssignTransactionId(w) \/ ReadLatestCSN(w) \/ SetXact2CommitInProgress(w) \/ CommitCLog(w)
           \/ TransactionIdAbortTree(w) \/ ProcArrayEndTransaction(w) \/ ReleaseXidLock(w)
           \/ ScanRing(w) \/ DeferCalculation(w) \/ ScanProcs(w) \/ StoreSnapshot(w)
           \/ PublishSnapshot(w) \/ SetNextSnapXid(w)
    PROVE  CSNsCounted'
<1>1. /\ Committing(commitCSN[w]).status # "committed" /\ Aborted.status # "committed"
      /\ \A to \in {"mark", "take_csn", "running", "end", "calculate", "idle", "scan_procs", "store", "publish",
                    "find_next", "unlock", "panic"} : to \notin HasCSN
      /\ "commit_csnlog" \in HasCSN /\ "commit_clog" \in HasCSN
  BY Zenon DEF Committing, Aborted, HasCSN
<1>2. xid \in [Writers -> Nat]
  BY Zenon DEF CutInv, WriterTypes
<1>3. CASE AssignTransactionId(w) \/ ProcArrayEndTransaction(w)
  <2>1. /\ wpc[w] \notin HasCSN /\ nextCommitSeqNo' = nextCommitSeqNo /\ csnlog' = csnlog
        /\ \E c : xid' = [xid EXCEPT ![w] = c]
        /\ \E to \in {"running", "calculate"} : wpc' = [wpc EXCEPT ![w] = to]
    BY Zenon, <1>1, <1>3 DEF AssignTransactionId, ProcArrayEndTransaction, WGoto, logs
  <2>2. \A v \in Writers \ {w} : xid'[v] = xid[v]
    BY Zenon, <1>2, <2>1
  <2> QED
    BY Zenon, <1>1, <2>1, <2>2, WriterKeepsCSNs
<1>4. CASE ReadLatestCSN(w) \/ CommitCLog(w) \/ ReleaseXidLock(w) \/ ScanRing(w) \/ DeferCalculation(w)
  BY Zenon, <1>1, <1>4, WriterKeepsCSNs
     DEF ReadLatestCSN, CommitCLog, ReleaseXidLock, ScanRing, DeferCalculation, WGoto, logs, shmem
<1>5. CASE ScanProcs(w) \/ StoreSnapshot(w) \/ PublishSnapshot(w)
  BY Zenon, <1>1, <1>5, WriterKeepsCSNs DEF ScanProcs, StoreSnapshot, PublishSnapshot, WGoto, logs, shmem
<1>7. CASE SetNextSnapXid(w)
  <2>1. /\ wpc[w] = "find_next" /\ csnlog' = csnlog /\ xid' = xid /\ nextCommitSeqNo' = nextCommitSeqNo
        /\ \E to \in {"unlock", "panic", "find_next"} : wpc' = [wpc EXCEPT ![w] = to]
    BY Zenon, <1>7 DEF SetNextSnapXid, WGoto, logs, shmem
  <2> QED
    BY Zenon, <1>1, <2>1, WriterKeepsCSNs
<1>6. CASE SetXact2CommitInProgress(w) \/ TransactionIdAbortTree(w)
  BY Zenon, <1>1, <1>6, WriterKeepsCSNs DEF SetXact2CommitInProgress, TransactionIdAbortTree, WGoto, shmem
<1> QED
  BY Zenon, <1>3, <1>4, <1>5, <1>6, <1>7

(* getLocalNextCSN takes the next csn for a transaction that has none *)
LEMMA TakeCSNCounts ==
    ASSUME CutInv, CSNsCounted, NEW w \in Writers, getLocalNextCSN(w)
    PROVE  CSNsCounted'
<1>1. WriterTypes /\ SharedTypes /\ WriterOK(w)
  BY Zenon DEF CutInv
<1>2. /\ wpc[w] = "take_csn" /\ wpc' = [wpc EXCEPT ![w] = "commit_clog"]
      /\ nextCommitSeqNo' = nextCommitSeqNo + 1 /\ csnlog' = csnlog /\ xid' = xid
  BY Zenon DEF getLocalNextCSN, WGoto, logs
<1>3. xid[w] \in Xids /\ xid[w] # 0 /\ csnlog[xid[w]].status # "committed"
  BY <1>1, <1>2, SnapshotConstants DEF WriterOK, Unfinished, Xids
<1>4. wpc'[w] = "commit_clog" /\ \A v \in Writers \ {w} : wpc'[v] = wpc[v]
  BY Zenon, <1>1, <1>2 DEF WriterTypes
<1>5. "commit_clog" \in HasCSN /\ "take_csn" \notin HasCSN
  BY Zenon DEF HasCSN
<1>6. xid[w] \notin HaveCSN
  BY ZenonT(40), <1>2, <1>3, <1>5, SoleWriter DEF HaveCSN
<1>7. HaveCSN' = HaveCSN \cup {xid[w]}
  <2>1. \A x \in Xids : (\E v \in Writers : xid[v] = x /\ wpc'[v] \in HasCSN)
                        <=> x = xid[w] \/ \E v \in Writers : xid[v] = x /\ wpc[v] \in HasCSN
    BY Zenon, <1>2, <1>4, <1>5
  <2> QED
    BY <1>2, <1>3, <2>1 DEF HaveCSN
<1>8. IsFiniteSet(HaveCSN)
  <2>1. IsFiniteSet(Xids)
    BY SnapshotConstants, FS_Interval DEF Xids
  <2>2. HaveCSN \in SUBSET Xids
    BY Zenon DEF HaveCSN
  <2> QED
    BY Zenon, <2>1, <2>2, FS_Subset
<1>9. Cardinality(HaveCSN') = Cardinality(HaveCSN) + 1 /\ Cardinality(HaveCSN) \in Nat
  BY Zenon, <1>6, <1>7, <1>8, FS_AddElement, FS_CardinalityType
<1> QED
  BY <1>2, <1>9 DEF CSNsCounted, COMMITSEQNO_FIRST_NORMAL

(* UpdateCSNLogAtTransactionEND writes the csn that was taken *)
LEMMA WriteCSNCounts ==
    ASSUME CutInv, CSNsCounted, NEW w \in Writers, UpdateCSNLogAtTransactionEND(w)
    PROVE  CSNsCounted'
<1>1. WriterTypes /\ SharedTypes /\ WriterOK(w)
  BY Zenon DEF CutInv
<1>2. /\ wpc[w] = "commit_csnlog" /\ wpc' = [wpc EXCEPT ![w] = "end"]
      /\ nextCommitSeqNo' = nextCommitSeqNo /\ xid' = xid
      /\ csnlog' = [csnlog EXCEPT ![xid[w]] = Committed(commitCSN[w])]
  BY ZenonT(40) DEF UpdateCSNLogAtTransactionEND, WGoto, shmem
<1>3. xid[w] \in Xids /\ xid[w] # 0
  BY SMTT(20), <1>1, <1>2, SnapshotConstants DEF WriterOK, Unfinished, Xids
<1>4. wpc'[w] = "end" /\ \A v \in Writers \ {w} : wpc'[v] = wpc[v]
  BY Zenon, <1>1, <1>2 DEF WriterTypes
<1>5. csnlog'[xid[w]].status = "committed" /\ \A x \in Xids \ {xid[w]} : csnlog'[x] = csnlog[x]
  BY Zenon, <1>1, <1>2, <1>3 DEF SharedTypes, Committed
<1>6. "end" \notin HasCSN /\ "commit_csnlog" \in HasCSN
  BY Zenon DEF HasCSN
<1>7. \A x \in Xids \ {xid[w]} : (\E v \in Writers : xid[v] = x /\ wpc'[v] \in HasCSN)
                                 <=> (\E v \in Writers : xid[v] = x /\ wpc[v] \in HasCSN)
  BY Zenon, <1>4
<1>8. xid[w] \in HaveCSN
  BY ZenonT(40), <1>2, <1>3, <1>6 DEF HaveCSN
<1>9. HaveCSN' = HaveCSN
  BY SMTT(20), <1>2, <1>3, <1>5, <1>7, <1>8 DEF HaveCSN
<1> QED
  BY Zenon, <1>2, <1>9 DEF CSNsCounted

(* Readers hold the same slots *)
LEMMA RefsKept ==
    ASSUME RefsCounted, refcnt' = refcnt,
           \A r \in Readers : /\ rpc'[r] \in Pinned <=> rpc[r] \in Pinned
                              /\ rpc[r] \in Pinned => snapxid'[r] = snapxid[r]
    PROVE  RefsCounted'
<1>1. \A i : Holders(i)' = Holders(i)
  BY Zenon DEF Holders
<1> QED
  BY Zenon, <1>1 DEF RefsCounted

(* A step of a reader that neither takes nor gives back a reference *)
LEMMA ReaderKeepsRefs ==
    ASSUME CutInv, RefsCounted, NEW r \in Readers, refcnt' = refcnt,
           NEW to, rpc' = [rpc EXCEPT ![r] = to], to \in Pinned <=> rpc[r] \in Pinned,
           snapxid' = snapxid \/ (rpc[r] \notin Pinned /\ \A q \in Readers \ {r} : snapxid'[q] = snapxid[q])
    PROVE  RefsCounted'
<1>1. rpc'[r] = to /\ \A q \in Readers \ {r} : rpc'[q] = rpc[q]
  BY Zenon DEF CutInv, ReaderTypes
<1>2. \A q \in Readers : /\ rpc'[q] \in Pinned <=> rpc[q] \in Pinned
                         /\ rpc[q] \in Pinned => snapxid'[q] = snapxid[q]
  BY Zenon, <1>1
<1> QED
  BY Zenon, <1>2, RefsKept

(* Holders are finitely many *)
LEMMA HoldersFinite == \A i : IsFiniteSet(Holders(i))
<1>1. \A i : Holders(i) \in SUBSET Readers
  BY Zenon DEF Holders
<1> QED
  BY Zenon, <1>1, SnapshotConstants, FS_Subset

(* IncrRefCount counts the reader *)
LEMMA IncrCounts ==
    ASSUME CutInv, RefsCounted, NEW r \in Readers, IncrRefCount(r)
    PROVE  RefsCounted'
<1>1. /\ rpc[r] = "pin" /\ rpc' = [rpc EXCEPT ![r] = "set_xmin"] /\ snapxid' = snapxid
      /\ refcnt' = [refcnt EXCEPT ![snapxid[r]] = @ + 1]
  BY Zenon DEF IncrRefCount, RGoto
<1>2. snapxid[r] \in Ring /\ rpc'[r] = "set_xmin" /\ \A q \in Readers \ {r} : rpc'[q] = rpc[q]
  BY Zenon, <1>1 DEF CutInv, ReaderTypes
<1>3. "set_xmin" \in Pinned /\ "pin" \notin Pinned
  BY Zenon DEF Pinned
<1>4. r \notin Holders(snapxid[r]) /\ Holders(snapxid[r])' = Holders(snapxid[r]) \cup {r}
  BY Zenon, <1>1, <1>2, <1>3 DEF Holders
<1>5. \A i : i # snapxid[r] => Holders(i)' = Holders(i)
  BY Zenon, <1>1, <1>2, <1>3 DEF Holders
<1>6. Cardinality(Holders(snapxid[r])') = Cardinality(Holders(snapxid[r])) + 1
  BY Zenon, <1>4, HoldersFinite, FS_AddElement
<1> QED
  BY Zenon, <1>1, <1>2, <1>5, <1>6 DEF RefsCounted

(* DecrRefCount discounts it *)
LEMMA DecrCounts ==
    ASSUME CutInv, RefsCounted, NEW r \in Readers, DecrRefCount(r)
    PROVE  RefsCounted'
<1>1. /\ rpc[r] = "unpin" /\ rpc' = [rpc EXCEPT ![r] = "read_csn"] /\ snapxid' = [snapxid EXCEPT ![r] = 0]
      /\ refcnt' = [refcnt EXCEPT ![snapxid[r]] = @ - 1]
  BY Zenon DEF DecrRefCount, RGoto
<1>2. /\ snapxid[r] \in Ring /\ rpc'[r] = "read_csn"
      /\ \A q \in Readers \ {r} : rpc'[q] = rpc[q] /\ snapxid'[q] = snapxid[q]
  BY Zenon, <1>1 DEF CutInv, ReaderTypes
<1>3. "unpin" \in Pinned /\ "read_csn" \notin Pinned
  BY Zenon DEF Pinned
<1>4. r \in Holders(snapxid[r])
  BY Zenon, <1>1, <1>2, <1>3 DEF Holders
<1>5. \A i : Holders(i)' = IF i = snapxid[r] THEN Holders(i) \ {r} ELSE Holders(i)
  BY Zenon, <1>1, <1>2, <1>3 DEF Holders
<1>6. Cardinality(Holders(snapxid[r]) \ {r}) = Cardinality(Holders(snapxid[r])) - 1
  BY Zenon, <1>4, HoldersFinite, FS_RemoveElement
<1>7. \A i : Cardinality(Holders(i))' = IF i = snapxid[r] THEN Cardinality(Holders(i)) - 1 ELSE Cardinality(Holders(i))
  BY Zenon, <1>5, <1>6
<1> QED
  BY Zenon, <1>1, <1>2, <1>7 DEF RefsCounted

(* Other steps of readers *)
LEMMA OtherReaderStepsCount ==
    ASSUME CutInv, RefsCounted, NEW r \in Readers, ReaderStep(r), ~IncrRefCount(r), ~DecrRefCount(r)
    PROVE  RefsCounted'
<1>1. /\ \A p \in {"idle", "pin", "read_csn", "ready", "wait", "look_again"} : p \notin Pinned
      /\ \A p \in {"set_xmin", "copy", "unpin"} : p \in Pinned
  BY Zenon DEF Pinned
<1>2. CASE GetCurrentSnapXid(r) \/ \E cursor \in BOOLEAN : NextStatement(r, cursor)
  <2>1. /\ rpc[r] \notin Pinned /\ refcnt' = refcnt /\ rpc' = [rpc EXCEPT ![r] = "pin"]
        /\ snapxid' = [snapxid EXCEPT ![r] = snapCurrent]
    BY Zenon, <1>1, <1>2 DEF GetCurrentSnapXid, NextStatement, RGoto, ringVars
  <2>2. \A q \in Readers \ {r} : snapxid'[q] = snapxid[q]
    BY Zenon, <2>1 DEF CutInv, ReaderTypes
  <2> QED
    BY ZenonT(40), <1>1, <2>1, <2>2, ReaderKeepsRefs
<1>3. CASE SetPgxactXmin(r) \/ CopySnapshot(r)
  BY Zenon, <1>1, <1>3, ReaderKeepsRefs DEF SetPgxactXmin, CopySnapshot, RGoto, ringVars
<1>7. CASE ReadSnapshotCSN(r) \/ SyncWaitXidEnd(r) \/ LookAgain(r)
  BY ZenonT(60), <1>1, <1>7, ReaderKeepsRefs DEF ReadSnapshotCSN, SyncWaitXidEnd, LookAgain, RGoto, ringVars
<1>4. CASE EndReader(r) \/ SyncWaitFails(r) \/ \E x \in Xids : StatusMissing(r, x)
  <2>1. refcnt' = refcnt /\ snapxid' = snapxid /\ rpc' = [rpc EXCEPT ![r] = "idle"] /\ rpc[r] \in {"ready", "wait"}
    BY Zenon, <1>4 DEF EndReader, SyncWaitFails, StatusMissing, LeaveTransaction, RGoto, ringVars
  <2> QED
    BY Zenon, <1>1, <2>1, ReaderKeepsRefs
<1>5. CASE SwitchSnapshot(r)
  BY Zenon, <1>5, RefsKept DEF SwitchSnapshot, ringVars
<1>6. CASE \E x \in Xids : XidVisibleInSnapshot(r, x)
  <2>1. refcnt' = refcnt /\ snapxid' = snapxid /\ rpc[r] = "ready"
        /\ (rpc' = rpc \/ rpc' = [rpc EXCEPT ![r] = "wait"])
    BY Zenon, <1>6 DEF XidVisibleInSnapshot, RGoto, ringVars
  <2> QED
    BY Zenon, <1>1, <2>1, ReaderKeepsRefs, RefsKept
<1> QED
  BY ZenonT(40), <1>2, <1>3, <1>4, <1>5, <1>6, <1>7 DEF ReaderStep

(* A reader takes no csn, and a writer no reference *)
LEMMA ReaderTakesNoCSN ==
    ASSUME CutInv, NEW r \in Readers, ReaderStep(r)
    PROVE  nextCommitSeqNo' = nextCommitSeqNo /\ csnlog' = csnlog /\ xid' = xid /\ wpc' = wpc
<1>1. CASE LookAgain(r)
  <2>1. rpc[r] = "look_again"
    BY Zenon, <1>1 DEF LookAgain
  <2>2. GetCommitSeqNo(r, asked[r]).status # "committing"
    BY Zenon, <2>1, StatusFinal
  <2> QED
    BY Zenon, <1>1, <2>2 DEF LookAgain, shmem, writer
<1>2. CASE GetCurrentSnapXid(r) \/ IncrRefCount(r) \/ SetPgxactXmin(r) \/ CopySnapshot(r) \/ DecrRefCount(r)
           \/ ReadSnapshotCSN(r) \/ SwitchSnapshot(r)
  BY Zenon, <1>2 DEF GetCurrentSnapXid, IncrRefCount, SetPgxactXmin, CopySnapshot, DecrRefCount,
     ReadSnapshotCSN, SwitchSnapshot, shmem, logs, writer
<1>3. CASE EndReader(r) \/ SyncWaitXidEnd(r) \/ SyncWaitFails(r)
           \/ (\E cursor \in BOOLEAN : NextStatement(r, cursor))
           \/ \E x \in Xids : XidVisibleInSnapshot(r, x) \/ StatusMissing(r, x)
  BY Zenon, <1>3 DEF EndReader, SyncWaitXidEnd, SyncWaitFails, NextStatement, XidVisibleInSnapshot,
     StatusMissing, shmem, logs, writer
<1> QED
  BY Zenon, <1>1, <1>2, <1>3 DEF ReaderStep

(* ... and the other way round *)
LEMMA WriterTakesNoReference ==
    ASSUME NEW w \in Writers, WriterStep(w)
    PROVE  refcnt' = refcnt /\ reader' = reader
<1>1. CASE \/ AssignTransactionId(w) \/ ReadLatestCSN(w) \/ SetXact2CommitInProgress(w)
           \/ getLocalNextCSN(w) \/ CommitCLog(w) \/ UpdateCSNLogAtTransactionEND(w)
           \/ TransactionIdAbortTree(w) \/ ProcArrayEndTransaction(w)
  BY Zenon, <1>1 DEF AssignTransactionId, ReadLatestCSN, SetXact2CommitInProgress, getLocalNextCSN, CommitCLog,
     UpdateCSNLogAtTransactionEND, TransactionIdAbortTree, ProcArrayEndTransaction, ringVars
<1>2. CASE \/ ReleaseXidLock(w) \/ ScanRing(w) \/ DeferCalculation(w) \/ ScanProcs(w) \/ StoreSnapshot(w)
           \/ PublishSnapshot(w) \/ SetNextSnapXid(w)
  BY Zenon, <1>2 DEF ReleaseXidLock, ScanRing, DeferCalculation, ScanProcs, StoreSnapshot,
     PublishSnapshot, SetNextSnapXid, ringVars
<1> QED
  BY Zenon, <1>1, <1>2 DEF WriterStep

(* Both counts are kept by every step *)
LEMMA StepCounts ==
    ASSUME CutInv, RefsCounted, CSNsCounted, [Next]_vars
    PROVE  RefsCounted' /\ CSNsCounted'
<1>1. ASSUME NEW w \in Writers, WriterStep(w)
      PROVE  RefsCounted' /\ CSNsCounted'
  <2>1. RefsCounted'
    BY Zenon, <1>1, WriterTakesNoReference, RefsKept DEF reader
  <2>2. CSNsCounted'
    BY ZenonT(40), <1>1, TakeCSNCounts, WriteCSNCounts, OtherWriterStepsCount DEF WriterStep
  <2> QED
    BY Zenon, <2>1, <2>2
<1>2. ASSUME NEW r \in Readers, ReaderStep(r)
      PROVE  RefsCounted' /\ CSNsCounted'
  <2>1. RefsCounted'
    BY Zenon, <1>2, IncrCounts, DecrCounts, OtherReaderStepsCount
  <2>2. CSNsCounted'
    BY Zenon, <1>2, ReaderTakesNoCSN, CSNsKept
  <2> QED
    BY Zenon, <2>1, <2>2
<1>3. CASE UNCHANGED <<shmem, logs, writer, ringVars, reader>>
  <2>1. /\ nextCommitSeqNo' = nextCommitSeqNo /\ csnlog' = csnlog /\ xid' = xid /\ wpc' = wpc
        /\ refcnt' = refcnt /\ rpc' = rpc /\ snapxid' = snapxid
    BY Zenon, <1>3 DEF shmem, logs, writer, ringVars, reader
  <2> QED
    BY Zenon, <2>1, CSNsKept, RefsKept
<1>4. CASE CheckpointScan \/ TruncateCSNLOG \/ UNCHANGED vars
  BY Zenon, <1>3, <1>4 DEF CheckpointScan, TruncateCSNLOG, vars
<1> QED
  BY Zenon, <1>1, <1>2, <1>4 DEF Next

(* At first nobody holds a slot, and no csn is taken *)
LEMMA InitCounts == Init => RefsCounted /\ CSNsCounted
<1> SUFFICES ASSUME Init
             PROVE  RefsCounted /\ CSNsCounted
  OBVIOUS
<1>1. \A i : Holders(i) = {}
  BY Zenon DEF Init, Holders, Pinned
<1>2. HaveCSN = {}
  BY Zenon DEF Init, HaveCSN, HasCSN, Inprogress
<1>3. Cardinality({}) = 0
  BY Zenon, FS_EmptySet
<1>4. RefsCounted
  <2>1. \A i : Cardinality(Holders(i)) = 0
    BY Zenon, <1>1, <1>3
  <2>2. refcnt = [i \in Ring |-> 0]
    BY Zenon DEF Init
  <2> QED
    BY Zenon, <2>1, <2>2 DEF RefsCounted
<1>5. CSNsCounted
  <2>1. Cardinality(HaveCSN) = 0
    BY Zenon, <1>2, <1>3
  <2>2. nextCommitSeqNo = COMMITSEQNO_FIRST_NORMAL
    BY Zenon DEF Init
  <2> QED
    BY <2>1, <2>2 DEF CSNsCounted, COMMITSEQNO_FIRST_NORMAL
<1> QED
  BY Zenon, <1>4, <1>5

(* There are not more csns than transactions *)
LEMMA CSNInRange ==
    ASSUME CSNsCounted
    PROVE  nextCommitSeqNo \in CSNs
<1>1. IsFiniteSet(Xids) /\ Cardinality(Xids) = MaxXid
  <2>1. IsFiniteSet(Xids) /\ Cardinality(Xids) = IF 1 > MaxXid THEN 0 ELSE MaxXid - 1 + 1
    BY SnapshotConstants, FS_Interval DEF Xids
  <2> QED
    BY <2>1, SnapshotConstants
<1>2. HaveCSN \in SUBSET Xids
  BY Zenon DEF HaveCSN
<1>3. Cardinality(HaveCSN) <= MaxXid /\ Cardinality(HaveCSN) \in Nat
  BY Zenon, <1>1, <1>2, FS_Subset, FS_CardinalityType
<1> QED
  BY <1>3, SnapshotConstants DEF CSNsCounted, CSNs, COMMITSEQNO_FIRST_NORMAL

(* What the csnlog may hold *)
LEMMA EntriesInRange ==
    ASSUME CutInv, nextCommitSeqNo \in CSNs, NEW x \in Xids
    PROVE  csnlog[x] \in {Inprogress, Aborted} \cup {Committing(c) : c \in CSNs} \cup {Committed(c) : c \in CSNs}
<1> DEFINE e == csnlog[x]
<1>1. SharedTypes /\ WriterTypes /\ XidsOK /\ \A w \in Writers : WriterOK(w)
  BY Zenon DEF CutInv
<1>2. e \in Entries /\ nextXid \in Nat /\ x \in Nat
  BY <1>1, SnapshotConstants DEF SharedTypes, Xids
<1> HIDE DEF e
<1>3. CASE e.status \in {"committing", "committed"} /\ e.csn \in CSNs
  <2>1. e = Committing(e.csn) \/ e = Committed(e.csn)
    BY Zenon, <1>2, <1>3 DEF Entries, Committing, Committed
  <2> QED
    BY Zenon, <1>3, <2>1 DEF e
<1>4. CASE e = Inprogress \/ e = Aborted
  BY Zenon, <1>4 DEF e
<1>5. CASE FinishedBefore(x, nextCommitSeqNo)
  <2>1. e = Aborted \/ (e.status = "committed" /\ e.csn < nextCommitSeqNo /\ e.csn >= COMMITSEQNO_FIRST_NORMAL)
    BY Zenon, <1>1, <1>5 DEF FinishedBefore, Finished, XidsOK, e
  <2>2. e.csn \in Nat
    BY Zenon, <1>2 DEF Entries
  <2>3. e = Aborted \/ (e.status = "committed" /\ e.csn \in CSNs)
    BY SMTT(20), <2>1, <2>2, SnapshotConstants DEF CSNs, COMMITSEQNO_FIRST_NORMAL
  <2> QED
    BY Zenon, <1>3, <1>4, <2>3
<1>6. ASSUME NEW w \in Writers, xid[w] = x, wpc[w] \in Unfinished
      PROVE  csnlog[x] \in {Inprogress, Aborted} \cup {Committing(c) : c \in CSNs} \cup {Committed(c) : c \in CSNs}
  <2>1. \/ e = Inprogress
        \/ e.status = "committing" /\ e.csn \in COMMITSEQNO_FIRST_NORMAL..commitCSN[w]
    BY Zenon, <1>1, <1>6 DEF WriterOK, Unfinished, e
  <2>2. commitCSN[w] = 0 \/ commitCSN[w] \in COMMITSEQNO_FIRST_NORMAL..nextCommitSeqNo
    BY Zenon, <1>1 DEF WriterOK
  <2>3. e = Inprogress \/ (e.status = "committing" /\ e.csn \in CSNs)
    BY SMTT(20), <2>1, <2>2, SnapshotConstants DEF CSNs, COMMITSEQNO_FIRST_NORMAL
  <2> QED
    BY Zenon, <1>3, <1>4, <2>3
<1>7. CASE x >= nextXid
  BY Zenon, <1>1, <1>7 DEF XidsOK
<1>8. CASE x < nextXid
  BY Zenon, <1>1, <1>5, <1>6, <1>8 DEF XidsOK
<1> QED
  BY <1>2, <1>7, <1>8

(* The counters and the horizons never leave their ranges, a csnlog entry is one the   *)
(* code writes, as many csns are taken as transactions commit, and a slot of the ring  *)
(* counts exactly the readers that hold it (IncrRefCount, DecrRefCount).               *)
THEOREM TypesHold == Spec => []TypeOK
<1>1. CutInv /\ CountTyped /\ RefsCounted /\ CSNsCounted => TypeOK
  <2> SUFFICES ASSUME CutInv, CountTyped, RefsCounted, CSNsCounted
               PROVE  TypeOK
    OBVIOUS
  <2>1. SharedTypes /\ WriterTypes /\ ReaderTypes /\ HorizonsOK /\ \A w \in Writers : WriterOK(w)
    BY Zenon DEF CutInv
  <2>2. nextCommitSeqNo \in CSNs
    BY Zenon, CSNInRange
  <2>3. nextXid \in 1..MaxXid + 1 /\ latestCompletedXid \in 0..MaxXid
    BY SMTT(20), <2>1, SnapshotConstants DEF SharedTypes, HorizonsOK
  <2>4. shmemXmin \in 1..MaxXid + 1 /\ recentLocalXmin \in 1..MaxXid + 1
    BY <2>1, <2>3, SnapshotConstants DEF HorizonsOK
  <2>5. csnlog \in [Xids -> {Inprogress, Aborted} \cup {Committing(c) : c \in CSNs} \cup {Committed(c) : c \in CSNs}]
    BY Zenon, <2>1, <2>2, EntriesInRange DEF SharedTypes
  <2>6. \A w \in Writers : xid[w] \in 0..MaxXid /\ lockXid[w] \in 0..MaxXid
    <3> SUFFICES ASSUME NEW w \in Writers
                 PROVE  xid[w] \in 0..MaxXid /\ lockXid[w] \in 0..MaxXid
      OBVIOUS
    <3>1. wpc[w] \in {"idle", "end", "unlock"} \cup Unfinished \cup Calculating
      BY Zenon, <2>1 DEF WriterTypes
    <3>2. xid[w] \in {0} \cup Xids /\ lockXid[w] \in {0} \cup Xids
      BY ZenonT(40), <2>1, <3>1 DEF WriterOK
    <3> QED
      BY SMTT(20), <3>2, SnapshotConstants DEF Xids
  <2>7. \A w \in Writers : commitCSN[w] \in {0} \cup CSNs
    BY <2>1, <2>2, SnapshotConstants DEF WriterOK, CSNs, COMMITSEQNO_FIRST_NORMAL
  <2>8. xid \in [Writers -> 0..MaxXid] /\ lockXid \in [Writers -> 0..MaxXid] /\ commitCSN \in [Writers -> {0} \cup CSNs]
    BY Zenon, <2>1, <2>6, <2>7 DEF WriterTypes
  <2>9. xmin \in [Readers -> 0..MaxXid + 1]
    <3>1. \A r \in Readers : xmin[r] <= nextXid /\ xmin[r] \in Nat
      BY Zenon, <2>1 DEF CutInv, ReaderOK, ReaderTypes
    <3>2. \A r \in Readers : xmin[r] \in 0..MaxXid + 1
      BY SMTT(20), <2>3, <3>1, SnapshotConstants
    <3> QED
      BY Zenon, <2>1, <3>2 DEF ReaderTypes
  <2> QED
    BY ZenonT(40), <2>1, <2>2, <2>3, <2>4, <2>5, <2>8, <2>9
       DEF TypeOK, SharedTypes, WriterTypes, RefsCounted, Holders, Pinned, CountTyped
<1>2. CutInv /\ RefsCounted /\ CSNsCounted /\ [Next]_vars => (RefsCounted /\ CSNsCounted)'
  BY Zenon, StepCounts
<1> QED
  BY <1>1, <1>2, InitCounts, CutInvariant, CountIsNat, PTL DEF Spec

-----------------------------------------------------------------------------
(* The search for a slot *)

(* A reader holds the slot, or has read the pointer to it and is going to *)
Wanted(i) == \E r \in Readers : snapxid[r] = i /\ rpc[r] \in Pinned \cup {"pin"}

(* A slot that nobody wants, behind the current one, which this round of the search *)
(* has yet to look at                                                               *)
FreeAhead == \E j \in 1..MaxNumSnapVersion - 1 :
                 nofindCount < MaxNumSnapVersion + j /\ ~Wanted(Behind(j))

(* From its second round on, the search has such a slot before it *)
ScanOK(w) ==
    /\ wpc[w] # "panic"
    /\ wpc[w] = "publish" => nofindCount = 0
    /\ wpc[w] = "find_next" =>
          snapNext = snapCurrent /\ (nofindCount >= MaxNumSnapVersion => FreeAhead)

(* Outside a search the count is 0 *)
ScanInv ==
    /\ nofindCount \in Nat
    /\ (\A w \in Writers : wpc[w] # "find_next") => nofindCount = 0
    /\ \A w \in Writers : ScanOK(w)

(* Counting slots round the ring *)
LEMMA RoundTheRing ==
    ASSUME SharedTypes
    PROVE  /\ Behind(MaxNumSnapVersion) = snapCurrent
           /\ \A j \in 1..MaxNumSnapVersion - 1 :
                 Behind(j) # snapCurrent /\ Behind(MaxNumSnapVersion + j) = Behind(j)
           /\ \A i \in Ring : i # snapCurrent => \E j \in 1..MaxNumSnapVersion - 1 : Behind(j) = i
<1> DEFINE N == MaxNumSnapVersion
<1>1. N \in Nat /\ N >= 2 /\ snapCurrent \in 0..N - 1
  BY RingHasNext DEF SharedTypes, Ring
<1>2. \A a \in 0..N - 1 : a % N = a
  BY RingHasNext
<1>3. \A a \in 0..N - 1 : (a + N) % N = a
  BY RingHasNext
<1>4. \A a \in 0..N - 1 : (a + N + N) % N = a
  BY RingHasNext
<1>5. Behind(N) = snapCurrent
  BY Zenon, <1>1, <1>3 DEF Behind
<1>6. ASSUME NEW j \in 1..N - 1
      PROVE  Behind(j) # snapCurrent /\ Behind(N + j) = Behind(j)
  <2>1. CASE snapCurrent + j < N
    <3>1. snapCurrent + j \in 0..N - 1 /\ snapCurrent + (N + j) = snapCurrent + j + N
      BY <1>1, <2>1
    <3>2. Behind(j) = snapCurrent + j /\ Behind(N + j) = snapCurrent + j
      BY Zenon, <1>2, <1>3, <3>1 DEF Behind
    <3> QED
      BY <1>1, <3>2
  <2>2. CASE snapCurrent + j >= N
    <3> DEFINE a == snapCurrent + j - N
    <3>1. /\ a \in 0..N - 1 /\ snapCurrent + j = a + N /\ snapCurrent + (N + j) = a + N + N
          /\ a # snapCurrent
      BY <1>1, <2>2
    <3> HIDE DEF a
    <3>2. Behind(j) = a /\ Behind(N + j) = a
      BY Zenon, <1>3, <1>4, <3>1 DEF Behind
    <3> QED
      BY Zenon, <3>1, <3>2
  <2> QED
    BY <1>1, <2>1, <2>2
<1>7. ASSUME NEW i \in Ring, i # snapCurrent
      PROVE  \E j \in 1..N - 1 : Behind(j) = i
  <2>0. i \in 0..N - 1
    BY DEF Ring
  <2>1. CASE i > snapCurrent
    <3>1. i - snapCurrent \in 1..N - 1 /\ snapCurrent + (i - snapCurrent) = i
      BY <1>1, <2>0, <2>1
    <3> QED
      BY Zenon, <1>2, <2>0, <3>1 DEF Behind
  <2>2. CASE i < snapCurrent
    <3>1. i + N - snapCurrent \in 1..N - 1 /\ snapCurrent + (i + N - snapCurrent) = i + N
      BY <1>1, <2>0, <2>2
    <3> QED
      BY Zenon, <1>3, <2>0, <3>1 DEF Behind
  <2> QED
    BY <1>1, <1>7, <2>0, <2>1, <2>2
<1> QED
  BY Zenon, <1>5, <1>6, <1>7

(* Fewer readers than slots leave a slot that nobody wants *)
LEMMA SomeSlotFree ==
    ASSUME CutInv, Cardinality(Readers) < MaxNumSnapVersion
    PROVE  \E i \in Ring : ~Wanted(i)
<1> SUFFICES ASSUME \A i \in Ring : Wanted(i)
             PROVE  FALSE
  OBVIOUS
<1>1. snapxid \in [Readers -> Ring]
  BY Zenon DEF CutInv, ReaderTypes
<1>2. \A i \in Ring : \E r \in Readers : snapxid[r] = i
  BY Zenon DEF Wanted
<1>3. snapxid \in Surjection(Readers, Ring)
  BY Zenon, <1>1, <1>2 DEF Surjection
<1>4. Cardinality(Ring) <= Cardinality(Readers)
  BY Zenon, <1>3, SnapshotConstants, FS_Surjection
<1>5. Cardinality(Ring) = MaxNumSnapVersion
  <2>1. Cardinality(0..MaxNumSnapVersion - 1)
          = IF 0 > MaxNumSnapVersion - 1 THEN 0 ELSE MaxNumSnapVersion - 1 - 0 + 1
    BY RingHasNext, FS_Interval
  <2> QED
    BY <2>1, RingHasNext DEF Ring
<1>6. Cardinality(Readers) \in Nat
  BY Zenon, SnapshotConstants, FS_CardinalityType
<1> QED
  BY <1>4, <1>5, <1>6, RingHasNext

(* A slot without references has no holder, and a slot with some has one *)
LEMMA UsedIsWanted ==
    ASSUME RefsCounted, NEW i \in Ring, refcnt[i] # 0
    PROVE  Wanted(i)
<1>1. Cardinality(Holders(i)) # 0
  BY Zenon DEF RefsCounted
<1>2. Holders(i) # {}
  BY Zenon, <1>1, FS_EmptySet
<1> QED
  BY Zenon, <1>2 DEF Holders, Wanted

(* One step of the search *)
LEMMA SearchStep ==
    ASSUME CutInv, RefsCounted, ScanInv, Cardinality(Readers) < MaxNumSnapVersion,
           NEW w \in Writers, SetNextSnapXid(w)
    PROVE  ScanInv'
<1> DEFINE N == MaxNumSnapVersion
           n == nofindCount + 1
           slot == Behind(n)
<1>1. SharedTypes /\ WriterTypes /\ ScanOK(w) /\ wpc[w] = "find_next" /\ nofindCount \in Nat
  BY Zenon DEF CutInv, ScanInv, SetNextSnapXid
<1>2. \A v \in Writers \ {w} : wpc[v] \notin {"find_next", "publish", "panic"}
  <2>1. \A v \in Writers : wpc[v] \in Calculating <=> procArrayLock = v
    BY Zenon DEF CutInv, WriterOK
  <2> QED
    BY Zenon, <1>1, <2>1 DEF Calculating
<1>3. snapCurrent' = snapCurrent /\ snapxid' = snapxid /\ rpc' = rpc /\ snapNext = snapCurrent
  BY Zenon, <1>1 DEF SetNextSnapXid, reader, ScanOK
<1>4. \A i \in Nat : Behind(i)' = Behind(i) /\ Wanted(Behind(i))' = Wanted(Behind(i))
  BY Zenon, <1>3 DEF Behind, Wanted
<1>5. N \in Nat /\ N >= 2 /\ SNAP_ERROR_COUNT \in Nat /\ SNAP_ERROR_COUNT > N /\ n \in Nat
  BY <1>1, RingHasNext
<1>6. slot \in Ring
  BY Zenon, <1>1, <1>5, BehindInRing
<1>7. CASE refcnt[slot] = 0
  <2>1. nofindCount' = 0 /\ wpc' = [wpc EXCEPT ![w] = "unlock"]
    BY Zenon, <1>7 DEF SetNextSnapXid, WGoto
  <2>2. wpc'[w] = "unlock" /\ \A v \in Writers \ {w} : wpc'[v] = wpc[v]
    BY Zenon, <1>1, <2>1 DEF WriterTypes
  <2>3. \A v \in Writers : wpc'[v] \notin {"find_next", "publish", "panic"}
    BY Zenon, <1>2, <2>2
  <2>4. \A v \in Writers : ScanOK(v)'
    BY Zenon, <2>3 DEF ScanOK
  <2> QED
    BY <2>1, <2>4 DEF ScanInv
<1>8. CASE refcnt[slot] # 0
  <2>1. /\ nofindCount' = n /\ snapNext' = snapNext
        /\ wpc' = [wpc EXCEPT ![w] = IF GivesUp(slot, n) THEN "panic" ELSE "find_next"]
    BY Zenon, <1>8 DEF SetNextSnapXid, WGoto
  <2>2. Wanted(slot)
    BY Zenon, <1>6, <1>8, UsedIsWanted
  <2>3. ASSUME nofindCount >= N
        PROVE  \E j \in 1..N - 1 : nofindCount < N + j /\ ~Wanted(Behind(j))
    BY Zenon, <1>1, <2>3 DEF ScanOK, FreeAhead
  <2>4. /\ Behind(N) = snapCurrent
        /\ \A j \in 1..N - 1 : Behind(j) # snapCurrent /\ Behind(N + j) = Behind(j)
        /\ \A i \in Ring : i # snapCurrent => \E j \in 1..N - 1 : Behind(j) = i
    BY Zenon, <1>1, RoundTheRing
  <2>5. ~GivesUp(slot, n)
    <3> SUFFICES ASSUME slot = snapCurrent, n >= SNAP_ERROR_COUNT
                 PROVE  FALSE
      BY Zenon, <1>3 DEF GivesUp
    <3>1. nofindCount >= N
      BY <1>1, <1>5
    <3>2. PICK j \in 1..N - 1 : nofindCount < N + j
      BY Zenon, <2>3, <3>1
    <3>3. n - N \in 1..N - 1 /\ n = N + (n - N)
      BY <1>1, <1>5, <3>2
    <3> QED
      BY Zenon, <2>4, <3>3
  <2>6. ASSUME n >= N
        PROVE  \E j \in 1..N - 1 : n < N + j /\ ~Wanted(Behind(j))
    <3>1. CASE n = N
      <4>1. PICK i \in Ring : ~Wanted(i)
        BY Zenon, SomeSlotFree
      <4>2. PICK j \in 1..N - 1 : Behind(j) = i
        BY Zenon, <2>2, <2>4, <3>1, <4>1
      <4>3. n < N + j
        BY <1>5, <3>1
      <4> QED
        BY Zenon, <4>1, <4>2, <4>3
    <3>2. CASE n > N
      <4>1. nofindCount >= N
        BY <1>1, <1>5, <3>2
      <4>2. PICK j \in 1..N - 1 : nofindCount < N + j /\ ~Wanted(Behind(j))
        BY Zenon, <2>3, <4>1
      <4>3. n # N + j
        BY Zenon, <2>2, <2>4, <4>2
      <4>4. n < N + j
        BY <1>1, <1>5, <4>2, <4>3
      <4> QED
        BY Zenon, <4>2, <4>4
    <3> QED
      BY <1>5, <2>6, <3>1, <3>2
  <2>7. wpc'[w] = "find_next" /\ \A v \in Writers \ {w} : wpc'[v] = wpc[v]
    BY Zenon, <1>1, <2>1, <2>5 DEF WriterTypes
  <2>8. n >= N => FreeAhead'
    <3>1. 1..N - 1 \subseteq Nat
      BY <1>5
    <3> QED
      BY Zenon, <1>4, <2>1, <2>6, <3>1 DEF FreeAhead
  <2>9. ScanOK(w)'
    BY Zenon, <1>3, <2>1, <2>7, <2>8 DEF ScanOK
  <2>10. \A v \in Writers \ {w} : ScanOK(v)'
    BY Zenon, <1>2, <2>7 DEF ScanOK
  <2> QED
    BY ZenonT(40), <1>5, <2>1, <2>7, <2>9, <2>10 DEF ScanInv
<1> QED
  BY Zenon, <1>7, <1>8

(* Readers that come later want the current slot *)
LEMMA ReaderScan ==
    ASSUME CutInv, ScanInv, NEW r \in Readers, ReaderStep(r)
    PROVE  ScanInv'
<1>1. SharedTypes /\ ReaderTypes
  BY Zenon DEF CutInv
<1>2. wpc' = wpc
  BY Zenon, ReaderTakesNoCSN
<1>3. snapCurrent' = snapCurrent /\ snapNext' = snapNext /\ nofindCount' = nofindCount
  BY Zenon DEF ReaderStep, GetCurrentSnapXid, IncrRefCount, SetPgxactXmin, CopySnapshot,
     DecrRefCount, ReadSnapshotCSN, SwitchSnapshot, EndReader, SyncWaitXidEnd, SyncWaitFails, LookAgain,
     NextStatement, XidVisibleInSnapshot, StatusMissing, ringVars
<1>4. ASSUME NEW q \in Readers, rpc'[q] \in Pinned \cup {"pin"}, snapxid'[q] # snapCurrent
      PROVE  rpc[q] \in Pinned \cup {"pin"} /\ snapxid'[q] = snapxid[q]
  <2>1. CASE GetCurrentSnapXid(r) \/ \E cursor \in BOOLEAN : NextStatement(r, cursor)
    <3>1. snapxid' = [snapxid EXCEPT ![r] = snapCurrent] /\ rpc' = [rpc EXCEPT ![r] = "pin"]
      BY Zenon, <2>1 DEF GetCurrentSnapXid, NextStatement, RGoto
    <3> QED
      BY Zenon, <1>1, <1>4, <3>1 DEF ReaderTypes
  <2>2. CASE IncrRefCount(r) \/ SetPgxactXmin(r) \/ CopySnapshot(r)
    <3>1. /\ snapxid' = snapxid /\ rpc[r] \in {"pin", "set_xmin", "copy"}
          /\ \E to : rpc' = [rpc EXCEPT ![r] = to]
      BY Zenon, <2>2 DEF IncrRefCount, SetPgxactXmin, CopySnapshot, RGoto
    <3> QED
      BY Zenon, <1>1, <1>4, <3>1 DEF ReaderTypes, Pinned
  <2>3. CASE DecrRefCount(r)
    <3>1. snapxid' = [snapxid EXCEPT ![r] = 0] /\ rpc' = [rpc EXCEPT ![r] = "read_csn"]
      BY Zenon, <2>3 DEF DecrRefCount, RGoto
    <3>2. "read_csn" \notin Pinned \cup {"pin"}
      BY Zenon DEF Pinned
    <3> QED
      BY Zenon, <1>1, <1>4, <3>1, <3>2 DEF ReaderTypes
  <2>4. CASE ReadSnapshotCSN(r) \/ SwitchSnapshot(r) \/ EndReader(r) \/ SyncWaitXidEnd(r) \/ SyncWaitFails(r)
             \/ LookAgain(r) \/ \E x \in Xids : XidVisibleInSnapshot(r, x) \/ StatusMissing(r, x)
    <3>1. /\ snapxid' = snapxid
          /\ rpc' = rpc \/ \E to \in {"ready", "idle", "look_again", "wait"} : rpc' = [rpc EXCEPT ![r] = to]
      BY Zenon, <2>4 DEF ReadSnapshotCSN, SwitchSnapshot, EndReader, SyncWaitXidEnd, SyncWaitFails, LookAgain,
         XidVisibleInSnapshot, StatusMissing, LeaveTransaction, RGoto
    <3>2. \A to \in {"ready", "idle", "look_again", "wait"} : to \notin Pinned \cup {"pin"}
      BY Zenon DEF Pinned
    <3> QED
      BY Zenon, <1>1, <1>4, <3>1, <3>2 DEF ReaderTypes
  <2> QED
    BY Zenon, <2>1, <2>2, <2>3, <2>4 DEF ReaderStep
<1>5. FreeAhead => FreeAhead'
  <2> SUFFICES ASSUME FreeAhead
               PROVE  FreeAhead'
    OBVIOUS
  <2>1. PICK j \in 1..MaxNumSnapVersion - 1 : nofindCount < MaxNumSnapVersion + j /\ ~Wanted(Behind(j))
    BY Zenon DEF FreeAhead
  <2>2. Behind(j) # snapCurrent /\ Behind(j)' = Behind(j)
    BY Zenon, <1>1, <1>3, RoundTheRing DEF Behind
  <2>3. ~Wanted(Behind(j))'
    BY Zenon, <1>4, <2>1, <2>2 DEF Wanted
  <2> QED
    BY Zenon, <1>3, <2>1, <2>3 DEF FreeAhead
<1> QED
  BY Zenon, <1>2, <1>3, <1>5 DEF ScanInv, ScanOK

(* The search moves on only by its own steps *)
LEMMA ScanFrame ==
    ASSUME snapCurrent' = snapCurrent, snapNext' = snapNext, nofindCount' = nofindCount,
           snapxid' = snapxid, rpc' = rpc
    PROVE  /\ FreeAhead' = FreeAhead
           /\ \A v \in Writers : wpc'[v] = wpc[v] /\ ScanOK(v) => ScanOK(v)'
<1>1. FreeAhead' = FreeAhead
  BY Zenon DEF FreeAhead, Behind, Wanted
<1> QED
  BY Zenon, <1>1 DEF ScanOK

(* The writer that publishes holds ProcArrayLock, and its search starts at 0 *)
LEMMA WriterScan ==
    ASSUME CutInv, ScanInv, NEW w \in Writers, WriterStep(w), ~SetNextSnapXid(w)
    PROVE  ScanInv'
<1>1. /\ wpc \in [Writers -> {"idle", "end", "unlock"} \cup Unfinished \cup Calculating]
      /\ \A v \in Writers : ScanOK(v)
  BY Zenon DEF CutInv, WriterTypes, ScanInv
<1>2. snapxid' = snapxid /\ rpc' = rpc
  BY Zenon, WriterTakesNoReference DEF reader
<1>3. nofindCount' = nofindCount
  BY Zenon DEF WriterStep, AssignTransactionId, ReadLatestCSN, SetXact2CommitInProgress,
     getLocalNextCSN, CommitCLog, UpdateCSNLogAtTransactionEND, TransactionIdAbortTree,
     ProcArrayEndTransaction, ReleaseXidLock, ScanRing, DeferCalculation, ScanProcs, StoreSnapshot,
     PublishSnapshot, ringVars
<1>4. ASSUME wpc[w] \in Calculating
      PROVE  \A v \in Writers \ {w} : wpc[v] \notin Calculating
  <2>1. \A v \in Writers : wpc[v] \in Calculating <=> procArrayLock = v
    BY Zenon DEF CutInv, WriterOK
  <2> QED
    BY Zenon, <1>4, <2>1
<1>5. CASE StoreSnapshot(w)
  <2>1. /\ wpc[w] = "store" /\ wpc' = [wpc EXCEPT ![w] = "publish"]
        /\ snapCurrent' = snapCurrent /\ snapNext' = snapNext
    BY Zenon, <1>5 DEF StoreSnapshot, WGoto
  <2>2. wpc'[w] = "publish" /\ \A v \in Writers \ {w} : wpc'[v] = wpc[v]
    BY Zenon, <1>1, <2>1
  <2>3. nofindCount = 0
    BY Zenon, <1>4, <2>1 DEF ScanInv, Calculating
  <2>4. \A v \in Writers : ScanOK(v)'
    BY ZenonT(40), <1>1, <1>2, <1>3, <2>1, <2>2, <2>3, ScanFrame DEF ScanOK
  <2> QED
    BY Zenon, <1>3, <2>3, <2>4 DEF ScanInv
<1>6. CASE PublishSnapshot(w)
  <2>1. /\ wpc[w] = "publish" /\ wpc' = [wpc EXCEPT ![w] = "find_next"]
        /\ snapCurrent' = snapNext /\ snapNext' = snapNext
    BY Zenon, <1>6 DEF PublishSnapshot, WGoto
  <2>2. wpc'[w] = "find_next" /\ \A v \in Writers \ {w} : wpc'[v] = wpc[v] /\ wpc[v] \notin Calculating
    BY Zenon, <1>1, <1>4, <2>1 DEF Calculating
  <2>3. nofindCount = 0
    BY Zenon, <1>1, <2>1 DEF ScanOK
  <2>4. ~(nofindCount' >= MaxNumSnapVersion)
    BY <1>3, <2>3, RingHasNext
  <2>5. \A v \in Writers : ScanOK(v)'
    BY Zenon, <2>1, <2>2, <2>4 DEF ScanOK, Calculating
  <2> QED
    BY Zenon, <1>3, <2>3, <2>5 DEF ScanInv
<1>7. CASE ~StoreSnapshot(w) /\ ~PublishSnapshot(w)
  <2>1. /\ snapCurrent' = snapCurrent /\ snapNext' = snapNext /\ wpc[w] # "find_next"
        /\ \E to \in Unfinished \cup {"idle", "end", "calculate", "scan_procs", "store", "unlock"} :
              wpc' = [wpc EXCEPT ![w] = to]
    <3>1. CASE \/ AssignTransactionId(w) \/ ReadLatestCSN(w) \/ SetXact2CommitInProgress(w)
               \/ getLocalNextCSN(w) \/ CommitCLog(w)
      BY Zenon, <3>1 DEF AssignTransactionId, ReadLatestCSN, SetXact2CommitInProgress,
         getLocalNextCSN, CommitCLog, ringVars, WGoto, Unfinished
    <3>2. CASE \/ UpdateCSNLogAtTransactionEND(w) \/ TransactionIdAbortTree(w) \/ ProcArrayEndTransaction(w)
               \/ ReleaseXidLock(w) \/ ScanRing(w) \/ DeferCalculation(w) \/ ScanProcs(w)
      BY Zenon, <3>2 DEF UpdateCSNLogAtTransactionEND, TransactionIdAbortTree, ProcArrayEndTransaction,
         ReleaseXidLock, ScanRing, DeferCalculation, ScanProcs, ringVars, WGoto, Unfinished
    <3> QED
      BY Zenon, <1>7, <3>1, <3>2 DEF WriterStep
  <2>2. /\ wpc'[w] \notin {"find_next", "publish", "panic"}
        /\ \A v \in Writers \ {w} : wpc'[v] = wpc[v]
    BY Zenon, <1>1, <2>1 DEF Unfinished
  <2>3. ScanOK(w)'
    BY Zenon, <2>2 DEF ScanOK
  <2>4. \A v \in Writers : ScanOK(v)'
    BY ZenonT(40), <1>1, <1>2, <1>3, <2>1, <2>2, <2>3, ScanFrame
  <2> QED
    BY Zenon, <1>3, <2>1, <2>2, <2>4 DEF ScanInv
<1> QED
  BY Zenon, <1>5, <1>6, <1>7

(* In a ring with more slots than readers no search ends in a PANIC, whatever the     *)
(* number of writers and of transactions, and however the readers hold and drop slots: *)
(* two rounds are enough, and the limit SNAP_ERROR_COUNT is more than one.             *)
THEOREM RingIsLargeEnough == Spec => []RingSuffices
<1>1. CASE Cardinality(Readers) < MaxNumSnapVersion
  <2>1. Init => ScanInv
    <3>1. Init => nofindCount \in Nat /\ nofindCount = 0
      BY DEF Init
    <3>2. Init => \A w \in Writers : wpc[w] = "idle"
      BY ZenonT(40) DEF Init
    <3> QED
      BY Zenon, <3>1, <3>2 DEF ScanInv, ScanOK
  <2>2. CutInv /\ RefsCounted /\ ScanInv /\ [Next]_vars => ScanInv'
    <3> SUFFICES ASSUME CutInv, RefsCounted, ScanInv, [Next]_vars
                 PROVE  ScanInv'
      OBVIOUS
    <3>1. CASE CheckpointScan \/ TruncateCSNLOG \/ UNCHANGED vars
      <4>1. /\ snapCurrent' = snapCurrent /\ snapNext' = snapNext /\ nofindCount' = nofindCount
            /\ snapxid' = snapxid /\ rpc' = rpc /\ wpc' = wpc
        BY Zenon, <3>1 DEF CheckpointScan, TruncateCSNLOG, vars, ringVars, reader, writer
      <4> QED
        BY Zenon, <4>1, ScanFrame DEF ScanInv
    <3> QED
      BY Zenon, <1>1, <3>1, SearchStep, WriterScan, ReaderScan DEF Next
  <2>3. CutInv /\ RefsCounted /\ CSNsCounted /\ [Next]_vars => (RefsCounted /\ CSNsCounted)'
    BY Zenon, StepCounts
  <2>4. ScanInv /\ TypeOK => RingSuffices
    BY Zenon DEF ScanInv, ScanOK, RingSuffices, Panicked
  <2> QED
    BY <2>1, <2>2, <2>3, <2>4, InitCounts, CutInvariant, TypesHold, PTL DEF Spec
<1>2. CASE ~(Cardinality(Readers) < MaxNumSnapVersion)
  <2>1. TypeOK => RingSuffices
    BY Zenon, <1>2 DEF RingSuffices
  <2> QED
    BY <2>1, TypesHold, PTL
<1> QED
  BY Zenon, <1>1, <1>2

=============================================================================
