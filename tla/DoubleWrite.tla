---------------------------- MODULE DoubleWrite ----------------------------
(***************************************************************************)
(* The batch double write of the page writers (double_write.cpp,           *)
(* pagewriter.cpp) with crashes and the repair at startup.                 *)
(*                                                                         *)
(* A page is only written in place once a copy of it is in the double      *)
(* write file: a crash may leave a page that was not synced torn, and the  *)
(* startup repairs it from the copy.  The file is a chain of batches       *)
(* (head, data pages, tail; a tail is the head of the next batch) from the *)
(* position in the file head, and is only reused after a sync.             *)
(*                                                                         *)
(* The content of a page is its LSN, counted per page: mem[p] in the       *)
(* buffer, cached[p] as last written, durable[p] as last synced; Torn is   *)
(* below every LSN.  walFlushed[p] is how far the log of p is flushed.     *)
(***************************************************************************)
EXTENDS Integers, FiniteSetsExt, SequencesExt

CONSTANTS Pages, Writers,
          Owner,        \* Owner[p]: the writer that scans p's part of the buffer pool
          BatchPages,   \* DW_BATCH_DATA_PAGE_MAX: the data pages of one batch
          Settings,     \* the size of the file and what may happen: bounds, and who takes part
          Nobody

Torn == -1
NoIdx == -1
Blank == << >>

(* DW_BATCH_FILE_START, DW_DIRTY_PAGE_MAX, DW_BUF_MAX *)
FileStart == 1
DirtyPageMax == 2 * BatchPages
BufMax == DirtyPageMax + 3

ASSUME Sizes == /\ BatchPages \in Nat \ {0}
                /\ \A s \in Settings : s.filePages \in Nat /\ s.filePages > FileStart + BufMax
                /\ Owner \in [Pages -> Writers]

VARIABLES
    setting,                         \* one of Settings, for good
    busy, errors,                    \* how often a content lock is still found taken, or an I/O fails
    mem, dirty, needed, walFlushed,  \* buffers: LSN, BM_DIRTY, BM_CHECKPOINT_NEEDED
    ckptIds, running,                \* CkptBufferIds not yet applied; writers with need_flush
    pc, todo, buf, pageIdx,          \* writers: step, pages left, dw_buf, dw_page_idx
    head, flushPage, flushLock,      \* file_head, flush_page and flush_lock in memory
    ckpt,                            \* the checkpointer in dw_truncate
    boot, broken,                    \* the startup: step, dw_file_broken
    crashes,                         \* crashes to come
    file, cached, durable,           \* the disk: double write file, data pages
    floor                            \* history: the LSN of p as of its last sync

chances == <<busy, errors>>
buffers == <<mem, dirty, needed, walFlushed>>
round == <<ckptIds, running>>
writers == <<pc, todo, buf, pageIdx>>
space == <<head, flushPage, flushLock>>
startup == <<boot, broken, crashes>>
data == <<cached, durable, floor>>
vars == <<setting, chances, buffers, round, writers, space, ckpt, startup, file, data>>

(* dw_batch_page_num: the pages of the file, the file head included *)
FilePages == setting.filePages

-----------------------------------------------------------------------------
(* The double write file *)

HeadPage(id, dwn, tags) == [id |-> id, dwn |-> dwn, tags |-> tags]
DataPage(p, lsn) == [page |-> p, lsn |-> lsn]

(* dw_verify_page: the page is a whole batch head or tail *)
IsHead(c) == c # Blank /\ "tags" \in DOMAIN c

dw_batch_tail_page(f, pos) == pos + Len(f[pos].tags) + 1

dw_verify_batch(f, pos, dwn) ==
    /\ IsHead(f[pos]) /\ f[pos].dwn = dwn
    /\ LET tail == dw_batch_tail_page(f, pos)
       IN tail < FilePages /\ IsHead(f[tail]) /\ f[tail].dwn = dwn

dw_batch_head_broken(f, pos) ==
    ~IsHead(f[pos]) \/ (f[pos].tags # <<>> /\ f[pos].id # FileStart)

dw_batch_add_extra(n) == IF n <= BatchPages THEN n + 2 ELSE n + 3

Full(pages) == head.start + flushPage + pages >= FilePages

(* The pages of the file that batch b written at position pos covers *)
dw_assemble_batch(b, pos, dwn) ==
    LET tags == [i \in DOMAIN b |-> b[i].page]
        first == SubSeq(tags, 1, Min({Len(b), BatchPages}))
        second == SubSeq(tags, Len(first) + 1, Len(b))
        h2 == pos + Len(first) + 1
        last == pos + dw_batch_add_extra(Len(b)) - 1
    IN [i \in pos .. last |->
          IF i = pos THEN HeadPage(i, dwn, first)
          ELSE IF i = h2 THEN HeadPage(i, dwn, second)
          ELSE IF i = last THEN HeadPage(i, dwn, <<>>)
          ELSE b[i - pos - (IF i > h2 THEN 1 ELSE 0)]]

Overwrite(f, new) == [i \in DOMAIN f |-> IF i \in DOMAIN new THEN new[i] ELSE f[i]]

FileHead(f) == f[0]

(* PageWriterSync: what is written when the sync starts is durable when it returns *)
PageWriterSync ==
    /\ durable' = cached
    /\ floor' = [p \in Pages |-> Max({floor[p], cached[p]})]
    /\ UNCHANGED cached

-----------------------------------------------------------------------------
Init ==
    /\ setting \in Settings
    /\ busy = setting.busy /\ errors = setting.errors /\ crashes = setting.crashes
    /\ mem = [p \in Pages |-> 0] /\ walFlushed = mem
    /\ dirty = [p \in Pages |-> FALSE] /\ needed = dirty
    /\ ckptIds = {} /\ running = {}
    /\ pc = [w \in Writers |-> "idle"]
    /\ todo = [w \in Writers |-> <<>>] /\ buf = todo
    /\ pageIdx = [w \in Writers |-> NoIdx]
    /\ head = [start |-> FileStart, dwn |-> 0] /\ flushPage = 0 /\ flushLock = Nobody
    /\ ckpt = [pc |-> "idle"]
    /\ boot = "up" /\ broken = FALSE
    /\ file = [i \in 0 .. FilePages - 1 |->
                 IF i = 0 THEN head ELSE IF i = FileStart THEN HeadPage(i, 0, <<>>) ELSE Blank]
    /\ cached = mem /\ durable = mem /\ floor = mem

-----------------------------------------------------------------------------
(* Backends and the WAL writer *)

MarkBufferDirty(p) ==
    /\ mem[p] < setting.lsns[p]
    /\ mem' = [mem EXCEPT ![p] = @ + 1]
    /\ dirty' = [dirty EXCEPT ![p] = TRUE]
    /\ UNCHANGED <<setting, chances, needed, walFlushed, round, writers, space, ckpt, startup,
                   file, data>>

XLogFlush(p) ==
    /\ walFlushed[p] < mem[p]
    /\ walFlushed' = [walFlushed EXCEPT ![p] = mem[p]]
    /\ UNCHANGED <<setting, chances, mem, dirty, needed, round, writers, space, ckpt, startup,
                   file, data>>

-----------------------------------------------------------------------------
(* The page writers *)

(* The main thread, when no sub-thread runs: the dirty pages of the queue are marked *)
(* and the sub-threads woken.                                                        *)
StartRound ==
    LET queued == {p \in Pages : dirty[p]}
    IN /\ running = {} /\ queued # {}
       /\ needed' = [p \in Pages |-> needed[p] \/ p \in queued]
       /\ ckptIds' = queued
       /\ running' = Writers
       /\ pc' = [w \in Writers |-> "scan"]
       /\ UNCHANGED <<setting, chances, mem, dirty, walFlushed, todo, buf, pageIdx, space, ckpt,
                      startup, file, data>>

(* A sub-thread has a list of pages to flush: copies first *)
Take(w, s) ==
    /\ todo' = [todo EXCEPT ![w] = SetToSeq(s)]
    /\ buf' = [buf EXCEPT ![w] = <<>>]
    /\ pc' = [pc EXCEPT ![w] = "copy"]

(* get_candidate_buf_and_flush_list: dirty pages of the sub-thread's own part of the   *)
(* pool, whose log is flushed; which of them is up to pins and usage counts            *)
Scan(w) ==
    /\ pc[w] = "scan"
    /\ \E s \in SUBSET {p \in Pages : Owner[p] = w /\ dirty[p] /\ mem[p] <= walFlushed[p]} :
          IF s = {}
          THEN pc' = [pc EXCEPT ![w] = "apply"] /\ UNCHANGED <<todo, buf, needed>>
          ELSE /\ Cardinality(s) <= DirtyPageMax /\ Take(w, s)
               /\ needed' = [p \in Pages |-> needed[p] \/ p \in s]
    /\ UNCHANGED <<setting, chances, mem, dirty, walFlushed, round, pageIdx, space, ckpt, startup,
                   file, data>>

(* apply_batch_flush_pages: the next pages of CkptBufferIds, or the end of the round *)
Apply(w) ==
    /\ pc[w] = "apply"
    /\ IF ckptIds = {}
       THEN /\ pc' = [pc EXCEPT ![w] = "idle"] /\ running' = running \ {w}
            /\ UNCHANGED <<ckptIds, todo, buf>>
       ELSE \E s \in kSubset(Min({Cardinality(ckptIds), DirtyPageMax}), ckptIds) :
               Take(w, s) /\ ckptIds' = ckptIds \ s /\ UNCHANGED running
    /\ UNCHANGED <<setting, chances, buffers, pageIdx, space, ckpt, startup, file, data>>

(* dw_copy_page: a page no longer dirty or marked, or whose content lock is taken, is  *)
(* left out of the list                                                                *)
CopyPage(w) ==
    /\ pc[w] = "copy"
    /\ LET p == todo[w][1]
           wanted == dirty[p] /\ needed[p]
       IN /\ \/ wanted /\ buf' = [buf EXCEPT ![w] = Append(@, DataPage(p, mem[p]))]
                /\ UNCHANGED <<needed, busy>>
             \/ wanted /\ busy > 0 /\ busy' = busy - 1 /\ UNCHANGED <<buf, needed>>
             \/ ~wanted /\ needed' = [needed EXCEPT ![p] = FALSE] /\ UNCHANGED <<buf, busy>>
          /\ todo' = [todo EXCEPT ![w] = Tail(@)]
          /\ pc' = [pc EXCEPT ![w] = IF todo'[w] # <<>> THEN "copy"
                                     ELSE IF buf'[w] = <<>> THEN "apply" ELSE "lock"]
    /\ UNCHANGED <<setting, errors, mem, dirty, walFlushed, round, pageIdx, space, ckpt, startup,
                   file, data>>

(* Mutant: the log of the copies is not waited for *)
LogNotAwaited(b) == TRUE

(* XLogWaitFlush(latest_lsn) of the copies in a batch returns *)
LogFlushed(b) == \A i \in DOMAIN b : b[i].lsn <= walFlushed[b[i].page]

(* dw_batch_flush up to the recycling of the file *)
LockFile(w) ==
    /\ pc[w] = "lock" /\ flushLock = Nobody
    /\ LogFlushed(buf[w])
    /\ flushLock' = w
    /\ IF Full(dw_batch_add_extra(Len(buf[w])))
       THEN /\ head' = [head EXCEPT !.start = FileStart] /\ flushPage' = 0
            /\ pc' = [pc EXCEPT ![w] = "recycle"]
       ELSE pc' = [pc EXCEPT ![w] = "write"] /\ UNCHANGED <<head, flushPage>>
    /\ UNCHANGED <<setting, chances, buffers, round, todo, buf, pageIdx, ckpt, startup, file, data>>

(* Mutant: the batches in use are not waited for *)
RecycleAtOnce(w) ==
    /\ pc[w] = "recycle"
    /\ PageWriterSync
    /\ pc' = [pc EXCEPT ![w] = "reset"]
    /\ UNCHANGED <<setting, chances, buffers, round, todo, buf, pageIdx, space, ckpt, startup, file>>

(* dw_batch_file_recycle of a full file: no batch is in use, sync, then the new file head *)
RecycleSync(w) ==
    /\ pc[w] = "recycle"
    /\ \A x \in Writers : pageIdx[x] = NoIdx
    /\ PageWriterSync
    /\ pc' = [pc EXCEPT ![w] = "reset"]
    /\ UNCHANGED <<setting, chances, buffers, round, todo, buf, pageIdx, space, ckpt, startup, file>>

RecycleReset(w) ==
    /\ pc[w] = "reset"
    /\ head' = [head EXCEPT !.dwn = @ + 1]
    /\ file' = [file EXCEPT ![0] = head']
    /\ pc' = [pc EXCEPT ![w] = "write"]
    /\ UNCHANGED <<setting, chances, buffers, round, todo, buf, pageIdx, flushPage, flushLock, ckpt,
                   startup, data>>

(* Mutant: the tail is not made the head of the next batch *)
AdvancePastTail(n) == dw_batch_add_extra(n)

(* How far a write of n copies moves the end of the chain *)
Advance(n) == dw_batch_add_extra(n) - 1

(* What is being written to the file by a sub-thread at step "write" *)
Batch(w) == dw_assemble_batch(buf[w], head.start + flushPage, head.dwn)

WriteBatch(w) ==
    /\ pc[w] = "write"
    /\ file' = Overwrite(file, Batch(w))
    /\ pageIdx' = [pageIdx EXCEPT ![w] = head.start + flushPage]
    /\ flushPage' = flushPage + Advance(Len(buf[w]))
    /\ flushLock' = Nobody
    /\ pc' = [pc EXCEPT ![w] = "flush"]
    /\ todo' = [todo EXCEPT ![w] = [i \in DOMAIN buf[w] |-> buf[w][i].page]]
    /\ buf' = [buf EXCEPT ![w] = <<>>]
    /\ UNCHANGED <<setting, chances, buffers, round, head, ckpt, startup, data>>

(* Mutant: the batch stays in use *)
FlushedKeepingBatch(w) == pc' = [pc EXCEPT ![w] = "apply"] /\ UNCHANGED pageIdx

(* The end of a run of incre_ckpt_pgwr_flush_dirty_queue: the batch is no longer in use *)
Flushed(w) == pc' = [pc EXCEPT ![w] = "apply"] /\ pageIdx' = [pageIdx EXCEPT ![w] = NoIdx]

(* SyncOneBuffer, FlushBuffer: written as it is now, once its log is flushed *)
FlushPage(w) ==
    /\ pc[w] = "flush"
    /\ LET p == todo[w][1]
           wanted == dirty[p] /\ needed[p]
       IN /\ \/ /\ wanted /\ mem[p] <= walFlushed[p]
                /\ cached' = [cached EXCEPT ![p] = mem[p]]
                /\ dirty' = [dirty EXCEPT ![p] = FALSE]
                /\ needed' = [needed EXCEPT ![p] = FALSE]
                /\ UNCHANGED busy
             \/ wanted /\ busy > 0 /\ busy' = busy - 1 /\ UNCHANGED <<cached, dirty, needed>>
             \/ ~wanted /\ UNCHANGED <<cached, dirty, needed, busy>>
          /\ todo' = [todo EXCEPT ![w] = Tail(@)]
          /\ IF todo'[w] = <<>> THEN Flushed(w) ELSE UNCHANGED <<pc, pageIdx>>
    /\ UNCHANGED <<setting, errors, mem, walFlushed, round, buf, space, ckpt, startup, file, durable,
                   floor>>

(* An error while a page is copied or written in place: ckpt_pagewriter_handle_exception.   *)
(* The write that failed wrote nothing and its page stays dirty.                            *)
HandleException(w) ==
    /\ errors > 0 /\ errors' = errors - 1
    /\ pc[w] \in {"copy", "flush"}
    /\ running' = running \ {w}
    /\ pageIdx' = [pageIdx EXCEPT ![w] = NoIdx]
    /\ pc' = [pc EXCEPT ![w] = "idle"]
    /\ todo' = [todo EXCEPT ![w] = <<>>] /\ buf' = [buf EXCEPT ![w] = <<>>]
    /\ UNCHANGED <<setting, busy, buffers, ckptIds, space, ckpt, startup, file, data>>

-----------------------------------------------------------------------------
(* The checkpointer: CheckPointBuffers, whose last call is dw_truncate *)

get_dw_page_min_idx ==
    LET inUse == {pageIdx[w] : w \in {x \in Writers : pageIdx[x] # NoIdx}}
    IN IF inUse = {} THEN 0 ELSE Min(inUse)

CheckPointSync ==
    /\ setting.truncates /\ ckpt.pc = "idle"
    /\ PageWriterSync
    /\ ckpt' = [pc |-> "truncate"]
    /\ UNCHANGED <<setting, chances, buffers, round, writers, space, startup, file>>

TruncateBegin ==
    /\ ckpt.pc = "truncate"
    /\ ckpt' = IF flushLock # Nobody THEN [pc |-> "idle"]
               ELSE [pc |-> "sync", min |-> get_dw_page_min_idx, head |-> head]
    /\ UNCHANGED <<setting, chances, buffers, round, writers, space, startup, file, data>>

TruncateSync ==
    /\ ckpt.pc = "sync"
    /\ PageWriterSync
    /\ ckpt' = [ckpt EXCEPT !.pc = "finish"]
    /\ UNCHANGED <<setting, chances, buffers, round, writers, space, startup, file>>

(* Where dw_batch_file_recycle moves the start of the file, min being the oldest batch in use *)
Truncated(min) == IF min = 0 THEN head.start + flushPage ELSE min

TruncateFinish ==
    /\ ckpt.pc = "finish"
    /\ IF flushLock # Nobody \/ head # ckpt.head
       THEN UNCHANGED <<head, flushPage, file>>
       ELSE /\ head' = [head EXCEPT !.start = Truncated(ckpt.min)]
            /\ flushPage' = flushPage - (head'.start - head.start)
            /\ file' = [file EXCEPT ![0] = head']
    /\ ckpt' = [pc |-> "idle"]
    /\ UNCHANGED <<setting, chances, buffers, round, writers, flushLock, startup, data>>

-----------------------------------------------------------------------------
(* Crashes *)

(* A page that was not synced since it was written is old, new or torn *)
Survivors(p) == IF cached[p] = durable[p] THEN {durable[p]} ELSE {durable[p], cached[p], Torn}

(* The pages of the double write file that a crash may leave: of the batch being *)
(* written, any pages are on disk.                                               *)
FilesLeft ==
    LET writing == {w \in Writers : pc[w] = "write"}
    IN IF writing = {} THEN {file}
       ELSE LET new == Batch(CHOOSE w \in writing : TRUE)
            IN {Overwrite(file, [i \in done |-> new[i]]) : done \in SUBSET DOMAIN new}

(* The process is gone; it comes up again with what is on disk *)
Crash ==
    /\ crashes > 0 /\ crashes' = crashes - 1
    /\ cached' \in {c \in [Pages -> {Torn} \cup UNION {{cached[p], durable[p]} : p \in Pages}] :
                      \A p \in Pages : c[p] \in Survivors(p)}
    /\ durable' = cached'
    /\ file' \in FilesLeft
    /\ mem' = walFlushed
    /\ dirty' = [p \in Pages |-> FALSE] /\ needed' = dirty'
    /\ ckptIds' = {} /\ running' = {}
    /\ pc' = [w \in Writers |-> "idle"]
    /\ todo' = [w \in Writers |-> <<>>] /\ buf' = todo'
    /\ pageIdx' = [w \in Writers |-> NoIdx]
    /\ head' = FileHead(file') /\ flushPage' = 0 /\ flushLock' = Nobody
    /\ ckpt' = [pc |-> "idle"]
    /\ boot' = "batch" /\ broken' = FALSE
    /\ UNCHANGED <<setting, chances, walFlushed, floor>>

-----------------------------------------------------------------------------
(* The startup: dw_recover_partial_write_batch *)

(* The whole copies of p in the batch at pos: the checksum, which covers the block *)
(* number, holds.  The pages have different block numbers.                         *)
GoodCopies(p, pos) ==
    LET tags == file[pos].tags
        fine(i) == file[pos + i] # Blank /\ ~IsHead(file[pos + i]) /\ file[pos + i].page = p
    IN {file[pos + i].lsn : i \in {j \in DOMAIN tags : tags[j] = p /\ fine(j)}}

(* Mutant: every whole copy is written back *)
RecoverAllPages(pos) ==
    [p \in Pages |-> IF GoodCopies(p, pos) = {} THEN cached[p] ELSE Max(GoodCopies(p, pos))]

(* A page that is torn or older than its copy is replaced by it *)
dw_recover_pages(pos) == [p \in Pages |-> Max({cached[p]} \cup GoodCopies(p, pos))]

RecoverBatch ==
    /\ boot = "batch"
    /\ LET pos == head.start + flushPage
       IN IF dw_verify_batch(file, pos, head.dwn)
          THEN LET tail == dw_batch_tail_page(file, pos)
               IN /\ cached' = dw_recover_pages(pos)
                  /\ flushPage' = tail - head.start
                  /\ boot' = IF file[tail].tags = <<>> THEN "sync" ELSE "batch"
                  /\ UNCHANGED broken
          ELSE /\ broken' = dw_batch_head_broken(file, pos)
               /\ boot' = "sync"
               /\ UNCHANGED <<cached, flushPage>>
    /\ UNCHANGED <<setting, chances, buffers, round, writers, head, flushLock, ckpt, crashes, file,
                   durable, floor>>

Repaired == IF broken THEN "fix" ELSE "redo"

(* The file is reused when too little of it is left, else what was repaired is cut off *)
RecoverySync ==
    /\ boot = "sync"
    /\ IF Full(BufMax) \/ flushPage > 0
       THEN PageWriterSync /\ boot' = "head"
       ELSE UNCHANGED data /\ boot' = Repaired
    /\ UNCHANGED <<setting, chances, buffers, round, writers, space, ckpt, broken, crashes, file>>

RecoveryHead ==
    /\ boot = "head"
    /\ head' = IF Full(BufMax) THEN [start |-> FileStart, dwn |-> head.dwn + 1]
               ELSE [head EXCEPT !.start = Truncated(0)]
    /\ flushPage' = 0
    /\ file' = [file EXCEPT ![0] = head']
    /\ boot' = Repaired
    /\ UNCHANGED <<setting, chances, buffers, round, writers, flushLock, ckpt, broken, crashes, data>>

dw_recover_batch_head ==
    /\ boot = "fix"
    /\ file' = [file EXCEPT ![head.start] = HeadPage(head.start, head.dwn, <<>>)]
    /\ boot' = "redo"
    /\ UNCHANGED <<setting, chances, buffers, round, writers, space, ckpt, broken, crashes, data>>

(* The redo of the flushed log, from the repaired pages *)
Redo ==
    /\ boot = "redo"
    /\ dirty' = [p \in Pages |-> mem[p] # cached[p]]
    /\ boot' = "up" /\ broken' = FALSE
    /\ UNCHANGED <<setting, chances, mem, needed, walFlushed, round, writers, space, ckpt, crashes,
                   file, data>>

-----------------------------------------------------------------------------
WriterStep(w) ==
    \/ Scan(w)
    \/ Apply(w)
    \/ CopyPage(w)
    \/ LockFile(w)
    \/ RecycleSync(w)
    \/ RecycleReset(w)
    \/ WriteBatch(w)
    \/ FlushPage(w)
    \/ HandleException(w)

StartupStep ==
    \/ RecoverBatch
    \/ RecoverySync
    \/ RecoveryHead
    \/ dw_recover_batch_head
    \/ Redo

CheckpointerStep ==
    \/ CheckPointSync
    \/ TruncateBegin
    \/ TruncateSync
    \/ TruncateFinish

Running ==
    \/ \E p \in Pages : MarkBufferDirty(p) \/ XLogFlush(p)
    \/ StartRound
    \/ \E w \in Writers : WriterStep(w)
    \/ CheckpointerStep

Next == (boot = "up" /\ Running) \/ StartupStep \/ Crash

Spec == Init /\ [][Next]_vars

-----------------------------------------------------------------------------
(* Properties *)

LSNs == 0 .. Max(UNION {{setting.lsns[p] : p \in Pages}})
Positions == FileStart .. FilePages - 1
Heads == [start : Positions, dwn : Nat]
Tags == BoundedSeq(Pages, BatchPages)
Copies == [page : Pages, lsn : LSNs]

(* The variables keep their types; in particular the start of the file and the batch *)
(* after it stay inside the file.                                                    *)
TypeOK ==
    /\ setting \in Settings /\ busy \in 0 .. setting.busy /\ errors \in 0 .. setting.errors
    /\ crashes \in 0 .. setting.crashes
    /\ mem \in [Pages -> LSNs] /\ walFlushed \in [Pages -> LSNs] /\ floor \in [Pages -> LSNs]
    /\ cached \in [Pages -> LSNs \cup {Torn}] /\ durable \in [Pages -> LSNs \cup {Torn}]
    /\ dirty \in [Pages -> BOOLEAN] /\ needed \in [Pages -> BOOLEAN]
    /\ ckptIds \subseteq Pages /\ running \subseteq Writers
    /\ pc \in [Writers -> {"idle", "scan", "apply", "copy", "lock", "recycle", "reset", "write",
                           "flush"}]
    /\ todo \in [Writers -> BoundedSeq(Pages, DirtyPageMax)]
    /\ buf \in [Writers -> BoundedSeq(Copies, DirtyPageMax)]
    /\ pageIdx \in [Writers -> Positions \cup {NoIdx}]
    /\ head \in Heads /\ head.start + flushPage \in Positions
    /\ flushLock \in Writers \cup {Nobody}
    /\ ckpt.pc \in {"idle", "truncate", "sync", "finish"}
    /\ boot \in {"up", "batch", "sync", "head", "fix", "redo"} /\ broken \in BOOLEAN
    /\ file[0] \in Heads
    /\ \A i \in Positions :
          \/ file[i] = Blank \/ file[i] \in Copies
          \/ file[i] \in [id : {i}, dwn : 0 .. head.dwn, tags : Tags]

(* When the startup has gone through the double write file, no page is torn, and each is   *)
(* at least as new as when it was last synced, which is what the redo from a checkpoint    *)
(* starts from: dw_recover_partial_write_batch finds a good copy of every page it needs.   *)
Recovered == boot = "redo" => \A p \in Pages : durable[p] >= floor[p]

(* As Recovered, for the settings without a checkpointer *)
RecoveredFromFile == ~setting.truncates => Recovered

(* Nothing of a page reaches the disk, in place or in the double write file, before its log *)
WALFirst ==
    /\ \A p \in Pages : cached[p] <= walFlushed[p]
    /\ \A i \in Positions :
          file[i] # Blank /\ ~IsHead(file[i]) => file[i].lsn <= walFlushed[file[i].page]

(* Where the chain of batches from a position ends *)
ChainEnd ==
    LET end[pos \in Positions] ==
          IF dw_verify_batch(file, pos, file[0].dwn) /\ file[pos].tags # <<>>
          THEN end[dw_batch_tail_page(file, pos)] ELSE pos
    IN end[file[0].start]

(* While nobody has the flush lock the file head on disk is the one in memory, and a startup *)
(* would go through all batches up to the one to be written next, and find no broken head.   *)
(* All positions are inside the file.                                                        *)
ChainWhole ==
    /\ TypeOK
    /\ boot = "up" /\ flushLock = Nobody =>
        /\ file[0] = head
        /\ ChainEnd = head.start + flushPage
        /\ IsHead(file[ChainEnd])

(* The repair replaces no page by an older copy of it: only a crash takes a page back *)
NeverBack == [][crashes' = crashes => \A p \in Pages : cached'[p] >= cached[p]]_vars

(* Every dirty page is written in the end: a page that was skipped is taken up again, and a  *)
(* sub-thread that recycles the file waits for the batches in use, whose users wait for      *)
(* nothing it holds.                                                                         *)
PagesGetWritten == \A p \in Pages : dirty[p] ~> ~dirty[p]

(* What keeps a sub-thread from its next step: the flush lock, batches in use, the log *)
Runs(w) ==
    /\ boot = "up" /\ pc[w] # "idle"
    /\ pc[w] = "lock" => /\ flushLock = Nobody /\ LogFlushed(buf[w])
    /\ pc[w] = "recycle" => \A x \in Writers : pageIdx[x] = NoIdx
    /\ pc[w] = "flush" => mem[todo[w][1]] <= walFlushed[todo[w][1]]

(* Weak fairness of the threads' steps, with their enabling conditions written out *)
Fairness ==
    /\ []<>~(boot = "up" /\ running = {} /\ \E p \in Pages : dirty[p]) \/ []<><<StartRound>>_vars
    /\ \A w \in Writers : []<>~Runs(w) \/ []<><<WriterStep(w)>>_vars
    /\ \A p \in Pages : []<>(boot # "up" \/ walFlushed[p] = mem[p]) \/ []<><<XLogFlush(p)>>_vars
    /\ []<>(boot = "up") \/ []<><<StartupStep>>_vars

FairSpec == Spec /\ Fairness

=============================================================================
