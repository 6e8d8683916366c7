---------------------------- MODULE SInvalReceive ----------------------------
(***************************************************************************)
(* How one backend processes invalidation messages:                        *)
(* AcceptInvalidationMessages (inval.cpp) and the recursive                *)
(* ReceiveSharedInvalidMessages (sinval.cpp), with the filter              *)
(* SkipRedundantInvalMsg.  The messages are relcache invalidations: the    *)
(* entry of a relation that is not open is dropped, that of an open one is *)
(* rebuilt; rebuilding locks a catalog, which calls                        *)
(* AcceptInvalidationMessages again.  The queue is the backend's own, as   *)
(* SIQueues promises.                                                      *)
(***************************************************************************)
EXTENDS Naturals, Sequences, Functions

CONSTANTS Rels, NoRel, NoEntry, Overrun,
          OpenRels,         \* the relations this backend has open: a subset of Rels
          MAXINVALMSGS, RC_MAX_NUM,
          MaxCommits        \* bound: commits that change a relation

VARIABLES
    version,        \* version[r]: the committed definition of r in the catalogs
    cached,         \* cached[r]: the definition in this backend's relcache, or NoEntry
    queue,          \* messages not fetched yet, or Overrun
    messages, nextmsg,  \* inval_cxt->messages[0..nummsgs), and the next one to process
    rcData,         \* the relations recorded by SkipRedundantInvalMsg
    stack           \* the active calls of ReceiveSharedInvalidMessages

vars == <<version, cached, queue, messages, nextmsg, rcData, stack>>

nummsgs == Len(messages)

Min2(a, b) == IF a < b THEN a ELSE b

(* A call is at one of its three loops, or in resetFunction with entries left to  *)
(* rebuild; it may be waiting, in invalFunction, for rebuild's nested call.       *)
Call == [at : {"pending", "fetch", "drain", "reset"}, rebuild : Rels \cup {NoRel},
         left : SUBSET Rels]

Entered == [at |-> "pending", rebuild |-> NoRel, left |-> {}]

Top == stack[Len(stack)]

Callers == SubSeq(stack, 1, Len(stack) - 1)

Running(at) == Len(stack) > 0 /\ Top.at = at /\ Top.rebuild = NoRel

Goto(at) == stack' = Append(Callers, [Top EXCEPT !.at = at])

Init ==
    /\ version = [r \in Rels |-> 0] /\ cached = version
    /\ queue = <<>> /\ messages = <<>> /\ nextmsg = 0
    /\ rcData = <<>> /\ stack = <<>>

(* Another backend commits a change of r: the change is visible, and its message  *)
(* queued (AtEOXact_Inval)                                                        *)
CommitDDL(r) ==
    /\ FoldFunction(+, 0, version) < MaxCommits
    /\ version' = [version EXCEPT ![r] = @ + 1]
    /\ queue' = IF queue = Overrun THEN Overrun ELSE Append(queue, r)
    /\ UNCHANGED <<cached, messages, nextmsg, rcData, stack>>

(* SICleanupQueue resets this backend *)
LoseQueue ==
    /\ queue \notin {Overrun, <<>>}
    /\ queue' = Overrun
    /\ UNCHANGED <<version, cached, messages, nextmsg, rcData, stack>>

AcceptInvalidationMessages ==
    /\ stack = <<>>
    /\ rcData' = <<>>
    /\ stack' = <<Entered>>
    /\ UNCHANGED <<version, cached, queue, messages, nextmsg>>

(* The relation is opened after its lock was taken, and with it the messages      *)
UseRelation(r) ==
    /\ stack = <<>>
    /\ cached[r] = NoEntry
    /\ cached' = [cached EXCEPT ![r] = version[r]]
    /\ UNCHANGED <<version, queue, messages, nextmsg, rcData, stack>>

(* An open entry is rebuilt, after a nested call *)
Rebuild(r, caller) == stack' = Callers \o <<[caller EXCEPT !.rebuild = r], Entered>>

(* invalFunction on a relcache message *)
RelationFlushRelation(r) ==
    \/ r \in OpenRels /\ Rebuild(r, Top) /\ UNCHANGED cached
    \/ r \notin OpenRels /\ cached' = [cached EXCEPT ![r] = NoEntry] /\ UNCHANGED stack

(* The nested call has returned: the catalogs are scanned *)
LoadEntry ==
    /\ Len(stack) > 0 /\ Top.rebuild # NoRel
    /\ cached' = [cached EXCEPT ![Top.rebuild] = version[Top.rebuild]]
    /\ stack' = Append(Callers, [Top EXCEPT !.rebuild = NoRel])
    /\ UNCHANGED <<version, queue, messages, nextmsg, rcData>>

HasPending == nextmsg < nummsgs

NextMessage == messages[nextmsg + 1]

Redundant(r) == \E i \in 1..Len(rcData) : rcData[i] = r

Record(r) == rcData' = IF Len(rcData) >= RC_MAX_NUM THEN <<r>> ELSE Append(rcData, r)

(* "Deal with any messages still pending from an outer recursion" *)
ProcessPending ==
    /\ Running("pending")
    /\ HasPending
    /\ nextmsg' = nextmsg + 1
    /\ IF Redundant(NextMessage) THEN UNCHANGED <<stack, rcData, cached>>
       ELSE RelationFlushRelation(NextMessage) /\ Record(NextMessage)
    /\ UNCHANGED <<version, queue, messages>>

(* Mutant: messages an outer call has fetched are left to it *)
PendingLeftAlone ==
    /\ Running("pending")
    /\ Goto("fetch")
    /\ UNCHANGED <<version, cached, queue, messages, nextmsg, rcData>>

PendingDone ==
    /\ Running("pending")
    /\ ~HasPending
    /\ Goto("fetch")
    /\ UNCHANGED <<version, cached, queue, messages, nextmsg, rcData>>

(* SIGetDataEntries; resetFunction begins with dropping what is not open *)
GetDataEntries ==
    /\ Running("fetch")
    /\ nextmsg' = 0
    /\ IF queue = Overrun
         THEN /\ messages' = <<>> /\ queue' = <<>>
              /\ cached' = [q \in Rels |-> IF q \in OpenRels THEN cached[q] ELSE NoEntry]
              /\ stack' = Append(Callers, [Top EXCEPT !.at = "reset", !.left = OpenRels])
         ELSE LET k == Min2(MAXINVALMSGS, Len(queue))
              IN  /\ messages' = SubSeq(queue, 1, k)
                  /\ queue' = SubSeq(queue, k + 1, Len(queue))
                  /\ Goto("drain")
                  /\ UNCHANGED cached
    /\ UNCHANGED <<version, rcData>>

(* "Process them, being wary that a recursive call might eat some" *)
ProcessFetched ==
    /\ Running("drain")
    /\ HasPending
    /\ nextmsg' = nextmsg + 1
    /\ RelationFlushRelation(NextMessage)
    /\ UNCHANGED <<version, queue, messages, rcData>>

(* resetFunction: every open entry is rebuilt *)
ResetEntry ==
    /\ Running("reset")
    /\ \E r \in Top.left : Rebuild(r, [Top EXCEPT !.left = @ \ {r}])
    /\ UNCHANGED <<version, cached, queue, messages, nextmsg, rcData>>

(* Mutant: the loop does not look at the number of messages *)
LoopForever ==
    /\ Running("drain")
    /\ ~HasPending
    /\ Goto("fetch")
    /\ UNCHANGED <<version, cached, queue, messages, nextmsg, rcData>>

LoopAgain ==
    /\ Running("drain")
    /\ ~HasPending
    /\ nummsgs = MAXINVALMSGS
    /\ Goto("fetch")
    /\ UNCHANGED <<version, cached, queue, messages, nextmsg, rcData>>

Return ==
    /\ \/ Running("drain") /\ ~HasPending /\ nummsgs # MAXINVALMSGS
       \/ Running("reset") /\ Top.left = {}
    /\ stack' = Callers
    /\ UNCHANGED <<version, cached, queue, messages, nextmsg, rcData>>

Step == \/ LoadEntry \/ ProcessPending \/ PendingDone \/ GetDataEntries \/ ProcessFetched
        \/ ResetEntry \/ LoopAgain \/ Return

Next == \/ \E r \in Rels : CommitDDL(r) \/ UseRelation(r)
        \/ LoseQueue \/ AcceptInvalidationMessages \/ Step

Spec == Init /\ [][Next]_vars

(* The backend runs *)
FairSpec == Spec /\ WF_vars(Step)

-----------------------------------------------------------------------------
(* Every variable has its shape; the array and the filter respect their sizes *)
TypeOK ==
    /\ version \in [Rels -> Nat] /\ cached \in [Rels -> Nat \cup {NoEntry}]
    /\ queue = Overrun \/ queue \in Seq(Rels)
    /\ messages \in Seq(Rels) /\ nummsgs <= MAXINVALMSGS /\ nextmsg \in 0..nummsgs
    /\ rcData \in Seq(Rels) /\ Len(rcData) <= RC_MAX_NUM
    /\ stack \in Seq(Call)

(* No message is thrown away while it waits in the array: a nested call that      *)
(* refills the array has taken out all its caller had fetched (sinval.cpp's       *)
(* "being wary that a recursive call might eat some").  The array and the filter  *)
(* of rebuilt relations stay within their sizes.                                  *)
NoMessageOverwritten ==
    /\ []TypeOK
    /\ [][messages' # messages => ~HasPending]_vars

(* AcceptInvalidationMessages returns, however deep its rebuilds recurse          *)
Returns == []<>(stack = <<>>)

(* "such a recursive call must guarantee that all outstanding inval messages have *)
(* been processed before it exits" (sinval.cpp): when the outermost call has      *)
(* returned, a relcache entry that is out of date has its message still queued.   *)
NoStaleEntry ==
    stack = <<>> => \A r \in Rels : cached[r] \in {version[r], NoEntry} \/ queue = Overrun
                                    \/ \E i \in 1..Len(queue) : queue[i] = r
=============================================================================
