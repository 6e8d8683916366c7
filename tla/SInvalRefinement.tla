-------------------------- MODULE SInvalRefinement --------------------------
(***************************************************************************)
(* The ring of messages implements a queue per backend: every step of      *)
(* SInval is a step of SIQueues on the unread messages of the backends, or *)
(* leaves them as they are.                                                *)
(***************************************************************************)
EXTENDS SInvalProofs, SequenceTheorems

-----------------------------------------------------------------------------
(* The ring as a queue per backend *)

Payload == Msgs \cup {NoMsg}
Rings == [0..MAXNUMMESSAGES - 1 -> Payload]

(* The messages from number nx up to, and without, number mx *)
Between(buf, nx, mx) == [k \in 1..mx - nx |-> buf[(nx + k - 1) % MAXNUMMESSAGES]]

(* A function on 1..n is a sequence of length n *)
LEMMA FunctionIsSeq ==
    ASSUME NEW S, NEW n \in Nat, NEW g \in [1..n -> S]
    PROVE  g \in Seq(S) /\ Len(g) = n
<1>1. g \in Seq(S)
  BY Zenon, SeqDef
<1>2. Len(g) \in Nat /\ 1..Len(g) = 1..n
  BY Zenon, <1>1, LenProperties
<1>3. \A m \in Nat : 1..m = 1..n => m = n
  BY SMT
<1> QED
  BY Zenon, <1>1, <1>2, <1>3

(* Between is a sequence of messages, one for each number from nx to mx - 1 *)
LEMMA BetweenIs ==
    ASSUME NEW buf \in Rings, NEW nx \in Nat, NEW mx \in Nat, nx <= mx
    PROVE  /\ Between(buf, nx, mx) \in Seq(Payload) /\ Len(Between(buf, nx, mx)) = mx - nx
           /\ \A k \in 1..mx - nx : Between(buf, nx, mx)[k] = buf[(nx + k - 1) % MAXNUMMESSAGES]
<1> DEFINE n == mx - nx
           g == Between(buf, nx, mx)
<1>1. n \in Nat
  BY SMT
<1>2. g = [k \in 1..n |-> buf[(nx + k - 1) % MAXNUMMESSAGES]]
  BY Zenon DEF Between
<1>3. \A k \in 1..n : (nx + k - 1) % MAXNUMMESSAGES \in 0..MAXNUMMESSAGES - 1
  <2>1. \A k \in 1..n : nx + k - 1 \in Nat
    BY <1>1
  <2> QED
    BY Zenon, <2>1, Divided, RingFacts
<1>4. \A k \in 1..n : buf[(nx + k - 1) % MAXNUMMESSAGES] \in Payload
  BY Zenon, <1>3 DEF Rings
<1> HIDE DEF n, g
<1>5. g \in [1..n -> Payload]
  BY Zenon, <1>2, <1>4
<1>6. g \in Seq(Payload) /\ Len(g) = n
  BY Zenon, <1>1, <1>5, FunctionIsSeq
<1>7. \A k \in 1..n : g[k] = buf[(nx + k - 1) % MAXNUMMESSAGES]
  BY Zenon, <1>2
<1> QED
  BY Zenon, <1>6, <1>7 DEF n, g

(* Nothing is between a number and itself *)
LEMMA BetweenNothing ==
    ASSUME NEW buf, NEW mx \in Nat
    PROVE  Between(buf, mx, mx) = <<>>
<1>1. mx - mx = 0 /\ 1..0 = {}
  BY SMT
<1>2. Between(buf, mx, mx) = [k \in {} |-> buf[(mx + k - 1) % MAXNUMMESSAGES]]
  BY Zenon, <1>1 DEF Between
<1>3. Between(buf, mx, mx) \in [1..0 -> {}]
  BY Zenon, <1>1, <1>2
<1>4. Between(buf, mx, mx) \in Seq({}) /\ Len(Between(buf, mx, mx)) = 0
  BY Zenon, <1>3, FunctionIsSeq
<1>5. 0 \notin Nat \ {0}
  BY SMT
<1> QED
  BY Zenon, <1>4, <1>5, EmptySeq

(* What is written elsewhere does not matter *)
LEMMA BetweenSame ==
    ASSUME NEW buf, NEW new, NEW nx \in Nat, NEW mx \in Nat,
           \A x \in Nat : nx <= x /\ x < mx => new[x % MAXNUMMESSAGES] = buf[x % MAXNUMMESSAGES]
    PROVE  Between(new, nx, mx) = Between(buf, nx, mx)
<1>1. \A k \in 1..mx - nx : nx + k - 1 \in Nat /\ nx <= nx + k - 1 /\ nx + k - 1 < mx
  BY SMT
<1>2. \A k \in 1..mx - nx : new[(nx + k - 1) % MAXNUMMESSAGES] = buf[(nx + k - 1) % MAXNUMMESSAGES]
  BY Zenon, <1>1
<1> QED
  BY Zenon, <1>2 DEF Between

(* Renumbering by MSGNUMWRAPAROUND, or not at all, leaves every message where it is *)
LEMMA BetweenShift ==
    ASSUME NEW buf, NEW nx \in Nat, NEW mx \in Nat, NEW down \in {0, MSGNUMWRAPAROUND}, nx - down \in Nat
    PROVE  Between(buf, nx - down, mx - down) = Between(buf, nx, mx)
<1>1. down \in Nat /\ down % MAXNUMMESSAGES = 0
  <2>1. \A m \in Nat \ {0} : 0 % m = 0
    BY SMT
  <2>2. 0 \in Nat /\ MAXNUMMESSAGES \in Nat \ {0} /\ MSGNUMWRAPAROUND \in Nat
        /\ MSGNUMWRAPAROUND % MAXNUMMESSAGES = 0
    BY Zenon, RingFits
  <2> QED
    BY Zenon, <2>1, <2>2
<1>2. (mx - down) - (nx - down) = mx - nx
  BY <1>1
<1>3. ASSUME NEW k \in 1..mx - nx
      PROVE  ((nx - down) + k - 1) % MAXNUMMESSAGES = (nx + k - 1) % MAXNUMMESSAGES
  <2> DEFINE a == (nx - down) + k - 1
  <2>1. a \in Nat /\ a + down = nx + k - 1
    BY <1>1
  <2> HIDE DEF a
  <2>2. (a + down) % MAXNUMMESSAGES = a % MAXNUMMESSAGES
    BY Zenon, <1>1, <2>1, ModShift, RingFacts
  <2> QED
    BY Zenon, <2>1, <2>2 DEF a
<1> QED
  BY Zenon, <1>2, <1>3 DEF Between

(* Publishing appends the group that is in the buffer *)
LEMMA BetweenAppend ==
    ASSUME NEW buf \in Rings, NEW nx \in Nat, NEW mx \in Nat, nx <= mx, NEW n \in Nat,
           NEW batch \in [1..n -> Msgs],
           \A k \in 1..n : buf[(mx + k - 1) % MAXNUMMESSAGES] = batch[k]
    PROVE  Between(buf, nx, mx + n) = Between(buf, nx, mx) \o batch
<1> DEFINE s == Between(buf, nx, mx)
           t == Between(buf, nx, mx + n)
           len == mx - nx
<1>1. /\ mx + n \in Nat /\ nx <= mx + n /\ len \in Nat /\ (mx + n) - nx = len + n /\ len + n \in Nat
  BY SMT
<1>2. /\ s \in Seq(Payload) /\ Len(s) = len
      /\ \A k \in 1..len : s[k] = buf[(nx + k - 1) % MAXNUMMESSAGES]
  BY Zenon, BetweenIs
<1>3. /\ t \in Seq(Payload) /\ Len(t) = (mx + n) - nx
      /\ \A k \in 1..(mx + n) - nx : t[k] = buf[(nx + k - 1) % MAXNUMMESSAGES]
  <2> DEFINE m == mx + n
  <2>1. m \in Nat /\ nx <= m
    BY Zenon, <1>1
  <2> HIDE DEF m
  <2>2. /\ Between(buf, nx, m) \in Seq(Payload) /\ Len(Between(buf, nx, m)) = m - nx
        /\ \A k \in 1..m - nx : Between(buf, nx, m)[k] = buf[(nx + k - 1) % MAXNUMMESSAGES]
    BY Zenon, <2>1, BetweenIs
  <2> QED
    BY Zenon, <2>2 DEF m
<1>4. batch \in Seq(Payload) /\ Len(batch) = n
  <2>1. batch \in [1..n -> Payload]
    BY Zenon DEF Payload
  <2> QED
    BY Zenon, <2>1, FunctionIsSeq
<1> HIDE DEF s, t, len
<1>5. /\ s \o batch \in Seq(Payload) /\ Len(s \o batch) = len + n
      /\ \A k \in 1..len + n : (s \o batch)[k] = IF k <= len THEN s[k] ELSE batch[k - len]
  <2>1. /\ s \o batch \in Seq(Payload) /\ Len(s \o batch) = Len(s) + Len(batch)
        /\ \A k \in 1..Len(s) + Len(batch) :
              (s \o batch)[k] = IF k <= Len(s) THEN s[k] ELSE batch[k - Len(s)]
    BY Zenon, <1>2, <1>4, ConcatProperties
  <2> QED
    BY Zenon, <1>2, <1>4, <2>1
<1>6. ASSUME NEW k \in 1..len + n PROVE (s \o batch)[k] = t[k]
  <2>1. CASE k <= len
    <3>1. k \in 1..len
      BY <1>1, <2>1
    <3> QED
      BY Zenon, <1>1, <1>2, <1>3, <1>5, <2>1, <3>1
  <2>2. CASE ~(k <= len)
    <3>1. k - len \in 1..n /\ mx + (k - len) - 1 = nx + k - 1
      BY <1>1, <2>2 DEF len
    <3>2. t[k] = buf[(nx + k - 1) % MAXNUMMESSAGES]
      BY Zenon, <1>1, <1>3
    <3>3. buf[(mx + (k - len) - 1) % MAXNUMMESSAGES] = batch[k - len]
      BY Zenon, <3>1
    <3> QED
      BY Zenon, <1>5, <2>2, <3>1, <3>2, <3>3
  <2> QED
    BY Zenon, <2>1, <2>2
<1>7. s \o batch = t
  BY Zenon, <1>1, <1>3, <1>5, <1>6, SeqEqual
<1> QED
  BY Zenon, <1>7 DEF s, t

(* Reading takes messages from the front *)
LEMMA BetweenDrop ==
    ASSUME NEW buf \in Rings, NEW nx \in Nat, NEW mx \in Nat, nx <= mx, NEW f \in Nat, f <= mx - nx
    PROVE  SubSeq(Between(buf, nx, mx), f + 1, mx - nx) = Between(buf, nx + f, mx)
<1> DEFINE s == Between(buf, nx, mx)
           t == Between(buf, nx + f, mx)
           len == mx - nx
           u == SubSeq(s, f + 1, len)
<1>1. /\ len \in Nat /\ len \in Int /\ f + 1 \in Int /\ nx + f \in Nat /\ nx + f <= mx /\ mx - (nx + f) = len - f
      /\ len - (f + 1) + 1 = len - f /\ (IF f + 1 <= len THEN len - (f + 1) + 1 ELSE 0) = len - f
  BY SMT
<1>2. /\ s \in Seq(Payload) /\ Len(s) = len
      /\ \A k \in 1..len : s[k] = buf[(nx + k - 1) % MAXNUMMESSAGES]
  BY Zenon, BetweenIs
<1>3. /\ t \in Seq(Payload) /\ Len(t) = len - f
      /\ \A k \in 1..len - f : t[k] = buf[(nx + f + k - 1) % MAXNUMMESSAGES]
  <2> DEFINE m == nx + f
  <2>1. m \in Nat /\ m <= mx /\ mx - m = len - f
    BY Zenon, <1>1
  <2> HIDE DEF m, len
  <2>2. /\ Between(buf, m, mx) \in Seq(Payload) /\ Len(Between(buf, m, mx)) = mx - m
        /\ \A k \in 1..mx - m : Between(buf, m, mx)[k] = buf[(m + k - 1) % MAXNUMMESSAGES]
    BY Zenon, <2>1, BetweenIs
  <2> QED
    BY Zenon, <2>1, <2>2 DEF m
<1> HIDE DEF s, t, len
<1>4. \A i \in (f + 1)..len : s[i] \in Payload
  <2>1. (f + 1)..len \subseteq 1..len
    BY <1>1
  <2> QED
    BY Zenon, <1>2, <2>1, ElementOfSeq
<1>5. /\ u \in Seq(Payload) /\ Len(u) = len - f /\ \A i \in 1..len - f : u[i] = s[(f + 1) + i - 1]
  <2> DEFINE g == f + 1
  <2>1. g \in Int /\ \A i \in g..len : s[i] \in Payload
    BY Zenon, <1>1, <1>4
  <2> HIDE DEF g
  <2> DEFINE v == SubSeq(s, g, len)
  <2>2. len \in Int
    BY Zenon, <1>1
  <2>3. v \in Seq(Payload)
    BY ONLY Zenon, <2>1, <2>2, SubSeqProperties
  <2>4. Len(v) = IF g <= len THEN len - g + 1 ELSE 0
    BY ONLY Zenon, <2>1, <2>2, SubSeqProperties
  <2>5. \A i \in 1..len - g + 1 : v[i] = s[g + i - 1]
    BY ONLY SMTT(20), <2>1, <2>2, SubSeqProperties
  <2> QED
    BY Zenon, <1>1, <2>3, <2>4, <2>5 DEF g
<1>6. ASSUME NEW k \in 1..len - f PROVE u[k] = t[k]
  <2>1. (f + 1) + k - 1 \in 1..len /\ nx + ((f + 1) + k - 1) - 1 = nx + f + k - 1
    BY <1>1
  <2> QED
    BY Zenon, <1>2, <1>3, <1>5, <2>1
<1> HIDE DEF u
<1>7. u = t
  BY Zenon, <1>3, <1>5, <1>6, SeqEqual
<1> QED
  BY Zenon, <1>7 DEF s, t, u, len

Owed == [b \in Slots |-> Unread(b)]
QueueStep == Queues!Next(WRITE_QUANTUM, MAXINVALMSGS) \/ UNCHANGED Owed

(* Unread, before and after a step, in terms of Between *)
LEMMA UnreadIs ==
    ASSUME NEW i \in Slots
    PROVE  /\ Unread(i) = IF ~procState[i].active \/ procState[i].sendOnly THEN Inactive
                          ELSE IF procState[i].resetState THEN Overrun
                          ELSE Between(buffer, procState[i].nextMsgNum, maxMsgNum)
           /\ Unread(i)' = IF ~procState'[i].active \/ procState'[i].sendOnly THEN Inactive
                           ELSE IF procState'[i].resetState THEN Overrun
                           ELSE Between(buffer', procState'[i].nextMsgNum, maxMsgNum')
  BY Zenon DEF Unread, Between

(* The unread messages of a backend that counts are a sequence, and none of the marks *)
LEMMA UnreadSeq ==
    ASSUME QueueInv, NEW i \in Slots
    PROVE  /\ procState[i].active /\ ~procState[i].sendOnly /\ ~procState[i].resetState =>
                /\ Unread(i) = Between(buffer, procState[i].nextMsgNum, maxMsgNum)
                /\ procState[i].nextMsgNum \in Nat /\ procState[i].nextMsgNum <= maxMsgNum
                /\ Unread(i) \in Seq(Payload) /\ Len(Unread(i)) = maxMsgNum - procState[i].nextMsgNum
                /\ Unread(i) \notin {Inactive, Overrun}
           /\ procState[i].active /\ ~procState[i].sendOnly => Unread(i) # Inactive
<1>1. /\ TypeOK /\ Numbered(i) /\ minMsgNum \in Nat /\ maxMsgNum \in Nat
  BY Zenon, KnownOf
<1>2. buffer \in Rings
  BY Zenon, <1>1 DEF TypeOK, Rings, Payload
<1>3. CASE procState[i].active /\ ~procState[i].sendOnly /\ ~procState[i].resetState
  <2> DEFINE n == procState[i].nextMsgNum
  <2>1. n \in minMsgNum..maxMsgNum
    BY Zenon, <1>1, <1>3 DEF Numbered
  <2> HIDE DEF n
  <2>2. n \in Nat /\ n <= maxMsgNum
    BY <1>1, <2>1
  <2>3. Unread(i) = Between(buffer, n, maxMsgNum)
    BY Zenon, <1>3, UnreadIs DEF n
  <2>4. Unread(i) \in Seq(Payload) /\ Len(Unread(i)) = maxMsgNum - n
    BY Zenon, <1>1, <1>2, <2>2, <2>3, BetweenIs
  <2>5. Unread(i) \notin {Inactive, Overrun}
    BY Zenon, <2>4, MarksAreNotQueues DEF Payload
  <2> QED
    BY Zenon, <2>2, <2>3, <2>4, <2>5 DEF n
<1>4. CASE procState[i].active /\ ~procState[i].sendOnly /\ procState[i].resetState
  BY Zenon, <1>4, UnreadIs, MarksAreNotQueues
<1> QED
  BY Zenon, <1>3, <1>4

(* A step that leaves the ring and what counts of a slot alone *)
LEMMA SameQueue ==
    ASSUME NEW i \in Slots, buffer' = buffer, maxMsgNum' = maxMsgNum,
           procState'[i].active = procState[i].active, procState'[i].sendOnly = procState[i].sendOnly,
           procState'[i].resetState = procState[i].resetState, procState'[i].nextMsgNum = procState[i].nextMsgNum
    PROVE  Unread(i)' = Unread(i)
  BY Zenon, UnreadIs

(* A step that changes no queue *)
LEMMA NoQueueChanges ==
    ASSUME \A i \in Slots : Unread(i)' = Unread(i)
    PROVE  QueueStep
  BY Zenon DEF QueueStep, Owed

(* A step that changes b's queue only *)
LEMMA OneQueueChanges ==
    ASSUME NEW b \in Slots, \A i \in Slots \ {b} : Unread(i)' = Unread(i), NEW v, Unread(b)' = v
    PROVE  Owed' = [Owed EXCEPT ![b] = v] /\ Owed[b] = Unread(b)
  BY Zenon DEF Owed

(* A queue that becomes empty: its backend joins, or resets its caches after an overrun *)
LEMMA JoinStep ==
    ASSUME NEW b \in Slots, \A i \in Slots \ {b} : Unread(i)' = Unread(i),
           Unread(b) \in {Inactive, Overrun}, Unread(b)' = <<>>
    PROVE  QueueStep
<1>1. Owed' = [Owed EXCEPT ![b] = <<>>] /\ Owed[b] \in {Inactive, Overrun}
  BY Zenon, OneQueueChanges
<1>2. Queues!Join(b) \/ Queues!Reset(b)
  BY Zenon, <1>1 DEF Queues!Join, Queues!Reset, Owed
<1> QED
  BY Zenon, <1>2 DEF QueueStep, Queues!Next

(* A queue that becomes inactive: its backend leaves *)
LEMMA LeaveStep ==
    ASSUME NEW b \in Slots, \A i \in Slots \ {b} : Unread(i)' = Unread(i),
           Unread(b) # Inactive, Unread(b)' = Inactive
    PROVE  QueueStep
<1>1. Owed' = [Owed EXCEPT ![b] = Inactive] /\ Owed[b] # Inactive
  BY Zenon, OneQueueChanges
<1>2. Queues!Leave(b)
  BY Zenon, <1>1 DEF Queues!Leave, Owed
<1> QED
  BY Zenon, <1>2 DEF QueueStep, Queues!Next

(* PublishMaxMsgNum posts the group to every queue *)
LEMMA PublishStep ==
    ASSUME QueueInv, NEW b \in Slots, PublishMaxMsgNum(b)
    PROVE  QueueStep
<1> DEFINE n == nthistime(b)
           batch == [k \in 1..n |-> todo[b][k]]
<1>1. pc[b] = "publish" /\ maxMsgNum' = maxMsgNum + n /\ buffer' = buffer /\ procState' = procState
  BY Zenon DEF PublishMaxMsgNum
<1>2. /\ TypeOK /\ Room(b) /\ maxMsgNum \in Nat
  BY Zenon, KnownOf
<1>3. n \in Nat /\ n <= Len(todo[b]) /\ n <= WRITE_QUANTUM /\ todo[b] \in Seq(Msgs)
  BY Zenon, <1>2, GroupSize DEF TypeOK
<1>4. \A k \in 1..n : buffer[(maxMsgNum + k - 1) % MAXNUMMESSAGES] = todo[b][k]
  BY Zenon, <1>1, <1>2 DEF Room, Written
<1> HIDE DEF n
<1>5. batch \in [1..n -> Msgs]
  <2>1. \A k \in 1..n : todo[b][k] \in Msgs
    BY <1>3
  <2> QED
    BY Zenon, <2>1
<1>6. \A k \in 1..n : buffer[(maxMsgNum + k - 1) % MAXNUMMESSAGES] = batch[k]
  BY Zenon, <1>4
<1> HIDE DEF batch
<1>7. CASE n = 0
  <2>1. maxMsgNum' = maxMsgNum
    BY <1>1, <1>2, <1>7
  <2> QED
    BY Zenon, <1>1, <2>1, SameQueue, NoQueueChanges
<1>8. CASE n # 0
  <2>1. buffer \in Rings
    BY Zenon, <1>2 DEF TypeOK, Rings, Payload
  <2>2. ASSUME NEW i \in Slots
        PROVE  Unread(i)' = IF Unread(i) \in {Inactive, Overrun} THEN Unread(i) ELSE Unread(i) \o batch
    <3>1. CASE procState[i].active /\ ~procState[i].sendOnly /\ ~procState[i].resetState
      <4> DEFINE x == procState[i].nextMsgNum
      <4>1. /\ Unread(i) = Between(buffer, x, maxMsgNum) /\ x \in Nat /\ x <= maxMsgNum
            /\ Unread(i) \notin {Inactive, Overrun}
        BY Zenon, <3>1, UnreadSeq
      <4>2. Unread(i)' = Between(buffer, x, maxMsgNum + n)
        BY Zenon, <1>1, <3>1, UnreadIs
      <4> HIDE DEF x
      <4>3. Between(buffer, x, maxMsgNum + n) = Between(buffer, x, maxMsgNum) \o batch
        <5>1. x \in Nat /\ x <= maxMsgNum /\ maxMsgNum \in Nat /\ n \in Nat
          BY Zenon, <1>2, <1>3, <4>1
        <5> QED
          BY ONLY ZenonT(60), <1>5, <1>6, <2>1, <5>1, BetweenAppend
      <4> QED
        BY Zenon, <4>1, <4>2, <4>3
    <3>2. CASE ~(procState[i].active /\ ~procState[i].sendOnly /\ ~procState[i].resetState)
      BY Zenon, <1>1, <3>2, UnreadIs
    <3> QED
      BY Zenon, <3>1, <3>2
  <2>3. Queues!Post(batch)
    BY Zenon, <2>2 DEF Queues!Post
  <2>4. n \in 1..WRITE_QUANTUM
    BY <1>3, <1>8, RingFacts
  <2> QED
    BY Zenon, <1>5, <2>3, <2>4 DEF QueueStep, Queues!Next
<1> QED
  BY Zenon, <1>7, <1>8

(* SICleanupQueue takes the queues of those too far back, and renumbers the others *)
LEMMA CleanupStep ==
    ASSUME QueueInv, NEW b \in Slots, writeLock = b, pc[b] # "kick",
           NEW minFree \in Nat, minFree <= MAXNUMMESSAGES, SICleanupQueue(b, minFree), buffer' = buffer
    PROVE  QueueStep
<1>1. maxMsgNum \in Nat
  BY Zenon, KnownOf
<1>2. PICK down \in {0, MSGNUMWRAPAROUND} :
        /\ minMsgNum' \in 0..MSGNUMWRAPAROUND - 1
        /\ maxMsgNum' \in 0..MSGNUMWRAPAROUND + MAXNUMMESSAGES - 1
        /\ maxMsgNum' = maxMsgNum - down
        /\ \A i \in Slots : Cleaned(i, down)
  BY Zenon, CleanupEffect
<1> DEFINE counts(i) == procState[i].active /\ ~procState[i].sendOnly
           lost == {i \in Slots : counts(i) /\ procState'[i].resetState}
<1>3. ASSUME NEW i \in Slots PROVE Unread(i)' = IF i \in lost THEN Overrun ELSE Unread(i)
  <2>1. /\ procState'[i].active = procState[i].active /\ procState'[i].sendOnly = procState[i].sendOnly
        /\ procState[i].resetState => procState'[i].resetState
        /\ counts(i) /\ ~procState'[i].resetState =>
              /\ procState'[i].nextMsgNum = procState[i].nextMsgNum - down
              /\ procState'[i].nextMsgNum \in minMsgNum'..maxMsgNum'
    BY Zenon, <1>2 DEF Cleaned
  <2>2. CASE ~counts(i)
    BY Zenon, <2>1, <2>2, UnreadIs
  <2>3. CASE i \in lost
    BY Zenon, <2>1, <2>3, UnreadIs
  <2>4. CASE counts(i) /\ i \notin lost
    <3> DEFINE x == procState[i].nextMsgNum
    <3>1. ~procState'[i].resetState /\ ~procState[i].resetState
      BY Zenon, <2>1, <2>4
    <3>2. x \in Nat /\ Unread(i) = Between(buffer, x, maxMsgNum)
      BY Zenon, <2>4, <3>1, UnreadSeq
    <3>3. Unread(i)' = Between(buffer, x - down, maxMsgNum - down) /\ x - down \in minMsgNum'..maxMsgNum'
      BY Zenon, <1>2, <2>1, <2>4, <3>1, UnreadIs
    <3> HIDE DEF x
    <3>4. x - down \in Nat
      <4>1. minMsgNum'..maxMsgNum' \subseteq Nat
        BY <1>2, RingFacts
      <4> QED
        BY Zenon, <3>3, <4>1
    <3>5. Between(buffer, x - down, maxMsgNum - down) = Between(buffer, x, maxMsgNum)
      BY Zenon, <1>1, <3>2, <3>4, BetweenShift
    <3> QED
      BY Zenon, <2>4, <3>2, <3>3, <3>5
  <2> QED
    BY Zenon, <2>2, <2>3, <2>4
<1>4. \A i \in lost : i \in Slots /\ Unread(i) # Inactive
  BY Zenon, UnreadSeq
<1> HIDE DEF lost
<1>5. Queues!Lose(lost) /\ lost \in SUBSET Queues!Active
  BY Zenon, <1>3, <1>4 DEF Queues!Lose, Queues!Active
<1> QED
  BY Zenon, <1>5 DEF QueueStep, Queues!Next

(* CopyMessages receives from the front of the backend's queue *)
LEMMA CopyStep ==
    ASSUME QueueInv, NEW b \in Slots, CopyMessages(b)
    PROVE  QueueStep
<1> DEFINE f == Fetched(b)
           n == procState[b].nextMsgNum
           m == max[b]
           t == AfterCopy(procState[b], n + f, m)
<1>1. /\ TypeOK /\ procState[b] \in ProcStates /\ maxMsgNum \in Nat /\ m \in Nat
  BY Zenon, KnownOf
<1>2. pc[b] = "copy" /\ procState' = [procState EXCEPT ![b] = t] /\ buffer' = buffer /\ maxMsgNum' = maxMsgNum
  BY Zenon DEF CopyMessages, ring
<1>3. /\ f \in Nat /\ f <= MAXINVALMSGS /\ f <= m - n
      /\ procState[b].active /\ ~procState[b].sendOnly /\ ~procState[b].resetState
      /\ n \in Nat /\ n <= maxMsgNum /\ m <= maxMsgNum
  <2>1. pc[b] = "copy"
    BY Zenon, <1>2
  <2>2. n <= maxMsgNum
    BY Zenon, <2>1, FetchedIs, UnreadSeq
  <2> QED
    BY Zenon, <2>1, <2>2, FetchedIs
<1>4. /\ Unread(b) = Between(buffer, n, maxMsgNum) /\ Len(Unread(b)) = maxMsgNum - n
      /\ Unread(b) \notin {Inactive, Overrun}
  BY Zenon, <1>3, UnreadSeq
<1>5. Copied(t, procState[b], n + f, m)
  <2> DEFINE next == n + f
  <2>1. next \in Int /\ m \in Int
    BY <1>1, <1>3
  <2> HIDE DEF next, m
  <2>2. Copied(AfterCopy(procState[b], next, m), procState[b], next, m)
    BY Zenon, <1>1, <2>1, AfterCopyIs
  <2> QED
    BY Zenon, <2>2 DEF next
<1> HIDE DEF t, f
<1>6. procState'[b] = t /\ \A i \in Slots \ {b} : procState'[i] = procState[i]
  BY Zenon, <1>1, <1>2 DEF TypeOK
<1>7. \A i \in Slots \ {b} : Unread(i)' = Unread(i)
  BY Zenon, <1>2, <1>6, SameQueue
<1>8. /\ procState'[b].active = procState[b].active /\ procState'[b].sendOnly = procState[b].sendOnly
      /\ procState'[b].resetState = procState[b].resetState /\ procState'[b].nextMsgNum = n + f
  BY Zenon, <1>5, <1>6 DEF Copied
<1>9. CASE f = 0
  <2>1. n + f = n
    BY <1>3, <1>9
  <2> QED
    BY Zenon, <1>2, <1>7, <1>8, <2>1, SameQueue, NoQueueChanges
<1>10. CASE f # 0
  <2>1. Unread(b)' = Between(buffer, n + f, maxMsgNum)
    BY Zenon, <1>2, <1>3, <1>8, UnreadIs
  <2>2. f \in 1..MAXINVALMSGS /\ f <= maxMsgNum - n
    <3> HIDE DEF n, m
    <3>1. m \in Nat
      BY Zenon, <1>1 DEF m
    <3> QED
      BY <1>1, <1>3, <1>10, <3>1, Tunables, SMTT(20)
  <2>3. buffer \in Rings
    BY Zenon, <1>1 DEF TypeOK, Rings, Payload
  <2>4. SubSeq(Between(buffer, n, maxMsgNum), f + 1, maxMsgNum - n) = Between(buffer, n + f, maxMsgNum)
    <3> HIDE DEF n
    <3> QED
      BY ZenonT(60), <1>1, <1>3, <2>2, <2>3, BetweenDrop
  <2>5. Unread(b)' = SubSeq(Unread(b), f + 1, Len(Unread(b)))
    BY Zenon, <1>4, <2>1, <2>4
  <2>6. Owed' = [Owed EXCEPT ![b] = SubSeq(Unread(b), f + 1, Len(Unread(b)))] /\ Owed[b] = Unread(b)
    BY Zenon, <1>7, <2>5, OneQueueChanges
  <2>7. Queues!Receive(b, f)
    <3>1. Owed' = [Owed EXCEPT ![b] = SubSeq(@, f + 1, Len(@))]
      BY Zenon, <2>6
    <3> QED
      BY Zenon, <1>4, <2>2, <2>6, <3>1 DEF Queues!Receive, Owed
  <2> QED
    BY Zenon, <2>2, <2>7 DEF QueueStep, Queues!Next
<1> QED
  BY Zenon, <1>9, <1>10

(* A new owner that reads gets an empty queue *)
LEMMA OccupyStep ==
    ASSUME QueueInv, NEW i \in Slots, NEW so \in BOOLEAN, Occupy(i, so), ~procState[i].active,
           buffer' = buffer, maxMsgNum' = maxMsgNum
    PROVE  QueueStep
<1>1. TypeOK /\ maxMsgNum \in Nat
  BY Zenon, KnownOf
<1> DEFINE ps == [FreeSlot EXCEPT !.active = TRUE, !.nextMsgNum = maxMsgNum, !.sendOnly = so]
<1>2. maxMsgNum \in Int
  BY <1>1
<1>3. ps.active = TRUE /\ ps.nextMsgNum = maxMsgNum /\ ps.sendOnly = so /\ ps.resetState = FALSE
  BY Zenon, <1>2, NewSlotIs
<1>4. procState' = [procState EXCEPT ![i] = ps]
  BY Zenon DEF Occupy
<1> HIDE DEF ps
<1>5. procState'[i] = ps /\ \A j \in Slots \ {i} : procState'[j] = procState[j]
  BY Zenon, <1>1, <1>4 DEF TypeOK
<1>6. \A j \in Slots \ {i} : Unread(j)' = Unread(j)
  BY Zenon, <1>5, SameQueue
<1>7. Unread(i) = Inactive
  BY Zenon, UnreadIs
<1>8. CASE so = TRUE
  <2>1. Unread(i)' = Inactive
    BY Zenon, <1>3, <1>5, <1>8, UnreadIs
  <2> QED
    BY Zenon, <1>6, <1>7, <2>1, NoQueueChanges
<1>9. CASE so = FALSE
  <2>1. Unread(i)' = Between(buffer, maxMsgNum, maxMsgNum)
    BY Zenon, <1>3, <1>5, <1>9, UnreadIs
  <2>2. Unread(i)' = <<>>
    BY Zenon, <1>1, <2>1, BetweenNothing
  <2> QED
    BY Zenon, <1>6, <1>7, <2>2, JoinStep
<1> QED
  BY Zenon, <1>8, <1>9

(* Backends come and go *)
LEMMA ComeAndGoStep ==
    ASSUME QueueInv, NEW b \in Slots,
           \/ \E so \in SendOnlyChoices : SharedInvalReserveBackendInit(so)
           \/ SharedInvalWorkSessionInit(b)
           \/ CleanupInvalidationState(b) \/ CleanupWorkSessionInvalidation(b)
    PROVE  QueueStep
<1>1. ASSUME NEW so \in SendOnlyChoices, SharedInvalReserveBackendInit(so) PROVE QueueStep
  <2>1. buffer' = buffer /\ maxMsgNum' = maxMsgNum
    BY Zenon, <1>1 DEF SharedInvalReserveBackendInit, ring
  <2>2. so \in BOOLEAN
    BY Zenon, <1>1, Tunables
  <2>3. \E i \in Slots : ~procState[i].active /\ Occupy(i, so)
    BY Zenon, <1>1, ReservedSlot
  <2> QED
    BY Zenon, <2>1, <2>2, <2>3, OccupyStep
<1>2. CASE SharedInvalWorkSessionInit(b)
  <2>1. buffer' = buffer /\ maxMsgNum' = maxMsgNum /\ ~procState[b].active /\ Occupy(b, FALSE)
    BY Zenon, <1>2 DEF SharedInvalWorkSessionInit, ring
  <2> QED
    BY Zenon, <2>1, OccupyStep
<1>3. CASE Vacate(b)
  <2>1. /\ procState[b].active /\ procState' = [procState EXCEPT ![b] = FreeSlot]
        /\ buffer' = buffer /\ maxMsgNum' = maxMsgNum
    BY Zenon, <1>3 DEF Vacate, Idle, ring
  <2>2. TypeOK
    BY Zenon, KnownOf
  <2>3. FreeSlot.active = FALSE
    BY Zenon DEF FreeSlot
  <2>4. procState'[b] = FreeSlot /\ \A i \in Slots \ {b} : procState'[i] = procState[i]
    BY Zenon, <2>1, <2>2 DEF TypeOK
  <2>5. \A i \in Slots \ {b} : Unread(i)' = Unread(i)
    BY Zenon, <2>1, <2>4, SameQueue
  <2>6. Unread(b)' = Inactive
    BY Zenon, <2>3, <2>4, UnreadIs
  <2>7. CASE procState[b].sendOnly
    <3>1. Unread(b) = Inactive
      BY Zenon, <2>7, UnreadIs
    <3> QED
      BY Zenon, <2>5, <2>6, <3>1, NoQueueChanges
  <2>8. CASE ~procState[b].sendOnly
    <3>1. Unread(b) # Inactive
      BY Zenon, <2>1, <2>8, UnreadSeq
    <3> QED
      BY Zenon, <2>5, <2>6, <3>1, LeaveStep
  <2> QED
    BY Zenon, <2>7, <2>8
<1> QED
  BY Zenon, <1>1, <1>2, <1>3 DEF CleanupInvalidationState, CleanupWorkSessionInvalidation

(* InsertMessages writes where no unread message is *)
LEMMA InsertStep ==
    ASSUME QueueInv, NEW b \in Slots, InsertMessages(b)
    PROVE  QueueStep
<1> DEFINE n == nthistime(b)
<1>1. pc[b] = "insert" /\ procState' = procState /\ maxMsgNum' = maxMsgNum
  BY Zenon DEF InsertMessages
<1>2. TypeOK /\ Room(b) /\ minMsgNum \in Nat /\ maxMsgNum \in Nat
  BY Zenon, KnownOf
<1>3. n \in Nat /\ maxMsgNum - minMsgNum + n <= MAXNUMMESSAGES
  BY Zenon, <1>1, <1>2, GroupSize DEF Room
<1>4. \A s \in 0..MAXNUMMESSAGES - 1 :
        (\A k \in 1..n : (maxMsgNum + k - 1) % MAXNUMMESSAGES # s) => buffer'[s] = buffer[s]
  BY Zenon, InsertWrites
<1> HIDE DEF n
<1>5. ASSUME NEW x \in Nat, minMsgNum <= x, x < maxMsgNum
      PROVE  buffer'[x % MAXNUMMESSAGES] = buffer[x % MAXNUMMESSAGES]
  <2>1. ASSUME NEW k \in 1..n PROVE (maxMsgNum + k - 1) % MAXNUMMESSAGES # x % MAXNUMMESSAGES
    <3> DEFINE c == maxMsgNum + k - 1
    <3>1. c \in Nat /\ x < c /\ c < x + MAXNUMMESSAGES
      BY <1>2, <1>3, <1>5, RingFacts, SMTT(20)
    <3> HIDE DEF c
    <3>2. x % MAXNUMMESSAGES # c % MAXNUMMESSAGES
      BY Zenon, <3>1, PlacesApart
    <3> QED
      BY Zenon, <3>2 DEF c
  <2>2. x % MAXNUMMESSAGES \in 0..MAXNUMMESSAGES - 1
    BY Zenon, Divided, RingFacts
  <2> QED
    BY Zenon, <1>4, <2>1, <2>2
<1>6. ASSUME NEW i \in Slots PROVE Unread(i)' = Unread(i)
  <2>1. CASE procState[i].active /\ ~procState[i].sendOnly /\ ~procState[i].resetState
    <3> DEFINE x == procState[i].nextMsgNum
    <3>1. Unread(i) = Between(buffer, x, maxMsgNum) /\ x \in Nat /\ x \in minMsgNum..maxMsgNum
      <4>1. Numbered(i)
        BY Zenon, KnownOf
      <4> QED
        BY Zenon, <2>1, <4>1, UnreadSeq DEF Numbered
    <3>2. Unread(i)' = Between(buffer', x, maxMsgNum)
      BY Zenon, <1>1, <2>1, UnreadIs
    <3> HIDE DEF x
    <3>3. \A y \in Nat : x <= y => minMsgNum <= y
      BY <1>2, <3>1
    <3>4. Between(buffer', x, maxMsgNum) = Between(buffer, x, maxMsgNum)
      <4>1. x \in Nat /\ maxMsgNum \in Nat
        BY Zenon, <1>2, <3>1
      <4>2. \A y \in Nat : x <= y /\ y < maxMsgNum =>
                buffer'[y % MAXNUMMESSAGES] = buffer[y % MAXNUMMESSAGES]
        BY Zenon, <1>5, <3>3
      <4> QED
        BY ONLY Zenon, <4>1, <4>2, BetweenSame
    <3> QED
      BY Zenon, <3>1, <3>2, <3>4
  <2>2. CASE ~(procState[i].active /\ ~procState[i].sendOnly /\ ~procState[i].resetState)
    BY Zenon, <1>1, <2>2, UnreadIs
  <2> QED
    BY Zenon, <2>1, <2>2
<1> QED
  BY Zenon, <1>6, NoQueueChanges

(* SetHasMessages and AcquireReadLock touch hasMessages only *)
LEMMA FlagStep ==
    ASSUME QueueInv, NEW b \in Slots, SetHasMessages(b) \/ AcquireReadLock(b)
    PROVE  QueueStep
<1>1. TypeOK /\ DOMAIN procState = Slots /\ \A i \in Slots : procState[i] \in ProcStates
  BY Zenon DEF QueueInv, Ends, TypeOK
<1>2. buffer' = buffer /\ maxMsgNum' = maxMsgNum
  BY Zenon DEF SetHasMessages, AcquireReadLock, ring
<1>3. ASSUME NEW i \in Slots
      PROVE  procState'[i] = procState[i] \/ \E v \in BOOLEAN : procState'[i] = [procState[i] EXCEPT !.hasMessages = v]
  <2>1. CASE SetHasMessages(b)
    BY Zenon, <2>1 DEF SetHasMessages
  <2>2. CASE AcquireReadLock(b)
    <3> DEFINE t == [procState[b] EXCEPT !.hasMessages = FALSE]
    <3>1. procState' = [procState EXCEPT ![b] = t]
      BY Zenon, <2>2 DEF AcquireReadLock
    <3>2. i = b => procState'[i] = t
      BY Zenon, <1>1, <3>1
    <3>3. i # b => procState'[i] = procState[i]
      BY Zenon, <1>1, <3>1
    <3> QED
      BY Zenon, <3>2, <3>3
  <2> QED
    BY Zenon, <2>1, <2>2
<1>4. ASSUME NEW i \in Slots PROVE Unread(i)' = Unread(i)
  <2>1. /\ procState'[i].active = procState[i].active /\ procState'[i].sendOnly = procState[i].sendOnly
        /\ procState'[i].resetState = procState[i].resetState
        /\ procState'[i].nextMsgNum = procState[i].nextMsgNum
    <3>1. CASE procState'[i] = procState[i]
      BY Zenon, <3>1
    <3>2. ASSUME NEW v \in BOOLEAN, procState'[i] = [procState[i] EXCEPT !.hasMessages = v]
          PROVE  <2>1!:
      <4> DEFINE ps == procState[i]
                 t == [ps EXCEPT !.hasMessages = v]
      <4>1. ps \in ProcStates /\ procState'[i] = t
        BY Zenon, <1>1, <3>2
      <4> HIDE DEF ps
      <4>2. t.active = ps.active /\ t.resetState = ps.resetState /\ t.nextMsgNum = ps.nextMsgNum
            /\ t.sendOnly = ps.sendOnly
        BY Zenon, <4>1 DEF ProcStates
      <4> HIDE DEF t
      <4> QED
        BY Zenon, <4>1, <4>2 DEF ps
    <3> QED
      BY Zenon, <1>3, <3>1, <3>2
  <2> QED
    BY Zenon, <1>2, <2>1, SameQueue
<1> QED
  BY Zenon, <1>4, NoQueueChanges

(* A backend that is reset starts with an empty queue *)
LEMMA FetchMaxStep ==
    ASSUME QueueInv, NEW b \in Slots, FetchMaxMsgNum(b)
    PROVE  QueueStep
<1>1. /\ TypeOK /\ Place(b) /\ procState[b] \in ProcStates /\ maxMsgNum \in Nat
  BY Zenon, KnownOf
<1>2. pc[b] = "fetch_max" /\ buffer' = buffer /\ maxMsgNum' = maxMsgNum
  BY Zenon DEF FetchMaxMsgNum, ring
<1>3. CASE ForceReset(b)
  <2> DEFINE ps == procState[b]
             no == FALSE
             t == Renumbered(ps, maxMsgNum, no, no)
  <2>1. ps.resetState /\ procState' = [procState EXCEPT ![b] = t]
    BY Zenon, <1>3 DEF ForceReset, AfterReset, Renumbered
  <2>2. ps.active /\ ~ps.sendOnly
    BY Zenon, <1>1, <1>2 DEF Place, Receiving
  <2>3. t.active = ps.active /\ t.sendOnly = ps.sendOnly /\ t.nextMsgNum = maxMsgNum /\ t.resetState = FALSE
    <3>1. ps \in ProcStates /\ no \in BOOLEAN
      BY Zenon, <1>1
    <3>2. maxMsgNum \in Int
      BY <1>1
    <3> HIDE DEF ps, no
    <3>3. t.active = ps.active /\ t.sendOnly = ps.sendOnly /\ t.nextMsgNum = maxMsgNum /\ t.resetState = no
      BY ONLY SMTT(20), <3>1, <3>2, RenumberedIs
    <3> HIDE DEF t
    <3> QED
      BY Zenon, <3>3 DEF no
  <2> HIDE DEF t
  <2>4. procState'[b] = t /\ \A i \in Slots \ {b} : procState'[i] = procState[i]
    BY Zenon, <1>1, <2>1 DEF TypeOK
  <2>5. \A i \in Slots \ {b} : Unread(i)' = Unread(i)
    BY Zenon, <1>2, <2>4, SameQueue
  <2>6. Unread(b) = Overrun
    BY Zenon, <2>1, <2>2, UnreadIs
  <2>7. Unread(b)' = Between(buffer, maxMsgNum, maxMsgNum)
    BY Zenon, <1>2, <2>2, <2>3, <2>4, UnreadIs
  <2>8. Unread(b)' = <<>>
    BY Zenon, <1>1, <2>7, BetweenNothing
  <2> QED
    BY Zenon, <2>5, <2>6, <2>8, JoinStep
<1>4. CASE ~ForceReset(b)
  <2>1. procState' = procState
    BY Zenon, <1>4 DEF FetchMaxMsgNum
  <2> QED
    BY Zenon, <1>2, <2>1, SameQueue, NoQueueChanges
<1> QED
  BY Zenon, <1>3, <1>4

(* The two calls of SICleanupQueue *)
LEMMA CleanupSteps ==
    ASSUME QueueInv, NEW b \in Slots, CleanupForSpace(b) \/ PassOnCatchup(b)
    PROVE  QueueStep
<1>1. TypeOK /\ Place(b) /\ nthistime(b) \in Nat /\ nthistime(b) <= MAXNUMMESSAGES
  BY Zenon, KnownOf, GroupSize
<1>2. CASE CleanupForSpace(b)
  <2>1. pc[b] = "cleanup" /\ SICleanupQueue(b, nthistime(b)) /\ buffer' = buffer
    BY Zenon, <1>2 DEF CleanupForSpace
  <2>2. writeLock = b /\ pc[b] # "kick"
    BY Zenon, <1>1, <2>1 DEF Place, Writing
  <2> QED
    BY Zenon, <1>1, <2>1, <2>2, CleanupStep
<1>3. CASE PassOnCatchup(b)
  <2>1. pc[b] # "kick" /\ writeLock = b /\ SICleanupQueue(b, 0) /\ buffer' = buffer
    BY Zenon, <1>3 DEF PassOnCatchup
  <2>2. 0 \in Nat /\ 0 <= MAXNUMMESSAGES
    BY RingFacts
  <2> QED
    BY Zenon, <2>1, <2>2, CleanupStep
<1> QED
  BY Zenon, <1>2, <1>3

(* The circular buffer, with a position per backend, implements a FIFO queue per          *)
(* backend: for any number of backends and any sizes, no step of sinvaladt.cpp overwrites, *)
(* skips, repeats or reorders a message a backend has yet to read, except by a reset.      *)
THEOREM RingImplementsQueues == Spec => ImplementsQueues
<1>1. Init => Queues!Init
  <2> SUFFICES ASSUME Init PROVE Queues!Init
    OBVIOUS
  <2>1. \A i \in Slots : procState[i].active = FALSE
    BY Zenon DEF Init, FreeSlot
  <2>2. \A i \in Slots : Unread(i) = Inactive
    BY Zenon, <2>1, UnreadIs
  <2> QED
    BY Zenon, <2>2 DEF Queues!Init
<1>2. ASSUME QueueInv, Next PROVE QueueStep
  <2>1. ASSUME UNCHANGED <<buffer, maxMsgNum, procState>> PROVE QueueStep
    BY Zenon, <2>1, SameQueue, NoQueueChanges
  <2>2. ASSUME NEW so \in SendOnlyChoices, SharedInvalReserveBackendInit(so) PROVE QueueStep
    <3>1. \E i \in Slots : TRUE
      BY Zenon, <1>2, <2>2, ReservedSlot
    <3> QED
      BY Zenon, <1>2, <2>2, <3>1, ComeAndGoStep
  <2>3. ASSUME NEW b \in Slots,
               \/ SharedInvalWorkSessionInit(b)
               \/ CleanupInvalidationState(b) \/ CleanupWorkSessionInvalidation(b)
        PROVE  QueueStep
    BY Zenon, <1>2, <2>3, ComeAndGoStep
  <2>4. ASSUME NEW b \in Slots, Sender(b) PROVE QueueStep
    <3>1. CASE (\E batch \in Batches : SIInsertDataEntries(b, batch)) \/ InsertMore(b) \/ SendCatchup(b)
      BY Zenon, <2>1, <3>1 DEF SIInsertDataEntries, InsertMore, LockAndTest, SendCatchup, ring
    <3> QED
      BY Zenon, <1>2, <2>4, <3>1, CleanupSteps, InsertStep, PublishStep, FlagStep DEF Sender
  <2>5. ASSUME NEW b \in Slots, Receiver(b) PROVE QueueStep
    <3>1. CASE ReceiveSharedInvalidMessages(b) \/ GetMore(b) \/ CaughtUp(b)
      BY Zenon, <2>1, <3>1 DEF ReceiveSharedInvalidMessages, GetMore, CaughtUp, ring
    <3> QED
      BY Zenon, <1>2, <2>5, <3>1, CleanupSteps, FetchMaxStep, CopyStep, FlagStep DEF Receiver
  <2> QED
    BY Zenon, <1>2, <2>2, <2>3, <2>4, <2>5 DEF Next
<1>3. ASSUME UNCHANGED vars PROVE QueueStep
  <2>1. UNCHANGED <<buffer, maxMsgNum, procState>>
    BY Zenon, <1>3 DEF vars, ring
  <2> QED
    BY Zenon, <2>1, SameQueue, NoQueueChanges
<1>4. QueueInv /\ [Next]_vars => [Queues!Next(WRITE_QUANTUM, MAXINVALMSGS)]_([b \in Slots |-> Unread(b)])
  BY Zenon, <1>2, <1>3 DEF QueueStep, Owed
<1> QED
  BY QueueInvariant, <1>1, <1>4, PTL DEF Spec, ImplementsQueues

=============================================================================
