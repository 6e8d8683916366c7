---------------------------- MODULE SInvalProofs ----------------------------
(***************************************************************************)
(* The inductive invariant of the shared invalidation queue and what it    *)
(* implies: the numbers stay in order across every renumbering, no         *)
(* announced message is missed, a receive reads all it promised to, a      *)
(* backend signalled to catch up is not stuck, and a cleanup that returns  *)
(* has made the room it was asked for.                                     *)
(***************************************************************************)
EXTENDS SInval, TLAPS, WellFoundedInduction

-----------------------------------------------------------------------------
(* Arithmetic of the circular buffer *)

(* Division with remainder *)
LEMMA Divided ==
    ASSUME NEW m \in Nat \ {0}, NEW a \in Nat
    PROVE  a \div m \in Nat /\ a = m * (a \div m) + (a % m) /\ a % m \in 0..m - 1
  BY SMT

(* Two multiples of m that are less than m apart are one *)
LEMMA Multiples ==
    ASSUME NEW m \in Nat \ {0}, NEW p \in Int, NEW q \in Int, m * p - m * q < m, m * p - m * q > -m
    PROVE  p = q
<1>1. m * p - m * q = m * (p - q)
  BY SMT
<1>2. CASE p - q >= 1
  BY <1>1, <1>2, SMT
<1>3. CASE p - q <= -1
  BY <1>1, <1>3, SMT
<1> QED
  BY <1>2, <1>3, SMT

(* Messages less than m apart are in different slots *)
LEMMA ModApart ==
    ASSUME NEW m \in Nat \ {0}, NEW a \in Nat, NEW d \in 1..m - 1
    PROVE  (a + d) % m # a % m
<1> DEFINE p == (a + d) \div m
           q == a \div m
<1>1. /\ p \in Nat /\ q \in Nat /\ a % m \in Nat
      /\ a + d = m * p + ((a + d) % m) /\ a = m * q + (a % m)
  <2>1. a + d \in Nat /\ 0..m - 1 \subseteq Nat
    BY SMT
  <2> QED
    BY Zenon, <2>1, Divided
<1> HIDE DEF p, q
<1>2. SUFFICES ASSUME (a + d) % m = a % m PROVE FALSE
  OBVIOUS
<1>3. m * p - m * q = d
  BY <1>1, <1>2, SMT
<1>4. p = q
  BY <1>1, <1>3, Multiples
<1> QED
  BY <1>1, <1>3, <1>4, SMT

(* A message keeps its slot when it is renumbered by a multiple of m *)
LEMMA ModShift ==
    ASSUME NEW m \in Nat \ {0}, NEW w \in Nat, w % m = 0, NEW a \in Nat
    PROVE  (a + w) % m = a % m
<1> DEFINE p == (a + w) \div m
           q == a \div m
           r == w \div m
<1>1. /\ p \in Nat /\ q \in Nat /\ r \in Nat /\ a % m \in 0..m - 1 /\ (a + w) % m \in 0..m - 1
      /\ a + w = m * p + ((a + w) % m) /\ a = m * q + (a % m) /\ w = m * r + (w % m)
  <2>1. a + w \in Nat
    BY SMT
  <2> QED
    BY Zenon, <2>1, Divided
<1> HIDE DEF p, q, r
<1>2. m * (q + r) = m * q + m * r
  BY <1>1, SMT
<1>3. p = q + r
  BY <1>1, <1>2, Multiples
<1> QED
  BY <1>1, <1>2, <1>3, SMT

(* The threshold SICleanupQueue sets is above the fill level *)
LEMMA ThresholdAbove ==
    ASSUME NEW n \in Nat
    PROVE  Threshold(n) \in Nat /\ n < Threshold(n)
<1>1. CLEANUP_MIN \in Nat /\ CLEANUP_QUANTUM \in Nat \ {0}
  BY Zenon, Tunables
<1> DEFINE q == CLEANUP_QUANTUM
           k == n \div q
           r == n % q
<1>2. k \in Nat /\ n = q * k + r /\ r \in 0..q - 1
  BY Zenon, <1>1, Divided
<1>3. Threshold(n) = IF n < CLEANUP_MIN THEN CLEANUP_MIN ELSE (k + 1) * q
  BY Zenon DEF Threshold
<1> HIDE DEF k, r
<1>4. (k + 1) * q = q * k + q /\ q * k \in Nat
  BY <1>1, <1>2, SMT
<1>5. (k + 1) * q \in Nat /\ n < (k + 1) * q
  BY <1>1, <1>2, <1>4, SMT
<1> QED
  BY <1>1, <1>3, <1>5, SMT

(* The constants of the ring *)
LEMMA RingFacts ==
    /\ MAXNUMMESSAGES \in Nat \ {0} /\ MSGNUMWRAPAROUND \in Nat \ {0}
    /\ MAXNUMMESSAGES <= MSGNUMWRAPAROUND
    /\ WRITE_QUANTUM \in Nat \ {0} /\ WRITE_QUANTUM <= MAXNUMMESSAGES
<1>1. \A m \in Nat \ {0}, a \in Nat : a < m => a % m = a
  BY SMT
<1> QED
  BY <1>1, RingFits

(* An int that needs no wrapping *)
LEMMA AsIntIs ==
    /\ \A x \in Int : AsInt(x) \in Int
    /\ \A x \in Nat : x < 2 * MSGNUMWRAPAROUND => AsInt(x) = x
<1>1. \A w \in Nat \ {0}, x \in Int : ((x + 2 * w) % (4 * w)) - 2 * w \in Int
  BY SMT
<1>2. \A w \in Nat \ {0}, x \in Nat : x < 2 * w => ((x + 2 * w) % (4 * w)) - 2 * w = x
  <2> SUFFICES ASSUME NEW w \in Nat \ {0}, NEW x \in Nat, x < 2 * w
               PROVE  ((x + 2 * w) % (4 * w)) - 2 * w = x
    OBVIOUS
  <2> DEFINE y == x + 2 * w
             v == 4 * w
  <2>1. y \in Nat /\ v \in Nat \ {0} /\ y < v
    BY SMT
  <2>2. \A m \in Nat \ {0}, a \in Nat : a < m => a % m = a
    BY SMT
  <2>3. y % v = y
    BY Zenon, <2>1, <2>2
  <2> QED
    BY <2>3, SMT
<1> QED
  BY Zenon, <1>1, <1>2, RingFacts DEF AsInt

(* A set of numbers has a least ... *)
LEMMA LeastOf ==
    ASSUME NEW S, S \subseteq Nat, S # {}
    PROVE  \E x \in S : \A y \in S : x <= y
<1> DEFINE R == OpToRel(<, Nat)
<1>1. IsWellFoundedOn(R, Nat)
  BY Zenon, NatLessThanWellFounded
<1>2. \A x, y \in Nat : <<x, y>> \in R <=> x < y
  BY Zenon DEF OpToRel
<1> HIDE DEF R
<1>3. \E x \in S : \A y \in S : <<y, x>> \notin R
  BY ONLY Zenon, WFMin, <1>1, S \subseteq Nat, S # {}
<1>4. PICK x \in S : \A y \in S : <<y, x>> \notin R
  BY Zenon, <1>3
<1>5. \A y \in S : ~(y < x)
  BY Zenon, <1>2, <1>4
<1>6. \A y \in S : x <= y
  BY <1>5
<1> QED
  BY Zenon, <1>6

(* ... and, when it is bounded, a greatest member *)
LEMMA GreatestOf ==
    ASSUME NEW n \in Nat, NEW S, S \subseteq 1..n, S # {}
    PROVE  \E x \in S : \A y \in S : y <= x
<1> DEFINE T == {n - y : y \in S}
<1>1. T \subseteq Nat /\ T # {}
  <2>1. \A y \in S : n - y \in Nat
    BY SMT
  <2> QED
    BY Zenon, <2>1
<1>2. PICK t \in T : \A u \in T : t <= u
  <2> HIDE DEF T
  <2> QED
    BY Zenon, <1>1, LeastOf
<1>3. PICK x \in S : t = n - x
  BY Zenon
<1>4. \A y \in S : n - x <= n - y
  BY Zenon, <1>2, <1>3
<1>5. \A y \in S : y <= x
  BY <1>4
<1> QED
  BY Zenon, <1>5

(* Least is the smaller of two numbers *)
LEMMA LeastIs ==
    \A a, b \in Int : Least(a, b) \in Int /\ Least(a, b) <= a /\ Least(a, b) <= b /\ Least(a, b) \in {a, b}
  BY DEF Least

(* LastActive is the highest slot in use, or 0 *)
LEMMA LastActiveIs ==
    ASSUME NEW ps, NEW n \in Nat
    PROVE  LastActive(ps, n) \in 0..n /\ \A i \in 1..n : ps[i].active => i <= LastActive(ps, n)
<1> DEFINE S == {i \in 1..n : ps[i].active}
<1>1. CASE S = {}
  BY <1>1 DEF LastActive
<1>2. CASE S # {}
  <2>1. \E x \in S : \A y \in S : y <= x
    BY Zenon, <1>2, GreatestOf
  <2>2. LastActive(ps, n) \in S /\ \A y \in S : y <= LastActive(ps, n)
    BY Zenon, <1>2, <2>1 DEF LastActive
  <2>3. S \subseteq 0..n
    BY SMT
  <2> QED
    BY Zenon, <2>2, <2>3
<1> QED
  BY Zenon, <1>1, <1>2

-----------------------------------------------------------------------------
(* The inductive invariant *)

Writing == {"cleanup", "insert", "publish", "kick", "pass_on"}
Reading == {"fetch_max", "copy"}
Receiving == {"get", "again", "fetch_max", "copy", "caught_up", "pass_on"}

(* Both ends of the queue, and every variable in its range *)
Ends == TypeOK /\ maxMsgNum - minMsgNum \in 0..MAXNUMMESSAGES

(* The loops up to lastBackend and lastreserveBackend meet every active slot; who is *)
(* at work is active and holds the lock of that step.                                *)
Place(i) ==
    /\ procState[i].active => i <= lastBackend /\ (i \in Reserved => i <= lastreserveBackend)
    /\ pc[i] # "idle" => procState[i].active
    /\ pc[i] \in Writing => writeLock = i
    /\ i \in readers <=> pc[i] \in Reading
    /\ pc[i] \in Receiving => ~procState[i].sendOnly

Numbered(i) ==
    procState[i].active /\ ~procState[i].resetState /\ ~procState[i].sendOnly
        => procState[i].nextMsgNum \in minMsgNum..maxMsgNum

(* The messages to publish are in the buffer *)
Written(i) ==
    \A k \in 1..nthistime(i) : buffer[(maxMsgNum + k - 1) % MAXNUMMESSAGES] = todo[i][k]

(* The space tested for is there until it is used *)
Room(i) ==
    /\ pc[i] \in {"insert", "publish"} => maxMsgNum - minMsgNum + nthistime(i) <= MAXNUMMESSAGES
    /\ pc[i] = "publish" => Written(i)

(* hasMessages, while a read is under way and while none is; and signaled implies it *)
Told(i) ==
    /\ procState[i].active /\ ~procState[i].sendOnly /\ ~procState[i].hasMessages /\ pc[i] \notin Reading
        => ~procState[i].resetState /\ procState[i].nextMsgNum >= Announced
    /\ pc[i] = "copy" =>
        /\ ~procState[i].resetState
        /\ procState[i].nextMsgNum <= max[i] /\ max[i] <= maxMsgNum
        /\ procState[i].hasMessages \/ max[i] >= Announced
    /\ procState[i].active /\ procState[i].signaled => procState[i].hasMessages \/ pc[i] \in Reading

(* What a receive owes is among the announced messages, and among those it is copying *)
Owing(i) ==
    /\ pc[i] \in {"get", "again", "fetch_max", "copy"} /\ ~procState[i].resetState /\ due[i] # 0
        => due[i] <= Announced - procState[i].nextMsgNum
    /\ pc[i] = "copy" /\ due[i] # 0 => due[i] <= max[i] - procState[i].nextMsgNum
    /\ pc[i] \in {"caught_up", "pass_on"} => due[i] = 0

SlotOK(i) == Place(i) /\ Numbered(i) /\ Room(i) /\ Told(i) /\ Owing(i)

QueueInv == Ends /\ \A i \in Slots : SlotOK(i)

-----------------------------------------------------------------------------
(* What a step leaves alone *)

(* Message numbers are natural *)
LEMMA RangesAreNat ==
    0..MSGNUMWRAPAROUND - 1 \subseteq Nat /\ 0..MSGNUMWRAPAROUND + MAXNUMMESSAGES - 1 \subseteq Nat
  BY RingFacts

(* The fields of a slot *)
LEMMA Fields ==
    \A ps \in ProcStates :
        /\ ps.active \in BOOLEAN /\ ps.nextMsgNum \in Int /\ ps.resetState \in BOOLEAN
        /\ ps.signaled \in BOOLEAN /\ ps.hasMessages \in BOOLEAN /\ ps.sendOnly \in BOOLEAN
  BY DEF ProcStates

(* A new owner's slot *)
LEMMA NewSlotIs ==
    ASSUME NEW n \in Int, NEW so \in BOOLEAN
    PROVE  LET ps == [FreeSlot EXCEPT !.active = TRUE, !.nextMsgNum = n, !.sendOnly = so]
           IN  /\ ps \in ProcStates /\ ps.active = TRUE /\ ps.nextMsgNum = n /\ ps.sendOnly = so
               /\ ps.resetState = FALSE /\ ps.signaled = FALSE /\ ps.hasMessages = FALSE
  BY Zenon DEF ProcStates, FreeSlot

(* The size of a group of messages *)
LEMMA GroupSize ==
    ASSUME TypeOK, NEW b \in Slots
    PROVE  /\ nthistime(b) \in Nat /\ nthistime(b) <= MAXNUMMESSAGES
           /\ nthistime(b) <= Len(todo[b]) /\ nthistime(b) <= WRITE_QUANTUM
<1>1. Len(todo[b]) \in Nat
  BY DEF TypeOK
<1> DEFINE n == Len(todo[b])
<1>2. nthistime(b) = Least(n, WRITE_QUANTUM)
  BY Zenon DEF nthistime
<1> HIDE DEF n
<1>3. /\ Least(n, WRITE_QUANTUM) \in Nat /\ Least(n, WRITE_QUANTUM) <= n
      /\ Least(n, WRITE_QUANTUM) <= WRITE_QUANTUM /\ Least(n, WRITE_QUANTUM) <= MAXNUMMESSAGES
  BY <1>1, RingFacts DEF n, Least
<1> QED
  BY Zenon, <1>2, <1>3 DEF n

(* The announced messages are among the published ones, and are all of them unless *)
(* the holder of SInvalWriteLock has yet to tell                                    *)
LEMMA AnnouncedIs ==
    ASSUME TypeOK
    PROVE  /\ Announced \in Int /\ Announced <= maxMsgNum
           /\ writeLock = Nobody => Announced = maxMsgNum
           /\ \A b \in Slots : writeLock = b /\ pc[b] # "kick" => Announced = maxMsgNum
<1>1. maxMsgNum \in Nat /\ writeLock \in Slots \cup {Nobody}
  BY Zenon, RangesAreNat DEF TypeOK
<1>2. CASE writeLock # Nobody /\ pc[writeLock] = "kick"
  <2>1. Announced = maxMsgNum - nthistime(writeLock) /\ nthistime(writeLock) \in Nat
    BY Zenon, <1>1, <1>2, GroupSize DEF Announced
  <2> DEFINE n == nthistime(writeLock)
  <2> HIDE DEF n
  <2>2. n \in Nat => maxMsgNum - n \in Int /\ maxMsgNum - n <= maxMsgNum
    BY <1>1
  <2> QED
    BY Zenon, <1>2, <2>1, <2>2 DEF n
<1>3. CASE ~(writeLock # Nobody /\ pc[writeLock] = "kick")
  <2>1. Announced = maxMsgNum
    BY Zenon, <1>3 DEF Announced
  <2> QED
    BY <1>1, <2>1
<1> QED
  BY Zenon, <1>2, <1>3

(* A step of b that is none of another backend's business *)
Aside(b) ==
    /\ \A i \in Slots \ {b} :
          /\ procState'[i] = procState[i] /\ pc'[i] = pc[i] /\ todo'[i] = todo[i]
          /\ max'[i] = max[i] /\ due'[i] = due[i] /\ (i \in readers' <=> i \in readers)
          /\ procState[i].active => i <= lastBackend' /\ (i \in Reserved => i <= lastreserveBackend')
    /\ minMsgNum' = minMsgNum /\ Announced' = Announced
    /\ maxMsgNum' = maxMsgNum \/ (writeLock = b /\ maxMsgNum' >= maxMsgNum)
    /\ buffer' = buffer \/ writeLock = b
    /\ writeLock' = writeLock \/ writeLock \in {Nobody, b}

(* No slot is 0 *)
LEMMA Slot0 == ASSUME NEW i \in Slots PROVE i # Nobody /\ i \in Int
  BY SlotsFit DEF Slots, Nobody

(* Such a step keeps what is known of another slot *)
LEMMA AsideKeeps ==
    ASSUME Ends, Ends', NEW b \in Slots, Aside(b), NEW i \in Slots \ {b}, SlotOK(i)
    PROVE  SlotOK(i)'
<1>1. /\ procState'[i] = procState[i] /\ pc'[i] = pc[i] /\ todo'[i] = todo[i]
      /\ max'[i] = max[i] /\ due'[i] = due[i] /\ (i \in readers' <=> i \in readers)
      /\ procState[i].active => i <= lastBackend' /\ (i \in Reserved => i <= lastreserveBackend')
      /\ minMsgNum' = minMsgNum /\ Announced' = Announced
      /\ maxMsgNum' = maxMsgNum \/ (writeLock = b /\ maxMsgNum' >= maxMsgNum)
      /\ buffer' = buffer \/ writeLock = b
      /\ writeLock' = writeLock \/ writeLock \in {Nobody, b}
      /\ i # b /\ i # Nobody
  BY Zenon, Slot0 DEF Aside
<1>2. Place(i) /\ Numbered(i) /\ Room(i) /\ Told(i) /\ Owing(i)
  BY Zenon DEF SlotOK
<1>3. Place(i)'
  BY Zenon, <1>1, <1>2 DEF Place, Writing
<1>4. /\ minMsgNum \in Nat /\ maxMsgNum \in Nat /\ maxMsgNum' \in Nat /\ maxMsgNum <= maxMsgNum'
      /\ max[i] \in Nat /\ procState[i].nextMsgNum \in Int
  <2>1. /\ minMsgNum \in Nat /\ maxMsgNum \in Nat /\ maxMsgNum' \in Nat /\ max[i] \in Nat
        /\ procState[i] \in ProcStates
    BY Zenon, RangesAreNat DEF Ends, TypeOK
  <2>2. maxMsgNum <= maxMsgNum'
    BY <1>1, <2>1
  <2> QED
    BY Zenon, <2>1, <2>2, Fields
<1>5. Numbered(i)'
  <2>1. \A n \in Int : n \in minMsgNum..maxMsgNum => n \in minMsgNum..maxMsgNum'
    BY <1>4
  <2> QED
    BY Zenon, <1>1, <1>2, <1>4, <2>1 DEF Numbered
<1>6. Room(i)'
  <2>1. pc[i] \in {"insert", "publish"} => writeLock # b
    BY Zenon, <1>1, <1>2 DEF Place, Writing
  <2> QED
    BY Zenon, <1>1, <1>2, <2>1 DEF Room, Written, nthistime
<1>7. Told(i)'
  <2>1. max[i] <= maxMsgNum => max[i] <= maxMsgNum'
    BY <1>4
  <2> QED
    BY Zenon, <1>1, <1>2, <2>1 DEF Told, Reading
<1>8. Owing(i)'
  BY Zenon, <1>1, <1>2 DEF Owing
<1> QED
  BY Zenon, <1>3, <1>5, <1>6, <1>7, <1>8 DEF SlotOK

(* So it is enough to look at the backend that takes the step *)
LEMMA AsideStep ==
    ASSUME QueueInv, Ends', NEW b \in Slots, Aside(b), SlotOK(b)'
    PROVE  QueueInv'
<1>1. ASSUME NEW i \in Slots, i # b PROVE SlotOK(i)'
  BY Zenon, <1>1, AsideKeeps DEF QueueInv
<1> QED
  BY Zenon, <1>1 DEF QueueInv

-----------------------------------------------------------------------------
(* Backends come and go *)

(* What is known of a backend about to take a step *)
LEMMA KnownOf ==
    ASSUME QueueInv, NEW b \in Slots
    PROVE  /\ Ends /\ TypeOK /\ Place(b) /\ Numbered(b) /\ Room(b) /\ Told(b) /\ Owing(b)
           /\ minMsgNum \in Nat /\ maxMsgNum \in Nat /\ minMsgNum <= maxMsgNum
           /\ maxMsgNum - minMsgNum <= MAXNUMMESSAGES
           /\ procState[b] \in ProcStates /\ procState[b].nextMsgNum \in Int
           /\ max[b] \in Nat /\ due[b] \in Nat
<1>1. Ends /\ TypeOK /\ SlotOK(b) /\ maxMsgNum - minMsgNum \in 0..MAXNUMMESSAGES
  BY Zenon DEF QueueInv, Ends
<1>2. minMsgNum \in Nat /\ maxMsgNum \in Nat /\ procState[b] \in ProcStates /\ max[b] \in Nat /\ due[b] \in Nat
  BY Zenon, <1>1, RangesAreNat DEF TypeOK
<1>3. minMsgNum <= maxMsgNum /\ maxMsgNum - minMsgNum <= MAXNUMMESSAGES
  BY <1>1, <1>2, RingFacts
<1> QED
  BY Zenon, <1>1, <1>2, <1>3, Fields DEF SlotOK

(* A new owner has read everything *)
LEMMA OccupyInv ==
    ASSUME QueueInv, NEW i \in Slots, NEW so \in BOOLEAN, Occupy(i, so),
           writeLock = Nobody, ~procState[i].active,
           lastBackend' \in 0..maxBackends, lastBackend <= lastBackend', i <= lastBackend',
           lastreserveBackend' \in 0..maxreserveBackends, lastreserveBackend <= lastreserveBackend',
           i \in Reserved => i <= lastreserveBackend',
           UNCHANGED <<ring, writeLock, readers, pc, local>>
    PROVE  QueueInv'
<1>1. /\ Ends /\ TypeOK /\ Place(i) /\ Numbered(i) /\ Room(i) /\ Told(i) /\ Owing(i)
      /\ minMsgNum \in Nat /\ maxMsgNum \in Nat /\ minMsgNum <= maxMsgNum
  BY Zenon, KnownOf
<1>2. UNCHANGED <<buffer, minMsgNum, maxMsgNum, nextThreshold, writeLock, readers, pc, todo, max, target,
                  catchup, due>>
  BY Zenon DEF ring, local
<1>3. /\ DOMAIN procState' = Slots /\ procState'[i] \in ProcStates
      /\ procState'[i].active = TRUE /\ procState'[i].nextMsgNum = maxMsgNum
      /\ procState'[i].sendOnly = so /\ procState'[i].resetState = FALSE
      /\ procState'[i].signaled = FALSE /\ procState'[i].hasMessages = FALSE
      /\ \A j \in Slots \ {i} : procState'[j] = procState[j]
  <2> DEFINE ps == [FreeSlot EXCEPT !.active = TRUE, !.nextMsgNum = maxMsgNum, !.sendOnly = so]
  <2>1. procState' = [procState EXCEPT ![i] = ps] /\ DOMAIN procState = Slots
    BY Zenon, <1>1 DEF Occupy, TypeOK
  <2>2. maxMsgNum \in Int
    BY <1>1
  <2>3. /\ ps \in ProcStates /\ ps.active = TRUE /\ ps.nextMsgNum = maxMsgNum /\ ps.sendOnly = so
        /\ ps.resetState = FALSE /\ ps.signaled = FALSE /\ ps.hasMessages = FALSE
    BY Zenon, <2>2, NewSlotIs
  <2> HIDE DEF ps
  <2> QED
    BY Zenon, <2>1, <2>3
<1>4. procState' \in [Slots -> ProcStates]
  <2>1. procState' = [j \in Slots |-> procState'[j]]
    BY Zenon, <1>1, <1>3 DEF Occupy, TypeOK
  <2>2. \A j \in Slots : procState'[j] \in ProcStates
    BY Zenon, <1>1, <1>3 DEF TypeOK
  <2> QED
    BY Zenon, <2>1, <2>2
<1>5. Ends'
  BY Zenon, <1>1, <1>2, <1>4 DEF Ends, TypeOK
<1>6. Announced = maxMsgNum /\ Announced' = maxMsgNum
  BY Zenon, <1>1, <1>2 DEF Announced
<1>7. Aside(i)
  <2>1. \A j \in Slots : j <= lastBackend => j <= lastBackend'
    BY <1>1, SlotsFit DEF TypeOK, Slots
  <2>2. \A j \in Slots : j <= lastreserveBackend => j <= lastreserveBackend'
    BY <1>1, SlotsFit DEF TypeOK, Slots
  <2>3. \A j \in Slots : procState[j].active => j <= lastBackend /\ (j \in Reserved => j <= lastreserveBackend)
    BY Zenon DEF QueueInv, SlotOK, Place
  <2> QED
    BY Zenon, <1>2, <1>3, <1>6, <2>1, <2>2, <2>3 DEF Aside
<1>8. pc[i] = "idle" /\ pc'[i] = "idle" /\ i \notin readers
  BY Zenon, <1>1, <1>2 DEF Place, Reading
<1>9. Place(i)'
  BY Zenon, <1>2, <1>3, <1>8 DEF Place, Writing, Reading, Receiving
<1>10. Numbered(i)'
  <2>1. maxMsgNum \in minMsgNum..maxMsgNum
    BY <1>1
  <2> QED
    BY Zenon, <1>2, <1>3, <2>1 DEF Numbered
<1>11. Room(i)' /\ Owing(i)'
  BY Zenon, <1>2, <1>8 DEF Room, Owing
<1>12. Told(i)'
  <2>1. maxMsgNum >= maxMsgNum
    BY <1>1
  <2> QED
    BY Zenon, <1>2, <1>3, <1>6, <1>8, <2>1 DEF Told, Reading
<1> QED
  BY Zenon, <1>5, <1>7, <1>9, <1>10, <1>11, <1>12, AsideStep DEF SlotOK

(* SharedInvalReserveBackendInit takes a slot that nobody has *)
LEMMA ReservedSlot ==
    ASSUME QueueInv, NEW so \in SendOnlyChoices, SharedInvalReserveBackendInit(so)
    PROVE  \E i \in Slots :
              /\ ~procState[i].active /\ Occupy(i, so)
              /\ lastBackend' \in 0..maxBackends /\ lastBackend <= lastBackend' /\ i <= lastBackend'
              /\ lastreserveBackend' \in 0..maxreserveBackends /\ lastreserveBackend <= lastreserveBackend'
              /\ i <= lastreserveBackend'
<1> DEFINE free == {i \in 1..lastreserveBackend : ~procState[i].active}
           index == IF free # {} THEN CHOOSE i \in free : \A j \in free : i <= j
                    ELSE lastreserveBackend + 1
<1>1. /\ writeLock = Nobody /\ index <= maxreserveBackends
      /\ lastreserveBackend' = IF index > lastreserveBackend THEN index ELSE lastreserveBackend
      /\ lastBackend' = IF lastreserveBackend' > lastBackend THEN lastreserveBackend' ELSE lastBackend
      /\ Occupy(index, so)
      /\ UNCHANGED <<ring, writeLock, readers, pc, local>>
  BY Zenon DEF SharedInvalReserveBackendInit
<1>2. TypeOK /\ lastBackend \in 0..maxBackends /\ lastreserveBackend \in 0..maxreserveBackends
  BY Zenon DEF QueueInv, Ends, TypeOK
<1>3. index \in 1..lastreserveBackend + 1 /\ (index \in 1..lastreserveBackend => ~procState[index].active)
  <2>1. CASE free = {}
    BY <1>2, <2>1
  <2>2. CASE free # {}
    <3>1. free \subseteq Nat
      BY SMT
    <3>2. \E i \in free : \A j \in free : i <= j
      BY Zenon, <2>2, <3>1, LeastOf
    <3>3. index \in free
      BY Zenon, <2>2, <3>2
    <3>4. free \subseteq 1..lastreserveBackend + 1
      BY <1>2
    <3> QED
      BY Zenon, <3>3, <3>4
  <2> QED
    BY Zenon, <2>1, <2>2
<1> HIDE DEF index
<1>4. /\ index \in Reserved /\ index \in Slots /\ index \in Int
      /\ index <= lastreserveBackend => index \in 1..lastreserveBackend
  BY <1>1, <1>2, <1>3, SlotsFit DEF Reserved, Slots
<1>5. ~procState[index].active
  BY Zenon, <1>3, <1>4 DEF QueueInv, SlotOK, Place
<1>6. /\ lastBackend' \in 0..maxBackends /\ lastBackend <= lastBackend' /\ index <= lastBackend'
      /\ lastreserveBackend' \in 0..maxreserveBackends /\ lastreserveBackend <= lastreserveBackend'
      /\ index <= lastreserveBackend'
  BY <1>1, <1>2, <1>4, SlotsFit
<1> QED
  BY Zenon, <1>1, <1>4, <1>5, <1>6

(* which keeps the invariant, *)
LEMMA ReserveInv ==
    ASSUME QueueInv, NEW so \in SendOnlyChoices, SharedInvalReserveBackendInit(so)
    PROVE  QueueInv'
<1>1. writeLock = Nobody /\ UNCHANGED <<ring, writeLock, readers, pc, local>>
  BY Zenon DEF SharedInvalReserveBackendInit
<1> QED
  BY Zenon, <1>1, ReservedSlot, OccupyInv, Tunables

(* and so does a thread pool session *)
LEMMA WorkSessionInv ==
    ASSUME QueueInv, NEW i \in Slots, SharedInvalWorkSessionInit(i)
    PROVE  QueueInv'
<1>1. /\ writeLock = Nobody /\ i \notin Reserved /\ ~procState[i].active
      /\ lastBackend' = IF i > lastBackend THEN i ELSE lastBackend
      /\ Occupy(i, FALSE) /\ lastreserveBackend' = lastreserveBackend
      /\ UNCHANGED <<ring, writeLock, readers, pc, local>>
  BY Zenon DEF SharedInvalWorkSessionInit
<1>2. lastBackend \in 0..maxBackends /\ lastreserveBackend \in 0..maxreserveBackends
  BY Zenon DEF QueueInv, Ends, TypeOK
<1>3. lastBackend' \in 0..maxBackends /\ lastBackend <= lastBackend' /\ i <= lastBackend'
  BY <1>1, <1>2, SlotsFit DEF Slots
<1>4. lastreserveBackend' \in 0..maxreserveBackends /\ lastreserveBackend <= lastreserveBackend'
  BY <1>1, <1>2, SlotsFit
<1> QED
  BY Zenon, <1>1, <1>3, <1>4, OccupyInv

(* Who leaves leaves the slots of the others below lastBackend *)
LEMMA VacateInv ==
    ASSUME QueueInv, NEW b \in Slots, Vacate(b),
           lastreserveBackend' = IF b \in Reserved THEN LastActive(procState', lastreserveBackend)
                                 ELSE lastreserveBackend
    PROVE  QueueInv'
<1>1. /\ Ends /\ TypeOK /\ Place(b) /\ procState[b] \in ProcStates
      /\ lastBackend \in Nat /\ lastreserveBackend \in Nat /\ maxBackends \in Nat /\ maxreserveBackends \in Nat
      /\ lastBackend <= maxBackends /\ lastreserveBackend <= maxreserveBackends
  <2>1. Ends /\ TypeOK /\ Place(b) /\ procState[b] \in ProcStates
    BY Zenon, KnownOf
  <2>2. lastBackend \in 0..maxBackends /\ lastreserveBackend \in 0..maxreserveBackends
    BY Zenon, <2>1 DEF TypeOK
  <2>3. /\ lastBackend \in Nat /\ lastreserveBackend \in Nat /\ maxBackends \in Nat /\ maxreserveBackends \in Nat
        /\ lastBackend <= maxBackends /\ lastreserveBackend <= maxreserveBackends
    BY <2>2, SlotsFit
  <2> QED
    BY Zenon, <2>1, <2>3
<1>2. /\ writeLock = Nobody /\ pc[b] = "idle"
      /\ procState' = [procState EXCEPT ![b] = FreeSlot]
      /\ lastBackend' = LastActive(procState', lastBackend)
      /\ catchup' = [catchup EXCEPT ![b] = FALSE]
      /\ target' = [i \in Slots |-> IF target[i] = b THEN Nobody ELSE target[i]]
      /\ UNCHANGED <<buffer, minMsgNum, maxMsgNum, nextThreshold, writeLock, readers, pc, todo, max, due>>
  BY Zenon DEF Vacate, Idle, ring
<1>3. FreeSlot \in ProcStates /\ FreeSlot.active = FALSE
  BY DEF FreeSlot, ProcStates
<1>4. /\ procState' \in [Slots -> ProcStates] /\ procState'[b].active = FALSE
      /\ \A j \in Slots \ {b} : procState'[j] = procState[j]
  BY Zenon, <1>1, <1>2, <1>3 DEF TypeOK
<1>5. catchup' \in [Slots -> BOOLEAN] /\ target' \in [Slots -> Slots \cup {Nobody}]
  BY Zenon, <1>1, <1>2 DEF TypeOK
<1>6. /\ lastBackend' \in 0..lastBackend
      /\ \A i \in 1..lastBackend : procState'[i].active => i <= lastBackend'
      /\ LastActive(procState', lastreserveBackend) \in 0..lastreserveBackend
      /\ \A i \in 1..lastreserveBackend :
            procState'[i].active => i <= LastActive(procState', lastreserveBackend)
  BY Zenon, <1>1, <1>2, LastActiveIs
<1>7. lastBackend' \in 0..maxBackends /\ lastreserveBackend' \in 0..maxreserveBackends
  <2>1. \A n \in 0..lastBackend : n \in 0..maxBackends
    BY <1>1
  <2>2. \A n \in 0..lastreserveBackend : n \in 0..maxreserveBackends
    BY <1>1
  <2>3. lastreserveBackend \in 0..maxreserveBackends
    BY <1>1
  <2> QED
    BY Zenon, <1>6, <2>1, <2>2, <2>3
<1>8. Ends'
  BY Zenon, <1>1, <1>2, <1>4, <1>5, <1>7 DEF Ends, TypeOK
<1>9. Announced' = Announced
  BY Zenon, <1>2 DEF Announced
<1>10. Aside(b)
  <2>1. ASSUME NEW i \in Slots \ {b}, procState[i].active
        PROVE  i <= lastBackend' /\ (i \in Reserved => i <= lastreserveBackend')
    <3>1. i <= lastBackend /\ (i \in Reserved => i <= lastreserveBackend)
      BY Zenon, <2>1 DEF QueueInv, SlotOK, Place
    <3>2. /\ i <= lastBackend => i \in 1..lastBackend
          /\ i <= lastreserveBackend => i \in 1..lastreserveBackend
      BY <1>1 DEF Slots
    <3> QED
      BY Zenon, <1>4, <1>6, <2>1, <3>1, <3>2
  <2> QED
    BY Zenon, <1>2, <1>4, <1>9, <2>1 DEF Aside
<1>11. SlotOK(b)'
  BY Zenon, <1>1, <1>2, <1>4 DEF SlotOK, Place, Numbered, Room, Told, Owing, Writing, Reading, Receiving
<1> QED
  BY Zenon, <1>8, <1>10, <1>11, AsideStep

(* CleanupInvalidationState, CleanupWorkSessionInvalidation *)
LEMMA LeaveInv ==
    ASSUME QueueInv, NEW b \in Slots, CleanupInvalidationState(b) \/ CleanupWorkSessionInvalidation(b)
    PROVE  QueueInv'
  BY Zenon, VacateInv DEF CleanupInvalidationState, CleanupWorkSessionInvalidation

-----------------------------------------------------------------------------
(* Sending *)

(* The group is tested for space under SInvalWriteLock *)
LEMMA LockAndTestInv ==
    ASSUME QueueInv, NEW b \in Slots, LockAndTest(b), procState[b].active, pc[b] \in {"idle", "send"},
           todo' = todo \/ \E batch \in Batches : todo' = [todo EXCEPT ![b] = batch]
    PROVE  QueueInv'
<1>1. /\ Ends /\ TypeOK /\ Place(b) /\ Numbered(b) /\ Told(b)
      /\ minMsgNum \in Nat /\ maxMsgNum \in Nat
  BY Zenon, KnownOf
<1> DEFINE n == Least(Len(todo'[b]), WRITE_QUANTUM)
           where == IF MustClean(numMsgs, n) THEN "cleanup" ELSE "insert"
<1>2. /\ writeLock \in {Nobody, b} /\ writeLock' = b /\ pc' = [pc EXCEPT ![b] = where]
      /\ UNCHANGED <<buffer, minMsgNum, maxMsgNum, nextThreshold, lastBackend, lastreserveBackend, procState,
                     readers, max, target, catchup, due>>
  BY Zenon DEF LockAndTest, Goto, ring, slotCounts
<1>3. where \in {"cleanup", "insert"} /\ where \in Steps
  BY Zenon DEF Steps
<1>4. where = "insert" => maxMsgNum - minMsgNum + n <= MAXNUMMESSAGES
  <2> DEFINE k == n
  <2>1. k \in Int
    <3>1. todo'[b] \in Seq(Msgs)
      BY Zenon, <1>1, BatchesAreMsgs DEF TypeOK
    <3>2. Len(todo'[b]) \in Int
      BY <3>1
    <3>3. WRITE_QUANTUM \in Int
      BY RingFacts
    <3> QED
      BY Zenon, <3>2, <3>3, LeastIs
  <2>2. where = "insert" => ~(numMsgs + k > MAXNUMMESSAGES)
    BY Zenon DEF MustClean
  <2> HIDE DEF n, where
  <2> QED
    BY <1>1, <2>1, <2>2, RingFacts DEF numMsgs
<1>5. nthistime(b)' = n
  BY Zenon DEF nthistime
<1> HIDE DEF n, where
<1>6. /\ DOMAIN pc' = Slots /\ pc'[b] = where /\ \A i \in Slots \ {b} : pc'[i] = pc[i] /\ todo'[i] = todo[i]
  BY Zenon, <1>1, <1>2 DEF TypeOK
<1>7. Ends'
  <2>1. pc' \in [Slots -> Steps] /\ todo' \in [Slots -> Seq(Msgs)]
    BY Zenon, <1>1, <1>2, <1>3, BatchesAreMsgs DEF TypeOK
  <2> QED
    BY Zenon, <1>1, <1>2, <2>1 DEF Ends, TypeOK
<1>8. Announced = maxMsgNum /\ Announced' = maxMsgNum
  BY Zenon, <1>2, <1>3, <1>6 DEF Announced
<1>9. Aside(b)
  BY Zenon, <1>2, <1>6, <1>8 DEF Aside, QueueInv, SlotOK, Place
<1>10. Place(b)' /\ Numbered(b)'
  BY Zenon, <1>1, <1>2, <1>3, <1>6 DEF Place, Numbered, Writing, Reading, Receiving
<1>11. Room(b)'
  BY Zenon, <1>2, <1>3, <1>4, <1>5, <1>6 DEF Room
<1>12. Told(b)'
  BY Zenon, <1>1, <1>2, <1>3, <1>6, <1>8 DEF Told, Reading
<1>13. Owing(b)'
  BY Zenon, <1>3, <1>6 DEF Owing
<1> QED
  BY Zenon, <1>7, <1>9, <1>10, <1>11, <1>12, <1>13, AsideStep DEF SlotOK

(* The place of the k-th message of a group in the buffer is nobody else's *)
LEMMA PlacesApart ==
    ASSUME NEW a \in Nat, NEW c \in Nat, a < c, c < a + MAXNUMMESSAGES
    PROVE  a % MAXNUMMESSAGES # c % MAXNUMMESSAGES
<1> DEFINE d == c - a
<1>1. d \in 1..MAXNUMMESSAGES - 1 /\ a + d = c
  BY RingFacts
<1>2. (a + d) % MAXNUMMESSAGES # a % MAXNUMMESSAGES
  BY Zenon, <1>1, ModApart, RingFacts
<1> QED
  BY Zenon, <1>1, <1>2

(* InsertMessages writes the group, and nothing else *)
LEMMA InsertWrites ==
    ASSUME QueueInv, NEW b \in Slots, InsertMessages(b)
    PROVE  /\ buffer' \in [0..MAXNUMMESSAGES - 1 -> Msgs \cup {NoMsg}]
           /\ \A k \in 1..nthistime(b) : buffer'[(maxMsgNum + k - 1) % MAXNUMMESSAGES] = todo[b][k]
           /\ \A s \in 0..MAXNUMMESSAGES - 1 :
                (\A k \in 1..nthistime(b) : (maxMsgNum + k - 1) % MAXNUMMESSAGES # s) => buffer'[s] = buffer[s]
<1>1. /\ TypeOK /\ maxMsgNum \in Nat /\ nthistime(b) \in Nat /\ nthistime(b) <= MAXNUMMESSAGES
      /\ nthistime(b) <= Len(todo[b]) /\ todo[b] \in Seq(Msgs) /\ DOMAIN buffer = 0..MAXNUMMESSAGES - 1
  <2>1. TypeOK /\ maxMsgNum \in Nat
    BY Zenon, KnownOf
  <2> QED
    BY Zenon, <2>1, GroupSize DEF TypeOK
<1> DEFINE n == nthistime(b)
           at(k) == (maxMsgNum + k - 1) % MAXNUMMESSAGES
           hits(s) == {k \in 1..n : at(k) = s}
<1>2. buffer' = [s \in 0..MAXNUMMESSAGES - 1 |->
                    IF hits(s) = {} THEN buffer[s] ELSE todo[b][CHOOSE k \in hits(s) : TRUE]]
  BY Zenon, <1>1 DEF InsertMessages
<1>3. \A k \in 1..n : todo[b][k] \in Msgs
  BY <1>1
<1>4. \A k \in 1..n : at(k) \in 0..MAXNUMMESSAGES - 1
  <2>1. \A k \in 1..n : maxMsgNum + k - 1 \in Nat
    BY <1>1
  <2> QED
    BY Zenon, <2>1, Divided, RingFacts
<1>5. ASSUME NEW j \in 1..n, NEW k \in 1..n, j < k PROVE at(j) # at(k)
  <2> DEFINE a == maxMsgNum + j - 1
             c == maxMsgNum + k - 1
  <2>1. a \in Nat /\ c \in Nat /\ a < c /\ c < a + MAXNUMMESSAGES
    BY <1>1, <1>5, RingFacts
  <2> QED
    BY Zenon, <2>1, PlacesApart
<1>6. \A j, k \in 1..n : j = k \/ j < k \/ k < j
  BY <1>1
<1> HIDE DEF at, n
<1>7. \A s : hits(s) # {} => (CHOOSE k \in hits(s) : TRUE) \in hits(s)
  BY Zenon
<1>8. \A k \in 1..n : buffer'[at(k)] = todo[b][k]
  <2> SUFFICES ASSUME NEW k \in 1..n PROVE buffer'[at(k)] = todo[b][k]
    OBVIOUS
  <2>1. k \in hits(at(k))
    BY Zenon
  <2>2. hits(at(k)) # {} /\ \A j \in hits(at(k)) : j = k
    BY Zenon, <1>5, <1>6, <2>1
  <2>3. (CHOOSE j \in hits(at(k)) : TRUE) = k
    BY Zenon, <1>7, <2>2
  <2> HIDE DEF hits
  <2> QED
    BY Zenon, <1>2, <1>4, <2>2, <2>3
<1>9. \A s \in 0..MAXNUMMESSAGES - 1 : (\A k \in 1..n : at(k) # s) => buffer'[s] = buffer[s]
  BY Zenon, <1>2
<1>10. buffer' \in [0..MAXNUMMESSAGES - 1 -> Msgs \cup {NoMsg}]
  <2>1. \A s \in 0..MAXNUMMESSAGES - 1 : buffer[s] \in Msgs \cup {NoMsg}
    BY Zenon, <1>1 DEF TypeOK
  <2>2. \A s \in 0..MAXNUMMESSAGES - 1 : hits(s) # {} => todo[b][CHOOSE k \in hits(s) : TRUE] \in Msgs
    BY Zenon, <1>3, <1>7
  <2> HIDE DEF hits
  <2> QED
    BY Zenon, <1>2, <2>1, <2>2
<1> QED
  BY Zenon, <1>8, <1>9, <1>10 DEF n, at

(* InsertMessages readies the group under SInvalWriteLock and touches nothing else *)
LEMMA InsertMessagesInv ==
    ASSUME QueueInv, NEW b \in Slots, InsertMessages(b)
    PROVE  QueueInv'
<1>1. Ends /\ TypeOK /\ Place(b) /\ Numbered(b) /\ Room(b) /\ Told(b)
  BY Zenon, KnownOf
<1>2. /\ pc[b] = "insert" /\ pc' = [pc EXCEPT ![b] = "publish"]
      /\ UNCHANGED <<minMsgNum, maxMsgNum, nextThreshold, lastBackend, lastreserveBackend, procState, writeLock,
                     readers, todo, max, target, catchup, due>>
  BY Zenon DEF InsertMessages, Goto, slotCounts, local
<1>3. /\ pc' \in [Slots -> Steps] /\ pc'[b] = "publish" /\ \A i \in Slots \ {b} : pc'[i] = pc[i]
  BY Zenon, <1>1, <1>2 DEF TypeOK, Steps
<1>4. Ends'
  BY Zenon, <1>1, <1>2, <1>3, InsertWrites DEF Ends, TypeOK
<1>5. writeLock = b
  BY Zenon, <1>1, <1>2 DEF Place, Writing
<1>6. Announced' = Announced
  BY Zenon, <1>2, <1>3, <1>5 DEF Announced
<1>7. Aside(b)
  BY Zenon, <1>2, <1>3, <1>5, <1>6 DEF Aside, QueueInv, SlotOK, Place
<1>8. Place(b)' /\ Numbered(b)'
  BY Zenon, <1>1, <1>2, <1>3, <1>5 DEF Place, Numbered, Reading, Receiving
<1>9. Room(b)'
  BY Zenon, <1>1, <1>2, <1>3, InsertWrites DEF Room, Written, nthistime
<1>10. Told(b)' /\ Owing(b)'
  BY Zenon, <1>1, <1>2, <1>3, <1>6 DEF Told, Owing, Reading
<1> QED
  BY Zenon, <1>4, <1>7, <1>8, <1>9, <1>10, AsideStep DEF SlotOK

(* There is room for what is published *)
LEMMA PublishInv ==
    ASSUME QueueInv, NEW b \in Slots, PublishMaxMsgNum(b)
    PROVE  QueueInv'
<1>1. /\ Ends /\ TypeOK /\ Place(b) /\ Numbered(b) /\ Room(b) /\ Told(b)
      /\ minMsgNum \in Nat /\ maxMsgNum \in Nat /\ minMsgNum <= maxMsgNum
      /\ procState[b].nextMsgNum \in Int
  BY Zenon, KnownOf
<1>2. /\ pc[b] = "publish" /\ maxMsgNum' = maxMsgNum + nthistime(b)
      /\ pc' = [pc EXCEPT ![b] = "kick"]
      /\ UNCHANGED <<buffer, minMsgNum, nextThreshold, lastBackend, lastreserveBackend, procState, writeLock,
                     readers, todo, max, target, catchup, due>>
  BY Zenon DEF PublishMaxMsgNum, Goto, slotCounts, local
<1>3. /\ pc' \in [Slots -> Steps] /\ pc'[b] = "kick" /\ \A i \in Slots \ {b} : pc'[i] = pc[i]
  BY Zenon, <1>1, <1>2 DEF TypeOK, Steps
<1> DEFINE n == nthistime(b)
<1>4. n \in Nat /\ maxMsgNum - minMsgNum + n <= MAXNUMMESSAGES /\ minMsgNum \in 0..MSGNUMWRAPAROUND - 1
  BY Zenon, <1>1, <1>2, GroupSize DEF Room, TypeOK
<1>5. writeLock = b /\ b # Nobody
  BY Zenon, <1>1, <1>2, Slot0 DEF Place, Writing
<1>6. Announced = maxMsgNum /\ Announced' = maxMsgNum' - n
  BY Zenon, <1>2, <1>3, <1>5 DEF Announced, nthistime
<1> HIDE DEF n
<1>7. /\ maxMsgNum' \in 0..MSGNUMWRAPAROUND + MAXNUMMESSAGES - 1
      /\ maxMsgNum' - minMsgNum \in 0..MAXNUMMESSAGES
      /\ maxMsgNum' - n = maxMsgNum /\ maxMsgNum' >= maxMsgNum
      /\ \A x \in Int : x \in minMsgNum..maxMsgNum => x \in minMsgNum..maxMsgNum'
  <2>1. maxMsgNum' = maxMsgNum + n
    BY Zenon, <1>2 DEF n
  <2> QED
    BY <1>1, <1>4, <2>1, RingFacts
<1>8. Ends'
  BY Zenon, <1>1, <1>2, <1>3, <1>7 DEF Ends, TypeOK
<1>9. Aside(b)
  BY Zenon, <1>2, <1>3, <1>5, <1>6, <1>7 DEF Aside, QueueInv, SlotOK, Place
<1>10. Place(b)' /\ Room(b)'
  BY Zenon, <1>1, <1>2, <1>3, <1>5 DEF Place, Room, Reading, Receiving
<1>11. Numbered(b)'
  BY Zenon, <1>1, <1>2, <1>7 DEF Numbered
<1>12. Told(b)' /\ Owing(b)'
  BY Zenon, <1>1, <1>2, <1>3, <1>6, <1>7 DEF Told, Owing, Reading
<1> QED
  BY Zenon, <1>8, <1>9, <1>10, <1>11, <1>12, AsideStep DEF SlotOK

(* Everyone is told: nobody is missed by the loop up to lastBackend *)
LEMMA SetHasMessagesInv ==
    ASSUME QueueInv, NEW b \in Slots, SetHasMessages(b)
    PROVE  QueueInv'
<1>1. /\ Ends /\ TypeOK /\ Place(b) /\ minMsgNum \in Nat /\ maxMsgNum \in Nat
  BY Zenon, KnownOf
<1> DEFINE rest == SubSeq(todo[b], nthistime(b) + 1, Len(todo[b]))
           where == IF rest = <<>> THEN "idle" ELSE "send"
           told(i) == IF i <= lastBackend /\ procState[i].active
                        THEN [procState[i] EXCEPT !.hasMessages = TRUE] ELSE procState[i]
<1>2. /\ pc[b] = "kick" /\ procState' = [i \in Slots |-> told(i)] /\ writeLock' = Nobody
      /\ todo' = [todo EXCEPT ![b] = rest] /\ pc' = [pc EXCEPT ![b] = where]
      /\ UNCHANGED <<buffer, minMsgNum, maxMsgNum, nextThreshold, lastBackend, lastreserveBackend,
                     readers, max, target, catchup, due>>
  BY Zenon DEF SetHasMessages, Goto, ring, slotCounts
<1>3. rest \in Seq(Msgs)
  <2>1. todo[b] \in Seq(Msgs) /\ nthistime(b) \in Nat
    BY Zenon, <1>1, GroupSize DEF TypeOK
  <2> DEFINE n == nthistime(b)
  <2> HIDE DEF n
  <2>2. SubSeq(todo[b], n + 1, Len(todo[b])) \in Seq(Msgs)
    BY <2>1 DEF n
  <2> QED
    BY Zenon, <2>2 DEF n
<1>4. where \in {"idle", "send"} /\ where \in Steps
  BY Zenon DEF Steps
<1>5. writeLock = b
  BY Zenon, <1>1, <1>2 DEF Place, Writing
<1>6. ASSUME NEW i \in Slots
      PROVE  /\ procState'[i] \in ProcStates /\ (procState[i].active => procState'[i].hasMessages = TRUE)
             /\ procState'[i].active = procState[i].active /\ procState'[i].resetState = procState[i].resetState
             /\ procState'[i].nextMsgNum = procState[i].nextMsgNum
             /\ procState'[i].sendOnly = procState[i].sendOnly
  <2>1. procState[i] \in ProcStates /\ (procState[i].active => i <= lastBackend)
    BY Zenon, <1>1 DEF TypeOK, QueueInv, SlotOK, Place
  <2>2. \A ps \in ProcStates : LET t == [ps EXCEPT !.hasMessages = TRUE]
                               IN  /\ t \in ProcStates /\ t.hasMessages = TRUE /\ t.active = ps.active
                                   /\ t.resetState = ps.resetState /\ t.nextMsgNum = ps.nextMsgNum
                                   /\ t.sendOnly = ps.sendOnly
    BY Zenon DEF ProcStates
  <2>3. procState'[i] = told(i)
    BY Zenon, <1>2
  <2> QED
    BY Zenon, <2>1, <2>2, <2>3
<1> HIDE DEF rest, where, told
<1>7. /\ pc' \in [Slots -> Steps] /\ pc'[b] = where /\ todo' \in [Slots -> Seq(Msgs)]
      /\ \A i \in Slots \ {b} : pc'[i] = pc[i] /\ todo'[i] = todo[i]
  BY Zenon, <1>1, <1>2, <1>3, <1>4 DEF TypeOK
<1>8. procState' \in [Slots -> ProcStates]
  BY Zenon, <1>2, <1>6
<1>9. Ends'
  <2>1. writeLock' \in Slots \cup {Nobody}
    BY Zenon, <1>2
  <2> QED
    BY Zenon, <1>1, <1>2, <1>7, <1>8, <2>1 DEF Ends, TypeOK
<1>10. Announced' = maxMsgNum /\ Announced \in Int /\ Announced <= maxMsgNum
  BY Zenon, <1>1, <1>2, AnnouncedIs DEF Announced
<1>11. ASSUME NEW i \in Slots PROVE SlotOK(i)'
  <2>1. /\ Place(i) /\ Numbered(i) /\ Room(i) /\ Told(i) /\ Owing(i)
        /\ max[i] \in Nat /\ due[i] \in Nat /\ procState[i].nextMsgNum \in Int
    BY Zenon, KnownOf
  <2>2. pc'[i] = pc[i] \/ (i = b /\ pc'[i] \in {"idle", "send"})
    BY Zenon, <1>4, <1>7
  <2>3. pc'[i] \notin Writing
    BY Zenon, <1>5, <2>1, <2>2, <1>4, <1>7 DEF Place, Writing
  <2>4. Place(i)'
    BY Zenon, <1>2, <1>6, <2>1, <2>2, <2>3 DEF Place, Reading, Receiving
  <2>5. Numbered(i)' /\ Room(i)'
    BY Zenon, <1>2, <1>6, <2>1, <2>3 DEF Numbered, Room, Writing
  <2>6. Told(i)'
    BY Zenon, <1>2, <1>6, <2>1, <2>2, <2>4 DEF Told, Place, Reading
  <2>7. Owing(i)'
    <3>1. due[i] <= Announced - procState[i].nextMsgNum => due[i] <= maxMsgNum - procState[i].nextMsgNum
      BY <1>1, <1>10, <2>1
    <3> QED
      BY Zenon, <1>2, <1>6, <1>10, <2>1, <2>2, <3>1 DEF Owing
  <2> QED
    BY Zenon, <2>4, <2>5, <2>6, <2>7 DEF SlotOK
<1> QED
  BY Zenon, <1>9, <1>11 DEF QueueInv

(* The signal is sent without a lock *)
LEMMA SendCatchupInv ==
    ASSUME QueueInv, NEW b \in Slots, SendCatchup(b)
    PROVE  QueueInv'
<1>1. Ends /\ TypeOK /\ Place(b) /\ Numbered(b) /\ Told(b)
  BY Zenon, KnownOf
<1> DEFINE where == IF todo[b] = <<>> THEN "idle" ELSE "send"
<1>2. /\ pc[b] = "signal" /\ pc' = [pc EXCEPT ![b] = where]
      /\ catchup' = [i \in Slots |-> catchup[i] \/ i = target[b]]
      /\ target' = [target EXCEPT ![b] = Nobody]
      /\ UNCHANGED <<buffer, minMsgNum, maxMsgNum, nextThreshold, lastBackend, lastreserveBackend, procState,
                     writeLock, readers, todo, max, due>>
  BY Zenon DEF SendCatchup, Goto, ring, slotCounts
<1>3. where \in {"idle", "send"} /\ where \in Steps
  BY Zenon DEF Steps
<1> HIDE DEF where
<1>4. /\ pc' \in [Slots -> Steps] /\ pc'[b] = where /\ \A i \in Slots \ {b} : pc'[i] = pc[i]
      /\ catchup' \in [Slots -> BOOLEAN] /\ target' \in [Slots -> Slots \cup {Nobody}]
  BY Zenon, <1>1, <1>2, <1>3 DEF TypeOK
<1>5. Ends'
  BY Zenon, <1>1, <1>2, <1>4 DEF Ends, TypeOK
<1>6. Announced' = Announced
  <2>1. writeLock # Nobody => (pc'[writeLock] = "kick" <=> pc[writeLock] = "kick")
    BY Zenon, <1>1, <1>2, <1>3, <1>4 DEF TypeOK
  <2> QED
    BY Zenon, <1>2, <2>1 DEF Announced, nthistime
<1>7. Aside(b)
  BY Zenon, <1>2, <1>4, <1>6 DEF Aside, QueueInv, SlotOK, Place
<1>8. SlotOK(b)'
  BY Zenon, <1>1, <1>2, <1>3, <1>4, <1>6 DEF SlotOK, Place, Numbered, Room, Told, Owing, Writing, Reading, Receiving
<1> QED
  BY Zenon, <1>5, <1>7, <1>8, AsideStep

-----------------------------------------------------------------------------
(* SICleanupQueue *)

(* What it does to slot i: the positions of those that follow go down together, those *)
(* too far back are reset, and who is reset or signaled had messages to read          *)
Cleaned(i, down) ==
    /\ procState'[i] \in ProcStates
    /\ procState'[i].active = procState[i].active /\ procState'[i].sendOnly = procState[i].sendOnly
    /\ procState'[i].hasMessages = procState[i].hasMessages
    /\ procState[i].resetState => procState'[i].resetState
    /\ procState'[i].resetState /\ ~procState[i].resetState => procState[i].active /\ procState[i].hasMessages
    /\ procState'[i].signaled => procState[i].signaled \/ procState[i].hasMessages
    /\ procState[i].active /\ ~procState[i].sendOnly /\ ~procState'[i].resetState =>
          /\ procState'[i].nextMsgNum = procState[i].nextMsgNum - down
          /\ procState'[i].nextMsgNum \in minMsgNum'..maxMsgNum'

(* The least position of the set, or the end of the queue *)
LEMMA MinNextIs ==
    ASSUME maxMsgNum \in Nat, NEW S \in SUBSET Slots,
           \A i \in S : procState[i].nextMsgNum \in Nat /\ procState[i].nextMsgNum <= maxMsgNum
    PROVE  /\ MinNext(S) = maxMsgNum \/ \E i \in S : MinNext(S) = procState[i].nextMsgNum
           /\ MinNext(S) \in Nat /\ MinNext(S) <= maxMsgNum
           /\ \A i \in S : MinNext(S) <= procState[i].nextMsgNum
<1> DEFINE N == {maxMsgNum} \cup {procState[i].nextMsgNum : i \in S}
<1>1. N \subseteq Nat /\ N # {}
  BY Zenon
<1>2. \A x \in N : x <= maxMsgNum
  <2>1. maxMsgNum <= maxMsgNum
    BY SMT
  <2> QED
    BY Zenon, <2>1
<1>3. PICK x \in N : \A y \in N : x <= y
  <2> HIDE DEF N
  <2> QED
    BY Zenon, <1>1, LeastOf
<1>4. \A i \in S : x <= procState[i].nextMsgNum /\ x <= maxMsgNum
  BY Zenon, <1>3
<1>5. MinNext(S) \in N /\ \A i \in S : MinNext(S) <= procState[i].nextMsgNum /\ MinNext(S) <= maxMsgNum
  BY Zenon, <1>4 DEF MinNext
<1> QED
  BY Zenon, <1>1, <1>2, <1>5

(* Whom to signal: one of the followers that is behind, or Nobody *)
LEMMA NeedSigIs ==
    ASSUME maxMsgNum \in Nat, NEW S \in SUBSET Slots, \A i \in S : procState[i].nextMsgNum \in Nat
    PROVE  \/ NeedSig(S) = Nobody
           \/ NeedSig(S) \in S /\ procState[NeedSig(S)].nextMsgNum < maxMsgNum - SIG_THRESHOLD
<1> DEFINE behind == {i \in S \cap Reserved : /\ procState[i].nextMsgNum < maxMsgNum - SIG_THRESHOLD
                                             /\ ~procState[i].signaled}
<1>1. CASE behind = {}
  BY Zenon, <1>1 DEF NeedSig
<1>2. CASE behind # {}
  <2> DEFINE N == {procState[i].nextMsgNum : i \in behind}
  <2>1. PICK n \in N : \A y \in N : n <= y
    <3>1. N \subseteq Nat /\ N # {}
      BY Zenon, <1>2
    <3> HIDE DEF N
    <3> QED
      BY Zenon, <3>1, LeastOf
  <2> DEFINE first == {i \in behind : procState[i].nextMsgNum = n}
  <2>2. PICK f \in first : \A j \in first : f <= j
    <3>1. first # {}
      BY Zenon, <2>1
    <3>2. first \subseteq Nat
      <4>1. Slots \subseteq Nat
        BY SlotsFit DEF Slots
      <4> QED
        BY Zenon, <4>1
    <3> HIDE DEF first
    <3> QED
      BY Zenon, <3>1, <3>2, LeastOf
  <2>3. \A j \in behind : procState[j].nextMsgNum \in Nat /\ n <= procState[j].nextMsgNum /\ n \in Nat
    BY Zenon, <2>1
  <2>4. \A x, y \in Nat : x <= y => x < y \/ x = y
    BY SMT
  <2>5. \A j \in behind : \/ procState[f].nextMsgNum < procState[j].nextMsgNum
                          \/ procState[f].nextMsgNum = procState[j].nextMsgNum /\ f <= j
    BY Zenon, <2>2, <2>3, <2>4
  <2>6. f \in behind
    BY Zenon, <2>2
  <2> HIDE DEF first
  <2>7. NeedSig(S) \in behind
    BY Zenon, <1>2, <2>5, <2>6 DEF NeedSig
  <2> QED
    BY Zenon, <2>7
<1> QED
  BY Zenon, <1>1, <1>2

(* Both ends go down by dn, and with them every position between the two *)
LEMMA RenumberedEnds ==
    ASSUME NEW fr \in Nat, fr <= MAXNUMMESSAGES,
           NEW mx \in 0..MSGNUMWRAPAROUND + MAXNUMMESSAGES - 1, NEW mn \in Nat, mn <= mx,
           mn >= mx - MAXNUMMESSAGES + fr, NEW dn \in Nat, dn <= mn
    PROVE  /\ mx - dn \in 0..MSGNUMWRAPAROUND + MAXNUMMESSAGES - 1 /\ (mx - dn) - (mn - dn) = mx - mn
           /\ mx - mn \in 0..MAXNUMMESSAGES - fr /\ mx - mn \in Nat
           /\ \A x \in Nat : mn <= x /\ x <= mx =>
                 x - dn \in Nat /\ x - dn < 2 * MSGNUMWRAPAROUND /\ x - dn \in (mn - dn)..(mx - dn)
  BY RingFacts

(* A slot after its renumbering *)
Renumbered(ps, n, r, s) == [ps EXCEPT !.nextMsgNum = n, !.resetState = r, !.signaled = s]

(* and its fields *)
LEMMA RenumberedIs ==
    ASSUME NEW ps \in ProcStates, NEW n \in Int, NEW r \in BOOLEAN, NEW s \in BOOLEAN
    PROVE  /\ Renumbered(ps, n, r, s) \in ProcStates
           /\ Renumbered(ps, n, r, s).active = ps.active
           /\ Renumbered(ps, n, r, s).sendOnly = ps.sendOnly
           /\ Renumbered(ps, n, r, s).hasMessages = ps.hasMessages
           /\ Renumbered(ps, n, r, s).nextMsgNum = n
           /\ Renumbered(ps, n, r, s).resetState = r
           /\ Renumbered(ps, n, r, s).signaled = s
<1> DEFINE t == Renumbered(ps, n, r, s)
           t1 == [ps EXCEPT !.nextMsgNum = n]
           t2 == [t1 EXCEPT !.resetState = r]
<1>1. t = [t2 EXCEPT !.signaled = s]
  BY Zenon DEF Renumbered
<1>2. /\ t1 \in ProcStates /\ t1.active = ps.active /\ t1.sendOnly = ps.sendOnly
      /\ t1.hasMessages = ps.hasMessages /\ t1.nextMsgNum = n
  BY Zenon DEF ProcStates
<1> HIDE DEF t1
<1>3. /\ t2 \in ProcStates /\ t2.active = t1.active /\ t2.sendOnly = t1.sendOnly
      /\ t2.hasMessages = t1.hasMessages /\ t2.nextMsgNum = t1.nextMsgNum /\ t2.resetState = r
  BY Zenon, <1>2 DEF ProcStates
<1> HIDE DEF t2
<1>4. /\ t \in ProcStates /\ t.active = t2.active /\ t.sendOnly = t2.sendOnly
      /\ t.hasMessages = t2.hasMessages /\ t.nextMsgNum = t2.nextMsgNum /\ t.resetState = t2.resetState
      /\ t.signaled = s
  BY Zenon, <1>1, <1>3 DEF ProcStates
<1> QED
  BY Zenon, <1>2, <1>3, <1>4

(* With SInvalWriteLock and exclusive SInvalReadLock: there is room for minFree messages, *)
(* the threshold is above the fill level, and both ends are in their ranges               *)
LEMMA CleanupEffect ==
    ASSUME QueueInv, NEW b \in Slots, writeLock = b, pc[b] # "kick",
           NEW minFree \in Nat, minFree <= MAXNUMMESSAGES, SICleanupQueue(b, minFree)
    PROVE  \E down \in {0, MSGNUMWRAPAROUND} :
              /\ readers = {}
              /\ minMsgNum' \in 0..MSGNUMWRAPAROUND - 1
              /\ maxMsgNum' \in 0..MSGNUMWRAPAROUND + MAXNUMMESSAGES - 1
              /\ maxMsgNum' = maxMsgNum - down
              /\ maxMsgNum' - minMsgNum' \in 0..MAXNUMMESSAGES - minFree
              /\ nextThreshold' \in Nat /\ maxMsgNum' - minMsgNum' < nextThreshold'
              /\ target' \in [Slots -> Slots \cup {Nobody}]
              /\ procState' \in [Slots -> ProcStates]
              /\ \A i \in Slots : Cleaned(i, down)
<1> DEFINE late == TooFarBack(minFree)
           F == Followers \ late
           mn == MinNext(F)
           sig == NeedSig(F)
           down == Renumbering(mn)
           new(i) == IF i <= lastBackend /\ procState[i].active
                       THEN [procState[i] EXCEPT !.nextMsgNum = AsInt(@ - down),
                                                 !.resetState = @ \/ i \in late,
                                                 !.signaled = @ \/ i = sig]
                       ELSE procState[i]
<1>1. /\ readers = {} /\ minMsgNum' = mn - down /\ maxMsgNum' = maxMsgNum - down
      /\ procState' = [i \in Slots |-> new(i)]
      /\ nextThreshold' = Threshold(maxMsgNum - mn) /\ target' = [target EXCEPT ![b] = sig]
  BY Zenon DEF SICleanupQueue
<1>2. /\ TypeOK /\ minMsgNum \in Nat /\ maxMsgNum \in Nat /\ minMsgNum <= maxMsgNum
      /\ maxMsgNum \in 0..MSGNUMWRAPAROUND + MAXNUMMESSAGES - 1
      /\ procState \in [Slots -> ProcStates] /\ target \in [Slots -> Slots \cup {Nobody}]
      /\ lastBackend \in 0..maxBackends
  <2>1. TypeOK /\ minMsgNum \in Nat /\ maxMsgNum \in Nat /\ minMsgNum <= maxMsgNum
    BY Zenon, KnownOf
  <2> QED
    BY Zenon, <2>1 DEF TypeOK
<1>3. ASSUME NEW i \in Slots
      PROVE  /\ procState[i] \in ProcStates /\ procState[i].nextMsgNum \in Int
             /\ procState[i].active => i <= lastBackend
             /\ procState[i].active /\ ~procState[i].sendOnly /\ ~procState[i].resetState
                   => procState[i].nextMsgNum \in minMsgNum..maxMsgNum
             /\ procState[i].active /\ ~procState[i].sendOnly /\ ~procState[i].hasMessages
                   => procState[i].nextMsgNum >= maxMsgNum
  <2>1. procState[i] \in ProcStates /\ procState[i].nextMsgNum \in Int /\ Place(i) /\ Numbered(i) /\ Told(i)
    BY Zenon, KnownOf
  <2>2. pc[i] \notin Reading
    BY Zenon, <1>1, <2>1 DEF Place
  <2>3. Announced = maxMsgNum
    BY Zenon, <1>2, AnnouncedIs
  <2> QED
    BY Zenon, <2>1, <2>2, <2>3 DEF Place, Numbered, Told
<1>4. \A i \in Slots : procState[i].active /\ ~procState[i].resetState /\ ~procState[i].sendOnly
                         <=> i \in Followers
  <2>1. \A i \in Slots : i <= lastBackend <=> i \in 1..lastBackend
    BY <1>2, SlotsFit DEF Slots
  <2> QED
    BY Zenon, <1>3, <2>1 DEF Followers
<1>5. Followers \subseteq Slots
  <2>1. 1..lastBackend \subseteq Slots
    BY <1>2, SlotsFit DEF Slots
  <2> QED
    BY Zenon, <2>1 DEF Followers
<1>6. \A i \in Followers : procState[i].nextMsgNum \in minMsgNum..maxMsgNum
  BY Zenon, <1>3, <1>4, <1>5
<1>7. late \subseteq Followers /\ F \in SUBSET Slots /\ F \subseteq Followers
  BY Zenon, <1>5 DEF TooFarBack
<1>8. \A i \in late : procState[i].hasMessages
  <2>1. \A i \in late : procState[i].nextMsgNum < maxMsgNum - MAXNUMMESSAGES + minFree
    BY Zenon DEF TooFarBack, lowbound
  <2>2. \A x \in Int : x < maxMsgNum - MAXNUMMESSAGES + minFree => ~(x >= maxMsgNum)
    BY <1>2, RingFacts
  <2> QED
    BY Zenon, <1>3, <1>4, <1>5, <1>7, <2>1, <2>2
<1>9. \A i \in F : /\ procState[i].nextMsgNum \in Nat /\ procState[i].nextMsgNum <= maxMsgNum
                   /\ procState[i].nextMsgNum >= minMsgNum
                   /\ procState[i].nextMsgNum >= maxMsgNum - MAXNUMMESSAGES + minFree
  <2>1. \A i \in F : ~(procState[i].nextMsgNum < maxMsgNum - MAXNUMMESSAGES + minFree)
    BY Zenon DEF TooFarBack, lowbound
  <2>2. \A x \in minMsgNum..maxMsgNum :
          /\ x \in Nat /\ x <= maxMsgNum /\ x >= minMsgNum
          /\ ~(x < maxMsgNum - MAXNUMMESSAGES + minFree) => x >= maxMsgNum - MAXNUMMESSAGES + minFree
    BY <1>2, RingFacts
  <2> QED
    BY Zenon, <1>6, <1>7, <2>1, <2>2
<1>10. /\ mn \in Nat /\ mn <= maxMsgNum /\ mn >= minMsgNum /\ mn >= maxMsgNum - MAXNUMMESSAGES + minFree
       /\ \A i \in F : mn <= procState[i].nextMsgNum
  <2>1. /\ mn = maxMsgNum \/ \E i \in F : mn = procState[i].nextMsgNum
        /\ mn \in Nat /\ mn <= maxMsgNum /\ \A i \in F : mn <= procState[i].nextMsgNum
    BY Zenon, <1>2, <1>7, <1>9, MinNextIs
  <2>2. maxMsgNum >= minMsgNum /\ maxMsgNum >= maxMsgNum - MAXNUMMESSAGES + minFree
    BY <1>2, RingFacts
  <2> QED
    BY Zenon, <1>9, <2>1, <2>2
<1>11. sig = Nobody \/ (sig \in F /\ procState[sig].hasMessages)
  <2>1. sig = Nobody \/ (sig \in F /\ procState[sig].nextMsgNum < maxMsgNum - SIG_THRESHOLD)
    BY Zenon, <1>2, <1>7, <1>9, NeedSigIs
  <2>2. \A x \in Nat : x < maxMsgNum - SIG_THRESHOLD => ~(x >= maxMsgNum)
    BY <1>2, Tunables
  <2> QED
    BY Zenon, <1>3, <1>4, <1>7, <1>9, <2>1, <2>2
<1>12. /\ down \in {0, MSGNUMWRAPAROUND} /\ down <= mn /\ mn - down \in 0..MSGNUMWRAPAROUND - 1
       /\ down \in Nat
  <2> DEFINE x == mn
  <2>1. down = IF x >= MSGNUMWRAPAROUND THEN MSGNUMWRAPAROUND ELSE 0
    BY Zenon DEF Renumbering
  <2> HIDE DEF mn, down
  <2> QED
    BY <1>2, <1>10, <2>1, RingFacts
<1> HIDE DEF late, F, mn, sig, down
<1>13. /\ minMsgNum' \in 0..MSGNUMWRAPAROUND - 1 /\ maxMsgNum' \in 0..MSGNUMWRAPAROUND + MAXNUMMESSAGES - 1
       /\ maxMsgNum' = maxMsgNum - down /\ maxMsgNum' - minMsgNum' = maxMsgNum - mn
       /\ maxMsgNum - mn \in 0..MAXNUMMESSAGES - minFree /\ maxMsgNum - mn \in Nat
  <2>1. /\ maxMsgNum - down \in 0..MSGNUMWRAPAROUND + MAXNUMMESSAGES - 1
        /\ (maxMsgNum - down) - (mn - down) = maxMsgNum - mn
        /\ maxMsgNum - mn \in 0..MAXNUMMESSAGES - minFree /\ maxMsgNum - mn \in Nat
    <3>1. /\ maxMsgNum \in 0..MSGNUMWRAPAROUND + MAXNUMMESSAGES - 1 /\ mn \in Nat /\ mn <= maxMsgNum
          /\ mn >= maxMsgNum - MAXNUMMESSAGES + minFree /\ down \in Nat /\ down <= mn
      BY Zenon, <1>2, <1>10, <1>12
    <3> QED
      BY <3>1, RingFacts
  <2> QED
    BY Zenon, <1>1, <1>12, <2>1
<1>14. nextThreshold' \in Nat /\ maxMsgNum - mn < nextThreshold'
  BY Zenon, <1>1, <1>13, ThresholdAbove
<1>15. target' \in [Slots -> Slots \cup {Nobody}]
  BY Zenon, <1>1, <1>2, <1>7, <1>11
<1>16. ASSUME NEW i \in Slots PROVE Cleaned(i, down)
  <2>1. procState'[i] = new(i)
    BY Zenon, <1>1
  <2>2. CASE ~procState[i].active
    <3>1. procState'[i] = procState[i]
      BY Zenon, <2>1, <2>2
    <3> QED
      BY Zenon, <1>3, <2>2, <3>1 DEF Cleaned
  <2>3. CASE procState[i].active
    <3> DEFINE ps == procState[i]
               n == AsInt(ps.nextMsgNum - down)
               r == ps.resetState \/ i \in late
               s == ps.signaled \/ i = sig
    <3>1. procState'[i] = [ps EXCEPT !.nextMsgNum = n, !.resetState = r, !.signaled = s]
      BY Zenon, <1>3, <2>1, <2>3 DEF ProcStates
    <3>2. n \in Int /\ r \in BOOLEAN /\ s \in BOOLEAN
      <4>1. ps.nextMsgNum - down \in Int
        BY <1>3, <1>12
      <4>2. n \in Int
        BY Zenon, <4>1, AsIntIs
      <4> QED
        BY Zenon, <4>2, <1>3, Fields
    <3> HIDE DEF ps, n, r, s
    <3>4. /\ procState'[i] \in ProcStates /\ procState'[i].active = ps.active
          /\ procState'[i].sendOnly = ps.sendOnly /\ procState'[i].hasMessages = ps.hasMessages
          /\ procState'[i].nextMsgNum = n /\ procState'[i].resetState = r /\ procState'[i].signaled = s
      <4>1. ps \in ProcStates
        BY Zenon, <1>3 DEF ps
      <4>2. procState'[i] = Renumbered(ps, n, r, s)
        BY Zenon, <3>1 DEF Renumbered
      <4> DEFINE t == Renumbered(ps, n, r, s)
      <4>3. t \in ProcStates
        BY Zenon, <3>2, <4>1, RenumberedIs
      <4>4. /\ t.active = ps.active /\ t.sendOnly = ps.sendOnly /\ t.hasMessages = ps.hasMessages
            /\ t.nextMsgNum = n /\ t.resetState = r /\ t.signaled = s
        BY SMT, <3>2, <4>1, RenumberedIs
      <4> HIDE DEF t
      <4>6. procState'[i] = t
        BY Zenon, <4>2 DEF t
      <4> QED
        BY Zenon, <4>3, <4>4, <4>6
    <3>5. r /\ ~ps.resetState => ps.hasMessages
      BY Zenon, <1>8 DEF r, ps
    <3>6. s => ps.signaled \/ ps.hasMessages
      BY Zenon, <1>11, Slot0 DEF s, ps
    <3>7. ~ps.sendOnly /\ ~r => n = ps.nextMsgNum - down /\ n \in minMsgNum'..maxMsgNum'
      <4> SUFFICES ASSUME ~ps.sendOnly, ~r
                   PROVE  n = ps.nextMsgNum - down /\ n \in minMsgNum'..maxMsgNum'
        BY Zenon
      <4> DEFINE x == ps.nextMsgNum
      <4>1. i \in F
        BY Zenon, <1>4, <2>3 DEF r, ps, F
      <4>2. x \in Nat /\ mn <= x /\ x <= maxMsgNum
        BY Zenon, <1>9, <1>10, <4>1 DEF ps
      <4>3. AsInt(x - down) = n
        BY Zenon DEF n
      <4> HIDE DEF x
      <4>4. x - down \in Nat /\ x - down < 2 * MSGNUMWRAPAROUND /\ x - down \in minMsgNum'..maxMsgNum'
        BY Zenon, <1>1, <1>2, <1>10, <1>12, <4>2, RenumberedEnds
      <4>5. n = x - down
        BY Zenon, <4>3, <4>4, AsIntIs
      <4> QED
        BY Zenon, <4>4, <4>5 DEF x
    <3> QED
      BY Zenon, <2>3, <3>4, <3>5, <3>6, <3>7 DEF Cleaned, ps, r
  <2> QED
    BY Zenon, <2>2, <2>3
<1>17. procState' \in [Slots -> ProcStates]
  BY Zenon, <1>1, <1>16 DEF Cleaned
<1> HIDE DEF new
<1> QED
  BY Zenon, <1>1, <1>12, <1>13, <1>14, <1>15, <1>16, <1>17

(* SICleanupQueue with a signal, another try or nothing to follow *)
LEMMA CleanupInv ==
    ASSUME QueueInv, NEW b \in Slots, writeLock = b, pc[b] \in {"cleanup", "pass_on"},
           NEW minFree \in Nat, minFree <= MAXNUMMESSAGES, SICleanupQueue(b, minFree),
           writeLock' \in {Nobody, b},
           NEW where \in {"signal", "send", "idle"}, pc' = [pc EXCEPT ![b] = where],
           UNCHANGED <<buffer, slotCounts, readers, todo, max, catchup, due>>
    PROVE  QueueInv'
<1>1. Ends /\ TypeOK /\ Place(b) /\ procState[b].active /\ maxMsgNum \in Nat
  <2>1. Ends /\ TypeOK /\ Place(b) /\ maxMsgNum \in Nat
    BY Zenon, KnownOf
  <2> QED
    BY Zenon, <2>1 DEF Place
<1>2. PICK down \in {0, MSGNUMWRAPAROUND} :
        /\ readers = {}
        /\ minMsgNum' \in 0..MSGNUMWRAPAROUND - 1
        /\ maxMsgNum' \in 0..MSGNUMWRAPAROUND + MAXNUMMESSAGES - 1
        /\ maxMsgNum' = maxMsgNum - down
        /\ maxMsgNum' - minMsgNum' \in 0..MAXNUMMESSAGES - minFree
        /\ nextThreshold' \in Nat /\ maxMsgNum' - minMsgNum' < nextThreshold'
        /\ target' \in [Slots -> Slots \cup {Nobody}]
        /\ procState' \in [Slots -> ProcStates]
        /\ \A i \in Slots : Cleaned(i, down)
  <2>1. pc[b] # "kick"
    BY Zenon
  <2> QED
    BY Zenon, <2>1, CleanupEffect
<1>3. UNCHANGED <<buffer, lastBackend, lastreserveBackend, readers, todo, max, catchup, due>>
  BY Zenon DEF slotCounts
<1>4. pc' \in [Slots -> Steps] /\ pc'[b] = where /\ \A i \in Slots \ {b} : pc'[i] = pc[i]
  BY Zenon, <1>1 DEF TypeOK, Steps
<1>5. Ends'
  <2>1. maxMsgNum' - minMsgNum' \in 0..MAXNUMMESSAGES
    <3>1. 0..MAXNUMMESSAGES - minFree \subseteq 0..MAXNUMMESSAGES
      BY RingFacts
    <3> QED
      BY Zenon, <1>2, <3>1
  <2>2. writeLock' \in Slots \cup {Nobody}
    BY Zenon
  <2>3. TypeOK'
    BY Zenon, <1>1, <1>2, <1>3, <1>4, <2>2 DEF TypeOK
  <2> QED
    BY Zenon, <2>1, <2>3 DEF Ends
<1>6. Announced = maxMsgNum /\ Announced' = maxMsgNum'
  <2>1. writeLock # Nobody => pc[writeLock] # "kick"
    BY Zenon
  <2>2. writeLock' # Nobody => pc'[writeLock'] # "kick"
    BY Zenon, <1>4
  <2> QED
    BY Zenon, <2>1, <2>2 DEF Announced
<1>7. ASSUME NEW i \in Slots PROVE SlotOK(i)'
  <2>1. /\ Place(i) /\ Told(i) /\ Owing(i) /\ Cleaned(i, down)
        /\ procState[i] \in ProcStates /\ procState[i].nextMsgNum \in Int /\ due[i] \in Nat
    BY Zenon, <1>2, KnownOf
  <2>2. pc[i] \notin Reading
    BY Zenon, <1>2, <2>1 DEF Place
  <2>3. pc'[i] = pc[i] \/ (i = b /\ pc'[i] \in {"signal", "send", "idle"})
    BY Zenon, <1>4
  <2>4. pc'[i] \notin Writing /\ pc'[i] \notin Reading
    BY Zenon, <1>4, <2>1, <2>2, <2>3 DEF Place, Writing, Reading
  <2>5. Place(i)'
    BY Zenon, <1>1, <1>2, <1>3, <2>1, <2>2, <2>3, <2>4 DEF Place, Cleaned, Receiving
  <2>6. Numbered(i)'
    BY Zenon, <2>1 DEF Numbered, Cleaned
  <2>7. Room(i)'
    BY Zenon, <2>4 DEF Room, Writing
  <2>8. \A x \in Int : /\ x >= maxMsgNum => x - down >= maxMsgNum'
                       /\ maxMsgNum' - (x - down) = maxMsgNum - x
    <3>1. down \in Int /\ maxMsgNum' = maxMsgNum - down
      BY <1>2, RingFacts
    <3> QED
      BY <1>1, <3>1
  <2>9. Told(i)'
    <3>1. /\ procState'[i].active = procState[i].active /\ procState'[i].sendOnly = procState[i].sendOnly
          /\ procState'[i].hasMessages = procState[i].hasMessages
          /\ procState'[i].resetState /\ ~procState[i].resetState => procState[i].hasMessages
          /\ procState'[i].signaled => procState[i].signaled \/ procState[i].hasMessages
          /\ procState[i].active /\ ~procState[i].sendOnly /\ ~procState'[i].resetState =>
                procState'[i].nextMsgNum = procState[i].nextMsgNum - down
      BY Zenon, <2>1 DEF Cleaned
    <3>2. procState[i].active /\ ~procState[i].sendOnly /\ ~procState[i].hasMessages
            => ~procState[i].resetState /\ procState[i].nextMsgNum >= maxMsgNum
      BY Zenon, <1>6, <2>1, <2>2 DEF Told
    <3>3. procState'[i].active /\ ~procState'[i].sendOnly /\ ~procState'[i].hasMessages
            => ~procState'[i].resetState /\ procState'[i].nextMsgNum >= Announced'
      BY Zenon, <1>6, <2>1, <2>8, <3>1, <3>2
    <3>4. procState'[i].active /\ procState'[i].signaled => procState'[i].hasMessages
      BY Zenon, <2>1, <2>2, <3>1 DEF Told
    <3> QED
      BY Zenon, <2>4, <3>3, <3>4 DEF Told, Reading
  <2>10. Owing(i)'
    <3>1. /\ procState[i].resetState => procState'[i].resetState
          /\ procState[i].active /\ ~procState[i].sendOnly /\ ~procState'[i].resetState =>
                procState'[i].nextMsgNum = procState[i].nextMsgNum - down
      BY Zenon, <2>1 DEF Cleaned
    <3>2. pc'[i] \in {"get", "again"} => pc[i] = pc'[i] /\ procState[i].active /\ ~procState[i].sendOnly
      BY Zenon, <2>1, <2>3 DEF Place, Receiving
    <3>3. pc'[i] \in {"get", "again"} /\ ~procState'[i].resetState /\ due[i] # 0
            => due[i] <= Announced' - procState'[i].nextMsgNum
      BY Zenon, <1>6, <2>1, <2>8, <3>1, <3>2 DEF Owing
    <3>4. pc'[i] \in {"caught_up", "pass_on"} => due[i] = 0
      BY Zenon, <2>1, <2>3 DEF Owing
    <3> QED
      BY Zenon, <1>3, <2>4, <3>3, <3>4 DEF Owing, Reading
  <2> QED
    BY Zenon, <2>5, <2>6, <2>7, <2>9, <2>10 DEF SlotOK
<1> QED
  BY Zenon, <1>5, <1>7 DEF QueueInv

(* SIInsertDataEntries cleans up when there is no room, a backend that has caught up *)
(* when it was sent a signal                                                         *)
LEMMA CleanupStepsInv ==
    ASSUME QueueInv, NEW b \in Slots, CleanupForSpace(b) \/ PassOnCatchup(b)
    PROVE  QueueInv'
<1>1. TypeOK /\ Place(b) /\ nthistime(b) \in Nat /\ nthistime(b) <= MAXNUMMESSAGES
  BY Zenon, KnownOf, GroupSize
<1>2. CASE CleanupForSpace(b)
  <2> DEFINE where == IF target'[b] # Nobody THEN "signal" ELSE "send"
  <2>1. /\ pc[b] = "cleanup" /\ SICleanupQueue(b, nthistime(b))
        /\ writeLock' = Nobody \/ writeLock' = writeLock
        /\ pc' = [pc EXCEPT ![b] = where] /\ where \in {"signal", "send", "idle"}
        /\ UNCHANGED <<buffer, slotCounts, readers, todo, max, catchup, due>>
    BY Zenon, <1>2 DEF CleanupForSpace, Goto
  <2>2. writeLock = b
    BY Zenon, <1>1, <2>1 DEF Place, Writing
  <2> HIDE DEF where
  <2> QED
    BY Zenon, <1>1, <2>1, <2>2, CleanupInv
<1>3. CASE PassOnCatchup(b)
  <2> DEFINE where == IF target'[b] # Nobody THEN "signal" ELSE "idle"
  <2>1. /\ pc[b] = "pass_on" /\ writeLock = b /\ SICleanupQueue(b, 0) /\ writeLock' = Nobody
        /\ pc' = [pc EXCEPT ![b] = where] /\ where \in {"signal", "send", "idle"}
        /\ UNCHANGED <<buffer, slotCounts, readers, todo, max, catchup, due>>
    BY Zenon, <1>3 DEF PassOnCatchup, Goto
  <2>2. 0 \in Nat /\ 0 <= MAXNUMMESSAGES
    BY RingFacts
  <2> HIDE DEF where
  <2> QED
    BY Zenon, <2>1, <2>2, CleanupInv
<1> QED
  BY Zenon, <1>2, <1>3

-----------------------------------------------------------------------------
(* Receiving *)

(* A receive that touches neither SInvalWriteLock nor the ring announces nothing *)
LEMMA ReceiverAside ==
    ASSUME QueueInv, NEW b \in Slots, pc[b] # "kick", NEW where \in Steps \ {"kick"},
           pc' = [pc EXCEPT ![b] = where],
           UNCHANGED <<buffer, minMsgNum, maxMsgNum, lastBackend, lastreserveBackend, writeLock, todo>>,
           \A i \in Slots \ {b} : /\ procState'[i] = procState[i] /\ max'[i] = max[i] /\ due'[i] = due[i]
                                  /\ i \in readers' <=> i \in readers
    PROVE  Aside(b) /\ Announced' = Announced /\ pc' \in [Slots -> Steps] /\ pc'[b] = where
<1>1. TypeOK
  BY Zenon DEF QueueInv, Ends
<1>2. pc' \in [Slots -> Steps] /\ pc'[b] = where /\ \A i \in Slots \ {b} : pc'[i] = pc[i]
  BY Zenon, <1>1 DEF TypeOK
<1>3. writeLock # Nobody => (pc'[writeLock] = "kick" <=> pc[writeLock] = "kick")
  BY Zenon, <1>1, <1>2 DEF TypeOK
<1>4. Announced' = Announced
  BY Zenon, <1>3 DEF Announced, nthistime
<1> QED
  BY Zenon, <1>2, <1>4 DEF Aside, QueueInv, SlotOK, Place

(* The unlocked test of hasMessages: who is told that there is nothing owes nothing *)
LEMMA QuickTestInv ==
    ASSUME QueueInv, NEW b \in Slots, QuickTest(b), procState[b].active, ~procState[b].sendOnly,
           pc[b] \in {"idle", "again"}, due' \in [Slots -> Nat],
           \A i \in Slots \ {b} : due'[i] = due[i],
           ~procState[b].resetState /\ due'[b] # 0 => due'[b] <= Announced - procState[b].nextMsgNum,
           UNCHANGED <<ring, slotCounts, procState, writeLock, readers, todo, max, target, catchup>>
    PROVE  QueueInv'
<1>1. /\ Ends /\ TypeOK /\ Place(b) /\ Numbered(b) /\ Told(b) /\ procState[b].nextMsgNum \in Int
  BY Zenon, KnownOf
<1> DEFINE where == IF procState[b].hasMessages THEN "get" ELSE "caught_up"
<1>2. /\ pc' = [pc EXCEPT ![b] = where]
      /\ UNCHANGED <<buffer, minMsgNum, maxMsgNum, nextThreshold, lastBackend, lastreserveBackend, procState,
                     writeLock, readers, todo, max, target, catchup>>
  BY Zenon DEF QuickTest, Goto, ring, slotCounts
<1>3. /\ where \in {"get", "caught_up"} /\ where \in Steps \ {"kick"}
      /\ where = "caught_up" => ~procState[b].hasMessages
  BY Zenon DEF Steps
<1> HIDE DEF where
<1>4. Aside(b) /\ Announced' = Announced /\ pc' \in [Slots -> Steps] /\ pc'[b] = where
  <2>1. pc[b] # "kick"
    BY Zenon
  <2> QED
    BY Zenon, <1>2, <1>3, <2>1, ReceiverAside
<1>5. Ends'
  BY Zenon, <1>1, <1>2, <1>4 DEF Ends, TypeOK
<1>6. Place(b)' /\ Numbered(b)' /\ Room(b)' /\ Told(b)'
  BY Zenon, <1>1, <1>2, <1>3, <1>4 DEF Place, Numbered, Room, Told, Writing, Reading, Receiving
<1>7. where = "caught_up" => due'[b] = 0
  <2>1. \A n \in Int, d \in Nat : n >= Announced => ~(d # 0 /\ d <= Announced - n)
    BY <1>1, AnnouncedIs
  <2>2. due'[b] \in Nat
    BY Zenon
  <2>3. where = "caught_up" => ~procState[b].resetState /\ procState[b].nextMsgNum >= Announced
    BY Zenon, <1>1, <1>3 DEF Told, Reading
  <2> QED
    BY Zenon, <1>1, <2>1, <2>2, <2>3
<1>8. Owing(b)'
  BY Zenon, <1>2, <1>3, <1>4, <1>7 DEF Owing
<1> QED
  BY Zenon, <1>4, <1>5, <1>6, <1>8, AsideStep DEF SlotOK

(* A receive begins, or goes on after a full array *)
LEMMA BeginReceiveInv ==
    ASSUME QueueInv, NEW b \in Slots, ReceiveSharedInvalidMessages(b) \/ GetMore(b)
    PROVE  QueueInv'
<1>1. TypeOK /\ Place(b) /\ Owing(b) /\ procState[b].nextMsgNum \in Int /\ due[b] \in Nat
  BY Zenon, KnownOf
<1>2. CASE ReceiveSharedInvalidMessages(b)
  <2> DEFINE d == IF procState[b].resetState THEN 1
                  ELSE Announced - Least(Announced, procState[b].nextMsgNum)
             n == procState[b].nextMsgNum
  <2>1. /\ procState[b].active /\ pc[b] = "idle" /\ ~procState[b].sendOnly /\ QuickTest(b)
        /\ due' = [due EXCEPT ![b] = d]
        /\ UNCHANGED <<ring, slotCounts, procState, writeLock, readers, todo, max, target, catchup>>
    BY Zenon, <1>2 DEF ReceiveSharedInvalidMessages, Idle
  <2>2. d = IF procState[b].resetState THEN 1 ELSE Announced - Least(Announced, n)
    BY Zenon
  <2>3. \A a, x \in Int : a - Least(a, x) \in Nat /\ (a - Least(a, x) # 0 => a - Least(a, x) <= a - x)
    BY DEF Least
  <2>4. Announced \in Int /\ n \in Int
    BY Zenon, <1>1, AnnouncedIs
  <2> HIDE DEF d, n
  <2>5. 1 \in Nat
    BY SMT
  <2>6. d \in Nat /\ (~procState[b].resetState /\ d # 0 => d <= Announced - n)
    BY Zenon, <2>2, <2>3, <2>4, <2>5
  <2>7. due' \in [Slots -> Nat] /\ due'[b] = d /\ \A i \in Slots \ {b} : due'[i] = due[i]
    BY Zenon, <1>1, <2>1, <2>6 DEF TypeOK
  <2> QED
    BY Zenon, <2>1, <2>6, <2>7, QuickTestInv DEF n
<1>3. CASE GetMore(b)
  <2>1. /\ pc[b] = "again" /\ QuickTest(b) /\ due' = due
        /\ UNCHANGED <<ring, slotCounts, procState, writeLock, readers, todo, max, target, catchup>>
    BY Zenon, <1>3 DEF GetMore, local
  <2>2. /\ procState[b].active /\ ~procState[b].sendOnly
        /\ ~procState[b].resetState /\ due[b] # 0 => due[b] <= Announced - procState[b].nextMsgNum
    BY Zenon, <1>1, <2>1 DEF Place, Owing, Receiving
  <2>3. due' \in [Slots -> Nat]
    BY Zenon, <1>1, <2>1 DEF TypeOK
  <2> QED
    BY Zenon, <2>1, <2>2, <2>3, QuickTestInv
<1> QED
  BY Zenon, <1>2, <1>3

(* hasMessages is cleared before maxMsgNum is read *)
LEMMA AcquireReadLockInv ==
    ASSUME QueueInv, NEW b \in Slots, AcquireReadLock(b)
    PROVE  QueueInv'
<1>1. /\ Ends /\ TypeOK /\ Place(b) /\ Numbered(b) /\ Owing(b) /\ procState[b] \in ProcStates
  BY Zenon, KnownOf
<1>2. /\ pc[b] = "get" /\ pc' = [pc EXCEPT ![b] = "fetch_max"]
      /\ readers' = readers \cup {b} /\ procState' = [procState EXCEPT ![b].hasMessages = FALSE]
      /\ UNCHANGED <<buffer, minMsgNum, maxMsgNum, nextThreshold, lastBackend, lastreserveBackend, writeLock,
                     todo, max, target, catchup, due>>
  BY Zenon DEF AcquireReadLock, Goto, ring, slotCounts, local
<1> DEFINE ps == procState[b]
           t == [ps EXCEPT !.hasMessages = FALSE]
<1>3. /\ t \in ProcStates /\ t.active = ps.active /\ t.sendOnly = ps.sendOnly
      /\ t.resetState = ps.resetState /\ t.nextMsgNum = ps.nextMsgNum
  BY Zenon, <1>1 DEF ProcStates
<1>4. procState' = [procState EXCEPT ![b] = t]
  BY Zenon, <1>2
<1> HIDE DEF t
<1>5. /\ procState' \in [Slots -> ProcStates] /\ procState'[b] = t
      /\ \A i \in Slots \ {b} : procState'[i] = procState[i]
  BY Zenon, <1>1, <1>3, <1>4 DEF TypeOK
<1>6. Aside(b) /\ Announced' = Announced /\ pc' \in [Slots -> Steps] /\ pc'[b] = "fetch_max"
  <2>1. pc[b] # "kick" /\ "fetch_max" \in Steps \ {"kick"}
    BY Zenon, <1>2 DEF Steps
  <2> QED
    BY Zenon, <1>2, <1>5, <2>1, ReceiverAside
<1>7. Ends'
  BY Zenon, <1>1, <1>2, <1>5, <1>6 DEF Ends, TypeOK
<1>8. Place(b)' /\ Numbered(b)' /\ Room(b)' /\ Told(b)'
  BY Zenon, <1>1, <1>2, <1>3, <1>5, <1>6 DEF Place, Numbered, Room, Told, Writing, Reading, Receiving
<1>9. Owing(b)'
  BY Zenon, <1>1, <1>2, <1>3, <1>5, <1>6 DEF Owing
<1> QED
  BY Zenon, <1>6, <1>7, <1>8, <1>9, AsideStep DEF SlotOK

(* maxMsgNum is read, or the backend is told to reset *)
LEMMA FetchMaxMsgNumInv ==
    ASSUME QueueInv, NEW b \in Slots, FetchMaxMsgNum(b)
    PROVE  QueueInv'
<1>1. /\ Ends /\ TypeOK /\ Place(b) /\ Numbered(b) /\ Told(b) /\ Owing(b) /\ procState[b] \in ProcStates
      /\ procState[b].nextMsgNum \in Int /\ minMsgNum \in Nat /\ maxMsgNum \in Nat /\ minMsgNum <= maxMsgNum
      /\ due[b] \in Nat
  BY Zenon, KnownOf
<1>2. /\ pc[b] = "fetch_max"
      /\ UNCHANGED <<buffer, minMsgNum, maxMsgNum, nextThreshold, lastBackend, lastreserveBackend, writeLock,
                     todo, target, catchup>>
  BY Zenon DEF FetchMaxMsgNum, ring, slotCounts
<1>3. procState[b].active /\ ~procState[b].sendOnly /\ b \in readers
  BY Zenon, <1>1, <1>2 DEF Place, Reading, Receiving
<1>4. Announced \in Int /\ Announced <= maxMsgNum
  BY Zenon, <1>1, AnnouncedIs
<1>5. "caught_up" \in Steps \ {"kick"} /\ "copy" \in Steps \ {"kick"} /\ pc[b] # "kick"
  BY Zenon, <1>2 DEF Steps
<1>6. CASE ForceReset(b)
  <2> DEFINE ps == procState[b]
             no == FALSE
             t == Renumbered(ps, maxMsgNum, no, no)
  <2>1. /\ procState' = [procState EXCEPT ![b] = t] /\ readers' = readers \ {b}
        /\ due' = [due EXCEPT ![b] = 0] /\ pc' = [pc EXCEPT ![b] = "caught_up"] /\ max' = max
    BY Zenon, <1>6 DEF ForceReset, AfterReset, Renumbered, Goto
  <2>2. maxMsgNum \in Int /\ maxMsgNum \in minMsgNum..maxMsgNum /\ maxMsgNum >= Announced /\ 0 \in Nat
    BY <1>1, <1>4
  <2>3. /\ t \in ProcStates /\ t.active = ps.active /\ t.sendOnly = ps.sendOnly
        /\ t.nextMsgNum = maxMsgNum /\ t.resetState = FALSE /\ t.signaled = FALSE
    <3>1. ps \in ProcStates /\ no \in BOOLEAN
      BY Zenon, <1>1
    <3> HIDE DEF ps, no
    <3>2. t \in ProcStates
      BY Zenon, <2>2, <3>1, RenumberedIs
    <3>3. /\ t.active = ps.active /\ t.sendOnly = ps.sendOnly
          /\ t.nextMsgNum = maxMsgNum /\ t.resetState = no /\ t.signaled = no
      BY SMT, <2>2, <3>1, RenumberedIs
    <3> HIDE DEF t
    <3> QED
      BY Zenon, <3>2, <3>3 DEF no
  <2> HIDE DEF t
  <2>4. /\ procState' \in [Slots -> ProcStates] /\ procState'[b] = t /\ due' \in [Slots -> Nat] /\ due'[b] = 0
        /\ \A i \in Slots \ {b} : procState'[i] = procState[i] /\ due'[i] = due[i]
    BY Zenon, <1>1, <2>1, <2>2, <2>3 DEF TypeOK
  <2>5. Aside(b) /\ Announced' = Announced /\ pc' \in [Slots -> Steps] /\ pc'[b] = "caught_up"
    BY Zenon, <1>2, <1>5, <2>1, <2>4, ReceiverAside
  <2>6. Ends'
    BY Zenon, <1>1, <1>2, <2>1, <2>4, <2>5 DEF Ends, TypeOK
  <2>7. Place(b)' /\ Numbered(b)' /\ Room(b)' /\ Told(b)' /\ Owing(b)'
    BY Zenon, <1>1, <1>2, <1>3, <2>1, <2>2, <2>3, <2>4, <2>5
       DEF Place, Numbered, Room, Told, Owing, Writing, Reading, Receiving
  <2> QED
    BY Zenon, <2>5, <2>6, <2>7, AsideStep DEF SlotOK
<1>7. CASE ~ForceReset(b)
  <2>1. /\ ~procState[b].resetState /\ max' = [max EXCEPT ![b] = maxMsgNum]
        /\ pc' = [pc EXCEPT ![b] = "copy"] /\ UNCHANGED <<procState, readers, due>>
    BY Zenon, <1>7 DEF FetchMaxMsgNum, Goto
  <2>2. max' \in [Slots -> Nat] /\ max'[b] = maxMsgNum /\ \A i \in Slots \ {b} : max'[i] = max[i]
    BY Zenon, <1>1, <2>1 DEF TypeOK
  <2>3. Aside(b) /\ Announced' = Announced /\ pc' \in [Slots -> Steps] /\ pc'[b] = "copy"
    BY Zenon, <1>2, <1>5, <2>1, <2>2, ReceiverAside
  <2>4. Ends'
    BY Zenon, <1>1, <1>2, <2>1, <2>2, <2>3 DEF Ends, TypeOK
  <2>5. Place(b)' /\ Numbered(b)' /\ Room(b)'
    BY Zenon, <1>1, <1>2, <1>3, <2>1, <2>2, <2>3 DEF Place, Numbered, Room, Writing, Reading, Receiving
  <2>6. /\ procState[b].nextMsgNum <= maxMsgNum /\ maxMsgNum <= maxMsgNum /\ maxMsgNum >= Announced
        /\ due[b] <= Announced - procState[b].nextMsgNum => due[b] <= maxMsgNum - procState[b].nextMsgNum
    <3>1. procState[b].nextMsgNum \in minMsgNum..maxMsgNum
      BY Zenon, <1>1, <1>3, <2>1 DEF Numbered
    <3> QED
      BY <1>1, <1>4, <3>1
  <2>7. Told(b)'
    BY Zenon, <1>1, <1>2, <2>1, <2>2, <2>3, <2>6 DEF Told, Reading
  <2>8. Owing(b)'
    BY Zenon, <1>1, <1>2, <2>1, <2>2, <2>3, <2>6 DEF Owing
  <2> QED
    BY Zenon, <2>3, <2>4, <2>5, <2>7, <2>8, AsideStep DEF SlotOK
<1> QED
  BY Zenon, <1>6, <1>7

(* The slot of a backend that has read up to next: t is what it was, ps, but for the   *)
(* position, and either nothing is left to read before upTo or it is told that there is *)
Copied(t, ps, next, upTo) ==
    /\ t \in ProcStates /\ t.active = ps.active /\ t.sendOnly = ps.sendOnly
    /\ t.resetState = ps.resetState /\ t.nextMsgNum = next
    /\ next >= upTo => t.signaled = FALSE /\ t.hasMessages = ps.hasMessages
    /\ ~(next >= upTo) => t.hasMessages = TRUE

(* AfterCopy, the end of SIGetDataEntries, leaves such a slot *)
LEMMA AfterCopyIs ==
    ASSUME NEW ps \in ProcStates, NEW next \in Int, NEW upTo \in Int
    PROVE  Copied(AfterCopy(ps, next, upTo), ps, next, upTo)
<1> DEFINE t == AfterCopy(ps, next, upTo)
           t1 == [ps EXCEPT !.nextMsgNum = next]
<1>1. t = IF next >= upTo THEN [t1 EXCEPT !.signaled = FALSE] ELSE [t1 EXCEPT !.hasMessages = TRUE]
  BY Zenon DEF AfterCopy
<1>2. /\ t1 \in ProcStates /\ t1.active = ps.active /\ t1.sendOnly = ps.sendOnly
      /\ t1.hasMessages = ps.hasMessages /\ t1.nextMsgNum = next /\ t1.resetState = ps.resetState
  BY Zenon DEF ProcStates
<1> HIDE DEF t1
<1>3. CASE next >= upTo
  <2>1. /\ t \in ProcStates /\ t.active = t1.active /\ t.sendOnly = t1.sendOnly /\ t.signaled = FALSE
        /\ t.hasMessages = t1.hasMessages /\ t.nextMsgNum = t1.nextMsgNum /\ t.resetState = t1.resetState
    BY Zenon, <1>1, <1>2, <1>3 DEF ProcStates
  <2> HIDE DEF t
  <2>2. Copied(t, ps, next, upTo)
    BY Zenon, <1>2, <1>3, <2>1 DEF Copied
  <2> QED
    BY Zenon, <2>2 DEF t
<1>4. CASE ~(next >= upTo)
  <2>1. /\ t \in ProcStates /\ t.active = t1.active /\ t.sendOnly = t1.sendOnly
        /\ t.hasMessages = TRUE /\ t.nextMsgNum = t1.nextMsgNum /\ t.resetState = t1.resetState
    BY Zenon, <1>1, <1>2, <1>4 DEF ProcStates
  <2> HIDE DEF t
  <2>2. Copied(t, ps, next, upTo)
    BY Zenon, <1>2, <1>4, <2>1 DEF Copied
  <2> QED
    BY Zenon, <2>2 DEF t
<1> QED
  BY Zenon, <1>3, <1>4

(* How many messages a backend takes *)
LEMMA FetchedIs ==
    ASSUME QueueInv, NEW b \in Slots, pc[b] = "copy"
    PROVE  /\ Fetched(b) \in Nat /\ Fetched(b) <= MAXINVALMSGS
           /\ Fetched(b) <= max[b] - procState[b].nextMsgNum
           /\ Fetched(b) # MAXINVALMSGS => Fetched(b) = max[b] - procState[b].nextMsgNum
           /\ procState[b].active /\ ~procState[b].sendOnly /\ ~procState[b].resetState /\ b \in readers
           /\ procState[b].nextMsgNum \in minMsgNum..maxMsgNum /\ procState[b].nextMsgNum \in Nat
           /\ procState[b].nextMsgNum <= max[b] /\ max[b] <= maxMsgNum
<1>1. /\ Place(b) /\ Numbered(b) /\ Told(b) /\ procState[b].nextMsgNum \in Int /\ max[b] \in Nat
      /\ minMsgNum \in Nat /\ maxMsgNum \in Nat
  BY Zenon, KnownOf
<1>2. /\ procState[b].active /\ ~procState[b].sendOnly /\ ~procState[b].resetState /\ b \in readers
      /\ procState[b].nextMsgNum \in minMsgNum..maxMsgNum
      /\ procState[b].nextMsgNum <= max[b] /\ max[b] <= maxMsgNum
  BY Zenon, <1>1 DEF Place, Numbered, Told, Reading, Receiving
<1> DEFINE n == procState[b].nextMsgNum
           m == max[b]
<1>3. Fetched(b) = Least(MAXINVALMSGS, m - n)
  BY Zenon DEF Fetched
<1>4. n \in Nat /\ m \in Nat /\ n <= m
  BY <1>1, <1>2
<1>5. MAXINVALMSGS \in Nat
  BY Zenon, Tunables
<1> HIDE DEF n, m
<1>6. /\ Least(MAXINVALMSGS, m - n) \in Nat /\ Least(MAXINVALMSGS, m - n) <= MAXINVALMSGS
      /\ Least(MAXINVALMSGS, m - n) <= m - n
      /\ Least(MAXINVALMSGS, m - n) # MAXINVALMSGS => Least(MAXINVALMSGS, m - n) = m - n
  BY <1>4, <1>5 DEF Least
<1> QED
  BY Zenon, <1>2, <1>3, <1>4, <1>6 DEF n, m

(* CopyMessages takes what it finds before the end it read, and owes that much less *)
LEMMA CopyMessagesInv ==
    ASSUME QueueInv, NEW b \in Slots, CopyMessages(b)
    PROVE  QueueInv'
<1>1. /\ Ends /\ TypeOK /\ Place(b) /\ Numbered(b) /\ Told(b) /\ Owing(b) /\ procState[b] \in ProcStates
      /\ minMsgNum \in Nat /\ maxMsgNum \in Nat /\ max[b] \in Nat /\ due[b] \in Nat
  BY Zenon, KnownOf
<1> DEFINE f == Fetched(b)
           n == procState[b].nextMsgNum
           m == max[b]
           d == due[b]
           t == AfterCopy(procState[b], n + f, m)
           where == AfterFetch(b)
<1>2. /\ pc[b] = "copy" /\ procState' = [procState EXCEPT ![b] = t] /\ readers' = readers \ {b}
      /\ due' = [due EXCEPT ![b] = d - Least(d, f)] /\ max' = [max EXCEPT ![b] = 0]
      /\ pc' = [pc EXCEPT ![b] = where]
      /\ UNCHANGED <<buffer, minMsgNum, maxMsgNum, nextThreshold, lastBackend, lastreserveBackend, writeLock,
                     todo, target, catchup>>
  BY Zenon DEF CopyMessages, Goto, ring, slotCounts
<1>3. /\ f \in Nat /\ f <= m - n /\ (f # MAXINVALMSGS => f = m - n)
      /\ procState[b].active /\ ~procState[b].sendOnly /\ ~procState[b].resetState /\ b \in readers
      /\ n \in minMsgNum..maxMsgNum /\ n \in Nat /\ n <= m /\ m <= maxMsgNum
  BY Zenon, <1>2, FetchedIs
<1>4. where \in {"again", "caught_up"} /\ where \in Steps \ {"kick"} /\ (where = "caught_up" => f = m - n)
  BY Zenon, <1>3 DEF AfterFetch, Steps
<1>5. Announced \in Int
  BY Zenon, <1>1, AnnouncedIs
<1> DEFINE a == Announced
           e == d - Least(d, f)
<1>6. /\ n + f \in Nat /\ n <= n + f /\ n + f <= m /\ e \in Nat
      /\ n + f >= m /\ m >= a => n + f >= a
      /\ e # 0 => d # 0
      /\ e # 0 /\ d <= a - n => e <= a - (n + f)
      /\ f = m - n /\ (d # 0 => d <= m - n) => e = 0
  <2>1. m \in Nat /\ d \in Nat /\ a \in Int
    BY Zenon, <1>1, <1>5
  <2> HIDE DEF f, n, m, d, a
  <2>2. f \in Nat /\ f <= m - n /\ n \in Nat
    BY Zenon, <1>3
  <2> QED
    BY ONLY SMT, <2>1, <2>2 DEF Least, e
<1>7. n + f \in minMsgNum..maxMsgNum /\ n + f \in Int /\ m \in Int /\ 0 \in Nat
  <2> HIDE DEF f, n, m
  <2>1. m \in Nat
    BY Zenon, <1>1 DEF m
  <2> QED
    BY <1>1, <1>3, <1>6, <2>1
<1>8. /\ t \in ProcStates /\ t.active = procState[b].active /\ t.sendOnly = procState[b].sendOnly
      /\ t.resetState = procState[b].resetState /\ t.nextMsgNum = n + f
      /\ n + f >= m => t.signaled = FALSE /\ t.hasMessages = procState[b].hasMessages
      /\ ~(n + f >= m) => t.hasMessages = TRUE
  <2> DEFINE next == n + f
  <2>1. next \in Int /\ m \in Int
    BY Zenon, <1>7
  <2> HIDE DEF next, m
  <2>2. Copied(AfterCopy(procState[b], next, m), procState[b], next, m)
    BY Zenon, <1>1, <2>1, AfterCopyIs
  <2>3. Copied(t, procState[b], n + f, m)
    BY Zenon, <2>2 DEF next
  <2> HIDE DEF t, f, n
  <2> QED
    BY Zenon, <2>3 DEF Copied
<1>9. /\ d # 0 => d <= a - n /\ d <= m - n
      /\ procState[b].hasMessages \/ m >= a
  BY Zenon, <1>1, <1>2, <1>3 DEF Owing, Told
<1> HIDE DEF t, where, f, e
<1>10. /\ procState' \in [Slots -> ProcStates] /\ procState'[b] = t
       /\ due' \in [Slots -> Nat] /\ due'[b] = e /\ max' \in [Slots -> Nat] /\ max'[b] = 0
       /\ \A i \in Slots \ {b} : procState'[i] = procState[i] /\ due'[i] = due[i] /\ max'[i] = max[i]
  BY Zenon, <1>1, <1>2, <1>6, <1>7, <1>8 DEF TypeOK, e
<1>11. Aside(b) /\ a' = a /\ pc' \in [Slots -> Steps] /\ pc'[b] = where
  <2>1. pc[b] # "kick" /\ \A i \in Slots \ {b} : i \in readers' <=> i \in readers
    BY Zenon, <1>2
  <2> QED
    BY Zenon, <1>2, <1>4, <1>10, <2>1, ReceiverAside
<1>12. Ends'
  <2>1. readers' \subseteq Slots
    BY Zenon, <1>1, <1>2 DEF TypeOK
  <2> QED
    BY Zenon, <1>1, <1>2, <1>10, <1>11, <2>1 DEF Ends, TypeOK
<1>13. Place(b)' /\ Room(b)'
  BY Zenon, <1>1, <1>2, <1>3, <1>4, <1>8, <1>10, <1>11 DEF Place, Room, Writing, Reading, Receiving
<1>14. Numbered(b)'
  BY Zenon, <1>2, <1>7, <1>8, <1>10 DEF Numbered
<1>15. Told(b)'
  <2>1. ~t.hasMessages => n + f >= a
    BY Zenon, <1>6, <1>8, <1>9
  <2>2. t.signaled => t.hasMessages
    BY Zenon, <1>8
  <2> QED
    BY Zenon, <1>3, <1>4, <1>8, <1>10, <1>11, <2>1, <2>2 DEF Told
<1>16. Owing(b)'
  <2>1. e # 0 => e <= a - (n + f)
    BY Zenon, <1>6, <1>9
  <2>2. where = "caught_up" => e = 0
    BY Zenon, <1>4, <1>6, <1>9
  <2> QED
    BY Zenon, <1>4, <1>8, <1>10, <1>11, <2>1, <2>2 DEF Owing
<1> QED
  BY Zenon, <1>11, <1>12, <1>13, <1>14, <1>15, <1>16, AsideStep DEF SlotOK

(* The receive is over, or goes on with SInvalWriteLock to pass the signal on *)
LEMMA CaughtUpInv ==
    ASSUME QueueInv, NEW b \in Slots, CaughtUp(b)
    PROVE  QueueInv'
<1>1. Ends /\ TypeOK /\ Place(b) /\ Numbered(b) /\ Told(b) /\ Owing(b)
  BY Zenon, KnownOf
<1>2. /\ pc[b] = "caught_up"
      /\ UNCHANGED <<buffer, minMsgNum, maxMsgNum, nextThreshold, lastBackend, lastreserveBackend, procState,
                     readers, todo, max, target, due>>
  BY Zenon DEF CaughtUp, ring, slotCounts
<1>3. CASE catchup[b]
  <2>1. /\ writeLock = Nobody /\ writeLock' = b /\ catchup' = [catchup EXCEPT ![b] = FALSE]
        /\ pc' = [pc EXCEPT ![b] = "pass_on"]
    BY Zenon, <1>3 DEF CaughtUp, Goto
  <2>2. /\ pc' \in [Slots -> Steps] /\ pc'[b] = "pass_on" /\ \A i \in Slots \ {b} : pc'[i] = pc[i]
        /\ catchup' \in [Slots -> BOOLEAN] /\ writeLock' \in Slots \cup {Nobody}
    BY Zenon, <1>1, <2>1 DEF TypeOK, Steps
  <2>3. Ends'
    BY Zenon, <1>1, <1>2, <2>2 DEF Ends, TypeOK
  <2>4. Announced' = Announced
    BY Zenon, <1>2, <2>1, <2>2 DEF Announced
  <2>5. Aside(b)
    BY Zenon, <1>2, <2>1, <2>2, <2>4 DEF Aside, QueueInv, SlotOK, Place
  <2>6. SlotOK(b)'
    BY Zenon, <1>1, <1>2, <2>1, <2>2, <2>4
       DEF SlotOK, Place, Numbered, Room, Told, Owing, Reading, Receiving
  <2> QED
    BY Zenon, <2>3, <2>5, <2>6, AsideStep
<1>4. CASE ~catchup[b]
  <2>1. pc' = [pc EXCEPT ![b] = "idle"] /\ UNCHANGED <<writeLock, catchup>>
    BY Zenon, <1>4 DEF CaughtUp, Goto
  <2>2. Aside(b) /\ Announced' = Announced /\ pc' \in [Slots -> Steps] /\ pc'[b] = "idle"
    <3>1. pc[b] # "kick" /\ "idle" \in Steps \ {"kick"}
      BY Zenon, <1>2 DEF Steps
    <3> QED
      BY Zenon, <1>2, <2>1, <3>1, ReceiverAside
  <2>3. Ends'
    BY Zenon, <1>1, <1>2, <2>1, <2>2 DEF Ends, TypeOK
  <2>4. SlotOK(b)'
    BY Zenon, <1>1, <1>2, <2>1, <2>2
       DEF SlotOK, Place, Numbered, Room, Told, Owing, Writing, Reading, Receiving
  <2> QED
    BY Zenon, <2>2, <2>3, <2>4, AsideStep
<1> QED
  BY Zenon, <1>3, <1>4

-----------------------------------------------------------------------------
(* What holds of the queue *)

(* SInvalShmemInit sets up an empty queue *)
LEMMA InitInv == Init => QueueInv
<1> SUFFICES ASSUME Init PROVE QueueInv
  OBVIOUS
<1>1. /\ buffer = [s \in 0..MAXNUMMESSAGES - 1 |-> NoMsg]
      /\ minMsgNum = 0 /\ maxMsgNum = 0 /\ nextThreshold = CLEANUP_MIN
      /\ lastBackend = 0 /\ lastreserveBackend = 0
      /\ procState = [i \in Slots |-> FreeSlot]
      /\ writeLock = Nobody /\ readers = {}
      /\ pc = [i \in Slots |-> "idle"]
      /\ todo = [i \in Slots |-> <<>>]
      /\ max = [i \in Slots |-> 0]
      /\ target = [i \in Slots |-> Nobody]
      /\ catchup = [i \in Slots |-> FALSE]
      /\ due = [i \in Slots |-> 0]
  BY Zenon DEF Init
<1>2. FreeSlot \in ProcStates /\ FreeSlot.active = FALSE
  BY DEF FreeSlot, ProcStates
<1>3. /\ 0 \in 0..MSGNUMWRAPAROUND - 1 /\ 0 \in 0..MSGNUMWRAPAROUND + MAXNUMMESSAGES - 1
      /\ 0 - 0 \in 0..MAXNUMMESSAGES /\ CLEANUP_MIN \in Nat /\ 0 \in Nat
      /\ 0 \in 0..maxBackends /\ 0 \in 0..maxreserveBackends
  BY RingFacts, SlotsFit, Tunables
<1>4. <<>> \in Seq(Msgs)
  BY SMT
<1>5. TypeOK
  <2>1. buffer \in [0..MAXNUMMESSAGES - 1 -> Msgs \cup {NoMsg}]
    BY Zenon, <1>1
  <2>2. pc \in [Slots -> Steps]
    BY Zenon, <1>1 DEF Steps
  <2> QED
    BY Zenon, <1>1, <1>2, <1>3, <1>4, <2>1, <2>2 DEF TypeOK
<1>6. ASSUME NEW i \in Slots PROVE SlotOK(i)
  <2>1. procState[i].active = FALSE /\ pc[i] = "idle" /\ i \notin readers
    BY Zenon, <1>1, <1>2
  <2> QED
    BY Zenon, <2>1 DEF SlotOK, Place, Numbered, Room, Told, Owing, Writing, Reading, Receiving
<1> QED
  BY Zenon, <1>1, <1>3, <1>5, <1>6 DEF QueueInv, Ends

(* A step of the server leaves the invariant alone *)
LEMMA NextInv == QueueInv /\ Next => QueueInv'
<1> SUFFICES ASSUME QueueInv, Next PROVE QueueInv'
  OBVIOUS
<1>1. ASSUME NEW so \in SendOnlyChoices, SharedInvalReserveBackendInit(so) PROVE QueueInv'
  BY Zenon, <1>1, ReserveInv
<1>2. ASSUME NEW b \in Slots,
             \/ SharedInvalWorkSessionInit(b)
             \/ CleanupInvalidationState(b) \/ CleanupWorkSessionInvalidation(b)
      PROVE  QueueInv'
  BY Zenon, <1>2, WorkSessionInv, LeaveInv
<1>3. ASSUME NEW b \in Slots, Sender(b) PROVE QueueInv'
  <2>1. ASSUME NEW batch \in Batches, SIInsertDataEntries(b, batch) PROVE QueueInv'
    BY Zenon, <2>1, LockAndTestInv DEF SIInsertDataEntries, Idle
  <2>2. CASE InsertMore(b)
    <3>1. Place(b)
      BY Zenon, KnownOf
    <3> QED
      BY Zenon, <2>2, <3>1, LockAndTestInv DEF InsertMore, Place
  <2>3. CASE CleanupForSpace(b) \/ SendCatchup(b)
    BY Zenon, <2>3, CleanupStepsInv, SendCatchupInv
  <2>4. CASE InsertMessages(b) \/ PublishMaxMsgNum(b) \/ SetHasMessages(b)
    BY Zenon, <2>4, InsertMessagesInv, PublishInv, SetHasMessagesInv
  <2> QED
    BY Zenon, <1>3, <2>1, <2>2, <2>3, <2>4 DEF Sender
<1>4. ASSUME NEW b \in Slots, Receiver(b) PROVE QueueInv'
  BY Zenon, <1>4, BeginReceiveInv, AcquireReadLockInv, FetchMaxMsgNumInv, CopyMessagesInv, CaughtUpInv,
     CleanupStepsInv DEF Receiver
<1> QED
  BY Zenon, <1>1, <1>2, <1>3, <1>4 DEF Next

(* and so does a step of something else *)
LEMMA StutterInv == QueueInv /\ UNCHANGED vars => QueueInv'
<1> SUFFICES ASSUME QueueInv, UNCHANGED vars PROVE QueueInv'
  OBVIOUS
<1>1. UNCHANGED <<buffer, minMsgNum, maxMsgNum, nextThreshold, lastBackend, lastreserveBackend, procState,
                  writeLock, readers, pc, todo, max, target, catchup, due>>
  BY Zenon DEF vars, ring, slotCounts, local
<1>2. Ends'
  BY Zenon, <1>1 DEF QueueInv, Ends, TypeOK
<1>3. Announced' = Announced
  BY Zenon, <1>1 DEF Announced, nthistime
<1>4. ASSUME NEW i \in Slots PROVE SlotOK(i)'
  <2>1. SlotOK(i)
    BY Zenon DEF QueueInv
  <2>2. Place(i)' /\ Numbered(i)' /\ Room(i)'
    BY Zenon, <1>1, <2>1 DEF SlotOK, Place, Numbered, Room, Written, nthistime
  <2>3. Told(i)'
    BY Zenon, <1>1, <1>3, <2>1 DEF SlotOK, Told
  <2>4. Owing(i)'
    BY Zenon, <1>1, <1>3, <2>1 DEF SlotOK, Owing
  <2> QED
    BY Zenon, <2>2, <2>3, <2>4 DEF SlotOK
<1> QED
  BY Zenon, <1>2, <1>4 DEF QueueInv

(* QueueInv always holds, for any number of backends, any ring whose size divides      *)
(* MSGNUMWRAPAROUND, and any tuning of the constants of sinvaladt.cpp.                  *)
THEOREM QueueInvariant == Spec => []QueueInv
<1>1. QueueInv /\ [Next]_vars => QueueInv'
  BY Zenon, NextInv, StutterInv
<1> QED
  BY InitInv, <1>1, PTL DEF Spec

(* The header comment of sinvaladt.cpp: maxMsgNum >= nextMsgNum >= minMsgNum for every  *)
(* backend that counts, at most MAXNUMMESSAGES between the two ends, and no number ever *)
(* beyond MSGNUMWRAPAROUND + MAXNUMMESSAGES, however often the server renumbers.        *)
THEOREM NumbersStayInOrder == Spec => []PositionsInOrder
<1>1. QueueInv => PositionsInOrder
  BY Zenon DEF QueueInv, Ends, SlotOK, Numbered, PositionsInOrder
<1> QED
  BY QueueInvariant, <1>1, PTL

(* A backend that skips SIGetDataEntries because hasMessages is clear misses nothing    *)
(* that its sender has announced, and is not due a reset.                               *)
THEOREM NothingIsMissed == Spec => []NothingMissed
<1>1. QueueInv => NothingMissed
  BY Zenon DEF QueueInv, SlotOK, Told, Reading, NothingMissed
<1> QED
  BY QueueInvariant, <1>1, PTL

(* ReceiveSharedInvalidMessages processes every message that was queued before it was   *)
(* entered, or resets the caches in its place.                                          *)
THEOREM AllAreReceived == Spec => []ReceivesAll
<1>1. QueueInv => ReceivesAll
  BY Zenon DEF QueueInv, SlotOK, Owing, ReceivesAll
<1> QED
  BY QueueInvariant, <1>1, PTL

(* A backend whose signaled flag is set, and which SICleanupQueue therefore signals no  *)
(* more, has messages to read, or is reading them, and will clear the flag: the lost    *)
(* signal costs it nothing.                                                             *)
THEOREM SignaledIsNotStuck == Spec => []SignalNotStuck
<1>1. QueueInv => SignalNotStuck
  BY Zenon DEF QueueInv, SlotOK, Told, Reading, SignalNotStuck
<1> QED
  BY QueueInvariant, <1>1, PTL

(* Only SICleanupQueue ends a cleanup *)
LEMMA EndOfCleanup ==
    ASSUME QueueInv, Next, NEW b \in Slots, pc[b] = "cleanup", pc'[b] # "cleanup"
    PROVE  CleanupForSpace(b)
<1>1. DOMAIN pc = Slots /\ pc' # pc
  BY Zenon DEF QueueInv, Ends, TypeOK
<1>2. ASSUME NEW c \in Slots, NEW where, pc' = [pc EXCEPT ![c] = where] PROVE c = b
  BY Zenon, <1>1, <1>2
<1>3. PICK c \in Slots : Sender(c) \/ Receiver(c)
  BY Zenon, <1>1 DEF Next, SharedInvalReserveBackendInit, SharedInvalWorkSessionInit, CleanupInvalidationState,
     CleanupWorkSessionInvalidation, Vacate
<1>4. c = b
  <2>1. CASE \E batch \in Batches : SIInsertDataEntries(c, batch)
    BY Zenon, <1>2, <2>1 DEF SIInsertDataEntries, LockAndTest, Goto
  <2>2. CASE InsertMore(c) \/ SendCatchup(c) \/ InsertMessages(c) \/ PublishMaxMsgNum(c) \/ SetHasMessages(c)
    BY Zenon, <1>2, <2>2 DEF InsertMore, LockAndTest, SendCatchup, InsertMessages, PublishMaxMsgNum,
       SetHasMessages, Goto
  <2>3. CASE CleanupForSpace(c) \/ PassOnCatchup(c)
    BY Zenon, <1>2, <2>3 DEF CleanupForSpace, PassOnCatchup, Goto
  <2>4. CASE ReceiveSharedInvalidMessages(c) \/ GetMore(c) \/ AcquireReadLock(c)
    BY Zenon, <1>2, <2>4 DEF ReceiveSharedInvalidMessages, GetMore, AcquireReadLock, QuickTest, Goto
  <2>5. CASE FetchMaxMsgNum(c) \/ CopyMessages(c) \/ CaughtUp(c)
    BY Zenon, <1>2, <2>5 DEF FetchMaxMsgNum, ForceReset, CopyMessages, CaughtUp, Goto
  <2> QED
    BY Zenon, <1>3, <2>1, <2>2, <2>3, <2>4, <2>5 DEF Sender, Receiver
<1> QED
  BY Zenon, <1>3, <1>4 DEF Sender, Receiver, SIInsertDataEntries, Idle, InsertMore, SendCatchup, InsertMessages,
     PublishMaxMsgNum, SetHasMessages, ReceiveSharedInvalidMessages, GetMore, AcquireReadLock, FetchMaxMsgNum,
     CopyMessages, CaughtUp, PassOnCatchup

(* SICleanupQueue(true, n) makes room for n messages, and sets a threshold the fill level *)
(* is below: SIInsertDataEntries tests in vain again only if it released the lock.        *)
THEOREM CleanupIsEnough == Spec => CleanupMakesRoom
<1>1. ASSUME QueueInv, [Next]_vars
      PROVE  [\A b \in Slots : pc[b] = "cleanup" /\ pc'[b] # "cleanup" =>
                /\ numMsgs' + nthistime(b) <= MAXNUMMESSAGES
                /\ numMsgs' < nextThreshold']_vars
  <2> SUFFICES ASSUME Next, NEW b \in Slots, pc[b] = "cleanup", pc'[b] # "cleanup"
               PROVE  numMsgs' + nthistime(b) <= MAXNUMMESSAGES /\ numMsgs' < nextThreshold'
    BY Zenon, <1>1
  <2>1. SICleanupQueue(b, nthistime(b))
    BY Zenon, <1>1, EndOfCleanup DEF CleanupForSpace
  <2>2. /\ nthistime(b) \in Nat /\ nthistime(b) <= MAXNUMMESSAGES /\ writeLock = b /\ pc[b] # "kick"
    <3>1. TypeOK /\ Place(b)
      BY Zenon, <1>1, KnownOf
    <3> QED
      BY Zenon, <3>1, GroupSize DEF Place, Writing
  <2> DEFINE n == nthistime(b)
             num == maxMsgNum' - minMsgNum'
  <2>3. num \in 0..MAXNUMMESSAGES - n /\ num < nextThreshold'
    BY Zenon, <1>1, <2>1, <2>2, CleanupEffect
  <2>4. num = numMsgs' /\ n \in Nat
    BY Zenon, <2>2 DEF numMsgs
  <2> HIDE DEF n, num
  <2>5. \A k \in Nat : \A x \in 0..MAXNUMMESSAGES - k : x + k <= MAXNUMMESSAGES
    BY RingFacts
  <2> QED
    BY Zenon, <2>3, <2>4, <2>5 DEF n
<1> QED
  BY QueueInvariant, <1>1, PTL DEF Spec, CleanupMakesRoom

=============================================================================
