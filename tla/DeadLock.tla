------------------------------ MODULE DeadLock ------------------------------
(***************************************************************************)
(* DeadLockCheck (deadlock.cpp): the search for a cycle in the waits-for   *)
(* graph through one backend, and for a new order of the wait queues that  *)
(* breaks it.                                                              *)
(*                                                                         *)
(* A wait queue is the order of its members: <<x, y>> is in it when x is y *)
(* or stands before y.  hold[r][p] are the modes p holds on relation r,    *)
(* req[p] is the request p waits with.                                     *)
(***************************************************************************)
EXTENDS Naturals, FiniteSets, Sequences

CONSTANTS Procs, Rels

AccessShareLock == 1
ShareUpdateExclusiveLock == 4
AccessExclusiveLock == 8

(* The conflict table: the modes a mode conflicts with *)
LockConflicts ==
    << {8}, {7, 8}, 5 .. 8, 4 .. 8, {3, 4, 6, 7, 8}, 3 .. 8, 2 .. 8, 1 .. 8 >>

Members(q) == {p \in Procs : <<p, p>> \in q}
Ahead(q, p) == {x \in Members(q) \ {p} : <<x, p>> \in q}

-----------------------------------------------------------------------------
(* The waits-for graph *)

HardBlocks(x, p, hold, req) ==
    x # p /\ hold[req[p].rel][x] \cap LockConflicts[req[p].mode] # {}

SoftBlocks(x, p, queue, req) ==
    x \in Ahead(queue[req[p].rel], p) /\ req[x].mode \in LockConflicts[req[p].mode]

WaitsFor(p, x, hold, queue, req) ==
    /\ req[p].rel \in Rels /\ p \in Members(queue[req[p].rel])
    /\ HardBlocks(x, p, hold, req) \/ SoftBlocks(x, p, queue, req)

(* The cycles through v, as the sequences of backends in the order of the search *)
Cycles(v, hold, queue, req) ==
    {c \in UNION {[1 .. n -> Procs] : n \in 1 .. Cardinality(Procs)} :
        /\ c[1] = v
        /\ \A i, j \in DOMAIN c : c[i] = c[j] => i = j
        /\ \A i \in DOMAIN c :
              WaitsFor(c[i], IF i = Len(c) THEN v ELSE c[i + 1], hold, queue, req)}

(* The order in which the search tries what blocks p: the holders in the order of *)
(* the lock's procLocks list, which listed[r] numbers, then the waiters before p. *)
Turn(p, x, hold, queue, req, listed) ==
    IF HardBlocks(x, p, hold, req)
    THEN listed[req[p].rel][x]
    ELSE Cardinality(Procs) + Cardinality(Ahead(queue[req[p].rel], x)) + 1

(* The depth-first search meets c before d: where they part, c's blocker is tried first *)
MetBefore(c, d, hold, queue, req, listed) ==
    \E i \in DOMAIN c \cap DOMAIN d :
        LET next(e) == IF i = Len(e) THEN e[1] ELSE e[i + 1]
        IN /\ \A j \in 1 .. i : c[j] = d[j]
           /\ Turn(c[i], next(c), hold, queue, req, listed)
                < Turn(c[i], next(d), hold, queue, req, listed)

(* The first cycle the search meets: its soft edges, the deepest first *)
FindLockCycle(v, hold, queue, req, listed) ==
    LET all == Cycles(v, hold, queue, req)
        c == CHOOSE c \in all : \A d \in all \ {c} : MetBefore(c, d, hold, queue, req, listed)
        edge(i) == [waiter |-> c[i], blocker |-> IF i = Len(c) THEN v ELSE c[i + 1],
                    rel |-> req[c[i]].rel]
        soft(e) == ~HardBlocks(e.blocker, e.waiter, hold, req)
    IN IF all = {}
       THEN [found |-> FALSE, soft |-> <<>>]
       ELSE [found |-> TRUE,
             soft |-> SelectSeq([i \in DOMAIN c |-> edge(Len(c) + 1 - i)], soft)]

-----------------------------------------------------------------------------
(* Rearranging the queues: a constraint is a soft edge to be reversed *)

(* From the back of the new order: the last backend of the old one that need not *)
(* stand before a backend still to be placed.  A contradiction leaves some out.  *)
TopoSort(q, constraints) ==
    LET placed[rest \in SUBSET Members(q)] ==
          LET free == {p \in rest : \A c \in constraints :
                          c.waiter = p => c.blocker \notin rest}
              last == CHOOSE p \in free : \A x \in free : <<x, p>> \in q
          IN IF free = {} THEN {} ELSE placed[rest \ {last}] \cup {<<x, last>> : x \in rest}
    IN placed[Members(q)]

ExpandConstraints(cs, queue) ==
    [r \in Rels |-> LET mine == {cs[i] : i \in {j \in DOMAIN cs : cs[j].rel = r}}
                    IN IF mine = {} THEN queue[r] ELSE TopoSort(queue[r], mine)]

Contradictory(new, queue) == \E r \in Rels : Members(new[r]) # Members(queue[r])

(* The cycles through start and through the backends of the constraints, start last. *)
(* There is always room for the edges of one more cycle: DeadLockCheckRecurse keeps   *)
(* an edge list only while that leaves MaxBackends entries.                           *)
TestConfiguration(start, cs, hold, new, req, listed) ==
    LET find(v) == FindLockCycle(v, hold, new, req, listed)
        ends == [i \in 1 .. 2 * Len(cs) + 1 |->
                   IF i > 2 * Len(cs) THEN start
                   ELSE IF i % 2 = 1 THEN cs[(i + 1) \div 2].waiter ELSE cs[i \div 2].blocker]
        found == {i \in DOMAIN ends : find(ends[i]).found}
    IN [hard |-> \E i \in found : find(ends[i]).soft = <<>>,
        soft |-> IF found = {} THEN <<>>
                 ELSE find(ends[CHOOSE i \in found : \A j \in found : j <= i]).soft]

NoSolution == << >>

(* Mutant: the queues are never rearranged *)
EveryCycleIsHard(start, hold, queue, req, listed) == NoSolution

(* Mutant: a cycle with a soft edge is left alone *)
SoftCyclesIgnored(start, hold, queue, req, listed) ==
    IF FindLockCycle(start, hold, queue, req, listed).soft = <<>> THEN NoSolution ELSE queue

(* The queues in an order without a cycle, or NoSolution: also when as many constraints *)
(* are in force as there are backends, which is all there is room for (MaxBackends).    *)
DeadLockCheckRecurse(start, hold, queue, req, listed) ==
    LET edges == [waiter : Procs, blocker : Procs, rel : Rels]
        solve[cs \in Seq(edges)] ==
          LET new == ExpandConstraints(cs, queue)
              test == TestConfiguration(start, cs, hold, new, req, listed)
              solved == {i \in DOMAIN test.soft : solve[Append(cs, test.soft[i])] # NoSolution}
          IN IF Contradictory(new, queue) \/ test.hard THEN NoSolution
             ELSE IF test.soft = <<>> THEN new
             ELSE IF Len(cs) >= Cardinality(Procs) \/ solved = {} THEN NoSolution
             ELSE solve[Append(cs, test.soft[CHOOSE i \in solved : \A j \in solved : i <= j])]
    IN solve[<<>>]

=============================================================================
