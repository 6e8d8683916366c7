--------------------------- MODULE MCDoubleWrite ---------------------------
(***************************************************************************)
(* DoubleWrite with two pages, two sub-threads and a file that is full     *)
(* after two or three batches.                                             *)
(***************************************************************************)
EXTENDS DoubleWrite, TLC

CONSTANTS p1, p2, w1, w2

OwnerOf == p1 :> w1 @@ p2 :> w2

Setting(size, n1, n2, busies, failures, crashesMax, trunc) ==
    [filePages |-> size, lsns |-> p1 :> n1 @@ p2 :> n2, busy |-> busies, errors |-> failures,
     crashes |-> crashesMax, truncates |-> trunc]

(* Two sub-threads flush both pages, one of them twice; the file is recycled *)
Recycling == Setting(7, 2, 1, 0, 0, 1, FALSE)

(* A content lock is found taken, and the repair itself may crash.  The file has room for *)
(* a startup to cut off what it repaired.                                                *)
Crashing == Setting(9, 1, 1, 1, 0, 2, FALSE)

(* A sub-thread runs into an error *)
Failing == Setting(7, 1, 1, 0, 1, 1, FALSE)

(* The checkpointer truncates the file meanwhile *)
Truncating == Setting(7, 2, 0, 0, 0, 1, TRUE)

AllSettings == {Recycling, Crashing, Failing, Truncating}
TruncateOnly == {Truncating}

=============================================================================
