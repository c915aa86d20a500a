----------------------------- MODULE MCRunQueue -----------------------------
(***************************************************************************)
(* Small instances of RunQueue.  Project 1 has the runs one and two with a *)
(* task each, project 2 the run three with two tasks; either project may   *)
(* have a single run at a time.  Every drain has a worker of its own.      *)
(***************************************************************************)
EXTENDS RunQueue, TLC

CONSTANTS a1, b1, c1, c2, one, two, three, w1, w2, d1, d2

MCRunOf == [t \in Tasks |-> CASE t = a1 -> one [] t = b1 -> two [] OTHER -> three]
MCProjectOf == [r \in Runs |-> IF r = three THEN 2 ELSE 1]
MCMaxRuns == [p \in Projects |-> 1]
MCWorkerOf == [d \in Drains |-> IF d = d1 THEN w1 ELSE w2]

Swapped(x, y, S) == [s \in S |-> IF s = x THEN y ELSE IF s = y THEN x ELSE s]
Symmetry == {Swapped(d1, d2, Drains) @@ Swapped(w1, w2, Workers), Swapped(c1, c2, Tasks),
             Swapped(a1, b1, Tasks) @@ Swapped(one, two, Runs)}
=============================================================================
