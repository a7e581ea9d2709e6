----------------------------- MODULE MCRBarrier -----------------------------
(* A node whose barrier has the last of three threads run its middle         *)
(* function, and one whose two threads run it both.                          *)
EXTENDS RBarrier

CONSTANTS n0, n1, w1, w2, w3, x1, x2

MCNodes == {n0, n1}
MCThreads == {w1, w2, w3, x1, x2}
MCnode_id == [t \in MCThreads |-> IF t \in {x1, x2} THEN n1 ELSE n0]
MCsingle == [n \in MCNodes |-> n = n0]
=============================================================================
