----------------------------- MODULE MCOnePass -----------------------------
(* Two registers of eight records in blocks of two: transactions of blocks 2  *)
(* and 3, which share a base offset, on the same registers and records.      *)
EXTENDS OnePass

W(x, v) == [idx |-> x, mode |-> "WRITE", value |-> v]
R(x) == [idx |-> x, mode |-> "READ", value |-> 0]

MCTxns == 1 .. 4
MCValues == 0 .. 3
MCbuffer == [t \in MCTxns |-> [r \in {0, 1} |-> 3]]
MCinitial == [r \in {0, 1} |-> 2 * r]
MCblock == [t \in MCTxns |-> IF t = 4 THEN 3 ELSE 2]
MCops ==
  [t \in MCTxns |->
     CASE t = 1 -> [r \in {0, 1} |-> W(4, 1)]
       [] t = 2 -> [r \in {0, 1} |-> IF r = 0 THEN W(4, 2) ELSE R(4)]
       [] t = 3 -> [r \in {0, 1} |-> IF r = 0 THEN R(5) ELSE W(4, 3)]
       [] t = 4 -> [r \in {0} |-> W(7, 1)]]
=============================================================================
