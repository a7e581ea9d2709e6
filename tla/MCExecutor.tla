----------------------------- MODULE MCExecutor -----------------------------
(* Small instances of Executor: two nodes, transactions over two or three   *)
(* keys; each configuration chooses the workers and the transactions.       *)
EXTENDS Executor, TLC

CONSTANTS n0, n1, a, a2, b, x, y, z, t1, t2, t3, t4, t5

R(k) == [key |-> k, mode |-> "READ"]
W(k) == [key |-> k, mode |-> "WRITE"]

MCNodes == {n0, n1}
MCnode_id == [w \in Workers |-> IF w = b THEN n1 ELSE n0]
MCLeader == n0 :> a @@ n1 :> b
MCtarget == [k \in Keys |-> IF k = y THEN n1 ELSE n0]
MCmy_txns ==
  [w \in Workers |-> UNION {UNION {Range(Sched[w][m][n]) : n \in Queues} : m \in DOMAIN Sched[w]}]
Empty == [m \in 0 .. N_QUEUES - 1 |-> <<>>]

\* Without and with a hot key, all transactions accelerated or all but one.
NoHot == [t \in Txns |-> <<>>]
OneHot == [t \in Txns |-> IF t = t2 THEN <<W(z)>> ELSE <<>>]
AllAccel == [t \in Txns |-> TRUE]
SomeAccel == [t \in Txns |-> t # t5]

\* Readers and writers of the same keys, of which two on one node write both; all
\* lock x before y.
MixedOps == t1 :> <<W(x), W(y)>> @@ t2 :> <<R(x), W(y)>> @@ t3 :> <<R(x), W(y)>>
            @@ t4 :> <<W(x), W(y)>> @@ t5 :> <<R(x), W(y)>>

\* Two readers, and a writer behind one of them.
ReadOps == t1 :> <<R(x)>> @@ t2 :> <<R(x)>> @@ t3 :> <<W(x)>> @@ t4 :> <<>>

\* One batch, two transactions on each node, on one queue.
TwoEach == a :> <<(0 :> <<t1, t3>>)>> @@ b :> <<(0 :> <<t2, t4>>)>>

\* Two batches, two queues, two workers on the first node.
TwoBatches == a :> <<(0 :> <<t1>> @@ 1 :> <<>>), (0 :> <<>> @@ 1 :> <<t3>>)>>
              @@ a2 :> <<(0 :> <<t4>> @@ 1 :> <<>>), Empty>>
              @@ b :> <<(0 :> <<t2>> @@ 1 :> <<t5>>), Empty>>
=============================================================================
