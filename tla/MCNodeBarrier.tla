--------------------------- MODULE MCNodeBarrier ---------------------------
(* Instances of NodeBarrier: a node with two workers and one with one.      *)
EXTENDS NodeBarrier

CONSTANTS n0, n1, a, b, c

MCNodes == {n0, n1}
MCThreads == {a, b, c}
MCnode_id == [t \in MCThreads |-> IF t = c THEN n1 ELSE n0]
MCsingle == [n \in MCNodes |-> TRUE]
MCLeader == [n \in MCNodes |-> IF n = n0 THEN a ELSE c]

\* main's wait_nodes, two batches of txn_executor with two mini-batch barriers
\* and two windows of the hot period, main's last wait_nodes.
MCcalls ==
  [t \in MCThreads |->
     IF t = MCLeader[MCnode_id[t]]
     THEN <<"nodes", "workers", "workers", "nodes", "nodes", "batch",
            "workers", "workers", "nodes", "nodes", "batch", "nodes">>
     ELSE <<"workers", "workers", "batch", "workers", "workers", "batch">>]

\* One batch with one mini-batch barrier.
MCOneBatch ==
  [t \in MCThreads |->
     IF t = MCLeader[MCnode_id[t]] THEN <<"workers", "nodes", "batch">> ELSE <<"workers", "batch">>]
=============================================================================
