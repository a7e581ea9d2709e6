----------------------------- MODULE SchedTable -----------------------------
(***************************************************************************)
(* The table that the constructor of scheduler_t builds (ee/sched.cpp),     *)
(* the same on every node: for the node that has a key and one of           *)
(* n_schedules shifts, which node may use the key in which slot.  Every     *)
(* node has a slice, and the rest belongs to the node that has the key, as  *)
(* much as makes REMOTE_FRAC per cent of the accesses remote.               *)
(***************************************************************************)
EXTENDS Naturals

CONSTANTS num_nodes, REMOTE_FRAC

Nodes == 0 .. num_nodes - 1

\* The unsigned subtraction does not wrap, which one node alone would make it do.
ASSUME SchedTableAssumption ==
  /\ num_nodes \in Nat \ {0} /\ REMOTE_FRAC \in 1 .. 100
  /\ num_nodes * (100 - REMOTE_FRAC) >= 100

n_extra_local == (num_nodes * (100 - REMOTE_FRAC) - 100) \div REMOTE_FRAC
n_schedules == n_extra_local + 1
schedule_len == n_extra_local + num_nodes
n_queues == schedule_len

Slots == 0 .. schedule_len - 1

\* Schedule s of the keys of a node.
schedules(node, s) == [i \in Slots |-> IF i >= s /\ i < s + num_nodes THEN i - s ELSE node]
=============================================================================
