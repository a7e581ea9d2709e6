---------------------------- MODULE ExecutorInv ----------------------------
(***************************************************************************)
(* The inductive invariant behind the safety properties of Executor.  Its   *)
(* parts say what one worker's log, index and transaction can be at each    *)
(* point of my_execute and execute, and how the rows, the logs and the      *)
(* mini-batch numbers of all workers fit together.                          *)
(***************************************************************************)
EXTENDS Executor

Busy == {"lock", "mutex", "wait", "access", "clear", "puts"}

\* A worker only ever runs and queues its own transactions.
OwnTxns(w) ==
  /\ q[w] \in [Queues -> Seq(my_txns[w])]
  /\ leftover[w] \in Seq(my_txns[w])
  /\ pc[w] \in Busy => txn[w] \in my_txns[w]
  /\ pc[w] \in Busy /\ phase[w] # "left" => do_accel[txn[w]]
  /\ pc[w] \in Busy /\ phase[w] = "left" => leftover[w] # <<>>

\* Where the loop index of a busy worker can be.
IndexInv(w) ==
  /\ pc[w] \in {"mutex", "wait"} => i[w] <= Len(Ops(w))
  /\ pc[w] = "mutex" => IsLocal(w, i[w])
  /\ pc[w] = "wait" => ~IsLocal(w, i[w])

\* What the future of operation j can be when its worker is at p, its loop index is n
\* and its transaction has len operations.
Entry(p, n, j, st, len) ==
  /\ p \notin Busy => st = "none"
  /\ p \in Busy /\ j > len => st = "none"
  /\ p \in {"lock", "mutex", "wait"} /\ j < n => st = "held"
  /\ p \in {"lock", "mutex"} /\ j >= n => st = "none"
  /\ p = "wait" /\ j > n => st = "none"
  /\ p = "wait" /\ j = n => st \in {"getreq", "getres", "getnak"}
  /\ p = "access" /\ j <= len => st = "held"
  /\ p = "clear" /\ j >= n => st \in {"held", "failed", "none"}
  /\ p = "clear" /\ j < n => st \in {"clear", "putreq", "putres", "failed", "none"}
  /\ p = "puts" => st \in {"clear", "putreq", "putres", "failed", "none"}

\* Messages are about rows of other nodes.
Remote == {"getreq", "getres", "getnak", "putreq", "putres"}

LogEntry(w, j) ==
  /\ Entry(pc[w], i[w], j, op[w][j].st, Len(Ops(w)))
  /\ op[w][j].st \in Remote => ~IsLocal(w, j)

LogInv(w) == \A j \in 1 .. N_OPS : LogEntry(w, j)

\* The flow-order test still holds for whoever holds a lock, and the entries
\* that my_execute has accessed carry its id.
HolderInv(w) ==
  \A j \in 1 .. N_OPS :
    phase[w] # "left" =>
      /\ Holds(w, j) => \/ op[w][j].last_acq.mini_batch_id # mb[w]
                        \/ op[w][j].last_acq.node_id = node_id[w]
      /\ pc[w] = "access" /\ j < i[w] => op[w][j].last_acq = Id(w)

\* Everything about one worker.
WorkerInv(w) == OwnTxns(w) /\ IndexInv(w) /\ LogInv(w) /\ HolderInv(w)

\* Nobody is past a wait_workers that somebody has not entered.
BarrierInv == \A v, w \in Workers : pc[v] # "bar" => mb[w] >= mb[v]

\* No release, done or to come, is from a mini-batch that is not open.
AcqInv ==
  \A w \in Workers :
    /\ mb[w] > 0
    /\ \A k \in Keys : row[k].last_acq.mini_batch_id <= mb[w]
    /\ \A v \in Workers, j \in 1 .. N_OPS :
         Holds(v, j) => op[v][j].last_acq.mini_batch_id <= mb[w]

\* The id comes no earlier than a writer of mini-batch m on node n.
After(id, n, m) ==
  id.mini_batch_id > m \/ (id.mini_batch_id = m /\ id.node_id = n)

\* Every row that a slot wrote was last released, or will be, by the slot's
\* transaction or after it.
SlotInv ==
  \A n \in Nodes : \A e \in Slots(n) : \A k \in WrittenKeys(e.txn) :
    /\ row[k].lock_type # "WRITE" => After(row[k].last_acq, n, e.mini_batch_num)
    /\ \A h \in Holders(k) : After(op[h[1]][h[2]].last_acq, n, e.mini_batch_num)

IInv ==
  /\ TypeOK
  /\ \A w \in Workers : WorkerInv(w)
  /\ LockInv /\ PutsCounted
  /\ BarrierInv /\ AcqInv /\ SlotInv /\ WritesDisjoint
=============================================================================
