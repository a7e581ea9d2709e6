------------------------------ MODULE Schedule ------------------------------
(***************************************************************************)
(* How transactions come to the mini-batches of a worker.  main deals the   *)
(* trace out to the workers by their remote operations and evens the shares *)
(* out (main/main.cpp); sched_batch (ee/sched.cpp) calls extract_hot_cold   *)
(* of HotCold on every transaction of a batch and puts it in the queue of a *)
(* slot in which the schedules give its hottest cold keys to this node.     *)
(* The table of schedules is that of SchedTable, the same on every node.    *)
(***************************************************************************)
EXTENDS HotCold, SchedTable

CONSTANTS
  partition_size,            \* of the table: the keys of a node
  num_txn_workers, num_txns,
  RemoteCounts,              \* the remote operations of a transaction, for dealing it out
  batch_tgt,                 \* the transactions of a batch of a worker
  LaterTraces                \* the traces of the transactions after the first of a batch

Workers == 0 .. num_txn_workers - 1

ASSUME ScheduleAssumption ==
  /\ partition_size \in Nat \ {0} /\ num_txn_workers \in Nat \ {0}
  /\ num_txns \in Nat /\ batch_tgt \in Nat \ {0}
  /\ RemoteCounts \subseteq 0 .. N_OPS /\ LaterTraces \subseteq [1 .. N_OPS -> AllKeys]
  /\ \A k \in AllKeys : k \div partition_size \in Nodes

VARIABLES
  stage,                     \* where main is: "deal", "even", "sched"
  dealt,                     \* trace_txns dealt out so far
  n_remote, per_core_txns, redist,
  t, w,                      \* the counters of the loops that even the shares out
  node_id,
  pos,                       \* transactions of the batch that are in a queue
  mb_queues, zero_spray_idx

dealVars == <<stage, dealt, n_remote, per_core_txns, redist, t, w>>
schedVars == <<node_id, pos, mb_queues, zero_spray_idx>>
sVars == <<allVars, dealVars, schedVars>>

SInit ==
  /\ TInit
  /\ stage = "deal" /\ dealt = 0
  /\ n_remote = [v \in Workers |-> 0] /\ per_core_txns = [v \in Workers |-> <<>>]
  /\ redist = <<>> /\ t = 0 /\ w = 0
  /\ node_id = 0 /\ pos = 0
  /\ mb_queues = [s \in Slots |-> <<>>] /\ zero_spray_idx = 0

-----------------------------------------------------------------------------
\* One round of the loop over trace_txns: the transaction, with any number of remote
\* operations, goes to the first worker that has the fewest so far.
Deal ==
  /\ block_num # NO_BLOCK
  /\ stage = "deal" /\ dealt < num_txns
  /\ \E n_rem \in RemoteCounts, arg_min \in Workers :
       /\ Lightest(arg_min, n_remote)
       /\ n_remote' = [n_remote EXCEPT ![arg_min] = @ + n_rem]
       /\ per_core_txns' = [per_core_txns EXCEPT ![arg_min] = Append(@, dealt)]
  /\ dealt' = dealt + 1
  /\ UNCHANGED <<allVars, schedVars, stage, redist, t, w>>

DealtOut ==
  /\ stage = "deal" /\ dealt = num_txns
  /\ stage' = "even"
  /\ UNCHANGED <<allVars, schedVars, dealt, n_remote, per_core_txns, redist, t, w>>

Share == num_txns \div num_txn_workers

\* Mutant: one round over the workers.
MutRounds == 1

\* The rounds of the outer loop.
Rounds == 2

\* What a worker has too much goes to redist from its end, and back from the end of
\* redist to a worker that has too little: both while loops for worker w.
Even ==
  /\ stage = "even" /\ t < Rounds
  /\ LET mine == per_core_txns[w]
         more == redist \o [n \in 1 .. Len(mine) - Share |-> mine[Len(mine) + 1 - n]]
         gets == IF Len(redist) < Share - Len(mine) THEN Len(redist) ELSE Share - Len(mine)
     IN  \/ /\ Len(mine) >= Share
            /\ redist' = more
            /\ per_core_txns' = [per_core_txns EXCEPT ![w] = SubSeq(mine, 1, Share)]
         \/ /\ Len(mine) < Share
            /\ redist' = SubSeq(redist, 1, Len(redist) - gets)
            /\ per_core_txns' = [per_core_txns EXCEPT
                 ![w] = mine \o [n \in 1 .. gets |-> redist[Len(redist) + 1 - n]]]
  /\ w' = (w + 1) % num_txn_workers
  /\ t' = IF w = num_txn_workers - 1 THEN t + 1 ELSE t
  /\ UNCHANGED <<allVars, schedVars, stage, dealt, n_remote>>

\* The workers start on their shares, and this one makes the scheduler of its node.
\* Which transactions it has no longer matters: those of its batch are any.
StartWorkers ==
  /\ stage = "even" /\ t = Rounds
  /\ stage' = "sched"
  /\ node_id' \in Nodes
  /\ dealt' = 0 /\ redist' = <<>> /\ t' = 0 /\ w' = 0
  /\ n_remote' = [v \in Workers |-> 0] /\ per_core_txns' = [v \in Workers |-> <<>>]
  /\ UNCHANGED <<allVars, pos, mb_queues, zero_spray_idx>>

-----------------------------------------------------------------------------
\* extract_hot_cold on the next transaction of the batch.
NextTxn ==
  /\ stage = "sched" /\ pos < batch_tgt
  /\ Load(IF pos = 0 THEN Traces ELSE LaterTraces)
  /\ UNCHANGED <<vars, dealVars, schedVars>>

ExtractTxn == (Extract \/ Finish) /\ UNCHANGED <<vars, dealVars, schedVars>>

\* hottest_cold_i1 and i2, which only an accelerated transaction has, as their keys.
Hottest1 == IF do_accel /\ cold1.v > 0 THEN cold_ops[cold1.i].id ELSE NO_KEY
Hottest2 == IF do_accel /\ cold2.v > 0 THEN cold_ops[cold2.i].id ELSE NO_KEY

\* The slots in which the schedule of a key has this node.
MySlots(k) == {s \in Slots : schedules(k \div partition_size, k % n_schedules)[s] = node_id}

\* The first of the shortest queues.
Shortest(S, s) ==
  s \in S /\ \A o \in S : \/ Len(mb_queues[s]) < Len(mb_queues[o])
                          \/ Len(mb_queues[s]) = Len(mb_queues[o]) /\ s <= o

\* Mutant: the slots of either key will do.
MutCandidates == MySlots(Hottest1) \cup (IF Hottest2 = NO_KEY THEN {} ELSE MySlots(Hottest2))

\* The slots of both keys or, if there are none, those of the hottest.
Candidates ==
  LET both == IF Hottest2 = NO_KEY THEN {} ELSE MySlots(Hottest1) \cap MySlots(Hottest2)
  IN  IF both # {} THEN both ELSE MySlots(Hottest1)

push(s) == mb_queues' = [mb_queues EXCEPT ![s] = Append(@, [txn |-> pos, key |-> Hottest1])]

\* The rest of the loop of sched_batch; the next transaction starts as it was loaded.
Enqueue ==
  /\ init_done
  /\ \/ /\ Hottest1 # NO_KEY
        /\ \E s \in Slots : Shortest(Candidates, s) /\ push(s)
        /\ UNCHANGED zero_spray_idx
     \/ /\ Hottest1 = NO_KEY
        /\ push(zero_spray_idx % n_queues)
        /\ zero_spray_idx' = zero_spray_idx + 1
  /\ pos' = pos + 1
  /\ NewTxn
  /\ UNCHANGED <<vars, dealVars, node_id>>

\* The batch is in the queues.
Scheduled == stage = "sched" /\ pos = batch_tgt /\ UNCHANGED sVars

SNext ==
  \/ Next /\ block_num = NO_BLOCK /\ UNCHANGED <<txnVars, dealVars, schedVars>>
  \/ Deal \/ DealtOut \/ Even \/ StartWorkers
  \/ NextTxn \/ ExtractTxn \/ Enqueue \/ Scheduled

SSpec == SInit /\ [][SNext]_sVars

-----------------------------------------------------------------------------
\* After the two rounds every worker has the same number of transactions, which the
\* barriers that the workers meet at in every mini-batch count on; only a remainder
\* is left, and no transaction is dealt out twice.
EvenShares ==
  stage = "even" /\ t = Rounds =>
    /\ \A v \in Workers : Len(per_core_txns[v]) = Share
    /\ Len(redist) = num_txns % num_txn_workers
    /\ Elems(redist) \cup UNION {Elems(per_core_txns[v]) : v \in Workers} = 0 .. num_txns - 1

\* Every transaction that was scheduled is in one queue, and where two nodes have
\* transactions with the same hottest cold key, they are in different slots: the slot
\* belongs to this node in the schedule of the key, which all nodes share.
SlotPerNode ==
  /\ \A n \in 0 .. pos - 1 :
       Cardinality({p \in UNION {{<<s, x>> : x \in DOMAIN mb_queues[s]} : s \in Slots} :
                      mb_queues[p[1]][p[2]].txn = n}) = 1
  /\ \A s \in Slots : \A e \in Elems(mb_queues[s]) : e.key # NO_KEY =>
       \A m \in Nodes \ {node_id} : schedules(e.key \div partition_size, e.key % n_schedules)[s] # m
=============================================================================
