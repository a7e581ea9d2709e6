------------------------------ MODULE Executor ------------------------------
(***************************************************************************)
(* The cold part of the engine: the worker threads of every node            *)
(* (ee/executor.cpp), the rows they lock, locally and through the message   *)
(* handler of the row's home node, the undo log that releases them, and the *)
(* mini-batches, drain and left-over phases that txn_executor runs.         *)
(*                                                                         *)
(* A worker runs one transaction at a time and waits for every answer, so   *)
(* a message is identified by the worker and the operation it belongs to:   *)
(* st says where the operation's lock request or release is, the messages   *)
(* in flight included.  Messages of different operations may be handled in  *)
(* any order, which contains the order of the TCP streams.                  *)
(*                                                                         *)
(* wait_workers, the leaders' wait_nodes and batch_bar are the barriers     *)
(* they promise to be; the modules on barriers model how they are built.    *)
(***************************************************************************)
EXTENDS Row, Sequences, FiniteSets, Functions

CONSTANTS
  Nodes, Node0,              \* node ids; Node0 is id 0
  Workers, node_id, Leader,  \* worker -> node, node -> its thread 0
  Keys, target,              \* key -> home node (partition.hpp)
  Txns, NoTxn,
  my_txns,                   \* worker -> its own transactions
  cold_ops, hot_ops,         \* txn -> operations, after extract_hot_cold
  accel0,                    \* txn -> do_accel, after extract_hot_cold
  N_QUEUES, Sched,           \* worker -> batches -> mb_queues (sched_batch)
  N_OPS,                     \* bound on the operations of a transaction
  N_MINI,                    \* BATCH_SIZE_TGT / MINI_BATCH_SIZE_TGT
  MINI_TGT,                  \* mini_batch_tgt, per worker
  MAX_TIMES_ACCEL_ABORT,
  DROP_DIV                   \* 100: one in DROP_DIV left-overs may be dropped

Values == Txns \cup {NoTxn}
Queues == 0 .. N_QUEUES - 1
Op == [key : Keys, mode : {"READ", "WRITE"}]

ASSUME ConstantsAssumption ==
  /\ Node0 \in Nodes /\ IsFiniteSet(Workers)
  /\ node_id \in [Workers -> Nodes]
  /\ Leader \in [Nodes -> Workers]
  /\ \A n \in Nodes : node_id[Leader[n]] = n
  /\ target \in [Keys -> Nodes]
  /\ NoTxn \notin Txns
  /\ my_txns \in [Workers -> SUBSET Txns]
  /\ \A v, w \in Workers : v # w => my_txns[v] \cap my_txns[w] = {}
  /\ cold_ops \in [Txns -> Seq(Op)]
  /\ hot_ops \in [Txns -> Seq(Op)]
  /\ \A t \in Txns : Len(cold_ops[t]) + Len(hot_ops[t]) <= N_OPS
  /\ accel0 \in [Txns -> BOOLEAN]
  /\ N_OPS \in Nat /\ N_MINI \in Nat \ {0} /\ MINI_TGT \in Nat
  /\ N_QUEUES \in Nat \ {0} /\ MAX_TIMES_ACCEL_ABORT \in Nat
  /\ DROP_DIV \in Nat \ {0}
  /\ \A w \in Workers :
       Sched[w] \in Seq([Queues -> Seq(my_txns[w])]) \ {<<>>}

\* sched_batch puts every transaction of a batch in one queue, once.
ASSUME SchedAssumption ==
  \A w \in Workers : \A b \in DOMAIN Sched[w] : \A n, m \in Queues :
    \A p \in DOMAIN Sched[w][b][n], r \in DOMAIN Sched[w][b][m] :
      Sched[w][b][n][p] = Sched[w][b][m][r] => n = m /\ p = r

VARIABLES
  row,        \* key -> row of its home node
  pc, phase,  \* worker -> program counter, loop of txn_executor
  batch, mb,  \* worker -> batch and mini_batch_num
  txn_num,    \* worker -> transactions run in this mini-batch
  q,          \* worker -> mb_queues
  leftover,   \* worker -> leftover_txns
  n_orig,     \* worker -> size of leftover_txns when its loop started
  txn,        \* worker -> transaction being executed
  i,          \* worker -> operation the current loop is at (1..N+1)
  op,         \* worker -> futures and log entries of the operations
  rc,         \* worker -> COMMIT or ROLLBACK
  puts,       \* worker -> putresponses counter
  do_accel, n_aborts,  \* fields of the transactions
  hot_send_q  \* node -> slots filled in this batch

lockVars == <<row, op, puts>>
loopVars == <<phase, batch, mb, txn_num, q, leftover, n_orig>>
txnVars  == <<txn, rc, do_accel, n_aborts>>
vars == <<row, op, puts, phase, batch, mb, txn_num, q, leftover, n_orig,
          txn, rc, do_accel, n_aborts, pc, i, hot_send_q>>

\* No lock yet; request and answer in flight; lock held; refused; release and
\* its acknowledgement in flight; released.
Status == {"none", "getreq", "getres", "getnak", "held", "failed",
           "putreq", "putres", "clear"}

PC == {"run", "lock", "mutex", "wait", "access", "clear", "puts",
       "bar", "hot", "batch", "exit", "done"}

\* A TupleFuture with the messages and the log entry that go with it.
Future == [st : Status, tuple : Values, last_acq : TxnId(Nodes)]

NoId == [valid |-> FALSE, node_id |-> Node0, mini_batch_id |-> 0]
NewFuture == [st |-> "none", tuple |-> NoTxn, last_acq |-> NoId]
moved(f, s) == [f EXCEPT !.st = s]
NewLog == [j \in 1 .. N_OPS |-> NewFuture]

\* Where the hot operations go when a transaction stops being accelerated:
\* cold_ops is filled with them from its end (cold_p--).
all_ops(t) ==
  LET n == Len(cold_ops[t])  m == Len(hot_ops[t])
  IN  [p \in 1 .. n + m |-> IF p <= n THEN cold_ops[t][p] ELSE hot_ops[t][n + m + 1 - p]]

ops(t) == IF do_accel[t] THEN cold_ops[t] ELSE all_ops(t)

\* arg.id: valid in my_execute, not in execute.
Id(w) == [valid |-> phase[w] # "left", node_id |-> node_id[w],
          mini_batch_id |-> mb[w]]

Ops(w) == ops(txn[w])
Key(w, j) == Ops(w)[j].key
Mode(w, j) == Ops(w)[j].mode
IsLocal(w, j) == target[Key(w, j)] = node_id[w]

Init ==
  /\ row = [k \in Keys |-> NewRow(Node0, NoTxn)]
  /\ pc = [w \in Workers |-> "run"]
  /\ phase = [w \in Workers |-> "mini"]
  /\ batch = [w \in Workers |-> 1]
  /\ mb = [w \in Workers |-> 1]
  /\ txn_num = [w \in Workers |-> 0]
  /\ q = [w \in Workers |-> Sched[w][1]]
  /\ leftover = [w \in Workers |-> <<>>]
  /\ n_orig = [w \in Workers |-> 0]
  /\ txn = [w \in Workers |-> NoTxn]
  /\ i = [w \in Workers |-> 1]
  /\ op = [w \in Workers |-> NewLog]
  /\ rc = [w \in Workers |-> "COMMIT"]
  /\ puts = [w \in Workers |-> 0]
  /\ do_accel = accel0
  /\ n_aborts = [t \in Txns |-> 0]
  /\ hot_send_q = [n \in Nodes |-> <<>>]

-----------------------------------------------------------------------------
(* Locking: the first loop of my_execute and of execute (read, write).      *)

\* rollback(): the log is cleared from its first entry on.
StartRollback(w) ==
  /\ pc' = [pc EXCEPT ![w] = "clear"]
  /\ i' = [i EXCEPT ![w] = 1]
  /\ rc' = [rc EXCEPT ![w] = "ROLLBACK"]

NextLock(w) ==
  /\ pc' = [pc EXCEPT ![w] = "lock"]
  /\ i' = [i EXCEPT ![w] = @ + 1]

\* local_lock, the early abort test, made without the mutex.
EarlyTest(w) ==
  /\ pc[w] = "lock" /\ i[w] <= Len(Ops(w)) /\ IsLocal(w, i[w])
  /\ \/ /\ is_compatible(row[Key(w, i[w])], Mode(w, i[w]))
        /\ pc' = [pc EXCEPT ![w] = "mutex"]
        /\ UNCHANGED <<i, rc>>
     \/ /\ ~is_compatible(row[Key(w, i[w])], Mode(w, i[w]))
        /\ StartRollback(w)
  /\ UNCHANGED <<lockVars, loopVars, txn, do_accel, n_aborts, hot_send_q>>

\* local_lock, under the mutex; the log entry is added on success only.
LocalLock(w) ==
  LET k == Key(w, i[w])  m == Mode(w, i[w])
  IN
  /\ pc[w] = "mutex"
  /\ \/ /\ may_lock(row[k], m, Id(w))
        /\ row' = [row EXCEPT ![k] = lock(@, m)]
        /\ op' = [op EXCEPT ![w][i[w]] =
                    [st |-> "held", tuple |-> NoTxn, last_acq |-> row[k].last_acq]]
        /\ NextLock(w)
        /\ UNCHANGED rc
     \/ /\ ~may_lock(row[k], m, Id(w))
        /\ StartRollback(w)
        /\ UNCHANGED <<row, op>>
  /\ UNCHANGED <<puts, loopVars, txn, do_accel, n_aborts, hot_send_q>>

\* Mutant: the worker goes on to its next lock without waiting for the answer.
MutAsyncGet(w) ==
  /\ pc[w] = "lock" /\ i[w] <= Len(Ops(w)) /\ ~IsLocal(w, i[w])
  /\ op' = [op EXCEPT ![w][i[w]] = moved(@, "getreq")]
  /\ NextLock(w)
  /\ UNCHANGED <<row, puts, loopVars, txnVars, hot_send_q>>

\* A remote row: send TupleGetReq, log the future, wait in future->get().
SendGetReq(w) ==
  /\ pc[w] = "lock" /\ i[w] <= Len(Ops(w)) /\ ~IsLocal(w, i[w])
  /\ op' = [op EXCEPT ![w][i[w]] = moved(@, "getreq")]
  /\ pc' = [pc EXCEPT ![w] = "wait"]
  /\ UNCHANGED <<row, puts, loopVars, txnVars, i, hot_send_q>>

\* handle(TupleGetReq) at the home node: remote_get, remote_lock.
HandleGetReq(w, j) ==
  LET k == Key(w, j)  m == Mode(w, j)
  IN
  /\ op[w][j].st = "getreq"
  /\ \/ /\ may_lock(row[k], m, Id(w))
        /\ row' = [row EXCEPT ![k] = lock(@, m)]
        /\ op' = [op EXCEPT ![w][j] = [st |-> "getres", tuple |-> row[k].tuple,
                                       last_acq |-> row[k].last_acq]]
     \/ /\ ~may_lock(row[k], m, Id(w))
        /\ op' = [op EXCEPT ![w][j] = moved(@, "getnak")]
        /\ UNCHANGED row
  /\ UNCHANGED <<puts, loopVars, txnVars, pc, i, hot_send_q>>

\* handle(TupleGetRes): the future gets its packet and the worker goes on.
HandleGetRes(w) ==
  /\ pc[w] = "wait"
  /\ \/ /\ op[w][i[w]].st = "getres"
        /\ op' = [op EXCEPT ![w][i[w]] = moved(@, "held")]
        /\ NextLock(w)
        /\ UNCHANGED rc
     \/ /\ op[w][i[w]].st = "getnak"
        /\ op' = [op EXCEPT ![w][i[w]] = moved(@, "failed")]
        /\ StartRollback(w)
  /\ UNCHANGED <<row, puts, loopVars, txn, do_accel, n_aborts, hot_send_q>>

AllLocked(w) ==
  /\ pc[w] = "lock" /\ i[w] > Len(Ops(w))
  /\ pc' = [pc EXCEPT ![w] = "access"]
  /\ i' = [i EXCEPT ![w] = 1]
  /\ UNCHANGED <<lockVars, loopVars, txnVars, hot_send_q>>

-----------------------------------------------------------------------------
(* The second loop: values are read and written under the locks.            *)

\* Mutant: a local row is unlocked as soon as it is written, before alloc_slot.
MutEarlyUnlock(w) ==
  LET k == Key(w, i[w])  writes == Mode(w, i[w]) = "WRITE"
  IN
  /\ pc[w] = "access" /\ i[w] <= Len(Ops(w))
  /\ i' = [i EXCEPT ![w] = @ + 1]
  /\ row' = IF writes /\ IsLocal(w, i[w])
            THEN [row EXCEPT ![k] = unlock([@ EXCEPT !.tuple = txn[w]], "WRITE", Id(w))] ELSE row
  /\ op' = [op EXCEPT ![w][i[w]] =
       [st |-> IF writes /\ IsLocal(w, i[w]) THEN "clear" ELSE @.st,
        tuple |-> IF writes /\ ~IsLocal(w, i[w]) THEN txn[w] ELSE @.tuple,
        last_acq |-> IF Id(w).valid THEN Id(w) ELSE @.last_acq]]
  /\ UNCHANGED <<puts, loopVars, txnVars, pc, hot_send_q>>

\* my_execute also replaces the last_acq that the release will write; execute
\* leaves the one that came with the lock.
Access(w) ==
  LET k == Key(w, i[w])
  IN
  /\ pc[w] = "access" /\ i[w] <= Len(Ops(w))
  /\ i' = [i EXCEPT ![w] = @ + 1]
  /\ row' = IF Mode(w, i[w]) = "WRITE" /\ IsLocal(w, i[w])
            THEN [row EXCEPT ![k].tuple = txn[w]] ELSE row
  /\ op' = [op EXCEPT ![w][i[w]] =
       [st |-> @.st,
        tuple |-> IF Mode(w, i[w]) = "WRITE" /\ ~IsLocal(w, i[w]) THEN txn[w] ELSE @.tuple,
        last_acq |-> IF Id(w).valid THEN Id(w) ELSE @.last_acq]]
  /\ UNCHANGED <<puts, loopVars, txnVars, pc, hot_send_q>>

\* alloc_slot, with the locks still held (execute takes no slot), then commit().
AllAccessed(w) ==
  /\ pc[w] = "access" /\ i[w] > Len(Ops(w))
  /\ hot_send_q' = IF Id(w).valid
                   THEN [hot_send_q EXCEPT ![node_id[w]] =
                           Append(@, [txn |-> txn[w], mini_batch_num |-> mb[w]])]
                   ELSE hot_send_q
  /\ pc' = [pc EXCEPT ![w] = "clear"]
  /\ i' = [i EXCEPT ![w] = 1]
  /\ rc' = [rc EXCEPT ![w] = "COMMIT"]
  /\ UNCHANGED <<lockVars, loopVars, txn, do_accel, n_aborts>>

-----------------------------------------------------------------------------
(* Undolog::clear, for commit and rollback alike.                           *)

CountPut(w) == [puts EXCEPT ![w] = @ + 1]

\* One log entry: a local row is unlocked, a remote one gets a TuplePutReq
\* that is counted before it is sent, a refused request is skipped.
Clear(w) ==
  LET f == op[w][i[w]]  k == Key(w, i[w])
  IN
  /\ pc[w] = "clear" /\ i[w] <= Len(Ops(w))
  /\ i' = [i EXCEPT ![w] = @ + 1]
  /\ \/ /\ f.st = "held" /\ IsLocal(w, i[w])
        /\ row' = [row EXCEPT ![k] = unlock(@, Mode(w, i[w]), f.last_acq)]
        /\ op' = [op EXCEPT ![w][i[w]] = moved(@, "clear")]
        /\ UNCHANGED puts
     \/ /\ f.st = "held" /\ ~IsLocal(w, i[w])
        /\ op' = [op EXCEPT ![w][i[w]] = moved(@, "putreq")]
        /\ puts' = CountPut(w)
        /\ UNCHANGED row
     \/ /\ f.st # "held"
        /\ UNCHANGED lockVars
  /\ UNCHANGED <<loopVars, txnVars, pc, hot_send_q>>

AllCleared(w) ==
  /\ pc[w] = "clear" /\ i[w] > Len(Ops(w))
  /\ pc' = [pc EXCEPT ![w] = "puts"]
  /\ UNCHANGED <<lockVars, loopVars, txnVars, i, hot_send_q>>

\* handle(TuplePutReq) at the home node: remote_put, remote_unlock.
HandlePutReq(w, j) ==
  LET f == op[w][j]  k == Key(w, j)
  IN
  /\ f.st = "putreq"
  /\ row' = [row EXCEPT ![k] =
               unlock(IF Mode(w, j) = "WRITE" THEN [@ EXCEPT !.tuple = f.tuple] ELSE @,
                      Mode(w, j), f.last_acq)]
  /\ op' = [op EXCEPT ![w][j] = moved(@, "putres")]
  /\ UNCHANGED <<puts, loopVars, txnVars, pc, i, hot_send_q>>

\* handle(TuplePutRes): the sender's counter goes down.
HandlePutRes(w, j) ==
  /\ op[w][j].st = "putres"
  /\ op' = [op EXCEPT ![w][j] = moved(@, "clear")]
  /\ puts' = [puts EXCEPT ![w] = @ - 1]
  /\ UNCHANGED <<row, loopVars, txnVars, pc, i, hot_send_q>>

-----------------------------------------------------------------------------
(* The loops of txn_executor.                                               *)

MbQueue(w) == (mb[w] - 1) % N_QUEUES

\* The queue whose front runs next: that of the mini-batch until it has its
\* share; when draining, the first one that still holds something.
IsNext(w, n) ==
  /\ q[w][n] # <<>>
  /\ phase[w] = "mini" => n = MbQueue(w) /\ txn_num[w] < MINI_TGT
  /\ phase[w] = "drain" => \A m \in 0 .. n - 1 : q[w][m] = <<>>

\* Mutant: the transaction is not popped from its queue.
MutNoPop(w, n) == q

PopTxn(w, n) == [q EXCEPT ![w][n] = Tail(@)]

\* txn_num is counted in the mini-batch loop only.
CountTxn(w) == IF phase[w] = "mini" THEN [txn_num EXCEPT ![w] = @ + 1] ELSE txn_num

\* run_txn up to my_execute; a transaction that is not accelerated goes to
\* the left-over queue at once.
RunTxn(w, n) ==
  LET t == Head(q[w][n])
  IN
  /\ pc[w] = "run" /\ phase[w] \in {"mini", "drain"} /\ IsNext(w, n)
  /\ q' = PopTxn(w, n)
  /\ \/ /\ do_accel[t]
        /\ txn' = [txn EXCEPT ![w] = t]
        /\ pc' = [pc EXCEPT ![w] = "lock"]
        /\ i' = [i EXCEPT ![w] = 1]
        /\ UNCHANGED <<txn_num, leftover>>
     \/ /\ ~do_accel[t]
        /\ leftover' = [leftover EXCEPT ![w] = Append(@, t)]
        /\ txn_num' = CountTxn(w)
        /\ UNCHANGED <<txn, pc, i>>
  /\ UNCHANGED <<lockVars, phase, batch, mb, n_orig, rc, do_accel, n_aborts, hot_send_q>>

\* The rest of run_txn: an aborted transaction goes back to its queue, or is
\* turned into an all-cold one for the left-over phase.
FinishTxn(w) ==
  LET t == txn[w]
      again == phase[w] = "mini" /\ n_aborts[t] + 1 <= MAX_TIMES_ACCEL_ABORT
  IN
  /\ phase[w] # "left"
  /\ txn_num' = CountTxn(w)
  /\ \/ /\ rc[w] = "COMMIT"
        /\ UNCHANGED <<q, leftover, do_accel, n_aborts>>
     \/ /\ rc[w] = "ROLLBACK"
        /\ n_aborts' = [n_aborts EXCEPT ![t] = @ + 1]
        /\ \/ /\ again
              /\ q' = [q EXCEPT ![w][MbQueue(w)] = Append(@, t)]
              /\ UNCHANGED <<leftover, do_accel>>
           \/ /\ ~again
              /\ do_accel' = [do_accel EXCEPT ![t] = FALSE]
              /\ leftover' = [leftover EXCEPT ![w] = Append(@, t)]
              /\ UNCHANGED q

\* run_leftover_txns after execute: push behind the others on ROLLBACK, pop.
FinishLeftover(w) ==
  /\ phase[w] = "left"
  /\ leftover' = [leftover EXCEPT ![w] =
                   Tail(IF rc[w] = "ROLLBACK" THEN Append(@, txn[w]) ELSE @)]
  /\ UNCHANGED <<txn_num, q, do_accel, n_aborts>>

\* Mutant: clear returns without waiting for the put responses.
MutNoWait(w) == TRUE

AllAcked(w) == puts[w] = 0

\* The end of Undolog::clear, once every put is acknowledged.
Finish(w) ==
  /\ pc[w] = "puts" /\ AllAcked(w)
  /\ FinishTxn(w) \/ FinishLeftover(w)
  /\ op' = [op EXCEPT ![w] = NewLog]
  /\ txn' = [txn EXCEPT ![w] = NoTxn]
  /\ pc' = [pc EXCEPT ![w] = "run"]
  /\ i' = [i EXCEPT ![w] = 1]
  /\ UNCHANGED <<row, puts, phase, batch, mb, n_orig, rc, hot_send_q>>

\* The end of a mini-batch, or of the drain: enter wait_workers.
EndMiniBatch(w) ==
  /\ pc[w] = "run" /\ phase[w] \in {"mini", "drain"}
  /\ \A n \in Queues : ~IsNext(w, n)
  /\ mb' = [mb EXCEPT ![w] = @ + 1]
  /\ txn_num' = [txn_num EXCEPT ![w] = 0]
  /\ pc' = [pc EXCEPT ![w] = "bar"]
  /\ UNCHANGED <<lockVars, phase, batch, q, leftover, n_orig, txnVars, i, hot_send_q>>

orig_mb_num(w) == 1 + (batch[w] - 1) * (N_MINI + 1)

\* Mutant: wait_workers only waits for the workers of this node.
MutLocalBarrier(w) == \A v \in Workers : node_id[v] = node_id[w] => mb[v] >= mb[w]

\* Every worker of every node has entered this wait_workers: mb counts them.
AllEntered(w) == \A v \in Workers : mb[v] >= mb[w]

LeaveBarrier(w) ==
  /\ pc[w] = "bar" /\ AllEntered(w)
  /\ \/ /\ phase[w] = "mini"
        /\ phase' = [phase EXCEPT ![w] =
             IF mb[w] - orig_mb_num(w) < N_MINI THEN "mini" ELSE "drain"]
        /\ pc' = [pc EXCEPT ![w] = "run"]
     \/ /\ phase[w] = "drain"
        /\ pc' = [pc EXCEPT ![w] = IF w = Leader[node_id[w]] THEN "hot" ELSE "batch"]
        /\ UNCHANGED phase
  /\ UNCHANGED <<lockVars, batch, mb, txn_num, q, leftover, n_orig, txnVars, i, hot_send_q>>

-----------------------------------------------------------------------------
(* The end of a batch.                                                      *)

\* v has entered the batch_bar of w's batch.
InBatchBar(w, v) == batch[v] = batch[w] /\ (pc[v] = "batch" \/ phase[v] = "left")

done_sending(n) == [hot_send_q EXCEPT ![n] = <<>>]

\* run_hot_period, update_alloc and done_sending: the leaders meet in
\* wait_nodes, every filled slot is sent and the queue is emptied.
HotPeriod(w) ==
  /\ pc[w] = "hot"
  /\ \A n \in Nodes : LET l == Leader[n] IN
        batch[l] > batch[w] \/ pc[l] = "hot" \/ InBatchBar(w, l)
  /\ hot_send_q' = done_sending(node_id[w])
  /\ pc' = [pc EXCEPT ![w] = "batch"]
  /\ UNCHANGED <<lockVars, loopVars, txnVars, i>>

\* batch_bar.wait, entry: then every worker runs its left-overs.
EnterLeftover(w) ==
  /\ pc[w] = "batch"
  /\ \A v \in Workers : node_id[v] = node_id[w] => InBatchBar(w, v)
  /\ phase' = [phase EXCEPT ![w] = "left"]
  /\ n_orig' = [n_orig EXCEPT ![w] = Len(leftover[w])]
  /\ pc' = [pc EXCEPT ![w] = "run"]
  /\ UNCHANGED <<lockVars, batch, mb, txn_num, q, leftover, txnVars, i, hot_send_q>>

RunLeftover(w) ==
  /\ pc[w] = "run" /\ phase[w] = "left"
  /\ \/ /\ Len(leftover[w]) > n_orig[w] \div DROP_DIV
        /\ txn' = [txn EXCEPT ![w] = Head(leftover[w])]
        /\ pc' = [pc EXCEPT ![w] = "lock"]
        /\ i' = [i EXCEPT ![w] = 1]
        /\ UNCHANGED leftover
     \/ /\ Len(leftover[w]) <= n_orig[w] \div DROP_DIV
        /\ leftover' = [leftover EXCEPT ![w] = <<>>]
        /\ pc' = [pc EXCEPT ![w] = "exit"]
        /\ UNCHANGED <<txn, i>>
  /\ UNCHANGED <<lockVars, phase, batch, mb, txn_num, q, n_orig, rc, do_accel,
                 n_aborts, hot_send_q>>

\* batch_bar.wait, exit; sched_batch fills the queues for the next batch.
NextBatch(w) ==
  /\ pc[w] = "exit"
  /\ \A v \in Workers : node_id[v] = node_id[w] => batch[v] > batch[w] \/ pc[v] = "exit"
  /\ batch' = [batch EXCEPT ![w] = @ + 1]
  /\ phase' = [phase EXCEPT ![w] = "mini"]
  /\ \/ /\ batch[w] < Len(Sched[w])
        /\ q' = [q EXCEPT ![w] = Sched[w][batch[w] + 1]]
        /\ pc' = [pc EXCEPT ![w] = "run"]
     \/ /\ batch[w] = Len(Sched[w])
        /\ pc' = [pc EXCEPT ![w] = "done"]
        /\ UNCHANGED q
  /\ UNCHANGED <<lockVars, mb, txn_num, leftover, n_orig, txnVars, i, hot_send_q>>

-----------------------------------------------------------------------------
Step(w) ==
  \/ (\E n \in Queues : RunTxn(w, n)) \/ EndMiniBatch(w) \/ LeaveBarrier(w)
  \/ EarlyTest(w) \/ LocalLock(w) \/ SendGetReq(w) \/ AllLocked(w)
  \/ Access(w) \/ AllAccessed(w) \/ Clear(w) \/ AllCleared(w) \/ Finish(w)
  \/ HotPeriod(w) \/ EnterLeftover(w) \/ RunLeftover(w) \/ NextBatch(w)

\* The network threads (msg_handler.cpp).
Handle(w) ==
  \/ HandleGetRes(w)
  \/ \E j \in 1 .. N_OPS : HandleGetReq(w, j) \/ HandlePutReq(w, j) \/ HandlePutRes(w, j)

\* The program stays stopped once every worker has returned.
Terminated == (\A w \in Workers : pc[w] = "done") /\ UNCHANGED vars

Next == (\E w \in Workers : Step(w) \/ Handle(w)) \/ Terminated

Spec == Init /\ [][Next]_vars

\* Threads are scheduled by the operating system and TCP delivers.
FairSpec == Spec /\ \A w \in Workers : WF_vars(Step(w)) /\ WF_vars(Handle(w))

-----------------------------------------------------------------------------
(* Properties.                                                              *)

Counted == [txn : Txns, mini_batch_num : Nat]

\* Every variable keeps its type; in particular owner_cnt (row.hpp) and the
\* putresponses counter (undolog.hpp) never go below zero.
TypeOK ==
  /\ row \in [Keys -> RowType(Nodes, Values)]
  /\ pc \in [Workers -> PC]
  /\ phase \in [Workers -> {"mini", "drain", "left"}]
  /\ batch \in [Workers -> Nat]
  /\ mb \in [Workers -> Nat]
  /\ txn_num \in [Workers -> Nat]
  /\ q \in [Workers -> [Queues -> Seq(Txns)]]
  /\ leftover \in [Workers -> Seq(Txns)]
  /\ n_orig \in [Workers -> Nat]
  /\ txn \in [Workers -> Values]
  /\ i \in [Workers -> 1 .. N_OPS + 1]
  /\ op \in [Workers -> [1 .. N_OPS -> Future]]
  /\ rc \in [Workers -> {"COMMIT", "ROLLBACK"}]
  /\ puts \in [Workers -> Nat]
  /\ do_accel \in [Txns -> BOOLEAN]
  /\ n_aborts \in [Txns -> Nat]
  /\ hot_send_q \in [Nodes -> Seq(Counted)]

\* The operations through which a row is locked: by a worker that knows, or
\* with the grant or the release still in flight.
Holds(w, j) == op[w][j].st \in {"held", "getres", "putreq"}
Holders(k) == {h \in Workers \X (1 .. N_OPS) : Holds(h[1], h[2]) /\ Key(h[1], h[2]) = k}

\* The lock word of a row (row.hpp) always agrees with the operations that
\* hold it, over all nodes and messages in flight: the count is their number,
\* a writer is alone, and each one will release in the mode of the row, so
\* local_unlock never returns the error that throws UndoException.
LockInv ==
  \A k \in Keys :
    /\ row[k].owner_cnt = Cardinality(Holders(k))
    /\ row[k].lock_type = "INVALID" <=> Holders(k) = {}
    /\ row[k].lock_type = "WRITE" => row[k].owner_cnt = 1
    /\ \A h \in Holders(k) : Mode(h[1], h[2]) = row[k].lock_type

\* The operation's write is already in its copy (second loop of my_execute).
Written(w, j) ==
  /\ Mode(w, j) = "WRITE"
  /\ \/ pc[w] = "access" /\ j < i[w]
     \/ pc[w] \in {"clear", "puts"} /\ rc[w] = "COMMIT"

\* The copy a remote lock brought (TupleGetRes) stays equal to the row of the
\* home node until the holder writes it: no lost update, and the TuplePutReq
\* of a rolled back writer writes back exactly what is there.
CopyFresh ==
  \A w \in Workers, j \in 1 .. N_OPS :
    Holds(w, j) /\ ~IsLocal(w, j) /\ ~Written(w, j)
      => op[w][j].tuple = row[Key(w, j)].tuple

\* Where mb_allow_lock runs: a worker inside local_lock, a request that the
\* home node has not handled.
AtAllowLock(w, j) ==
  \/ pc[w] = "mutex" /\ j = i[w]
  \/ op[w][j].st = "getreq"

\* The assert of mb_allow_lock (row.hpp): the mini-batch of a request is never
\* older than the one that last released the row, on whichever node.
MbInOrder ==
  \A w \in Workers, j \in 1 .. N_OPS :
    AtAllowLock(w, j) => mb_in_order(row[Key(w, j)], Id(w))

\* The putresponses counter is the number of releases not yet acknowledged,
\* so that Undolog::clear returns with none in flight.
PutsCounted ==
  \A w \in Workers :
    puts[w] = Cardinality({j \in 1 .. N_OPS : op[w][j].st \in {"putreq", "putres"}})

\* A TupleGetRes finds the future that waits for it (msg_handler.cpp): a
\* request or answer in flight belongs to the operation its worker waits on.
AnswerAwaited ==
  \A w \in Workers, j \in 1 .. N_OPS :
    op[w][j].st \in {"getreq", "getres", "getnak"} <=> pc[w] = "wait" /\ j = i[w]

WrittenKeys(t) == {o.key : o \in {o \in Range(cold_ops[t]) : o.mode = "WRITE"}}
TouchedKeys(t) == {o.key : o \in Range(cold_ops[t])}

Slots(n) == Range(hot_send_q[n])

\* What mb_allow_lock is for (row.hpp): the packets that two nodes send in the
\* same mini-batch reach the switch in any order, so the transactions of
\* different nodes in one mini-batch never write the same cold key.
WritesDisjoint ==
  \A n1, n2 \in Nodes : n1 # n2 =>
    \A e1 \in Slots(n1), e2 \in Slots(n2) :
      e1.mini_batch_num = e2.mini_batch_num
        => WrittenKeys(e1.txn) \cap WrittenKeys(e2.txn) = {}

\* logs/DisjointChecker.java asserts that the keys two nodes touch in one
\* mini-batch are disjoint; of that, the part about conflicts: neither of two
\* such transactions reads a cold key that the other one writes.
ConflictsDisjoint ==
  \A n1, n2 \in Nodes : n1 # n2 =>
    \A e1 \in Slots(n1), e2 \in Slots(n2) :
      e1.mini_batch_num = e2.mini_batch_num
        => WrittenKeys(e1.txn) \cap TouchedKeys(e2.txn) = {}

\* All are in the same batch, and no node has sent its slots.
BeforeHot ==
  \A w \in Workers :
    /\ phase[w] # "left" /\ pc[w] \notin {"batch", "done"}
    /\ \A v \in Workers : batch[v] = batch[w]

\* The slots that wrote k, by mini-batch and, within one, by position.
Writers(k) ==
  {s \in UNION {{<<n, p>> : p \in DOMAIN hot_send_q[n]} : n \in Nodes} :
     k \in WrittenKeys(hot_send_q[s[1]][s[2]].txn)}
SlotMb(s) == hot_send_q[s[1]][s[2]].mini_batch_num
SlotLE(s, t) == SlotMb(s) < SlotMb(t) \/ (SlotMb(s) = SlotMb(t) /\ s[2] <= t[2])

\* The order of hot_send_q is the order of the cold part (alloc_slot runs with
\* the locks held): the value of a row nobody is writing is that of the last
\* slot, in mini-batch order and then in slot order, that wrote it, unless a
\* left-over of the other node, which may still run, has written it since.
SlotOrder ==
  BeforeHot => \A k \in Keys :
    row[k].lock_type # "WRITE" =>
      \A s \in Writers(k) : (\A r \in Writers(k) : SlotLE(r, s))
        => row[k].tuple \in {hot_send_q[s[1]][s[2]].txn} \cup {t \in Txns : ~do_accel[t]}

Count(s, t) == Cardinality({p \in DOMAIN s : s[p] = t})

\* The transaction is neither waiting to be counted as committed nor finished.
Running(w, t) == txn[w] = t /\ ~(pc[w] \in {"clear", "puts"} /\ rc[w] = "COMMIT")

Scheduled(w, n) == Range(Sched[w][batch[w]][n])

\* run_txn neither loses nor repeats a transaction: until the hot period each
\* one of the batch is in one queue, in the left-over queue, running, or has
\* its one slot; and no slot outlives the hot period, nor is one taken by the
\* left-overs (the assert of single_db_section).
ExactlyOnce ==
  /\ BeforeHot => \A w \in Workers, n \in Queues :
       \A t \in Scheduled(w, n) :
         Count(q[w][n], t) + Count(leftover[w], t)
           + (IF Running(w, t) THEN 1 ELSE 0)
           + Cardinality({p \in DOMAIN hot_send_q[node_id[w]] :
                            hot_send_q[node_id[w]][p].txn = t}) = 1
  /\ \A w \in Workers :
       phase[w] = "left" /\ pc[w] # "exit" => hot_send_q[node_id[w]] = <<>>

\* Every worker comes to the end of its transactions.
Terminates == <>(\A w \in Workers : pc[w] = "done")
=============================================================================
