---------------------------- MODULE ExecutorBatches ----------------------------
(***************************************************************************)
(* Lemmas of Executor about batches and slots: where the workers are in     *)
(* their batches, which mini-batches the slots are of, what a transaction   *)
(* has written, and that each transaction of a batch is in one place.       *)
(* OInv, the inductive invariant about slots and batches, adds these to     *)
(* that of ExecutorInv.                                                     *)
(***************************************************************************)
EXTENDS ExecutorProofs

\* The number of the first mini-batch of batch c; orig_mb_num(w) is that of w's batch.
FirstMb(c) == 1 + (c - 1) * (N_MINI + 1)

\* How far w is in its batch: mb is counted up before wait_workers.
LoopInv(w) ==
  LET first == FirstMb(batch[w])
  IN
  /\ batch[w] > 0 /\ (pc[w] # "done" => batch[w] <= Len(Sched[w]))
  /\ phase[w] = "mini" =>
       \/ pc[w] \in Busy \cup {"run"} /\ first <= mb[w] /\ mb[w] < first + N_MINI
       \/ pc[w] = "bar" /\ first < mb[w] /\ mb[w] <= first + N_MINI
       \/ pc[w] = "done" /\ mb[w] = first
  /\ phase[w] = "drain" =>
       \/ pc[w] \in Busy \cup {"run"} /\ mb[w] = first + N_MINI
       \/ pc[w] \in {"bar", "hot", "batch"} /\ mb[w] = first + N_MINI + 1
  /\ phase[w] = "left" => pc[w] \in Busy \cup {"run", "exit"} /\ mb[w] = first + N_MINI + 1
  /\ pc[w] = "hot" => w = Leader[node_id[w]]
  /\ pc[w] = "exit" => leftover[w] = <<>>
  /\ pc[w] \notin Busy => txn[w] = NoTxn

\* Whatever is left over is not accelerated.
LeftInv(w) ==
  /\ \A p \in DOMAIN leftover[w] : ~do_accel[leftover[w][p]]
  /\ pc[w] \in Busy /\ phase[w] = "left" => ~do_accel[txn[w]]

\* No worker is two mini-batches ahead of another.
MbClose == \A v, w \in Workers : mb[w] + 1 >= mb[v]

\* The batch that a worker is in, or may enter at any moment.
OpenBatch(w) == IF pc[w] = "exit" THEN batch[w] + 1 ELSE batch[w]

\* batch_bar keeps the workers of a node together.
BatchInv ==
  \A u, v \in Workers : node_id[u] = node_id[v] =>
    /\ batch[u] <= OpenBatch(v)
    /\ phase[u] = "left" => batch[v] > batch[u] \/ InBatchBar(u, v)

\* w is past the hot period of its batch.
HasSent(w) == pc[w] = "batch" \/ phase[w] = "left"

\* The first mini-batch that the node of leader w has not sent.
Unsent(w) == IF HasSent(w) THEN FirstMb(batch[w] + 1) ELSE FirstMb(batch[w])

\* The slots of a node are of mini-batches that it has not sent, no later than the
\* open one and of no batch that its workers have not begun.
SlotMbInv ==
  \A n \in Nodes : \A e \in Slots(n) :
    /\ e.mini_batch_num >= Unsent(Leader[n])
    /\ \A v \in Workers :
         /\ e.mini_batch_num <= mb[v]
         /\ node_id[v] = n => e.mini_batch_num < FirstMb(OpenBatch(v) + 1)

\* A write is in the local row, or in the copy of the remote one, until its lock is released.
WroteInv ==
  \A w \in Workers, j \in 1 .. N_OPS :
    Holds(w, j) /\ Written(w, j) =>
      txn[w] = IF IsLocal(w, j) THEN row[Key(w, j)].tuple ELSE op[w][j].tuple

NotAccel == {t \in Txns : ~do_accel[t]}

\* The row holds, or will hold once a commit has released it, the write of t or of a
\* left-over.
LastWrite(k, t) ==
  /\ (\A v \in Workers, l \in 1 .. N_OPS : Holds(v, l) /\ Key(v, l) = k => ~Written(v, l))
       => row[k].tuple \in {t} \cup NotAccel
  /\ \A v \in Workers, l \in 1 .. N_OPS :
       Holds(v, l) /\ Key(v, l) = k /\ Written(v, l) /\ pc[v] # "access"
         => txn[v] \in {t} \cup NotAccel

\* No node has sent mini-batch m.
NotSent(m) == \A n \in Nodes : m >= Unsent(Leader[n])

IsLast(k, s) == s \in Writers(k) /\ \A r \in Writers(k) : SlotLE(r, s)

\* SlotOrder, for any moment and any row.
OrderInv ==
  \A k \in Keys : \A s \in Writers(k) :
    NotSent(SlotMb(s)) /\ IsLast(k, s) => LastWrite(k, hot_send_q[s[1]][s[2]].txn)

\* w is in a batch whose slots its node has not sent.
IsOpen(w) == phase[w] # "left" /\ pc[w] # "done" /\ ~InBatchBar(w, Leader[node_id[w]])

SlotCount(w, t) ==
  Cardinality({p \in DOMAIN hot_send_q[node_id[w]] : hot_send_q[node_id[w]][p].txn = t})

\* Where t is, of the places of the queue n of w.
Places(w, n, t) ==
  Count(q[w][n], t) + Count(leftover[w], t) + (IF Running(w, t) THEN 1 ELSE 0) + SlotCount(w, t)

\* ExactlyOnce, for any moment of an open batch.
OpenInv(w) ==
  /\ \A n \in Queues : Range(q[w][n]) \subseteq Scheduled(w, n)
  /\ pc[w] \in Busy /\ phase[w] = "mini" => txn[w] \in Scheduled(w, MbQueue(w))
  /\ \A n \in Queues : \A t \in Scheduled(w, n) : Places(w, n, t) = 1

\* The slots of the batch of a worker in its left-over phase are sent.
SentInv(w) ==
  phase[w] = "left" => \A e \in Slots(node_id[w]) : e.txn \notin my_txns[w]

OnceInv(w) == (IsOpen(w) => OpenInv(w)) /\ SentInv(w)

OInv ==
  /\ IInv /\ CopyFresh
  /\ \A w \in Workers : LoopInv(w) /\ LeftInv(w)
  /\ MbClose /\ BatchInv /\ SlotMbInv
  /\ WroteInv /\ OrderInv
  /\ \A w \in Workers : OnceInv(w)

-----------------------------------------------------------------------------
(* Batches and mini-batches.                                                *)

\* Before the hot period of its batch a worker is in the mini-batches of the batch.
LEMMA SinceFirst ==
  ASSUME NEW l, LoopInv(l), N_MINI \in Nat, phase[l] \in {"mini", "drain"},
         FirstMb(batch[l]) \in Nat, mb[l] \in Nat
  PROVE  FirstMb(batch[l]) <= mb[l] /\ (pc[l] = "bar" => FirstMb(batch[l]) < mb[l])
<1>. DEFINE f == FirstMb(batch[l])
<1>1. \/ pc[l] # "bar" /\ f <= mb[l]
      \/ f < mb[l]
      \/ pc[l] # "bar" /\ (mb[l] = f \/ mb[l] = f + N_MINI)
      \/ mb[l] = f + N_MINI + 1
  BY Zenon DEF LoopInv, Busy
<1>2. \A a, n, m \in Nat : (a < m => a <= m) /\ a <= a /\ a <= a + n /\ a < a + n + 1 /\ a <= a + n + 1
  OBVIOUS
<1>. HIDE DEF f
<1>3. f \in Nat /\ mb[l] \in Nat /\ N_MINI \in Nat
  BY Zenon DEF f
<1>. QED  BY Zenon, <1>1, <1>2, <1>3 DEF f

\* A slot that wrote k, by node and position, before and after a step.
LEMMA WriterAt ==
  ASSUME NEW k
  PROVE  /\ \A n \in Nodes : \A p \in DOMAIN hot_send_q[n] :
              k \in WrittenKeys(hot_send_q[n][p].txn) => <<n, p>> \in Writers(k)
         /\ \A s \in Writers(k) :
              \E n \in Nodes : \E p \in DOMAIN hot_send_q[n] :
                s = <<n, p>> /\ k \in WrittenKeys(hot_send_q[n][p].txn)
         /\ \A n \in Nodes : \A p \in DOMAIN hot_send_q'[n] :
              k \in WrittenKeys(hot_send_q'[n][p].txn) => <<n, p>> \in Writers(k)'
         /\ \A s \in Writers(k)' :
              \E n \in Nodes : \E p \in DOMAIN hot_send_q'[n] :
                s = <<n, p>> /\ k \in WrittenKeys(hot_send_q'[n][p].txn)
BY DEF Writers, WrittenKeys

\* The mini-batches of the batches follow one another.
LEMMA FirstMbNext ==
  ASSUME NEW c \in Nat, c > 0
  PROVE  /\ FirstMb(c) \in Nat /\ FirstMb(c) > 0 /\ N_MINI \in Nat /\ N_MINI > 0
         /\ FirstMb(c + 1) = FirstMb(c) + N_MINI + 1
<1>1. N_MINI \in Nat /\ N_MINI > 0
  BY ConstantsAssumption
<1>. DEFINE m == N_MINI + 1
            d == c - 1
<1>2. m \in Nat /\ d \in Nat /\ c = d + 1
  BY <1>1
<1>3. d * m \in Nat /\ (d + 1) * m = d * m + m
  BY <1>2
<1>4. FirstMb(c) = 1 + d * m /\ FirstMb(c + 1) = 1 + (d + 1) * m
  BY <1>2 DEF FirstMb
<1>. QED  BY <1>1, <1>3, <1>4

\* A step inside my_execute or execute.
Inner(w) ==
  /\ pc[w] \in Busy /\ pc'[w] \in Busy
  /\ UNCHANGED <<phase, batch, mb, q, leftover, txn, do_accel>>

\* The steps of txn_executor around them.
Outer(w) ==
  \/ (\E n \in Queues : RunTxn(w, n)) \/ EndMiniBatch(w) \/ LeaveBarrier(w) \/ Finish(w)
  \/ HotPeriod(w) \/ EnterLeftover(w) \/ RunLeftover(w) \/ NextBatch(w)

\* Every step is one of the two; only alloc_slot changes the slots in the first.
LEMMA InnerStep ==
  ASSUME IInv, NEW w \in Workers, Step(w) \/ Handle(w)
  PROVE  /\ Inner(w) \/ Outer(w)
         /\ Inner(w) => hot_send_q' = hot_send_q \/ AllAccessed(w)
<1>t. DOMAIN pc = Workers
  BY Zenon DEF IInv, TypeOK
<1>1. CASE EarlyTest(w) \/ LocalLock(w) \/ SendGetReq(w) \/ AllLocked(w)
  BY Zenon, <1>t, <1>1 DEF EarlyTest, LocalLock, SendGetReq, AllLocked, NextLock, StartRollback,
     Inner, Busy, loopVars, txnVars
<1>2. CASE Access(w) \/ AllAccessed(w) \/ Clear(w) \/ AllCleared(w)
  BY Zenon, <1>t, <1>2 DEF Access, AllAccessed, Clear, AllCleared, Inner, Busy, loopVars, txnVars
<1>3. CASE HandleGetRes(w)
  BY Zenon, <1>t, <1>3 DEF HandleGetRes, NextLock, StartRollback, Inner, Busy, loopVars, txnVars
<1>4. ASSUME NEW j \in 1 .. N_OPS, HandleGetReq(w, j) \/ HandlePutReq(w, j) \/ HandlePutRes(w, j)
      PROVE  Inner(w) /\ hot_send_q' = hot_send_q
  <2>1. op[w][j].st # "none" /\ UNCHANGED <<loopVars, txnVars, pc>> /\ hot_send_q' = hot_send_q
    BY Zenon, <1>4 DEF HandleGetReq, HandlePutReq, HandlePutRes
  <2>2. pc[w] \in Busy
    BY Zenon, <2>1, AtMsg
  <2>. QED  BY Zenon, <2>1, <2>2 DEF Inner, loopVars, txnVars
<1>5. CASE Outer(w)
  <2>1. ASSUME Inner(w) PROVE hot_send_q' = hot_send_q
    BY Zenon, <1>5, <2>1 DEF Outer, Inner, RunTxn, EndMiniBatch, LeaveBarrier, HotPeriod,
       EnterLeftover, RunLeftover, NextBatch, Finish, Busy
  <2>. QED  BY Zenon, <1>5, <2>1
<1>. QED  BY Zenon, <1>1, <1>2, <1>3, <1>4, <1>5 DEF Step, Handle, Outer

\* The batch of the others, which Others does not name.
LEMMA OtherBatch ==
  ASSUME IInv, NEW w \in Workers, Step(w) \/ Handle(w), NEW v \in Workers, v # w
  PROVE  batch'[v] = batch[v]
<1>1. DOMAIN batch = Workers
  BY Zenon DEF IInv, TypeOK
<1>2. batch' = batch \/ batch' = [batch EXCEPT ![w] = batch[w] + 1]
  <2>1. CASE Inner(w)
    BY Zenon, <2>1 DEF Inner
  <2>2. CASE Outer(w)
    BY Zenon, <2>2 DEF Outer, RunTxn, EndMiniBatch, LeaveBarrier, Finish, HotPeriod, EnterLeftover,
       RunLeftover, NextBatch, loopVars
  <2>. QED  BY Zenon, <2>1, <2>2, InnerStep
<1>. QED  BY Zenon, <1>1, <1>2

\* A transaction that is no longer accelerated stays so.
LEMMA AccelFalls ==
  ASSUME IInv, NEW w \in Workers, Step(w) \/ Handle(w), NEW t \in Txns, do_accel'[t]
  PROVE  do_accel[t]
<1>1. do_accel \in [Txns -> BOOLEAN]
  BY Zenon DEF IInv, TypeOK
<1>2. do_accel' = do_accel \/ do_accel' = [do_accel EXCEPT ![txn[w]] = FALSE]
  <2>1. CASE Inner(w)
    BY Zenon, <2>1 DEF Inner
  <2>2. CASE Outer(w)
    BY Zenon, <2>2 DEF Outer, RunTxn, EndMiniBatch, LeaveBarrier, Finish, FinishTxn, FinishLeftover,
       HotPeriod, EnterLeftover, RunLeftover, NextBatch, txnVars
  <2>. QED  BY Zenon, <2>1, <2>2, InnerStep
<1>. QED  BY Zenon, <1>1, <1>2

\* What LoopInv says of w, with the numbers in Nat.
LEMMA LoopFacts ==
  ASSUME IInv, NEW w \in Workers, LoopInv(w)
  PROVE  /\ batch[w] \in Nat /\ batch[w] > 0 /\ mb[w] \in Nat
         /\ FirstMb(batch[w]) \in Nat /\ N_MINI \in Nat /\ N_MINI > 0
         /\ FirstMb(batch[w] + 1) = FirstMb(batch[w]) + N_MINI + 1
         /\ orig_mb_num(w) = FirstMb(batch[w])
         /\ pc[w] \in PC /\ phase[w] \in {"mini", "drain", "left"}
<1>1. batch[w] \in Nat /\ mb[w] \in Nat /\ pc[w] \in PC /\ phase[w] \in {"mini", "drain", "left"}
  BY Zenon DEF IInv, TypeOK
<1>2. batch[w] > 0
  BY Zenon DEF LoopInv
<1>3. orig_mb_num(w) = FirstMb(batch[w])
  BY Zenon DEF orig_mb_num, FirstMb
<1>. QED  BY Zenon, <1>1, <1>2, <1>3, FirstMbNext

\* A step of one worker does not move another one.
LEMMA LoopOther ==
  ASSUME IInv, NEW w \in Workers, Step(w) \/ Handle(w), NEW v \in Workers, v # w, LoopInv(v)
  PROVE  LoopInv(v)'
<1>1. /\ pc'[v] = pc[v] /\ phase'[v] = phase[v] /\ mb'[v] = mb[v] /\ txn'[v] = txn[v]
      /\ leftover'[v] = leftover[v] /\ batch'[v] = batch[v]
  BY Zenon, Others, OtherBatch
<1>. QED  BY Zenon, <1>1 DEF LoopInv

\* A step keeps its own worker where LoopInv says it is.
LEMMA LoopSelf ==
  ASSUME IInv, NEW w \in Workers, Step(w) \/ Handle(w), LoopInv(w)
  PROVE  LoopInv(w)'
<1>t. /\ DOMAIN pc = Workers /\ DOMAIN phase = Workers /\ DOMAIN batch = Workers
      /\ DOMAIN mb = Workers /\ DOMAIN leftover = Workers /\ DOMAIN txn = Workers
  BY Zenon DEF IInv, TypeOK
<1>. DEFINE f == FirstMb(batch[w])
            g == FirstMb(batch[w] + 1)
<1>f. /\ batch[w] \in Nat /\ batch[w] > 0 /\ mb[w] \in Nat /\ f \in Nat /\ g = f + N_MINI + 1
      /\ N_MINI \in Nat /\ N_MINI > 0 /\ orig_mb_num(w) = f
      /\ pc[w] \in PC /\ phase[w] \in {"mini", "drain", "left"}
  BY Zenon, LoopFacts
<1>l. /\ (pc[w] # "done" => batch[w] <= Len(Sched[w]))
      /\ phase[w] = "mini" =>
           \/ pc[w] \in Busy \cup {"run"} /\ f <= mb[w] /\ mb[w] < f + N_MINI
           \/ pc[w] = "bar" /\ f < mb[w] /\ mb[w] <= f + N_MINI
           \/ pc[w] = "done" /\ mb[w] = f
      /\ phase[w] = "drain" =>
           \/ pc[w] \in Busy \cup {"run"} /\ mb[w] = f + N_MINI
           \/ pc[w] \in {"bar", "hot", "batch"} /\ mb[w] = f + N_MINI + 1
      /\ phase[w] = "left" => pc[w] \in Busy \cup {"run", "exit"} /\ mb[w] = f + N_MINI + 1
      /\ pc[w] = "hot" => w = Leader[node_id[w]]
      /\ pc[w] = "exit" => leftover[w] = <<>>
      /\ pc[w] \notin Busy => txn[w] = NoTxn
  BY Zenon DEF LoopInv
<1>. HIDE DEF f, g
<1>1. CASE Inner(w)
  <2>1. /\ pc[w] \in Busy /\ pc'[w] \in Busy /\ phase' = phase /\ batch' = batch /\ mb' = mb
        /\ leftover' = leftover /\ txn' = txn
    BY Zenon, <1>1 DEF Inner
  <2>. QED  BY Zenon, <1>f, <1>l, <2>1 DEF LoopInv, f, Busy
<1>2. ASSUME NEW n \in Queues, RunTxn(w, n) PROVE LoopInv(w)'
  <2>1. /\ pc[w] = "run" /\ phase' = phase /\ batch' = batch /\ mb' = mb
        /\ phase[w] \in {"mini", "drain"}
        /\ pc'[w] = "lock" \/ (pc'[w] = "run" /\ txn' = txn)
    BY Zenon, <1>t, <1>2 DEF RunTxn
  <2>. QED  BY Zenon, <1>f, <1>l, <2>1 DEF LoopInv, f, Busy
<1>3. CASE EndMiniBatch(w)
  <2>1. /\ pc[w] = "run" /\ phase' = phase /\ batch' = batch /\ mb'[w] = mb[w] + 1
        /\ phase[w] \in {"mini", "drain"} /\ pc'[w] = "bar" /\ txn' = txn
    BY Zenon, <1>t, <1>3 DEF EndMiniBatch, txnVars
  <2>. QED  BY <1>f, <1>l, <2>1 DEF LoopInv, f, Busy
<1>4. CASE LeaveBarrier(w)
  <2>1. /\ pc[w] = "bar" /\ batch' = batch /\ mb' = mb /\ txn' = txn
        /\ \/ /\ phase[w] = "mini" /\ pc'[w] = "run"
              /\ phase'[w] = IF mb[w] - orig_mb_num(w) < N_MINI THEN "mini" ELSE "drain"
           \/ /\ phase[w] = "drain" /\ phase'[w] = "drain"
              /\ pc'[w] = IF w = Leader[node_id[w]] THEN "hot" ELSE "batch"
    BY Zenon, <1>t, <1>4 DEF LeaveBarrier, txnVars
  <2>. QED  BY <1>f, <1>l, <2>1 DEF LoopInv, f, Busy
<1>5. CASE Finish(w)
  <2>1. /\ pc[w] = "puts" /\ phase' = phase /\ batch' = batch /\ mb' = mb
        /\ pc'[w] = "run" /\ txn'[w] = NoTxn
    BY Zenon, <1>t, <1>5 DEF Finish
  <2>. QED  BY Zenon, <1>f, <1>l, <2>1 DEF LoopInv, f, Busy
<1>6. CASE HotPeriod(w)
  <2>1. /\ pc[w] = "hot" /\ phase' = phase /\ batch' = batch /\ mb' = mb
        /\ pc'[w] = "batch" /\ txn' = txn
    BY Zenon, <1>t, <1>6 DEF HotPeriod, loopVars, txnVars
  <2>. QED  BY Zenon, <1>f, <1>l, <2>1 DEF LoopInv, f, Busy
<1>7. CASE EnterLeftover(w)
  <2>1. /\ pc[w] = "batch" /\ phase'[w] = "left" /\ batch' = batch /\ mb' = mb
        /\ pc'[w] = "run" /\ txn' = txn
    BY Zenon, <1>t, <1>7 DEF EnterLeftover, txnVars
  <2>. QED  BY Zenon, <1>f, <1>l, <2>1 DEF LoopInv, f, Busy
<1>8. CASE RunLeftover(w)
  <2>1. /\ pc[w] = "run" /\ phase[w] = "left" /\ phase' = phase /\ batch' = batch /\ mb' = mb
        /\ pc'[w] = "lock" \/ (pc'[w] = "exit" /\ leftover'[w] = <<>> /\ txn' = txn)
    BY Zenon, <1>t, <1>8 DEF RunLeftover
  <2>. QED  BY Zenon, <1>f, <1>l, <2>1 DEF LoopInv, f, Busy
<1>9. CASE NextBatch(w)
  <2>1. /\ pc[w] = "exit" /\ phase'[w] = "mini" /\ batch'[w] = batch[w] + 1 /\ mb' = mb
        /\ \/ batch[w] < Len(Sched[w]) /\ pc'[w] = "run"
           \/ pc'[w] = "done"
        /\ txn' = txn
    BY Zenon, <1>t, <1>9 DEF NextBatch, txnVars
  <2>2. Len(Sched[w]) \in Nat
    BY ConstantsAssumption
  <2>3. FirstMb(batch'[w]) = g
    BY Zenon, <2>1 DEF g
  <2>4. phase[w] = "left"
    BY Zenon, <1>f, <1>l, <2>1 DEF Busy
  <2>. QED  BY <1>f, <1>l, <2>1, <2>2, <2>3, <2>4 DEF LoopInv, Busy
<1>. QED  BY Zenon, <1>1, <1>2, <1>3, <1>4, <1>5, <1>6, <1>7, <1>8, <1>9, InnerStep DEF Outer

\* What a step does to the batch of its worker.
LEMMA WorkerMoves ==
  ASSUME IInv, NEW w \in Workers, Step(w) \/ Handle(w), LoopInv(w)
  PROVE  /\ batch'[w] = batch[w] \/ (batch'[w] = batch[w] + 1 /\ NextBatch(w))
         /\ mb'[w] = mb[w] \/ (mb'[w] = mb[w] + 1 /\ pc[w] = "run" /\ pc'[w] = "bar")
         /\ OpenBatch(w)' >= OpenBatch(w)
         /\ phase'[w] = "left" => \/ phase[w] = "left" /\ batch'[w] = batch[w]
                                  \/ EnterLeftover(w)
         /\ HasSent(w) => \/ HasSent(w)' /\ batch'[w] = batch[w]
                          \/ batch'[w] = batch[w] + 1
         /\ w = Leader[node_id[w]] /\ ~HotPeriod(w) => Unsent(w)' = Unsent(w)
<1>t. /\ DOMAIN pc = Workers /\ DOMAIN phase = Workers /\ DOMAIN batch = Workers /\ DOMAIN mb = Workers
  BY Zenon DEF IInv, TypeOK
<1>f. batch[w] \in Nat
  BY Zenon, LoopFacts
<1>p. /\ pc[w] \in Busy => ~(pc[w] \in {"run", "bar", "hot", "batch", "exit", "done"})
      /\ pc'[w] \in Busy => ~(pc'[w] \in {"run", "bar", "hot", "batch", "exit", "done"})
  BY Zenon DEF Busy
<1>l. /\ pc[w] = "exit" => phase[w] = "left"
      /\ pc[w] = "batch" => phase[w] = "drain"
      /\ phase[w] = "left" => pc[w] \in Busy \cup {"run", "exit"}
  BY Zenon, LoopFacts DEF LoopInv, Busy
<1>1. CASE Inner(w) \/ Finish(w)
  <2>1. /\ pc[w] \in Busy /\ pc'[w] \in Busy \cup {"run"} /\ phase' = phase /\ batch' = batch /\ mb' = mb
    BY Zenon, <1>t, <1>1 DEF Inner, Finish, Busy
  <2>. QED  BY <1>f, <1>p, <2>1 DEF OpenBatch, HasSent, Unsent
<1>2. ASSUME NEW n \in Queues, RunTxn(w, n)
      PROVE  /\ pc[w] = "run" /\ pc'[w] \in {"run", "lock"} /\ UNCHANGED <<phase, batch, mb>>
  BY Zenon, <1>t, <1>2 DEF RunTxn
<1>3. CASE EndMiniBatch(w)
  <2>1. /\ pc[w] = "run" /\ phase' = phase /\ batch' = batch /\ mb'[w] = mb[w] + 1
        /\ pc'[w] = "bar"
    BY Zenon, <1>t, <1>3 DEF EndMiniBatch
  <2>. QED  BY <1>f, <2>1 DEF OpenBatch, HasSent, Unsent
<1>4. CASE LeaveBarrier(w)
  <2>1. /\ pc[w] = "bar" /\ batch' = batch /\ mb' = mb
        /\ \/ phase[w] = "mini" /\ pc'[w] = "run" /\ phase'[w] \in {"mini", "drain"}
           \/ /\ phase[w] = "drain" /\ phase'[w] = "drain"
              /\ pc'[w] = IF w = Leader[node_id[w]] THEN "hot" ELSE "batch"
    BY Zenon, <1>t, <1>4 DEF LeaveBarrier
  <2>. QED  BY <1>f, <2>1 DEF OpenBatch, HasSent, Unsent
<1>5. CASE HotPeriod(w)
  <2>1. /\ pc[w] = "hot" /\ phase' = phase /\ batch' = batch /\ mb' = mb /\ pc'[w] = "batch"
    BY Zenon, <1>t, <1>5 DEF HotPeriod, loopVars
  <2>. QED  BY <1>f, <1>l, <1>5, <2>1 DEF OpenBatch, HasSent, Unsent
<1>6. CASE EnterLeftover(w)
  <2>1. /\ pc[w] = "batch" /\ phase'[w] = "left" /\ batch' = batch /\ mb' = mb /\ pc'[w] = "run"
    BY Zenon, <1>t, <1>6 DEF EnterLeftover
  <2>. QED  BY <1>f, <1>6, <2>1 DEF OpenBatch, HasSent, Unsent
<1>7. CASE RunLeftover(w)
  <2>1. /\ pc[w] = "run" /\ phase[w] = "left" /\ phase' = phase /\ batch' = batch /\ mb' = mb
        /\ pc'[w] \in {"lock", "exit"}
    BY Zenon, <1>t, <1>7 DEF RunLeftover
  <2>. QED  BY <1>f, <2>1 DEF OpenBatch, HasSent, Unsent
<1>8. CASE NextBatch(w)
  <2>1. /\ pc[w] = "exit" /\ phase'[w] = "mini" /\ batch'[w] = batch[w] + 1 /\ mb' = mb
        /\ pc'[w] \in {"run", "done"}
    BY Zenon, <1>t, <1>8 DEF NextBatch
  <2>. QED  BY <1>f, <1>l, <1>8, <2>1 DEF OpenBatch, HasSent, Unsent
<1>9. CASE /\ pc[w] = "run" /\ pc'[w] \in {"run", "lock"} /\ UNCHANGED <<phase, batch, mb>>
  BY <1>f, <1>9 DEF OpenBatch, HasSent, Unsent
<1>. QED  BY Zenon, <1>1, <1>2, <1>3, <1>4, <1>5, <1>6, <1>7, <1>8, <1>9, InnerStep DEF Outer

\* The others do not move.
LEMMA OtherMoves ==
  ASSUME IInv, NEW w \in Workers, Step(w) \/ Handle(w), NEW v \in Workers, v # w
  PROVE  /\ batch'[v] = batch[v] /\ phase'[v] = phase[v] /\ pc'[v] = pc[v] /\ mb'[v] = mb[v]
         /\ OpenBatch(v)' = OpenBatch(v) /\ Unsent(v)' = Unsent(v)
         /\ HasSent(v)' <=> HasSent(v)
<1>1. /\ batch'[v] = batch[v] /\ phase'[v] = phase[v] /\ pc'[v] = pc[v] /\ mb'[v] = mb[v]
  BY Zenon, Others, OtherBatch
<1>. QED  BY Zenon, <1>1 DEF OpenBatch, Unsent, HasSent

\* The numbers of mini-batches are at most one apart.
LEMMA CloseStep ==
  ASSUME IInv, NEW w \in Workers, Step(w) \/ Handle(w), LoopInv(w), MbClose
  PROVE  MbClose'
<1>. SUFFICES ASSUME NEW u \in Workers, NEW v \in Workers PROVE mb'[u] + 1 >= mb'[v]
  BY Zenon DEF MbClose
<1>1. mb[u] \in Nat /\ mb[v] \in Nat /\ mb[w] \in Nat
  BY Zenon DEF IInv, TypeOK
<1>2. mb[u] + 1 >= mb[v] /\ (pc[v] # "bar" => mb[u] >= mb[v])
  BY Zenon DEF MbClose, IInv, BarrierInv
<1>3. \A x \in {u, v} : \/ mb'[x] = mb[x]
                        \/ mb'[x] = mb[x] + 1 /\ pc[x] = "run"
  BY Zenon, WorkerMoves, OtherMoves
<1>. QED  BY <1>1, <1>2, <1>3

\* batch_bar keeps the workers of a node together.
LEMMA BatchStep ==
  ASSUME IInv, NEW w \in Workers, Step(w) \/ Handle(w), \A v \in Workers : LoopInv(v), BatchInv
  PROVE  BatchInv'
<1>. SUFFICES ASSUME NEW u \in Workers, NEW v \in Workers, node_id[u] = node_id[v]
              PROVE  /\ batch'[u] <= OpenBatch(v)'
                     /\ phase'[u] = "left" => \/ batch'[v] > batch'[u]
                                              \/ batch'[v] = batch'[u] /\ HasSent(v)'
  BY Zenon DEF BatchInv, InBatchBar, HasSent
<1>1. /\ batch[u] <= OpenBatch(v)
      /\ phase[u] = "left" => \/ batch[v] > batch[u]
                              \/ batch[v] = batch[u] /\ HasSent(v)
  BY Zenon DEF BatchInv, InBatchBar, HasSent
<1>2. /\ batch[u] \in Nat /\ batch[v] \in Nat /\ OpenBatch(v) \in Nat
  <2>1. batch[u] \in Nat /\ batch[v] \in Nat
    BY Zenon DEF IInv, TypeOK
  <2>. QED  BY <2>1 DEF OpenBatch
<1>3. /\ batch'[u] = batch[u] \/ (batch'[u] = batch[u] + 1 /\ NextBatch(u) /\ u = w)
      /\ batch'[v] = batch[v] \/ batch'[v] = batch[v] + 1
      /\ phase'[u] = "left" => \/ phase[u] = "left" /\ batch'[u] = batch[u]
                               \/ EnterLeftover(u) /\ u = w
      /\ HasSent(v) => \/ HasSent(v)' /\ batch'[v] = batch[v]
                       \/ batch'[v] = batch[v] + 1
  BY Zenon, WorkerMoves, OtherMoves
<1>4. OpenBatch(v)' >= OpenBatch(v) /\ OpenBatch(v)' \in Nat /\ OpenBatch(v)' >= batch'[v]
  <2>1. OpenBatch(v)' \in Nat /\ OpenBatch(v)' >= batch'[v]
    BY <1>2, <1>3 DEF OpenBatch
  <2>2. OpenBatch(v)' >= OpenBatch(v)
    BY <1>2, WorkerMoves, OtherMoves
  <2>. QED  BY Zenon, <2>1, <2>2
<1>5. CASE batch'[u] = batch[u]
  <2>1. batch'[u] <= OpenBatch(v)'
    BY <1>1, <1>2, <1>4, <1>5
  <2>2. CASE phase'[u] = "left" /\ phase[u] = "left"
    BY <1>1, <1>2, <1>3, <1>5, <2>1, <2>2
  <2>3. CASE EnterLeftover(u) /\ u = w
    <3>1. InBatchBar(u, v) /\ phase'[u] = "left"
      BY Zenon, <2>3 DEF EnterLeftover, IInv, TypeOK
    <3>2. batch[v] = batch[u] /\ HasSent(v)
      BY Zenon, <3>1 DEF InBatchBar, HasSent
    <3>. QED  BY <1>2, <1>3, <1>5, <2>1, <3>2
  <2>. QED  BY Zenon, <1>3, <2>1, <2>2, <2>3
<1>6. CASE batch'[u] = batch[u] + 1 /\ NextBatch(u) /\ u = w
  <2>1. phase'[u] # "left" /\ phase[u] = "left"
    <3>1. pc[u] = "exit" /\ phase'[u] = "mini"
      BY Zenon, <1>6 DEF NextBatch, IInv, TypeOK
    <3>2. phase[u] = "left"
      BY Zenon, <3>1, LoopFacts DEF LoopInv, Busy
    <3>. QED  BY Zenon, <3>1, <3>2
  <2>2. batch[v] > batch[u] \/ pc[v] = "exit"
    BY Zenon, <1>6 DEF NextBatch
  <2>3. batch[v] >= batch[u]
    BY <1>1, <1>2, <2>1
  <2>4. OpenBatch(v) >= batch[u] + 1
    BY <1>2, <2>2, <2>3 DEF OpenBatch
  <2>. QED  BY <1>2, <1>4, <1>6, <2>1, <2>4
<1>. QED  BY Zenon, <1>3, <1>5, <1>6

\* A node that opens a slot has not sent the mini-batch of the slot.
LEMMA SlotMbStep ==
  ASSUME IInv, NEW w \in Workers, Step(w) \/ Handle(w), \A v \in Workers : LoopInv(v),
         MbClose, BatchInv, SlotMbInv
  PROVE  SlotMbInv'
\* Those of a later batch are later.
<1>FirstMbOrder. ASSUME NEW c \in Nat, NEW d \in Nat, c > 0, c <= d
       PROVE  FirstMb(c) <= FirstMb(d)
  <2>. USE <1>FirstMbOrder
  <2>1. N_MINI \in Nat
    BY Zenon, ConstantsAssumption
  <2>. DEFINE m == N_MINI + 1
              a == c - 1
              e == d - c
  <2>2. m \in Nat /\ a \in Nat /\ e \in Nat /\ d - 1 = a + e
    BY <2>1
  <2>3. (a + e) * m = a * m + e * m /\ e * m \in Nat /\ a * m \in Nat
    BY <2>2
  <2>4. FirstMb(c) = 1 + a * m /\ FirstMb(d) = 1 + (a + e) * m
    BY Zenon, <2>2 DEF FirstMb
  <2>. QED  BY <2>3, <2>4
<1>. SUFFICES ASSUME NEW n \in Nodes, NEW e \in Slots(n)'
              PROVE  /\ e.mini_batch_num >= Unsent(Leader[n])'
                     /\ \A v \in Workers :
                          /\ e.mini_batch_num <= mb'[v]
                          /\ node_id[v] = n => e.mini_batch_num < FirstMb(OpenBatch(v)' + 1)
  BY Zenon DEF SlotMbInv
<1>. DEFINE m == e.mini_batch_num
            l == Leader[n]
<1>l. l \in Workers /\ node_id[l] = n
  BY Zenon, ConstantsAssumption
<1>n. \A v \in Workers : /\ mb[v] \in Nat /\ mb'[v] >= mb[v] /\ mb'[v] \in Nat
                         /\ batch[v] \in Nat /\ batch[v] > 0
                         /\ OpenBatch(v) \in Nat /\ OpenBatch(v) > 0
                         /\ OpenBatch(v)' \in Nat /\ OpenBatch(v)' >= OpenBatch(v)
  <2>. TAKE v \in Workers
  <2>1. mb[v] \in Nat /\ batch[v] \in Nat /\ batch[v] > 0
    BY Zenon, LoopFacts
  <2>2. mb'[v] = mb[v] \/ mb'[v] = mb[v] + 1
    BY Zenon, WorkerMoves, OtherMoves
  <2>3. batch'[v] = batch[v] \/ batch'[v] = batch[v] + 1
    BY Zenon, WorkerMoves, OtherMoves
  <2>4. OpenBatch(v)' >= OpenBatch(v)
    <3>1. v # w => OpenBatch(v)' = OpenBatch(v)
      BY Zenon, OtherMoves
    <3>2. OpenBatch(v) \in Nat
      BY <2>1 DEF OpenBatch
    <3>. QED  BY <3>1, <3>2, WorkerMoves
  <2>5. OpenBatch(v) \in Nat /\ OpenBatch(v) > 0 /\ OpenBatch(v)' \in Nat
    BY <2>1, <2>3 DEF OpenBatch
  <2>. QED  BY <2>1, <2>2, <2>4, <2>5
<1>1. CASE e \in Slots(n)
  <2>0. m \in Nat
    <3>1. hot_send_q[n] \in Seq(Counted)
      BY Zenon DEF IInv, TypeOK
    <3>2. e \in Counted
      BY <1>1, <3>1 DEF Slots, Range
    <3>. QED  BY Zenon, <3>2 DEF Counted
  <2>1. /\ m >= Unsent(l)
        /\ \A v \in Workers : m <= mb[v] /\ (node_id[v] = n => m < FirstMb(OpenBatch(v) + 1))
    BY Zenon, <1>1 DEF SlotMbInv
  <2>2. Unsent(l)' = Unsent(l)
    <3>1. CASE HotPeriod(w) /\ w = l
      <4>1. hot_send_q'[n] = <<>>
        BY Zenon, <1>l, <3>1 DEF HotPeriod, done_sending, IInv, TypeOK
      <4>2. Slots(n)' = {}
        BY <4>1 DEF Slots, Range
      <4>. QED  BY Zenon, <4>2
    <3>2. CASE ~HotPeriod(w) /\ w = l
      BY Zenon, <1>l, <3>2, WorkerMoves
    <3>. QED  BY Zenon, <1>l, <3>1, <3>2, OtherMoves
  <2>3. ASSUME NEW v \in Workers
        PROVE  m <= mb'[v] /\ (node_id[v] = n => m < FirstMb(OpenBatch(v)' + 1))
    <3>1. FirstMb(OpenBatch(v) + 1) <= FirstMb(OpenBatch(v)' + 1)
      <4>1. /\ OpenBatch(v) + 1 \in Nat /\ OpenBatch(v)' + 1 \in Nat /\ OpenBatch(v) + 1 > 0
            /\ OpenBatch(v) + 1 <= OpenBatch(v)' + 1
        BY <1>n
      <4>. QED  BY Zenon, <4>1, <1>FirstMbOrder
    <3>2. FirstMb(OpenBatch(v) + 1) \in Nat /\ FirstMb(OpenBatch(v)' + 1) \in Nat
      BY <1>n, FirstMbNext
    <3>. QED  BY <1>n, <2>0, <2>1, <3>1, <3>2
  <2>. QED  BY Zenon, <2>1, <2>2, <2>3
<1>2. CASE /\ AllAccessed(w) /\ phase[w] # "left" /\ n = node_id[w]
           /\ e = [txn |-> txn[w], mini_batch_num |-> mb[w]]
  <2>1. m = mb[w] /\ pc[w] = "access" /\ pc[w] \in Busy /\ phase[w] \in {"mini", "drain"}
    BY Zenon, <1>2, LoopFacts DEF AllAccessed, Busy
  <2>2. \A v \in Workers : mb[v] >= mb[w]
    BY Zenon, <2>1 DEF IInv, BarrierInv
  <2>3. mb[w] < FirstMb(batch[w] + 1)
    BY <2>1, LoopFacts DEF LoopInv, Busy
  <2>4. m >= Unsent(l)
    <3>1. /\ pc[l] # "bar" => mb[w] >= mb[l]
          /\ mb[w] + 1 >= mb[l] /\ mb[w] \in Nat
      BY Zenon, <1>l, <1>n DEF IInv, BarrierInv, MbClose
    <3>2. CASE HasSent(l)
      <4>1. pc[l] # "bar" /\ mb[l] = FirstMb(batch[l] + 1)
        BY Zenon, <1>l, <3>2, LoopFacts DEF LoopInv, HasSent, Busy
      <4>2. Unsent(l) = FirstMb(batch[l] + 1)
        BY Zenon, <3>2 DEF Unsent
      <4>. QED  BY Zenon, <2>1, <3>1, <4>1, <4>2
    <3>3. CASE ~HasSent(l)
      <4>1. Unsent(l) = FirstMb(batch[l]) /\ FirstMb(batch[l]) \in Nat /\ mb[l] \in Nat
        BY Zenon, <1>l, <3>3, LoopFacts DEF Unsent
      <4>2. FirstMb(batch[l]) <= mb[l] /\ (pc[l] = "bar" => FirstMb(batch[l]) < mb[l])
        <5>1. /\ N_MINI \in Nat /\ phase[l] \in {"mini", "drain"}
          BY Zenon, <1>l, <3>3, LoopFacts DEF HasSent
        <5>2. LoopInv(l)
          BY Zenon, <1>l
        <5>. QED  BY Zenon, <4>1, <5>1, <5>2, SinceFirst
      <4>. QED  BY <2>1, <3>1, <4>1, <4>2
    <3>. QED  BY Zenon, <3>2, <3>3
  <2>5. Unsent(l)' = Unsent(l)
    <3>1. ~HotPeriod(w)
      BY Zenon, <2>1 DEF HotPeriod
    <3>. QED  BY Zenon, <1>l, <1>2, <3>1, WorkerMoves, OtherMoves
  <2>6. ASSUME NEW v \in Workers
        PROVE  m <= mb'[v] /\ (node_id[v] = n => m < FirstMb(OpenBatch(v)' + 1))
    <3>1. m <= mb'[v]
      BY <1>n, <2>1, <2>2
    <3>2. ASSUME node_id[v] = n PROVE m < FirstMb(OpenBatch(v)' + 1)
      <4>1. batch[w] <= OpenBatch(v)
        BY Zenon, <1>2, <3>2 DEF BatchInv
      <4>2. /\ batch[w] + 1 \in Nat /\ OpenBatch(v)' + 1 \in Nat /\ batch[w] + 1 > 0
            /\ batch[w] + 1 <= OpenBatch(v)' + 1
        BY <1>n, <4>1
      <4>3. FirstMb(batch[w] + 1) <= FirstMb(OpenBatch(v)' + 1)
        BY Zenon, <4>2, <1>FirstMbOrder
      <4>4. FirstMb(batch[w] + 1) \in Nat /\ FirstMb(OpenBatch(v)' + 1) \in Nat
        BY <4>2, FirstMbNext
      <4>. QED  BY <1>n, <2>1, <2>3, <4>3, <4>4
    <3>. QED  BY Zenon, <3>1, <3>2
  <2>. QED  BY Zenon, <2>4, <2>5, <2>6
<1>. QED  BY Zenon, <1>1, <1>2, SlotsStep

-----------------------------------------------------------------------------
(* The left-overs.                                                          *)

\* Only what is not accelerated is pushed on the left-over queue.
LEMMA LeftStep ==
  ASSUME IInv, NEW w \in Workers, Step(w) \/ Handle(w), NEW v \in Workers, LeftInv(v)
  PROVE  LeftInv(v)'
\* The elements of a queue that gains or loses one.
<1>QueueElems. ASSUME NEW S, NEW s \in Seq(S), NEW e
       PROVE  /\ \A p \in DOMAIN Append(s, e) :
                   Append(s, e)[p] = e \/ (p \in DOMAIN s /\ Append(s, e)[p] = s[p])
              /\ s # <<>> => \A p \in DOMAIN Tail(s) : p + 1 \in DOMAIN s /\ Tail(s)[p] = s[p + 1]
  BY <1>QueueElems
\* A queue of transactions that are not accelerated stays one.
<1>LeftQueue. ASSUME NEW s \in Seq(Txns), NEW D, \A p \in DOMAIN s : s[p] \in D, NEW e \in Txns, e \in D
       PROVE  /\ \A p \in DOMAIN Append(s, e) : Append(s, e)[p] \in D
              /\ Append(s, e) \in Seq(Txns) /\ Append(s, e) # <<>>
  <2>. USE <1>LeftQueue
  <2>1. \A p \in DOMAIN Append(s, e) :
          Append(s, e)[p] = e \/ (p \in DOMAIN s /\ Append(s, e)[p] = s[p])
    BY Zenon, <1>QueueElems
  <2>2. Append(s, e) \in Seq(Txns) /\ Append(s, e) # <<>>
    OBVIOUS
  <2>. QED  BY Zenon, <2>1, <2>2
\* The same when the first one is taken.
<1>LeftTail. ASSUME NEW s \in Seq(Txns), NEW D, \A p \in DOMAIN s : s[p] \in D, s # <<>>
       PROVE  (\A p \in DOMAIN Tail(s) : Tail(s)[p] \in D) /\ Head(s) \in D
  <2>. USE <1>LeftTail
  <2>1. \A p \in DOMAIN Tail(s) : p + 1 \in DOMAIN s /\ Tail(s)[p] = s[p + 1]
    BY Zenon, <1>QueueElems
  <2>2. 1 \in DOMAIN s /\ Head(s) = s[1]
    OBVIOUS
  <2>. QED  BY Zenon, <2>1, <2>2
<1>t. /\ leftover[v] \in Seq(Txns) /\ do_accel \in [Txns -> BOOLEAN] /\ DOMAIN leftover = Workers
      /\ DOMAIN pc = Workers /\ DOMAIN txn = Workers
  BY Zenon DEF IInv, TypeOK
<1>e. \A p \in DOMAIN leftover[v] : leftover[v][p] \in NotAccel
  <2>1. \A p \in DOMAIN leftover[v] : leftover[v][p] \in Txns
    BY <1>t
  <2>. QED  BY Zenon, <2>1 DEF LeftInv, NotAccel
<1>m. \A t \in NotAccel : t \in NotAccel' /\ ~do_accel'[t]
  BY Zenon, AccelFalls DEF NotAccel
<1>1. CASE v # w
  <2>1. /\ leftover'[v] = leftover[v] /\ pc'[v] = pc[v] /\ phase'[v] = phase[v] /\ txn'[v] = txn[v]
        /\ pc[v] \in Busy => do_accel'[txn[v]] = do_accel[txn[v]]
    BY Zenon, <1>1, Others
  <2>. QED  BY Zenon, <1>e, <1>m, <2>1 DEF LeftInv
<1>2. CASE v = w /\ Inner(w)
  <2>1. leftover' = leftover /\ phase' = phase /\ txn' = txn /\ do_accel' = do_accel /\ pc[w] \in Busy
    BY Zenon, <1>2 DEF Inner
  <2>. QED  BY Zenon, <1>2, <2>1 DEF LeftInv
<1>3. ASSUME v = w, NEW n \in Queues, RunTxn(w, n) PROVE LeftInv(v)'
  <2>. DEFINE t == Head(q[w][n])
  <2>1. phase' = phase /\ phase[w] \in {"mini", "drain"} /\ do_accel' = do_accel
        /\ \/ leftover' = leftover
           \/ ~do_accel[t] /\ leftover'[w] = Append(leftover[w], t)
    BY Zenon, <1>t, <1>3 DEF RunTxn
  <2>2. t \in Txns
    <3>1. q \in [Workers -> [Queues -> Seq(Txns)]] /\ q[w][n] # <<>>
      BY Zenon, <1>3 DEF RunTxn, IsNext, IInv, TypeOK
    <3>2. q[w][n] \in Seq(Txns)
      BY Zenon, <1>3, <3>1
    <3>. QED  BY <3>1, <3>2
  <2>. HIDE DEF t
  <2>3. \A p \in DOMAIN leftover'[w] : leftover'[w][p] \in NotAccel
    <3>1. CASE leftover' = leftover
      BY Zenon, <1>3, <1>e, <3>1
    <3>2. CASE ~do_accel[t] /\ leftover'[w] = Append(leftover[w], t)
      <4>1. t \in NotAccel
        BY Zenon, <2>2, <3>2 DEF NotAccel
      <4>. QED  BY Zenon, <1>3, <1>t, <1>e, <2>2, <3>2, <4>1, <1>LeftQueue
    <3>. QED  BY Zenon, <2>1, <3>1, <3>2
  <2>. QED  BY Zenon, <1>3, <1>m, <2>1, <2>3 DEF LeftInv
<1>4. CASE v = w /\ (EndMiniBatch(w) \/ LeaveBarrier(w) \/ HotPeriod(w) \/ EnterLeftover(w) \/ NextBatch(w))
  <2>1. leftover' = leftover /\ pc'[w] \in {"bar", "run", "hot", "batch", "done"}
    BY Zenon, <1>t, <1>4 DEF EndMiniBatch, LeaveBarrier, HotPeriod, EnterLeftover, NextBatch, loopVars
  <2>. QED  BY Zenon, <1>4, <1>e, <1>m, <2>1 DEF LeftInv, Busy
<1>5. CASE v = w /\ Finish(w)
  <2>1. pc[w] \in Busy /\ pc'[w] = "run" /\ OwnTxns(w) /\ TypeOK
    BY Zenon, <1>t, <1>5 DEF Finish, Busy, IInv, WorkerInv
  <2>2. txn[w] \in Txns
    BY Zenon, <2>1, BusyFacts
  <2>3. \A p \in DOMAIN leftover'[w] : leftover'[w][p] \in NotAccel'
    <3>1. CASE leftover' = leftover
      BY Zenon, <1>5, <1>e, <1>m, <3>1
    <3>2. CASE /\ do_accel' = [do_accel EXCEPT ![txn[w]] = FALSE]
               /\ leftover'[w] = Append(leftover[w], txn[w])
      <4>1. txn[w] \in NotAccel'
        BY Zenon, <1>t, <2>2, <3>2 DEF NotAccel
      <4>. QED  BY Zenon, <1>5, <1>t, <1>e, <1>m, <2>2, <3>2, <4>1, <1>LeftQueue
    <3>3. CASE /\ phase[w] = "left"
               /\ leftover'[w] = Tail(leftover[w]) \/ leftover'[w] = Tail(Append(leftover[w], txn[w]))
      <4>1. txn[w] \in NotAccel /\ leftover[w] # <<>>
        BY Zenon, <1>5, <2>1, <2>2, <3>3 DEF LeftInv, NotAccel, OwnTxns
      <4>2. \A p \in DOMAIN leftover'[w] : leftover'[w][p] \in NotAccel
        BY Zenon, <1>5, <1>t, <1>e, <2>2, <3>3, <4>1, <1>LeftQueue, <1>LeftTail
      <4>. QED  BY Zenon, <1>m, <4>2
    <3>4. \/ leftover' = leftover
          \/ /\ do_accel' = [do_accel EXCEPT ![txn[w]] = FALSE]
             /\ leftover'[w] = Append(leftover[w], txn[w])
          \/ /\ phase[w] = "left"
             /\ leftover'[w] = Tail(leftover[w]) \/ leftover'[w] = Tail(Append(leftover[w], txn[w]))
      BY Zenon, <1>5, <1>t DEF Finish, FinishTxn, FinishLeftover
    <3>. QED  BY Zenon, <3>1, <3>2, <3>3, <3>4
  <2>. QED  BY Zenon, <1>5, <2>1, <2>3 DEF LeftInv, NotAccel, Busy
<1>6. CASE v = w /\ RunLeftover(w)
  <2>1. CASE leftover' = leftover /\ txn'[w] = Head(leftover[w]) /\ leftover[w] # <<>>
    <3>1. txn'[w] \in NotAccel
      BY Zenon, <1>t, <1>e, <1>6, <2>1, <1>LeftTail
    <3>. QED  BY Zenon, <1>6, <1>e, <1>m, <2>1, <3>1 DEF LeftInv
  <2>2. CASE leftover'[w] = <<>> /\ pc'[w] = "exit"
    <3>1. DOMAIN leftover'[w] = {}
      BY <2>2
    <3>. QED  BY Zenon, <1>6, <2>2, <3>1 DEF LeftInv, Busy
  <2>3. \/ leftover' = leftover /\ txn'[w] = Head(leftover[w]) /\ leftover[w] # <<>>
        \/ leftover'[w] = <<>> /\ pc'[w] = "exit"
    <3>1. n_orig[w] \in Nat
      BY Zenon DEF IInv, TypeOK
    <3>2. Len(leftover[w]) > n_orig[w] \div DROP_DIV => leftover[w] # <<>>
      BY Zenon, <1>6, <1>t, <3>1, LeftoverLimit
    <3>. QED  BY Zenon, <1>6, <1>t, <3>2 DEF RunLeftover
  <2>. QED  BY Zenon, <2>1, <2>2, <2>3
<1>. QED  BY Zenon, <1>1, <1>2, <1>3, <1>4, <1>5, <1>6, InnerStep DEF Outer

-----------------------------------------------------------------------------
(* What a transaction has written.                                          *)

\* Which of its writes a worker has made, before and after its step.
WrittenMoves(w, l) ==
  /\ Holds(w, l) /\ Holds(w, l)' /\ Written(w, l) => Written(w, l)'
  /\ Holds(w, l)' /\ Written(w, l)' =>
       /\ Holds(w, l) /\ txn'[w] = txn[w] /\ Key(w, l)' = Key(w, l)
       /\ (IsLocal(w, l)' <=> IsLocal(w, l)) /\ Mode(w, l) = "WRITE"
       /\ \/ Written(w, l) /\ op'[w][l].tuple = op[w][l].tuple
          \/ Access(w) /\ l = i[w]
       /\ pc'[w] = "access" \/ pc[w] # "access" \/ AllAccessed(w)

\* What a step does to the operations its own worker has written.
LEMMA WrittenStep ==
  ASSUME IInv, NEW w \in Workers, Step(w) \/ Handle(w), NEW l \in 1 .. N_OPS
  PROVE  WrittenMoves(w, l)
\* A step inside a transaction after which nothing is written that was not.
<1>SameWritten. ASSUME txn' = txn, do_accel' = do_accel,
                \/ pc[w] \in {"lock", "mutex", "wait"} /\ ~Written(w, l)'
                \/ /\ Holds(w, l)' => Holds(w, l) /\ op'[w][l].tuple = op[w][l].tuple
                   /\ UNCHANGED <<pc, i, rc>> \/ (pc[w] = "clear" /\ pc'[w] \in {"clear", "puts"} /\ rc' = rc)
       PROVE  WrittenMoves(w, l)
  <2>. USE <1>SameWritten
  <2>1. /\ Key(w, l)' = Key(w, l) /\ Mode(w, l)' = Mode(w, l)
        /\ IsLocal(w, l)' <=> IsLocal(w, l)
    BY Zenon DEF Key, Mode, Ops, ops, IsLocal
  <2>2. CASE pc[w] \in {"lock", "mutex", "wait"} /\ ~Written(w, l)'
    BY Zenon, <2>2 DEF WrittenMoves, Written
  <2>3. CASE /\ Holds(w, l)' => Holds(w, l) /\ op'[w][l].tuple = op[w][l].tuple
             /\ UNCHANGED <<pc, i, rc>> \/ (pc[w] = "clear" /\ pc'[w] \in {"clear", "puts"} /\ rc' = rc)
    <3>1. Written(w, l)' <=> Written(w, l)
      BY Zenon, <2>1, <2>3 DEF Written
    <3>2. Written(w, l) => Mode(w, l) = "WRITE"
      BY Zenon DEF Written
    <3>. QED  BY Zenon, <2>1, <2>3, <3>1, <3>2 DEF WrittenMoves
  <2>. QED  BY Zenon, <2>2, <2>3
<1>t. /\ op \in [Workers -> [1 .. N_OPS -> Future]] /\ DOMAIN pc = Workers /\ DOMAIN rc = Workers
      /\ DOMAIN i = Workers /\ N_OPS \in Nat
  BY Zenon, NOpsNat DEF IInv, TypeOK
<1>1. CASE EarlyTest(w) \/ LocalLock(w) \/ SendGetReq(w) \/ AllLocked(w) \/ HandleGetRes(w)
  <2>1. pc[w] \in {"lock", "mutex", "wait"} /\ txn' = txn /\ do_accel' = do_accel
    BY Zenon, <1>1 DEF EarlyTest, LocalLock, SendGetReq, AllLocked, HandleGetRes, txnVars
  <2>2. \/ pc'[w] \in {"lock", "mutex", "wait"} \/ (pc'[w] = "clear" /\ rc'[w] = "ROLLBACK")
        \/ pc'[w] = "access" /\ i'[w] = 1
    BY Zenon, <1>t, <1>1 DEF EarlyTest, LocalLock, SendGetReq, AllLocked, HandleGetRes, NextLock,
       StartRollback
  <2>3. ~(l < 1)
    BY <1>t
  <2>4. ~Written(w, l)'
    BY Zenon, <2>2, <2>3 DEF Written
  <2>. QED  BY Zenon, <2>1, <2>4, <1>SameWritten
<1>2. CASE Access(w)
  <2>1. /\ pc[w] = "access" /\ txn' = txn /\ do_accel' = do_accel /\ pc' = pc /\ i'[w] = i[w] + 1
        /\ pc[w] \in Busy /\ i[w] <= Len(Ops(w))
    BY Zenon, <1>t, <1>2 DEF Access, txnVars, Busy
  <2>2. i[w] \in 1 .. N_OPS
    BY Zenon, <2>1, AtOp
  <2>3. /\ Key(w, l)' = Key(w, l) /\ Mode(w, l)' = Mode(w, l)
        /\ IsLocal(w, l)' <=> IsLocal(w, l)
    BY Zenon, <2>1 DEF Key, Mode, Ops, ops, IsLocal
  <2>4. op'[w][l].st = op[w][l].st /\ (l # i[w] => op'[w][l] = op[w][l])
    BY Zenon, <1>t, <1>2, <2>2 DEF Access
  <2>5. Written(w, l) => Written(w, l)'
    BY <1>t, <2>1, <2>2, <2>3 DEF Written
  <2>6. Written(w, l)' => Mode(w, l) = "WRITE" /\ (Written(w, l) \/ l = i[w])
    BY <1>t, <2>1, <2>2, <2>3 DEF Written
  <2>7. Written(w, l) => l # i[w]
    BY <1>t, <2>1, <2>2 DEF Written
  <2>. QED  BY Zenon, <1>2, <2>1, <2>3, <2>4, <2>5, <2>6, <2>7 DEF WrittenMoves, Holds
<1>3. CASE AllAccessed(w)
  <2>1. /\ pc[w] = "access" /\ txn' = txn /\ do_accel' = do_accel /\ pc'[w] = "clear"
        /\ rc'[w] = "COMMIT" /\ i[w] > Len(Ops(w)) /\ op' = op
    BY Zenon, <1>t, <1>3 DEF AllAccessed, lockVars
  <2>2. /\ Key(w, l)' = Key(w, l) /\ Mode(w, l)' = Mode(w, l)
        /\ IsLocal(w, l)' <=> IsLocal(w, l)
    BY Zenon, <2>1 DEF Key, Mode, Ops, ops, IsLocal
  <2>3. Holds(w, l) => l < i[w]
    <3>1. Holds(w, l) => l <= Len(Ops(w))
      BY Zenon, AtMsg DEF Holds
    <3>2. Len(Ops(w)) \in Nat /\ i[w] \in Nat
      BY Zenon, <2>1, BusyBefore DEF Busy
    <3>. QED  BY <1>t, <2>1, <3>1, <3>2
  <2>4. Holds(w, l)' <=> Holds(w, l)
    BY Zenon, <2>1 DEF Holds
  <2>. QED  BY Zenon, <1>3, <2>1, <2>2, <2>3, <2>4 DEF WrittenMoves, Written
<1>4. CASE Clear(w)
  <2>1. /\ pc[w] = "clear" /\ txn' = txn /\ do_accel' = do_accel /\ pc'[w] = "clear" /\ rc' = rc
        /\ pc[w] \in Busy /\ i[w] <= Len(Ops(w))
    BY Zenon, <1>4 DEF Clear, txnVars, Busy
  <2>2. PICK j \in 1 .. N_OPS : j = i[w]
    BY Zenon, <2>1, AtOp
  <2>3. op[w][j] \in Future
    BY Zenon, <1>t
  <2>4. /\ moved(op[w][j], "clear").st = "clear"
        /\ moved(op[w][j], "putreq").tuple = op[w][j].tuple
    BY Zenon, <2>3, MovedFacts DEF Status
  <2>5. \/ op[w][j].st = "held" /\ op' = [op EXCEPT ![w][j] = moved(op[w][j], "clear")]
        \/ op[w][j].st = "held" /\ op' = [op EXCEPT ![w][j] = moved(op[w][j], "putreq")]
        \/ op' = op
    BY Zenon, <1>4, <2>2 DEF Clear, lockVars
  <2>6. Holds(w, l)' => Holds(w, l) /\ op'[w][l].tuple = op[w][l].tuple
    BY Zenon, <1>t, <2>4, <2>5 DEF Holds
  <2>. QED  BY Zenon, <2>1, <2>6, <1>SameWritten
<1>5. CASE AllCleared(w)
  <2>1. /\ pc[w] = "clear" /\ txn' = txn /\ do_accel' = do_accel /\ pc'[w] = "puts" /\ rc' = rc /\ op' = op
    BY Zenon, <1>t, <1>5 DEF AllCleared, txnVars, lockVars
  <2>. QED  BY Zenon, <2>1, <1>SameWritten DEF Holds
<1>6. ASSUME NEW j \in 1 .. N_OPS, HandleGetReq(w, j) PROVE WrittenMoves(w, l)
  <2>1. /\ op[w][j].st = "getreq" /\ txn' = txn /\ do_accel' = do_accel /\ pc' = pc
    BY Zenon, <1>6 DEF HandleGetReq, txnVars
  <2>2. pc[w] \in Busy
    BY Zenon, <2>1, AtMsg
  <2>3. LogEntry(w, j) /\ i[w] \in Nat /\ j \in Nat /\ Len(Ops(w)) \in Nat /\ j <= Len(Ops(w))
    BY <1>t, <2>1, <2>2, BusyBefore, AtMsg
  <2>4. pc[w] = "wait"
    BY <2>1, <2>2, <2>3 DEF LogEntry, Entry, Busy
  <2>. QED  BY Zenon, <2>1, <2>4, <1>SameWritten DEF Written
<1>7. ASSUME NEW j \in 1 .. N_OPS, HandlePutReq(w, j) \/ HandlePutRes(w, j) PROVE WrittenMoves(w, l)
  <2>1. /\ txn' = txn /\ do_accel' = do_accel /\ UNCHANGED <<pc, i, rc>>
        /\ \/ op' = [op EXCEPT ![w][j] = moved(op[w][j], "putres")]
           \/ op' = [op EXCEPT ![w][j] = moved(op[w][j], "clear")]
    BY Zenon, <1>7 DEF HandlePutReq, HandlePutRes, txnVars
  <2>2. moved(op[w][j], "clear").st = "clear" /\ moved(op[w][j], "putres").st = "putres"
    BY Zenon, <1>t, MovedFacts DEF Status
  <2>3. Holds(w, l)' => op'[w][l] = op[w][l]
    BY Zenon, <1>t, <2>1, <2>2 DEF Holds
  <2>. QED  BY Zenon, <2>1, <2>3, <1>SameWritten DEF Holds
<1>8. CASE Outer(w)
  <2>1. pc'[w] \notin {"access", "clear", "puts"}
    BY ZenonT(30), <1>t, <1>8 DEF Outer, RunTxn, EndMiniBatch, LeaveBarrier, Finish, HotPeriod,
       EnterLeftover, RunLeftover, NextBatch
  <2>2. ~Written(w, l)'
    BY Zenon, <2>1 DEF Written
  <2>3. ~Holds(w, l) \/ ~Holds(w, l)'
    <3>1. CASE Finish(w)
      <4>1. op'[w] = NewLog
        BY Zenon, <1>t, <3>1 DEF Finish
      <4>2. NewFuture.st = "none"
        BY Zenon DEF NewFuture
      <4>3. NewLog[l] = NewFuture
        BY Zenon DEF NewLog
      <4>4. op'[w][l].st = "none"
        BY Zenon, <4>1, <4>2, <4>3
      <4>. QED  BY Zenon, <4>4 DEF Holds
    <3>2. CASE ~Finish(w)
      <4>1. pc[w] \notin Busy
        BY Zenon, <1>8, <3>2 DEF Outer, RunTxn, EndMiniBatch, LeaveBarrier, HotPeriod,
           EnterLeftover, RunLeftover, NextBatch, Busy
      <4>. QED  BY Zenon, <4>1, AtMsg DEF Holds
    <3>. QED  BY Zenon, <3>1, <3>2
  <2>. QED  BY Zenon, <2>2, <2>3 DEF WrittenMoves
<1>. QED  BY Zenon, <1>1, <1>2, <1>3, <1>4, <1>5, <1>6, <1>7, <1>8 DEF Step, Handle, Outer

\* The other workers' writes are as they were.
LEMMA OtherWritten ==
  ASSUME IInv, NEW w \in Workers, Step(w) \/ Handle(w), NEW v \in Workers, v # w, NEW l \in 1 .. N_OPS
  PROVE  /\ Holds(v, l)' <=> Holds(v, l)
         /\ txn'[v] = txn[v] /\ op'[v] = op[v] /\ pc'[v] = pc[v]
         /\ Holds(v, l) => /\ Written(v, l)' <=> Written(v, l)
                           /\ Key(v, l)' = Key(v, l) /\ (IsLocal(v, l)' <=> IsLocal(v, l))
<1>1. /\ pc'[v] = pc[v] /\ i'[v] = i[v] /\ rc'[v] = rc[v] /\ op'[v] = op[v] /\ txn'[v] = txn[v]
      /\ pc[v] \in Busy => Ops(v)' = Ops(v)
  BY Zenon, Others
<1>2. Holds(v, l) => pc[v] \in Busy
  BY Zenon, AtMsg DEF Holds
<1>. QED  BY Zenon, <1>1, <1>2 DEF Holds, Written, IsLocal, Key, Mode

\* A write of my_execute is of a written key of its transaction.
LEMMA WroteKey ==
  ASSUME IInv, NEW w \in Workers, pc[w] \in Busy, phase[w] # "left",
         NEW l \in 1 .. N_OPS, Holds(w, l), Mode(w, l) = "WRITE"
  PROVE  Key(w, l) \in WrittenKeys(txn[w])
<1>1. Ops(w) = cold_ops[txn[w]] /\ l \in 1 .. Len(Ops(w))
  BY Zenon, BusyFacts, AtMsg DEF Holds, OwnTxns, Ops, ops, IInv, WorkerInv
<1>2. Ops(w) \in Seq(Op)
  BY Zenon, BusyFacts, BusyBefore
<1>3. l \in DOMAIN cold_ops[txn[w]]
  BY <1>1, <1>2
<1>. QED  BY Zenon, <1>1, <1>3 DEF Key, Mode, WrittenKeys, Range

\* Some transaction with a written key has an operation.
LEMMA HasOp ==
  ASSUME NEW t \in Txns, NEW k \in WrittenKeys(t)
  PROVE  1 \in 1 .. N_OPS
<1>1. PICK p \in DOMAIN cold_ops[t] : cold_ops[t][p].mode = "WRITE"
  BY Zenon DEF WrittenKeys, Range
<1>2. /\ cold_ops[t] \in Seq(Op) /\ hot_ops[t] \in Seq(Op)
      /\ Len(cold_ops[t]) + Len(hot_ops[t]) <= N_OPS /\ N_OPS \in Nat
  BY Zenon, ConstantsAssumption
<1>3. /\ Len(cold_ops[t]) \in Nat /\ Len(hot_ops[t]) \in Nat
      /\ p \in 1 .. Len(cold_ops[t])
  BY <1>2
<1>4. \A x, y, z, u \in Nat : x + y <= u /\ 1 <= z /\ z <= x => 1 <= u
  OBVIOUS
<1>5. p \in Nat /\ 1 <= p /\ p <= Len(cold_ops[t])
  BY <1>3
<1>6. 1 <= N_OPS
  BY Zenon, <1>2, <1>3, <1>4, <1>5
<1>. QED  BY <1>2, <1>6

\* A commit still holds the rows it has written.
LEMMA CommitHolds ==
  ASSUME IInv, NEW w \in Workers, AllAccessed(w), phase[w] # "left",
         NEW k \in WrittenKeys(txn[w])
  PROVE  \E j \in 1 .. N_OPS : Holds(w, j) /\ Key(w, j) = k /\ Mode(w, j) = "WRITE"
<1>1. pc[w] = "access" /\ pc[w] \in Busy /\ i[w] > Len(Ops(w))
  BY Zenon DEF AllAccessed, Busy
<1>2. /\ OwnTxns(w) /\ Len(Ops(w)) \in Nat /\ Len(Ops(w)) <= N_OPS
      /\ TypeOK /\ N_OPS \in Nat /\ \A j \in 1 .. N_OPS : LogEntry(w, j)
  BY Zenon, <1>1, BusyBefore
<1>3. Ops(w) = cold_ops[txn[w]] /\ Ops(w) \in Seq(Op)
  BY Zenon, <1>1, <1>2, BusyFacts DEF OwnTxns, Ops, ops
<1>4. PICK p \in DOMAIN Ops(w) : Ops(w)[p].mode = "WRITE" /\ Ops(w)[p].key = k
  BY Zenon, <1>3 DEF WrittenKeys, Range
<1>5. p <= Len(Ops(w)) /\ p \in 1 .. N_OPS
  BY <1>2, <1>3
<1>6. Key(w, p) = k /\ Mode(w, p) = "WRITE"
  BY Zenon, <1>4 DEF Key, Mode
<1>7. Holds(w, p)
  BY Zenon, <1>1, <1>2, <1>5 DEF LogEntry, Entry, Holds
<1>. QED  BY Zenon, <1>5, <1>6, <1>7

\* What a step does to the queues of slots.
LEMMA QueueStep ==
  ASSUME NEW w \in Workers, Step(w) \/ Handle(w)
  PROVE  \/ hot_send_q' = hot_send_q \/ HotPeriod(w)
         \/ AllAccessed(w) /\ phase[w] # "left"
BY Zenon DEF Step, Handle, RunTxn, EndMiniBatch, LeaveBarrier, EarlyTest, LocalLock, SendGetReq,
   AllLocked, Access, AllAccessed, Clear, AllCleared, Finish, EnterLeftover,
   RunLeftover, NextBatch, HandleGetRes, HandleGetReq, HandlePutReq, HandlePutRes, Id

-----------------------------------------------------------------------------
(* Counting the places of a transaction.                                    *)

\* Queues without the transaction, and a schedule that names it once.
LEMMA CountOnce ==
  ASSUME FiniteSetFacts
  PROVE  /\ \A t : Count(<<>>, t) = 0
         /\ \A s \in Seq(Txns) : \A p \in DOMAIN s :
              (\A r \in DOMAIN s : s[r] = s[p] => r = p) => Count(s, s[p]) = 1
<1>1. \A t : Count(<<>>, t) = 0
  <2>. TAKE t
  <2>1. {p \in DOMAIN <<>> : <<>>[p] = t} = {}
    OBVIOUS
  <2>. QED  BY Zenon, <2>1 DEF Count, FiniteSetFacts, EmptyFact
<1>2. ASSUME NEW s \in Seq(Txns), NEW p \in DOMAIN s, \A r \in DOMAIN s : s[r] = s[p] => r = p
      PROVE  Count(s, s[p]) = 1
  <2>1. {r \in DOMAIN s : s[r] = s[p]} = {p}
    BY Zenon, <1>2
  <2>. QED  BY Zenon, <2>1 DEF Count, FiniteSetFacts, SingletonFact
<1>. QED  BY Zenon, <1>1, <1>2

-----------------------------------------------------------------------------
(* Every transaction of a batch is in one place.                            *)

\* What sched_batch has given a worker for its batch.
LEMMA ScheduledFacts ==
  ASSUME FiniteSetFacts, NEW w \in Workers, NEW b \in Nat, b > 0, b <= Len(Sched[w])
  PROVE  \A n \in Queues :
           /\ Sched[w][b][n] \in Seq(Txns) /\ Range(Sched[w][b][n]) \subseteq my_txns[w]
           /\ \A m \in Queues : m # n => Range(Sched[w][b][n]) \cap Range(Sched[w][b][m]) = {}
           /\ \A t \in Range(Sched[w][b][n]) : Count(Sched[w][b][n], t) = 1
<1>1. /\ Sched[w] \in Seq([Queues -> Seq(my_txns[w])]) /\ my_txns[w] \subseteq Txns
  BY Zenon, ConstantsAssumption
<1>2. b \in DOMAIN Sched[w] /\ Sched[w][b] \in [Queues -> Seq(my_txns[w])]
  BY <1>1
<1>3. \A n, m \in Queues : \A p \in DOMAIN Sched[w][b][n], r \in DOMAIN Sched[w][b][m] :
        Sched[w][b][n][p] = Sched[w][b][m][r] => n = m /\ p = r
  BY Zenon, <1>2, SchedAssumption
<1>. TAKE n \in Queues
<1>. DEFINE s == Sched[w][b][n]
<1>4. s \in Seq(my_txns[w])
  BY Zenon, <1>2
<1>5. s \in Seq(Txns) /\ \A p \in DOMAIN s : s[p] \in my_txns[w]
  BY <1>1, <1>4
<1>6. Range(s) \subseteq my_txns[w]
  BY Zenon, <1>5 DEF Range
<1>7. \A m \in Queues : m # n => Range(s) \cap Range(Sched[w][b][m]) = {}
  BY Zenon, <1>3 DEF Range
<1>8. \A p, r \in DOMAIN s : s[r] = s[p] => r = p
  BY Zenon, <1>3
<1>9. \A p \in DOMAIN s : Count(s, s[p]) = 1
  BY Zenon, <1>5, <1>8, CountOnce
<1>10. \A t \in Range(s) : Count(s, t) = 1
  BY Zenon, <1>9 DEF Range
<1>. QED  BY Zenon, <1>5, <1>6, <1>7, <1>10

\* A node whose leader is past the hot period of the batch that a worker is still in
\* has no slots.
LEMMA SentEmpty ==
  ASSUME IInv, SlotMbInv, NEW w \in Workers, LoopInv(w), pc[w] # "exit",
         InBatchBar(w, Leader[node_id[w]])
  PROVE  hot_send_q[node_id[w]] = <<>>
<1>. DEFINE n == node_id[w]
            l == Leader[n]
            s == hot_send_q[n]
<1>1. n \in Nodes /\ l \in Workers /\ s \in Seq(Counted)
  BY Zenon, ConstantsAssumption DEF IInv, TypeOK
<1>2. Unsent(l) = FirstMb(batch[w] + 1) /\ OpenBatch(w) = batch[w] /\ FirstMb(batch[w] + 1) \in Nat
  <2>1. Unsent(l) = FirstMb(batch[w] + 1) /\ OpenBatch(w) = batch[w]
    BY Zenon DEF InBatchBar, Unsent, HasSent, OpenBatch
  <2>. QED  BY <2>1, LoopFacts
<1>3. ASSUME s # <<>> PROVE FALSE
  <2>1. 1 \in DOMAIN s /\ s[1] \in Counted
    BY <1>1, <1>3
  <2>2. s[1] \in Slots(n)
    BY Zenon, <2>1 DEF Slots, Range
  <2>3. /\ s[1].mini_batch_num >= FirstMb(batch[w] + 1)
        /\ s[1].mini_batch_num < FirstMb(batch[w] + 1)
    BY Zenon, <1>1, <1>2, <2>2 DEF SlotMbInv
  <2>4. s[1].mini_batch_num \in Nat
    BY Zenon, <2>1 DEF Counted
  <2>. QED  BY SMTT(30), <1>2, <2>3, <2>4
<1>. QED  BY Zenon, <1>3

\* What a worker's left-over phase leaves behind is not of its own.
LEMMA SentStepOwn ==
  ASSUME OInv, NEW w \in Workers, Step(w) \/ Handle(w), NEW v \in Workers
  PROVE  SentInv(v)'
<1>s. IInv /\ SlotMbInv /\ BatchInv /\ SentInv(v) /\ \A u \in Workers : LoopInv(u)
  BY Zenon DEF OInv, OnceInv
<1>. DEFINE n == node_id[v]
<1>n. n \in Nodes
  BY Zenon, ConstantsAssumption
<1>. SUFFICES ASSUME phase'[v] = "left", NEW e \in Slots(n)' PROVE e.txn \notin my_txns[v]
  BY Zenon DEF SentInv
<1>1. CASE phase[v] = "left"
  <2>1. CASE e \in Slots(n)
    BY Zenon, <1>1, <1>s, <2>1 DEF SentInv
  <2>2. CASE /\ AllAccessed(w) /\ phase[w] # "left" /\ n = node_id[w]
             /\ e = [txn |-> txn[w], mini_batch_num |-> mb[w]]
    <3>1. e.txn = txn[w] /\ pc[w] \in Busy /\ v # w
      BY Zenon, <1>1, <2>2 DEF AllAccessed, Busy
    <3>2. txn[w] \in my_txns[w]
      BY Zenon, <1>s, <3>1, BusyFacts, BusyBefore
    <3>3. my_txns[v] \cap my_txns[w] = {}
      BY Zenon, <3>1, ConstantsAssumption
    <3>. QED  BY Zenon, <3>1, <3>2, <3>3
  <2>. QED  BY Zenon, <1>n, <1>s, <2>1, <2>2, SlotsStep
<1>2. CASE phase[v] # "left"
  <2>1. v = w
    BY Zenon, <1>s, <1>2, OtherMoves
  <2>2. EnterLeftover(w)
    BY Zenon, <1>s, <1>2, <2>1, WorkerMoves
  <2>3. /\ pc[w] = "batch" /\ InBatchBar(w, Leader[node_id[w]]) /\ hot_send_q' = hot_send_q
    BY Zenon, <2>2, ConstantsAssumption DEF EnterLeftover
  <2>4. hot_send_q'[n] = <<>>
    BY Zenon, <1>s, <2>1, <2>3, SentEmpty
  <2>5. Slots(n)' = {}
    BY <2>4 DEF Slots, Range
  <2>. QED  BY Zenon, <2>5
<1>. QED  BY Zenon, <1>1, <1>2

\* Every step keeps each transaction of an open batch in one place.
LEMMA OpenInvStep ==
  ASSUME FiniteSetFacts, OInv, NEW w \in Workers, Step(w) \/ Handle(w), NEW v \in Workers, IsOpen(v)'
  PROVE  OpenInv(v)'
\* The positions of a finite sequence where something holds are finitely many.
<1>PlacesFinite. ASSUME NEW S, NEW s \in Seq(S), NEW P \in SUBSET (DOMAIN s)
       PROVE  IsFiniteSet(P) /\ Cardinality(P) \in Nat
  <2>. USE <1>PlacesFinite
  <2>1. Len(s) \in Nat /\ DOMAIN s = 1 .. Len(s)
    OBVIOUS
  <2>2. IsFiniteSet(1 .. Len(s))
    BY <2>1 DEF FiniteSetFacts, IntervalFact
  <2>. QED  BY Zenon, <2>1, <2>2 DEF FiniteSetFacts, SubsetFact, TypeFact
\* A queue has one more place for what is appended to it.
<1>CountAppend. ASSUME NEW s \in Seq(Txns), NEW e \in Txns, NEW t
       PROVE  /\ Count(s, t) \in Nat
              /\ Count(Append(s, e), t) = Count(s, t) + (IF e = t THEN 1 ELSE 0)
  <2>. USE <1>CountAppend
  <2>. DEFINE P == {p \in DOMAIN s : s[p] = t}
              Q == {p \in DOMAIN Append(s, e) : Append(s, e)[p] = t}
              n == Len(s) + 1
  <2>1. IsFiniteSet(P) /\ Cardinality(P) \in Nat
    <3>1. P \in SUBSET (DOMAIN s)
      BY Zenon
    <3>. HIDE DEF P
    <3>. QED  BY Zenon, <3>1, <1>PlacesFinite
  <2>2. n \notin P /\ Q = IF e = t THEN P \cup {n} ELSE P
    <3>1. /\ Len(s) \in Nat /\ DOMAIN s = 1 .. Len(s) /\ DOMAIN Append(s, e) = 1 .. n
          /\ Append(s, e)[n] = e /\ \A p \in 1 .. Len(s) : Append(s, e)[p] = s[p]
      OBVIOUS
    <3>2. \A p \in 1 .. n : p \in 1 .. Len(s) \/ p = n
      BY <3>1
    <3>3. \A p \in 1 .. Len(s) : p \in 1 .. n /\ p # n
      BY <3>1
    <3>4. n \in 1 .. n /\ n \notin 1 .. Len(s)
      BY <3>1
    <3>. HIDE DEF n
    <3>. QED  BY Zenon, <3>1, <3>2, <3>3, <3>4
  <2>3. Cardinality(P \cup {n}) = Cardinality(P) + 1
    <3>. HIDE DEF P, n
    <3>. QED  BY Zenon, <2>1, <2>2 DEF FiniteSetFacts, AddFact
  <2>. HIDE DEF P, Q, n
  <2>4. Cardinality(Q) = Cardinality(P) + (IF e = t THEN 1 ELSE 0)
    BY <2>1, <2>2, <2>3
  <2>. QED  BY Zenon, <2>1, <2>4 DEF Count, P, Q
\* And one less for what is popped.
<1>CountTail. ASSUME NEW s \in Seq(Txns), s # <<>>, NEW t
       PROVE  /\ Count(Tail(s), t) \in Nat
              /\ Count(s, t) = Count(Tail(s), t) + (IF Head(s) = t THEN 1 ELSE 0)
  <2>. USE <1>CountTail
  <2>. DEFINE P == {p \in DOMAIN Tail(s) : Tail(s)[p] = t}
              R == {p \in DOMAIN s : s[p] = t /\ p # 1}
              Q == {p \in DOMAIN s : s[p] = t}
              f == [p \in P |-> p + 1]
  <2>0. /\ Len(s) \in Nat /\ Len(s) >= 1 /\ DOMAIN s = 1 .. Len(s) /\ Tail(s) \in Seq(Txns)
        /\ DOMAIN Tail(s) = 1 .. Len(s) - 1 /\ Head(s) = s[1]
        /\ \A p \in 1 .. Len(s) - 1 : Tail(s)[p] = s[p + 1]
    OBVIOUS
  <2>1. IsFiniteSet(P) /\ Cardinality(P) \in Nat
    <3>1. P \in SUBSET (DOMAIN Tail(s))
      BY Zenon
    <3>. HIDE DEF P
    <3>. QED  BY Zenon, <2>0, <3>1, <1>PlacesFinite
  <2>2. f \in Bijection(P, R)
    <3>1. f \in [P -> R]
      BY <2>0
    <3>2. \A a, b \in P : f[a] = f[b] => a = b
      BY <2>0
    <3>3. \A r \in R : \E a \in P : f[a] = r
      <4>. SUFFICES ASSUME NEW r \in R PROVE r - 1 \in P /\ f[r - 1] = r
        BY Zenon
      <4>1. r \in 1 .. Len(s) /\ s[r] = t /\ r # 1
        BY Zenon, <2>0
      <4>2. r - 1 \in 1 .. Len(s) - 1 /\ (r - 1) + 1 = r
        BY <2>0, <4>1
      <4>. QED  BY Zenon, <2>0, <4>1, <4>2
    <3>. HIDE DEF f, P, R
    <3>. QED  BY Zenon, <3>1, <3>2, <3>3 DEF Bijection, Injection, Surjection, IsInjective
  <2>3. IsFiniteSet(R) /\ Cardinality(R) = Cardinality(P)
    <3>. HIDE DEF f, P, R
    <3>. QED  BY Zenon, <2>1, <2>2 DEF ExistsBijection, FiniteSetFacts, BijectionFact
  <2>4. 1 \notin R /\ Q = IF Head(s) = t THEN R \cup {1} ELSE R
    <3>1. 1 \in DOMAIN s
      BY <2>0
    <3>. QED  BY Zenon, <2>0, <3>1
  <2>5. Cardinality(R \cup {1}) = Cardinality(R) + 1
    <3>. HIDE DEF R
    <3>. QED  BY Zenon, <2>3, <2>4 DEF FiniteSetFacts, AddFact
  <2>. HIDE DEF P, Q, R
  <2>6. Cardinality(Q) = Cardinality(P) + (IF Head(s) = t THEN 1 ELSE 0)
    BY <2>1, <2>3, <2>4, <2>5
  <2>. QED  BY Zenon, <2>1, <2>6 DEF Count, P, Q
\* The slots of a worker's transaction: a commit of the worker itself adds one.
<1>SlotCountStep. ASSUME IInv, NEW t \in my_txns[v],
                ~HotPeriod(w) \/ node_id[v] # node_id[w]
       PROVE  /\ SlotCount(v, t) \in Nat
              /\ SlotCount(v, t)' = SlotCount(v, t)
                   + (IF AllAccessed(w) /\ phase[w] # "left" /\ txn[w] = t THEN 1 ELSE 0)
              /\ AllAccessed(w) /\ txn[w] = t => v = w
  <2>. USE <1>SlotCountStep
  <2>. DEFINE n == node_id[v]
              P == {p \in DOMAIN hot_send_q[n] : hot_send_q[n][p].txn = t}
              Q == {p \in DOMAIN hot_send_q'[n] : hot_send_q'[n][p].txn = t}
  <2>0. hot_send_q \in [Nodes -> Seq(Counted)] /\ n \in Nodes /\ node_id[w] \in Nodes
        /\ hot_send_q[n] \in Seq(Counted)
    BY Zenon, ConstantsAssumption DEF IInv, TypeOK
  <2>1. IsFiniteSet(P) /\ Cardinality(P) \in Nat
    <3>1. P \in SUBSET (DOMAIN hot_send_q[n])
      BY Zenon
    <3>. HIDE DEF P
    <3>. QED  BY Zenon, <2>0, <3>1, <1>PlacesFinite
  <2>2. AllAccessed(w) => txn[w] \in my_txns[w] /\ txn[w] \in Txns /\ mb[w] \in Nat
    <3>1. AllAccessed(w) => pc[w] \in Busy
      BY Zenon DEF AllAccessed, Busy
    <3>. QED  BY Zenon, <3>1, BusyFacts, BusyBefore DEF IInv, TypeOK
  <2>3. AllAccessed(w) /\ txn[w] = t => v = w
    <3>1. v # w => my_txns[v] \cap my_txns[w] = {}
      BY Zenon, ConstantsAssumption
    <3>. QED  BY Zenon, <2>2, <3>1
  <2>4. CASE hot_send_q'[n] = hot_send_q[n] /\ ~(AllAccessed(w) /\ phase[w] # "left" /\ txn[w] = t)
    <3>1. Q = P
      BY Zenon, <2>4
    <3>. HIDE DEF P, Q
    <3>2. Cardinality(Q) = Cardinality(P) + 0
      BY <2>1, <3>1
    <3>. QED  BY Zenon, <2>1, <2>3, <2>4, <3>2 DEF SlotCount, P, Q
  <2>5. CASE AllAccessed(w) /\ phase[w] # "left" /\ n = node_id[w]
    <3>. DEFINE f == [txn |-> txn[w], mini_batch_num |-> mb[w]]
                s == hot_send_q[n]
                k == Len(s) + 1
    <3>1. hot_send_q'[n] = Append(s, f)
      BY Zenon, <2>0, <2>5 DEF AllAccessed, Id
    <3>2. f \in Counted /\ f.txn = txn[w]
      BY Zenon, <2>2, <2>5 DEF Counted
    <3>. HIDE DEF f
    <3>3. /\ Len(s) \in Nat /\ DOMAIN s = 1 .. Len(s) /\ DOMAIN Append(s, f) = 1 .. k
          /\ Append(s, f)[k] = f /\ \A p \in 1 .. Len(s) : Append(s, f)[p] = s[p]
      BY <2>0, <3>2
    <3>4. \A p \in 1 .. k : p \in 1 .. Len(s) \/ p = k
      BY <3>3
    <3>5. \A p \in 1 .. Len(s) : p \in 1 .. k /\ p # k
      BY <3>3
    <3>6. k \in 1 .. k /\ k \notin 1 .. Len(s)
      BY <3>3
    <3>. HIDE DEF k
    <3>7. k \notin P /\ Q = IF txn[w] = t THEN P \cup {k} ELSE P
      BY Zenon, <3>1, <3>2, <3>3, <3>4, <3>5, <3>6
    <3>8. Cardinality(P \cup {k}) = Cardinality(P) + 1
      <4>. HIDE DEF P
      <4>. QED  BY Zenon, <2>1, <3>7 DEF FiniteSetFacts, AddFact
    <3>. HIDE DEF P, Q
    <3>9. Cardinality(Q) = Cardinality(P) + (IF txn[w] = t THEN 1 ELSE 0)
      BY <2>1, <3>7, <3>8
    <3>. QED  BY Zenon, <2>1, <2>3, <2>5, <3>9 DEF SlotCount, P, Q
  <2>6. \/ hot_send_q'[n] = hot_send_q[n] /\ ~(AllAccessed(w) /\ phase[w] # "left" /\ txn[w] = t)
        \/ AllAccessed(w) /\ phase[w] # "left" /\ n = node_id[w]
    <3>1. CASE hot_send_q' = hot_send_q /\ ~(AllAccessed(w) /\ phase[w] # "left")
      BY Zenon, <3>1
    <3>2. CASE HotPeriod(w)
      <4>1. pc[w] = "hot" /\ hot_send_q'[n] = hot_send_q[n]
        BY Zenon, <2>0, <3>2 DEF HotPeriod, done_sending
      <4>. QED  BY Zenon, <4>1 DEF AllAccessed
    <3>3. CASE AllAccessed(w) /\ phase[w] # "left" /\ n # node_id[w]
      <4>1. hot_send_q'[n] = hot_send_q[n]
        BY Zenon, <2>0, <3>3 DEF AllAccessed
      <4>. QED  BY Zenon, <2>3, <3>3, <4>1
    <3>. QED  BY Zenon, <3>1, <3>2, <3>3, QueueStep
  <2>. QED  BY Zenon, <2>4, <2>5, <2>6
\* The same of the batch that is open at w.
<1>OpenFacts. ASSUME IInv, NEW u \in Workers, LoopInv(u), pc[u] # "done"
       PROVE  \A n \in Queues :
                /\ Scheduled(u, n) \subseteq my_txns[u] /\ Scheduled(u, n) \subseteq Txns
                /\ \A m \in Queues : m # n => Scheduled(u, n) \cap Scheduled(u, m) = {}
  <2>. USE <1>OpenFacts
  <2>1. batch[u] \in Nat /\ batch[u] > 0 /\ batch[u] <= Len(Sched[u])
    BY Zenon, LoopFacts DEF LoopInv
  <2>2. my_txns[u] \subseteq Txns
    BY Zenon, ConstantsAssumption
  <2>. QED  BY Zenon, <2>1, <2>2, ScheduledFacts DEF Scheduled
\* A step inside a transaction, other than a commit, leaves it running or committed.
<1>RunningStep. ASSUME IInv, Inner(w), ~AllAccessed(w), NEW t
       PROVE  Running(w, t)' <=> Running(w, t)
  <2>. USE <1>RunningStep
  <2>t. DOMAIN pc = Workers /\ DOMAIN rc = Workers
    BY Zenon DEF IInv, TypeOK
  <2>1. txn' = txn
    BY Zenon DEF Inner
  <2>2. CASE EarlyTest(w) \/ LocalLock(w) \/ SendGetReq(w) \/ AllLocked(w) \/ HandleGetRes(w)
    <3>1. /\ pc[w] \in {"lock", "mutex", "wait"}
          /\ pc'[w] \in {"lock", "mutex", "wait", "access"} \/ rc'[w] = "ROLLBACK"
      BY Zenon, <2>t, <2>2 DEF EarlyTest, LocalLock, SendGetReq, AllLocked, HandleGetRes, NextLock,
         StartRollback
    <3>. QED  BY Zenon, <2>1, <3>1 DEF Running
  <2>3. CASE Access(w) \/ Clear(w) \/ AllCleared(w)
    <3>1. /\ rc' = rc
          /\ pc'[w] = pc[w] \/ (pc[w] = "clear" /\ pc'[w] = "puts")
      BY Zenon, <2>t, <2>3 DEF Access, Clear, AllCleared, txnVars
    <3>. QED  BY Zenon, <2>1, <3>1 DEF Running
  <2>4. ASSUME NEW j \in 1 .. N_OPS, HandleGetReq(w, j) \/ HandlePutReq(w, j) \/ HandlePutRes(w, j)
        PROVE  rc' = rc /\ pc' = pc
    BY Zenon, <2>4 DEF HandleGetReq, HandlePutReq, HandlePutRes, txnVars
  <2>5. CASE rc' = rc /\ pc' = pc
    BY Zenon, <2>1, <2>5 DEF Running
  <2>6. ~Outer(w)
    BY Zenon, <2>t DEF Outer, Inner, RunTxn, EndMiniBatch, LeaveBarrier, HotPeriod,
       EnterLeftover, RunLeftover, NextBatch, Finish, Busy
  <2>. QED  BY Zenon, <2>2, <2>3, <2>4, <2>5, <2>6 DEF Step, Handle, Outer
\* A batch that is open was open before, unless its worker has just begun it; and
\* its slots are not being sent.
<1>OpenStep. ASSUME IInv, \A u \in Workers : LoopInv(u), BatchInv
       PROVE  /\ IsOpen(v) \/ (v = w /\ NextBatch(w))
              /\ ~HotPeriod(w) \/ node_id[v] # node_id[w]
  <2>. USE <1>OpenStep
  <2>. DEFINE l == Leader[node_id[v]]
  <2>t. /\ DOMAIN pc = Workers /\ DOMAIN phase = Workers /\ DOMAIN batch = Workers
        /\ l \in Workers /\ node_id[l] = node_id[v]
    BY Zenon, ConstantsAssumption DEF IInv, TypeOK
  <2>n. batch[v] \in Nat /\ batch[w] \in Nat /\ batch[l] \in Nat
    BY Zenon, <2>t, LoopFacts
  <2>o. phase'[v] # "left" /\ pc'[v] # "done"
        /\ ~(batch'[l] = batch'[v] /\ (pc'[l] = "batch" \/ phase'[l] = "left"))
    BY Zenon DEF IsOpen, InBatchBar
  <2>. HIDE DEF l
  <2>p. /\ pc[w] \in Busy => ~(pc[w] \in {"run", "bar", "hot", "batch", "exit", "done"})
        /\ \A u \in Workers : pc[u] = "exit" => phase[u] = "left"
        /\ pc[w] = "batch" => phase[w] # "left"
        /\ pc[w] \in {"hot", "bar"} => phase[w] # "left"
    BY Zenon, LoopFacts DEF LoopInv, Busy
  <2>1. ASSUME HotPeriod(w), node_id[v] = node_id[w] PROVE FALSE
    <3>1. /\ pc[w] = "hot" /\ batch' = batch /\ phase' = phase /\ pc'[w] = "batch" /\ w = l
          /\ v # w => pc'[v] = pc[v]
      BY Zenon, <2>t, <2>1 DEF HotPeriod, loopVars, LoopInv, l
    <3>2. batch[v] <= OpenBatch(w) /\ batch[w] <= OpenBatch(v)
      BY Zenon, <2>1 DEF BatchInv
    <3>3. OpenBatch(w) = batch[w] /\ OpenBatch(v) = batch[v]
      BY Zenon, <2>o, <2>p, <3>1 DEF OpenBatch
    <3>4. batch[v] = batch[w]
      BY <2>n, <3>2, <3>3
    <3>. QED  BY Zenon, <2>o, <3>1, <3>4
  <2>2. ASSUME v # w \/ ~NextBatch(w) PROVE IsOpen(v)
    <3>. SUFFICES /\ phase[v] # "left" /\ pc[v] # "done"
                  /\ ~(batch[l] = batch[v] /\ (pc[l] = "batch" \/ phase[l] = "left"))
      BY Zenon DEF IsOpen, InBatchBar, l
    <3>0. v # w => batch'[v] = batch[v] /\ phase'[v] = phase[v] /\ pc'[v] = pc[v]
      BY Zenon, OtherMoves
    <3>l. l # w => batch'[l] = batch[l] /\ phase'[l] = phase[l] /\ pc'[l] = pc[l]
      BY Zenon, <2>t, OtherMoves
    <3>1. CASE NextBatch(w)
      <4>1. /\ v # w /\ pc[w] = "exit" /\ batch'[w] = batch[w] + 1
            /\ node_id[v] = node_id[w] => batch[v] > batch[w] \/ pc[v] = "exit"
        BY Zenon, <2>t, <2>2, <3>1 DEF NextBatch
      <4>2. l = w => batch[v] # batch[w]
        BY SMTT(30), <2>n, <2>o, <2>p, <2>t, <3>0, <4>1
      <4>. QED  BY Zenon, <2>o, <3>0, <3>l, <4>1, <4>2
    <3>2. CASE ~NextBatch(w)
      <4>1. batch' = batch
        <5>1. CASE Inner(w)
          BY Zenon, <5>1 DEF Inner
        <5>2. CASE Outer(w)
          BY Zenon, <3>2, <5>2 DEF Outer, RunTxn, EndMiniBatch, LeaveBarrier, Finish, HotPeriod,
             EnterLeftover, RunLeftover, loopVars
        <5>. QED  BY Zenon, <5>1, <5>2, InnerStep
      <4>2. phase[w] = "left" => phase'[w] = "left"
        <5>1. CASE Inner(w)
          BY Zenon, <5>1 DEF Inner
        <5>2. CASE Outer(w)
          BY Zenon, <2>p, <2>t, <3>2, <5>2 DEF Outer, RunTxn, EndMiniBatch, LeaveBarrier, Finish, HotPeriod,
             EnterLeftover, RunLeftover, loopVars
        <5>. QED  BY Zenon, <5>1, <5>2, InnerStep
      <4>3. pc[w] = "batch" => phase'[w] = "left"
        <5>1. CASE Inner(w)
          BY Zenon, <2>p, <5>1 DEF Inner
        <5>2. CASE Outer(w)
          BY Zenon, <2>t, <3>2, <5>2 DEF Outer, RunTxn, EndMiniBatch, LeaveBarrier, Finish, HotPeriod,
             EnterLeftover, RunLeftover
        <5>. QED  BY Zenon, <5>1, <5>2, InnerStep
      <4>4. pc[w] # "done"
        <5>1. CASE Inner(w)
          BY Zenon, <2>p, <5>1 DEF Inner
        <5>2. CASE Outer(w)
          BY Zenon, <5>2 DEF Outer, RunTxn, EndMiniBatch, LeaveBarrier, Finish, HotPeriod,
             EnterLeftover, RunLeftover, NextBatch
        <5>. QED  BY Zenon, <5>1, <5>2, InnerStep
      <4>. QED  BY Zenon, <2>o, <3>0, <3>l, <4>1, <4>2, <4>3, <4>4
    <3>. QED  BY Zenon, <3>1, <3>2
  <2>. QED  BY Zenon, <2>1, <2>2
\* The places of a transaction are counted in Nat.
<1>PlacesType. ASSUME IInv, NEW u \in Workers, NEW n \in Queues, NEW t
       PROVE  /\ q[u][n] \in Seq(Txns) /\ leftover[u] \in Seq(Txns)
              /\ Count(q[u][n], t) \in Nat /\ Count(leftover[u], t) \in Nat
  <2>. USE <1>PlacesType
  <2>1. q \in [Workers -> [Queues -> Seq(Txns)]] /\ leftover \in [Workers -> Seq(Txns)]
    BY Zenon DEF IInv, TypeOK
  <2>2. q[u][n] \in Seq(Txns) /\ leftover[u] \in Seq(Txns)
    BY Zenon, <2>1
  <2>3. \A s \in Seq(Txns) : {p \in DOMAIN s : s[p] = t} \in SUBSET (DOMAIN s)
    BY Zenon
  <2>4. \A s \in Seq(Txns) : Count(s, t) \in Nat
    BY Zenon, <2>3, <1>PlacesFinite DEF Count
  <2>. QED  BY Zenon, <2>2, <2>4
\* The slots of a transaction can be counted.
<1>SlotCountType. ASSUME IInv, NEW u \in Workers, NEW t
       PROVE  SlotCount(u, t) \in Nat
  <2>. USE <1>SlotCountType
  <2>1. hot_send_q[node_id[u]] \in Seq(Counted)
    BY Zenon, ConstantsAssumption DEF IInv, TypeOK
  <2>2. {p \in DOMAIN hot_send_q[node_id[u]] : hot_send_q[node_id[u]][p].txn = t}
          \in SUBSET (DOMAIN hot_send_q[node_id[u]])
    BY Zenon
  <2>. QED  BY Zenon, <2>1, <2>2, <1>PlacesFinite DEF SlotCount
\* A step that leaves the queues alone, where a slot at most takes the place of the
\* running transaction.
<1>OpenKept. ASSUME IInv, NEW u \in Workers, OpenInv(u),
                q'[u] = q[u], leftover'[u] = leftover[u], batch'[u] = batch[u],
                pc'[u] \in Busy /\ phase'[u] = "mini" =>
                  pc[u] \in Busy /\ phase[u] = "mini" /\ txn'[u] = txn[u] /\ mb'[u] = mb[u],
                \A n \in Queues : \A t \in Scheduled(u, n) :
                  /\ SlotCount(u, t) \in Nat /\ SlotCount(u, t)' \in Nat
                  /\ (IF Running(u, t)' THEN 1 ELSE 0) + SlotCount(u, t)'
                       = (IF Running(u, t) THEN 1 ELSE 0) + SlotCount(u, t)
       PROVE  OpenInv(u)'
  <2>. USE <1>OpenKept
  <2>1. \A n : Scheduled(u, n)' = Scheduled(u, n)
    BY Zenon DEF Scheduled
  <2>2. \A n \in Queues : Range(q'[u][n]) \subseteq Scheduled(u, n)'
    BY Zenon, <2>1 DEF OpenInv
  <2>3. pc'[u] \in Busy /\ phase'[u] = "mini" => txn'[u] \in Scheduled(u, MbQueue(u))'
    BY Zenon DEF OpenInv, MbQueue, Scheduled
  <2>4. ASSUME NEW n \in Queues, NEW t \in Scheduled(u, n) PROVE Places(u, n, t)' = 1
    <3>. DEFINE a == Count(q[u][n], t)
                b == Count(leftover[u], t)
                c == IF Running(u, t) THEN 1 ELSE 0
                d == SlotCount(u, t)
                f == IF Running(u, t)' THEN 1 ELSE 0
                g == SlotCount(u, t)'
    <3>1. a \in Nat /\ b \in Nat
      BY Zenon, <1>PlacesType
    <3>2. d \in Nat /\ g \in Nat /\ f + g = c + d
      BY Zenon, <2>4
    <3>3. c \in {0, 1} /\ f \in {0, 1}
      BY Zenon
    <3>4. a + b + c + d = 1
      BY Zenon DEF OpenInv, Places
    <3>5. Places(u, n, t)' = a + b + f + g
      BY Zenon DEF Places
    <3>. HIDE DEF a, b, c, d, f, g
    <3>6. a + b + f + g = 1
      BY <3>1, <3>2, <3>3, <3>4
    <3>. QED  BY Zenon, <3>5, <3>6
  <2>. QED  BY Zenon, <2>1, <2>2, <2>3, <2>4 DEF OpenInv, MbQueue
\* run_txn takes a transaction out of its queue, to run it or to leave it over.
<1>OpenRun. ASSUME IInv, LoopInv(w), OpenInv(w), NEW m \in Queues, RunTxn(w, m)
       PROVE  OpenInv(w)'
  <2>. USE <1>OpenRun
  <2>. DEFINE h == Head(q[w][m])
  <2>p. /\ pc[w] = "run" /\ pc[w] # "done" /\ txn[w] = NoTxn
        /\ phase' = phase /\ batch' = batch /\ mb' = mb /\ hot_send_q' = hot_send_q
        /\ phase[w] = "mini" => m = MbQueue(w)
    BY Zenon DEF RunTxn, IsNext, LoopInv, Busy
  <2>q. /\ q \in [Workers -> [Queues -> Seq(Txns)]] /\ q[w][m] \in Seq(Txns) /\ q[w][m] # <<>>
        /\ q' = [q EXCEPT ![w][m] = Tail(q[w][m])] /\ leftover[w] \in Seq(Txns)
        /\ DOMAIN pc = Workers /\ DOMAIN txn = Workers /\ DOMAIN leftover = Workers
    <3>1. q \in [Workers -> [Queues -> Seq(Txns)]] /\ leftover \in [Workers -> Seq(Txns)]
      BY Zenon DEF IInv, TypeOK
    <3>2. q[w][m] \in Seq(Txns) /\ leftover[w] \in Seq(Txns)
      BY Zenon, <3>1
    <3>3. q[w][m] # <<>> /\ q' = [q EXCEPT ![w][m] = Tail(q[w][m])]
      BY Zenon DEF RunTxn, IsNext, PopTxn
    <3>4. DOMAIN pc = Workers /\ DOMAIN txn = Workers /\ DOMAIN leftover = Workers
      BY Zenon DEF IInv, TypeOK
    <3>. QED  BY Zenon, <3>1, <3>2, <3>3, <3>4
  <2>1. /\ q'[w][m] = Tail(q[w][m]) /\ \A n \in Queues : n # m => q'[w][n] = q[w][n]
    BY Zenon, <2>q
  <2>2. h \in Range(q[w][m]) /\ Range(Tail(q[w][m])) \subseteq Range(q[w][m])
    <3>1. 1 \in DOMAIN q[w][m] /\ h = q[w][m][1]
      BY <2>q
    <3>2. \A p \in DOMAIN Tail(q[w][m]) : p + 1 \in DOMAIN q[w][m] /\ Tail(q[w][m])[p] = q[w][m][p + 1]
      BY <2>q
    <3>3. h \in Range(q[w][m])
      BY Zenon, <3>1 DEF Range
    <3>4. \A p \in DOMAIN q[w][m] : q[w][m][p] \in Range(q[w][m])
      BY Zenon DEF Range
    <3>5. \A p \in DOMAIN Tail(q[w][m]) : Tail(q[w][m])[p] \in Range(q[w][m])
      BY Zenon, <3>2, <3>4
    <3>6. Range(Tail(q[w][m])) \subseteq Range(q[w][m])
      BY Zenon, <3>5 DEF Range
    <3>. QED  BY Zenon, <3>3, <3>6
  <2>3. h \in Scheduled(w, m) /\ h \in Txns
    <3>1. h \in Scheduled(w, m)
      BY Zenon, <2>2 DEF OpenInv
    <3>. QED  BY Zenon, <2>p, <3>1, <1>OpenFacts
  <2>s. \A n : Scheduled(w, n)' = Scheduled(w, n)
    BY Zenon, <2>p DEF Scheduled
  <2>4. \A n \in Queues : Range(q'[w][n]) \subseteq Scheduled(w, n)'
    BY Zenon, <2>1, <2>2, <2>s DEF OpenInv
  <2>c. \/ txn'[w] = h /\ pc'[w] = "lock" /\ leftover'[w] = leftover[w]
        \/ txn' = txn /\ pc' = pc /\ leftover'[w] = Append(leftover[w], h)
    BY Zenon, <2>q DEF RunTxn
  <2>. HIDE DEF h
  <2>5. pc'[w] \in Busy /\ phase'[w] = "mini" => txn'[w] \in Scheduled(w, MbQueue(w))'
    <3>1. MbQueue(w)' = MbQueue(w)
      BY Zenon, <2>p DEF MbQueue
    <3>2. pc'[w] \in Busy => txn'[w] = h
      BY Zenon, <2>c, <2>p DEF Busy
    <3>. QED  BY Zenon, <2>3, <2>p, <2>s, <3>1, <3>2
  <2>6. ASSUME NEW n \in Queues, NEW t \in Scheduled(w, n) PROVE Places(w, n, t)' = 1
    <3>. DEFINE a == Count(q[w][n], t)
                b == Count(leftover[w], t)
                c == IF Running(w, t) THEN 1 ELSE 0
                d == SlotCount(w, t)
                x == IF h = t THEN 1 ELSE 0
                aa == Count(q'[w][n], t)
                bb == Count(leftover'[w], t)
                cc == IF Running(w, t)' THEN 1 ELSE 0
    <3>1. /\ a \in Nat /\ b \in Nat /\ t \in Txns
      BY Zenon, <2>p, <1>PlacesType, <1>OpenFacts
    <3>2. a + b + c + d = 1 /\ Places(w, n, t)' = aa + bb + cc + d
      BY Zenon, <2>p DEF OpenInv, Places, SlotCount
    <3>3. ~Running(w, t)
      BY Zenon, <2>p, <3>1, ConstantsAssumption DEF Running
    <3>4. a = aa + x /\ aa \in Nat
      <4>1. CASE n = m
        BY Zenon, <2>1, <2>q, <4>1, <1>CountTail DEF h
      <4>2. CASE n # m
        <5>1. h # t
          BY Zenon, <2>3, <2>p, <4>2, <1>OpenFacts
        <5>2. x = 0 /\ aa = a
          BY Zenon, <2>1, <4>2, <5>1
        <5>. HIDE DEF a, aa, x
        <5>. QED  BY <3>1, <5>2
      <4>. QED  BY Zenon, <4>1, <4>2
    <3>5. \/ bb = b /\ (Running(w, t)' <=> h = t)
          \/ bb = b + x /\ ~Running(w, t)'
      <4>1. CASE txn'[w] = h /\ pc'[w] = "lock" /\ leftover'[w] = leftover[w]
        BY Zenon, <4>1 DEF Running
      <4>2. CASE txn' = txn /\ pc' = pc /\ leftover'[w] = Append(leftover[w], h)
        <5>1. ~Running(w, t)'
          BY Zenon, <2>p, <3>1, <4>2, ConstantsAssumption DEF Running
        <5>2. bb = b + x
          <6>1. Count(Append(leftover[w], h), t) = Count(leftover[w], t) + (IF h = t THEN 1 ELSE 0)
            BY Zenon, <2>3, <2>q, <1>CountAppend
          <6>. QED  BY Zenon, <4>2, <6>1
        <5>. QED  BY Zenon, <5>1, <5>2
      <4>. QED  BY Zenon, <2>c, <4>1, <4>2
    <3>6. SlotCount(w, t) \in Nat
      BY Zenon, <1>SlotCountType
    <3>7. /\ c = 0 /\ x \in {0, 1} /\ d \in Nat
          /\ (bb = b /\ cc = x) \/ (bb = b + x /\ cc = 0)
      <4>1. c = 0 /\ d \in Nat
        BY Zenon, <3>3, <3>6
      <4>2. x \in {0, 1}
        BY Zenon
      <4>3. (Running(w, t)' <=> h = t) => cc = x
        BY Zenon
      <4>4. ~Running(w, t)' => cc = 0
        BY Zenon
      <4>. HIDE DEF a, b, c, d, x, aa, bb, cc
      <4>. QED  BY Zenon, <3>5, <4>1, <4>2, <4>3, <4>4
    <3>. HIDE DEF a, b, c, d, x, aa, bb, cc
    <3>8. aa + bb + cc + d = 1
      BY <3>1, <3>2, <3>4, <3>7
    <3>. QED  BY Zenon, <3>2, <3>8
  <2>. QED  BY Zenon, <2>4, <2>5, <2>6, <2>s DEF OpenInv
\* The end of run_txn: a commit has its slot, a rollback goes back to a queue.
<1>OpenFinish. ASSUME IInv, LoopInv(w), OpenInv(w), Finish(w), phase[w] # "left"
       PROVE  OpenInv(w)'
  <2>. USE <1>OpenFinish
  <2>. DEFINE h == txn[w]
              m == MbQueue(w)
  <2>p. /\ pc[w] = "puts" /\ pc[w] # "done" /\ pc[w] \in Busy /\ pc'[w] = "run" /\ txn'[w] = NoTxn
        /\ batch' = batch /\ hot_send_q' = hot_send_q
    BY Zenon DEF Finish, IInv, TypeOK, Busy
  <2>q. /\ q \in [Workers -> [Queues -> Seq(Txns)]] /\ leftover[w] \in Seq(Txns)
        /\ DOMAIN leftover = Workers
    BY Zenon DEF IInv, TypeOK
  <2>h. h \in Txns /\ rc[w] \in {"COMMIT", "ROLLBACK"}
    BY Zenon, <2>p, BusyFacts, BusyBefore DEF IInv, TypeOK
  <2>m. m \in Queues
    <3>1. mb[w] \in Nat /\ N_QUEUES \in Nat /\ N_QUEUES # 0
      BY Zenon, ConstantsAssumption DEF IInv, TypeOK
    <3>. QED  BY <3>1 DEF MbQueue, Queues
  <2>c. \/ rc[w] = "COMMIT" /\ q' = q /\ leftover' = leftover
        \/ /\ rc[w] = "ROLLBACK" /\ phase[w] = "mini" /\ leftover' = leftover
           /\ q' = [q EXCEPT ![w][m] = Append(q[w][m], h)]
        \/ rc[w] = "ROLLBACK" /\ q' = q /\ leftover'[w] = Append(leftover[w], h)
    BY Zenon, <2>q DEF Finish, FinishTxn, FinishLeftover
  <2>r. \A t \in Txns : /\ ~Running(w, t)'
                        /\ Running(w, t) <=> h = t /\ rc[w] = "ROLLBACK"
    BY Zenon, <2>h, <2>p, ConstantsAssumption DEF Running
  <2>s. \A n : Scheduled(w, n)' = Scheduled(w, n)
    BY Zenon, <2>p DEF Scheduled
  <2>. HIDE DEF h, m
  <2>1. CASE q' = q
    <3>1. \A n \in Queues : Range(q'[w][n]) \subseteq Scheduled(w, n)'
      BY Zenon, <2>1, <2>s DEF OpenInv
    <3>2. ASSUME NEW n \in Queues, NEW t \in Scheduled(w, n) PROVE Places(w, n, t)' = 1
      <4>. DEFINE a == Count(q[w][n], t)
                  b == Count(leftover[w], t)
                  c == IF Running(w, t) THEN 1 ELSE 0
                  d == SlotCount(w, t)
                  bb == Count(leftover'[w], t)
                  cc == IF Running(w, t)' THEN 1 ELSE 0
      <4>1. a \in Nat /\ b \in Nat /\ t \in Txns
        BY Zenon, <2>p, <1>PlacesType, <1>OpenFacts
      <4>2. a + b + c + d = 1 /\ Places(w, n, t)' = a + bb + cc + d
        BY Zenon, <2>1, <2>p DEF OpenInv, Places, SlotCount
      <4>3. d \in Nat
        BY Zenon, <1>SlotCountType
      <4>4. cc = 0 /\ c \in {0, 1}
        BY Zenon, <2>r, <4>1
      <4>5. bb = b + c
        <5>1. CASE leftover'[w] = leftover[w] /\ c = 0
          <6>1. bb = b
            BY Zenon, <5>1
          <6>. HIDE DEF b, bb, c
          <6>. QED  BY <4>1, <5>1, <6>1
        <5>2. CASE rc[w] = "ROLLBACK" /\ leftover'[w] = Append(leftover[w], h)
          <6>1. bb = b + (IF h = t THEN 1 ELSE 0)
            <7>1. Count(Append(leftover[w], h), t) = Count(leftover[w], t) + (IF h = t THEN 1 ELSE 0)
              BY Zenon, <2>h, <2>q, <1>CountAppend DEF h
            <7>. QED  BY Zenon, <5>2, <7>1
          <6>. QED  BY Zenon, <2>r, <4>1, <5>2, <6>1
        <5>3. CASE rc[w] = "ROLLBACK" /\ q' = [q EXCEPT ![w][m] = Append(q[w][m], h)]
          <6>1. q'[w][m] = Append(q[w][m], h) /\ q[w][m] \in Seq(Txns)
            BY Zenon, <2>m, <2>q, <5>3 DEF m
          <6>2. Len(Append(q[w][m], h)) = Len(q[w][m]) + 1 /\ Len(q[w][m]) \in Nat
            BY <6>1
          <6>3. Append(q[w][m], h) # q[w][m]
            BY <6>2
          <6>. QED  BY Zenon, <2>1, <6>1, <6>3
        <5>. QED  BY Zenon, <2>c, <2>r, <4>1, <5>1, <5>2, <5>3
      <4>. HIDE DEF a, b, c, d, bb, cc
      <4>6. a + bb + cc + d = 1
        BY <4>1, <4>2, <4>3, <4>4, <4>5
      <4>. QED  BY Zenon, <4>2, <4>6
    <3>. QED  BY Zenon, <2>p, <2>s, <3>1, <3>2 DEF OpenInv, Busy
  <2>2. CASE /\ rc[w] = "ROLLBACK" /\ phase[w] = "mini" /\ leftover' = leftover
             /\ q' = [q EXCEPT ![w][m] = Append(q[w][m], h)]
    <3>0. /\ q'[w][m] = Append(q[w][m], h) /\ q[w][m] \in Seq(Txns)
          /\ \A n \in Queues : n # m => q'[w][n] = q[w][n]
      BY Zenon, <2>m, <2>q, <2>2 DEF m
    <3>h. h \in Scheduled(w, m)
      BY Zenon, <2>2, <2>p DEF OpenInv, h, m
    <3>1. \A n \in Queues : Range(q'[w][n]) \subseteq Scheduled(w, n)'
      <4>1. Range(Append(q[w][m], h)) = Range(q[w][m]) \cup {h}
        BY SMTT(30), <2>h, <3>0, RangeAppend DEF h
      <4>. QED  BY Zenon, <2>s, <3>0, <3>h, <4>1 DEF OpenInv
    <3>2. ASSUME NEW n \in Queues, NEW t \in Scheduled(w, n) PROVE Places(w, n, t)' = 1
      <4>. DEFINE a == Count(q[w][n], t)
                  b == Count(leftover[w], t)
                  c == IF Running(w, t) THEN 1 ELSE 0
                  d == SlotCount(w, t)
                  aa == Count(q'[w][n], t)
                  cc == IF Running(w, t)' THEN 1 ELSE 0
      <4>1. a \in Nat /\ b \in Nat /\ t \in Txns
        BY Zenon, <2>p, <1>PlacesType, <1>OpenFacts
      <4>2. a + b + c + d = 1 /\ Places(w, n, t)' = aa + b + cc + d
        BY Zenon, <2>2, <2>p DEF OpenInv, Places, SlotCount
      <4>3. d \in Nat
        BY Zenon, <1>SlotCountType
      <4>4. cc = 0 /\ c = (IF h = t THEN 1 ELSE 0) /\ c \in {0, 1}
        BY Zenon, <2>r, <2>2, <4>1
      <4>5. aa = a + c
        <5>1. CASE n = m
          <6>1. Count(Append(q[w][m], h), t) = Count(q[w][m], t) + (IF h = t THEN 1 ELSE 0)
            BY Zenon, <2>h, <3>0, <1>CountAppend DEF h
          <6>. QED  BY Zenon, <3>0, <4>4, <5>1, <6>1
        <5>2. CASE n # m
          <6>1. h # t
            BY Zenon, <2>p, <2>m, <3>h, <5>2, <1>OpenFacts DEF m
          <6>2. aa = a /\ c = 0
            BY Zenon, <3>0, <4>4, <5>2, <6>1
          <6>. HIDE DEF a, aa, c
          <6>. QED  BY <4>1, <6>2
        <5>. QED  BY Zenon, <5>1, <5>2
      <4>. HIDE DEF a, b, c, d, aa, cc
      <4>6. aa + b + cc + d = 1
        BY <4>1, <4>2, <4>3, <4>4, <4>5
      <4>. QED  BY Zenon, <4>2, <4>6
    <3>. QED  BY Zenon, <2>p, <2>s, <3>1, <3>2 DEF OpenInv, Busy
  <2>. QED  BY Zenon, <2>1, <2>2, <2>c
\* sched_batch fills the queues of a batch, in which nothing has run.
<1>OpenNext. ASSUME IInv, LoopInv(w), SentInv(w), NextBatch(w), pc'[w] # "done"
       PROVE  OpenInv(w)'
  <2>. USE <1>OpenNext
  <2>p. /\ pc[w] = "exit" /\ phase[w] = "left" /\ leftover[w] = <<>> /\ txn[w] = NoTxn
        /\ leftover' = leftover /\ txn' = txn /\ hot_send_q' = hot_send_q
        /\ pc'[w] = "run" /\ batch[w] < Len(Sched[w]) /\ batch'[w] = batch[w] + 1
        /\ q'[w] = Sched[w][batch[w] + 1]
    <3>1. pc[w] = "exit" /\ phase[w] = "left" /\ leftover[w] = <<>> /\ txn[w] = NoTxn
      BY Zenon, LoopFacts DEF NextBatch, LoopInv, Busy
    <3>2. DOMAIN pc = Workers /\ DOMAIN batch = Workers /\ DOMAIN q = Workers
      BY Zenon DEF IInv, TypeOK
    <3>. QED  BY Zenon, <3>1, <3>2 DEF NextBatch, txnVars
  <2>b. /\ batch[w] + 1 \in Nat /\ batch[w] + 1 > 0 /\ batch[w] + 1 <= Len(Sched[w])
    <3>1. batch[w] \in Nat /\ Sched[w] \in Seq([Queues -> Seq(my_txns[w])])
      BY Zenon, ConstantsAssumption, LoopFacts
    <3>. QED  BY <2>p, <3>1
  <2>s. \A n : Scheduled(w, n)' = Range(Sched[w][batch[w] + 1][n])
    BY Zenon, <2>p DEF Scheduled
  <2>1. \A n \in Queues : Range(q'[w][n]) \subseteq Scheduled(w, n)'
    BY Zenon, <2>p, <2>s
  <2>2. ASSUME NEW n \in Queues, NEW t \in Scheduled(w, n)' PROVE Places(w, n, t)' = 1
    <3>. DEFINE s == Sched[w][batch[w] + 1][n]
    <3>1. Count(s, t) = 1 /\ t \in my_txns[w]
      <4>1. t \in Range(s)
        BY Zenon, <2>2, <2>s
      <4>2. Range(s) \subseteq my_txns[w] /\ \A u \in Range(s) : Count(s, u) = 1
        BY Zenon, <2>2, <2>b, ScheduledFacts
      <4>. QED  BY Zenon, <4>1, <4>2
    <3>2. t # NoTxn
      <4>1. my_txns[w] \subseteq Txns /\ NoTxn \notin Txns
        BY Zenon, ConstantsAssumption
      <4>. QED  BY Zenon, <3>1, <4>1
    <3>3. ~Running(w, t)'
      BY Zenon, <2>p, <3>2 DEF Running
    <3>4. SlotCount(w, t)' = 0
      <4>1. \A p \in DOMAIN hot_send_q[node_id[w]] : hot_send_q[node_id[w]][p].txn # t
        BY Zenon, <2>p, <3>1 DEF SentInv, Slots, Range
      <4>2. {p \in DOMAIN hot_send_q'[node_id[w]] : hot_send_q'[node_id[w]][p].txn = t} = {}
        BY Zenon, <2>p, <4>1
      <4>. QED  BY Zenon, <4>2 DEF SlotCount, FiniteSetFacts, EmptyFact
    <3>5. Count(leftover'[w], t) = 0
      BY Zenon, <2>p, CountOnce
    <3>6. Count(q'[w][n], t) = 1
      BY Zenon, <2>p, <3>1
    <3>7. Places(w, n, t)' = 1 + 0 + 0 + 0
      BY Zenon, <3>3, <3>4, <3>5, <3>6 DEF Places
    <3>. QED  BY <3>7
  <2>. QED  BY Zenon, <2>1, <2>2, <2>p DEF OpenInv, Busy
<1>s. IInv /\ BatchInv /\ \A u \in Workers : LoopInv(u) /\ OnceInv(u)
  BY Zenon DEF OInv
<1>o. /\ IsOpen(v) \/ (v = w /\ NextBatch(w))
      /\ ~HotPeriod(w) \/ node_id[v] # node_id[w]
  BY Zenon, <1>s, <1>OpenStep
<1>1. CASE v = w /\ NextBatch(w)
  <2>1. pc'[w] # "done"
    BY Zenon, <1>1 DEF IsOpen
  <2>. QED  BY Zenon, <1>1, <1>s, <2>1, <1>OpenNext DEF OnceInv
<1>2. CASE IsOpen(v) /\ ~(v = w /\ NextBatch(w))
  <2>1. OpenInv(v) /\ phase[v] # "left" /\ pc[v] # "done"
    BY Zenon, <1>s, <1>2 DEF OnceInv, IsOpen
  <2>2. \A n \in Queues : \A t \in Scheduled(v, n) : t \in my_txns[v] /\ t \in Txns
    BY Zenon, <1>s, <2>1, <1>OpenFacts
  <2>3. \A n \in Queues : \A t \in Scheduled(v, n) :
          /\ SlotCount(v, t) \in Nat
          /\ SlotCount(v, t)' = SlotCount(v, t)
               + (IF AllAccessed(w) /\ phase[w] # "left" /\ txn[w] = t THEN 1 ELSE 0)
          /\ AllAccessed(w) /\ txn[w] = t => v = w
    BY Zenon, <1>o, <1>s, <2>2, <1>SlotCountStep
  <2>4. CASE v # w
    <3>1. /\ q'[v] = q[v] /\ leftover'[v] = leftover[v] /\ batch'[v] = batch[v] /\ pc'[v] = pc[v]
          /\ phase'[v] = phase[v] /\ txn'[v] = txn[v] /\ mb'[v] = mb[v] /\ rc'[v] = rc[v]
      BY Zenon, <1>s, <2>4, Others, OtherBatch
    <3>2. \A t : Running(v, t)' <=> Running(v, t)
      BY Zenon, <3>1 DEF Running
    <3>3. \A n \in Queues : \A t \in Scheduled(v, n) :
            SlotCount(v, t) \in Nat /\ SlotCount(v, t)' = SlotCount(v, t) + 0
      BY Zenon, <2>3, <2>4
    <3>4. \A n \in Queues : \A t \in Scheduled(v, n) :
            /\ SlotCount(v, t) \in Nat /\ SlotCount(v, t)' \in Nat
            /\ (IF Running(v, t)' THEN 1 ELSE 0) + SlotCount(v, t)'
                 = (IF Running(v, t) THEN 1 ELSE 0) + SlotCount(v, t)
      BY <3>2, <3>3
    <3>. QED  BY Zenon, <1>s, <2>1, <3>1, <3>4, <1>OpenKept
  <2>5. CASE v = w /\ Inner(w)
    <3>1. /\ q'[w] = q[w] /\ leftover'[w] = leftover[w] /\ batch'[w] = batch[w]
          /\ pc[w] \in Busy /\ phase' = phase /\ txn' = txn /\ mb' = mb
      BY Zenon, <2>5 DEF Inner
    <3>2. CASE ~AllAccessed(w)
      <4>1. \A t : Running(w, t)' <=> Running(w, t)
        BY Zenon, <1>s, <2>5, <3>2, <1>RunningStep
      <4>2. \A n \in Queues : \A t \in Scheduled(w, n) :
              SlotCount(w, t) \in Nat /\ SlotCount(w, t)' = SlotCount(w, t) + 0
        BY Zenon, <2>3, <2>5, <3>2
      <4>3. \A n \in Queues : \A t \in Scheduled(w, n) :
              /\ SlotCount(w, t) \in Nat /\ SlotCount(w, t)' \in Nat
              /\ (IF Running(w, t)' THEN 1 ELSE 0) + SlotCount(w, t)'
                   = (IF Running(w, t) THEN 1 ELSE 0) + SlotCount(w, t)
        BY <4>1, <4>2
      <4>. QED  BY Zenon, <1>s, <2>1, <2>5, <3>1, <4>3, <1>OpenKept
    <3>3. CASE AllAccessed(w)
      <4>0. pc[w] = "access" /\ pc'[w] = "clear" /\ rc'[w] = "COMMIT"
        BY Zenon, <1>s, <3>3 DEF AllAccessed, IInv, TypeOK
      <4>1. \A t : ~Running(w, t)' /\ (Running(w, t) <=> txn[w] = t)
        BY Zenon, <3>1, <4>0 DEF Running
      <4>2. \A n \in Queues : \A t \in Scheduled(w, n) :
              /\ SlotCount(w, t) \in Nat
              /\ SlotCount(w, t)' = SlotCount(w, t) + (IF txn[w] = t THEN 1 ELSE 0)
        BY Zenon, <2>1, <2>3, <2>5, <3>3
      <4>3. \A n \in Queues : \A t \in Scheduled(w, n) :
              /\ SlotCount(w, t) \in Nat /\ SlotCount(w, t)' \in Nat
              /\ (IF Running(w, t)' THEN 1 ELSE 0) + SlotCount(w, t)'
                   = (IF Running(w, t) THEN 1 ELSE 0) + SlotCount(w, t)
        BY <4>1, <4>2
      <4>. QED  BY Zenon, <1>s, <2>1, <2>5, <3>1, <4>3, <1>OpenKept
    <3>. QED  BY Zenon, <3>2, <3>3
  <2>6. CASE v = w /\ (EndMiniBatch(w) \/ LeaveBarrier(w))
    <3>1. /\ q'[w] = q[w] /\ leftover'[w] = leftover[w] /\ batch'[w] = batch[w] /\ txn' = txn
          /\ pc[w] \in {"run", "bar"} /\ pc'[w] \in {"run", "bar", "hot", "batch"} /\ pc'[w] \notin Busy
      BY Zenon, <1>s, <2>6 DEF EndMiniBatch, LeaveBarrier, txnVars, IInv, TypeOK, Busy
    <3>2. \A t : Running(w, t)' <=> Running(w, t)
      BY Zenon, <3>1 DEF Running
    <3>3. \A n \in Queues : \A t \in Scheduled(w, n) :
            SlotCount(w, t) \in Nat /\ SlotCount(w, t)' = SlotCount(w, t) + 0
      <4>1. ~AllAccessed(w)
        BY Zenon, <3>1 DEF AllAccessed
      <4>. QED  BY Zenon, <2>3, <2>6, <4>1
    <3>4. \A n \in Queues : \A t \in Scheduled(w, n) :
            /\ SlotCount(w, t) \in Nat /\ SlotCount(w, t)' \in Nat
            /\ (IF Running(w, t)' THEN 1 ELSE 0) + SlotCount(w, t)'
                 = (IF Running(w, t) THEN 1 ELSE 0) + SlotCount(w, t)
      BY <3>2, <3>3
    <3>. QED  BY Zenon, <1>s, <2>1, <2>6, <3>1, <3>4, <1>OpenKept
  <2>7. CASE v = w /\ (EnterLeftover(w) \/ RunLeftover(w) \/ HotPeriod(w))
    BY Zenon, <1>o, <1>s, <2>1, <2>7 DEF EnterLeftover, RunLeftover, IsOpen, IInv, TypeOK
  <2>. QED  BY Zenon, <1>2, <1>s, <2>1, <2>4, <2>5, <2>6, <2>7, InnerStep, <1>OpenRun, <1>OpenFinish
            DEF Outer
<1>. QED  BY Zenon, <1>o, <1>1, <1>2

\* What the invariant says where ExactlyOnce looks.
LEMMA OnceMeans ==
  ASSUME OInv PROVE ExactlyOnce
<1>s. IInv /\ BatchInv /\ SlotMbInv /\ \A u \in Workers : LoopInv(u) /\ OnceInv(u)
  BY Zenon DEF OInv
<1>l. \A w \in Workers : Leader[node_id[w]] \in Workers /\ node_id[Leader[node_id[w]]] = node_id[w]
  BY Zenon, ConstantsAssumption
<1>1. ASSUME BeforeHot, NEW w \in Workers, NEW n \in Queues, NEW t \in Scheduled(w, n)
      PROVE  Places(w, n, t) = 1
  <2>1. IsOpen(w)
    BY Zenon, <1>1, <1>l DEF BeforeHot, IsOpen, InBatchBar
  <2>. QED  BY Zenon, <1>1, <1>s, <2>1 DEF OnceInv, OpenInv
<1>2. ASSUME NEW w \in Workers, phase[w] = "left", pc[w] # "exit"
      PROVE  hot_send_q[node_id[w]] = <<>>
  <2>. DEFINE l == Leader[node_id[w]]
  <2>1. /\ batch[l] <= OpenBatch(w) /\ OpenBatch(w) = batch[w]
        /\ batch[l] > batch[w] \/ InBatchBar(w, l)
    BY Zenon, <1>2, <1>l, <1>s DEF BatchInv, OpenBatch
  <2>2. batch[l] \in Nat /\ batch[w] \in Nat
    BY Zenon, <1>l, <1>s, LoopFacts
  <2>3. InBatchBar(w, l)
    <3>. HIDE DEF l
    <3>. QED  BY <2>1, <2>2
  <2>. QED  BY Zenon, <1>2, <1>s, <2>3, SentEmpty
<1>. QED  BY Zenon, <1>1, <1>2 DEF ExactlyOnce, Places, SlotCount
=============================================================================
