--------------------------- MODULE ExecutorProofs ---------------------------
(***************************************************************************)
(* Lemmas for the safety of Executor, for any number of nodes, workers,     *)
(* keys and transactions.                                                   *)
(*                                                                         *)
(* First facts about operations and logs; that every step keeps what        *)
(* WorkerInv says of each worker: of the one that takes the step, action by *)
(* action, and of the others, whose state no step touches; and type         *)
(* correctness.                                                             *)
(*                                                                         *)
(* Then the locks: the lock words of the rows agree with the logs and the   *)
(* messages.  Every step of Executor grants one lock, releases one, or      *)
(* keeps them all; the invariants about locks are proved once for each of   *)
(* these three kinds.  With them come the assert of mb_allow_lock and that  *)
(* transactions of different nodes in one mini-batch write disjoint sets of *)
(* cold keys.                                                               *)
(***************************************************************************)
EXTENDS ExecutorInv, TLAPS

\* What the proofs use of the library's theorems on finite sets.  ExecutorOrder proves it
\* from them; the lemmas that need it take it as an assumption.
EmptyFact ==
  /\ IsFiniteSet({}) /\ Cardinality({}) = 0
  /\ \A S : IsFiniteSet(S) => (Cardinality(S) = 0 <=> S = {})
TypeFact == \A S : IsFiniteSet(S) => Cardinality(S) \in Nat
IntervalFact == \A a, b \in Int : IsFiniteSet(a .. b)
SubsetFact == \A S : IsFiniteSet(S) => \A T \in SUBSET S : IsFiniteSet(T)
AddFact == \A S : IsFiniteSet(S) => \A x : x \notin S => Cardinality(S \cup {x}) = Cardinality(S) + 1
RemoveFact ==
  \A S : IsFiniteSet(S) => \A x \in S : IsFiniteSet(S \ {x}) /\ Cardinality(S \ {x}) = Cardinality(S) - 1
SingletonFact ==
  /\ \A x : IsFiniteSet({x}) /\ Cardinality({x}) = 1
  /\ \A S : IsFiniteSet(S) => (Cardinality(S) = 1 <=> \E x : S = {x})
ProductFact == \A S, T : IsFiniteSet(S) /\ IsFiniteSet(T) => IsFiniteSet(S \X T)
BijectionFact ==
  \A S, T : IsFiniteSet(S) /\ ExistsBijection(S, T) => IsFiniteSet(T) /\ Cardinality(T) = Cardinality(S)
FiniteSetFacts ==
  /\ EmptyFact /\ TypeFact /\ IntervalFact /\ SubsetFact /\ AddFact /\ RemoveFact /\ SingletonFact
  /\ ProductFact /\ BijectionFact

-----------------------------------------------------------------------------
(* The operations of a transaction.                                         *)

\* The number of operations of a transaction is bounded.
LEMMA NOpsNat == N_OPS \in Nat
BY Zenon, ConstantsAssumption

\* What the steps use of numbers.
LEMMA Numbers ==
  /\ 1 >= 1 /\ 1 > 0 /\ 0 <= 1
  /\ \A m \in Nat : \A x \in 1 .. m : x \in Nat
  /\ \A a \in Nat : a >= a
  /\ \A a, b \in Nat : (b < a + 1 <=> b < a \/ b = a) /\ (a > 0 /\ b >= a => b > 0)
OBVIOUS

\* The list that my_execute and execute go through is a sequence of at most
\* N_OPS operations, whether or not run_txn has put the hot ones back.
LEMMA OpsType ==
  ASSUME NEW t \in Txns
  PROVE  ops(t) \in Seq(Op) /\ Len(ops(t)) \in 0 .. N_OPS
\* Joining two sequences as all_ops does.
<1>JoinType. ASSUME NEW S, NEW c \in Seq(S), NEW h \in Seq(S)
       PROVE  LET n == Len(c)  m == Len(h)
                  s == [p \in 1 .. n + m |-> IF p <= n THEN c[p] ELSE h[n + m + 1 - p]]
              IN  s \in Seq(S) /\ Len(s) = n + m
  <2>. USE <1>JoinType
  <2>. DEFINE n == Len(c)
              m == Len(h)
              s == [p \in 1 .. n + m |-> IF p <= n THEN c[p] ELSE h[n + m + 1 - p]]
  <2>1. n \in Nat /\ m \in Nat
    OBVIOUS
  <2>a. \A p \in Nat : p # 0 /\ p <= n => c[p] \in S
    OBVIOUS
  <2>b. \A p \in Nat : p # 0 /\ p <= m => h[p] \in S
    OBVIOUS
  <2>2. \A p \in 1 .. n + m : s[p] \in S
    <3>. SUFFICES ASSUME NEW p \in 1 .. n + m PROVE s[p] \in S
      BY Zenon
    <3>1. CASE p <= n
      <4>. HIDE DEF n, m
      <4>. QED  BY <2>1, <2>a, <3>1
    <3>2. CASE p > n
      <4>. HIDE DEF n, m
      <4>1. n + m + 1 - p \in Nat /\ n + m + 1 - p # 0 /\ n + m + 1 - p <= m
        BY <2>1, <3>2
      <4>. QED  BY <2>1, <2>b, <3>2, <4>1
    <3>. QED  BY <2>1, <3>1, <3>2
  <2>3. n + m \in Nat
    BY <2>1
  <2>4. s \in Seq(S) /\ Len(s) = n + m
    <3>. DEFINE k == n + m
    <3>1. k \in Nat
      BY Zenon, <2>3
    <3>2. s \in [1 .. k -> S]
      <4>. HIDE DEF n, m
      <4>. QED  BY Zenon, <2>2
    <3>. HIDE DEF k, s
    <3>3. s \in Seq(S) /\ Len(s) = k
      BY <3>1, <3>2
    <3>. QED  BY Zenon, <3>3 DEF k
  <2>. QED  BY Zenon, <2>4
<1>. DEFINE n == Len(cold_ops[t])
            m == Len(hot_ops[t])
<1>1. cold_ops[t] \in Seq(Op) /\ hot_ops[t] \in Seq(Op)
  BY Zenon, ConstantsAssumption
<1>2. n + m <= N_OPS /\ N_OPS \in Nat
  BY Zenon, ConstantsAssumption
<1>3. n \in Nat /\ m \in Nat
  BY <1>1
<1>4. n \in 0 .. N_OPS /\ n + m \in 0 .. N_OPS
  <2>. HIDE DEF n, m
  <2>. QED  BY <1>2, <1>3
<1>5. all_ops(t) \in Seq(Op) /\ Len(all_ops(t)) = n + m
  <2>. DEFINE s == [p \in 1 .. n + m |-> IF p <= n THEN cold_ops[t][p] ELSE hot_ops[t][n + m + 1 - p]]
  <2>1. all_ops(t) = s
    BY Zenon DEF all_ops
  <2>2. s \in Seq(Op) /\ Len(s) = n + m
    BY Zenon, <1>1, <1>JoinType
  <2>. HIDE DEF s, n, m
  <2>. QED  BY Zenon, <2>1, <2>2
<1>. QED  BY Zenon, <1>1, <1>4, <1>5 DEF ops

-----------------------------------------------------------------------------
(* Types.                                                                   *)

\* What a busy worker works on.
LEMMA BusyFacts ==
  ASSUME TypeOK, NEW w \in Workers, OwnTxns(w), pc[w] \in Busy
  PROVE  /\ txn[w] \in my_txns[w] /\ txn[w] \in Txns
         /\ Ops(w) \in Seq(Op) /\ Len(Ops(w)) \in 0 .. N_OPS
<1>1. txn[w] \in my_txns[w] /\ my_txns[w] \subseteq Txns
  BY Zenon, ConstantsAssumption DEF OwnTxns
<1>. QED  BY Zenon, <1>1, OpsType DEF Ops

\* Operation j of a busy worker is on a key that exists.
LEMMA BusyOp ==
  ASSUME TypeOK, NEW w \in Workers, OwnTxns(w), pc[w] \in Busy,
         NEW j \in Nat, j # 0, j <= Len(Ops(w))
  PROVE  /\ Key(w, j) \in Keys /\ Mode(w, j) \in {"READ", "WRITE"}
         /\ j \in 1 .. N_OPS /\ j \in 1 .. Len(Ops(w))
\* Key and Mode of an operation in range.
<1>OpType. ASSUME txn[w] \in Txns, NEW m \in 1 .. Len(Ops(w))
       PROVE  /\ Key(w, m) \in Keys /\ Mode(w, m) \in {"READ", "WRITE"}
              /\ m \in 1 .. N_OPS /\ IsLocal(w, m) \in BOOLEAN
  <2>. USE <1>OpType
  <2>1. Ops(w) \in Seq(Op) /\ Len(Ops(w)) \in 0 .. N_OPS
    BY Zenon, OpsType DEF Ops
  <2>2. Ops(w)[m] \in Op
    BY <2>1
  <2>. QED  BY <2>1, <2>2, ConstantsAssumption DEF Op, Key, Mode, IsLocal
<1>1. txn[w] \in Txns /\ Len(Ops(w)) \in 0 .. N_OPS
  BY Zenon, BusyFacts
<1>2. j \in 1 .. Len(Ops(w))
  BY <1>1
<1>. QED  BY Zenon, <1>1, <1>2, <1>OpType

\* The id a request carries is a TxnId.
LEMMA IdType ==
  ASSUME TypeOK, NEW w \in Workers
  PROVE  Id(w) \in TxnId(Nodes)
BY Zenon, ConstantsAssumption DEF TypeOK, Id, TxnId

\* A log entry that moves on keeps its copy and its id.
LEMMA MovedFacts ==
  ASSUME NEW f \in Future, NEW s \in Status
  PROVE  /\ moved(f, s) \in Future /\ moved(f, s).st = s
         /\ moved(f, s).tuple = f.tuple /\ moved(f, s).last_acq = f.last_acq
BY Zenon DEF moved, Future

\* The operation that a worker's loop is at.
LEMMA AtOp ==
  ASSUME IInv, NEW w \in Workers, pc[w] \in Busy, i[w] <= Len(Ops(w))
  PROVE  /\ i[w] \in 1 .. N_OPS /\ i[w] + 1 \in 1 .. N_OPS + 1 /\ i[w] \in 1 .. Len(Ops(w))
         /\ Key(w, i[w]) \in Keys /\ Mode(w, i[w]) \in {"READ", "WRITE"}
         /\ op[w][i[w]] \in Future /\ row[Key(w, i[w])] \in RowType(Nodes, Values)
<1>0. i[w] \in 1 .. N_OPS + 1 /\ N_OPS \in Nat
  BY Zenon, NOpsNat DEF IInv, TypeOK
<1>1. i[w] \in Nat /\ i[w] # 0 /\ N_OPS \in Nat
  BY <1>0
<1>2. /\ Key(w, i[w]) \in Keys /\ Mode(w, i[w]) \in {"READ", "WRITE"}
      /\ i[w] \in 1 .. N_OPS /\ i[w] \in 1 .. Len(Ops(w))
  BY Zenon, <1>1, BusyOp DEF IInv, WorkerInv
<1>3. op[w][i[w]] \in Future /\ row[Key(w, i[w])] \in RowType(Nodes, Values)
  BY Zenon, <1>2 DEF IInv, TypeOK
<1>. QED  BY <1>1, <1>2, <1>3

\* The same for the operation a message belongs to.
LEMMA AtMsg ==
  ASSUME IInv, NEW w \in Workers, NEW j \in 1 .. N_OPS, op[w][j].st # "none"
  PROVE  /\ pc[w] \in Busy /\ j <= Len(Ops(w)) /\ j \in 1 .. Len(Ops(w))
         /\ Key(w, j) \in Keys /\ Mode(w, j) \in {"READ", "WRITE"}
         /\ op[w][j] \in Future /\ row[Key(w, j)] \in RowType(Nodes, Values)
\* An operation that has left "none" is one of the transaction.
<1>EntryInRange. ASSUME TypeOK, OwnTxns(w), LogInv(w)
       PROVE  /\ pc[w] \in Busy /\ j <= Len(Ops(w))
              /\ Key(w, j) \in Keys /\ Mode(w, j) \in {"READ", "WRITE"}
  <2>. USE <1>EntryInRange
  <2>1. pc[w] \in Busy /\ j <= Len(Ops(w))
    BY DEF LogInv, LogEntry, Entry, Remote
  <2>2. j \in Nat /\ j # 0
    BY NOpsNat
  <2>. QED  BY Zenon, <2>1, <2>2, BusyOp
<1>1. /\ pc[w] \in Busy /\ j <= Len(Ops(w))
      /\ Key(w, j) \in Keys /\ Mode(w, j) \in {"READ", "WRITE"}
  BY Zenon, <1>EntryInRange DEF IInv, WorkerInv
<1>2. Len(Ops(w)) \in Nat
  BY <1>1, BusyFacts, NOpsNat DEF IInv, WorkerInv
<1>3. j \in 1 .. Len(Ops(w))
  BY <1>1, <1>2, NOpsNat
<1>4. op[w][j] \in Future /\ row[Key(w, j)] \in RowType(Nodes, Values)
  BY Zenon, <1>1 DEF IInv, TypeOK
<1>. QED  BY Zenon, <1>1, <1>3, <1>4

\* sched_batch fills the queues of a worker with its own transactions.
LEMMA SchedType ==
  ASSUME NEW w \in Workers, NEW n \in Nat, n < Len(Sched[w])
  PROVE  /\ Sched[w][n + 1] \in [Queues -> Seq(my_txns[w])]
         /\ Sched[w][n + 1] \in [Queues -> Seq(Txns)]
<1>1. Sched[w] \in Seq([Queues -> Seq(my_txns[w])])
  BY Zenon, ConstantsAssumption
<1>2. Sched[w][n + 1] \in [Queues -> Seq(my_txns[w])]
  BY <1>1
<1>3. Seq(my_txns[w]) \subseteq Seq(Txns)
  BY ConstantsAssumption
<1>. QED  BY Zenon, <1>2, <1>3

\* A mini-batch has a queue.
LEMMA MbQueueType ==
  ASSUME TypeOK, AcqInv, NEW w \in Workers
  PROVE  MbQueue(w) \in Queues
<1>1. mb[w] \in Nat /\ mb[w] > 0
  BY Zenon DEF TypeOK, AcqInv
<1>2. N_QUEUES \in Nat /\ N_QUEUES > 0
  BY ConstantsAssumption
<1>. QED  BY SMTT(30), <1>1, <1>2 DEF MbQueue, Queues

\* run_leftover_txns runs only what is there.
LEMMA LeftoverLimit ==
  ASSUME NEW s \in Seq(Txns), NEW n \in Nat, Len(s) > n \div DROP_DIV
  PROVE  s # <<>>
<1>0. DROP_DIV \in Nat \ {0}
  BY Zenon, ConstantsAssumption
<1>1. DROP_DIV \in Nat /\ DROP_DIV > 0
  BY <1>0
<1>2. \A d \in Nat : d > 0 => n \div d >= 0
  OBVIOUS
<1>3. n \div DROP_DIV >= 0
  BY Zenon, <1>1, <1>2
<1>4. Len(<<>>) = 0
  BY Zenon
<1>. QED  BY SMTT(30), <1>1, <1>3, <1>4

\* A step of one worker, or of the network on its behalf, leaves the others'
\* state alone; the transactions that two workers run are never the same.
LEMMA Others ==
  ASSUME IInv, NEW w \in Workers, Step(w) \/ Handle(w), NEW v \in Workers, v # w
  PROVE  /\ pc'[v] = pc[v] /\ i'[v] = i[v] /\ phase'[v] = phase[v] /\ mb'[v] = mb[v]
         /\ txn'[v] = txn[v] /\ q'[v] = q[v] /\ leftover'[v] = leftover[v]
         /\ rc'[v] = rc[v] /\ puts'[v] = puts[v] /\ op'[v] = op[v]
         /\ pc[v] \in Busy => Ops(v)' = Ops(v) /\ do_accel'[txn[v]] = do_accel[txn[v]]
<1>. DEFINE Same == /\ pc'[v] = pc[v] /\ i'[v] = i[v] /\ phase'[v] = phase[v] /\ mb'[v] = mb[v]
                    /\ txn'[v] = txn[v] /\ q'[v] = q[v] /\ leftover'[v] = leftover[v]
                    /\ rc'[v] = rc[v] /\ puts'[v] = puts[v] /\ op'[v] = op[v]
<1>t. /\ DOMAIN pc = Workers /\ DOMAIN i = Workers /\ DOMAIN phase = Workers
      /\ DOMAIN mb = Workers /\ DOMAIN txn = Workers /\ DOMAIN q = Workers
      /\ DOMAIN leftover = Workers /\ DOMAIN rc = Workers /\ DOMAIN puts = Workers
      /\ DOMAIN op = Workers
  BY Zenon DEF IInv, TypeOK
<1>. USE <1>t DEF lockVars, loopVars, txnVars
<1>1. ASSUME NEW n \in Queues, RunTxn(w, n) PROVE Same /\ do_accel' = do_accel
  BY Zenon, <1>1 DEF RunTxn, PopTxn
<1>2. ASSUME EndMiniBatch(w) \/ LeaveBarrier(w) \/ HotPeriod(w) \/ EnterLeftover(w)
      PROVE  Same /\ do_accel' = do_accel
  BY Zenon, <1>2 DEF EndMiniBatch, LeaveBarrier, HotPeriod, EnterLeftover
<1>3. ASSUME EarlyTest(w) \/ LocalLock(w) \/ SendGetReq(w) \/ AllLocked(w)
      PROVE  Same /\ do_accel' = do_accel
  BY Zenon, <1>3 DEF EarlyTest, LocalLock, SendGetReq, AllLocked, NextLock, StartRollback
<1>4. ASSUME Access(w) \/ AllAccessed(w) \/ Clear(w) \/ AllCleared(w)
      PROVE  Same /\ do_accel' = do_accel
  BY Zenon, <1>4 DEF Access, AllAccessed, Clear, AllCleared, CountPut
<1>5. ASSUME RunLeftover(w) \/ NextBatch(w) PROVE Same /\ do_accel' = do_accel
  BY Zenon, <1>5 DEF RunLeftover, NextBatch
<1>6. ASSUME HandleGetRes(w) PROVE Same /\ do_accel' = do_accel
  BY Zenon, <1>6 DEF HandleGetRes, NextLock, StartRollback
<1>7. ASSUME NEW j \in 1 .. N_OPS, HandleGetReq(w, j) \/ HandlePutReq(w, j) \/ HandlePutRes(w, j)
      PROVE  Same /\ do_accel' = do_accel
  BY Zenon, <1>7 DEF HandleGetReq, HandlePutReq, HandlePutRes
<1>8. ASSUME Finish(w)
      PROVE  Same /\ (do_accel' = do_accel \/ do_accel' = [do_accel EXCEPT ![txn[w]] = FALSE])
  <2>1. UNCHANGED <<phase, mb, rc, puts>> /\ op'[v] = op[v] /\ txn'[v] = txn[v]
        /\ pc'[v] = pc[v] /\ i'[v] = i[v]
    BY Zenon, <1>8 DEF Finish
  <2>2. q' = q \/ q' = [q EXCEPT ![w][MbQueue(w)] = Append(q[w][MbQueue(w)], txn[w])]
    BY Zenon, <1>8 DEF Finish, FinishTxn, FinishLeftover
  <2>3. leftover'[v] = leftover[v]
    BY Zenon, <1>8 DEF Finish, FinishTxn, FinishLeftover
  <2>4. do_accel' = do_accel \/ do_accel' = [do_accel EXCEPT ![txn[w]] = FALSE]
    BY Zenon, <1>8 DEF Finish, FinishTxn, FinishLeftover
  <2>. QED  BY Zenon, <2>1, <2>2, <2>3, <2>4
<1>. HIDE <1>t
<1>9. /\ Same
      /\ do_accel' = do_accel \/ (Finish(w) /\ do_accel' = [do_accel EXCEPT ![txn[w]] = FALSE])
  <2>. HIDE DEF Same
  <2>. QED  BY Zenon, <1>1, <1>2, <1>3, <1>4, <1>5, <1>6, <1>7, <1>8 DEF Step, Handle
<1>10. ASSUME pc[v] \in Busy
       PROVE  Ops(v)' = Ops(v) /\ do_accel'[txn[v]] = do_accel[txn[v]]
  <2>1. txn[v] \in my_txns[v] /\ txn[v] \in Txns /\ txn'[v] = txn[v]
    BY Zenon, <1>9, <1>10, BusyFacts DEF IInv, WorkerInv
  <2>2. do_accel'[txn[v]] = do_accel[txn[v]]
    <3>1. CASE do_accel' = do_accel
      BY Zenon, <3>1
    <3>2. CASE Finish(w) /\ do_accel' = [do_accel EXCEPT ![txn[w]] = FALSE]
      <4>1. txn[w] \in my_txns[w]
        BY Zenon, <3>2, BusyFacts DEF IInv, WorkerInv, Finish, Busy
      <4>2. txn[v] # txn[w]
        BY Zenon, <2>1, <4>1, ConstantsAssumption
      <4>3. do_accel \in [Txns -> BOOLEAN]
        BY Zenon DEF IInv, TypeOK
      <4>. QED  BY Zenon, <2>1, <3>2, <4>2, <4>3
    <3>. QED  BY Zenon, <1>9, <3>1, <3>2
  <2>. QED  BY Zenon, <2>1, <2>2 DEF Ops, ops
<1>. QED  BY Zenon, <1>9, <1>10

-----------------------------------------------------------------------------
(* The worker that takes the step.                                          *)

\* What a busy worker knows before its step.
LEMMA BusyBefore ==
  ASSUME IInv, NEW w \in Workers, pc[w] \in Busy
  PROVE  /\ TypeOK /\ OwnTxns(w) /\ IndexInv(w) /\ HolderInv(w)
         /\ i[w] \in Nat /\ i[w] >= 1 /\ Len(Ops(w)) \in Nat /\ Len(Ops(w)) <= N_OPS
         /\ N_OPS \in Nat /\ DOMAIN pc = Workers /\ DOMAIN i = Workers
         /\ op \in [Workers -> [1 .. N_OPS -> Future]]
         /\ \A j \in 1 .. N_OPS : LogEntry(w, j)
<1>1. TypeOK /\ OwnTxns(w) /\ IndexInv(w) /\ HolderInv(w) /\ LogInv(w)
  BY Zenon DEF IInv, WorkerInv
<1>2. Len(Ops(w)) \in 0 .. N_OPS
  BY Zenon, <1>1, BusyFacts
<1>3. /\ i[w] \in 1 .. N_OPS + 1 /\ DOMAIN pc = Workers /\ DOMAIN i = Workers
      /\ op \in [Workers -> [1 .. N_OPS -> Future]]
  BY Zenon, <1>1 DEF TypeOK
<1>. QED  BY <1>1, <1>2, <1>3, NOpsNat DEF LogInv

\* WorkerInv is kept, for every worker.
LEMMA WorkersStep ==
  ASSUME IInv, NEW w \in Workers, Step(w) \/ Handle(w)
  PROVE  \A v \in Workers : WorkerInv(v)'
\* What WorkerInv says of them therefore stays true.
<1>OthersInv. ASSUME NEW v \in Workers, v # w
       PROVE  WorkerInv(v)'
  <2>. USE <1>OthersInv
  <2>1. /\ pc'[v] = pc[v] /\ i'[v] = i[v] /\ phase'[v] = phase[v] /\ mb'[v] = mb[v]
        /\ txn'[v] = txn[v] /\ q'[v] = q[v] /\ leftover'[v] = leftover[v] /\ op'[v] = op[v]
        /\ pc[v] \in Busy => Ops(v)' = Ops(v)
    BY Zenon, Others
  <2>2. pc[v] \in Busy => \A j \in 1 .. N_OPS : IsLocal(v, j)' <=> IsLocal(v, j)
    BY Zenon, <2>1 DEF IsLocal, Key
  <2>3. WorkerInv(v) /\ TypeOK
    BY Zenon DEF IInv
  <2>4. OwnTxns(v)'
    <3>1. pc[v] \in Busy => do_accel'[txn[v]] = do_accel[txn[v]]
      BY Zenon, Others
    <3>. QED  BY Zenon, <2>1, <2>3, <3>1 DEF WorkerInv, OwnTxns
  <2>5. IndexInv(v)'
    <3>1. pc[v] \in {"mutex", "wait"} => i[v] \in 1 .. N_OPS /\ pc[v] \in Busy
      BY Zenon, <2>3, AtOp DEF IInv, WorkerInv, IndexInv, Busy
    <3>. QED  BY Zenon, <2>1, <2>2, <2>3, <3>1 DEF WorkerInv, IndexInv
  <2>6. LogInv(v)'
    <3>. SUFFICES ASSUME NEW j \in 1 .. N_OPS
                  PROVE  LogEntry(v, j)'
      BY Zenon DEF LogInv
    <3>1. LogEntry(v, j)
      BY Zenon, <2>3 DEF WorkerInv, LogInv
    <3>2. CASE pc[v] \in Busy
      BY Zenon, <2>1, <2>2, <3>1, <3>2 DEF LogEntry, Entry, Remote
    <3>3. CASE pc[v] \notin Busy
      BY Zenon, <2>1, <3>1, <3>3 DEF LogEntry, Entry, Remote, Busy
    <3>. QED  BY Zenon, <3>2, <3>3
  <2>7. HolderInv(v)'
    BY Zenon, <2>1, <2>3 DEF WorkerInv, HolderInv, Holds, Id
  <2>. QED  BY Zenon, <2>4, <2>5, <2>6, <2>7 DEF WorkerInv
\* The steps of my_execute and execute stay with one transaction.
<1>SameTxn. ASSUME TypeOK, OwnTxns(w), pc[w] \in Busy,
                UNCHANGED <<phase, mb, q, leftover, txn, do_accel>>
       PROVE  /\ OwnTxns(w)' /\ Ops(w)' = Ops(w) /\ Id(w)' = Id(w)
              /\ phase'[w] = phase[w] /\ mb'[w] = mb[w] /\ txn'[w] = txn[w]
              /\ Len(Ops(w)) \in Nat
              /\ \A j \in 1 .. N_OPS : Key(w, j)' = Key(w, j) /\ Mode(w, j)' = Mode(w, j)
  <2>. USE <1>SameTxn
  <2>1. Ops(w)' = Ops(w) /\ Id(w)' = Id(w)
    BY Zenon DEF Ops, ops, Id
  <2>2. OwnTxns(w)'
    BY Zenon DEF OwnTxns
  <2>3. Len(Ops(w)) \in Nat
    BY BusyFacts, NOpsNat
  <2>. QED  BY Zenon, <2>1, <2>2, <2>3 DEF Key, Mode
\* Before a transaction starts, and after it, its worker's log is empty.
<1>IdleLog. ASSUME LogInv(w), pc[w] \notin Busy, op'[w] = op[w],
                pc'[w] \notin Busy \/ (pc'[w] = "lock" /\ i'[w] = 1)
       PROVE  IndexInv(w)' /\ LogInv(w)' /\ HolderInv(w)'
  <2>. USE <1>IdleLog
  <2>1. \A j \in 1 .. N_OPS : op'[w][j].st = "none"
    BY Zenon DEF LogInv, LogEntry, Entry, Remote
  <2>2. IndexInv(w)'
    BY Zenon DEF IndexInv, Busy
  <2>3. LogInv(w)'
    BY <2>1 DEF LogInv, LogEntry, Entry, Remote, Busy
  <2>4. HolderInv(w)'
    BY Zenon, <2>1 DEF HolderInv, Holds, Busy
  <2>. QED  BY Zenon, <2>2, <2>3, <2>4
\* How an entry moves when its worker goes from p and n to p2 and n2.
<1>EntryMoves. ASSUME NEW p, NEW n \in Nat, NEW j \in Nat, NEW st, NEW len \in Nat, Entry(p, n, j, st, len),
                NEW p2, NEW n2, NEW st2, n >= 1, j >= 1, j # n => st2 = st,
                \/ p = "lock" /\ n <= len /\ p2 = "mutex" /\ n2 = n /\ st2 = st
                \/ p \in {"lock", "mutex"} /\ p2 = "clear" /\ n2 = 1 /\ st2 = st
                \/ p = "mutex" /\ n <= len /\ p2 = "lock" /\ n2 = n + 1 /\ (j = n => st2 = "held")
                \/ p = "lock" /\ n <= len /\ p2 = "wait" /\ n2 = n /\ (j = n => st2 = "getreq")
                \/ p = "wait" /\ n <= len /\ p2 = "lock" /\ n2 = n + 1 /\ (j = n => st2 = "held")
                \/ p = "wait" /\ n <= len /\ p2 = "clear" /\ n2 = 1 /\ (j = n => st2 = "failed")
                \/ p = "lock" /\ n > len /\ p2 = "access" /\ n2 = 1 /\ st2 = st
                \/ p = "access" /\ p2 = "access" /\ st2 = st
                \/ p = "access" /\ p2 = "clear" /\ n2 = 1 /\ st2 = st
                \/ /\ p = "clear" /\ n <= len /\ p2 = "clear" /\ n2 = n + 1
                   /\ j = n => st2 \in {"clear", "putreq", "failed", "none"}
                \/ p = "clear" /\ n > len /\ p2 = "puts" /\ st2 = st
       PROVE  Entry(p2, n2, j, st2, len)
  <2>. USE <1>EntryMoves
  <2>1. CASE p = "lock" /\ n <= len /\ p2 = "mutex" /\ n2 = n /\ st2 = st
    BY Zenon, <2>1 DEF Entry, Busy
  <2>2. CASE p \in {"lock", "mutex"} /\ p2 = "clear" /\ n2 = 1 /\ st2 = st
    BY <2>2 DEF Entry, Busy
  <2>3. CASE p = "mutex" /\ n <= len /\ p2 = "lock" /\ n2 = n + 1 /\ (j = n => st2 = "held")
    BY <2>3 DEF Entry, Busy
  <2>4. CASE p = "lock" /\ n <= len /\ p2 = "wait" /\ n2 = n /\ (j = n => st2 = "getreq")
    BY <2>4 DEF Entry, Busy
  <2>5. CASE p = "wait" /\ n <= len /\ p2 = "lock" /\ n2 = n + 1 /\ (j = n => st2 = "held")
    BY <2>5 DEF Entry, Busy
  <2>6. CASE p = "wait" /\ n <= len /\ p2 = "clear" /\ n2 = 1 /\ (j = n => st2 = "failed")
    BY <2>6 DEF Entry, Busy
  <2>7. CASE p = "lock" /\ n > len /\ p2 = "access" /\ n2 = 1 /\ st2 = st
    BY <2>7 DEF Entry, Busy
  <2>8. CASE p = "access" /\ p2 = "access" /\ st2 = st
    BY Zenon, <2>8 DEF Entry, Busy
  <2>9. CASE p = "access" /\ p2 = "clear" /\ n2 = 1 /\ st2 = st
    BY <2>9 DEF Entry, Busy
  <2>10. CASE /\ p = "clear" /\ n <= len /\ p2 = "clear" /\ n2 = n + 1
              /\ j = n => st2 \in {"clear", "putreq", "failed", "none"}
    BY <2>10 DEF Entry, Busy
  <2>11. CASE p = "clear" /\ n > len /\ p2 = "puts" /\ st2 = st
    BY <2>11 DEF Entry, Busy
  <2>. QED  BY Zenon, <2>1, <2>2, <2>3, <2>4, <2>5, <2>6, <2>7, <2>8, <2>9, <2>10, <2>11
\* A log whose entries are right one by one, and that sends nothing to its own node.
<1>LogMoves. ASSUME \A j \in 1 .. N_OPS : LogEntry(w, j),
                Ops(w)' = Ops(w), \A j \in 1 .. N_OPS : Key(w, j)' = Key(w, j),
                \A j \in 1 .. N_OPS : Entry(pc'[w], i'[w], j, op'[w][j].st, Len(Ops(w))),
                \A j \in 1 .. N_OPS : op'[w][j].st \in Remote => op[w][j].st \in Remote \/ ~IsLocal(w, j)
       PROVE  LogInv(w)'
  <2>. USE <1>LogMoves
  <2>. SUFFICES ASSUME NEW j \in 1 .. N_OPS PROVE LogEntry(w, j)'
    BY Zenon DEF LogInv
  <2>1. IsLocal(w, j)' <=> IsLocal(w, j)
    BY Zenon DEF IsLocal
  <2>2. op[w][j].st \in Remote => ~IsLocal(w, j)
    BY Zenon DEF LogEntry
  <2>. QED  BY Zenon, <2>1, <2>2 DEF LogEntry
\* The early test of local_lock.
<1>SelfEarlyTest. ASSUME EarlyTest(w)
       PROVE  WorkerInv(w)'
  <2>. USE <1>SelfEarlyTest
  <2>1. /\ pc[w] = "lock" /\ pc[w] \in Busy /\ i[w] <= Len(Ops(w)) /\ IsLocal(w, i[w])
        /\ UNCHANGED <<phase, mb, q, leftover, txn, do_accel>> /\ op' = op
    BY Zenon DEF EarlyTest, Busy, lockVars, loopVars
  <2>2. /\ i[w] \in Nat /\ i[w] >= 1 /\ Len(Ops(w)) \in Nat /\ Len(Ops(w)) <= N_OPS /\ N_OPS \in Nat
        /\ \A j \in 1 .. N_OPS : LogEntry(w, j)
        /\ HolderInv(w) /\ TypeOK /\ OwnTxns(w)
        /\ DOMAIN pc = Workers /\ DOMAIN i = Workers
    BY Zenon, <2>1, BusyBefore
  <2>3. (pc'[w] = "mutex" /\ i'[w] = i[w]) \/ (pc'[w] = "clear" /\ i'[w] = 1)
    BY Zenon, <2>2 DEF EarlyTest, StartRollback
  <2>4. /\ OwnTxns(w)' /\ Ops(w)' = Ops(w) /\ Id(w)' = Id(w)
        /\ phase'[w] = phase[w] /\ mb'[w] = mb[w]
        /\ \A j \in 1 .. N_OPS : Key(w, j)' = Key(w, j)
    BY Zenon, <2>1, <2>2, <1>SameTxn
  <2>5. IndexInv(w)'
    BY SMTT(30), <2>1, <2>2, <2>3, <2>4 DEF IndexInv, IsLocal
  <2>6. LogInv(w)'
    <3>1. ASSUME NEW j \in 1 .. N_OPS
          PROVE  Entry(pc'[w], i'[w], j, op'[w][j].st, Len(Ops(w)))
      <4>1. /\ Entry(pc[w], i[w], j, op[w][j].st, Len(Ops(w))) /\ j \in Nat /\ j >= 1
            /\ i[w] \in Nat /\ i[w] >= 1 /\ Len(Ops(w)) \in Nat
        BY <2>2 DEF LogEntry
      <4>2. op'[w][j].st = op[w][j].st
        BY Zenon, <2>1
      <4>. QED  BY <2>1, <2>3, <4>1, <4>2, <1>EntryMoves
    <3>2. \A j \in 1 .. N_OPS : op'[w][j].st \in Remote => op[w][j].st \in Remote \/ ~IsLocal(w, j)
      BY Zenon, <2>1
    <3>. QED  BY Zenon, <2>2, <2>4, <3>1, <3>2, <1>LogMoves
  <2>7. HolderInv(w)'
    BY Zenon, <2>1, <2>2, <2>3, <2>4 DEF HolderInv, Holds
  <2>. QED  BY Zenon, <2>4, <2>5, <2>6, <2>7 DEF WorkerInv
\* local_lock under the mutex.
<1>SelfLocalLock. ASSUME LocalLock(w)
       PROVE  WorkerInv(w)'
  <2>. USE <1>SelfLocalLock
  <2>. DEFINE k == Key(w, i[w])
              f == [st |-> "held", tuple |-> NoTxn, last_acq |-> row[k].last_acq]
  <2>1. /\ pc[w] = "mutex" /\ pc[w] \in Busy /\ UNCHANGED <<phase, mb, q, leftover, txn, do_accel>>
    BY Zenon DEF LocalLock, Busy, loopVars
  <2>2. /\ i[w] \in Nat /\ i[w] >= 1 /\ Len(Ops(w)) \in Nat /\ Len(Ops(w)) <= N_OPS /\ N_OPS \in Nat
        /\ \A j \in 1 .. N_OPS : LogEntry(w, j)
        /\ HolderInv(w) /\ IndexInv(w) /\ TypeOK /\ OwnTxns(w)
        /\ DOMAIN pc = Workers /\ DOMAIN i = Workers /\ op \in [Workers -> [1 .. N_OPS -> Future]]
    BY Zenon, <2>1, BusyBefore
  <2>3. i[w] <= Len(Ops(w)) /\ IsLocal(w, i[w])
    BY Zenon, <2>1, <2>2 DEF IndexInv
  <2>4. i[w] \in 1 .. N_OPS /\ row[k] \in RowType(Nodes, Values)
    BY Zenon, <2>1, <2>3, AtOp
  <2>5. f \in Future
    BY Zenon, <2>4 DEF RowType, Future, Status, Values
  <2>6. CASE /\ may_lock(row[k], Mode(w, i[w]), Id(w)) /\ op' = [op EXCEPT ![w][i[w]] = f]
             /\ pc'[w] = "lock" /\ i'[w] = i[w] + 1
    <3>1. f.st = "held" /\ f.last_acq = row[k].last_acq
      BY Zenon
    <3>2. phase[w] # "left" => \/ f.last_acq.mini_batch_id # mb[w]
                               \/ f.last_acq.node_id = node_id[w]
      BY ZenonT(30), <2>6 DEF may_lock, mb_allow_lock, Id
    <3>. HIDE DEF f
    <3>a. /\ op'[w][i[w]] = f
          /\ \A l \in 1 .. N_OPS : l # i[w] => op'[w][l] = op[w][l]
      BY Zenon, <2>2, <2>4, <2>5, <2>6
    <3>3. /\ OwnTxns(w)' /\ Ops(w)' = Ops(w) /\ Id(w)' = Id(w)
          /\ phase'[w] = phase[w] /\ mb'[w] = mb[w]
          /\ \A l \in 1 .. N_OPS : Key(w, l)' = Key(w, l)
      BY Zenon, <2>1, <2>2, <1>SameTxn
    <3>4. IndexInv(w)'
      BY Zenon, <2>6 DEF IndexInv
    <3>5. LogInv(w)'
      <4>1. ASSUME NEW j \in 1 .. N_OPS
            PROVE  Entry(pc'[w], i'[w], j, op'[w][j].st, Len(Ops(w)))
        <5>1. /\ Entry(pc[w], i[w], j, op[w][j].st, Len(Ops(w))) /\ j \in Nat /\ j >= 1
              /\ i[w] \in Nat /\ i[w] >= 1 /\ Len(Ops(w)) \in Nat
          BY <2>2 DEF LogEntry
        <5>2. /\ j # i[w] => op'[w][j].st = op[w][j].st
              /\ j = i[w] => op'[w][j].st = "held"
          BY Zenon, <3>1, <3>a
        <5>. QED  BY <2>1, <2>3, <2>6, <5>1, <5>2, <1>EntryMoves
      <4>2. \A j \in 1 .. N_OPS : op'[w][j].st \in Remote => op[w][j].st \in Remote \/ ~IsLocal(w, j)
        BY Zenon, <3>1, <3>a DEF Remote
      <4>. QED  BY Zenon, <2>2, <3>3, <4>1, <4>2, <1>LogMoves
    <3>6. HolderInv(w)'
      <4>. SUFFICES ASSUME NEW j \in 1 .. N_OPS, phase[w] # "left", Holds(w, j)'
                    PROVE  \/ op'[w][j].last_acq.mini_batch_id # mb[w]
                           \/ op'[w][j].last_acq.node_id = node_id[w]
        BY Zenon, <2>6, <3>3 DEF HolderInv
      <4>1. CASE j = i[w]
        BY Zenon, <3>2, <3>a, <4>1
      <4>2. CASE j # i[w]
        BY ZenonT(30), <2>2, <3>3, <3>a, <4>2 DEF HolderInv, Holds
      <4>. QED  BY Zenon, <4>1, <4>2
    <3>. QED  BY Zenon, <3>3, <3>4, <3>5, <3>6 DEF WorkerInv
  <2>7. CASE op' = op /\ pc'[w] = "clear" /\ i'[w] = 1
    <3>1. /\ OwnTxns(w)' /\ Ops(w)' = Ops(w) /\ Id(w)' = Id(w)
          /\ phase'[w] = phase[w] /\ mb'[w] = mb[w]
          /\ \A j \in 1 .. N_OPS : Key(w, j)' = Key(w, j)
      BY Zenon, <2>1, <2>2, <1>SameTxn
    <3>2. LogInv(w)'
      <4>1. ASSUME NEW j \in 1 .. N_OPS
            PROVE  Entry(pc'[w], i'[w], j, op'[w][j].st, Len(Ops(w)))
        <5>1. /\ Entry(pc[w], i[w], j, op[w][j].st, Len(Ops(w))) /\ j \in Nat /\ j >= 1
              /\ i[w] \in Nat /\ i[w] >= 1 /\ Len(Ops(w)) \in Nat
          BY <2>2 DEF LogEntry
        <5>2. op'[w][j].st = op[w][j].st
          BY Zenon, <2>7
        <5>. QED  BY <2>1, <2>3, <2>7, <5>1, <5>2, <1>EntryMoves
      <4>2. \A j \in 1 .. N_OPS : op'[w][j].st \in Remote => op[w][j].st \in Remote \/ ~IsLocal(w, j)
        BY Zenon, <2>7
      <4>. QED  BY Zenon, <2>2, <3>1, <4>1, <4>2, <1>LogMoves
    <3>3. IndexInv(w)' /\ HolderInv(w)'
      BY Zenon, <2>2, <2>7, <3>1 DEF IndexInv, HolderInv, Holds
    <3>. QED  BY Zenon, <3>1, <3>2, <3>3 DEF WorkerInv
  <2>. QED  BY Zenon, <2>2, <2>6, <2>7 DEF LocalLock, NextLock, StartRollback
\* A request is sent and the worker waits.
<1>SelfSendGetReq. ASSUME SendGetReq(w)
       PROVE  WorkerInv(w)'
  <2>. USE <1>SelfSendGetReq
  <2>. DEFINE f == moved(op[w][i[w]], "getreq")
  <2>1. /\ pc[w] = "lock" /\ pc[w] \in Busy /\ i[w] <= Len(Ops(w)) /\ ~IsLocal(w, i[w])
        /\ UNCHANGED <<phase, mb, q, leftover, txn, do_accel>> /\ i' = i
        /\ op' = [op EXCEPT ![w][i[w]] = f]
    BY Zenon DEF SendGetReq, Busy, loopVars, txnVars
  <2>2. /\ i[w] \in Nat /\ i[w] >= 1 /\ Len(Ops(w)) \in Nat /\ Len(Ops(w)) <= N_OPS /\ N_OPS \in Nat
        /\ \A j \in 1 .. N_OPS : LogEntry(w, j)
        /\ HolderInv(w) /\ TypeOK /\ OwnTxns(w)
        /\ DOMAIN pc = Workers /\ op \in [Workers -> [1 .. N_OPS -> Future]]
    BY Zenon, <2>1, BusyBefore
  <2>3. pc'[w] = "wait"
    BY Zenon, <2>2 DEF SendGetReq
  <2>4. i[w] \in 1 .. N_OPS /\ op[w][i[w]] \in Future
    BY Zenon, <2>1, AtOp
  <2>5. f \in Future /\ f.st = "getreq"
    BY Zenon, <2>4, MovedFacts DEF Status
  <2>. HIDE DEF f
  <2>a. /\ op'[w][i[w]] = f
        /\ \A l \in 1 .. N_OPS : l # i[w] => op'[w][l] = op[w][l]
    BY Zenon, <2>1, <2>2, <2>4, <2>5
  <2>6. /\ OwnTxns(w)' /\ Ops(w)' = Ops(w) /\ Id(w)' = Id(w)
        /\ phase'[w] = phase[w] /\ mb'[w] = mb[w]
        /\ \A l \in 1 .. N_OPS : Key(w, l)' = Key(w, l)
    BY ZenonT(30), <2>1, <2>2, <1>SameTxn
  <2>7. IndexInv(w)'
    BY ZenonT(30), <2>1, <2>2, <2>3, <2>4, <2>6 DEF IndexInv, IsLocal
  <2>8. LogInv(w)'
    <3>1. ASSUME NEW j \in 1 .. N_OPS
          PROVE  Entry(pc'[w], i'[w], j, op'[w][j].st, Len(Ops(w)))
      <4>1. /\ Entry(pc[w], i[w], j, op[w][j].st, Len(Ops(w))) /\ j \in Nat /\ j >= 1
            /\ i[w] \in Nat /\ i[w] >= 1 /\ Len(Ops(w)) \in Nat
        BY <2>2 DEF LogEntry
      <4>2. /\ j # i[w] => op'[w][j].st = op[w][j].st
            /\ j = i[w] => op'[w][j].st = "getreq"
        BY Zenon, <2>5, <2>a
      <4>. QED  BY <2>1, <2>3, <4>1, <4>2, <1>EntryMoves
    <3>2. \A j \in 1 .. N_OPS : op'[w][j].st \in Remote => op[w][j].st \in Remote \/ ~IsLocal(w, j)
      BY Zenon, <2>1, <2>a
    <3>. QED  BY Zenon, <2>2, <2>6, <3>1, <3>2, <1>LogMoves
  <2>9. HolderInv(w)'
    BY ZenonT(30), <2>2, <2>3, <2>5, <2>6, <2>a DEF HolderInv, Holds
  <2>. QED  BY Zenon, <2>6, <2>7, <2>8, <2>9 DEF WorkerInv
\* The answer to the request the worker waits for.
<1>SelfHandleGetRes. ASSUME HandleGetRes(w)
       PROVE  WorkerInv(w)'
  <2>. USE <1>SelfHandleGetRes
  <2>1. /\ pc[w] = "wait" /\ pc[w] \in Busy /\ UNCHANGED <<phase, mb, q, leftover, txn, do_accel>>
    BY Zenon DEF HandleGetRes, Busy, loopVars
  <2>2. /\ i[w] \in Nat /\ i[w] >= 1 /\ Len(Ops(w)) \in Nat /\ Len(Ops(w)) <= N_OPS /\ N_OPS \in Nat
        /\ \A j \in 1 .. N_OPS : LogEntry(w, j)
        /\ HolderInv(w) /\ IndexInv(w) /\ TypeOK /\ OwnTxns(w)
        /\ DOMAIN pc = Workers /\ DOMAIN i = Workers /\ op \in [Workers -> [1 .. N_OPS -> Future]]
    BY Zenon, <2>1, BusyBefore
  <2>3. i[w] <= Len(Ops(w))
    BY Zenon, <2>1, <2>2 DEF IndexInv
  <2>4. i[w] \in 1 .. N_OPS /\ op[w][i[w]] \in Future
    BY Zenon, <2>1, <2>3, AtOp
  <2>5. PICK s \in {"held", "failed"} :
          /\ op' = [op EXCEPT ![w][i[w]] = moved(op[w][i[w]], s)]
          /\ s = "held" => op[w][i[w]].st = "getres" /\ pc'[w] = "lock" /\ i'[w] = i[w] + 1
          /\ s = "failed" => pc'[w] = "clear" /\ i'[w] = 1
    <3>1. CASE op[w][i[w]].st = "getres"
      BY Zenon, <2>2, <3>1 DEF HandleGetRes, NextLock, StartRollback
    <3>2. CASE op[w][i[w]].st # "getres"
      BY Zenon, <2>2, <3>2 DEF HandleGetRes, NextLock, StartRollback
    <3>. QED  BY Zenon, <3>1, <3>2
  <2>. DEFINE f == moved(op[w][i[w]], s)
  <2>6. f \in Future /\ f.st = s /\ f.last_acq = op[w][i[w]].last_acq
    BY <2>4, MovedFacts DEF Status
  <2>7. op' = [op EXCEPT ![w][i[w]] = f]
    BY Zenon, <2>5
  <2>. HIDE DEF f
  <2>a. /\ op'[w][i[w]] = f
        /\ \A l \in 1 .. N_OPS : l # i[w] => op'[w][l] = op[w][l]
    BY Zenon, <2>2, <2>4, <2>6, <2>7
  <2>8. /\ OwnTxns(w)' /\ Ops(w)' = Ops(w) /\ Id(w)' = Id(w)
        /\ phase'[w] = phase[w] /\ mb'[w] = mb[w]
        /\ \A l \in 1 .. N_OPS : Key(w, l)' = Key(w, l)
    BY Zenon, <2>1, <2>2, <1>SameTxn
  <2>9. IndexInv(w)'
    BY Zenon, <2>5 DEF IndexInv
  <2>10. LogInv(w)'
    <3>1. ASSUME NEW j \in 1 .. N_OPS
          PROVE  Entry(pc'[w], i'[w], j, op'[w][j].st, Len(Ops(w)))
      <4>1. /\ Entry(pc[w], i[w], j, op[w][j].st, Len(Ops(w))) /\ j \in Nat /\ j >= 1
            /\ i[w] \in Nat /\ i[w] >= 1 /\ Len(Ops(w)) \in Nat
        BY <2>2 DEF LogEntry
      <4>2. /\ j # i[w] => op'[w][j].st = op[w][j].st
            /\ j = i[w] => op'[w][j].st = s
        BY Zenon, <2>6, <2>a
      <4>. QED  BY <2>1, <2>3, <2>5, <4>1, <4>2, <1>EntryMoves
    <3>2. \A j \in 1 .. N_OPS : op'[w][j].st \in Remote => op[w][j].st \in Remote \/ ~IsLocal(w, j)
      BY Zenon, <2>6, <2>a DEF Remote
    <3>. QED  BY Zenon, <2>2, <2>8, <3>1, <3>2, <1>LogMoves
  <2>11. HolderInv(w)'
    <3>. SUFFICES ASSUME NEW j \in 1 .. N_OPS, phase[w] # "left", Holds(w, j)'
                  PROVE  \/ op'[w][j].last_acq.mini_batch_id # mb[w]
                         \/ op'[w][j].last_acq.node_id = node_id[w]
      BY Zenon, <2>5, <2>8 DEF HolderInv
    <3>1. Holds(w, j) /\ op'[w][j].last_acq = op[w][j].last_acq
      BY Zenon, <2>5, <2>6, <2>a DEF Holds
    <3>. QED  BY Zenon, <2>2, <3>1 DEF HolderInv
  <2>. QED  BY Zenon, <2>8, <2>9, <2>10, <2>11 DEF WorkerInv
\* Every lock is there.
<1>SelfAllLocked. ASSUME AllLocked(w)
       PROVE  WorkerInv(w)'
  <2>. USE <1>SelfAllLocked
  <2>1. /\ pc[w] = "lock" /\ pc[w] \in Busy /\ i[w] > Len(Ops(w)) /\ op' = op
        /\ UNCHANGED <<phase, mb, q, leftover, txn, do_accel>>
    BY Zenon DEF AllLocked, Busy, loopVars, lockVars, txnVars
  <2>2. /\ i[w] \in Nat /\ i[w] >= 1 /\ Len(Ops(w)) \in Nat /\ Len(Ops(w)) <= N_OPS /\ N_OPS \in Nat
        /\ \A j \in 1 .. N_OPS : LogEntry(w, j)
        /\ HolderInv(w) /\ TypeOK /\ OwnTxns(w)
        /\ DOMAIN pc = Workers /\ DOMAIN i = Workers
    BY Zenon, <2>1, BusyBefore
  <2>3. pc'[w] = "access" /\ i'[w] = 1
    BY Zenon, <2>2 DEF AllLocked
  <2>4. /\ OwnTxns(w)' /\ Ops(w)' = Ops(w) /\ Id(w)' = Id(w)
        /\ phase'[w] = phase[w] /\ mb'[w] = mb[w]
        /\ \A l \in 1 .. N_OPS : Key(w, l)' = Key(w, l)
    BY Zenon, <2>1, <2>2, <1>SameTxn
  <2>5. LogInv(w)'
    <3>1. ASSUME NEW j \in 1 .. N_OPS
          PROVE  Entry(pc'[w], i'[w], j, op'[w][j].st, Len(Ops(w)))
      <4>1. /\ Entry(pc[w], i[w], j, op[w][j].st, Len(Ops(w))) /\ j \in Nat /\ j >= 1
            /\ i[w] \in Nat /\ i[w] >= 1 /\ Len(Ops(w)) \in Nat
        BY <2>2 DEF LogEntry
      <4>2. op'[w][j].st = op[w][j].st
        BY Zenon, <2>1
      <4>. QED  BY <2>1, <2>3, <4>1, <4>2, <1>EntryMoves
    <3>2. \A j \in 1 .. N_OPS : op'[w][j].st \in Remote => op[w][j].st \in Remote \/ ~IsLocal(w, j)
      BY Zenon, <2>1
    <3>. QED  BY Zenon, <2>2, <2>4, <3>1, <3>2, <1>LogMoves
  <2>6. IndexInv(w)'
    BY Zenon, <2>3 DEF IndexInv
  <2>7. HolderInv(w)'
    <3>. SUFFICES ASSUME NEW j \in 1 .. N_OPS, phase[w] # "left"
                  PROVE  /\ Holds(w, j)' => \/ op'[w][j].last_acq.mini_batch_id # mb[w]
                                            \/ op'[w][j].last_acq.node_id = node_id[w]
                         /\ ~(j < i'[w])
      BY Zenon, <2>4 DEF HolderInv
    <3>1. ~(j < i'[w])
      BY <2>3
    <3>2. Holds(w, j)' <=> Holds(w, j)
      BY Zenon, <2>1 DEF Holds
    <3>. QED  BY Zenon, <2>1, <2>2, <3>1, <3>2 DEF HolderInv
  <2>. QED  BY Zenon, <2>4, <2>5, <2>6, <2>7 DEF WorkerInv
\* One value is read or written; my_execute signs the entry with its id.
<1>SelfAccess. ASSUME Access(w)
       PROVE  WorkerInv(w)'
  <2>. USE <1>SelfAccess
  <2>. DEFINE o == op[w][i[w]]
              f == [st |-> o.st,
                    tuple |-> IF Mode(w, i[w]) = "WRITE" /\ ~IsLocal(w, i[w]) THEN txn[w] ELSE o.tuple,
                    last_acq |-> IF Id(w).valid THEN Id(w) ELSE o.last_acq]
  <2>1. /\ pc[w] = "access" /\ pc[w] \in Busy /\ i[w] <= Len(Ops(w)) /\ pc' = pc
        /\ UNCHANGED <<phase, mb, q, leftover, txn, do_accel>>
        /\ op' = [op EXCEPT ![w][i[w]] = f]
    BY Zenon DEF Access, Busy, loopVars, txnVars
  <2>2. /\ i[w] \in Nat /\ i[w] >= 1 /\ Len(Ops(w)) \in Nat /\ Len(Ops(w)) <= N_OPS /\ N_OPS \in Nat
        /\ \A j \in 1 .. N_OPS : LogEntry(w, j)
        /\ HolderInv(w) /\ TypeOK /\ OwnTxns(w)
        /\ DOMAIN i = Workers /\ op \in [Workers -> [1 .. N_OPS -> Future]]
    BY Zenon, <2>1, BusyBefore
  <2>3. i'[w] = i[w] + 1
    BY Zenon, <2>2 DEF Access
  <2>4. i[w] \in 1 .. N_OPS /\ o \in Future
    BY Zenon, <2>1, AtOp
  <2>5. txn[w] \in Values /\ Id(w) \in TxnId(Nodes)
    BY ZenonT(30), <2>2, IdType DEF TypeOK
  <2>6. f \in Future /\ f.st = o.st /\ (phase[w] # "left" => f.last_acq = Id(w))
    BY Zenon, <2>4, <2>5 DEF Future, Id
  <2>. HIDE DEF f
  <2>a. /\ op'[w][i[w]] = f
        /\ \A l \in 1 .. N_OPS : l # i[w] => op'[w][l] = op[w][l]
    BY Zenon, <2>1, <2>2, <2>4, <2>6
  <2>8. /\ OwnTxns(w)' /\ Ops(w)' = Ops(w) /\ Id(w)' = Id(w)
        /\ phase'[w] = phase[w] /\ mb'[w] = mb[w]
        /\ \A l \in 1 .. N_OPS : Key(w, l)' = Key(w, l)
    BY Zenon, <2>1, <2>2, <1>SameTxn
  <2>9. IndexInv(w)'
    BY Zenon, <2>1 DEF IndexInv
  <2>10. LogInv(w)'
    <3>1. ASSUME NEW j \in 1 .. N_OPS
          PROVE  Entry(pc'[w], i'[w], j, op'[w][j].st, Len(Ops(w)))
      <4>1. /\ Entry(pc[w], i[w], j, op[w][j].st, Len(Ops(w))) /\ j \in Nat /\ j >= 1
            /\ i[w] \in Nat /\ i[w] >= 1 /\ Len(Ops(w)) \in Nat
        BY <2>2 DEF LogEntry
      <4>2. op'[w][j].st = op[w][j].st
        BY Zenon, <2>6, <2>a
      <4>. QED  BY <2>1, <4>1, <4>2, <1>EntryMoves
    <3>2. \A j \in 1 .. N_OPS : op'[w][j].st \in Remote => op[w][j].st \in Remote \/ ~IsLocal(w, j)
      BY Zenon, <2>6, <2>a
    <3>. QED  BY Zenon, <2>2, <2>8, <3>1, <3>2, <1>LogMoves
  <2>11. HolderInv(w)'
    <3>. SUFFICES ASSUME NEW j \in 1 .. N_OPS, phase[w] # "left"
                  PROVE  /\ Holds(w, j)' => \/ op'[w][j].last_acq.mini_batch_id # mb[w]
                                            \/ op'[w][j].last_acq.node_id = node_id[w]
                         /\ j < i'[w] => op'[w][j].last_acq = Id(w)
      BY ZenonT(30), <2>8 DEF HolderInv
    <3>1. CASE j = i[w]
      <4>1. op'[w][j].last_acq = Id(w)
        BY Zenon, <2>6, <2>a, <3>1
      <4>2. Id(w).node_id = node_id[w]
        BY Zenon DEF Id
      <4>. QED  BY Zenon, <4>1, <4>2
    <3>2. CASE j # i[w]
      BY <2>1, <2>2, <2>3, <2>a, <3>2 DEF HolderInv, Holds
    <3>. QED  BY ZenonT(30), <3>1, <3>2
  <2>. QED  BY Zenon, <2>8, <2>9, <2>10, <2>11 DEF WorkerInv
\* The slot is taken and commit starts.
<1>SelfAllAccessed. ASSUME AllAccessed(w)
       PROVE  WorkerInv(w)'
  <2>. USE <1>SelfAllAccessed
  <2>1. /\ pc[w] = "access" /\ pc[w] \in Busy /\ i[w] > Len(Ops(w)) /\ op' = op
        /\ UNCHANGED <<phase, mb, q, leftover, txn, do_accel>>
    BY Zenon DEF AllAccessed, Busy, loopVars, lockVars
  <2>2. /\ i[w] \in Nat /\ i[w] >= 1 /\ Len(Ops(w)) \in Nat /\ Len(Ops(w)) <= N_OPS /\ N_OPS \in Nat
        /\ \A j \in 1 .. N_OPS : LogEntry(w, j)
        /\ HolderInv(w) /\ TypeOK /\ OwnTxns(w)
        /\ DOMAIN pc = Workers /\ DOMAIN i = Workers
    BY Zenon, <2>1, BusyBefore
  <2>3. pc'[w] = "clear" /\ i'[w] = 1
    BY Zenon, <2>2 DEF AllAccessed
  <2>4. /\ OwnTxns(w)' /\ Ops(w)' = Ops(w) /\ Id(w)' = Id(w)
        /\ phase'[w] = phase[w] /\ mb'[w] = mb[w]
        /\ \A l \in 1 .. N_OPS : Key(w, l)' = Key(w, l)
    BY Zenon, <2>1, <2>2, <1>SameTxn
  <2>5. LogInv(w)'
    <3>1. ASSUME NEW j \in 1 .. N_OPS
          PROVE  Entry(pc'[w], i'[w], j, op'[w][j].st, Len(Ops(w)))
      <4>1. /\ Entry(pc[w], i[w], j, op[w][j].st, Len(Ops(w))) /\ j \in Nat /\ j >= 1
            /\ i[w] \in Nat /\ i[w] >= 1 /\ Len(Ops(w)) \in Nat
        BY <2>2 DEF LogEntry
      <4>2. op'[w][j].st = op[w][j].st
        BY Zenon, <2>1
      <4>. QED  BY <2>1, <2>3, <4>1, <4>2, <1>EntryMoves
    <3>2. \A j \in 1 .. N_OPS : op'[w][j].st \in Remote => op[w][j].st \in Remote \/ ~IsLocal(w, j)
      BY Zenon, <2>1
    <3>. QED  BY Zenon, <2>2, <2>4, <3>1, <3>2, <1>LogMoves
  <2>6. IndexInv(w)'
    BY Zenon, <2>3 DEF IndexInv
  <2>7. HolderInv(w)'
    BY Zenon, <2>1, <2>2, <2>3, <2>4 DEF HolderInv, Holds
  <2>. QED  BY Zenon, <2>4, <2>5, <2>6, <2>7 DEF WorkerInv
\* One entry of the log is cleared.
<1>SelfClear. ASSUME Clear(w)
       PROVE  WorkerInv(w)'
  <2>. USE <1>SelfClear
  <2>1. /\ pc[w] = "clear" /\ pc[w] \in Busy /\ i[w] <= Len(Ops(w)) /\ pc' = pc
        /\ UNCHANGED <<phase, mb, q, leftover, txn, do_accel>>
    BY Zenon DEF Clear, Busy, loopVars, txnVars
  <2>2. /\ i[w] \in Nat /\ i[w] >= 1 /\ Len(Ops(w)) \in Nat /\ Len(Ops(w)) <= N_OPS /\ N_OPS \in Nat
        /\ \A j \in 1 .. N_OPS : LogEntry(w, j)
        /\ HolderInv(w) /\ TypeOK /\ OwnTxns(w)
        /\ DOMAIN i = Workers /\ op \in [Workers -> [1 .. N_OPS -> Future]]
    BY Zenon, <2>1, BusyBefore
  <2>3. i'[w] = i[w] + 1
    BY Zenon, <2>2 DEF Clear
  <2>4. i[w] \in 1 .. N_OPS /\ op[w][i[w]] \in Future
    BY Zenon, <2>1, AtOp
  <2>5. PICK f \in Future :
          /\ op' = [op EXCEPT ![w][i[w]] = f] /\ f.last_acq = op[w][i[w]].last_acq
          /\ f.st \in {"clear", "putreq", "failed", "none"}
          /\ f.st = "putreq" => ~IsLocal(w, i[w]) /\ Holds(w, i[w])
    <3>1. CASE op[w][i[w]].st = "held" /\ IsLocal(w, i[w])
      <4>1. op' = [op EXCEPT ![w][i[w]] = moved(op[w][i[w]], "clear")]
        BY Zenon, <3>1 DEF Clear
      <4>. QED  BY Zenon, <2>4, <4>1, MovedFacts DEF Status
    <3>2. CASE op[w][i[w]].st = "held" /\ ~IsLocal(w, i[w])
      <4>1. op' = [op EXCEPT ![w][i[w]] = moved(op[w][i[w]], "putreq")]
        BY Zenon, <3>2 DEF Clear
      <4>. QED  BY Zenon, <2>4, <3>2, <4>1, MovedFacts DEF Status, Holds
    <3>3. CASE op[w][i[w]].st # "held"
      <4>1. op' = op
        BY Zenon, <3>3 DEF Clear, lockVars
      <4>2. op' = [op EXCEPT ![w][i[w]] = op[w][i[w]]]
        BY Zenon, <2>2, <2>4, <4>1
      <4>3. op[w][i[w]].st \in {"failed", "none"}
        BY SMTT(30), <2>1, <2>2, <2>4, <3>3 DEF LogEntry, Entry, Remote
      <4>. QED  BY ZenonT(30), <2>4, <4>2, <4>3
    <3>. QED  BY Zenon, <3>1, <3>2, <3>3
  <2>a. /\ op'[w][i[w]] = f
        /\ \A l \in 1 .. N_OPS : l # i[w] => op'[w][l] = op[w][l]
    BY Zenon, <2>2, <2>4, <2>5
  <2>8. /\ OwnTxns(w)' /\ Ops(w)' = Ops(w) /\ Id(w)' = Id(w)
        /\ phase'[w] = phase[w] /\ mb'[w] = mb[w]
        /\ \A l \in 1 .. N_OPS : Key(w, l)' = Key(w, l)
    BY Zenon, <2>1, <2>2, <1>SameTxn
  <2>9. IndexInv(w)'
    BY Zenon, <2>1 DEF IndexInv
  <2>10. LogInv(w)'
    <3>1. ASSUME NEW j \in 1 .. N_OPS
          PROVE  Entry(pc'[w], i'[w], j, op'[w][j].st, Len(Ops(w)))
      <4>1. /\ Entry(pc[w], i[w], j, op[w][j].st, Len(Ops(w))) /\ j \in Nat /\ j >= 1
            /\ i[w] \in Nat /\ i[w] >= 1 /\ Len(Ops(w)) \in Nat
        BY <2>2 DEF LogEntry
      <4>2. /\ j # i[w] => op'[w][j].st = op[w][j].st
            /\ j = i[w] => op'[w][j].st \in {"clear", "putreq", "failed", "none"}
        BY Zenon, <2>5, <2>a
      <4>. QED  BY <2>1, <2>3, <4>1, <4>2, <1>EntryMoves
    <3>2. \A j \in 1 .. N_OPS : op'[w][j].st \in Remote => op[w][j].st \in Remote \/ ~IsLocal(w, j)
      BY Zenon, <2>5, <2>a DEF Remote
    <3>. QED  BY Zenon, <2>2, <2>8, <3>1, <3>2, <1>LogMoves
  <2>11. HolderInv(w)'
    <3>. SUFFICES ASSUME NEW j \in 1 .. N_OPS, phase[w] # "left", Holds(w, j)'
                  PROVE  \/ op'[w][j].last_acq.mini_batch_id # mb[w]
                         \/ op'[w][j].last_acq.node_id = node_id[w]
      BY Zenon, <2>1, <2>8 DEF HolderInv
    <3>1. Holds(w, j) /\ op'[w][j].last_acq = op[w][j].last_acq
      BY Zenon, <2>5, <2>a DEF Holds
    <3>. QED  BY Zenon, <2>2, <3>1 DEF HolderInv
  <2>. QED  BY Zenon, <2>8, <2>9, <2>10, <2>11 DEF WorkerInv
\* The whole log is cleared.
<1>SelfAllCleared. ASSUME AllCleared(w)
       PROVE  WorkerInv(w)'
  <2>. USE <1>SelfAllCleared
  <2>1. /\ pc[w] = "clear" /\ pc[w] \in Busy /\ i[w] > Len(Ops(w)) /\ op' = op
        /\ UNCHANGED <<phase, mb, q, leftover, txn, do_accel>>
    BY Zenon DEF AllCleared, Busy, loopVars, lockVars, txnVars
  <2>2. /\ i[w] \in Nat /\ i[w] >= 1 /\ Len(Ops(w)) \in Nat /\ Len(Ops(w)) <= N_OPS /\ N_OPS \in Nat
        /\ \A j \in 1 .. N_OPS : LogEntry(w, j)
        /\ HolderInv(w) /\ TypeOK /\ OwnTxns(w)
        /\ DOMAIN pc = Workers
    BY Zenon, <2>1, BusyBefore
  <2>3. pc'[w] = "puts"
    BY Zenon, <2>2 DEF AllCleared
  <2>4. /\ OwnTxns(w)' /\ Ops(w)' = Ops(w) /\ Id(w)' = Id(w)
        /\ phase'[w] = phase[w] /\ mb'[w] = mb[w]
        /\ \A l \in 1 .. N_OPS : Key(w, l)' = Key(w, l)
    BY ZenonT(30), <2>1, <2>2, <1>SameTxn
  <2>5. LogInv(w)'
    <3>1. ASSUME NEW j \in 1 .. N_OPS
          PROVE  Entry(pc'[w], i'[w], j, op'[w][j].st, Len(Ops(w)))
      <4>1. /\ Entry(pc[w], i[w], j, op[w][j].st, Len(Ops(w))) /\ j \in Nat /\ j >= 1
            /\ i[w] \in Nat /\ i[w] >= 1 /\ Len(Ops(w)) \in Nat
        BY <2>2 DEF LogEntry
      <4>2. op'[w][j].st = op[w][j].st
        BY Zenon, <2>1
      <4>. QED  BY <2>1, <2>3, <4>1, <4>2, <1>EntryMoves
    <3>2. \A j \in 1 .. N_OPS : op'[w][j].st \in Remote => op[w][j].st \in Remote \/ ~IsLocal(w, j)
      BY Zenon, <2>1
    <3>. QED  BY Zenon, <2>2, <2>4, <3>1, <3>2, <1>LogMoves
  <2>6. IndexInv(w)'
    BY Zenon, <2>3 DEF IndexInv
  <2>7. HolderInv(w)'
    BY Zenon, <2>1, <2>2, <2>3, <2>4 DEF HolderInv, Holds
  <2>. QED  BY Zenon, <2>4, <2>5, <2>6, <2>7 DEF WorkerInv
\* A message handler changes one entry, and nothing else of its worker.
<1>SelfMessage. ASSUME NEW j \in 1 .. N_OPS,
                HandleGetReq(w, j) \/ HandlePutReq(w, j) \/ HandlePutRes(w, j)
       PROVE  WorkerInv(w)'
  <2>. USE <1>SelfMessage
  <2>1. /\ op[w][j].st \in {"getreq", "putreq", "putres"}
        /\ UNCHANGED <<phase, mb, q, leftover, txn, do_accel, pc, i>>
    BY Zenon DEF HandleGetReq, HandlePutReq, HandlePutRes, loopVars, txnVars
  <2>2. pc[w] \in Busy /\ op[w][j] \in Future /\ row[Key(w, j)] \in RowType(Nodes, Values)
    BY Zenon, <2>1, AtMsg
  <2>3. /\ i[w] \in Nat /\ Len(Ops(w)) \in Nat /\ N_OPS \in Nat
        /\ \A l \in 1 .. N_OPS : LogEntry(w, l)
        /\ HolderInv(w) /\ IndexInv(w) /\ TypeOK /\ OwnTxns(w)
        /\ op \in [Workers -> [1 .. N_OPS -> Future]]
    BY Zenon, <2>2, BusyBefore
  <2>4. PICK f \in Future :
          /\ op' = [op EXCEPT ![w][j] = f]
          /\ \/ /\ op[w][j].st = "getreq" /\ f.st = "getres"
                /\ phase[w] # "left" => \/ f.last_acq.mini_batch_id # mb[w]
                                        \/ f.last_acq.node_id = node_id[w]
             \/ op[w][j].st = "getreq" /\ f.st = "getnak"
             \/ op[w][j].st \in {"putreq", "putres"} /\ f.st \in {"putres", "clear"}
    <3>1. CASE HandleGetReq(w, j)
      <4>. DEFINE k == Key(w, j)
                  g == [st |-> "getres", tuple |-> row[k].tuple, last_acq |-> row[k].last_acq]
      <4>1. CASE may_lock(row[k], Mode(w, j), Id(w))
        <5>1. op' = [op EXCEPT ![w][j] = g] /\ op[w][j].st = "getreq"
          BY Zenon, <3>1, <4>1 DEF HandleGetReq
        <5>2. g \in Future
          BY Zenon, <2>2 DEF RowType, Future, Status
        <5>3. phase[w] # "left" => \/ g.last_acq.mini_batch_id # mb[w]
                                   \/ g.last_acq.node_id = node_id[w]
          BY Zenon, <4>1 DEF may_lock, mb_allow_lock, Id
        <5>4. g.st = "getres"
          BY Zenon
        <5>. HIDE DEF g
        <5>. QED  BY ZenonT(30), <5>1, <5>2, <5>3, <5>4
      <4>2. CASE ~may_lock(row[k], Mode(w, j), Id(w))
        <5>1. op' = [op EXCEPT ![w][j] = moved(op[w][j], "getnak")] /\ op[w][j].st = "getreq"
          BY Zenon, <3>1, <4>2 DEF HandleGetReq
        <5>2. moved(op[w][j], "getnak") \in Future /\ moved(op[w][j], "getnak").st = "getnak"
          BY Zenon, <2>2, MovedFacts DEF Status
        <5>. QED  BY Zenon, <5>1, <5>2
      <4>. QED  BY Zenon, <4>1, <4>2
    <3>2. CASE HandlePutReq(w, j)
      <4>1. op' = [op EXCEPT ![w][j] = moved(op[w][j], "putres")] /\ op[w][j].st = "putreq"
        BY Zenon, <3>2 DEF HandlePutReq
      <4>. QED  BY Zenon, <2>2, <4>1, MovedFacts DEF Status
    <3>3. CASE HandlePutRes(w, j)
      <4>1. op' = [op EXCEPT ![w][j] = moved(op[w][j], "clear")] /\ op[w][j].st = "putres"
        BY Zenon, <3>3 DEF HandlePutRes
      <4>. QED  BY Zenon, <2>2, <4>1, MovedFacts DEF Status
    <3>. QED  BY Zenon, <3>1, <3>2, <3>3
  <2>a. /\ op'[w][j] = f
        /\ \A l \in 1 .. N_OPS : l # j => op'[w][l] = op[w][l]
    BY Zenon, <2>3, <2>4
  <2>8. /\ OwnTxns(w)' /\ Ops(w)' = Ops(w) /\ Id(w)' = Id(w)
        /\ phase'[w] = phase[w] /\ mb'[w] = mb[w]
        /\ \A l \in 1 .. N_OPS : Key(w, l)' = Key(w, l)
    BY ZenonT(30), <2>1, <2>2, <2>3, <1>SameTxn
  <2>9. IndexInv(w)'
    <3>1. pc[w] \in {"mutex", "wait"} => i[w] \in 1 .. N_OPS
      BY Zenon, <2>2, <2>3, AtOp DEF IndexInv
    <3>. QED  BY ZenonT(30), <2>1, <2>3, <2>8, <3>1 DEF IndexInv, IsLocal
  <2>10. LogInv(w)'
    <3>. SUFFICES ASSUME NEW l \in 1 .. N_OPS PROVE LogEntry(w, l)'
      BY Zenon DEF LogInv
    <3>1. CASE l = j
      BY ZenonT(30), <2>1, <2>2, <2>3, <2>4, <2>8, <2>a, <3>1 DEF LogEntry, Entry, Remote, Busy, IsLocal
    <3>2. CASE l # j
      BY ZenonT(30), <2>1, <2>3, <2>8, <2>a, <3>2 DEF LogEntry, Entry, Remote, IsLocal
    <3>. QED  BY Zenon, <3>1, <3>2
  <2>11. HolderInv(w)'
    <3>. SUFFICES ASSUME NEW l \in 1 .. N_OPS, phase[w] # "left"
                  PROVE  /\ Holds(w, l)' => \/ op'[w][l].last_acq.mini_batch_id # mb[w]
                                            \/ op'[w][l].last_acq.node_id = node_id[w]
                         /\ pc[w] = "access" /\ l < i[w] => op'[w][l].last_acq = Id(w)
      BY Zenon, <2>1, <2>8 DEF HolderInv
    <3>1. CASE l = j
      <4>1. pc[w] # "access"
        BY SMTT(30), <2>1, <2>3 DEF LogEntry, Entry, Remote
      <4>. QED  BY Zenon, <2>4, <2>a, <3>1, <4>1 DEF Holds
    <3>2. CASE l # j
      BY Zenon, <2>3, <2>a, <3>2 DEF HolderInv, Holds
    <3>. QED  BY Zenon, <3>1, <3>2
  <2>. QED  BY Zenon, <2>8, <2>9, <2>10, <2>11 DEF WorkerInv
\* Queues stay sequences when something is pushed or popped.
<1>PopFacts. ASSUME NEW S, NEW s \in Seq(S), s # <<>>
       PROVE  Head(s) \in S /\ Tail(s) \in Seq(S)
  BY <1>PopFacts
\* The same for a push, and for a push that is followed by a pop.
<1>PushFacts. ASSUME NEW S, NEW s \in Seq(S), NEW e \in S
       PROVE  Append(s, e) \in Seq(S) /\ Append(s, e) # <<>> /\ Tail(Append(s, e)) \in Seq(S)
  <2>. USE <1>PushFacts
  <2>1. Append(s, e) \in Seq(S)
    OBVIOUS
  <2>2. Len(Append(s, e)) = Len(s) + 1 /\ Len(s) \in Nat /\ Len(<<>>) = 0
    OBVIOUS
  <2>3. Append(s, e) # <<>>
    BY <2>2
  <2>. QED  BY Zenon, <2>1, <2>3, <1>PopFacts
\* A transaction is taken from its queue.
<1>SelfRunTxn. ASSUME NEW n \in Queues, RunTxn(w, n)
       PROVE  WorkerInv(w)'
  <2>. USE <1>SelfRunTxn
  <2>1. /\ pc[w] = "run" /\ pc[w] \notin Busy /\ op'[w] = op[w] /\ q[w][n] # <<>>
        /\ phase' = phase /\ do_accel' = do_accel /\ phase[w] # "left"
        /\ q' = [q EXCEPT ![w][n] = Tail(q[w][n])]
    BY Zenon DEF RunTxn, Busy, lockVars, IsNext, PopTxn
  <2>2. /\ OwnTxns(w) /\ LogInv(w) /\ DOMAIN pc = Workers /\ DOMAIN i = Workers
        /\ DOMAIN q = Workers /\ DOMAIN txn = Workers /\ DOMAIN leftover = Workers
    BY Zenon DEF IInv, WorkerInv, TypeOK
  <2>. DEFINE t == Head(q[w][n])
  <2>3. \/ /\ do_accel[t] /\ txn'[w] = t /\ pc'[w] = "lock" /\ i'[w] = 1 /\ leftover' = leftover
        \/ /\ pc'[w] = "run" /\ leftover'[w] = Append(leftover[w], t)
    BY Zenon, <2>1, <2>2 DEF RunTxn
  <2>4. IndexInv(w)' /\ LogInv(w)' /\ HolderInv(w)'
    <3>1. pc'[w] \notin Busy \/ (pc'[w] = "lock" /\ i'[w] = 1)
      BY Zenon, <2>3 DEF Busy
    <3>. QED  BY Zenon, <2>1, <2>2, <3>1, <1>IdleLog
  <2>5. OwnTxns(w)'
    <3>1. q[w][n] \in Seq(my_txns[w]) /\ leftover[w] \in Seq(my_txns[w])
      BY Zenon, <2>2 DEF OwnTxns
    <3>2. t \in my_txns[w] /\ Tail(q[w][n]) \in Seq(my_txns[w])
      BY Zenon, <2>1, <3>1, <1>PopFacts
    <3>3. q'[w] \in [Queues -> Seq(my_txns[w])]
      <4>1. q'[w] = [q[w] EXCEPT ![n] = Tail(q[w][n])]
        BY Zenon, <2>1, <2>2
      <4>. QED  BY Zenon, <2>2, <3>2, <4>1 DEF OwnTxns
    <3>4. leftover'[w] \in Seq(my_txns[w])
      <4>1. Append(leftover[w], t) \in Seq(my_txns[w])
        BY Zenon, <3>1, <3>2, <1>PushFacts
      <4>. QED  BY Zenon, <2>3, <3>1, <4>1
    <3>. QED  BY Zenon, <2>1, <2>3, <3>2, <3>3, <3>4 DEF OwnTxns, Busy
  <2>. QED  BY Zenon, <2>4, <2>5 DEF WorkerInv
\* The first left-over is taken.
<1>SelfRunLeftover. ASSUME RunLeftover(w)
       PROVE  WorkerInv(w)'
  <2>. USE <1>SelfRunLeftover
  <2>1. /\ pc[w] \notin Busy /\ op'[w] = op[w] /\ phase[w] = "left" /\ phase' = phase /\ q' = q
    BY Zenon DEF RunLeftover, Busy, lockVars
  <2>2. /\ OwnTxns(w) /\ LogInv(w) /\ DOMAIN pc = Workers /\ DOMAIN i = Workers
        /\ DOMAIN txn = Workers /\ DOMAIN leftover = Workers
        /\ leftover[w] \in Seq(Txns) /\ n_orig[w] \in Nat
    BY Zenon DEF IInv, WorkerInv, TypeOK
  <2>3. \/ /\ Len(leftover[w]) > n_orig[w] \div DROP_DIV
           /\ txn'[w] = Head(leftover[w]) /\ pc'[w] = "lock" /\ i'[w] = 1 /\ leftover' = leftover
        \/ /\ pc'[w] = "exit" /\ leftover'[w] = <<>>
    BY Zenon, <2>1, <2>2 DEF RunLeftover
  <2>4. \/ /\ leftover[w] # <<>>
           /\ txn'[w] = Head(leftover[w]) /\ pc'[w] = "lock" /\ i'[w] = 1 /\ leftover' = leftover
        \/ /\ pc'[w] = "exit" /\ leftover'[w] = <<>>
    BY Zenon, <2>2, <2>3, LeftoverLimit
  <2>5. IndexInv(w)' /\ LogInv(w)' /\ HolderInv(w)'
    <3>1. pc'[w] \notin Busy \/ (pc'[w] = "lock" /\ i'[w] = 1)
      BY Zenon, <2>3 DEF Busy
    <3>. QED  BY Zenon, <2>1, <2>2, <3>1, <1>IdleLog
  <2>6. OwnTxns(w)'
    <3>1. leftover[w] \in Seq(my_txns[w])
      BY Zenon, <2>2 DEF OwnTxns
    <3>2. leftover[w] # <<>> => Head(leftover[w]) \in my_txns[w]
      BY Zenon, <3>1, <1>PopFacts
    <3>3. leftover'[w] \in Seq(my_txns[w])
      <4>1. <<>> \in Seq(my_txns[w])
        OBVIOUS
      <4>. QED  BY Zenon, <2>4, <3>1, <4>1
    <3>. QED  BY Zenon, <2>1, <2>2, <2>4, <3>2, <3>3 DEF OwnTxns, Busy
  <2>. QED  BY Zenon, <2>5, <2>6 DEF WorkerInv
\* Between transactions: barriers, the hot period, the next batch.
<1>SelfIdle. ASSUME EndMiniBatch(w) \/ LeaveBarrier(w) \/ HotPeriod(w) \/ EnterLeftover(w) \/ NextBatch(w)
       PROVE  WorkerInv(w)'
  <2>. USE <1>SelfIdle
  <2>1. pc[w] \notin Busy /\ op'[w] = op[w] /\ leftover' = leftover
    BY Zenon DEF EndMiniBatch, LeaveBarrier, HotPeriod, EnterLeftover, NextBatch, Busy, lockVars, loopVars
  <2>2. /\ OwnTxns(w) /\ LogInv(w) /\ DOMAIN pc = Workers /\ DOMAIN q = Workers /\ batch[w] \in Nat
    BY Zenon DEF IInv, WorkerInv, TypeOK
  <2>3. pc'[w] \notin Busy
    BY ZenonT(30), <2>2 DEF EndMiniBatch, LeaveBarrier, HotPeriod, EnterLeftover, NextBatch, Busy
  <2>4. q'[w] \in [Queues -> Seq(my_txns[w])]
    <3>1. q' = q \/ (batch[w] < Len(Sched[w]) /\ q' = [q EXCEPT ![w] = Sched[w][batch[w] + 1]])
      BY ZenonT(30) DEF EndMiniBatch, LeaveBarrier, HotPeriod, EnterLeftover, NextBatch, loopVars
    <3>2. batch[w] < Len(Sched[w]) => Sched[w][batch[w] + 1] \in [Queues -> Seq(my_txns[w])]
      BY ZenonT(30), <2>2, SchedType
    <3>. QED  BY ZenonT(30), <2>2, <3>1, <3>2 DEF OwnTxns
  <2>5. OwnTxns(w)'
    BY Zenon, <2>1, <2>2, <2>3, <2>4 DEF OwnTxns
  <2>6. IndexInv(w)' /\ LogInv(w)' /\ HolderInv(w)'
    BY Zenon, <2>1, <2>2, <2>3, <1>IdleLog
  <2>. QED  BY Zenon, <2>5, <2>6 DEF WorkerInv
\* The transaction ends and its log is new again.
<1>SelfFinish. ASSUME Finish(w)
       PROVE  WorkerInv(w)'
  <2>. USE <1>SelfFinish
  <2>. DEFINE t == txn[w]
  <2>1. pc[w] \in Busy /\ phase' = phase
    BY Zenon DEF Finish, Busy
  <2>2. /\ OwnTxns(w) /\ TypeOK /\ DOMAIN pc = Workers /\ DOMAIN q = Workers
        /\ DOMAIN op = Workers /\ DOMAIN leftover = Workers
    BY Zenon, <2>1, BusyBefore DEF TypeOK
  <2>3. pc'[w] = "run" /\ \A j \in 1 .. N_OPS : op'[w][j].st = "none"
    BY Zenon, <2>2 DEF Finish, NewLog, NewFuture
  <2>4. t \in my_txns[w] /\ leftover[w] \in Seq(my_txns[w])
    BY Zenon, <2>1, <2>2, BusyFacts DEF OwnTxns
  <2>5. q'[w] \in [Queues -> Seq(my_txns[w])]
    <3>1. \/ q' = q
          \/ q' = [q EXCEPT ![w][MbQueue(w)] = Append(q[w][MbQueue(w)], t)]
      BY Zenon DEF Finish, FinishTxn, FinishLeftover
    <3>2. MbQueue(w) \in Queues
      BY Zenon, <2>2, MbQueueType DEF IInv
    <3>3. CASE q' = q
      BY Zenon, <2>2, <3>3 DEF OwnTxns
    <3>4. CASE q' = [q EXCEPT ![w][MbQueue(w)] = Append(q[w][MbQueue(w)], t)]
      <4>1. q[w][MbQueue(w)] \in Seq(my_txns[w])
        BY Zenon, <2>2, <3>2 DEF OwnTxns
      <4>2. Append(q[w][MbQueue(w)], t) \in Seq(my_txns[w])
        BY Zenon, <2>4, <4>1, <1>PushFacts
      <4>3. q'[w] = [q[w] EXCEPT ![MbQueue(w)] = Append(q[w][MbQueue(w)], t)]
        BY Zenon, <2>2, <3>4
      <4>. QED  BY Zenon, <2>2, <4>2, <4>3 DEF OwnTxns
    <3>. QED  BY Zenon, <3>1, <3>3, <3>4
  <2>6. leftover'[w] \in Seq(my_txns[w])
    <3>1. /\ Append(leftover[w], t) \in Seq(my_txns[w])
          /\ Tail(Append(leftover[w], t)) \in Seq(my_txns[w])
      BY Zenon, <2>4, <1>PushFacts
    <3>2. CASE phase[w] = "left"
      <4>1. \/ leftover'[w] = Tail(Append(leftover[w], t))
            \/ leftover'[w] = Tail(leftover[w])
        BY Zenon, <2>2, <3>2 DEF Finish, FinishTxn, FinishLeftover
      <4>2. leftover[w] # <<>>
        BY Zenon, <2>1, <2>2, <3>2 DEF OwnTxns
      <4>3. Tail(leftover[w]) \in Seq(my_txns[w])
        BY Zenon, <2>4, <4>2, <1>PopFacts
      <4>. QED  BY Zenon, <3>1, <4>1, <4>3
    <3>3. CASE phase[w] # "left"
      <4>1. leftover'[w] = leftover[w] \/ leftover'[w] = Append(leftover[w], t)
        BY Zenon, <2>2, <3>3 DEF Finish, FinishTxn, FinishLeftover
      <4>. QED  BY Zenon, <2>4, <3>1, <4>1
    <3>. QED  BY Zenon, <3>2, <3>3
  <2>7. OwnTxns(w)'
    BY Zenon, <2>3, <2>5, <2>6 DEF OwnTxns, Busy
  <2>8. LogInv(w)'
    BY Zenon, <2>3 DEF LogInv, LogEntry, Entry, Remote, Busy
  <2>9. IndexInv(w)' /\ HolderInv(w)'
    BY Zenon, <2>3 DEF IndexInv, HolderInv, Holds
  <2>. QED  BY Zenon, <2>7, <2>8, <2>9 DEF WorkerInv
<1>1. WorkerInv(w)'
  BY Zenon, <1>SelfEarlyTest, <1>SelfLocalLock, <1>SelfSendGetReq, <1>SelfHandleGetRes, <1>SelfAllLocked, <1>SelfAccess,
     <1>SelfAllAccessed, <1>SelfClear, <1>SelfAllCleared, <1>SelfMessage, <1>SelfRunTxn, <1>SelfRunLeftover,
     <1>SelfIdle, <1>SelfFinish DEF Step, Handle
<1>2. ASSUME NEW v \in Workers, v # w PROVE WorkerInv(v)'
  BY Zenon, <1>2, <1>OthersInv
<1>. QED  BY Zenon, <1>1, <1>2

\* The loop counters and mini-batch numbers fit the barriers.
LEMMA BarrierStep ==
  ASSUME IInv, NEW w \in Workers, Step(w) \/ Handle(w)
  PROVE  BarrierInv'
<1>1. BarrierInv /\ mb \in [Workers -> Nat] /\ DOMAIN pc = Workers
  BY Zenon DEF IInv, TypeOK
<1>2. CASE EndMiniBatch(w)
  <2>1. /\ pc[w] # "bar" /\ pc'[w] = "bar" /\ mb'[w] = mb[w] + 1
        /\ \A v \in Workers : v # w => pc'[v] = pc[v] /\ mb'[v] = mb[v]
    BY Zenon, <1>1, <1>2 DEF EndMiniBatch
  <2>. QED  BY <1>1, <2>1 DEF BarrierInv
<1>3. CASE LeaveBarrier(w)
  <2>1. /\ mb' = mb /\ \A v \in Workers : mb[v] >= mb[w]
        /\ \A v \in Workers : v # w => pc'[v] = pc[v]
    BY Zenon, <1>1, <1>3 DEF LeaveBarrier, AllEntered
  <2>. QED  BY Zenon, <1>1, <2>1 DEF BarrierInv
<1>4. CASE ~EndMiniBatch(w) /\ ~LeaveBarrier(w)
  <2>1. mb' = mb
    BY ZenonT(30), <1>4 DEF Step, Handle, RunTxn, EarlyTest, LocalLock, SendGetReq, AllLocked, Access,
       AllAccessed, Clear, AllCleared, Finish, HotPeriod, EnterLeftover, RunLeftover, NextBatch,
       HandleGetRes, HandleGetReq, HandlePutReq, HandlePutRes, loopVars
  <2>2. pc[w] # "bar"
    <3>1. \A j \in 1 .. N_OPS : op[w][j].st # "none" => pc[w] \in Busy
      BY Zenon, AtMsg
    <3>2. (\E j \in 1 .. N_OPS : HandleGetReq(w, j) \/ HandlePutReq(w, j) \/ HandlePutRes(w, j))
             => pc[w] \in Busy
      BY Zenon, <3>1 DEF HandleGetReq, HandlePutReq, HandlePutRes
    <3>. QED  BY ZenonT(30), <1>4, <3>2 DEF Busy, Step, Handle, RunTxn, EarlyTest, LocalLock, SendGetReq,
         AllLocked, Access, AllAccessed, Clear, AllCleared, Finish, HotPeriod, EnterLeftover,
         RunLeftover, NextBatch, HandleGetRes
  <2>3. \A v \in Workers : v # w => pc'[v] = pc[v]
    BY Zenon, Others
  <2>. QED  BY Zenon, <1>1, <2>1, <2>2, <2>3 DEF BarrierInv
<1>. QED  BY Zenon, <1>2, <1>3, <1>4

-----------------------------------------------------------------------------
(* Types.                                                                   *)

\* The variables start with their types.
LEMMA InitType == Init => TypeOK
<1>. SUFFICES ASSUME Init PROVE TypeOK
  BY Zenon
<1>. USE ConstantsAssumption DEF Init
<1>1. row \in [Keys -> RowType(Nodes, Values)]
  BY Zenon DEF NewRow, RowType, AccessMode, TxnId, Values
<1>2. op \in [Workers -> [1 .. N_OPS -> Future]]
  BY Zenon DEF NewLog, NewFuture, NoId, Future, Status, TxnId, Values
<1>3. q \in [Workers -> [Queues -> Seq(Txns)]]
  <2>. SUFFICES ASSUME NEW w \in Workers PROVE Sched[w][1] \in [Queues -> Seq(Txns)]
    BY Zenon
  <2>1. Sched[w] \in Seq([Queues -> Seq(my_txns[w])]) /\ Sched[w] # <<>>
    BY Zenon
  <2>2. Sched[w][1] \in [Queues -> Seq(my_txns[w])]
    BY <2>1
  <2>3. Seq(my_txns[w]) \subseteq Seq(Txns)
    OBVIOUS
  <2>. QED  BY Zenon, <2>2, <2>3
<1>4. /\ leftover \in [Workers -> Seq(Txns)]
      /\ hot_send_q \in [Nodes -> Seq(Counted)]
  OBVIOUS
<1>5. i \in [Workers -> 1 .. N_OPS + 1]
  OBVIOUS
<1>6. txn \in [Workers -> Values]
  BY Zenon DEF Values
<1>. QED  BY Zenon, <1>1, <1>2, <1>3, <1>4, <1>5, <1>6 DEF TypeOK, PC

\* Cardinality makes sense of the holders of a row.
LEMMA HoldersFinite ==
  ASSUME FiniteSetFacts, NEW k PROVE IsFiniteSet(Holders(k))
<1>1. IsFiniteSet(Workers) /\ IsFiniteSet(1 .. N_OPS)
  <2>1. 1 \in Int /\ N_OPS \in Int
    BY NOpsNat
  <2>. QED  BY Zenon, <2>1, ConstantsAssumption DEF FiniteSetFacts, IntervalFact
<1>2. IsFiniteSet(Workers \X (1 .. N_OPS))
  BY Zenon, <1>1 DEF FiniteSetFacts, ProductFact
<1>3. Holders(k) \in SUBSET (Workers \X (1 .. N_OPS))
  BY Zenon DEF Holders
<1>. QED  BY Zenon, <1>2, <1>3 DEF FiniteSetFacts, SubsetFact

\* A row that somebody holds is counted as held, in that mode.
LEMMA HeldRow ==
  ASSUME FiniteSetFacts, IInv, NEW w \in Workers, NEW j \in 1 .. N_OPS, Holds(w, j)
  PROVE  /\ <<w, j>> \in Holders(Key(w, j))
         /\ row[Key(w, j)].lock_type = Mode(w, j)
         /\ row[Key(w, j)].owner_cnt > 0
<1>1. Key(w, j) \in Keys /\ row[Key(w, j)] \in RowType(Nodes, Values)
  BY Zenon, AtMsg DEF Holds
<1>2. <<w, j>> \in Holders(Key(w, j))
  BY Zenon DEF Holders
<1>3. IsFiniteSet(Holders(Key(w, j)))
  BY Zenon, HoldersFinite
<1>4. Cardinality(Holders(Key(w, j))) \in Nat /\ Cardinality(Holders(Key(w, j))) # 0
  BY Zenon, <1>2, <1>3 DEF FiniteSetFacts, EmptyFact, TypeFact
<1>5. /\ row[Key(w, j)].owner_cnt = Cardinality(Holders(Key(w, j)))
      /\ \A h \in Holders(Key(w, j)) : Mode(h[1], h[2]) = row[Key(w, j)].lock_type
  BY Zenon, <1>1 DEF IInv, LockInv
<1>. QED  BY <1>2, <1>4, <1>5

\* The put responses still to come, as a set.
LEMMA PutPending ==
  ASSUME FiniteSetFacts, IInv, NEW w \in Workers, NEW j \in 1 .. N_OPS,
         op[w][j].st \in {"putreq", "putres"}
  PROVE  puts[w] > 0
<1>. DEFINE P == {l \in 1 .. N_OPS : op[w][l].st \in {"putreq", "putres"}}
<1>1. IsFiniteSet(P)
  <2>1. 1 \in Int /\ N_OPS \in Int
    BY NOpsNat
  <2>2. IsFiniteSet(1 .. N_OPS)
    BY Zenon, <2>1 DEF FiniteSetFacts, IntervalFact
  <2>. QED  BY Zenon, <2>2 DEF FiniteSetFacts, SubsetFact
<1>2. j \in P /\ puts[w] = Cardinality(P)
  BY Zenon DEF IInv, PutsCounted
<1>. HIDE DEF P
<1>. QED  BY <1>1, <1>2 DEF FiniteSetFacts, EmptyFact, TypeFact

\* Every step keeps the types.
LEMMA TypeStep ==
  ASSUME FiniteSetFacts
  PROVE  IInv /\ [Next]_vars => TypeOK'
\* The row functions keep rows rows, given somebody to release.
<1>RowLockType. ASSUME NEW r \in RowType(Nodes, Values), NEW m \in {"READ", "WRITE"}
       PROVE  lock(r, m) \in RowType(Nodes, Values)
  <2>. USE <1>RowLockType
  <2>. DEFINE T == TxnId(Nodes)
  <2>. HIDE DEF T
  <2>1. r \in [lock_type : AccessMode, owner_cnt : Nat, tuple : Values, last_acq : T]
    BY Zenon DEF RowType, T
  <2>2. lock(r, m) \in [lock_type : AccessMode, owner_cnt : Nat, tuple : Values, last_acq : T]
    BY <2>1 DEF lock, AccessMode
  <2>. QED  BY Zenon, <2>2 DEF RowType, T
\* A released row is a row if it was counted as held.
<1>RowUnlockType. ASSUME NEW r \in RowType(Nodes, Values), NEW m \in {"READ", "WRITE"},
                NEW id \in TxnId(Nodes), r.owner_cnt > 0
       PROVE  unlock(r, m, id) \in RowType(Nodes, Values)
  <2>. USE <1>RowUnlockType
  <2>. DEFINE T == TxnId(Nodes)
  <2>. HIDE DEF T
  <2>1. r \in [lock_type : AccessMode, owner_cnt : Nat, tuple : Values, last_acq : T] /\ id \in T
    BY Zenon DEF RowType, T
  <2>2. unlock(r, m, id) \in [lock_type : AccessMode, owner_cnt : Nat, tuple : Values, last_acq : T]
    BY <2>1 DEF unlock, AccessMode
  <2>. QED  BY Zenon, <2>2 DEF RowType, T
\* One entry of one log is changed.
<1>LogUpdate. ASSUME NEW o \in [Workers -> [1 .. N_OPS -> Future]], NEW w \in Workers,
                NEW j \in 1 .. N_OPS, NEW f \in Future
       PROVE  /\ [o EXCEPT ![w][j] = f] \in [Workers -> [1 .. N_OPS -> Future]]
              /\ [o EXCEPT ![w][j] = f][w][j] = f
              /\ \A v \in Workers, l \in 1 .. N_OPS : v # w \/ l # j =>
                   [o EXCEPT ![w][j] = f][v][l] = o[v][l]
  BY <1>LogUpdate, Zenon
\* A function that is updated at one point, or not at all.
<1>FunUpdate. ASSUME NEW S, NEW T, NEW f \in [S -> T], NEW x \in S, NEW e \in T,
                NEW g, g = f \/ g = [f EXCEPT ![x] = e]
       PROVE  g \in [S -> T]
  BY Zenon, <1>FunUpdate
<1>. SUFFICES ASSUME IInv, [Next]_vars PROVE TypeOK'
  BY Zenon
<1>a. TypeOK /\ N_OPS \in Nat
  BY Zenon, NOpsNat DEF IInv
<1>b. /\ i \in [Workers -> 1 .. N_OPS + 1] /\ pc \in [Workers -> PC]
      /\ txn_num \in [Workers -> Nat] /\ puts \in [Workers -> Nat]
      /\ txn \in [Workers -> Values] /\ leftover \in [Workers -> Seq(Txns)]
      /\ op \in [Workers -> [1 .. N_OPS -> Future]]
      /\ 1 \in 1 .. N_OPS + 1
  BY <1>a DEF TypeOK
<1>. USE DEF lockVars, loopVars, txnVars
<1>0. CASE UNCHANGED vars
  BY Zenon, <1>a, <1>0 DEF vars, TypeOK
<1>. SUFFICES ASSUME NEW w \in Workers, Step(w) \/ Handle(w) PROVE TypeOK'
  BY Zenon, <1>0 DEF Next, Terminated
<1>c. OwnTxns(w) /\ IndexInv(w)
  BY Zenon DEF IInv, WorkerInv
<1>1. ASSUME NEW n \in Queues, RunTxn(w, n) PROVE TypeOK'
  <2>1. q[w][n] \in Seq(Txns) /\ q[w][n] # <<>>
    BY <1>a, <1>1 DEF TypeOK, RunTxn, IsNext
  <2>2. Head(q[w][n]) \in Txns /\ Tail(q[w][n]) \in Seq(Txns)
    BY <2>1
  <2>3. q' \in [Workers -> [Queues -> Seq(Txns)]]
    BY Zenon, <1>a, <1>1, <2>2 DEF TypeOK, RunTxn, PopTxn
  <2>a. /\ pc' = pc \/ pc' = [pc EXCEPT ![w] = "lock"]
        /\ txn' = txn \/ txn' = [txn EXCEPT ![w] = Head(q[w][n])]
        /\ i' = i \/ i' = [i EXCEPT ![w] = 1]
        /\ \/ leftover' = leftover
           \/ leftover' = [leftover EXCEPT ![w] = Append(leftover[w], Head(q[w][n]))]
        /\ txn_num' = txn_num \/ txn_num' = [txn_num EXCEPT ![w] = txn_num[w] + 1]
    BY Zenon, <1>1 DEF RunTxn, CountTxn
  <2>b. Head(q[w][n]) \in Values /\ "lock" \in PC /\ txn_num[w] + 1 \in Nat
    BY <1>b, <2>2 DEF PC, Values
  <2>c. pc' \in [Workers -> PC]
    <3>1. pc \in [Workers -> PC] /\ (pc' = pc \/ pc' = [pc EXCEPT ![w] = "lock"])
      BY Zenon, <1>b, <2>a
    <3>. QED  BY <2>b, <3>1, <1>FunUpdate
  <2>4. txn' \in [Workers -> Values]
    <3>1. /\ txn \in [Workers -> Values]
          /\ txn' = txn \/ txn' = [txn EXCEPT ![w] = Head(q[w][n])]
      BY Zenon, <1>b, <2>a
    <3>. QED  BY <2>b, <3>1, <1>FunUpdate
  <2>5. i' \in [Workers -> 1 .. N_OPS + 1]
    BY Zenon, <1>b, <2>a
  <2>6. leftover' \in [Workers -> Seq(Txns)]
    <3>1. Append(leftover[w], Head(q[w][n])) \in Seq(Txns)
      BY <1>b, <2>2
    <3>. QED  BY ZenonT(30), <1>b, <2>a, <3>1
  <2>7. txn_num' \in [Workers -> Nat]
    BY SMTT(30), <1>b, <2>a, <2>b, <1>FunUpdate
  <2>8. UNCHANGED <<row, op, puts, phase, batch, mb, n_orig, rc, do_accel, n_aborts, hot_send_q>>
    BY Zenon, <1>1 DEF RunTxn
  <2>. QED  BY Zenon, <1>a, <2>3, <2>c, <2>4, <2>5, <2>6, <2>7, <2>8 DEF TypeOK
<1>2. CASE EndMiniBatch(w)
  <2>1. pc' \in [Workers -> PC] /\ mb' \in [Workers -> Nat] /\ txn_num' \in [Workers -> Nat]
    BY <1>a, <1>2 DEF EndMiniBatch, TypeOK, PC
  <2>2. UNCHANGED <<row, op, puts, phase, batch, q, leftover, n_orig, txnVars, i, hot_send_q>>
    BY Zenon, <1>2 DEF EndMiniBatch
  <2>. QED  BY Zenon, <1>a, <2>1, <2>2 DEF TypeOK
<1>3. CASE LeaveBarrier(w)
  BY Zenon, <1>a, <1>3 DEF LeaveBarrier, TypeOK, PC
<1>4. CASE EarlyTest(w)
  <2>1. pc' \in [Workers -> PC] /\ rc' \in [Workers -> {"COMMIT", "ROLLBACK"}]
    BY Zenon, <1>a, <1>4 DEF EarlyTest, StartRollback, TypeOK, PC
  <2>2. i' \in [Workers -> 1 .. N_OPS + 1]
    <3>1. i' = i \/ i' = [i EXCEPT ![w] = 1]
      BY Zenon, <1>4 DEF EarlyTest, StartRollback
    <3>. QED  BY ZenonT(30), <1>b, <3>1
  <2>3. UNCHANGED <<lockVars, loopVars, txn, do_accel, n_aborts, hot_send_q>>
    BY Zenon, <1>4 DEF EarlyTest
  <2>. QED  BY Zenon, <1>a, <2>1, <2>2, <2>3 DEF TypeOK
<1>5. CASE LocalLock(w)
  <2>. DEFINE k == Key(w, i[w])
              f == [st |-> "held", tuple |-> NoTxn, last_acq |-> row[k].last_acq]
  <2>1. pc[w] \in Busy /\ i[w] <= Len(Ops(w))
    BY Zenon, <1>5, <1>c DEF LocalLock, Busy, IndexInv
  <2>2. /\ k \in Keys /\ Mode(w, i[w]) \in {"READ", "WRITE"} /\ i[w] \in 1 .. N_OPS
        /\ i[w] + 1 \in 1 .. N_OPS + 1 /\ row[k] \in RowType(Nodes, Values)
    BY Zenon, <2>1, AtOp
  <2>3. pc' \in [Workers -> PC] /\ rc' \in [Workers -> {"COMMIT", "ROLLBACK"}]
    BY Zenon, <1>a, <1>5 DEF LocalLock, StartRollback, NextLock, TypeOK, PC
  <2>4. i' \in [Workers -> 1 .. N_OPS + 1]
    <3>1. i' = [i EXCEPT ![w] = 1] \/ i' = [i EXCEPT ![w] = i[w] + 1]
      BY Zenon, <1>5 DEF LocalLock, StartRollback, NextLock
    <3>. QED  BY Zenon, <1>b, <2>2, <3>1
  <2>5. f \in Future
    BY Zenon, <2>2 DEF RowType, Future, Status, Values
  <2>6. op' \in [Workers -> [1 .. N_OPS -> Future]]
    <3>1. op' = op \/ op' = [op EXCEPT ![w][i[w]] = f]
      BY Zenon, <1>5 DEF LocalLock
    <3>2. [op EXCEPT ![w][i[w]] = f] \in [Workers -> [1 .. N_OPS -> Future]]
      <4>. HIDE DEF f
      <4>. QED  BY Zenon, <1>b, <2>2, <2>5, <1>LogUpdate
    <3>. QED  BY Zenon, <1>b, <3>1, <3>2
  <2>7. row' \in [Keys -> RowType(Nodes, Values)]
    <3>1. lock(row[k], Mode(w, i[w])) \in RowType(Nodes, Values)
      BY Zenon, <2>2, <1>RowLockType
    <3>. QED  BY Zenon, <1>a, <1>5, <2>2, <3>1 DEF LocalLock, TypeOK
  <2>8. UNCHANGED <<puts, loopVars, txn, do_accel, n_aborts, hot_send_q>>
    BY Zenon, <1>5 DEF LocalLock
  <2>. QED  BY ZenonT(30), <1>a, <2>3, <2>4, <2>6, <2>7, <2>8 DEF TypeOK
<1>6. CASE SendGetReq(w)
  <2>1. op' \in [Workers -> [1 .. N_OPS -> Future]]
    <3>1. i[w] \in 1 .. N_OPS /\ op[w][i[w]] \in Future
      BY Zenon, <1>6, AtOp DEF SendGetReq, Busy
    <3>. QED  BY ZenonT(60), <1>a, <1>6, <3>1, MovedFacts, <1>LogUpdate DEF SendGetReq, TypeOK, Status
  <2>2. pc' \in [Workers -> PC]
    BY Zenon, <1>a, <1>6 DEF SendGetReq, TypeOK, PC
  <2>3. UNCHANGED <<row, puts, loopVars, txnVars, i, hot_send_q>>
    BY Zenon, <1>6 DEF SendGetReq
  <2>. QED  BY Zenon, <1>a, <2>1, <2>2, <2>3 DEF TypeOK
<1>7. CASE AllLocked(w)
  <2>1. pc' \in [Workers -> PC]
    BY Zenon, <1>a, <1>7 DEF AllLocked, TypeOK, PC
  <2>2. i' \in [Workers -> 1 .. N_OPS + 1]
    BY <1>a, <1>7 DEF AllLocked, TypeOK
  <2>3. UNCHANGED <<lockVars, loopVars, txnVars, hot_send_q>>
    BY Zenon, <1>7 DEF AllLocked
  <2>. QED  BY Zenon, <1>a, <2>1, <2>2, <2>3 DEF TypeOK
<1>8. CASE Access(w)
  <2>. DEFINE k == Key(w, i[w])
              o == op[w][i[w]]
              f == [st |-> o.st,
                    tuple |-> IF Mode(w, i[w]) = "WRITE" /\ ~IsLocal(w, i[w]) THEN txn[w] ELSE o.tuple,
                    last_acq |-> IF Id(w).valid THEN Id(w) ELSE o.last_acq]
  <2>1. /\ k \in Keys /\ i[w] \in 1 .. N_OPS /\ i[w] + 1 \in 1 .. N_OPS + 1
        /\ row[k] \in RowType(Nodes, Values) /\ o \in Future
    BY Zenon, <1>8, AtOp DEF Access, Busy
  <2>2. txn[w] \in Values /\ Id(w) \in TxnId(Nodes)
    BY Zenon, <1>a, IdType DEF TypeOK
  <2>3. f \in Future
    BY Zenon, <2>1, <2>2 DEF Future
  <2>4. op' \in [Workers -> [1 .. N_OPS -> Future]]
    BY <1>a, <1>8, <2>1, <2>3, <1>LogUpdate DEF Access, TypeOK
  <2>5. row' \in [Keys -> RowType(Nodes, Values)]
    <3>1. [row[k] EXCEPT !.tuple = txn[w]] \in RowType(Nodes, Values)
      BY Zenon, <2>1, <2>2 DEF RowType
    <3>2. row' = row \/ row' = [row EXCEPT ![k] = [row[k] EXCEPT !.tuple = txn[w]]]
      BY Zenon, <1>a, <1>8, <2>1 DEF Access, TypeOK
    <3>. QED  BY Zenon, <1>a, <2>1, <3>1, <3>2 DEF TypeOK
  <2>6. i' \in [Workers -> 1 .. N_OPS + 1]
    BY Zenon, <1>a, <1>8, <2>1 DEF Access, TypeOK
  <2>7. UNCHANGED <<puts, loopVars, txnVars, pc, hot_send_q>>
    BY Zenon, <1>8 DEF Access
  <2>. QED  BY ZenonT(30), <1>a, <2>4, <2>5, <2>6, <2>7 DEF TypeOK
<1>9. CASE AllAccessed(w)
  <2>1. pc' \in [Workers -> PC] /\ rc' \in [Workers -> {"COMMIT", "ROLLBACK"}]
    BY ZenonT(30), <1>a, <1>9 DEF AllAccessed, TypeOK, PC
  <2>2. i' \in [Workers -> 1 .. N_OPS + 1]
    BY <1>a, <1>9 DEF AllAccessed, TypeOK
  <2>3. hot_send_q' \in [Nodes -> Seq(Counted)]
    <3>1. txn[w] \in Txns /\ mb[w] \in Nat
      BY ZenonT(30), <1>a, <1>c, <1>9, BusyFacts DEF AllAccessed, Busy, TypeOK
    <3>2. [txn |-> txn[w], mini_batch_num |-> mb[w]] \in Counted
      BY Zenon, <3>1 DEF Counted
    <3>3. node_id[w] \in Nodes /\ hot_send_q[node_id[w]] \in Seq(Counted)
      BY Zenon, <1>a, ConstantsAssumption DEF TypeOK
    <3>4. Append(hot_send_q[node_id[w]], [txn |-> txn[w], mini_batch_num |-> mb[w]]) \in Seq(Counted)
      BY <3>2, <3>3
    <3>. QED  BY Zenon, <1>a, <1>9, <3>3, <3>4 DEF AllAccessed, TypeOK
  <2>4. UNCHANGED <<lockVars, loopVars, txn, do_accel, n_aborts>>
    BY Zenon, <1>9 DEF AllAccessed
  <2>. QED  BY Zenon, <1>a, <2>1, <2>2, <2>3, <2>4 DEF TypeOK
<1>10. CASE Clear(w)
  <2>. DEFINE k == Key(w, i[w])
  <2>1. /\ k \in Keys /\ Mode(w, i[w]) \in {"READ", "WRITE"} /\ i[w] \in 1 .. N_OPS
        /\ i[w] + 1 \in 1 .. N_OPS + 1
        /\ op[w][i[w]] \in Future /\ row[k] \in RowType(Nodes, Values)
    BY Zenon, <1>10, AtOp DEF Clear, Busy
  <2>2. op' \in [Workers -> [1 .. N_OPS -> Future]]
    <3>1. \/ op' = op
          \/ op' = [op EXCEPT ![w][i[w]] = moved(op[w][i[w]], "clear")]
          \/ op' = [op EXCEPT ![w][i[w]] = moved(op[w][i[w]], "putreq")]
      BY Zenon, <1>10 DEF Clear
    <3>2. moved(op[w][i[w]], "clear") \in Future /\ moved(op[w][i[w]], "putreq") \in Future
      BY Zenon, <2>1, MovedFacts DEF Status
    <3>3. op \in [Workers -> [1 .. N_OPS -> Future]]
      BY Zenon, <1>a DEF TypeOK
    <3>. QED  BY SMTT(30), <2>1, <3>1, <3>2, <3>3, <1>LogUpdate
  <2>3. row' \in [Keys -> RowType(Nodes, Values)]
    <3>1. CASE op[w][i[w]].st = "held"
      <4>1. row[k].owner_cnt > 0
        BY ZenonT(30), <2>1, <3>1, HeldRow DEF Holds
      <4>2. op[w][i[w]].last_acq \in TxnId(Nodes)
        BY ZenonT(30), <2>1 DEF Future
      <4>3. unlock(row[k], Mode(w, i[w]), op[w][i[w]].last_acq) \in RowType(Nodes, Values)
        BY ZenonT(30), <2>1, <4>1, <4>2, <1>RowUnlockType
      <4>. QED  BY ZenonT(30), <1>a, <1>10, <2>1, <4>3 DEF Clear, TypeOK
    <3>2. CASE op[w][i[w]].st # "held"
      BY Zenon, <1>a, <1>10, <3>2 DEF Clear, TypeOK
    <3>. QED  BY ZenonT(30), <3>1, <3>2
  <2>4. i' \in [Workers -> 1 .. N_OPS + 1]
    BY Zenon, <1>a, <1>10, <2>1 DEF Clear, TypeOK
  <2>5. puts' \in [Workers -> Nat]
    <3>1. puts' = puts \/ puts' = [puts EXCEPT ![w] = puts[w] + 1]
      BY Zenon, <1>10 DEF Clear, CountPut
    <3>. QED  BY SMTT(30), <1>b, <3>1
  <2>6. UNCHANGED <<loopVars, txnVars, pc, hot_send_q>>
    BY Zenon, <1>10 DEF Clear
  <2>. QED  BY Zenon, <1>a, <2>2, <2>3, <2>4, <2>5, <2>6 DEF TypeOK
<1>11. CASE AllCleared(w)
  BY Zenon, <1>a, <1>11 DEF AllCleared, TypeOK, PC
<1>12. CASE Finish(w)
  <2>. DEFINE t == txn[w]
  <2>1. pc[w] \in Busy
    BY Zenon, <1>12 DEF Finish, Busy
  <2>2. t \in Txns
    BY Zenon, <1>a, <1>c, <2>1, BusyFacts
  <2>3. q' \in [Workers -> [Queues -> Seq(Txns)]]
    <3>1. \/ q' = q
          \/ q' = [q EXCEPT ![w][MbQueue(w)] = Append(q[w][MbQueue(w)], t)]
      BY Zenon, <1>12 DEF Finish, FinishTxn, FinishLeftover
    <3>2. MbQueue(w) \in Queues
      BY Zenon, <1>a, MbQueueType DEF IInv
    <3>3. Append(q[w][MbQueue(w)], t) \in Seq(Txns)
      BY <1>a, <2>2, <3>2 DEF TypeOK
    <3>4. q \in [Workers -> [Queues -> Seq(Txns)]]
      BY Zenon, <1>a DEF TypeOK
    <3>5. [q[w] EXCEPT ![MbQueue(w)] = Append(q[w][MbQueue(w)], t)] \in [Queues -> Seq(Txns)]
      BY Zenon, <3>2, <3>3, <3>4
    <3>6. CASE q' = q
      BY Zenon, <3>4, <3>6
    <3>7. CASE q' = [q EXCEPT ![w][MbQueue(w)] = Append(q[w][MbQueue(w)], t)]
      <4>. DEFINE e == [q[w] EXCEPT ![MbQueue(w)] = Append(q[w][MbQueue(w)], t)]
      <4>1. q' = [q EXCEPT ![w] = e]
        BY Zenon, <3>7
      <4>2. e \in [Queues -> Seq(Txns)]
        BY Zenon, <3>5
      <4>. HIDE DEF e
      <4>. QED  BY Zenon, <3>4, <4>1, <4>2
    <3>. QED  BY Zenon, <3>1, <3>6, <3>7
  <2>4. leftover' \in [Workers -> Seq(Txns)]
    <3>1. leftover[w] \in Seq(Txns) /\ Append(leftover[w], t) \in Seq(Txns)
      BY <1>b, <2>2
    <3>2. CASE phase[w] = "left"
      <4>1. \/ leftover' = [leftover EXCEPT ![w] = Tail(Append(leftover[w], t))]
            \/ leftover' = [leftover EXCEPT ![w] = Tail(leftover[w])]
        BY Zenon, <1>12, <3>2 DEF Finish, FinishTxn, FinishLeftover
      <4>2. leftover[w] # <<>> /\ Append(leftover[w], t) # <<>>
        BY <1>c, <2>1, <2>2, <3>1, <3>2 DEF OwnTxns
      <4>3. Tail(Append(leftover[w], t)) \in Seq(Txns) /\ Tail(leftover[w]) \in Seq(Txns)
        BY <3>1, <4>2
      <4>. QED  BY Zenon, <1>b, <4>1, <4>3
    <3>3. CASE phase[w] # "left"
      <4>1. \/ leftover' = leftover
            \/ leftover' = [leftover EXCEPT ![w] = Append(leftover[w], t)]
        BY Zenon, <1>12, <3>3 DEF Finish, FinishTxn, FinishLeftover
      <4>. QED  BY ZenonT(30), <1>b, <3>1, <4>1
    <3>. QED  BY Zenon, <3>2, <3>3
  <2>5. op' \in [Workers -> [1 .. N_OPS -> Future]]
    <3>1. NewLog \in [1 .. N_OPS -> Future]
      BY Zenon, ConstantsAssumption DEF NewLog, NewFuture, NoId, Future, Status, TxnId, Values
    <3>. QED  BY Zenon, <1>b, <1>12, <3>1 DEF Finish
  <2>6. txn' \in [Workers -> Values] /\ pc' \in [Workers -> PC]
    BY Zenon, <1>b, <1>12 DEF Finish, Values, PC
  <2>7. i' \in [Workers -> 1 .. N_OPS + 1]
    BY Zenon, <1>b, <1>12 DEF Finish
  <2>8. txn_num' \in [Workers -> Nat]
    <3>1. txn_num' = txn_num \/ txn_num' = [txn_num EXCEPT ![w] = txn_num[w] + 1]
      BY Zenon, <1>12 DEF Finish, FinishTxn, FinishLeftover, CountTxn
    <3>2. txn_num[w] + 1 \in Nat
      BY <1>b
    <3>. QED  BY SMTT(30), <1>b, <3>1, <3>2, <1>FunUpdate
  <2>9. do_accel' \in [Txns -> BOOLEAN] /\ n_aborts' \in [Txns -> Nat]
    <3>1. /\ do_accel' = do_accel \/ do_accel' = [do_accel EXCEPT ![t] = FALSE]
          /\ n_aborts' = n_aborts \/ n_aborts' = [n_aborts EXCEPT ![t] = n_aborts[t] + 1]
      BY Zenon, <1>12 DEF Finish, FinishTxn, FinishLeftover
    <3>2. do_accel \in [Txns -> BOOLEAN] /\ n_aborts \in [Txns -> Nat]
      BY Zenon, <1>a DEF TypeOK
    <3>3. n_aborts[t] + 1 \in Nat /\ FALSE \in BOOLEAN
      BY <2>2, <3>2
    <3>4. do_accel' \in [Txns -> BOOLEAN]
      BY Zenon, <2>2, <3>1, <3>2, <3>3, <1>FunUpdate
    <3>5. n_aborts' \in [Txns -> Nat]
      BY <2>2, <3>1, <3>2, <3>3, <1>FunUpdate
    <3>. QED  BY Zenon, <3>4, <3>5
  <2>10. UNCHANGED <<row, puts, phase, batch, mb, n_orig, rc, hot_send_q>>
    BY Zenon, <1>12 DEF Finish
  <2>. QED
    BY Zenon, <1>a, <2>3, <2>4, <2>5, <2>6, <2>7, <2>8, <2>9, <2>10 DEF TypeOK
<1>13. CASE HotPeriod(w)
  <2>1. pc' \in [Workers -> PC]
    BY Zenon, <1>b, <1>13 DEF HotPeriod, PC
  <2>2. hot_send_q' \in [Nodes -> Seq(Counted)]
    <3>1. hot_send_q \in [Nodes -> Seq(Counted)] /\ <<>> \in Seq(Counted)
      BY SMTT(30), <1>a DEF TypeOK
    <3>. QED  BY Zenon, <1>13, <3>1 DEF HotPeriod, done_sending
  <2>3. UNCHANGED <<lockVars, loopVars, txnVars, i>>
    BY Zenon, <1>13 DEF HotPeriod
  <2>. QED  BY Zenon, <1>a, <2>1, <2>2, <2>3 DEF TypeOK
<1>14. CASE EnterLeftover(w)
  BY SMTT(30), <1>a, <1>14 DEF EnterLeftover, TypeOK, PC
<1>15. CASE RunLeftover(w)
  <2>. DEFINE runs == /\ Len(leftover[w]) > n_orig[w] \div DROP_DIV
                      /\ txn' = [txn EXCEPT ![w] = Head(leftover[w])]
                      /\ pc' = [pc EXCEPT ![w] = "lock"]
                      /\ i' = [i EXCEPT ![w] = 1]
                      /\ leftover' = leftover
              stops == /\ leftover' = [leftover EXCEPT ![w] = <<>>]
                       /\ pc' = [pc EXCEPT ![w] = "exit"]
                       /\ txn' = txn /\ i' = i
  <2>1. runs \/ stops
    BY Zenon, <1>15 DEF RunLeftover
  <2>2. UNCHANGED <<lockVars, phase, batch, mb, txn_num, q, n_orig, rc, do_accel, n_aborts, hot_send_q>>
    BY Zenon, <1>15 DEF RunLeftover
  <2>3. CASE runs
    <3>1. leftover[w] \in Seq(Txns) /\ leftover[w] # <<>>
      <4>1. n_orig[w] \in Nat
        BY Zenon, <1>a DEF TypeOK
      <4>. QED  BY Zenon, <1>b, <2>3, <4>1, LeftoverLimit
    <3>2. Head(leftover[w]) \in Values /\ "lock" \in PC
      BY <3>1 DEF Values, PC
    <3>3. txn' \in [Workers -> Values] /\ pc' \in [Workers -> PC]
      BY Zenon, <1>b, <2>3, <3>2
    <3>4. i' \in [Workers -> 1 .. N_OPS + 1]
      BY Zenon, <1>b, <2>3
    <3>. QED  BY Zenon, <1>a, <2>2, <2>3, <3>3, <3>4 DEF TypeOK
  <2>4. CASE stops
    <3>1. "exit" \in PC /\ <<>> \in Seq(Txns)
      BY DEF PC
    <3>2. leftover' \in [Workers -> Seq(Txns)] /\ pc' \in [Workers -> PC]
      BY Zenon, <1>b, <2>4, <3>1
    <3>. QED  BY Zenon, <1>a, <2>2, <2>4, <3>2 DEF TypeOK
  <2>. QED  BY Zenon, <2>1, <2>3, <2>4
<1>16. CASE NextBatch(w)
  <2>1. pc' \in [Workers -> PC] /\ phase' \in [Workers -> {"mini", "drain", "left"}]
    <3>1. pc' = [pc EXCEPT ![w] = "run"] \/ pc' = [pc EXCEPT ![w] = "done"]
      BY Zenon, <1>16 DEF NextBatch
    <3>2. phase' = [phase EXCEPT ![w] = "mini"]
      BY Zenon, <1>16 DEF NextBatch
    <3>. QED  BY Zenon, <1>a, <3>1, <3>2 DEF TypeOK, PC
  <2>2. batch' \in [Workers -> Nat]
    <3>1. batch \in [Workers -> Nat] /\ batch' = [batch EXCEPT ![w] = batch[w] + 1]
      BY ZenonT(30), <1>a, <1>16 DEF NextBatch, TypeOK
    <3>. QED  BY SMTT(30), <3>1
  <2>3. q' \in [Workers -> [Queues -> Seq(Txns)]]
    <3>1. q \in [Workers -> [Queues -> Seq(Txns)]]
      BY Zenon, <1>a DEF TypeOK
    <3>2. \/ q' = q
          \/ q' = [q EXCEPT ![w] = Sched[w][batch[w] + 1]] /\ batch[w] < Len(Sched[w])
      BY Zenon, <1>16 DEF NextBatch
    <3>3. batch[w] < Len(Sched[w]) => Sched[w][batch[w] + 1] \in [Queues -> Seq(Txns)]
      BY ZenonT(30), <1>a, SchedType DEF TypeOK
    <3>. QED  BY ZenonT(30), <3>1, <3>2, <3>3, <1>FunUpdate
  <2>4. UNCHANGED <<lockVars, mb, txn_num, leftover, n_orig, txnVars, i, hot_send_q>>
    BY Zenon, <1>16 DEF NextBatch
  <2>. QED  BY Zenon, <1>a, <2>1, <2>2, <2>3, <2>4 DEF TypeOK
<1>17. CASE HandleGetRes(w)
  <2>1. pc[w] \in Busy /\ i[w] <= Len(Ops(w))
    BY Zenon, <1>17, <1>c DEF HandleGetRes, Busy, IndexInv
  <2>2. i[w] \in 1 .. N_OPS /\ i[w] + 1 \in 1 .. N_OPS + 1 /\ op[w][i[w]] \in Future
    BY Zenon, <2>1, AtOp
  <2>3. op' \in [Workers -> [1 .. N_OPS -> Future]]
    <3>1. \/ op' = [op EXCEPT ![w][i[w]] = moved(op[w][i[w]], "held")]
          \/ op' = [op EXCEPT ![w][i[w]] = moved(op[w][i[w]], "failed")]
      BY Zenon, <1>17 DEF HandleGetRes
    <3>2. moved(op[w][i[w]], "held") \in Future /\ moved(op[w][i[w]], "failed") \in Future
      BY Zenon, <2>2, MovedFacts DEF Status
    <3>3. CASE op' = [op EXCEPT ![w][i[w]] = moved(op[w][i[w]], "held")]
      BY Zenon, <1>b, <2>2, <3>2, <3>3, <1>LogUpdate
    <3>4. CASE op' = [op EXCEPT ![w][i[w]] = moved(op[w][i[w]], "failed")]
      BY Zenon, <1>b, <2>2, <3>2, <3>4, <1>LogUpdate
    <3>. QED  BY Zenon, <3>1, <3>3, <3>4
  <2>4. pc' \in [Workers -> PC] /\ rc' \in [Workers -> {"COMMIT", "ROLLBACK"}]
    <3>1. \/ pc' = [pc EXCEPT ![w] = "lock"] /\ rc' = rc
          \/ pc' = [pc EXCEPT ![w] = "clear"] /\ rc' = [rc EXCEPT ![w] = "ROLLBACK"]
      BY Zenon, <1>17 DEF HandleGetRes, NextLock, StartRollback
    <3>. QED  BY Zenon, <1>a, <3>1 DEF TypeOK, PC
  <2>5. i' \in [Workers -> 1 .. N_OPS + 1]
    <3>1. i' = [i EXCEPT ![w] = 1] \/ i' = [i EXCEPT ![w] = i[w] + 1]
      BY Zenon, <1>17 DEF HandleGetRes, NextLock, StartRollback
    <3>. QED  BY Zenon, <1>b, <2>2, <3>1
  <2>6. UNCHANGED <<row, puts, loopVars, txn, do_accel, n_aborts, hot_send_q>>
    BY Zenon, <1>17 DEF HandleGetRes
  <2>. QED  BY ZenonT(30), <1>a, <2>3, <2>4, <2>5, <2>6 DEF TypeOK
<1>18. ASSUME NEW j \in 1 .. N_OPS, HandleGetReq(w, j) PROVE TypeOK'
  <2>. DEFINE k == Key(w, j)
              f == [st |-> "getres", tuple |-> row[k].tuple, last_acq |-> row[k].last_acq]
  <2>1. /\ k \in Keys /\ Mode(w, j) \in {"READ", "WRITE"}
        /\ op[w][j] \in Future /\ row[k] \in RowType(Nodes, Values)
    BY Zenon, <1>18, AtMsg DEF HandleGetReq
  <2>2. f \in Future /\ moved(op[w][j], "getnak") \in Future
    BY Zenon, <2>1, MovedFacts DEF RowType, Future, Status
  <2>3. op' \in [Workers -> [1 .. N_OPS -> Future]]
    <3>1. \/ op' = [op EXCEPT ![w][j] = f]
          \/ op' = [op EXCEPT ![w][j] = moved(op[w][j], "getnak")]
      BY Zenon, <1>18 DEF HandleGetReq
    <3>. HIDE DEF f
    <3>2. CASE op' = [op EXCEPT ![w][j] = f]
      BY Zenon, <1>b, <2>2, <3>2, <1>LogUpdate
    <3>3. CASE op' = [op EXCEPT ![w][j] = moved(op[w][j], "getnak")]
      BY Zenon, <1>b, <2>2, <3>3, <1>LogUpdate
    <3>. QED  BY Zenon, <3>1, <3>2, <3>3
  <2>4. row' \in [Keys -> RowType(Nodes, Values)]
    <3>1. lock(row[k], Mode(w, j)) \in RowType(Nodes, Values)
      BY Zenon, <2>1, <1>RowLockType
    <3>2. row' = row \/ row' = [row EXCEPT ![k] = lock(row[k], Mode(w, j))]
      BY Zenon, <1>18 DEF HandleGetReq
    <3>3. row \in [Keys -> RowType(Nodes, Values)]
      BY Zenon, <1>a DEF TypeOK
    <3>4. CASE row' = row
      BY Zenon, <3>3, <3>4
    <3>5. CASE row' = [row EXCEPT ![k] = lock(row[k], Mode(w, j))]
      BY ZenonT(30), <2>1, <3>1, <3>3, <3>5, <1>FunUpdate
    <3>. QED  BY Zenon, <3>2, <3>4, <3>5
  <2>5. UNCHANGED <<puts, loopVars, txnVars, pc, i, hot_send_q>>
    BY Zenon, <1>18 DEF HandleGetReq
  <2>. QED  BY ZenonT(30), <1>a, <2>3, <2>4, <2>5 DEF TypeOK
<1>19. ASSUME NEW j \in 1 .. N_OPS, HandlePutReq(w, j) PROVE TypeOK'
  <2>. DEFINE k == Key(w, j)
              r == IF Mode(w, j) = "WRITE" THEN [row[k] EXCEPT !.tuple = op[w][j].tuple]
                   ELSE row[k]
  <2>1. /\ k \in Keys /\ Mode(w, j) \in {"READ", "WRITE"}
        /\ op[w][j] \in Future /\ row[k] \in RowType(Nodes, Values)
    BY Zenon, <1>19, AtMsg DEF HandlePutReq
  <2>2. row[k].owner_cnt > 0
    BY Zenon, <1>19, HeldRow DEF HandlePutReq, Holds
  <2>3. r \in RowType(Nodes, Values) /\ r.owner_cnt > 0 /\ op[w][j].last_acq \in TxnId(Nodes)
    BY Zenon, <2>1, <2>2 DEF RowType, Future
  <2>4. row' \in [Keys -> RowType(Nodes, Values)]
    <3>1. row' = [row EXCEPT ![k] = unlock(r, Mode(w, j), op[w][j].last_acq)]
      BY Zenon, <1>19 DEF HandlePutReq
    <3>. HIDE DEF r
    <3>2. unlock(r, Mode(w, j), op[w][j].last_acq) \in RowType(Nodes, Values)
      BY Zenon, <2>1, <2>3, <1>RowUnlockType
    <3>. QED  BY Zenon, <1>a, <2>1, <3>1, <3>2 DEF TypeOK
  <2>5. op' \in [Workers -> [1 .. N_OPS -> Future]]
    <3>1. op' = [op EXCEPT ![w][j] = moved(op[w][j], "putres")]
      BY Zenon, <1>19 DEF HandlePutReq
    <3>2. moved(op[w][j], "putres") \in Future
      BY Zenon, <2>1, MovedFacts DEF Status
    <3>. QED  BY Zenon, <1>b, <3>1, <3>2, <1>LogUpdate
  <2>6. UNCHANGED <<puts, loopVars, txnVars, pc, i, hot_send_q>>
    BY Zenon, <1>19 DEF HandlePutReq
  <2>. QED  BY Zenon, <1>a, <2>4, <2>5, <2>6 DEF TypeOK
<1>20. ASSUME NEW j \in 1 .. N_OPS, HandlePutRes(w, j) PROVE TypeOK'
  <2>1. op[w][j] \in Future
    BY Zenon, <1>b
  <2>2. op' \in [Workers -> [1 .. N_OPS -> Future]]
    <3>1. op' = [op EXCEPT ![w][j] = moved(op[w][j], "clear")]
      BY Zenon, <1>20 DEF HandlePutRes
    <3>2. moved(op[w][j], "clear") \in Future
      BY Zenon, <2>1, MovedFacts DEF Status
    <3>. QED  BY Zenon, <1>b, <3>1, <3>2, <1>LogUpdate
  <2>3. puts' \in [Workers -> Nat]
    <3>1. puts[w] > 0
      BY Zenon, <1>20, PutPending DEF HandlePutRes
    <3>2. puts' = [puts EXCEPT ![w] = puts[w] - 1]
      BY Zenon, <1>20 DEF HandlePutRes
    <3>. QED  BY <1>b, <3>1, <3>2
  <2>4. UNCHANGED <<row, loopVars, txnVars, pc, i, hot_send_q>>
    BY Zenon, <1>20 DEF HandlePutRes
  <2>. QED  BY Zenon, <1>a, <2>2, <2>3, <2>4 DEF TypeOK
<1>. QED
  BY Zenon, <1>1, <1>2, <1>3, <1>4, <1>5, <1>6, <1>7, <1>8, <1>9, <1>10, <1>11, <1>12,
     <1>13, <1>14, <1>15, <1>16, <1>17, <1>18, <1>19, <1>20 DEF Step, Handle

-----------------------------------------------------------------------------
(* Rows and slots.                                                          *)

\* What unlock does to the lock word, when the mode is the row's.
Unlocked(e, r, id) ==
  /\ e.owner_cnt = r.owner_cnt - 1 /\ e.last_acq = id /\ e.tuple = r.tuple
  /\ e.lock_type = IF r.owner_cnt = 1 THEN "INVALID" ELSE r.lock_type

\* Releasing a row in the mode it is locked in.
LEMMA UnlockFacts ==
  ASSUME NEW r \in RowType(Nodes, Values), NEW m, NEW id, r.lock_type = m
  PROVE  Unlocked(unlock(r, m, id), r, id)
BY Zenon DEF unlock, Unlocked

\* The positions of a sequence with one more element.
LEMMA AppendAt ==
  ASSUME NEW S, NEW s \in Seq(S), NEW e \in S
  PROVE  /\ Len(s) \in Nat /\ DOMAIN s = 1 .. Len(s)
         /\ DOMAIN Append(s, e) = 1 .. Len(s) + 1
         /\ \A p \in 1 .. Len(s) : Append(s, e)[p] = s[p]
         /\ Append(s, e)[Len(s) + 1] = e
OBVIOUS

\* A sequence with one more element has that element more in its range.
LEMMA RangeAppend ==
  ASSUME NEW S, NEW s \in Seq(S), NEW e \in S
  PROVE  Range(Append(s, e)) = Range(s) \cup {e}
<1>1. /\ Len(s) \in Nat /\ DOMAIN s = 1 .. Len(s)
      /\ DOMAIN Append(s, e) = 1 .. Len(s) + 1
      /\ \A p \in 1 .. Len(s) : Append(s, e)[p] = s[p]
      /\ Append(s, e)[Len(s) + 1] = e
  BY Zenon, AppendAt
<1>. DEFINE n == Len(s)
            a == Append(s, e)
<1>2. /\ n \in Nat /\ DOMAIN s = 1 .. n /\ DOMAIN a = 1 .. n + 1
      /\ (\A p \in 1 .. n : a[p] = s[p]) /\ a[n + 1] = e
  BY Zenon, <1>1
<1>. HIDE DEF n, a
<1>3. {a[p] : p \in DOMAIN a} = {s[p] : p \in DOMAIN s} \cup {e}
  BY <1>2
<1>. QED  BY Zenon, <1>3 DEF Range, a

\* Only my_execute adds a slot, one of its own, with its locks still held.
LEMMA SlotsStep ==
  ASSUME IInv, NEW w \in Workers, Step(w) \/ Handle(w), NEW n \in Nodes, NEW e \in Slots(n)'
  PROVE  \/ e \in Slots(n)
         \/ /\ AllAccessed(w) /\ phase[w] # "left" /\ n = node_id[w]
            /\ e = [txn |-> txn[w], mini_batch_num |-> mb[w]]
<1>1. hot_send_q \in [Nodes -> Seq(Counted)] /\ node_id[w] \in Nodes
  BY Zenon, ConstantsAssumption DEF IInv, TypeOK
<1>2. CASE hot_send_q' = hot_send_q
  BY Zenon, <1>2 DEF Slots
<1>3. CASE HotPeriod(w)
  <2>1. hot_send_q' = [hot_send_q EXCEPT ![node_id[w]] = <<>>]
    BY Zenon, <1>3 DEF HotPeriod, done_sending
  <2>2. hot_send_q'[n] = hot_send_q[n] \/ hot_send_q'[n] = <<>>
    BY Zenon, <1>1, <2>1
  <2>3. Range(<<>>) = {}
    BY DEF Range
  <2>. QED  BY Zenon, <2>2, <2>3 DEF Slots
<1>4. CASE AllAccessed(w) /\ phase[w] # "left"
  <2>. DEFINE f == [txn |-> txn[w], mini_batch_num |-> mb[w]]
  <2>1. hot_send_q' = [hot_send_q EXCEPT ![node_id[w]] = Append(hot_send_q[node_id[w]], f)]
    BY Zenon, <1>4 DEF AllAccessed, Id
  <2>2. f \in Counted
    <3>1. pc[w] \in Busy /\ OwnTxns(w) /\ TypeOK
      BY Zenon, <1>4 DEF AllAccessed, Busy, IInv, WorkerInv
    <3>2. txn[w] \in Txns /\ mb[w] \in Nat
      BY Zenon, <3>1, BusyFacts DEF TypeOK
    <3>. QED  BY Zenon, <3>2 DEF Counted
  <2>. HIDE DEF f
  <2>3. CASE n # node_id[w]
    BY Zenon, <1>1, <2>1, <2>3 DEF Slots
  <2>4. CASE n = node_id[w]
    <3>1. hot_send_q'[n] = Append(hot_send_q[n], f) /\ hot_send_q[n] \in Seq(Counted)
      BY Zenon, <1>1, <2>1, <2>4
    <3>2. Range(hot_send_q'[n]) = Range(hot_send_q[n]) \cup {f}
      BY <2>2, <3>1, RangeAppend
    <3>3. e = f \/ e \in Slots(n)
      BY Zenon, <3>2 DEF Slots
    <3>. QED  BY Zenon, <1>4, <2>4, <3>3 DEF f
  <2>. QED  BY Zenon, <2>3, <2>4
<1>5. \/ hot_send_q' = hot_send_q \/ HotPeriod(w)
      \/ AllAccessed(w) /\ phase[w] # "left"
  BY Zenon DEF Step, Handle, RunTxn, EndMiniBatch, LeaveBarrier, EarlyTest, LocalLock, SendGetReq,
     AllLocked, Access, AllAccessed, Clear, AllCleared, Finish, EnterLeftover,
     RunLeftover, NextBatch, HandleGetRes, HandleGetReq, HandlePutReq, HandlePutRes, Id
<1>. QED  BY Zenon, <1>2, <1>3, <1>4, <1>5

-----------------------------------------------------------------------------
(* The locks.                                                               *)

\* Operation l of v goes on holding its row, or not holding it; my_execute may
\* sign the entry of a row it holds.
SameHolder(v, l) ==
  /\ Holds(v, l)' <=> Holds(v, l)
  /\ Holds(v, l) => /\ Key(v, l)' = Key(v, l) /\ Mode(v, l)' = Mode(v, l)
                    /\ \/ op'[v][l].last_acq = op[v][l].last_acq
                       \/ /\ pc[v] = "access" /\ phase[v] # "left"
                          /\ op'[v][l].last_acq = Id(v)

SameLock(r, s) ==
  r.lock_type = s.lock_type /\ r.owner_cnt = s.owner_cnt /\ r.last_acq = s.last_acq

Keeps ==
  /\ \A k \in Keys : SameLock(row'[k], row[k])
  /\ \A v \in Workers, l \in 1 .. N_OPS : SameHolder(v, l)

\* Operation j of w is given the lock it asked for.
Grants(w, j) ==
  /\ ~Holds(w, j) /\ Holds(w, j)'
  /\ Key(w, j) \in Keys /\ Mode(w, j) \in {"READ", "WRITE"}
  /\ Key(w, j)' = Key(w, j) /\ Mode(w, j)' = Mode(w, j)
  /\ may_lock(row[Key(w, j)], Mode(w, j), Id(w))
  /\ op'[w][j].last_acq = row[Key(w, j)].last_acq
  /\ row' = [row EXCEPT ![Key(w, j)] = lock(row[Key(w, j)], Mode(w, j))]
  /\ \A v \in Workers, l \in 1 .. N_OPS : v # w \/ l # j => SameHolder(v, l)

\* Operation j of w is released.
Releases(w, j) ==
  /\ Holds(w, j) /\ ~Holds(w, j)'
  /\ \A k \in Keys : k # Key(w, j) => row'[k] = row[k]
  /\ row'[Key(w, j)].owner_cnt = row[Key(w, j)].owner_cnt - 1
  /\ row'[Key(w, j)].lock_type = IF row[Key(w, j)].owner_cnt = 1 THEN "INVALID"
                                 ELSE row[Key(w, j)].lock_type
  /\ row'[Key(w, j)].last_acq = op[w][j].last_acq
  /\ \A v \in Workers, l \in 1 .. N_OPS : v # w \/ l # j => SameHolder(v, l)

-----------------------------------------------------------------------------
(* Every step is of one of the three kinds.                                 *)

\* The three kinds of steps.
LEMMA StepKind ==
  ASSUME FiniteSetFacts, IInv, NEW w \in Workers, Step(w) \/ Handle(w)
  PROVE  \/ Keeps
         \/ \E j \in 1 .. N_OPS : Grants(w, j)
         \/ \E j \in 1 .. N_OPS : Releases(w, j) /\ (Clear(w) \/ HandlePutReq(w, j))
\* The operations of the other workers are left alone.
<1>OtherHolder. ASSUME NEW v \in Workers, v # w,
                NEW l \in 1 .. N_OPS
       PROVE  SameHolder(v, l)
  <2>. USE <1>OtherHolder
  <2>1. op'[v] = op[v] /\ (pc[v] \in Busy => Ops(v)' = Ops(v))
    BY Zenon, Others
  <2>2. Holds(v, l) => pc[v] \in Busy
    BY Zenon, AtMsg DEF Holds
  <2>. QED  BY Zenon, <2>1, <2>2 DEF SameHolder, Holds, Key, Mode
\* An entry that keeps its status and its id goes on holding, or not.
<1>OwnHolder. ASSUME NEW l \in 1 .. N_OPS, op'[w][l] = op[w][l], Ops(w)' = Ops(w)
       PROVE  SameHolder(w, l)
  BY <1>OwnHolder, Zenon DEF SameHolder, Holds, Key, Mode
\* A step that changes neither rows nor logs keeps all locks.
<1>KeepSame. ASSUME row' = row, op' = op,
                pc[w] \in Busy => Ops(w)' = Ops(w)
       PROVE  Keeps
  <2>. USE <1>KeepSame
  <2>1. \A k \in Keys : SameLock(row'[k], row[k])
    BY Zenon DEF SameLock
  <2>2. ASSUME NEW l \in 1 .. N_OPS PROVE SameHolder(w, l)
    <3>1. CASE pc[w] \in Busy
      BY Zenon, <3>1, <1>OwnHolder
    <3>2. CASE pc[w] \notin Busy
      <4>1. ~Holds(w, l)
        BY Zenon, <3>2, AtMsg DEF Holds
      <4>. QED  BY Zenon, <4>1 DEF SameHolder, Holds
    <3>. QED  BY Zenon, <3>1, <3>2
  <2>3. ASSUME NEW v \in Workers, NEW l \in 1 .. N_OPS PROVE SameHolder(v, l)
    BY Zenon, <2>2, <1>OtherHolder
  <2>. QED  BY Zenon, <2>1, <2>3 DEF Keeps
\* The steps that leave rows and logs alone.
<1>KindIdle. ASSUME \/ (\E n \in Queues : RunTxn(w, n)) \/ EndMiniBatch(w) \/ LeaveBarrier(w)
                \/ EarlyTest(w) \/ AllLocked(w) \/ AllAccessed(w) \/ AllCleared(w)
                \/ HotPeriod(w) \/ EnterLeftover(w) \/ RunLeftover(w) \/ NextBatch(w)
       PROVE  Keeps
  <2>. USE <1>KindIdle
  <2>1. row' = row /\ op' = op
    BY ZenonT(30) DEF RunTxn, EndMiniBatch, LeaveBarrier, EarlyTest, AllLocked, AllAccessed, AllCleared,
       HotPeriod, EnterLeftover, RunLeftover, NextBatch, lockVars
  <2>2. pc[w] \in Busy => txn' = txn /\ do_accel' = do_accel
    BY Zenon DEF RunTxn, EndMiniBatch, LeaveBarrier, EarlyTest, AllLocked, AllAccessed, AllCleared,
       HotPeriod, EnterLeftover, RunLeftover, NextBatch, txnVars, Busy
  <2>3. pc[w] \in Busy => Ops(w)' = Ops(w)
    BY Zenon, <2>2 DEF Ops, ops
  <2>4. Step(w)
    BY Zenon DEF Step
  <2>. QED  BY Zenon, <2>1, <2>3, <2>4, <1>KeepSame
\* A step that changes one entry of one log.
<1>OneEntry. ASSUME NEW j \in 1 .. N_OPS, NEW f \in Future,
                op' = [op EXCEPT ![w][j] = f], txn' = txn, do_accel' = do_accel
       PROVE  /\ Key(w, j)' = Key(w, j) /\ Mode(w, j)' = Mode(w, j)
              /\ \A v \in Workers, l \in 1 .. N_OPS : v # w \/ l # j => SameHolder(v, l)
  <2>. USE <1>OneEntry
  <2>1. Ops(w)' = Ops(w)
    BY Zenon DEF Ops, ops
  <2>2. op \in [Workers -> [1 .. N_OPS -> Future]]
    BY Zenon DEF IInv, TypeOK
  <2>3. \A l \in 1 .. N_OPS : l # j => op'[w][l] = op[w][l]
    BY Zenon, <2>2
  <2>4. \A l \in 1 .. N_OPS : l # j => SameHolder(w, l)
    BY Zenon, <2>1, <2>3, <1>OwnHolder
  <2>5. ASSUME NEW v \in Workers, NEW l \in 1 .. N_OPS, v # w PROVE SameHolder(v, l)
    BY Zenon, <2>5, <1>OtherHolder
  <2>. QED  BY Zenon, <2>1, <2>4, <2>5 DEF Key, Mode
\* A step that changes one entry, which goes on holding or not, and no lock.
<1>KeepEntry. ASSUME NEW j \in 1 .. N_OPS, NEW f \in Future,
                op' = [op EXCEPT ![w][j] = f], txn' = txn, do_accel' = do_accel,
                \A k \in Keys : SameLock(row'[k], row[k]),
                f.st \in {"held", "getres", "putreq"} <=> op[w][j].st \in {"held", "getres", "putreq"},
                \/ f.last_acq = op[w][j].last_acq
                \/ pc[w] = "access" /\ phase[w] # "left" /\ f.last_acq = Id(w)
       PROVE  Keeps
  <2>. USE <1>KeepEntry
  <2>1. op \in [Workers -> [1 .. N_OPS -> Future]]
    BY Zenon DEF IInv, TypeOK
  <2>2. op'[w][j] = f
    BY Zenon, <2>1
  <2>3. /\ Key(w, j)' = Key(w, j) /\ Mode(w, j)' = Mode(w, j)
        /\ \A v \in Workers, l \in 1 .. N_OPS : v # w \/ l # j => SameHolder(v, l)
    BY Zenon, <1>OneEntry
  <2>4. SameHolder(w, j)
    BY Zenon, <2>2, <2>3 DEF SameHolder, Holds
  <2>. QED  BY Zenon, <2>3, <2>4 DEF Keeps
\* local_lock grants the lock or changes nothing.
<1>KindLocalLock. ASSUME LocalLock(w)
       PROVE  Keeps \/ \E j \in 1 .. N_OPS : Grants(w, j)
  <2>. USE <1>KindLocalLock
  <2>1. pc[w] = "mutex" /\ pc[w] \in Busy /\ txn' = txn /\ do_accel' = do_accel /\ Step(w)
    BY Zenon DEF LocalLock, Busy, Step
  <2>2. /\ i[w] <= Len(Ops(w)) /\ i[w] \in Nat /\ (\A j \in 1 .. N_OPS : LogEntry(w, j))
        /\ op \in [Workers -> [1 .. N_OPS -> Future]]
    BY Zenon, <2>1, BusyBefore DEF IndexInv
  <2>3. PICK j \in 1 .. N_OPS : j = i[w]
    BY Zenon, <2>1, <2>2, AtOp
  <2>. DEFINE k == Key(w, j)
              f == [st |-> "held", tuple |-> NoTxn, last_acq |-> row[k].last_acq]
  <2>4. row[k] \in RowType(Nodes, Values) /\ k \in Keys /\ Mode(w, j) \in {"READ", "WRITE"}
    BY Zenon, <2>1, <2>2, <2>3, AtOp
  <2>5. CASE may_lock(row[k], Mode(w, j), Id(w))
    <3>1. /\ row' = [row EXCEPT ![k] = lock(row[k], Mode(w, j))]
          /\ op' = [op EXCEPT ![w][j] = f]
      BY Zenon, <2>3, <2>5 DEF LocalLock
    <3>2. f \in Future /\ f.st = "held" /\ f.last_acq = row[k].last_acq
      BY Zenon, <2>4 DEF RowType, Future, Status, Values
    <3>. HIDE DEF f
    <3>3. op'[w][j] = f
      BY Zenon, <2>2, <3>1
    <3>4. /\ Key(w, j)' = Key(w, j) /\ Mode(w, j)' = Mode(w, j)
          /\ \A v \in Workers, l \in 1 .. N_OPS : v # w \/ l # j => SameHolder(v, l)
      BY Zenon, <2>1, <3>1, <3>2, <1>OneEntry
    <3>5. op[w][j].st = "none"
      BY <2>1, <2>2, <2>3 DEF LogEntry, Entry, Remote
    <3>6. Grants(w, j)
      BY Zenon, <2>4, <2>5, <3>1, <3>2, <3>3, <3>4, <3>5 DEF Grants, Holds
    <3>. QED  BY Zenon, <3>6
  <2>6. CASE ~may_lock(row[k], Mode(w, j), Id(w))
    <3>1. row' = row /\ op' = op
      BY Zenon, <2>3, <2>6 DEF LocalLock
    <3>2. Ops(w)' = Ops(w)
      BY Zenon, <2>1 DEF Ops, ops
    <3>. QED  BY Zenon, <2>1, <3>1, <3>2, <1>KeepSame
  <2>. QED  BY Zenon, <2>5, <2>6
\* remote_lock grants the lock or changes nothing but the message.
<1>KindHandleGetReq. ASSUME NEW j \in 1 .. N_OPS, HandleGetReq(w, j)
       PROVE  Keeps \/ Grants(w, j)
  <2>. USE <1>KindHandleGetReq
  <2>. DEFINE k == Key(w, j)
              f == [st |-> "getres", tuple |-> row[k].tuple, last_acq |-> row[k].last_acq]
  <2>1. op[w][j].st = "getreq" /\ txn' = txn /\ do_accel' = do_accel /\ (Step(w) \/ Handle(w))
    BY Zenon DEF HandleGetReq, Handle, txnVars
  <2>2. op \in [Workers -> [1 .. N_OPS -> Future]]
    BY Zenon DEF IInv, TypeOK
  <2>3. /\ row[k] \in RowType(Nodes, Values) /\ k \in Keys /\ Mode(w, j) \in {"READ", "WRITE"}
        /\ op[w][j] \in Future
    BY Zenon, <2>1, AtMsg
  <2>4. CASE may_lock(row[k], Mode(w, j), Id(w))
    <3>1. /\ row' = [row EXCEPT ![k] = lock(row[k], Mode(w, j))]
          /\ op' = [op EXCEPT ![w][j] = f]
      BY Zenon, <2>4 DEF HandleGetReq
    <3>2. f \in Future /\ f.st = "getres" /\ f.last_acq = row[k].last_acq
      BY Zenon, <2>3 DEF RowType, Future, Status
    <3>. HIDE DEF f
    <3>3. op'[w][j] = f
      BY Zenon, <2>2, <3>1
    <3>4. /\ Key(w, j)' = Key(w, j) /\ Mode(w, j)' = Mode(w, j)
          /\ \A v \in Workers, l \in 1 .. N_OPS : v # w \/ l # j => SameHolder(v, l)
      BY Zenon, <2>1, <3>1, <3>2, <1>OneEntry
    <3>. QED  BY Zenon, <2>1, <2>3, <2>4, <3>1, <3>2, <3>3, <3>4 DEF Grants, Holds
  <2>5. CASE ~may_lock(row[k], Mode(w, j), Id(w))
    <3>. DEFINE g == moved(op[w][j], "getnak")
    <3>1. row' = row /\ op' = [op EXCEPT ![w][j] = g]
      BY Zenon, <2>5 DEF HandleGetReq
    <3>2. g \in Future /\ g.st = "getnak" /\ g.last_acq = op[w][j].last_acq
      BY Zenon, <2>3, MovedFacts DEF Status
    <3>3. \A kk \in Keys : SameLock(row'[kk], row[kk])
      BY Zenon, <3>1 DEF SameLock
    <3>. HIDE DEF g
    <3>. QED  BY Zenon, <2>1, <3>1, <3>2, <3>3, <1>KeepEntry
  <2>. QED  BY Zenon, <2>4, <2>5
\* Requests, answers and acknowledgements move without touching a lock.
<1>KindMove. ASSUME \/ SendGetReq(w) \/ HandleGetRes(w)
                \/ \E j \in 1 .. N_OPS : HandlePutRes(w, j)
       PROVE  Keeps
  <2>. USE <1>KindMove
  <2>1. /\ row' = row /\ txn' = txn /\ do_accel' = do_accel /\ (Step(w) \/ Handle(w))
        /\ \A k \in Keys : SameLock(row'[k], row[k])
    BY Zenon DEF SendGetReq, HandleGetRes, HandlePutRes, Step, Handle, txnVars, SameLock
  <2>2. PICK j \in 1 .. N_OPS, s \in Status :
          /\ op[w][j] \in Future
          /\ op' = [op EXCEPT ![w][j] = moved(op[w][j], s)]
          /\ s \in {"held", "getres", "putreq"} <=> op[w][j].st \in {"held", "getres", "putreq"}
    <3>1. CASE SendGetReq(w)
      <4>1. pc[w] = "lock" /\ pc[w] \in Busy /\ i[w] <= Len(Ops(w))
        BY Zenon, <3>1 DEF SendGetReq, Busy
      <4>2. i[w] \in 1 .. N_OPS /\ op[w][i[w]] \in Future
        BY Zenon, <4>1, AtOp
      <4>l. LogEntry(w, i[w])
        BY Zenon, <4>1, <4>2, BusyBefore
      <4>3. op[w][i[w]].st = "none"
        <5>1. i[w] >= i[w]
          BY Zenon, <4>1, BusyBefore, Numbers
        <5>. QED  BY Zenon, <4>1, <4>l, <5>1 DEF LogEntry, Entry
      <4>4. op' = [op EXCEPT ![w][i[w]] = moved(op[w][i[w]], "getreq")] /\ "getreq" \in Status
        BY Zenon, <3>1 DEF SendGetReq, Status
      <4>. QED  BY Zenon, <4>2, <4>3, <4>4
    <3>2. CASE HandleGetRes(w)
      <4>1. pc[w] = "wait" /\ pc[w] \in Busy
        BY Zenon, <3>2 DEF HandleGetRes, Busy
      <4>2. i[w] <= Len(Ops(w))
        BY Zenon, <4>1, BusyBefore DEF IndexInv
      <4>3. i[w] \in 1 .. N_OPS /\ op[w][i[w]] \in Future
        BY Zenon, <4>1, <4>2, AtOp
      <4>4. CASE op[w][i[w]].st = "getres"
        <5>1. op' = [op EXCEPT ![w][i[w]] = moved(op[w][i[w]], "held")] /\ "held" \in Status
          BY Zenon, <3>2, <4>4 DEF HandleGetRes, Status
        <5>. QED  BY Zenon, <4>3, <4>4, <5>1
      <4>5. CASE op[w][i[w]].st # "getres"
        <5>1. /\ op' = [op EXCEPT ![w][i[w]] = moved(op[w][i[w]], "failed")] /\ "failed" \in Status
              /\ op[w][i[w]].st = "getnak"
          BY Zenon, <3>2, <4>5 DEF HandleGetRes, Status
        <5>. QED  BY Zenon, <4>3, <5>1
      <4>. QED  BY Zenon, <4>4, <4>5
    <3>3. ASSUME NEW j \in 1 .. N_OPS, HandlePutRes(w, j)
          PROVE  /\ op[w][j] \in Future /\ "clear" \in Status /\ op[w][j].st = "putres"
                 /\ op' = [op EXCEPT ![w][j] = moved(op[w][j], "clear")]
      BY Zenon, <3>3, AtMsg DEF HandlePutRes, Status
    <3>. QED  BY Zenon, <3>1, <3>2, <3>3
  <2>3. PICK f \in Future : f = moved(op[w][j], s) /\ f.st = s /\ f.last_acq = op[w][j].last_acq
    BY Zenon, <2>2, MovedFacts
  <2>4. op' = [op EXCEPT ![w][j] = f]
    BY Zenon, <2>2, <2>3
  <2>5. f.st \in {"held", "getres", "putreq"} <=> op[w][j].st \in {"held", "getres", "putreq"}
    BY Zenon, <2>2, <2>3
  <2>6. f.last_acq = op[w][j].last_acq
    BY Zenon, <2>3
  <2>. QED  BY Zenon, <2>1, <2>4, <2>5, <2>6, <1>KeepEntry
\* Reading and writing values touches no lock; my_execute signs its entry.
<1>KindAccess. ASSUME Access(w)
       PROVE  Keeps
  <2>. USE <1>KindAccess
  <2>1. /\ pc[w] = "access" /\ pc[w] \in Busy /\ txn' = txn /\ do_accel' = do_accel
        /\ Step(w) /\ i[w] <= Len(Ops(w))
    BY Zenon DEF Access, Busy, Step, txnVars
  <2>2. PICK j \in 1 .. N_OPS : j = i[w]
    BY Zenon, <2>1, AtOp
  <2>3. op[w][j] \in Future /\ row[Key(w, j)] \in RowType(Nodes, Values) /\ Key(w, j) \in Keys
    BY Zenon, <2>1, <2>2, AtOp
  <2>4. txn[w] \in Values /\ Id(w) \in TxnId(Nodes) /\ row \in [Keys -> RowType(Nodes, Values)]
    BY Zenon, IdType DEF IInv, TypeOK
  <2>. DEFINE o == op[w][j]
              f == [st |-> o.st,
                    tuple |-> IF Mode(w, j) = "WRITE" /\ ~IsLocal(w, j) THEN txn[w] ELSE o.tuple,
                    last_acq |-> IF Id(w).valid THEN Id(w) ELSE o.last_acq]
  <2>5. op' = [op EXCEPT ![w][j] = f]
    BY Zenon, <2>2 DEF Access
  <2>6. f \in Future /\ f.st = o.st
    BY Zenon, <2>3, <2>4 DEF Future
  <2>7. \/ f.last_acq = op[w][j].last_acq
        \/ pc[w] = "access" /\ phase[w] # "left" /\ f.last_acq = Id(w)
    BY Zenon, <2>1 DEF Id
  <2>8. \A k \in Keys : SameLock(row'[k], row[k])
    <3>1. row' = row \/ row' = [row EXCEPT ![Key(w, j)] = [row[Key(w, j)] EXCEPT !.tuple = txn[w]]]
      BY Zenon, <2>2 DEF Access
    <3>. QED  BY <2>3, <2>4, <3>1 DEF SameLock, RowType
  <2>. HIDE DEF f
  <2>. QED  BY Zenon, <2>1, <2>5, <2>6, <2>7, <2>8, <1>KeepEntry
\* Undolog::clear releases a local row, or sends the release of a remote one.
<1>KindClear. ASSUME Clear(w)
       PROVE  Keeps \/ \E j \in 1 .. N_OPS : Releases(w, j)
  <2>. USE <1>KindClear
  <2>1. /\ pc[w] = "clear" /\ pc[w] \in Busy /\ txn' = txn /\ do_accel' = do_accel
        /\ Step(w) /\ i[w] <= Len(Ops(w))
    BY Zenon DEF Clear, Busy, Step, txnVars
  <2>2. PICK j \in 1 .. N_OPS : j = i[w]
    BY Zenon, <2>1, AtOp
  <2>. DEFINE k == Key(w, j)
  <2>3. op[w][j] \in Future /\ row[k] \in RowType(Nodes, Values) /\ k \in Keys
    BY Zenon, <2>1, <2>2, AtOp
  <2>4. row \in [Keys -> RowType(Nodes, Values)] /\ op \in [Workers -> [1 .. N_OPS -> Future]]
    BY Zenon DEF IInv, TypeOK
  <2>5. CASE op[w][j].st = "held" /\ IsLocal(w, j)
    <3>. DEFINE e == unlock(row[k], Mode(w, j), op[w][j].last_acq)
                f == moved(op[w][j], "clear")
    <3>1. row' = [row EXCEPT ![k] = e] /\ op' = [op EXCEPT ![w][j] = f]
      BY Zenon, <2>2, <2>5 DEF Clear
    <3>2. row[k].lock_type = Mode(w, j) /\ Holds(w, j)
      BY Zenon, <2>5, HeldRow DEF Holds
    <3>3. /\ e.owner_cnt = row[k].owner_cnt - 1 /\ e.last_acq = op[w][j].last_acq
          /\ e.lock_type = IF row[k].owner_cnt = 1 THEN "INVALID" ELSE row[k].lock_type
      <4>1. Unlocked(e, row[k], op[w][j].last_acq)
        BY Zenon, <2>3, <3>2, UnlockFacts
      <4>. HIDE DEF e, k
      <4>. QED  BY Zenon, <4>1 DEF Unlocked
    <3>4. f \in Future /\ f.st = "clear"
      BY Zenon, <2>3, MovedFacts DEF Status
    <3>. HIDE DEF e, f
    <3>5. \A v \in Workers, l \in 1 .. N_OPS : v # w \/ l # j => SameHolder(v, l)
      BY Zenon, <2>1, <3>1, <3>4, <1>OneEntry
    <3>6. ~Holds(w, j)'
      BY Zenon, <2>4, <3>1, <3>4 DEF Holds
    <3>7. row'[k] = e /\ \A kk \in Keys : kk # k => row'[kk] = row[kk]
      BY Zenon, <2>3, <2>4, <3>1
    <3>8. Releases(w, j)
      BY Zenon, <3>2, <3>3, <3>5, <3>6, <3>7 DEF Releases
    <3>. QED  BY Zenon, <3>8
  <2>6. CASE op[w][j].st = "held" /\ ~IsLocal(w, j)
    <3>. DEFINE f == moved(op[w][j], "putreq")
    <3>1. row' = row /\ op' = [op EXCEPT ![w][j] = f]
      BY Zenon, <2>2, <2>6 DEF Clear
    <3>2. f \in Future /\ f.st = "putreq" /\ f.last_acq = op[w][j].last_acq
      BY Zenon, <2>3, MovedFacts DEF Status
    <3>3. \A kk \in Keys : SameLock(row'[kk], row[kk])
      BY Zenon, <3>1 DEF SameLock
    <3>. HIDE DEF f
    <3>. QED  BY Zenon, <2>1, <2>6, <3>1, <3>2, <3>3, <1>KeepEntry
  <2>7. CASE op[w][j].st # "held"
    <3>1. row' = row /\ op' = op
      BY Zenon, <2>2, <2>7 DEF Clear, lockVars
    <3>2. Ops(w)' = Ops(w)
      BY Zenon, <2>1 DEF Ops, ops
    <3>. QED  BY Zenon, <2>1, <3>1, <3>2, <1>KeepSame
  <2>. QED  BY Zenon, <2>5, <2>6, <2>7
\* remote_unlock releases the row, after remote_put has written it.
<1>KindHandlePutReq. ASSUME NEW j \in 1 .. N_OPS, HandlePutReq(w, j)
       PROVE  Releases(w, j)
  <2>. USE <1>KindHandlePutReq
  <2>. DEFINE k == Key(w, j)
              r == IF Mode(w, j) = "WRITE" THEN [row[k] EXCEPT !.tuple = op[w][j].tuple] ELSE row[k]
              e == unlock(r, Mode(w, j), op[w][j].last_acq)
              f == moved(op[w][j], "putres")
  <2>1. /\ op[w][j].st = "putreq" /\ txn' = txn /\ do_accel' = do_accel /\ (Step(w) \/ Handle(w))
        /\ row' = [row EXCEPT ![k] = e] /\ op' = [op EXCEPT ![w][j] = f]
    BY Zenon DEF HandlePutReq, Handle, txnVars
  <2>2. row \in [Keys -> RowType(Nodes, Values)] /\ op \in [Workers -> [1 .. N_OPS -> Future]]
    BY Zenon DEF IInv, TypeOK
  <2>3. row[k] \in RowType(Nodes, Values) /\ k \in Keys /\ op[w][j] \in Future
    BY Zenon, <2>1, AtMsg
  <2>4. row[k].lock_type = Mode(w, j) /\ Holds(w, j)
    BY Zenon, <2>1, HeldRow DEF Holds
  <2>5. /\ r \in RowType(Nodes, Values) /\ r.lock_type = row[k].lock_type
        /\ r.owner_cnt = row[k].owner_cnt
    BY Zenon, <2>3 DEF RowType, Future
  <2>. HIDE DEF r
  <2>6. /\ e.owner_cnt = row[k].owner_cnt - 1 /\ e.last_acq = op[w][j].last_acq
        /\ e.lock_type = IF row[k].owner_cnt = 1 THEN "INVALID" ELSE row[k].lock_type
    <3>1. Unlocked(e, r, op[w][j].last_acq)
      BY Zenon, <2>4, <2>5, UnlockFacts
    <3>. HIDE DEF e, k
    <3>. QED  BY Zenon, <2>5, <3>1 DEF Unlocked
  <2>7. f \in Future /\ f.st = "putres"
    BY Zenon, <2>3, MovedFacts DEF Status
  <2>. HIDE DEF e, f
  <2>8. \A v \in Workers, l \in 1 .. N_OPS : v # w \/ l # j => SameHolder(v, l)
    BY Zenon, <2>1, <2>7, <1>OneEntry
  <2>9. ~Holds(w, j)'
    BY Zenon, <2>1, <2>2, <2>7 DEF Holds
  <2>10. row'[k] = e /\ \A kk \in Keys : kk # k => row'[kk] = row[kk]
    BY Zenon, <2>1, <2>2, <2>3
  <2>. QED  BY Zenon, <2>4, <2>6, <2>8, <2>9, <2>10 DEF Releases
\* When a transaction ends it holds nothing.
<1>KindFinish. ASSUME Finish(w)
       PROVE  Keeps
  <2>. USE <1>KindFinish
  <2>1. pc[w] = "puts" /\ pc[w] \in Busy /\ puts[w] = 0 /\ row' = row /\ Step(w)
        /\ op' = [op EXCEPT ![w] = NewLog]
    BY Zenon DEF Finish, Busy, AllAcked, Step
  <2>2. DOMAIN op = Workers /\ \A j \in 1 .. N_OPS : LogEntry(w, j)
    BY Zenon, <2>1, BusyBefore
  <2>3. ASSUME NEW l \in 1 .. N_OPS PROVE SameHolder(w, l)
    <3>1. op[w][l].st \notin {"putreq", "putres"}
      BY <2>1, PutPending
    <3>2. ~Holds(w, l)
      BY Zenon, <2>1, <2>2, <3>1 DEF LogEntry, Entry, Remote, Holds
    <3>3. ~Holds(w, l)'
      BY Zenon, <2>1, <2>2 DEF NewLog, NewFuture, Holds
    <3>. QED  BY Zenon, <3>2, <3>3 DEF SameHolder
  <2>4. ASSUME NEW v \in Workers, NEW l \in 1 .. N_OPS PROVE SameHolder(v, l)
    BY Zenon, <2>1, <2>3, <1>OtherHolder
  <2>. QED  BY Zenon, <2>1, <2>4 DEF Keeps, SameLock
<1>. QED  BY Zenon, <1>KindIdle, <1>KindLocalLock, <1>KindHandleGetReq, <1>KindMove, <1>KindAccess, <1>KindClear,
   <1>KindHandlePutReq, <1>KindFinish DEF Step, Handle

-----------------------------------------------------------------------------
(* The put responses.                                                       *)

Pending(w) == {j \in 1 .. N_OPS : op[w][j].st \in {"putreq", "putres"}}

-----------------------------------------------------------------------------
(* The invariant and what follows from it.                                  *)

\* The invariant holds when the workers start.
LEMMA InitIInv ==
  ASSUME FiniteSetFacts
  PROVE  Init => IInv
<1>. SUFFICES ASSUME Init PROVE IInv
  BY Zenon
<1>1. TypeOK
  BY Zenon, InitType
<1>2. \A w \in Workers, j \in 1 .. N_OPS : op[w][j].st = "none"
  BY Zenon DEF Init, NewLog, NewFuture
<1>3. \A k : Holders(k) = {}
  BY Zenon, <1>2 DEF Holders, Holds
<1>4. ASSUME NEW w \in Workers PROVE WorkerInv(w)
  <2>1. pc[w] = "run" /\ pc[w] \notin Busy /\ leftover[w] = <<>> /\ q[w] = Sched[w][1]
    BY Zenon, <1>4 DEF Init, Busy
  <2>2. Sched[w][1] \in [Queues -> Seq(my_txns[w])]
    <3>1. Sched[w] \in Seq([Queues -> Seq(my_txns[w])]) /\ Sched[w] # <<>>
      BY Zenon, ConstantsAssumption
    <3>. QED  BY <3>1
  <2>3. OwnTxns(w)
    BY <2>1, <2>2 DEF OwnTxns
  <2>4. IndexInv(w)
    BY Zenon, <2>1 DEF IndexInv
  <2>5. LogInv(w)
    BY Zenon, <1>2, <2>1 DEF LogInv, LogEntry, Entry, Remote, Busy
  <2>6. HolderInv(w)
    BY Zenon, <1>2, <2>1 DEF HolderInv, Holds
  <2>. QED  BY Zenon, <2>3, <2>4, <2>5, <2>6 DEF WorkerInv
<1>5. LockInv
  <2>1. Cardinality({}) = 0
    BY Zenon DEF FiniteSetFacts, EmptyFact
  <2>. QED  BY Zenon, <1>3, <2>1 DEF LockInv, Init, NewRow
<1>6. PutsCounted
  <2>1. Cardinality({}) = 0
    BY Zenon DEF FiniteSetFacts, EmptyFact
  <2>2. \A w \in Workers : {j \in 1 .. N_OPS : op[w][j].st \in {"putreq", "putres"}} = {}
    BY Zenon, <1>2
  <2>. QED  BY Zenon, <2>1, <2>2 DEF PutsCounted, Init
<1>7. BarrierInv
  BY Zenon, Numbers DEF BarrierInv, Init
<1>8. AcqInv
  <2>1. /\ \A k \in Keys : row[k].last_acq.mini_batch_id = 0
        /\ \A w \in Workers : mb[w] = 1
    BY Zenon DEF Init, NewRow
  <2>2. \A w \in Workers, j \in 1 .. N_OPS : ~Holds(w, j)
    BY Zenon, <1>2 DEF Holds
  <2>. QED  BY Zenon, <2>1, <2>2, Numbers DEF AcqInv
<1>9. \A n \in Nodes : Slots(n) = {}
  BY DEF Slots, Range, Init
<1>10. SlotInv /\ WritesDisjoint
  BY Zenon, <1>9 DEF SlotInv, WritesDisjoint
<1>. QED  BY Zenon, <1>1, <1>4, <1>5, <1>6, <1>7, <1>8, <1>10 DEF IInv

\* Every step of the program keeps the invariant, stuttering included.
LEMMA IInvStep ==
  ASSUME FiniteSetFacts
  PROVE  IInv /\ [Next]_vars => IInv'
\* The holders of the rows, after each kind of step.
<1>HoldersKeep. ASSUME Keeps, NEW k
       PROVE  /\ Holders(k)' = Holders(k)
              /\ \A h \in Holders(k) : Mode(h[1], h[2])' = Mode(h[1], h[2])
  BY <1>HoldersKeep, Zenon DEF Keeps, SameHolder, Holders
\* A granted lock has one holder more, every other lock those it had.
<1>HoldersGrant. ASSUME NEW w \in Workers, NEW j \in 1 .. N_OPS, Grants(w, j), NEW k
       PROVE  /\ Holders(k)' = IF k = Key(w, j) THEN Holders(k) \cup {<<w, j>>} ELSE Holders(k)
              /\ <<w, j>> \notin Holders(k)
              /\ \A h \in Holders(k)' : Mode(h[1], h[2])' = Mode(h[1], h[2])
  <2>. USE <1>HoldersGrant
  <2>1. <<w, j>> \notin Holders(k)
    BY Zenon DEF Grants, Holders
  <2>2. ASSUME NEW v \in Workers, NEW l \in 1 .. N_OPS, v # w \/ l # j
        PROVE  /\ <<v, l>> \in Holders(k)' <=> <<v, l>> \in Holders(k)
               /\ <<v, l>> \in Holders(k) => Mode(v, l)' = Mode(v, l)
    <3>1. SameHolder(v, l)
      BY Zenon, <2>2 DEF Grants
    <3>. QED  BY Zenon, <3>1 DEF SameHolder, Holders
  <2>3. <<w, j>> \in Holders(k)' <=> k = Key(w, j)
    BY Zenon DEF Grants, Holders
  <2>4. Mode(w, j)' = Mode(w, j)
    BY Zenon DEF Grants
  <2>5. /\ Holders(k) \subseteq Workers \X (1 .. N_OPS)
        /\ Holders(k)' \subseteq Workers \X (1 .. N_OPS)
    BY Zenon DEF Holders
  <2>. QED  BY SMTT(30), <2>1, <2>2, <2>3, <2>4, <2>5
\* A released lock has one holder less.
<1>HoldersRelease. ASSUME NEW w \in Workers, NEW j \in 1 .. N_OPS, Releases(w, j), NEW k
       PROVE  /\ Holders(k)' = IF k = Key(w, j) THEN Holders(k) \ {<<w, j>>} ELSE Holders(k)
              /\ <<w, j>> \in Holders(k) <=> k = Key(w, j)
              /\ \A h \in Holders(k)' : Mode(h[1], h[2])' = Mode(h[1], h[2])
  <2>. USE <1>HoldersRelease
  <2>1. <<w, j>> \in Holders(k) <=> k = Key(w, j)
    BY Zenon DEF Releases, Holders
  <2>2. ASSUME NEW v \in Workers, NEW l \in 1 .. N_OPS, v # w \/ l # j
        PROVE  /\ <<v, l>> \in Holders(k)' <=> <<v, l>> \in Holders(k)
               /\ <<v, l>> \in Holders(k) => Mode(v, l)' = Mode(v, l)
    <3>1. SameHolder(v, l)
      BY Zenon, <2>2 DEF Releases
    <3>. QED  BY Zenon, <3>1 DEF SameHolder, Holders
  <2>3. <<w, j>> \notin Holders(k)'
    BY Zenon DEF Releases, Holders
  <2>4. /\ Holders(k) \subseteq Workers \X (1 .. N_OPS)
        /\ Holders(k)' \subseteq Workers \X (1 .. N_OPS)
    BY Zenon DEF Holders
  <2>. QED  BY <2>1, <2>2, <2>3, <2>4
\* LockInv is kept: by a grant because it was compatible, by a release because
\* its mode is the row's.
<1>LockStep. ASSUME IInv, NEW w \in Workers, Step(w) \/ Handle(w)
       PROVE  LockInv'
  <2>. USE <1>LockStep
  <2>. SUFFICES ASSUME NEW k \in Keys
                PROVE  /\ row'[k].owner_cnt = Cardinality(Holders(k)')
                       /\ row'[k].lock_type = "INVALID" <=> Holders(k)' = {}
                       /\ row'[k].lock_type = "WRITE" => row'[k].owner_cnt = 1
                       /\ \A h \in Holders(k)' : Mode(h[1], h[2])' = row'[k].lock_type
    BY Zenon DEF LockInv
  <2>1. /\ row[k].owner_cnt = Cardinality(Holders(k))
        /\ row[k].lock_type = "INVALID" <=> Holders(k) = {}
        /\ row[k].lock_type = "WRITE" => row[k].owner_cnt = 1
        /\ \A h \in Holders(k) : Mode(h[1], h[2]) = row[k].lock_type
    BY Zenon DEF IInv, LockInv
  <2>2. /\ row \in [Keys -> RowType(Nodes, Values)] /\ row[k].owner_cnt \in Nat
        /\ row[k].lock_type \in AccessMode
    BY Zenon DEF IInv, TypeOK, RowType
  <2>3. IsFiniteSet(Holders(k))
    BY Zenon, HoldersFinite
  <2>4. CASE Keeps
    <3>1. /\ Holders(k)' = Holders(k)
          /\ \A h \in Holders(k) : Mode(h[1], h[2])' = Mode(h[1], h[2])
      BY Zenon, <2>4, <1>HoldersKeep
    <3>2. row'[k].lock_type = row[k].lock_type /\ row'[k].owner_cnt = row[k].owner_cnt
      BY Zenon, <2>4 DEF Keeps, SameLock
    <3>. QED  BY Zenon, <2>1, <3>1, <3>2
  <2>5. ASSUME NEW j \in 1 .. N_OPS, Grants(w, j)
        PROVE  /\ row'[k].owner_cnt = Cardinality(Holders(k)')
               /\ row'[k].lock_type = "INVALID" <=> Holders(k)' = {}
               /\ row'[k].lock_type = "WRITE" => row'[k].owner_cnt = 1
               /\ \A h \in Holders(k)' : Mode(h[1], h[2])' = row'[k].lock_type
    <3>1. /\ Holders(k)' = IF k = Key(w, j) THEN Holders(k) \cup {<<w, j>>} ELSE Holders(k)
          /\ <<w, j>> \notin Holders(k)
          /\ \A h \in Holders(k)' : Mode(h[1], h[2])' = Mode(h[1], h[2])
      BY Zenon, <2>5, <1>HoldersGrant
    <3>2. CASE k = Key(w, j)
      <4>1. /\ row'[k] = lock(row[k], Mode(w, j)) /\ is_compatible(row[k], Mode(w, j))
            /\ Mode(w, j) \in {"READ", "WRITE"}
        BY Zenon, <2>2, <2>5, <3>2 DEF Grants, may_lock
      <4>2. row'[k].lock_type = Mode(w, j) /\ row'[k].owner_cnt = row[k].owner_cnt + 1
        BY <4>1 DEF lock
      <4>3. Holders(k)' = Holders(k) \cup {<<w, j>>}
        BY Zenon, <3>1, <3>2
      <4>4. Cardinality(Holders(k)') = Cardinality(Holders(k)) + 1
        BY Zenon, <2>3, <3>1, <4>3 DEF FiniteSetFacts, AddFact
      <4>5. row[k].lock_type = "INVALID" => row[k].owner_cnt = 0
        BY Zenon, <2>1 DEF FiniteSetFacts, EmptyFact
      <4>6. Mode(w, j) = "WRITE" => row[k].lock_type = "INVALID"
        BY Zenon, <4>1 DEF is_compatible
      <4>7. \A h \in Holders(k) : Mode(h[1], h[2]) = Mode(w, j)
        <5>1. CASE row[k].lock_type = "INVALID"
          BY Zenon, <2>1, <5>1
        <5>2. CASE row[k].lock_type # "INVALID"
          BY Zenon, <2>1, <2>2, <4>1, <5>2 DEF is_compatible, AccessMode
        <5>. QED  BY Zenon, <5>1, <5>2
      <4>8. \A h \in Holders(k)' : Mode(h[1], h[2]) = Mode(w, j)
        BY <4>3, <4>7
      <4>9. row'[k].owner_cnt = Cardinality(Holders(k)')
        BY Zenon, <2>1, <4>2, <4>4
      <4>10. row'[k].lock_type = "WRITE" => row'[k].owner_cnt = 1
        BY SMTT(30), <2>2, <4>2, <4>5, <4>6
      <4>. QED  BY Zenon, <3>1, <4>1, <4>2, <4>3, <4>8, <4>9, <4>10
    <3>3. CASE k # Key(w, j)
      <4>1. row'[k] = row[k]
        BY Zenon, <2>2, <2>5, <3>3 DEF Grants
      <4>. QED  BY Zenon, <2>1, <3>1, <3>3, <4>1
    <3>. QED  BY Zenon, <3>2, <3>3
  <2>6. ASSUME NEW j \in 1 .. N_OPS, Releases(w, j)
        PROVE  /\ row'[k].owner_cnt = Cardinality(Holders(k)')
               /\ row'[k].lock_type = "INVALID" <=> Holders(k)' = {}
               /\ row'[k].lock_type = "WRITE" => row'[k].owner_cnt = 1
               /\ \A h \in Holders(k)' : Mode(h[1], h[2])' = row'[k].lock_type
    <3>1. /\ Holders(k)' = IF k = Key(w, j) THEN Holders(k) \ {<<w, j>>} ELSE Holders(k)
          /\ <<w, j>> \in Holders(k) <=> k = Key(w, j)
          /\ \A h \in Holders(k)' : Mode(h[1], h[2])' = Mode(h[1], h[2])
      BY Zenon, <2>6, <1>HoldersRelease
    <3>2. CASE k = Key(w, j)
      <4>1. /\ row'[k].owner_cnt = row[k].owner_cnt - 1
            /\ row'[k].lock_type = IF row[k].owner_cnt = 1 THEN "INVALID" ELSE row[k].lock_type
        BY Zenon, <2>6, <3>2 DEF Releases
      <4>2. <<w, j>> \in Holders(k) /\ Holders(k)' = Holders(k) \ {<<w, j>>}
        BY Zenon, <3>1, <3>2
      <4>3. Cardinality(Holders(k)') = Cardinality(Holders(k)) - 1 /\ IsFiniteSet(Holders(k)')
        BY Zenon, <2>3, <4>2 DEF FiniteSetFacts, RemoveFact
      <4>4. Holders(k)' = {} <=> Cardinality(Holders(k)') = 0
        BY ZenonT(30), <4>3 DEF FiniteSetFacts, EmptyFact
      <4>5. row[k].lock_type # "INVALID"
        BY Zenon, <2>1, <4>2
      <4>6. row'[k].owner_cnt = Cardinality(Holders(k)')
        BY Zenon, <2>1, <4>1, <4>3
      <4>7. row'[k].lock_type = "INVALID" <=> Holders(k)' = {}
        BY SMTT(30), <2>2, <4>1, <4>4, <4>5, <4>6
      <4>8. row'[k].lock_type # "WRITE"
        BY Zenon, <2>1, <4>1
      <4>9. Holders(k)' # {} => row'[k].lock_type = row[k].lock_type
        BY Zenon, <4>1, <4>7
      <4>10. \A h \in Holders(k)' : Mode(h[1], h[2])' = row'[k].lock_type
        BY Zenon, <2>1, <3>1, <4>2, <4>9
      <4>. QED  BY Zenon, <4>6, <4>7, <4>8, <4>10
    <3>3. CASE k # Key(w, j)
      <4>1. row'[k] = row[k]
        BY Zenon, <2>6, <3>3 DEF Releases
      <4>. QED  BY Zenon, <2>1, <3>1, <3>3, <4>1
    <3>. QED  BY Zenon, <3>2, <3>3
  <2>. QED  BY Zenon, <2>4, <2>5, <2>6, StepKind
\* The counter goes up with every release sent and down with every answer.
<1>PutsStep. ASSUME IInv, NEW w \in Workers, Step(w) \/ Handle(w)
       PROVE  PutsCounted'
     \* The operations of a transaction are finitely many.
  <2>. USE <1>PutsStep
  <2>PendingFinite. ASSUME NEW u
         PROVE  IsFiniteSet(Pending(u))
    <3>1. 1 \in Int /\ N_OPS \in Int
      BY NOpsNat
    <3>2. IsFiniteSet(1 .. N_OPS)
      BY Zenon, <3>1 DEF FiniteSetFacts, IntervalFact
    <3>. QED  BY Zenon, <3>2 DEF Pending, FiniteSetFacts, SubsetFact
  <2>. SUFFICES ASSUME NEW v \in Workers PROVE puts'[v] = Cardinality(Pending(v)')
    BY Zenon DEF PutsCounted, Pending
  <2>1. puts[v] = Cardinality(Pending(v))
    BY Zenon DEF IInv, PutsCounted, Pending
  <2>2. CASE v # w
    <3>1. puts'[v] = puts[v] /\ op'[v] = op[v]
      BY Zenon, <2>2, Others
    <3>. QED  BY Zenon, <2>1, <3>1 DEF Pending
  <2>3. /\ puts \in [Workers -> Nat] /\ op \in [Workers -> [1 .. N_OPS -> Future]]
        /\ IsFiniteSet(Pending(w))
    BY Zenon, <2>PendingFinite DEF IInv, TypeOK
  <2>4. ASSUME puts' = puts, NEW j \in 1 .. N_OPS, NEW f, op' = [op EXCEPT ![w][j] = f],
               f.st \in {"putreq", "putres"} <=> op[w][j].st \in {"putreq", "putres"}
        PROVE  puts'[w] = Cardinality(Pending(w)')
    <3>1. op'[w][j] = f /\ \A l \in 1 .. N_OPS : l # j => op'[w][l] = op[w][l]
      BY Zenon, <2>3, <2>4
    <3>2. Pending(w)' = Pending(w)
      BY Zenon, <2>4, <3>1 DEF Pending
    <3>. QED  BY Zenon, <2>4, <3>2 DEF IInv, PutsCounted, Pending
  <2>5. ASSUME puts' = puts, op' = op PROVE puts'[w] = Cardinality(Pending(w)')
    BY Zenon, <2>5 DEF IInv, PutsCounted, Pending
  <2>6. CASE \/ (\E n \in Queues : RunTxn(w, n)) \/ EndMiniBatch(w) \/ LeaveBarrier(w)
             \/ EarlyTest(w) \/ AllLocked(w) \/ AllAccessed(w) \/ AllCleared(w)
             \/ HotPeriod(w) \/ EnterLeftover(w) \/ RunLeftover(w) \/ NextBatch(w)
    <3>1. puts' = puts /\ op' = op
      BY Zenon, <2>6 DEF RunTxn, EndMiniBatch, LeaveBarrier, EarlyTest, AllLocked, AllAccessed, AllCleared,
         HotPeriod, EnterLeftover, RunLeftover, NextBatch, lockVars
    <3>. QED  BY Zenon, <2>2, <2>5, <3>1
  <2>7. CASE LocalLock(w) \/ SendGetReq(w) \/ HandleGetRes(w) \/ Access(w) \/ Clear(w)
    <3>1. pc[w] \in Busy /\ i[w] <= Len(Ops(w))
      <4>1. pc[w] \in Busy
        BY Zenon, <2>7 DEF LocalLock, SendGetReq, HandleGetRes, Access, Clear, Busy
      <4>. QED  BY Zenon, <2>7, <4>1, BusyBefore
           DEF LocalLock, SendGetReq, HandleGetRes, Access, Clear, IndexInv
    <3>2. PICK j \in 1 .. N_OPS : j = i[w]
      BY Zenon, <3>1, AtOp
    <3>3. op[w][j] \in Future /\ LogEntry(w, j)
      BY Zenon, <2>3, <3>1, BusyBefore
    <3>4. CASE LocalLock(w)
      <4>1. puts' = puts /\ op[w][j].st = "none"
        BY SMTT(30), <3>2, <3>3, <3>4 DEF LocalLock, LogEntry, Entry, Remote
      <4>2. \/ op' = op
            \/ op' = [op EXCEPT ![w][j] = [st |-> "held", tuple |-> NoTxn,
                                           last_acq |-> row[Key(w, j)].last_acq]]
        BY Zenon, <3>2, <3>4 DEF LocalLock
      <4>3. [st |-> "held", tuple |-> NoTxn, last_acq |-> row[Key(w, j)].last_acq].st = "held"
        BY Zenon
      <4>. QED  BY ZenonT(60), <2>2, <2>4, <2>5, <4>1, <4>2, <4>3
    <3>5. CASE SendGetReq(w)
      <4>1. /\ puts' = puts /\ op[w][j].st = "none"
            /\ op' = [op EXCEPT ![w][j] = moved(op[w][j], "getreq")]
        BY <3>2, <3>3, <3>5 DEF SendGetReq, LogEntry, Entry, Remote
      <4>2. moved(op[w][j], "getreq").st = "getreq"
        BY Zenon, <3>3, MovedFacts DEF Status
      <4>. QED  BY ZenonT(30), <2>2, <2>4, <4>1, <4>2
    <3>6. CASE HandleGetRes(w)
      <4>1. puts' = puts /\ op[w][j].st \in {"getres", "getnak"}
        BY Zenon, <3>2, <3>6 DEF HandleGetRes
      <4>2. \/ op' = [op EXCEPT ![w][j] = moved(op[w][j], "held")]
            \/ op' = [op EXCEPT ![w][j] = moved(op[w][j], "failed")]
        BY Zenon, <3>2, <3>6 DEF HandleGetRes
      <4>3. moved(op[w][j], "held").st = "held" /\ moved(op[w][j], "failed").st = "failed"
        BY Zenon, <3>3, MovedFacts DEF Status
      <4>. QED  BY Zenon, <2>2, <2>4, <4>1, <4>2, <4>3
    <3>7. CASE Access(w)
      <4>. DEFINE f == [st |-> op[w][j].st,
                        tuple |-> IF Mode(w, j) = "WRITE" /\ ~IsLocal(w, j) THEN txn[w]
                                  ELSE op[w][j].tuple,
                        last_acq |-> IF Id(w).valid THEN Id(w) ELSE op[w][j].last_acq]
      <4>1. puts' = puts /\ op' = [op EXCEPT ![w][j] = f]
        BY Zenon, <3>2, <3>7 DEF Access
      <4>2. f.st = op[w][j].st
        BY Zenon
      <4>. HIDE DEF f
      <4>. QED  BY Zenon, <2>2, <2>4, <4>1, <4>2
    <3>8. CASE Clear(w)
      <4>1. CASE op[w][j].st = "held" /\ IsLocal(w, j)
        <5>1. puts' = puts /\ op' = [op EXCEPT ![w][j] = moved(op[w][j], "clear")]
          BY Zenon, <3>2, <3>8, <4>1 DEF Clear
        <5>2. moved(op[w][j], "clear").st = "clear"
          BY Zenon, <3>3, MovedFacts DEF Status
        <5>. QED  BY ZenonT(30), <2>2, <2>4, <4>1, <5>1, <5>2
      <4>2. CASE op[w][j].st = "held" /\ ~IsLocal(w, j)
        <5>. DEFINE f == moved(op[w][j], "putreq")
        <5>1. puts' = [puts EXCEPT ![w] = puts[w] + 1] /\ op' = [op EXCEPT ![w][j] = f]
          BY Zenon, <3>2, <3>8, <4>2 DEF Clear, CountPut
        <5>2. f.st = "putreq"
          BY Zenon, <3>3, MovedFacts DEF Status
        <5>. HIDE DEF f
        <5>3. op'[w][j] = f /\ \A l \in 1 .. N_OPS : l # j => op'[w][l] = op[w][l]
          BY Zenon, <2>3, <5>1
        <5>4. j \notin Pending(w) /\ Pending(w)' = Pending(w) \cup {j}
          BY Zenon, <4>2, <5>2, <5>3 DEF Pending
        <5>5. Cardinality(Pending(w)') = Cardinality(Pending(w)) + 1
          BY Zenon, <2>3, <5>4 DEF FiniteSetFacts, AddFact
        <5>6. puts'[w] = puts[w] + 1 /\ puts[w] = Cardinality(Pending(w))
          BY Zenon, <2>3, <5>1 DEF IInv, PutsCounted, Pending
        <5>. QED  BY Zenon, <2>2, <5>5, <5>6
      <4>3. CASE op[w][j].st # "held"
        <5>1. puts' = puts /\ op' = op
          BY Zenon, <3>2, <3>8, <4>3 DEF Clear, lockVars
        <5>. QED  BY Zenon, <2>2, <2>5, <5>1
      <4>. QED  BY Zenon, <4>1, <4>2, <4>3
    <3>. QED  BY Zenon, <2>7, <3>4, <3>5, <3>6, <3>7, <3>8
  <2>8. CASE Finish(w)
    <3>1. puts' = puts /\ op'[w] = NewLog
      BY Zenon, <2>3, <2>8 DEF Finish
    <3>2. \A j \in 1 .. N_OPS : op'[w][j].st = "none"
      BY <3>1 DEF NewLog, NewFuture
    <3>3. Pending(w)' = {}
      BY Zenon, <3>2 DEF Pending
    <3>4. puts[w] = 0
      BY Zenon, <2>8 DEF Finish, AllAcked
    <3>. QED  BY Zenon, <2>2, <3>1, <3>3, <3>4 DEF FiniteSetFacts, EmptyFact
  <2>9. ASSUME NEW j \in 1 .. N_OPS, HandleGetReq(w, j) \/ HandlePutReq(w, j)
        PROVE  puts'[w] = Cardinality(Pending(w)')
    <3>1. op[w][j] \in Future /\ puts' = puts
      BY ZenonT(30), <2>3, <2>9 DEF HandleGetReq, HandlePutReq
    <3>2. moved(op[w][j], "putres").st = "putres" /\ moved(op[w][j], "getnak").st = "getnak"
      BY Zenon, <3>1, MovedFacts DEF Status
    <3>3. CASE HandleGetReq(w, j)
      <4>. DEFINE f == [st |-> "getres", tuple |-> row[Key(w, j)].tuple,
                        last_acq |-> row[Key(w, j)].last_acq]
      <4>1. op[w][j].st = "getreq"
        BY Zenon, <3>3 DEF HandleGetReq
      <4>2. op' = [op EXCEPT ![w][j] = f] \/ op' = [op EXCEPT ![w][j] = moved(op[w][j], "getnak")]
        BY Zenon, <3>3 DEF HandleGetReq
      <4>3. f.st = "getres"
        BY Zenon
      <4>. HIDE DEF f
      <4>. QED  BY Zenon, <2>4, <3>1, <3>2, <4>1, <4>2, <4>3
    <3>4. CASE HandlePutReq(w, j)
      <4>1. op[w][j].st = "putreq" /\ op' = [op EXCEPT ![w][j] = moved(op[w][j], "putres")]
        BY Zenon, <3>4 DEF HandlePutReq
      <4>. QED  BY Zenon, <2>4, <3>1, <3>2, <4>1
    <3>. QED  BY Zenon, <2>9, <3>3, <3>4
  <2>10. ASSUME NEW j \in 1 .. N_OPS, HandlePutRes(w, j)
         PROVE  puts'[w] = Cardinality(Pending(w)')
    <3>. DEFINE f == moved(op[w][j], "clear")
    <3>1. /\ puts' = [puts EXCEPT ![w] = puts[w] - 1] /\ op' = [op EXCEPT ![w][j] = f]
          /\ op[w][j].st = "putres"
      BY Zenon, <2>10 DEF HandlePutRes
    <3>2. f.st = "clear"
      BY Zenon, <2>3, MovedFacts DEF Status
    <3>. HIDE DEF f
    <3>3. op'[w][j] = f /\ \A l \in 1 .. N_OPS : l # j => op'[w][l] = op[w][l]
      BY Zenon, <2>3, <3>1
    <3>4. j \in Pending(w) /\ Pending(w)' = Pending(w) \ {j}
      BY Zenon, <3>1, <3>2, <3>3 DEF Pending
    <3>5. Cardinality(Pending(w)') = Cardinality(Pending(w)) - 1
      BY Zenon, <2>3, <3>4 DEF FiniteSetFacts, RemoveFact
    <3>6. puts'[w] = puts[w] - 1 /\ puts[w] = Cardinality(Pending(w))
      BY Zenon, <2>3, <3>1 DEF IInv, PutsCounted, Pending
    <3>. QED  BY Zenon, <3>5, <3>6
  <2>. QED  BY Zenon, <2>2, <2>6, <2>7, <2>8, <2>9, <2>10 DEF Step, Handle
\* A release, done or to come, is never from a mini-batch that some worker has
\* not entered: my_execute signs with a number that everybody has reached.
<1>AcqStep. ASSUME IInv, NEW w \in Workers, Step(w) \/ Handle(w)
       PROVE  AcqInv'
  <2>. USE <1>AcqStep
  <2>1. /\ AcqInv /\ BarrierInv /\ mb \in [Workers -> Nat]
        /\ row \in [Keys -> RowType(Nodes, Values)]
        /\ op \in [Workers -> [1 .. N_OPS -> Future]]
    BY Zenon DEF IInv, TypeOK
  <2>2. \A u \in Workers : mb'[u] \in Nat /\ mb'[u] >= mb[u]
    <3>1. mb' = mb \/ mb' = [mb EXCEPT ![w] = mb[w] + 1]
      BY Zenon DEF Step, Handle, RunTxn, EndMiniBatch, LeaveBarrier, EarlyTest, LocalLock, SendGetReq,
         AllLocked, Access, AllAccessed, Clear, AllCleared, Finish, HotPeriod, EnterLeftover,
         RunLeftover, NextBatch, HandleGetRes, HandleGetReq, HandlePutReq, HandlePutRes, loopVars
    <3>. QED  BY SMTT(30), <2>1, <3>1
  <2>3. ASSUME NEW u \in Workers, NEW k \in Keys
        PROVE  row'[k].last_acq.mini_batch_id <= mb[u]
    <3>1. row[k].last_acq.mini_batch_id <= mb[u]
      BY Zenon, <2>1 DEF AcqInv
    <3>2. CASE Keeps
      BY Zenon, <3>1, <3>2 DEF Keeps, SameLock
    <3>3. ASSUME NEW j \in 1 .. N_OPS, Grants(w, j) PROVE row'[k].last_acq = row[k].last_acq
      BY Zenon, <2>1, <3>3 DEF Grants, lock
    <3>4. ASSUME NEW j \in 1 .. N_OPS, Releases(w, j)
          PROVE  row'[k].last_acq.mini_batch_id <= mb[u]
      <4>1. op[w][j].last_acq.mini_batch_id <= mb[u]
        BY ZenonT(30), <2>1, <3>4 DEF AcqInv, Releases
      <4>. QED  BY Zenon, <3>1, <3>4, <4>1 DEF Releases
    <3>. QED  BY Zenon, <3>1, <3>2, <3>3, <3>4, StepKind
  <2>4. ASSUME NEW u \in Workers, NEW v \in Workers, NEW l \in 1 .. N_OPS, Holds(v, l)'
        PROVE  op'[v][l].last_acq.mini_batch_id <= mb[u]
    <3>1. ASSUME SameHolder(v, l) PROVE op'[v][l].last_acq.mini_batch_id <= mb[u]
      <4>1. CASE op'[v][l].last_acq = op[v][l].last_acq
        BY ZenonT(30), <2>1, <2>4, <3>1, <4>1 DEF SameHolder, AcqInv
      <4>2. CASE pc[v] = "access" /\ op'[v][l].last_acq = Id(v)
        BY <2>1, <4>2 DEF BarrierInv, Id
      <4>. QED  BY Zenon, <2>4, <3>1, <4>1, <4>2 DEF SameHolder
    <3>2. CASE Keeps
      BY Zenon, <3>1, <3>2 DEF Keeps
    <3>3. ASSUME NEW j \in 1 .. N_OPS, Grants(w, j)
          PROVE  op'[v][l].last_acq.mini_batch_id <= mb[u]
      <4>1. CASE v = w /\ l = j
        BY ZenonT(30), <2>1, <3>3, <4>1 DEF Grants, AcqInv
      <4>2. CASE v # w \/ l # j
        BY ZenonT(30), <3>1, <3>3, <4>2 DEF Grants
      <4>. QED  BY Zenon, <4>1, <4>2
    <3>4. ASSUME NEW j \in 1 .. N_OPS, Releases(w, j)
          PROVE  op'[v][l].last_acq.mini_batch_id <= mb[u]
      <4>1. v # w \/ l # j
        BY Zenon, <2>4, <3>4 DEF Releases
      <4>. QED  BY ZenonT(30), <3>1, <3>4, <4>1 DEF Releases
    <3>. QED  BY Zenon, <3>2, <3>3, <3>4, StepKind
  <2>5. TypeOK'
    BY Zenon, TypeStep DEF Next
  <2>6. \A u \in Workers : mb'[u] > 0
    BY Zenon, <2>1, <2>2, Numbers DEF AcqInv
  <2>7. \A u \in Workers : \A k \in Keys : row'[k].last_acq.mini_batch_id <= mb'[u]
    <3>1. \A k \in Keys : row'[k].last_acq.mini_batch_id \in Nat
      BY Zenon, <2>5 DEF TypeOK, RowType, TxnId
    <3>. QED  BY <2>1, <2>2, <2>3, <3>1
  <2>8. \A u, v \in Workers : \A l \in 1 .. N_OPS :
           Holds(v, l)' => op'[v][l].last_acq.mini_batch_id <= mb'[u]
    <3>1. \A v \in Workers, l \in 1 .. N_OPS : op'[v][l].last_acq.mini_batch_id \in Nat
      BY Zenon, <2>5 DEF TypeOK, Future, TxnId
    <3>. QED  BY SMTT(30), <2>1, <2>2, <2>4, <3>1
  <2>. QED  BY Zenon, <2>6, <2>7, <2>8 DEF AcqInv
\* When it does, it alone holds every row it has written, and has signed it.
<1>WriterHolds. ASSUME IInv, NEW w \in Workers, AllAccessed(w), phase[w] # "left",
                NEW k \in WrittenKeys(txn[w])
       PROVE  /\ k \in Keys /\ row[k].lock_type = "WRITE"
              /\ Holders(k) # {}
              /\ \A h \in Holders(k) : op[h[1]][h[2]].last_acq = Id(w)
  <2>. USE <1>WriterHolds
  <2>1. pc[w] = "access" /\ pc[w] \in Busy /\ i[w] > Len(Ops(w))
    BY Zenon DEF AllAccessed, Busy
  <2>2. /\ OwnTxns(w) /\ HolderInv(w) /\ i[w] \in Nat /\ Len(Ops(w)) \in Nat /\ Len(Ops(w)) <= N_OPS
        /\ TypeOK /\ N_OPS \in Nat /\ \A j \in 1 .. N_OPS : LogEntry(w, j)
    BY Zenon, <2>1, BusyBefore
  <2>3. Ops(w) = cold_ops[txn[w]] /\ Ops(w) \in Seq(Op)
    BY Zenon, <2>1, <2>2, BusyFacts DEF OwnTxns, Ops, ops
  <2>4. PICK p \in DOMAIN Ops(w) : Ops(w)[p].mode = "WRITE" /\ Ops(w)[p].key = k
    BY Zenon, <2>3 DEF WrittenKeys, Range
  <2>5. p \in Nat /\ p >= 1 /\ p <= Len(Ops(w))
    BY <2>3
  <2>6. p \in 1 .. N_OPS /\ p < i[w]
    BY <2>1, <2>2, <2>5
  <2>7. Key(w, p) = k /\ Mode(w, p) = "WRITE"
    BY Zenon, <2>4 DEF Key, Mode
  <2>8. Holds(w, p)
    BY Zenon, <2>1, <2>2, <2>5, <2>6 DEF LogEntry, Entry, Remote, Holds
  <2>9. <<w, p>> \in Holders(k) /\ row[k].lock_type = "WRITE" /\ k \in Keys
    BY Zenon, <2>6, <2>7, <2>8, HeldRow, AtMsg DEF Holds
  <2>10. row[k].owner_cnt = Cardinality(Holders(k)) /\ row[k].owner_cnt = 1
    BY Zenon, <2>9 DEF IInv, LockInv
  <2>11. \A h \in Holders(k) : h = <<w, p>>
    <3>1. IsFiniteSet(Holders(k)) /\ Cardinality(Holders(k)) = 1
      BY Zenon, <2>10, HoldersFinite
    <3>2. PICK g : Holders(k) = {g}
      BY Zenon, <3>1 DEF FiniteSetFacts, SingletonFact
    <3>. QED  BY Zenon, <2>9, <3>2
  <2>12. op[w][p].last_acq = Id(w)
    BY Zenon, <2>1, <2>2, <2>6 DEF HolderInv
  <2>. QED  BY <2>9, <2>11, <2>12
\* Every step keeps what the slots say of the rows.
<1>SlotStep. ASSUME IInv, NEW w \in Workers, Step(w) \/ Handle(w)
       PROVE  SlotInv'
     \* An entry signed by a holder stays after whatever it was after: the flow
     \* order let the holder in, and no release is from a later mini-batch.
  <2>. USE <1>SlotStep
  <2>AfterHolder. ASSUME NEW v \in Workers, NEW l \in 1 .. N_OPS, Holds(v, l), SameHolder(v, l),
                  NEW n \in Nodes, NEW m \in Nat, After(op[v][l].last_acq, n, m)
         PROVE  After(op'[v][l].last_acq, n, m)
    <3>. USE <2>AfterHolder
    <3>1. CASE op'[v][l].last_acq = op[v][l].last_acq
      BY Zenon, <3>1
    <3>2. CASE /\ pc[v] = "access" /\ phase[v] # "left"
               /\ op'[v][l].last_acq = Id(v)
      <4>. DEFINE o == op[v][l].last_acq
      <4>1. o.mini_batch_id # mb[v] \/ o.node_id = node_id[v]
        BY Zenon, <3>2 DEF IInv, WorkerInv, HolderInv
      <4>2. o.mini_batch_id <= mb[v]
        BY Zenon DEF IInv, AcqInv
      <4>3. mb[v] \in Nat /\ o.mini_batch_id \in Nat
        BY Zenon DEF IInv, TypeOK, Future, TxnId
      <4>4. Id(v).mini_batch_id = mb[v] /\ Id(v).node_id = node_id[v]
        BY Zenon, <3>2 DEF Id
      <4>5. o.mini_batch_id > m \/ (o.mini_batch_id = m /\ o.node_id = n)
        BY Zenon DEF After
      <4>. HIDE DEF o
      <4>6. mb[v] > m \/ (mb[v] = m /\ node_id[v] = n)
        BY <4>1, <4>2, <4>3, <4>5
      <4>. QED  BY Zenon, <3>2, <4>4, <4>6 DEF After
    <3>. QED  BY Zenon, <3>1, <3>2 DEF SameHolder
\* The rows of an old slot, in a step of any of the three kinds.
  <2>OldSlot. ASSUME NEW n \in Nodes, NEW e \in Slots(n),
                  NEW k \in Keys, k \in WrittenKeys(e.txn)
         PROVE  /\ row'[k].lock_type # "WRITE" => After(row'[k].last_acq, n, e.mini_batch_num)
                /\ \A h \in Holders(k)' : After(op'[h[1]][h[2]].last_acq, n, e.mini_batch_num)
    <3>. USE <2>OldSlot
    <3>. DEFINE m == e.mini_batch_num
    <3>1. /\ row[k].lock_type # "WRITE" => After(row[k].last_acq, n, m)
          /\ \A h \in Holders(k) : After(op[h[1]][h[2]].last_acq, n, m)
      BY Zenon DEF IInv, SlotInv
    <3>2. m \in Nat
      <4>1. hot_send_q[n] \in Seq(Counted)
        BY Zenon DEF IInv, TypeOK
      <4>2. e \in Counted
        BY <4>1 DEF Slots, Range
      <4>. QED  BY Zenon, <4>2 DEF Counted
    <3>3. ASSUME NEW v \in Workers, NEW l \in 1 .. N_OPS, SameHolder(v, l), <<v, l>> \in Holders(k)
          PROVE  After(op'[v][l].last_acq, n, m)
      <4>1. Holds(v, l)
        BY Zenon, <3>3 DEF Holders
      <4>2. After(op[v][l].last_acq, n, m)
        BY Zenon, <3>1, <3>3
      <4>. QED  BY Zenon, <3>2, <3>3, <4>1, <4>2, <2>AfterHolder
    <3>4. \A h \in Holders(k) : h[1] \in Workers /\ h[2] \in 1 .. N_OPS /\ h = <<h[1], h[2]>>
      BY DEF Holders
    <3>. HIDE DEF m
    <3>5. CASE Keeps
      <4>1. Holders(k)' = Holders(k)
        BY Zenon, <3>5, <1>HoldersKeep
      <4>2. row'[k].lock_type = row[k].lock_type /\ row'[k].last_acq = row[k].last_acq
        BY Zenon, <3>5 DEF Keeps, SameLock
      <4>3. \A v \in Workers, l \in 1 .. N_OPS : SameHolder(v, l)
        BY Zenon, <3>5 DEF Keeps
      <4>. QED  BY Zenon, <3>1, <3>3, <3>4, <4>1, <4>2, <4>3 DEF m
    <3>6. ASSUME NEW j \in 1 .. N_OPS, Grants(w, j)
          PROVE  /\ row'[k].lock_type # "WRITE" => After(row'[k].last_acq, n, m)
                 /\ \A h \in Holders(k)' : After(op'[h[1]][h[2]].last_acq, n, m)
      <4>1. \A v \in Workers, l \in 1 .. N_OPS : v # w \/ l # j => SameHolder(v, l)
        BY Zenon, <3>6 DEF Grants
      <4>2. /\ Holders(k)' = IF k = Key(w, j) THEN Holders(k) \cup {<<w, j>>} ELSE Holders(k)
            /\ <<w, j>> \notin Holders(k)
        BY Zenon, <3>6, <1>HoldersGrant
      <4>3. \A h \in Holders(k) : After(op'[h[1]][h[2]].last_acq, n, m)
        BY ZenonT(60), <3>3, <3>4, <4>1, <4>2
      <4>4. CASE k # Key(w, j)
        <5>1. row'[k] = row[k]
          BY Zenon, <3>6, <4>4 DEF Grants, IInv, TypeOK
        <5>. QED  BY Zenon, <3>1, <4>2, <4>3, <4>4, <5>1
      <4>5. CASE k = Key(w, j)
        <5>1. /\ row' = [row EXCEPT ![k] = lock(row[k], Mode(w, j))]
              /\ may_lock(row[k], Mode(w, j), Id(w)) /\ op'[w][j].last_acq = row[k].last_acq
          BY Zenon, <3>6, <4>5 DEF Grants
        <5>2. row \in [Keys -> RowType(Nodes, Values)]
          BY Zenon DEF IInv, TypeOK
        <5>3. row[k].lock_type # "WRITE"
          BY Zenon, <5>1 DEF may_lock, is_compatible
        <5>4. row'[k].last_acq = row[k].last_acq
          BY Zenon, <5>1, <5>2 DEF lock, RowType
        <5>5. After(row'[k].last_acq, n, m) /\ After(op'[w][j].last_acq, n, m)
          BY Zenon, <3>1, <5>1, <5>3, <5>4
        <5>6. <<w, j>>[1] = w /\ <<w, j>>[2] = j
          BY Zenon
        <5>. QED  BY Zenon, <4>2, <4>3, <5>5, <5>6
      <4>. QED  BY Zenon, <4>4, <4>5
    <3>7. ASSUME NEW j \in 1 .. N_OPS, Releases(w, j)
          PROVE  /\ row'[k].lock_type # "WRITE" => After(row'[k].last_acq, n, m)
                 /\ \A h \in Holders(k)' : After(op'[h[1]][h[2]].last_acq, n, m)
      <4>1. \A v \in Workers, l \in 1 .. N_OPS : v # w \/ l # j => SameHolder(v, l)
        BY Zenon, <3>7 DEF Releases
      <4>2. /\ Holders(k)' = IF k = Key(w, j) THEN Holders(k) \ {<<w, j>>} ELSE Holders(k)
            /\ <<w, j>> \in Holders(k) <=> k = Key(w, j)
        BY Zenon, <3>7, <1>HoldersRelease
      <4>3. \A h \in Holders(k)' : After(op'[h[1]][h[2]].last_acq, n, m)
        BY ZenonT(60), <3>3, <3>4, <4>1, <4>2
      <4>4. CASE k # Key(w, j)
        <5>1. row'[k] = row[k]
          BY Zenon, <3>7, <4>4 DEF Releases
        <5>. QED  BY Zenon, <3>1, <4>3, <5>1
      <4>5. CASE k = Key(w, j)
        <5>1. row'[k].last_acq = op[w][j].last_acq
          BY Zenon, <3>7, <4>5 DEF Releases
        <5>2. After(op[w][j].last_acq, n, m)
          BY Zenon, <3>1, <4>2, <4>5
        <5>. QED  BY Zenon, <4>3, <5>1, <5>2
      <4>. QED  BY Zenon, <4>4, <4>5
    <3>. QED  BY Zenon, <3>5, <3>6, <3>7, StepKind DEF m
\* A slot's transaction writes keys that exist.
  <2>SlotKeys. ASSUME TypeOK, NEW n \in Nodes, NEW e \in Slots(n)
         PROVE  WrittenKeys(e.txn) \subseteq Keys
    <3>. USE <2>SlotKeys
    <3>1. hot_send_q[n] \in Seq(Counted)
      BY Zenon DEF TypeOK
    <3>2. e \in Counted
      BY <3>1 DEF Slots, Range
    <3>3. cold_ops[e.txn] \in Seq(Op)
      BY Zenon, <3>2, ConstantsAssumption DEF Counted
    <3>4. Range(cold_ops[e.txn]) \subseteq Op
      BY SMTT(30), <3>3 DEF Range
    <3>. QED  BY Zenon, <3>4 DEF WrittenKeys, Op
  <2>. SUFFICES ASSUME NEW n \in Nodes, NEW e \in Slots(n)', NEW k \in WrittenKeys(e.txn)
                PROVE  /\ row'[k].lock_type # "WRITE" => After(row'[k].last_acq, n, e.mini_batch_num)
                       /\ \A h \in Holders(k)' :
                            After(op'[h[1]][h[2]].last_acq, n, e.mini_batch_num)
    BY Zenon DEF SlotInv, WrittenKeys, After
  <2>1. CASE e \in Slots(n)
    <3>1. k \in Keys
      BY Zenon, <2>1, <2>SlotKeys DEF IInv
    <3>. QED  BY Zenon, <2>1, <3>1, <2>OldSlot
  <2>2. CASE /\ AllAccessed(w) /\ phase[w] # "left" /\ n = node_id[w]
             /\ e = [txn |-> txn[w], mini_batch_num |-> mb[w]]
    <3>1. k \in WrittenKeys(txn[w]) /\ e.mini_batch_num = mb[w]
      BY Zenon, <2>2
    <3>3. /\ row[k].lock_type = "WRITE"
          /\ \A h \in Holders(k) : op[h[1]][h[2]].last_acq = Id(w)
      BY Zenon, <2>2, <3>1, <1>WriterHolds
    <3>4. row' = row /\ op' = op /\ txn' = txn /\ do_accel' = do_accel
      BY Zenon, <2>2 DEF AllAccessed, txnVars, lockVars
    <3>5. Holders(k)' = Holders(k)
      BY Zenon, <3>4 DEF Holders, Holds, Key, Ops, ops
    <3>6. After(Id(w), n, mb[w])
      BY ZenonT(30), <2>2 DEF After, Id
    <3>. QED  BY Zenon, <3>1, <3>3, <3>4, <3>5, <3>6
  <2>. QED  BY Zenon, <2>1, <2>2, SlotsStep
\* Every step keeps the writes of one mini-batch disjoint.
<1>DisjointStep. ASSUME IInv, NEW w \in Workers, Step(w) \/ Handle(w)
       PROVE  WritesDisjoint'
     \* A new slot and one of another node in its mini-batch: the writer's own id
     \* would come after the other one's.
  <2>. USE <1>DisjointStep
  <2>NewDisjoint. ASSUME AllAccessed(w), phase[w] # "left",
                  NEW n \in Nodes, n # node_id[w], NEW e \in Slots(n), e.mini_batch_num = mb[w]
         PROVE  WrittenKeys(txn[w]) \cap WrittenKeys(e.txn) = {}
    <3>. USE <2>NewDisjoint
    <3>. SUFFICES ASSUME NEW k \in WrittenKeys(txn[w]), k \in WrittenKeys(e.txn) PROVE FALSE
      BY Zenon
    <3>1. PICK h \in Holders(k) : op[h[1]][h[2]].last_acq = Id(w)
      BY Zenon, <1>WriterHolds
    <3>2. After(Id(w), n, mb[w])
      BY Zenon, <3>1 DEF IInv, SlotInv
    <3>3. mb[w] \in Nat
      BY Zenon DEF IInv, TypeOK
    <3>. QED  BY SMTT(30), <3>2, <3>3 DEF After, Id
  <2>. SUFFICES ASSUME NEW n1 \in Nodes, NEW n2 \in Nodes, n1 # n2,
                       NEW e1 \in Slots(n1)', NEW e2 \in Slots(n2)',
                       e1.mini_batch_num = e2.mini_batch_num
                PROVE  WrittenKeys(e1.txn) \cap WrittenKeys(e2.txn) = {}
    BY Zenon DEF WritesDisjoint, WrittenKeys
  <2>. DEFINE New(n, e) == /\ AllAccessed(w) /\ phase[w] # "left" /\ n = node_id[w]
                           /\ e = [txn |-> txn[w], mini_batch_num |-> mb[w]]
  <2>1. (e1 \in Slots(n1) \/ New(n1, e1)) /\ (e2 \in Slots(n2) \/ New(n2, e2))
    BY Zenon, SlotsStep
  <2>2. CASE e1 \in Slots(n1) /\ e2 \in Slots(n2)
    BY Zenon, <2>2 DEF IInv, WritesDisjoint
  <2>3. CASE New(n1, e1) /\ e2 \in Slots(n2)
    <3>1. e1.txn = txn[w] /\ e2.mini_batch_num = mb[w] /\ n2 # node_id[w]
      BY Zenon, <2>3
    <3>2. WrittenKeys(txn[w]) \cap WrittenKeys(e2.txn) = {}
      BY Zenon, <2>3, <3>1, <2>NewDisjoint
    <3>. QED  BY Zenon, <3>1, <3>2
  <2>4. CASE New(n2, e2) /\ e1 \in Slots(n1)
    <3>1. e2.txn = txn[w] /\ e1.mini_batch_num = mb[w] /\ n1 # node_id[w]
      BY Zenon, <2>4
    <3>2. WrittenKeys(txn[w]) \cap WrittenKeys(e1.txn) = {}
      BY Zenon, <2>4, <3>1, <2>NewDisjoint
    <3>. QED  BY Zenon, <3>1, <3>2
  <2>. QED  BY Zenon, <2>1, <2>2, <2>3, <2>4
<1>. SUFFICES ASSUME IInv, [Next]_vars PROVE IInv'
  BY Zenon
<1>1. ASSUME NEW w \in Workers, Step(w) \/ Handle(w) PROVE IInv'
  <2>1. TypeOK'
    BY Zenon, TypeStep
  <2>2. \A v \in Workers : WorkerInv(v)'
    BY Zenon, <1>1, WorkersStep
  <2>3. LockInv' /\ PutsCounted'
    BY Zenon, <1>1, <1>LockStep, <1>PutsStep
  <2>4. BarrierInv' /\ AcqInv'
    BY Zenon, <1>1, BarrierStep, <1>AcqStep
  <2>5. SlotInv' /\ WritesDisjoint'
    BY Zenon, <1>1, <1>SlotStep, <1>DisjointStep
  <2>. QED  BY Zenon, <2>1, <2>2, <2>3, <2>4, <2>5 DEF IInv
<1>2. CASE UNCHANGED vars
  <2>1. TypeOK'
    BY Zenon, TypeStep
  <2>2. /\ UNCHANGED <<row, op, puts, phase, mb, q, leftover>>
        /\ UNCHANGED <<txn, do_accel, pc, i, hot_send_q>>
    BY Zenon, <1>2 DEF vars
  <2>3. \A v \in Workers : WorkerInv(v)'
    <3>1. \A v \in Workers : OwnTxns(v) /\ IndexInv(v) /\ LogInv(v) /\ HolderInv(v)
      BY Zenon DEF IInv, WorkerInv
    <3>2. \A v \in Workers : OwnTxns(v)'
      BY Zenon, <2>2, <3>1 DEF OwnTxns
    <3>3. \A v \in Workers : IndexInv(v)'
      BY ZenonT(30), <2>2, <3>1 DEF IndexInv, IsLocal, Key, Ops, ops
    <3>4. \A v \in Workers : LogInv(v)'
      <4>1. \A v : Ops(v)' = Ops(v)
        BY Zenon, <2>2 DEF Ops, ops
      <4>2. \A v, j : IsLocal(v, j)' <=> IsLocal(v, j)
        BY Zenon, <4>1 DEF IsLocal, Key
      <4>3. \A v \in Workers : \A j \in 1 .. N_OPS : LogEntry(v, j)'
        <5>. SUFFICES ASSUME NEW v \in Workers, NEW j \in 1 .. N_OPS PROVE LogEntry(v, j)'
          BY Zenon
        <5>1. /\ pc'[v] = pc[v] /\ i'[v] = i[v] /\ op'[v][j].st = op[v][j].st
              /\ Len(Ops(v))' = Len(Ops(v))
          BY Zenon, <2>2, <4>1
        <5>2. LogEntry(v, j)
          BY Zenon, <3>1 DEF LogInv
        <5>3. Entry(pc'[v], i'[v], j, op'[v][j].st, Len(Ops(v))')
          BY Zenon, <5>1, <5>2 DEF LogEntry
        <5>4. op'[v][j].st \in Remote => ~IsLocal(v, j)'
          BY Zenon, <5>1, <5>2, <4>2 DEF LogEntry
        <5>. QED  BY Zenon, <5>3, <5>4 DEF LogEntry, Entry, Remote
      <4>. QED  BY Zenon, <4>3 DEF LogInv
    <3>5. \A v \in Workers : HolderInv(v)'
      BY Zenon, <2>2, <3>1 DEF HolderInv, Holds, Id
    <3>. QED  BY Zenon, <3>2, <3>3, <3>4, <3>5 DEF WorkerInv
  <2>4. /\ \A k : Holders(k)' = Holders(k)
        /\ \A v, j : (Holds(v, j)' <=> Holds(v, j)) /\ Mode(v, j)' = Mode(v, j)
    BY ZenonT(30), <2>2 DEF Holders, Holds, Key, Mode, Ops, ops
  <2>5. LockInv'
    BY Zenon, <2>2, <2>4 DEF IInv, LockInv
  <2>6. PutsCounted'
    BY Zenon, <2>2 DEF IInv, PutsCounted
  <2>7. BarrierInv'
    BY Zenon, <2>2 DEF IInv, BarrierInv
  <2>8. AcqInv'
    BY Zenon, <2>2 DEF IInv, AcqInv, Holds
  <2>9. SlotInv'
    BY Zenon, <2>2, <2>4 DEF IInv, SlotInv, Slots
  <2>10. WritesDisjoint'
    <3>1. WritesDisjoint
      BY Zenon DEF IInv
    <3>2. \A n \in Nodes : Slots(n)' = Slots(n)
      BY Zenon, <2>2 DEF Slots
    <3>3. SUFFICES ASSUME NEW n1 \in Nodes, NEW n2 \in Nodes, n1 # n2,
                          NEW e1 \in Slots(n1)', NEW e2 \in Slots(n2)',
                          e1.mini_batch_num = e2.mini_batch_num
                   PROVE  WrittenKeys(e1.txn) \cap WrittenKeys(e2.txn) = {}
      BY Zenon DEF WritesDisjoint
    <3>4. e1 \in Slots(n1) /\ e2 \in Slots(n2)
      BY Zenon, <3>2
    <3>. QED  BY Zenon, <3>1, <3>3, <3>4 DEF WritesDisjoint
  <2>. QED  BY Zenon, <2>1, <2>3, <2>5, <2>6, <2>7, <2>8, <2>9, <2>10 DEF IInv
<1>3. CASE Terminated
  BY Zenon, <1>2, <1>3 DEF Terminated
<1>. QED  BY Zenon, <1>1, <1>2, <1>3 DEF Next

\* The invariant says that the assert of mb_allow_lock holds.
LEMMA AllowLockMeans == IInv => MbInOrder
<1>. SUFFICES ASSUME IInv, NEW w \in Workers, NEW j \in 1 .. N_OPS, AtAllowLock(w, j)
              PROVE  mb_in_order(row[Key(w, j)], Id(w))
  BY Zenon DEF MbInOrder
<1>1. Key(w, j) \in Keys
  <2>1. CASE op[w][j].st = "getreq"
    BY Zenon, <2>1, AtMsg
  <2>2. CASE pc[w] = "mutex" /\ j = i[w]
    <3>1. pc[w] \in Busy /\ i[w] <= Len(Ops(w))
      BY Zenon, <2>2 DEF Busy, IInv, WorkerInv, IndexInv
    <3>. QED  BY Zenon, <2>2, <3>1, AtOp
  <2>. QED  BY Zenon, <2>1, <2>2 DEF AtAllowLock
<1>2. /\ row[Key(w, j)].last_acq.mini_batch_id <= mb[w]
      /\ mb[w] \in Nat /\ row[Key(w, j)].last_acq.mini_batch_id \in Nat
  BY Zenon, <1>1 DEF IInv, AcqInv, TypeOK, RowType, TxnId
<1>. QED  BY Zenon, <1>2 DEF mb_in_order, Id

\* The invariant says that an answer finds its worker.
LEMMA AnswersMeans == IInv => AnswerAwaited
<1>. SUFFICES ASSUME IInv, NEW w \in Workers, NEW j \in 1 .. N_OPS
              PROVE  op[w][j].st \in {"getreq", "getres", "getnak"}
                       <=> pc[w] = "wait" /\ j = i[w]
  BY Zenon DEF AnswerAwaited
<1>1. LogEntry(w, j)
  BY Zenon DEF IInv, WorkerInv, LogInv
<1>2. i[w] \in Nat /\ j \in Nat /\ pc[w] \in PC
  BY SMTT(30), NOpsNat DEF IInv, TypeOK
<1>3. pc[w] \in Busy => Len(Ops(w)) \in Nat
  BY Zenon, BusyBefore
<1>. QED  BY SMTT(30), <1>1, <1>2, <1>3 DEF LogEntry, Entry, Remote, Busy, PC

-----------------------------------------------------------------------------
(* The copies that remote locks brought.                                    *)

\* The entry was a copy still to be written before the step, of the same row.
Carries(v, l) ==
  Holds(v, l)' /\ ~IsLocal(v, l)' /\ ~Written(v, l)' =>
    /\ Holds(v, l) /\ ~IsLocal(v, l) /\ ~Written(v, l)
    /\ Key(v, l)' = Key(v, l) /\ op'[v][l].tuple = op[v][l].tuple

\* Operation j of w had k's write lock, and writes the row of its own node or
\* releases the row.
WrittenBy(w, j, k) ==
  /\ Holds(w, j) /\ Mode(w, j) = "WRITE" /\ Key(w, j) = k
  /\ (Access(w) /\ j = i[w] /\ IsLocal(w, j)) \/ ~Holds(w, j)'

\* A writer is the only holder of its row.
LEMMA SoleWriter ==
  ASSUME FiniteSetFacts, IInv, NEW w \in Workers, NEW j \in 1 .. N_OPS, Holds(w, j), Mode(w, j) = "WRITE",
         NEW v \in Workers, NEW l \in 1 .. N_OPS, Holds(v, l), Key(v, l) = Key(w, j)
  PROVE  v = w /\ l = j
<1>. DEFINE H == Holders(Key(w, j))
<1>1. <<w, j>> \in H /\ <<v, l>> \in H /\ row[Key(w, j)].lock_type = "WRITE"
  BY Zenon, HeldRow
<1>2. Key(w, j) \in Keys
  BY Zenon, AtMsg DEF Holds
<1>3. Cardinality(H) = 1
  BY Zenon, <1>1, <1>2 DEF IInv, LockInv
<1>4. IsFiniteSet(H)
  BY Zenon, HoldersFinite
<1>. HIDE DEF H
<1>5. PICK h : H = {h}
  BY Zenon, <1>3, <1>4 DEF FiniteSetFacts, SingletonFact
<1>6. <<v, l>> = <<w, j>>
  BY Zenon, <1>1, <1>5
<1>. QED  BY Zenon, <1>6

\* A step of w that stays with its transaction: an entry that keeps its copy,
\* and is not marked as unwritten by the step.
LEMMA SelfCarries ==
  ASSUME NEW w \in Workers, NEW l \in 1 .. N_OPS, txn' = txn, do_accel' = do_accel,
         Holds(w, l)' /\ ~IsLocal(w, l)' /\ ~Written(w, l)' => Holds(w, l) /\ op'[w][l].tuple = op[w][l].tuple,
         \/ pc[w] \in {"lock", "mutex", "wait"}
         \/ UNCHANGED <<pc, i, rc>>
         \/ pc[w] = "clear" /\ pc'[w] \in {"clear", "puts"} /\ rc' = rc
  PROVE  Carries(w, l)
<1>1. /\ Key(w, l)' = Key(w, l) /\ Mode(w, l)' = Mode(w, l)
      /\ IsLocal(w, l)' <=> IsLocal(w, l)
  BY Zenon DEF Key, Mode, Ops, ops, IsLocal
<1>2. ~Written(w, l)' => ~Written(w, l)
  BY Zenon, <1>1 DEF Written
<1>. QED  BY Zenon, <1>1, <1>2 DEF Carries

\* Undolog::clear changes no tuple.
LEMMA ClearCarries ==
  ASSUME FiniteSetFacts, IInv, NEW w \in Workers, Clear(w), NEW l \in 1 .. N_OPS
  PROVE  Carries(w, l) /\ \A k \in Keys : row'[k].tuple = row[k].tuple
<1>1. /\ pc[w] = "clear" /\ pc[w] \in Busy /\ txn' = txn /\ do_accel' = do_accel
      /\ i[w] <= Len(Ops(w)) /\ pc' = pc /\ rc' = rc
  BY Zenon DEF Clear, Busy, txnVars
<1>2. op \in [Workers -> [1 .. N_OPS -> Future]] /\ row \in [Keys -> RowType(Nodes, Values)]
  BY Zenon DEF IInv, TypeOK
<1>3. PICK j \in 1 .. N_OPS : j = i[w]
  BY Zenon, <1>1, AtOp
<1>. DEFINE k == Key(w, j)
            e == unlock(row[k], Mode(w, j), op[w][j].last_acq)
<1>4. op[w][j] \in Future /\ row[k] \in RowType(Nodes, Values) /\ k \in Keys
  BY Zenon, <1>1, <1>3, AtOp
<1>5. /\ moved(op[w][j], "clear").st = "clear"
      /\ moved(op[w][j], "putreq").tuple = op[w][j].tuple
  BY Zenon, <1>4, MovedFacts DEF Status
<1>6. \/ op[w][j].st = "held" /\ op' = [op EXCEPT ![w][j] = moved(op[w][j], "clear")]
      \/ op[w][j].st = "held" /\ op' = [op EXCEPT ![w][j] = moved(op[w][j], "putreq")]
      \/ op' = op
  BY Zenon, <1>3 DEF Clear, lockVars
<1>7. Holds(w, l)' => Holds(w, l) /\ op'[w][l].tuple = op[w][l].tuple
  BY Zenon, <1>2, <1>5, <1>6 DEF Holds
<1>8. Carries(w, l)
  BY Zenon, <1>1, <1>7, SelfCarries
<1>9. row' = row \/ (op[w][j].st = "held" /\ row' = [row EXCEPT ![k] = e])
  BY Zenon, <1>3 DEF Clear, lockVars
<1>10. op[w][j].st = "held" => e.tuple = row[k].tuple
  <2>1. op[w][j].st = "held" => row[k].lock_type = Mode(w, j)
    BY Zenon, HeldRow DEF Holds
  <2>2. op[w][j].st = "held" => Unlocked(e, row[k], op[w][j].last_acq)
    BY Zenon, <1>4, <2>1, UnlockFacts
  <2>. HIDE DEF e, k
  <2>. QED  BY Zenon, <2>2 DEF Unlocked
<1>. HIDE DEF e
<1>11. ASSUME NEW kk \in Keys PROVE row'[kk].tuple = row[kk].tuple
  BY Zenon, <1>2, <1>4, <1>9, <1>10
<1>. QED  BY Zenon, <1>8, <1>11

\* Every step carries the copies over, or brings a fresh one, and writes a row
\* only through its write lock.
LEMMA StepCarries ==
  ASSUME FiniteSetFacts, IInv, NEW w \in Workers, Step(w) \/ Handle(w), NEW v \in Workers, NEW l \in 1 .. N_OPS
  PROVE  /\ \/ Carries(v, l)
            \/ Key(v, l) \in Keys /\ Key(v, l)' = Key(v, l) /\ op'[v][l].tuple = row[Key(v, l)].tuple
               /\ \A k \in Keys : row'[k].tuple = row[k].tuple
         /\ \A k \in Keys : \/ row'[k].tuple = row[k].tuple
                            \/ \E m \in 1 .. N_OPS : WrittenBy(w, m, k)
\* Entries of the other workers.
<1>OtherCarries. ASSUME v # w
       PROVE  Carries(v, l)
  <2>. USE <1>OtherCarries
  <2>1. /\ pc'[v] = pc[v] /\ i'[v] = i[v] /\ rc'[v] = rc[v] /\ op'[v] = op[v]
        /\ pc[v] \in Busy => Ops(v)' = Ops(v)
    BY Zenon, Others
  <2>2. Holds(v, l) => pc[v] \in Busy
    BY Zenon, AtMsg DEF Holds
  <2>. QED  BY Zenon, <2>1, <2>2 DEF Carries, Holds, Written, IsLocal, Key, Mode
\* The steps that leave rows and logs alone.
<1>IdleCarries. ASSUME \/ (\E n \in Queues : RunTxn(w, n)) \/ EndMiniBatch(w) \/ LeaveBarrier(w)
                \/ EarlyTest(w) \/ AllLocked(w) \/ AllAccessed(w) \/ AllCleared(w)
                \/ HotPeriod(w) \/ EnterLeftover(w) \/ RunLeftover(w) \/ NextBatch(w)
       PROVE  Carries(w, l) /\ row' = row
  <2>. USE <1>IdleCarries
  <2>1. row' = row /\ op' = op
    BY ZenonT(30) DEF RunTxn, EndMiniBatch, LeaveBarrier, EarlyTest, AllLocked, AllAccessed, AllCleared,
       HotPeriod, EnterLeftover, RunLeftover, NextBatch, lockVars
  <2>2. CASE pc[w] \notin Busy
    <3>1. op[w][l].st = "none"
      BY Zenon, <2>2, AtMsg
    <3>. QED  BY Zenon, <2>1, <3>1 DEF Carries, Holds
  <2>3. CASE pc[w] \in Busy
    <3>1. EarlyTest(w) \/ AllLocked(w) \/ AllAccessed(w) \/ AllCleared(w)
      BY Zenon, <2>3 DEF RunTxn, EndMiniBatch, LeaveBarrier, HotPeriod, EnterLeftover, RunLeftover,
         NextBatch, Busy
    <3>2. txn' = txn /\ do_accel' = do_accel
      BY Zenon, <3>1 DEF EarlyTest, AllLocked, AllAccessed, AllCleared, txnVars
    <3>3. CASE EarlyTest(w) \/ AllLocked(w)
      <4>1. pc[w] = "lock"
        BY Zenon, <3>3 DEF EarlyTest, AllLocked
      <4>. QED  BY Zenon, <2>1, <3>2, <4>1, SelfCarries DEF Holds
    <3>4. CASE AllCleared(w)
      <4>1. pc[w] = "clear" /\ pc'[w] = "puts" /\ rc' = rc
        BY Zenon, <2>3, <3>4, BusyBefore DEF AllCleared, txnVars
      <4>. QED  BY Zenon, <2>1, <3>2, <4>1, SelfCarries DEF Holds
    <3>5. CASE AllAccessed(w)
      <4>1. pc[w] = "access" /\ pc'[w] = "clear" /\ rc'[w] = "COMMIT"
        BY Zenon, <2>3, <3>5, BusyBefore DEF AllAccessed, TypeOK
      <4>2. /\ Key(w, l)' = Key(w, l) /\ Mode(w, l)' = Mode(w, l)
            /\ IsLocal(w, l)' <=> IsLocal(w, l)
        BY Zenon, <3>2 DEF Key, Mode, Ops, ops, IsLocal
      <4>3. ~Written(w, l)' => ~Written(w, l)
        BY Zenon, <4>1, <4>2 DEF Written
      <4>. QED  BY Zenon, <2>1, <4>2, <4>3 DEF Carries, Holds
    <3>. QED  BY Zenon, <3>1, <3>3, <3>4, <3>5
  <2>. QED  BY Zenon, <2>1, <2>2, <2>3
\* local_lock logs an entry of its own node.
<1>LocalLockCarries. ASSUME LocalLock(w)
       PROVE  Carries(w, l) /\ \A k \in Keys : row'[k].tuple = row[k].tuple
  <2>. USE <1>LocalLockCarries
  <2>1. /\ pc[w] = "mutex" /\ pc[w] \in Busy /\ txn' = txn /\ do_accel' = do_accel
    BY Zenon DEF LocalLock, Busy
  <2>2. /\ i[w] <= Len(Ops(w)) /\ IsLocal(w, i[w])
        /\ op \in [Workers -> [1 .. N_OPS -> Future]] /\ row \in [Keys -> RowType(Nodes, Values)]
    BY Zenon, <2>1, BusyBefore DEF IndexInv, TypeOK
  <2>3. i[w] \in 1 .. N_OPS /\ Key(w, i[w]) \in Keys
    BY Zenon, <2>1, <2>2, AtOp
  <2>4. IsLocal(w, l)' <=> IsLocal(w, l)
    BY Zenon, <2>1 DEF IsLocal, Key, Ops, ops
  <2>5. l # i[w] => op'[w][l] = op[w][l]
    <3>1. op' = op \/ \E f : op' = [op EXCEPT ![w][i[w]] = f]
      BY Zenon DEF LocalLock
    <3>. QED  BY Zenon, <2>2, <2>3, <3>1
  <2>6. Carries(w, l)
    BY Zenon, <2>1, <2>2, <2>4, <2>5, SelfCarries DEF Holds
  <2>7. \A k \in Keys : row'[k].tuple = row[k].tuple
    <3>1. \/ row' = row
          \/ row' = [row EXCEPT ![Key(w, i[w])] = lock(row[Key(w, i[w])], Mode(w, i[w]))]
      BY Zenon DEF LocalLock
    <3>2. lock(row[Key(w, i[w])], Mode(w, i[w])).tuple = row[Key(w, i[w])].tuple
      BY Zenon DEF lock
    <3>. QED  BY Zenon, <2>2, <2>3, <3>1, <3>2
  <2>. QED  BY Zenon, <2>6, <2>7
\* Requests, answers and acknowledgements move without their copy.
<1>MoveCarries. ASSUME \/ SendGetReq(w) \/ HandleGetRes(w)
                \/ \E j \in 1 .. N_OPS : HandlePutRes(w, j)
       PROVE  Carries(w, l) /\ row' = row
  <2>. USE <1>MoveCarries
  <2>1. row' = row /\ txn' = txn /\ do_accel' = do_accel
    BY Zenon DEF SendGetReq, HandleGetRes, HandlePutRes, txnVars
  <2>t. op \in [Workers -> [1 .. N_OPS -> Future]]
    BY Zenon DEF IInv, TypeOK
  <2>2. CASE SendGetReq(w)
    <3>1. pc[w] = "lock" /\ pc[w] \in Busy /\ i[w] <= Len(Ops(w))
      BY Zenon, <2>2 DEF SendGetReq, Busy
    <3>2. i[w] \in 1 .. N_OPS /\ op[w][i[w]] \in Future
      BY Zenon, <3>1, AtOp
    <3>3. op' = [op EXCEPT ![w][i[w]] = moved(op[w][i[w]], "getreq")]
      BY Zenon, <2>2 DEF SendGetReq
    <3>4. moved(op[w][i[w]], "getreq").st = "getreq"
      BY Zenon, <3>2, MovedFacts DEF Status
    <3>5. Holds(w, l)' => op'[w][l] = op[w][l]
      BY Zenon, <2>t, <3>2, <3>3, <3>4 DEF Holds
    <3>. QED  BY Zenon, <2>1, <3>1, <3>5, SelfCarries DEF Holds
  <2>3. CASE HandleGetRes(w)
    <3>1. pc[w] = "wait" /\ pc[w] \in Busy
      BY Zenon, <2>3 DEF HandleGetRes, Busy
    <3>2. i[w] \in 1 .. N_OPS /\ op[w][i[w]] \in Future
      BY Zenon, <3>1, BusyBefore, AtOp DEF IndexInv
    <3>3. /\ moved(op[w][i[w]], "held").tuple = op[w][i[w]].tuple
          /\ moved(op[w][i[w]], "failed").st = "failed"
      BY Zenon, <3>2, MovedFacts DEF Status
    <3>4. \/ /\ op' = [op EXCEPT ![w][i[w]] = moved(op[w][i[w]], "held")]
             /\ op[w][i[w]].st = "getres"
          \/ op' = [op EXCEPT ![w][i[w]] = moved(op[w][i[w]], "failed")]
      BY Zenon, <2>3 DEF HandleGetRes
    <3>5. Holds(w, l)' => Holds(w, l) /\ op'[w][l].tuple = op[w][l].tuple
      BY Zenon, <2>t, <3>2, <3>3, <3>4 DEF Holds
    <3>. QED  BY Zenon, <2>1, <3>1, <3>5, SelfCarries
  <2>4. ASSUME NEW j \in 1 .. N_OPS, HandlePutRes(w, j) PROVE Carries(w, l)
    <3>1. op' = [op EXCEPT ![w][j] = moved(op[w][j], "clear")] /\ UNCHANGED <<pc, i, rc>>
      BY Zenon, <2>4 DEF HandlePutRes, txnVars
    <3>2. moved(op[w][j], "clear").st = "clear"
      BY Zenon, <2>t, MovedFacts DEF Status
    <3>3. Holds(w, l)' => op'[w][l] = op[w][l]
      BY Zenon, <2>t, <3>1, <3>2 DEF Holds
    <3>. QED  BY Zenon, <2>1, <3>1, <3>3, SelfCarries DEF Holds
  <2>. QED  BY Zenon, <2>1, <2>2, <2>3, <2>4
\* remote_lock sends the row's tuple with the lock it grants.
<1>GetReqCarries. ASSUME NEW j \in 1 .. N_OPS, HandleGetReq(w, j)
       PROVE  /\ \/ Carries(w, l)
                 \/ Key(w, l) \in Keys /\ Key(w, l)' = Key(w, l) /\ op'[w][l].tuple = row[Key(w, l)].tuple
              /\ \A k \in Keys : row'[k].tuple = row[k].tuple
  <2>. USE <1>GetReqCarries
  <2>1. /\ op[w][j].st = "getreq" /\ txn' = txn /\ do_accel' = do_accel /\ UNCHANGED <<pc, i, rc>>
    BY Zenon DEF HandleGetReq, txnVars
  <2>2. /\ op \in [Workers -> [1 .. N_OPS -> Future]] /\ row \in [Keys -> RowType(Nodes, Values)]
        /\ Key(w, j) \in Keys
    BY Zenon, <2>1, AtMsg DEF IInv, TypeOK
  <2>3. \A k \in Keys : row'[k].tuple = row[k].tuple
    <3>1. row' = row \/ row' = [row EXCEPT ![Key(w, j)] = lock(row[Key(w, j)], Mode(w, j))]
      BY Zenon DEF HandleGetReq
    <3>2. lock(row[Key(w, j)], Mode(w, j)).tuple = row[Key(w, j)].tuple
      BY Zenon DEF lock
    <3>. QED  BY Zenon, <2>2, <3>1, <3>2
  <2>4. Key(w, l)' = Key(w, l)
    BY Zenon, <2>1 DEF Key, Ops, ops
  <2>5. CASE l # j
    <3>1. op'[w][l] = op[w][l]
      BY Zenon, <2>2, <2>5 DEF HandleGetReq
    <3>. QED  BY Zenon, <2>1, <2>3, <3>1, SelfCarries DEF Holds
  <2>6. CASE l = j
    <3>1. moved(op[w][j], "getnak").st = "getnak"
      BY Zenon, <2>2, MovedFacts DEF Status
    <3>2. \/ op'[w][l].tuple = row[Key(w, l)].tuple
          \/ op'[w][l].st = "getnak"
      <4>. DEFINE f == [st |-> "getres", tuple |-> row[Key(w, j)].tuple,
                        last_acq |-> row[Key(w, j)].last_acq]
      <4>1. \/ op' = [op EXCEPT ![w][j] = f]
            \/ op' = [op EXCEPT ![w][j] = moved(op[w][j], "getnak")]
        BY Zenon DEF HandleGetReq
      <4>2. f.tuple = row[Key(w, j)].tuple
        BY Zenon
      <4>. HIDE DEF f
      <4>. QED  BY Zenon, <2>2, <2>6, <3>1, <4>1, <4>2
    <3>. QED  BY Zenon, <2>2, <2>3, <2>4, <2>6, <3>2 DEF Carries, Holds
  <2>. QED  BY Zenon, <2>5, <2>6
\* The second loop writes a local row under its write lock, or the copy of a remote one.
<1>AccessCarries. ASSUME Access(w)
       PROVE  /\ Carries(w, l)
              /\ \A k \in Keys : \/ row'[k].tuple = row[k].tuple
                                 \/ \E j \in 1 .. N_OPS : WrittenBy(w, j, k)
  <2>. USE <1>AccessCarries
  <2>1. /\ pc[w] = "access" /\ pc[w] \in Busy /\ txn' = txn /\ do_accel' = do_accel
        /\ i[w] <= Len(Ops(w)) /\ pc' = pc /\ i' = [i EXCEPT ![w] = i[w] + 1] /\ rc' = rc
    BY Zenon DEF Access, Busy, txnVars
  <2>2. /\ op \in [Workers -> [1 .. N_OPS -> Future]] /\ row \in [Keys -> RowType(Nodes, Values)]
        /\ i[w] \in Nat /\ DOMAIN i = Workers /\ N_OPS \in Nat
    BY Zenon, <2>1, BusyBefore DEF TypeOK
  <2>3. PICK j \in 1 .. N_OPS : j = i[w]
    BY Zenon, <2>1, AtOp
  <2>4. /\ Key(w, l)' = Key(w, l) /\ Mode(w, l)' = Mode(w, l)
        /\ IsLocal(w, l)' <=> IsLocal(w, l)
    BY Zenon, <2>1 DEF Key, Mode, Ops, ops, IsLocal
  <2>5. Key(w, j) \in Keys /\ Holds(w, j)
    <3>1. op[w][j].st = "held"
      BY Zenon, <2>1, <2>3, BusyBefore DEF LogEntry, Entry, Remote
    <3>. QED  BY Zenon, <3>1, AtMsg DEF Holds
  <2>6. Carries(w, l)
    <3>. SUFFICES ASSUME Holds(w, l)', ~IsLocal(w, l)', ~Written(w, l)'
                  PROVE  Holds(w, l) /\ ~Written(w, l) /\ op'[w][l].tuple = op[w][l].tuple
      BY Zenon, <2>4 DEF Carries
    <3>1. i'[w] = i[w] + 1 /\ l \in Nat
      BY Zenon, <2>1, <2>2, Numbers
    <3>2. Mode(w, l) # "WRITE" \/ ~(l < i[w] + 1)
      BY Zenon, <2>1, <2>4, <3>1 DEF Written
    <3>3. ~Written(w, l)
      BY Zenon, <2>1, <2>2, <3>1, <3>2, Numbers DEF Written
    <3>4. Mode(w, l) # "WRITE" \/ l # j
      BY Zenon, <2>2, <2>3, <3>1, <3>2, Numbers
    <3>5. op'[w][l].st = op[w][l].st /\ op'[w][l].tuple = op[w][l].tuple
      BY Zenon, <2>2, <2>3, <3>4 DEF Access
    <3>. QED  BY Zenon, <3>3, <3>5 DEF Holds
  <2>7. ASSUME NEW k \in Keys
        PROVE  row'[k].tuple = row[k].tuple \/ \E m \in 1 .. N_OPS : WrittenBy(w, m, k)
    <3>1. CASE Mode(w, j) = "WRITE" /\ IsLocal(w, j) /\ k = Key(w, j)
      BY Zenon, <2>3, <2>5, <3>1 DEF WrittenBy
    <3>2. CASE ~(Mode(w, j) = "WRITE" /\ IsLocal(w, j))
      BY Zenon, <2>3, <3>2 DEF Access
    <3>3. CASE k # Key(w, j)
      BY Zenon, <2>2, <2>3, <3>3 DEF Access
    <3>. QED  BY Zenon, <3>1, <3>2, <3>3
  <2>. QED  BY Zenon, <2>6, <2>7
\* remote_put writes the row of a writer that then releases it.
<1>PutReqCarries. ASSUME NEW j \in 1 .. N_OPS, HandlePutReq(w, j)
       PROVE  /\ Carries(w, l)
              /\ \A k \in Keys : \/ row'[k].tuple = row[k].tuple
                                 \/ \E m \in 1 .. N_OPS : WrittenBy(w, m, k)
  <2>. USE <1>PutReqCarries
  <2>. DEFINE k == Key(w, j)
              r == IF Mode(w, j) = "WRITE" THEN [row[k] EXCEPT !.tuple = op[w][j].tuple] ELSE row[k]
              e == unlock(r, Mode(w, j), op[w][j].last_acq)
  <2>1. /\ op[w][j].st = "putreq" /\ txn' = txn /\ do_accel' = do_accel /\ UNCHANGED <<pc, i, rc>>
        /\ row' = [row EXCEPT ![k] = e] /\ op' = [op EXCEPT ![w][j] = moved(op[w][j], "putres")]
    BY Zenon DEF HandlePutReq, txnVars
  <2>2. op \in [Workers -> [1 .. N_OPS -> Future]] /\ row \in [Keys -> RowType(Nodes, Values)]
    BY Zenon DEF IInv, TypeOK
  <2>3. moved(op[w][j], "putres").st = "putres"
    BY Zenon, <2>2, MovedFacts DEF Status
  <2>4. Holds(w, l)' => op'[w][l] = op[w][l]
    BY Zenon, <2>1, <2>2, <2>3 DEF Holds
  <2>5. Carries(w, l)
    BY Zenon, <2>1, <2>4, SelfCarries DEF Holds
  <2>6. /\ k \in Keys /\ row[k] \in RowType(Nodes, Values) /\ Holds(w, j)
        /\ row[k].lock_type = Mode(w, j) /\ ~Holds(w, j)'
    BY Zenon, <2>1, <2>2, <2>3, AtMsg, HeldRow DEF Holds
  <2>7. Mode(w, j) # "WRITE" => e.tuple = row[k].tuple
    <3>1. Mode(w, j) # "WRITE" => e = unlock(row[k], Mode(w, j), op[w][j].last_acq)
      BY Zenon
    <3>2. Mode(w, j) # "WRITE" => Unlocked(e, row[k], op[w][j].last_acq)
      <4>. HIDE DEF e, k
      <4>. QED  BY Zenon, <2>6, <3>1, UnlockFacts
    <3>. HIDE DEF e, k
    <3>. QED  BY Zenon, <3>2 DEF Unlocked
  <2>. HIDE DEF e, r
  <2>8. ASSUME NEW kk \in Keys
        PROVE  row'[kk].tuple = row[kk].tuple \/ \E m \in 1 .. N_OPS : WrittenBy(w, m, kk)
    BY Zenon, <2>1, <2>2, <2>6, <2>7 DEF WrittenBy
  <2>. QED  BY Zenon, <2>5, <2>8
<1>1. ASSUME Finish(w) PROVE Carries(w, l) /\ row' = row
  <2>1. op \in [Workers -> [1 .. N_OPS -> Future]]
    BY Zenon DEF IInv, TypeOK
  <2>2. ~Holds(w, l)' /\ row' = row
    BY Zenon, <1>1, <2>1 DEF Finish, NewLog, NewFuture, Holds
  <2>. QED  BY Zenon, <2>2 DEF Carries
<1>2. /\ \/ Carries(w, l)
         \/ Key(w, l) \in Keys /\ Key(w, l)' = Key(w, l) /\ op'[w][l].tuple = row[Key(w, l)].tuple
            /\ \A k \in Keys : row'[k].tuple = row[k].tuple
      /\ \A k \in Keys : \/ row'[k].tuple = row[k].tuple
                         \/ \E m \in 1 .. N_OPS : WrittenBy(w, m, k)
  BY ZenonT(60), <1>1, <1>IdleCarries, <1>LocalLockCarries, <1>MoveCarries, <1>GetReqCarries, <1>AccessCarries,
     ClearCarries, <1>PutReqCarries DEF Step, Handle
<1>3. v # w => Carries(v, l)
  BY Zenon, <1>OtherCarries
<1>. QED  BY Zenon, <1>2, <1>3

\* The copies stay fresh.
LEMMA CopyStep ==
  ASSUME FiniteSetFacts
  PROVE  IInv /\ CopyFresh /\ [Next]_vars => CopyFresh'
<1>. SUFFICES ASSUME IInv, CopyFresh, [Next]_vars PROVE CopyFresh'
  BY Zenon
<1>1. ASSUME NEW w \in Workers, Step(w) \/ Handle(w) PROVE CopyFresh'
  <2>. SUFFICES ASSUME NEW v \in Workers, NEW l \in 1 .. N_OPS,
                       Holds(v, l)', ~IsLocal(v, l)', ~Written(v, l)'
                PROVE  op'[v][l].tuple = row'[Key(v, l)'].tuple
    BY Zenon DEF CopyFresh
  <2>1. CASE /\ Key(v, l) \in Keys /\ Key(v, l)' = Key(v, l) /\ op'[v][l].tuple = row[Key(v, l)].tuple
             /\ \A k \in Keys : row'[k].tuple = row[k].tuple
    BY Zenon, <2>1
  <2>2. CASE Carries(v, l)
    <3>1. /\ Holds(v, l) /\ ~IsLocal(v, l) /\ ~Written(v, l)
          /\ Key(v, l)' = Key(v, l) /\ op'[v][l].tuple = op[v][l].tuple
      BY Zenon, <2>2 DEF Carries
    <3>2. op[v][l].tuple = row[Key(v, l)].tuple
      BY Zenon, <3>1 DEF CopyFresh
    <3>3. ASSUME NEW m \in 1 .. N_OPS, WrittenBy(w, m, Key(v, l)) PROVE FALSE
      <4>1. v = w /\ l = m
        BY Zenon, <3>1, <3>3, SoleWriter DEF WrittenBy
      <4>. QED  BY Zenon, <3>1, <3>3, <4>1 DEF WrittenBy
    <3>4. row'[Key(v, l)].tuple = row[Key(v, l)].tuple
      BY Zenon, <1>1, <3>1, <3>3, StepCarries, AtMsg DEF Holds
    <3>. QED  BY Zenon, <3>1, <3>2, <3>4
  <2>. QED  BY Zenon, <1>1, <2>1, <2>2, StepCarries
<1>2. CASE UNCHANGED vars
  BY Zenon, <1>2 DEF CopyFresh, Holds, Written, IsLocal, Key, Mode, Ops, ops, vars
<1>. QED  BY Zenon, <1>1, <1>2 DEF Next, Terminated

\* No operation of a new log holds a lock.
LEMMA CopyInit == Init => CopyFresh
<1>. SUFFICES ASSUME Init PROVE CopyFresh
  BY Zenon
<1>1. \A w \in Workers : op[w] = NewLog
  BY Zenon DEF Init
<1>2. \A w \in Workers, j \in 1 .. N_OPS : op[w][j].st = "none"
  <2>1. NewFuture.st = "none"
    BY Zenon DEF NewFuture
  <2>2. \A j \in 1 .. N_OPS : NewLog[j] = NewFuture
    BY Zenon DEF NewLog
  <2>. QED  BY Zenon, <1>1, <2>1, <2>2
<1>. QED  BY Zenon, <1>2 DEF CopyFresh, Holds
=============================================================================
