---------------------------- MODULE ExecutorOrder ----------------------------
(***************************************************************************)
(* The theorems of Executor, for any number of nodes, workers, keys and     *)
(* transactions, from the lemmas of ExecutorWorkers, ExecutorProofs and     *)
(* ExecutorBatches; and the lemmas on the order of the slots, which need    *)
(* all of these.                                                            *)
(***************************************************************************)
EXTENDS ExecutorBatches

-----------------------------------------------------------------------------
(* What the rows hold.                                                      *)

\* A write stays where it was made until its lock is released.
LEMMA WroteStep ==
  ASSUME FiniteSetFacts, IInv, NEW w \in Workers, Step(w) \/ Handle(w), WroteInv
  PROVE  WroteInv'
<1>. SUFFICES ASSUME NEW v \in Workers, NEW l \in 1 .. N_OPS, Holds(v, l)', Written(v, l)'
              PROVE  txn'[v] = IF IsLocal(v, l)' THEN row'[Key(v, l)'].tuple ELSE op'[v][l].tuple
  BY Zenon DEF WroteInv
<1>1. /\ Holds(v, l) /\ txn'[v] = txn[v] /\ Key(v, l)' = Key(v, l)
      /\ (IsLocal(v, l)' <=> IsLocal(v, l)) /\ Mode(v, l) = "WRITE"
      /\ \/ Written(v, l) /\ op'[v][l].tuple = op[v][l].tuple
         \/ Access(w) /\ l = i[w] /\ v = w
  <2>1. CASE v = w
    BY Zenon, <2>1, WrittenStep DEF WrittenMoves
  <2>2. CASE v # w
    BY Zenon, <2>2, OtherWritten DEF Written
  <2>. QED  BY Zenon, <2>1, <2>2
<1>k. Key(v, l) \in Keys
  BY Zenon, <1>1, AtMsg DEF Holds
<1>2. CASE Access(w) /\ l = i[w] /\ v = w
  <2>1. /\ op \in [Workers -> [1 .. N_OPS -> Future]] /\ row \in [Keys -> RowType(Nodes, Values)]
    BY Zenon DEF IInv, TypeOK
  <2>2. IsLocal(v, l) => row'[Key(v, l)].tuple = txn[w]
    <3>. SUFFICES ASSUME IsLocal(v, l) PROVE row'[Key(v, l)].tuple = txn[w]
      BY Zenon
    <3>1. row' = [row EXCEPT ![Key(v, l)].tuple = txn[w]]
      BY Zenon, <1>1, <1>2 DEF Access
    <3>. QED  BY Zenon, <1>k, <2>1, <3>1 DEF RowType
  <2>3. ~IsLocal(v, l) => op'[v][l].tuple = txn[w]
    BY Zenon, <1>1, <1>2, <2>1 DEF Access
  <2>. QED  BY Zenon, <1>1, <1>2, <2>2, <2>3
<1>3. CASE Written(v, l) /\ op'[v][l].tuple = op[v][l].tuple
  <2>1. txn[v] = IF IsLocal(v, l) THEN row[Key(v, l)].tuple ELSE op[v][l].tuple
    BY Zenon, <1>1, <1>3 DEF WroteInv
  <2>2. row'[Key(v, l)].tuple = row[Key(v, l)].tuple
    <3>1. ASSUME NEW m \in 1 .. N_OPS, WrittenBy(w, m, Key(v, l)) PROVE FALSE
      <4>0. Holds(w, m) /\ Mode(w, m) = "WRITE" /\ Key(v, l) = Key(w, m)
        BY Zenon, <3>1 DEF WrittenBy
      <4>1. v = w /\ l = m
        BY Zenon, <1>1, <4>0, SoleWriter
      <4>2. Access(w) /\ l = i[w]
        BY Zenon, <3>1, <4>1 DEF WrittenBy
      <4>3. pc[w] = "access" /\ l < i[w]
        BY Zenon, <1>3, <4>1, <4>2 DEF Written, Access
      <4>4. l \in Nat
        BY NOpsNat
      <4>. QED  BY <4>2, <4>3, <4>4
    <3>. QED  BY Zenon, <1>k, <3>1, StepCarries
  <2>. QED  BY Zenon, <1>1, <1>3, <2>1, <2>2
<1>. QED  BY Zenon, <1>1, <1>2, <1>3

\* Who releases a write lock, and what it leaves in the row.
LEMMA WriteRelease ==
  ASSUME FiniteSetFacts, IInv, NEW w \in Workers, Step(w) \/ Handle(w), NEW j \in 1 .. N_OPS,
         Holds(w, j), ~Holds(w, j)', Mode(w, j) = "WRITE"
  PROVE  /\ pc[w] \in {"clear", "puts"}
         /\ row'[Key(w, j)].tuple = IF IsLocal(w, j) THEN row[Key(w, j)].tuple ELSE op[w][j].tuple
<1>t. /\ op \in [Workers -> [1 .. N_OPS -> Future]] /\ row \in [Keys -> RowType(Nodes, Values)]
  BY Zenon DEF IInv, TypeOK
<1>k. Key(w, j) \in Keys
  BY Zenon, AtMsg DEF Holds
<1>1. ~Keeps /\ \A l \in 1 .. N_OPS : ~Grants(w, l)
  BY Zenon DEF Keeps, Grants, SameHolder
<1>2. CASE Clear(w)
  <2>1. pc[w] = "clear" /\ pc[w] \in Busy /\ i[w] <= Len(Ops(w))
    BY Zenon, <1>2 DEF Clear, Busy
  <2>2. PICK l \in 1 .. N_OPS : l = i[w]
    BY Zenon, <2>1, AtOp
  <2>3. moved(op[w][l], "putreq").st = "putreq"
    BY Zenon, <1>t, MovedFacts DEF Status
  <2>4. \/ IsLocal(w, l) /\ op' = [op EXCEPT ![w][l] = moved(op[w][l], "clear")]
        \/ op' = [op EXCEPT ![w][l] = moved(op[w][l], "putreq")]
        \/ op' = op
    BY Zenon, <1>2, <2>2 DEF Clear, lockVars
  <2>5. j = l /\ IsLocal(w, l)
    BY Zenon, <1>t, <2>3, <2>4 DEF Holds
  <2>6. row'[Key(w, j)].tuple = row[Key(w, j)].tuple
    BY Zenon, <1>2, <1>k, ClearCarries
  <2>. QED  BY Zenon, <2>1, <2>5, <2>6
<1>3. CASE HandlePutReq(w, j)
  <2>1. op[w][j].st = "putreq"
    BY Zenon, <1>3 DEF HandlePutReq
  <2>3. pc[w] \in Busy /\ LogEntry(w, j) /\ i[w] \in Nat /\ j \in Nat
        /\ Len(Ops(w)) \in Nat /\ j <= Len(Ops(w))
    BY <2>1, BusyBefore, AtMsg, NOpsNat
  <2>4. pc[w] \in {"clear", "puts"}
    BY <2>1, <2>3 DEF LogEntry, Entry, Busy
  <2>5. ~IsLocal(w, j)
    BY Zenon, <2>1, <2>3 DEF LogEntry, Remote
  <2>. DEFINE k == Key(w, j)
              r == [row[k] EXCEPT !.tuple = op[w][j].tuple]
  <2>6. row'[k] = unlock(r, Mode(w, j), op[w][j].last_acq)
    BY Zenon, <1>t, <1>k, <1>3 DEF HandlePutReq
  <2>7. row[k] \in RowType(Nodes, Values) /\ op[w][j].tuple \in Values
    <3>1. op[w][j] \in Future
      BY Zenon, <1>t
    <3>. QED  BY Zenon, <1>t, <1>k, <3>1 DEF Future
  <2>8. r \in RowType(Nodes, Values) /\ r.lock_type = row[k].lock_type /\ r.tuple = op[w][j].tuple
    BY Zenon, <2>7 DEF RowType
  <2>9. r.lock_type = Mode(w, j)
    BY Zenon, <2>8, HeldRow
  <2>. HIDE DEF r, k
  <2>10. unlock(r, Mode(w, j), op[w][j].last_acq).tuple = r.tuple
    <3>1. Unlocked(unlock(r, Mode(w, j), op[w][j].last_acq), r, op[w][j].last_acq)
      BY Zenon, <2>8, <2>9, UnlockFacts
    <3>. QED  BY Zenon, <3>1 DEF Unlocked
  <2>. QED  BY Zenon, <2>4, <2>5, <2>6, <2>8, <2>10 DEF k
<1>4. PICK l \in 1 .. N_OPS : Releases(w, l) /\ (Clear(w) \/ HandlePutReq(w, l))
  BY Zenon, <1>1, StepKind
<1>5. j = l
  BY Zenon, <1>4 DEF Releases, SameHolder
<1>. QED  BY Zenon, <1>2, <1>3, <1>4, <1>5

\* Every step keeps the last write of a row, unless it is the commit of another one.
LEMMA LastWriteStep ==
  ASSUME FiniteSetFacts, IInv, CopyFresh, WroteInv, NEW w \in Workers, Step(w) \/ Handle(w),
         NEW k \in Keys, NEW t, LastWrite(k, t), 1 \in 1 .. N_OPS,
         \/ ~AllAccessed(w) \/ txn[w] \in {t} \cup NotAccel
         \/ \A l \in 1 .. N_OPS : ~(Holds(w, l) /\ Key(w, l) = k /\ Mode(w, l) = "WRITE")
  PROVE  LastWrite(k, t)'
<1>. DEFINE T == {t} \cup NotAccel
            U == {t} \cup {s \in Txns : ~do_accel'[s]}
<1>u. T \subseteq U
  BY Zenon, AccelFalls DEF NotAccel
<1>1. ASSUME NEW v \in Workers, NEW l \in 1 .. N_OPS, Holds(v, l)', Key(v, l)' = k, Written(v, l)',
             pc'[v] # "access"
      PROVE  txn'[v] \in U
  <2>1. CASE v # w
    <3>1. Holds(v, l) /\ Key(v, l) = k /\ Written(v, l) /\ pc[v] # "access" /\ txn'[v] = txn[v]
      BY Zenon, <1>1, <2>1, OtherWritten
    <3>. QED  BY Zenon, <1>u, <3>1 DEF LastWrite
  <2>2. CASE v = w
    <3>1. /\ Holds(w, l) /\ Key(w, l) = k /\ Mode(w, l) = "WRITE" /\ txn'[w] = txn[w]
          /\ Written(w, l) \/ Access(w)
          /\ pc[w] # "access" \/ AllAccessed(w)
      BY Zenon, <1>1, <2>2, WrittenStep DEF WrittenMoves
    <3>2. pc[w] # "access" => Written(w, l)
      BY Zenon, <3>1 DEF Access
    <3>. QED  BY Zenon, <1>u, <2>2, <3>1, <3>2 DEF LastWrite
  <2>. QED  BY Zenon, <2>1, <2>2
<1>2. ASSUME \A v \in Workers, l \in 1 .. N_OPS : Holds(v, l)' /\ Key(v, l)' = k => ~Written(v, l)'
      PROVE  row'[k].tuple \in U
  <2>1. ASSUME NEW m \in 1 .. N_OPS, WrittenBy(w, m, k) PROVE row'[k].tuple \in U
    <3>0. Holds(w, m) /\ Mode(w, m) = "WRITE" /\ Key(w, m) = k
      BY Zenon, <2>1 DEF WrittenBy
    <3>1. CASE ~Holds(w, m)'
      <4>1. /\ pc[w] \in {"clear", "puts"} /\ pc[w] # "access"
            /\ row'[k].tuple = IF IsLocal(w, m) THEN row[k].tuple ELSE op[w][m].tuple
        BY Zenon, <3>0, <3>1, WriteRelease
      <4>2. CASE Written(w, m)
        <5>1. txn[w] = IF IsLocal(w, m) THEN row[k].tuple ELSE op[w][m].tuple
          BY Zenon, <3>0, <4>2 DEF WroteInv
        <5>2. txn[w] \in T
          BY Zenon, <3>0, <4>1, <4>2 DEF LastWrite
        <5>. QED  BY Zenon, <1>u, <4>1, <5>1, <5>2
      <4>3. CASE ~Written(w, m)
        <5>1. ASSUME NEW v \in Workers, NEW l \in 1 .. N_OPS, Holds(v, l), Key(v, l) = k
              PROVE  ~Written(v, l)
          <6>1. v = w /\ l = m
            BY Zenon, <3>0, <5>1, SoleWriter
          <6>. QED  BY Zenon, <4>3, <6>1
        <5>2. row[k].tuple \in T
          BY Zenon, <5>1 DEF LastWrite
        <5>3. ~IsLocal(w, m) => op[w][m].tuple = row[k].tuple
          BY Zenon, <3>0, <4>3 DEF CopyFresh
        <5>. QED  BY Zenon, <1>u, <4>1, <5>2, <5>3
      <4>. QED  BY Zenon, <4>2, <4>3
    <3>2. CASE Access(w) /\ m = i[w] /\ Holds(w, m)'
      <4>1. pc'[w] = "access" /\ txn' = txn /\ do_accel' = do_accel
        BY Zenon, <3>2 DEF Access, txnVars
      <4>2. Key(w, m)' = k /\ Mode(w, m)' = "WRITE"
        BY Zenon, <3>0, <4>1 DEF Key, Mode, Ops, ops
      <4>3. m < i'[w]
        <5>1. i'[w] = i[w] + 1 /\ m \in Nat
          BY <3>2, NOpsNat DEF Access, IInv, TypeOK
        <5>. QED  BY <3>2, <5>1
      <4>4. Written(w, m)'
        BY Zenon, <4>1, <4>2, <4>3 DEF Written
      <4>. QED  BY Zenon, <1>2, <3>2, <4>2, <4>4
    <3>. QED  BY Zenon, <2>1, <3>1, <3>2 DEF WrittenBy
  <2>2. CASE \A m \in 1 .. N_OPS : ~WrittenBy(w, m, k)
    <3>1. row'[k].tuple = row[k].tuple
      BY Zenon, <2>2, StepCarries
    <3>2. ASSUME NEW v \in Workers, NEW l \in 1 .. N_OPS, Holds(v, l), Key(v, l) = k, Written(v, l)
          PROVE  FALSE
      <4>1. CASE v # w
        BY Zenon, <1>2, <3>2, <4>1, OtherWritten
      <4>2. CASE v = w /\ ~Holds(w, l)'
        BY Zenon, <2>2, <3>2, <4>2 DEF WrittenBy, Written
      <4>3. CASE v = w /\ Holds(w, l)'
        <5>1. Written(w, l)'
          BY Zenon, <3>2, <4>3, WrittenStep DEF WrittenMoves
        <5>2. Key(w, l)' = Key(w, l)
          BY Zenon, <4>3, <5>1, WrittenStep DEF WrittenMoves
        <5>. QED  BY Zenon, <1>2, <3>2, <4>3, <5>1, <5>2
      <4>. QED  BY Zenon, <4>1, <4>2, <4>3
    <3>3. row[k].tuple \in T
      BY Zenon, <3>2 DEF LastWrite
    <3>. QED  BY Zenon, <1>u, <3>1, <3>3
  <2>. QED  BY Zenon, <2>1, <2>2
<1>. QED  BY Zenon, <1>1, <1>2 DEF LastWrite, NotAccel

-----------------------------------------------------------------------------
(* The order of the slots.                                                  *)

\* A node never takes back what it has sent.
LEMMA SentStep ==
  ASSUME IInv, NEW w \in Workers, Step(w) \/ Handle(w), \A v \in Workers : LoopInv(v),
         NEW m \in Nat, NotSent(m)'
  PROVE  NotSent(m)
<1>. SUFFICES ASSUME NEW n \in Nodes PROVE m >= Unsent(Leader[n])
  BY Zenon DEF NotSent
<1>. DEFINE l == Leader[n]
<1>1. l \in Workers /\ node_id[l] = n
  BY Zenon, ConstantsAssumption
<1>2. m >= Unsent(l)'
  BY Zenon DEF NotSent
<1>3. CASE l # w \/ ~HotPeriod(w)
  BY Zenon, <1>1, <1>2, <1>3, OtherMoves, WorkerMoves
<1>4. CASE l = w /\ HotPeriod(w)
  <2>1. pc[w] = "hot" /\ batch'[w] = batch[w] /\ pc'[w] = "batch" /\ phase[w] # "left"
    <3>1. pc[w] = "hot" /\ batch'[w] = batch[w] /\ pc'[w] = "batch"
      BY Zenon, <1>4 DEF HotPeriod, loopVars, IInv, TypeOK
    <3>. QED  BY Zenon, <3>1 DEF LoopInv, Busy
  <2>2. Unsent(l)' = FirstMb(batch[w] + 1) /\ Unsent(l) = FirstMb(batch[w])
    BY Zenon, <1>4, <2>1 DEF Unsent, HasSent
  <2>. QED  BY <1>2, <1>4, <2>2, LoopFacts
<1>. QED  BY Zenon, <1>3, <1>4

\* The slot of a commit is the last one of its keys, and they hold its write.
LEMMA NewSlotOrder ==
  ASSUME FiniteSetFacts, OInv, NEW w \in Workers, AllAccessed(w), phase[w] # "left", WritesDisjoint', OrderInv
  PROVE  OrderInv'
<1>. DEFINE f == [txn |-> txn[w], mini_batch_num |-> mb[w]]
            nw == node_id[w]
            len == Len(hot_send_q[nw])
<1>s. Step(w) /\ IInv /\ CopyFresh /\ WroteInv /\ SlotMbInv /\ (\A v \in Workers : LoopInv(v))
  BY Zenon DEF Step, OInv
<1>p. /\ pc[w] = "access" /\ pc[w] \in Busy /\ nw \in Nodes
      /\ pc'[w] = "clear" /\ rc'[w] = "COMMIT" /\ txn' = txn /\ do_accel' = do_accel
      /\ op' = op /\ row' = row
  BY Zenon, <1>s, ConstantsAssumption DEF AllAccessed, Busy, lockVars, IInv, TypeOK
<1>t. txn[w] \in Txns /\ mb[w] \in Nat /\ f \in Counted
  <2>1. OwnTxns(w) /\ TypeOK
    BY Zenon, <1>s DEF IInv, WorkerInv
  <2>2. txn[w] \in Txns /\ mb[w] \in Nat
    BY Zenon, <1>p, <2>1, BusyFacts DEF TypeOK
  <2>. QED  BY Zenon, <2>2 DEF Counted
<1>f. f.txn = txn[w] /\ f.mini_batch_num = mb[w]
  BY Zenon
<1>. HIDE DEF f
<1>q. /\ hot_send_q \in [Nodes -> Seq(Counted)]
      /\ hot_send_q' = [hot_send_q EXCEPT ![nw] = Append(hot_send_q[nw], f)]
  BY Zenon, <1>s DEF AllAccessed, Id, IInv, TypeOK, f
<1>1. /\ len \in Nat /\ DOMAIN hot_send_q[nw] = 1 .. len
      /\ hot_send_q'[nw] = Append(hot_send_q[nw], f)
      /\ DOMAIN hot_send_q'[nw] = 1 .. len + 1
      /\ hot_send_q'[nw][len + 1] = f
      /\ \A p \in 1 .. len : hot_send_q'[nw][p] = hot_send_q[nw][p]
  <2>1. hot_send_q[nw] \in Seq(Counted) /\ hot_send_q'[nw] = Append(hot_send_q[nw], f)
    BY Zenon, <1>p, <1>q
  <2>. QED  BY <1>t, <2>1
<1>2. \A n \in Nodes : n # nw => hot_send_q'[n] = hot_send_q[n]
  BY Zenon, <1>q
<1>3. \A n \in Nodes : \A p \in DOMAIN hot_send_q[n] :
        /\ p \in DOMAIN hot_send_q'[n] /\ hot_send_q'[n][p] = hot_send_q[n][p]
        /\ hot_send_q[n][p] \in Slots(n) /\ hot_send_q'[n][p] \in Slots(n)'
  <2>. TAKE n \in Nodes
  <2>. TAKE p \in DOMAIN hot_send_q[n]
  <2>1. CASE n # nw
    BY Zenon, <1>2, <2>1 DEF Slots, Range
  <2>2. CASE n = nw
    <3>1. p \in 1 .. len /\ p \in 1 .. len + 1
      BY <1>1, <2>2
    <3>. QED  BY Zenon, <1>1, <2>2, <3>1 DEF Slots, Range
  <2>. QED  BY Zenon, <2>1, <2>2
<1>4. \A n \in Nodes : \A p \in DOMAIN hot_send_q'[n] :
        p \in DOMAIN hot_send_q[n] \/ (n = nw /\ p = len + 1)
  <2>1. \A p \in 1 .. len + 1 : p \in 1 .. len \/ p = len + 1
    BY <1>1
  <2>. QED  BY Zenon, <1>1, <1>2, <2>1
<1>5. f \in Slots(nw)'
  <2>1. len + 1 \in 1 .. len + 1
    BY <1>1
  <2>. QED  BY Zenon, <1>1, <2>1 DEF Slots, Range
<1>. SUFFICES ASSUME NEW k \in Keys, NEW s \in Writers(k)', NotSent(SlotMb(s))', IsLast(k, s)'
              PROVE  LastWrite(k, hot_send_q[s[1]][s[2]].txn)'
  BY Zenon DEF OrderInv
<1>n. PICK n \in Nodes : \E p \in DOMAIN hot_send_q'[n] :
        s = <<n, p>> /\ k \in WrittenKeys(hot_send_q'[n][p].txn)
  BY Zenon, WriterAt
<1>6. PICK p \in DOMAIN hot_send_q'[n] :
        s = <<n, p>> /\ k \in WrittenKeys(hot_send_q'[n][p].txn)
  BY Zenon, <1>n
<1>7. s[1] = n /\ s[2] = p
  BY Zenon, <1>6
<1>8. CASE k \in WrittenKeys(txn[w])
  <2>0. PICK z : z = <<nw, len + 1>>
    BY Zenon
  <2>1. z \in Writers(k)' /\ z[1] = nw /\ z[2] = len + 1
    <3>1. len + 1 \in 1 .. len + 1 /\ z[1] = nw /\ z[2] = len + 1
      BY <1>1, <2>0
    <3>. QED  BY Zenon, <1>1, <1>8, <1>f, <1>p, <2>0, <3>1, WriterAt
  <2>2. SlotLE(z, s)'
    BY Zenon, <2>1 DEF IsLast
  <2>3. n = nw /\ p = len + 1
    <3>. SUFFICES ASSUME p \in DOMAIN hot_send_q[n] PROVE FALSE
      BY Zenon, <1>4
    <3>. DEFINE e == hot_send_q[n][p]
    <3>1. e \in Slots(n) /\ e \in Slots(n)' /\ hot_send_q'[n][p] = e /\ k \in WrittenKeys(e.txn)
      BY Zenon, <1>3, <1>6
    <3>2. e.mini_batch_num <= mb[w] /\ e.mini_batch_num \in Nat
      <4>1. hot_send_q[n] \in Seq(Counted)
        BY Zenon, <1>q
      <4>2. e \in Counted
        BY <4>1
      <4>3. e.mini_batch_num \in Nat
        BY Zenon, <4>2 DEF Counted
      <4>. QED  BY Zenon, <1>s, <3>1, <4>3 DEF SlotMbInv
    <3>3. SlotMb(z)' = mb[w] /\ SlotMb(s)' = e.mini_batch_num
      BY Zenon, <1>1, <1>7, <1>f, <2>1, <3>1 DEF SlotMb
    <3>4. e.mini_batch_num = mb[w] /\ len + 1 <= p
      <4>1. \/ mb[w] < e.mini_batch_num
            \/ mb[w] = e.mini_batch_num /\ len + 1 <= p
        BY Zenon, <1>7, <2>1, <2>2, <3>3 DEF SlotLE
      <4>. QED  BY <1>t, <3>2, <4>1
    <3>5. CASE n = nw
      <4>1. p \in 1 .. len
        BY Zenon, <1>1, <3>5
      <4>. QED  BY <1>1, <3>4, <4>1
    <3>6. CASE n # nw
      <4>1. WrittenKeys(f.txn) \cap WrittenKeys(e.txn) = {}
        BY Zenon, <1>5, <1>f, <1>p, <3>1, <3>4, <3>6 DEF WritesDisjoint, WrittenKeys
      <4>. QED  BY Zenon, <1>8, <1>f, <3>1, <4>1
    <3>. QED  BY Zenon, <3>5, <3>6
  <2>4. hot_send_q'[s[1]][s[2]].txn = txn[w]
    BY Zenon, <1>1, <1>7, <1>f, <2>3
  <2>5. PICK j \in 1 .. N_OPS : Holds(w, j) /\ Key(w, j) = k /\ Mode(w, j) = "WRITE"
    BY Zenon, <1>s, <1>8, CommitHolds
  <2>6. Holds(w, j)' /\ Key(w, j)' = k /\ Written(w, j)'
    BY Zenon, <1>p, <2>5 DEF Holds, Key, Mode, Ops, ops, Written
  <2>7. ASSUME NEW v \in Workers, NEW l \in 1 .. N_OPS, Holds(v, l)', Key(v, l)' = k
        PROVE  txn'[v] = txn[w]
    <3>1. Holds(v, l) /\ Key(v, l) = k
      BY Zenon, <1>p, <2>7 DEF Holds, Key, Ops, ops
    <3>2. v = w
      BY Zenon, <1>s, <2>5, <3>1, SoleWriter
    <3>. QED  BY Zenon, <1>p, <3>2
  <2>. QED  BY Zenon, <2>4, <2>6, <2>7 DEF LastWrite
<1>9. CASE k \notin WrittenKeys(txn[w])
  <2>1. p \in DOMAIN hot_send_q[n]
    BY Zenon, <1>1, <1>4, <1>6, <1>9, <1>f
  <2>2. /\ hot_send_q'[n][p] = hot_send_q[n][p] /\ s \in Writers(k)
        /\ SlotMb(s)' = SlotMb(s)
    BY Zenon, <1>3, <1>6, <1>7, <2>1, WriterAt DEF SlotMb
  <2>3. NotSent(SlotMb(s))
    <3>1. SlotMb(s) \in Nat
      <4>1. hot_send_q[n] \in Seq(Counted)
        BY Zenon, <1>q
      <4>2. hot_send_q[n][p] \in Counted
        BY <2>1, <4>1
      <4>. QED  BY Zenon, <1>7, <4>2 DEF Counted, SlotMb
    <3>2. NotSent(SlotMb(s))'
      BY Zenon
    <3>. DEFINE m == SlotMb(s)
    <3>3. \A c \in Nodes : m >= Unsent(Leader[c])'
      BY Zenon, <2>2 DEF NotSent
    <3>4. ASSUME NEW c \in Nodes PROVE Unsent(Leader[c])' = Unsent(Leader[c])
      <4>1. ~HotPeriod(w)
        BY Zenon, <1>p DEF HotPeriod
      <4>2. Leader[c] \in Workers /\ node_id[Leader[c]] = c
        BY Zenon, ConstantsAssumption
      <4>. QED  BY Zenon, <1>s, <4>1, <4>2, WorkerMoves, OtherMoves
    <3>. QED  BY Zenon, <3>3, <3>4 DEF NotSent
  <2>4. IsLast(k, s)
    <3>. SUFFICES ASSUME NEW r \in Writers(k) PROVE SlotLE(r, s)
      BY Zenon, <2>2 DEF IsLast
    <3>c. PICK c \in Nodes : \E d \in DOMAIN hot_send_q[c] :
            r = <<c, d>> /\ k \in WrittenKeys(hot_send_q[c][d].txn)
      BY Zenon, WriterAt
    <3>1. PICK d \in DOMAIN hot_send_q[c] :
            r = <<c, d>> /\ k \in WrittenKeys(hot_send_q[c][d].txn)
      BY Zenon, <3>c
    <3>2. r[1] = c /\ r[2] = d
      BY Zenon, <3>1
    <3>3. r \in Writers(k)' /\ SlotMb(r)' = SlotMb(r)
      BY Zenon, <1>3, <3>1, <3>2, WriterAt DEF SlotMb
    <3>4. SlotLE(r, s)'
      BY Zenon, <3>3 DEF IsLast
    <3>. QED  BY Zenon, <2>2, <3>3, <3>4 DEF SlotLE
  <2>. DEFINE t == hot_send_q[n][p].txn
  <2>5. LastWrite(k, t)
    BY Zenon, <1>7, <2>2, <2>3, <2>4 DEF OrderInv
  <2>6. \A l \in 1 .. N_OPS : ~(Holds(w, l) /\ Key(w, l) = k /\ Mode(w, l) = "WRITE")
    BY Zenon, <1>s, <1>p, <1>9, WroteKey
  <2>7. 1 \in 1 .. N_OPS
    <3>1. hot_send_q[n] \in Seq(Counted)
      BY Zenon, <1>q
    <3>2. hot_send_q[n][p] \in Counted
      BY <2>1, <3>1
    <3>. QED  BY Zenon, <1>6, <2>2, <3>2, HasOp DEF Counted
  <2>. HIDE DEF t
  <2>9. ASSUME NEW x, LastWrite(k, x) PROVE LastWrite(k, x)'
    BY Zenon, <1>s, <2>6, <2>7, <2>9, LastWriteStep
  <2>10. LastWrite(k, hot_send_q[n][p].txn)
    BY Zenon, <2>5 DEF t
  <2>. QED  BY Zenon, <1>7, <2>2, <2>9, <2>10
<1>. QED  BY Zenon, <1>8, <1>9

\* In any other step the last slot of a row was it before.
LEMMA OldSlotOrder ==
  ASSUME FiniteSetFacts, OInv, NEW w \in Workers, Step(w) \/ Handle(w), hot_send_q' = hot_send_q \/ HotPeriod(w)
  PROVE  OrderInv'
<1>s. /\ IInv /\ CopyFresh /\ WroteInv /\ SlotMbInv /\ OrderInv
      /\ \A v \in Workers : LoopInv(v) /\ LeftInv(v)
  BY Zenon DEF OInv
<1>q. hot_send_q \in [Nodes -> Seq(Counted)]
  BY Zenon, <1>s DEF IInv, TypeOK
<1>. SUFFICES ASSUME NEW k \in Keys, NEW s \in Writers(k)', NotSent(SlotMb(s))', IsLast(k, s)'
              PROVE  LastWrite(k, hot_send_q[s[1]][s[2]].txn)'
  BY Zenon DEF OrderInv
<1>n. PICK n \in Nodes : \E p \in DOMAIN hot_send_q'[n] :
        s = <<n, p>> /\ k \in WrittenKeys(hot_send_q'[n][p].txn)
  BY Zenon, WriterAt
<1>1. PICK p \in DOMAIN hot_send_q'[n] :
        s = <<n, p>> /\ k \in WrittenKeys(hot_send_q'[n][p].txn)
  BY Zenon, <1>n
<1>2. s[1] = n /\ s[2] = p
  BY Zenon, <1>1
<1>3. \A c \in Nodes : \/ hot_send_q'[c] = hot_send_q[c]
                       \/ HotPeriod(w) /\ c = node_id[w] /\ hot_send_q'[c] = <<>>
  BY Zenon, <1>q DEF HotPeriod, done_sending
<1>4. hot_send_q'[n] = hot_send_q[n]
  <2>1. DOMAIN <<>> = {}
    OBVIOUS
  <2>. QED  BY Zenon, <1>1, <1>3, <2>1
<1>5. /\ s \in Writers(k) /\ SlotMb(s)' = SlotMb(s) /\ p \in DOMAIN hot_send_q[n]
  BY Zenon, <1>1, <1>2, <1>4, WriterAt DEF SlotMb
<1>6. hot_send_q[n][p] \in Counted
  <2>1. hot_send_q[n] \in Seq(Counted)
    BY Zenon, <1>q
  <2>. QED  BY <1>5, <2>1
<1>7. SlotMb(s) \in Nat /\ hot_send_q[n][p].txn \in Txns
  BY Zenon, <1>2, <1>6 DEF SlotMb, Counted
<1>8. PICK m \in Nat : m = SlotMb(s)
  BY Zenon, <1>7
<1>9. NotSent(m)' /\ NotSent(m)
  BY Zenon, <1>s, <1>5, <1>8, SentStep
<1>10. IsLast(k, s)
  <2>. SUFFICES ASSUME NEW r \in Writers(k) PROVE SlotLE(r, s)
    BY Zenon, <1>5 DEF IsLast
  <2>c. PICK c \in Nodes : \E d \in DOMAIN hot_send_q[c] :
          r = <<c, d>> /\ k \in WrittenKeys(hot_send_q[c][d].txn)
    BY Zenon, WriterAt
  <2>1. PICK d \in DOMAIN hot_send_q[c] :
          r = <<c, d>> /\ k \in WrittenKeys(hot_send_q[c][d].txn)
    BY Zenon, <2>c
  <2>2. r[1] = c /\ r[2] = d
    BY Zenon, <2>1
  <2>3. CASE hot_send_q'[c] = hot_send_q[c]
    <3>1. r \in Writers(k)' /\ SlotMb(r)' = SlotMb(r)
      BY Zenon, <2>1, <2>2, <2>3, WriterAt DEF SlotMb
    <3>2. SlotLE(r, s)'
      BY Zenon, <3>1 DEF IsLast
    <3>. QED  BY Zenon, <1>5, <3>1, <3>2 DEF SlotLE
  <2>4. CASE HotPeriod(w) /\ c = node_id[w]
    <3>1. /\ pc[w] = "hot" /\ w = Leader[c] /\ batch'[w] = batch[w] /\ pc'[w] = "batch"
      BY Zenon, <1>s, <2>4 DEF HotPeriod, LoopInv, loopVars, IInv, TypeOK
    <3>2. SlotMb(r) < FirstMb(batch[w] + 1)
      <4>1. OpenBatch(w) = batch[w]
        BY Zenon, <3>1 DEF OpenBatch
      <4>2. hot_send_q[c][d] \in Slots(c)
        BY Zenon, <2>1 DEF Slots, Range
      <4>. QED  BY Zenon, <1>s, <2>2, <2>4, <4>1, <4>2 DEF SlotMbInv, SlotMb
    <3>3. m >= FirstMb(batch[w] + 1)
      <4>1. m >= Unsent(Leader[c])'
        BY Zenon, <1>9 DEF NotSent
      <4>2. Unsent(Leader[c])' = FirstMb(batch[w] + 1)
        BY Zenon, <3>1 DEF Unsent, HasSent
      <4>. QED  BY Zenon, <4>1, <4>2
    <3>4. FirstMb(batch[w] + 1) \in Nat /\ SlotMb(r) \in Nat
      <4>1. hot_send_q[c] \in Seq(Counted)
        BY Zenon, <1>q
      <4>2. hot_send_q[c][d] \in Counted
        BY <2>1, <4>1
      <4>3. SlotMb(r) \in Nat
        BY Zenon, <2>2, <4>2 DEF SlotMb, Counted
      <4>. QED  BY <1>s, <4>3, LoopFacts
    <3>. QED  BY <1>8, <3>2, <3>3, <3>4 DEF SlotLE
  <2>. QED  BY Zenon, <1>3, <2>3, <2>4
<1>11. LastWrite(k, hot_send_q[n][p].txn)
  BY Zenon, <1>s, <1>2, <1>5, <1>8, <1>9, <1>10 DEF OrderInv
<1>12. 1 \in 1 .. N_OPS
  BY Zenon, <1>1, <1>4, <1>7, HasOp
<1>13. AllAccessed(w) => txn[w] \in NotAccel
  <2>. SUFFICES ASSUME AllAccessed(w) PROVE txn[w] \in NotAccel
    BY Zenon
  <2>1. pc[w] = "access" /\ pc[w] \in Busy
    BY Zenon DEF AllAccessed, Busy
  <2>2. phase[w] = "left"
    <3>. SUFFICES ASSUME phase[w] # "left" PROVE FALSE
      BY Zenon
    <3>1. /\ hot_send_q'[node_id[w]] = Append(hot_send_q[node_id[w]], [txn |-> txn[w], mini_batch_num |-> mb[w]])
          /\ hot_send_q[node_id[w]] \in Seq(Counted) /\ ~HotPeriod(w)
      BY Zenon, <1>q, <2>1, ConstantsAssumption DEF AllAccessed, Id, HotPeriod
    <3>2. \A x : Append(hot_send_q[node_id[w]], x) # hot_send_q[node_id[w]]
      <4>. TAKE x
      <4>1. Len(hot_send_q[node_id[w]]) \in Nat
            /\ Len(Append(hot_send_q[node_id[w]], x)) = Len(hot_send_q[node_id[w]]) + 1
        BY <3>1
      <4>. QED  BY <4>1
    <3>. QED  BY Zenon, <3>1, <3>2
  <2>3. txn[w] \in Txns
    BY Zenon, <1>s, <2>1, BusyFacts, BusyBefore
  <2>. QED  BY Zenon, <1>s, <2>1, <2>2, <2>3 DEF LeftInv, NotAccel
<1>14. ASSUME NEW x, LastWrite(k, x) PROVE LastWrite(k, x)'
  BY Zenon, <1>s, <1>12, <1>13, <1>14, LastWriteStep
<1>. QED  BY Zenon, <1>2, <1>4, <1>11, <1>14

\* Every step keeps the order of the slots.
LEMMA OrderStep ==
  ASSUME FiniteSetFacts, OInv, NEW w \in Workers, Step(w) \/ Handle(w), WritesDisjoint'
  PROVE  OrderInv'
BY Zenon, QueueStep, OldSlotOrder, NewSlotOrder DEF OInv

\* The order of the slots, where BeforeHot holds.
LEMMA OrderMeans ==
  ASSUME FiniteSetFacts, OInv PROVE SlotOrder
<1>s. IInv /\ SlotMbInv /\ OrderInv
  BY Zenon DEF OInv
<1>. SUFFICES ASSUME BeforeHot, NEW k \in Keys, row[k].lock_type # "WRITE", NEW s \in Writers(k),
                     \A r \in Writers(k) : SlotLE(r, s)
              PROVE  row[k].tuple \in {hot_send_q[s[1]][s[2]].txn} \cup {t \in Txns : ~do_accel[t]}
  BY Zenon DEF SlotOrder
<1>n. PICK n \in Nodes : \E p \in DOMAIN hot_send_q[n] :
        s = <<n, p>> /\ k \in WrittenKeys(hot_send_q[n][p].txn)
  BY Zenon, WriterAt
<1>1. PICK p \in DOMAIN hot_send_q[n] : s = <<n, p>>
  BY Zenon, <1>n
<1>2. s[1] = n /\ s[2] = p
  BY Zenon, <1>1
<1>3. hot_send_q[n][p] \in Slots(n)
  BY Zenon, <1>1 DEF Slots, Range
<1>4. SlotMb(s) >= Unsent(Leader[n])
  BY Zenon, <1>s, <1>2, <1>3 DEF SlotMbInv, SlotMb
<1>5. \A c \in Nodes : Unsent(Leader[c]) = FirstMb(batch[Leader[c]]) /\ batch[Leader[c]] = batch[Leader[n]]
  <2>1. \A c \in Nodes : Leader[c] \in Workers
    BY Zenon, ConstantsAssumption
  <2>. QED  BY Zenon, <2>1 DEF BeforeHot, Unsent, HasSent
<1>6. NotSent(SlotMb(s))
  BY Zenon, <1>4, <1>5 DEF NotSent
<1>7. LastWrite(k, hot_send_q[s[1]][s[2]].txn)
  BY Zenon, <1>s, <1>6 DEF OrderInv, IsLast
<1>8. ASSUME NEW v \in Workers, NEW l \in 1 .. N_OPS, Holds(v, l), Key(v, l) = k PROVE ~Written(v, l)
  BY Zenon, <1>s, <1>8, HeldRow DEF Written
<1>. QED  BY Zenon, <1>7, <1>8 DEF LastWrite, NotAccel

-----------------------------------------------------------------------------
(* The invariant.                                                           *)

\* The queues of the first batch are filled and nothing has run.
LEMMA OrderInit ==
  ASSUME FiniteSetFacts
  PROVE  Init => OInv
<1>. SUFFICES ASSUME Init PROVE OInv
  BY Zenon
<1>1. IInv /\ CopyFresh
  BY Zenon, InitIInv, CopyInit
<1>i. /\ pc = [w \in Workers |-> "run"] /\ phase = [w \in Workers |-> "mini"]
      /\ batch = [w \in Workers |-> 1] /\ mb = [w \in Workers |-> 1]
      /\ q = [w \in Workers |-> Sched[w][1]] /\ leftover = [w \in Workers |-> <<>>]
      /\ txn = [w \in Workers |-> NoTxn] /\ hot_send_q = [n \in Nodes |-> <<>>]
  BY Zenon DEF Init
<1>e. \A n \in Nodes : hot_send_q[n] = <<>> /\ Slots(n) = {} /\ DOMAIN hot_send_q[n] = {}
  <2>1. DOMAIN <<>> = {} /\ Range(<<>>) = {}
    BY DEF Range
  <2>. QED  BY Zenon, <1>i, <2>1 DEF Slots
<1>n. \A w \in Workers : node_id[w] \in Nodes /\ Leader[node_id[w]] \in Workers
  BY Zenon, ConstantsAssumption
<1>f. FirstMb(1) = 1 /\ N_MINI \in Nat /\ N_MINI > 0
  BY ConstantsAssumption DEF FirstMb
<1>2. ASSUME NEW w \in Workers PROVE LoopInv(w)
  <2>1. Sched[w] \in Seq([Queues -> Seq(my_txns[w])]) /\ Sched[w] # <<>>
    BY Zenon, ConstantsAssumption
  <2>2. 1 <= Len(Sched[w])
    BY <2>1
  <2>3. pc[w] = "run" /\ phase[w] = "mini" /\ batch[w] = 1 /\ mb[w] = 1 /\ txn[w] = NoTxn
    BY Zenon, <1>i
  <2>4. 1 <= 1 /\ 1 < 1 + N_MINI /\ 1 > 0
    BY <1>f
  <2>. QED  BY Zenon, <1>f, <2>2, <2>3, <2>4 DEF LoopInv, Busy
<1>3. ASSUME NEW w \in Workers PROVE LeftInv(w)
  <2>1. DOMAIN leftover[w] = {} /\ phase[w] # "left"
    BY <1>i
  <2>. QED  BY Zenon, <2>1 DEF LeftInv
<1>4. MbClose
  <2>1. \A w \in Workers : mb[w] = 1
    BY Zenon, <1>i
  <2>. QED  BY <2>1 DEF MbClose
<1>5. BatchInv
  <2>1. \A w \in Workers : batch[w] = 1 /\ OpenBatch(w) = 1 /\ phase[w] = "mini"
    BY Zenon, <1>i DEF OpenBatch
  <2>. QED  BY <2>1 DEF BatchInv
<1>6. SlotMbInv
  BY Zenon, <1>e DEF SlotMbInv
<1>7. WroteInv
  <2>1. \A w \in Workers, j \in 1 .. N_OPS : ~Written(w, j)
    BY Zenon, <1>i DEF Written
  <2>. QED  BY Zenon, <2>1 DEF WroteInv
<1>8. OrderInv
  BY Zenon, <1>e, WriterAt DEF OrderInv
<1>9. ASSUME NEW w \in Workers PROVE OnceInv(w)
  <2>1. SentInv(w)
    BY Zenon, <1>e, <1>n DEF SentInv
  <2>2. q[w] = Sched[w][1] /\ leftover[w] = <<>> /\ txn[w] = NoTxn /\ pc[w] \notin Busy /\ batch[w] = 1
    BY Zenon, <1>i DEF Busy
  <2>3. 1 \in Nat /\ 1 > 0 /\ 1 <= Len(Sched[w])
    BY Zenon, <1>2, <2>2, <1>i DEF LoopInv
  <2>4. \A n : Scheduled(w, n) = Range(Sched[w][1][n])
    BY Zenon, <2>2 DEF Scheduled
  <2>5. ASSUME NEW n \in Queues, NEW t \in Scheduled(w, n) PROVE Places(w, n, t) = 1
    <3>1. Count(q[w][n], t) = 1 /\ t \in Txns
      <4>. DEFINE s == Sched[w][1][n]
      <4>1. t \in Range(s)
        BY Zenon, <2>4, <2>5
      <4>2. Range(s) \subseteq my_txns[w] /\ \A u \in Range(s) : Count(s, u) = 1
        BY Zenon, <2>3, <2>5, ScheduledFacts
      <4>3. my_txns[w] \subseteq Txns
        BY Zenon, ConstantsAssumption
      <4>. QED  BY Zenon, <2>2, <4>1, <4>2, <4>3
    <3>2. ~Running(w, t)
      <4>1. NoTxn \notin Txns
        BY Zenon, ConstantsAssumption
      <4>. QED  BY Zenon, <2>2, <3>1, <4>1 DEF Running
    <3>3. SlotCount(w, t) = 0
      <4>1. {p \in DOMAIN hot_send_q[node_id[w]] : hot_send_q[node_id[w]][p].txn = t} = {}
        BY Zenon, <1>e, <1>n
      <4>. QED  BY Zenon, <4>1 DEF SlotCount, FiniteSetFacts, EmptyFact
    <3>4. Count(leftover[w], t) = 0
      BY Zenon, <2>2, CountOnce
    <3>5. Places(w, n, t) = 1 + 0 + 0 + 0
      BY Zenon, <3>1, <3>2, <3>3, <3>4 DEF Places
    <3>. QED  BY <3>5
  <2>6. \A n \in Queues : Range(q[w][n]) \subseteq Scheduled(w, n)
    BY Zenon, <2>2, <2>4
  <2>. QED  BY Zenon, <2>1, <2>2, <2>5, <2>6 DEF OnceInv, OpenInv
<1>. QED  BY Zenon, <1>1, <1>2, <1>3, <1>4, <1>5, <1>6, <1>7, <1>8, <1>9 DEF OInv

\* Every step of the program keeps the invariant.
LEMMA OrderNext ==
  ASSUME FiniteSetFacts
  PROVE  OInv /\ [Next]_vars => OInv'
<1>. SUFFICES ASSUME OInv, [Next]_vars PROVE OInv'
  BY Zenon
<1>s. /\ IInv /\ CopyFresh /\ MbClose /\ BatchInv /\ SlotMbInv /\ WroteInv /\ OrderInv
      /\ \A w \in Workers : LoopInv(w) /\ LeftInv(w) /\ OnceInv(w)
  BY Zenon DEF OInv
<1>i. IInv' /\ CopyFresh' /\ WritesDisjoint'
  <2>1. IInv' /\ CopyFresh'
    BY Zenon, <1>s, IInvStep, CopyStep
  <2>2. IInv' => WritesDisjoint'
    BY Zenon DEF IInv
  <2>. QED  BY Zenon, <2>1, <2>2
<1>1. ASSUME NEW w \in Workers, Step(w) \/ Handle(w) PROVE OInv'
  <2>1. \A v \in Workers : LoopInv(v)'
    BY Zenon, <1>s, <1>1, LoopOther, LoopSelf
  <2>2. \A v \in Workers : LeftInv(v)'
    BY Zenon, <1>s, <1>1, LeftStep
  <2>3. MbClose' /\ BatchInv' /\ SlotMbInv'
    BY Zenon, <1>s, <1>1, CloseStep, BatchStep, SlotMbStep
  <2>4. WroteInv' /\ OrderInv'
    BY Zenon, <1>s, <1>i, <1>1, WroteStep, OrderStep
  <2>5. \A v \in Workers : OnceInv(v)'
    BY Zenon, <1>1, OpenInvStep, SentStepOwn DEF OnceInv
  <2>. QED  BY Zenon, <1>i, <2>1, <2>2, <2>3, <2>4, <2>5 DEF OInv
<1>2. CASE UNCHANGED vars
  <2>1. /\ UNCHANGED <<row, op, phase, mb, q, leftover, batch>>
        /\ UNCHANGED <<txn, do_accel, pc, i, hot_send_q, rc>>
    BY Zenon, <1>2 DEF vars
  <2>2. \A v \in Workers : LoopInv(v)' /\ LeftInv(v)'
    BY Zenon, <1>s, <2>1 DEF LoopInv, LeftInv
  <2>3. MbClose' /\ BatchInv'
    BY Zenon, <1>s, <2>1 DEF MbClose, BatchInv, OpenBatch, InBatchBar
  <2>4. (\A w : Unsent(w)' = Unsent(w) /\ OpenBatch(w)' = OpenBatch(w)) /\ \A n : Slots(n)' = Slots(n)
    BY Zenon, <2>1 DEF Unsent, HasSent, OpenBatch, Slots
  <2>5. SlotMbInv'
    BY Zenon, <1>s, <2>1, <2>4 DEF SlotMbInv
  <2>6. \A v, l : /\ Holds(v, l)' <=> Holds(v, l)
                  /\ Written(v, l)' <=> Written(v, l)
                  /\ IsLocal(v, l)' <=> IsLocal(v, l)
                  /\ Key(v, l)' = Key(v, l)
    BY ZenonT(30), <2>1 DEF Holds, Written, IsLocal, Key, Mode, Ops, ops
  <2>7. WroteInv'
    BY Zenon, <1>s, <2>1, <2>6 DEF WroteInv
  <2>8. OrderInv'
    <3>1. \A k : Writers(k)' = Writers(k)
      BY <2>1 DEF Writers
    <3>2. \A k, t : LastWrite(k, t)' <=> LastWrite(k, t)
      BY Zenon, <2>1, <2>6 DEF LastWrite, NotAccel
    <3>3. /\ \A m : NotSent(m)' <=> NotSent(m)
          /\ \A s : SlotMb(s)' = SlotMb(s)
          /\ \A r, s : SlotLE(r, s)' <=> SlotLE(r, s)
      BY Zenon, <2>1, <2>4 DEF NotSent, SlotMb, SlotLE
    <3>4. \A k, s : IsLast(k, s)' <=> IsLast(k, s)
      BY Zenon, <3>1, <3>3 DEF IsLast
    <3>. QED  BY Zenon, <1>s, <2>1, <3>1, <3>2, <3>3, <3>4 DEF OrderInv
  <2>9. \A v \in Workers : OnceInv(v)'
    <3>1. \A v, t : SlotCount(v, t)' = SlotCount(v, t) /\ (Running(v, t)' <=> Running(v, t))
      BY Zenon, <2>1 DEF SlotCount, Running
    <3>2. \A v, n, t : Places(v, n, t)' = Places(v, n, t) /\ Scheduled(v, n)' = Scheduled(v, n)
      BY Zenon, <2>1, <3>1 DEF Places, Scheduled
    <3>3. \A v : OpenInv(v)' <=> OpenInv(v)
      BY Zenon, <2>1, <3>2 DEF OpenInv, MbQueue, orig_mb_num
    <3>4. \A v : (IsOpen(v)' <=> IsOpen(v)) /\ (SentInv(v)' <=> SentInv(v))
      BY Zenon, <2>1, <2>4 DEF IsOpen, InBatchBar, SentInv
    <3>. QED  BY Zenon, <1>s, <3>3, <3>4 DEF OnceInv
  <2>. QED  BY Zenon, <1>i, <2>2, <2>3, <2>5, <2>7, <2>8, <2>9 DEF OInv
<1>. QED  BY Zenon, <1>1, <1>2 DEF Next, Terminated

-----------------------------------------------------------------------------
(* The theorems.                                                            *)
INSTANCE FiniteSetTheorems

\* The library has the facts on finite sets that the lemmas assume.
LEMMA FiniteFacts == FiniteSetFacts
<1>1. EmptyFact
  BY Zenon, FS_EmptySet DEF EmptyFact
<1>2. TypeFact
  BY Zenon, FS_CardinalityType DEF TypeFact
<1>3. IntervalFact
  BY Zenon, FS_Interval DEF IntervalFact
<1>4. SubsetFact
  BY Zenon, FS_Subset DEF SubsetFact
<1>5. AddFact
  BY Zenon, FS_AddElement DEF AddFact
<1>6. RemoveFact
  BY Zenon, FS_RemoveElement DEF RemoveFact
<1>7. SingletonFact
  BY Zenon, FS_Singleton DEF SingletonFact
<1>8. ProductFact
  BY Zenon, FS_Product DEF ProductFact
<1>9. BijectionFact
  BY Zenon, FS_Bijection DEF BijectionFact
<1>. QED  BY Zenon, <1>1, <1>2, <1>3, <1>4, <1>5, <1>6, <1>7, <1>8, <1>9 DEF FiniteSetFacts

\* The invariant holds in every reachable state of the workers and handlers.
THEOREM Invariance == Spec => []IInv
<1>1. Init => IInv
  BY Zenon, FiniteFacts, InitIInv
<1>2. IInv /\ [Next]_vars => IInv'
  BY Zenon, FiniteFacts, IInvStep
<1>. QED  BY <1>1, <1>2, PTL DEF Spec

\* The state of rows, workers, logs, queues and slots keeps its type.
THEOREM TypeCorrect == Spec => []TypeOK
<1>1. IInv => TypeOK
  BY Zenon DEF IInv
<1>. QED  BY <1>1, Invariance, PTL

\* The lock word of a row agrees with the operations of all nodes that hold
\* it: a writer is alone, and no release finds the row in another mode.
THEOREM LocksSound == Spec => []LockInv
<1>1. IInv => LockInv
  BY Zenon DEF IInv
<1>. QED  BY <1>1, Invariance, PTL

\* The putresponses counter of Undolog::clear counts the releases that are
\* not acknowledged.
THEOREM PutsAreCounted == Spec => []PutsCounted
<1>1. IInv => PutsCounted
  BY Zenon DEF IInv
<1>. QED  BY <1>1, Invariance, PTL

\* Two nodes never write the same cold key in the same mini-batch: what the
\* flow-order test of mb_allow_lock is for.
THEOREM MiniBatchesDisjoint == Spec => []WritesDisjoint
<1>1. IInv => WritesDisjoint
  BY Zenon DEF IInv
<1>. QED  BY <1>1, Invariance, PTL

\* The assert of mb_allow_lock never fails, for a local lock or a remote one.
THEOREM AllowLockAssert == Spec => []MbInOrder
BY AllowLockMeans, Invariance, PTL

\* An answer to a lock request always finds the worker that waits for it.
THEOREM AnswersAwaited == Spec => []AnswerAwaited
BY AnswersMeans, Invariance, PTL

\* The copy a remote lock brought stays equal to the row until its holder
\* writes it (TupleGetRes, TuplePutReq): no update is lost.
THEOREM CopiesFresh == Spec => []CopyFresh
<1>1. IInv /\ CopyFresh /\ [Next]_vars => CopyFresh'
  BY Zenon, FiniteFacts, CopyStep
<1>. QED  BY <1>1, CopyInit, Invariance, PTL DEF Spec

\* The inductive invariant of the batches, slots and queues.
THEOREM OrderInvariant == Spec => []OInv
<1>1. Init => OInv
  BY Zenon, FiniteFacts, OrderInit
<1>2. OInv /\ [Next]_vars => OInv'
  BY Zenon, FiniteFacts, OrderNext
<1>. QED  BY <1>1, <1>2, PTL DEF Spec

\* Until the hot period the last slot that wrote a row (the highest mini-batch, then
\* the highest position) holds the transaction whose write the row has, left-overs
\* aside: the switch replays the slots in the order in which the rows were written.
THEOREM SlotsOrdered == Spec => []SlotOrder
<1>1. OInv => SlotOrder
  BY Zenon, FiniteFacts, OrderMeans
<1>. QED  BY <1>1, OrderInvariant, PTL

\* run_txn neither loses nor repeats a transaction, and no slot outlives the hot
\* period, whatever the number of workers, of transactions and of batches.
THEOREM EachOnce == Spec => []ExactlyOnce
BY OrderInvariant, OnceMeans, PTL
=============================================================================
