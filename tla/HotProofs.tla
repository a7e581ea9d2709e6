----------------------------- MODULE HotProofs ------------------------------
(***************************************************************************)
(* The theorems about hot transactions, for any number of nodes, windows,   *)
(* packets and cells.                                                       *)
(*                                                                         *)
(* HotPeriod: a leader's count of wait_nodes calls determines its batch and *)
(* its place in run_hot_period.  Unless a batch is uneven, the counts mean  *)
(* the same place at all nodes, and no node has returned from a call that   *)
(* another has not made.                                                    *)
(*                                                                         *)
(* OnePass implements HotStore: a packet's accesses, spread over the        *)
(* pipeline, amount to one atomic step at the moment it enters.             *)
(***************************************************************************)
EXTENDS HotPeriod, OnePass, TLAPS

-----------------------------------------------------------------------------
(* The hot period.                                                          *)

\* The mini-batch in which batch b begins, and where a node is or, in wait_nodes, goes.
Begin(b) == 1 + (b - 1) * (N_MINI + 1)
Place(n) == IF pc[n] = "bar" THEN ret[n] ELSE pc[n]

\* The calls of wait_nodes before batch b: three for each batch and, for each in which the node
\* queued something, one for each mini-batch.
Full(E, b) == {x \in 1 .. (b - 1) : x \notin E}
FullBatches(n, b) == Cardinality(Full(empties[n], b))
Start(n, b) == 3 * (b - 1) + (N_MINI + 1) * FullBatches(n, b)

HTypes ==
  /\ pc \in [Nodes -> {"cold", "start", "first", "window", "over", "done", "bar"}]
  /\ ret \in [Nodes -> {"start", "first", "window", "over"}]
  /\ batch \in [Nodes -> Nat \ {0}] /\ mini_batch_num \in [Nodes -> Nat] /\ past_mb_num \in [Nodes -> Nat]
  /\ send_q \in [Nodes -> [0 .. CAPACITY - 1 -> Nat]]
  /\ send_q_tail \in [Nodes -> 0 .. CAPACITY] /\ q_p \in [Nodes -> 0 .. CAPACITY]
  /\ calls \in [Nodes -> Nat] /\ togo \in [Nodes -> Nat] /\ sent \in [Nodes -> Nat]
  /\ empties \in [Nodes -> SUBSET Nat]

\* The mini-batch numbers, and the queue of the current batch in the order of its mini-batches.
QueueInv(n) ==
  /\ mini_batch_num[n] = Begin(IF Place(n) \in {"cold", "done"} THEN batch[n] ELSE batch[n] + 1)
  /\ empties[n] \subseteq 1 .. batch[n]
  /\ past_mb_num[n] = Begin(IF Place(n) = "over" THEN batch[n] + 1 ELSE batch[n])
  /\ Place(n) \in {"cold", "done"} => send_q_tail[n] = 0 /\ batch[n] \notin empties[n]
  /\ Place(n) \notin {"cold", "done"} => (send_q_tail[n] = 0 <=> batch[n] \in empties[n])
  /\ \A p \in 0 .. send_q_tail[n] - 1 :
       /\ Begin(batch[n]) <= send_q[n][p] /\ send_q[n][p] < Begin(batch[n]) + N_MINI
       /\ p > 0 => send_q[n][p - 1] <= send_q[n][p]
  /\ send_q_tail[n] = 0 => send_q[n][0] <= Begin(batch[n])
  /\ Place(n) = "first" => q_p[n] = 0
  /\ Place(n) = "window" => q_p[n] <= send_q_tail[n]

\* The mini-batch that a node sends next, or the first of the next batch.
Dest(n) == IF q_p[n] < send_q_tail[n] THEN send_q[n][q_p[n]] ELSE mini_batch_num[n]

\* The calls a node has made in its batch when it comes to its place.
Offset(n) ==
  CASE Place(n) \in {"cold", "done"} -> 0
    [] Place(n) = "start" -> 1
    [] Place(n) = "first" -> 2
    [] Place(n) = "window" -> IF batch[n] \in empties[n] THEN 2 ELSE 2 + Dest(n) - Begin(batch[n])
    [] Place(n) = "over" -> IF batch[n] \in empties[n] THEN 3 ELSE 3 + (N_MINI + 1)

Remaining(n) == IF pc[n] = "bar" THEN togo[n] - 1 ELSE 0
Returned(n) == IF pc[n] = "bar" THEN calls[n] - 1 ELSE calls[n]

CallInv(n) ==
  /\ calls[n] + Remaining(n) = Start(n, batch[n]) + Offset(n)
  /\ pc[n] = "bar" => togo[n] >= 1 /\ (ret[n] # "window" => togo[n] = 1) /\ calls[n] >= 1
  /\ Place(n) = "window" => Returned(n) >= Start(n, batch[n]) + 2

\* What a node has sent is of an earlier batch, or it has come to its mini-batch in this one.
SentInv(n) ==
  /\ sent[n] < Begin(batch[n]) + N_MINI
  /\ \/ sent[n] < Begin(batch[n])
     \/ Returned(n) >= Start(n, batch[n]) + 2 + (sent[n] - Begin(batch[n]))

HInv ==
  /\ HTypes
  /\ \A n \in Nodes : QueueInv(n) /\ CallInv(n) /\ SentInv(n)
  /\ \A n, m \in Nodes : calls[m] >= Returned(n)

HNode(n) == QueueInv(n) /\ CallInv(n) /\ SentInv(n)

-----------------------------------------------------------------------------
(* Counting.                                                                *)

\* What the counting rests on: a set of numbers has a least one, and how many of the batches
\* before b are outside a set.  HotCounts proves it.
CountFacts ==
  /\ \A T \in SUBSET Nat : T # {} => \E x \in T : \A y \in T : x <= y
  /\ \A E : Cardinality(Full(E, 1)) = 0
  /\ \A E : \A b \in Nat \ {0} :
       /\ Cardinality(Full(E, b)) \in Nat
       /\ Cardinality(Full(E, b + 1)) = Cardinality(Full(E, b)) + (IF b \in E THEN 0 ELSE 1)
       /\ \A a \in Nat \ {0} : a < b => Cardinality(Full(E, a + 1)) <= Cardinality(Full(E, b))

\* The mini-batches of a batch.
LEMMA BeginNext ==
  ASSUME NEW b \in Nat \ {0}
  PROVE  Begin(b) \in Nat \ {0} /\ Begin(b + 1) = Begin(b) + N_MINI + 1
<1>1. N_MINI \in Nat
  BY Zenon, HotPeriodAssumption
<1>2. \A x, k \in Nat : x * k \in Nat
  OBVIOUS
<1>3. \A x, k \in Int : (x + 1) * k = x * k + k
  OBVIOUS
<1>4. (b - 1) * (N_MINI + 1) \in Nat
  BY <1>1, <1>2
<1>5. ((b + 1) - 1) * (N_MINI + 1) = (b - 1) * (N_MINI + 1) + (N_MINI + 1)
  <2>1. (b + 1) - 1 = (b - 1) + 1 /\ b - 1 \in Int /\ N_MINI + 1 \in Int
    BY <1>1
  <2>. QED  BY Zenon, <1>3, <2>1
<1>. QED  BY <1>1, <1>4, <1>5 DEF Begin

\* The batches with something queued.
LEMMA FullNext ==
  ASSUME CountFacts, NEW n, NEW b \in Nat \ {0}
  PROVE  /\ FullBatches(n, b) \in Nat
         /\ FullBatches(n, b + 1) = FullBatches(n, b) + (IF b \in empties[n] THEN 0 ELSE 1)
         /\ \A a \in Nat \ {0} : a < b => FullBatches(n, a + 1) <= FullBatches(n, b)
BY Zenon DEF CountFacts, FullBatches

\* The calls of a batch.
LEMMA StartNext ==
  ASSUME CountFacts, NEW n, NEW b \in Nat \ {0}
  PROVE  /\ Start(n, b) \in Nat
         /\ Start(n, b + 1) = Start(n, b) + 3 + (IF b \in empties[n] THEN 0 ELSE N_MINI + 1)
<1>. DEFINE F == FullBatches(n, b)
            more == IF b \in empties[n] THEN 0 ELSE 1
<1>1. F \in Nat /\ FullBatches(n, b + 1) = F + more /\ more \in {0, 1} /\ N_MINI \in Nat
  BY Zenon, FullNext, HotPeriodAssumption
<1>2. \A k, x \in Int : k * (x + 1) = k * x + k /\ k * (x + 0) = k * x
  OBVIOUS
<1>3. \A k, x \in Nat : k * x \in Nat
  OBVIOUS
<1>4. (N_MINI + 1) * F \in Nat
  BY <1>1, <1>3
<1>5. (N_MINI + 1) * (F + more) = (N_MINI + 1) * F + (IF b \in empties[n] THEN 0 ELSE N_MINI + 1)
  <2>0. N_MINI + 1 \in Int /\ F \in Int /\ N_MINI + 1 \in Nat
    BY <1>1
  <2>1. CASE b \in empties[n]
    <3>1. (N_MINI + 1) * (F + 0) = (N_MINI + 1) * F
      BY Zenon, <1>2, <2>0
    <3>. QED  BY <1>4, <2>1, <3>1
  <2>2. CASE b \notin empties[n]
    <3>1. (N_MINI + 1) * (F + 1) = (N_MINI + 1) * F + (N_MINI + 1)
      BY Zenon, <1>2, <2>0
    <3>. QED  BY Zenon, <2>2, <3>1
  <2>. QED  BY Zenon, <2>1, <2>2
<1>. HIDE DEF F, more
<1>6. Start(n, b) = 3 * (b - 1) + (N_MINI + 1) * F
  BY Zenon DEF Start, F
<1>7. Start(n, b + 1) = 3 * ((b + 1) - 1) + (N_MINI + 1) * (F + more)
  BY Zenon, <1>1 DEF Start
<1>. QED  BY <1>1, <1>4, <1>5, <1>6, <1>7

-----------------------------------------------------------------------------
(* The steps.                                                               *)

\* What a node keeps when nothing of it changes.
LEMMA IdleKeeps ==
  ASSUME NEW m, HNode(m),
         pc'[m] = pc[m], ret'[m] = ret[m], togo'[m] = togo[m], calls'[m] = calls[m],
         batch'[m] = batch[m], mini_batch_num'[m] = mini_batch_num[m],
         past_mb_num'[m] = past_mb_num[m], send_q'[m] = send_q[m],
         send_q_tail'[m] = send_q_tail[m], q_p'[m] = q_p[m], sent'[m] = sent[m],
         empties'[m] = empties[m]
  PROVE  HNode(m)' /\ Returned(m)' = Returned(m)
<1>1. Place(m)' = Place(m) /\ Returned(m)' = Returned(m) /\ Remaining(m)' = Remaining(m)
  BY Zenon DEF Place, Returned, Remaining
<1>2. Start(m, batch[m])' = Start(m, batch[m])
  BY Zenon DEF Start, FullBatches
<1>3. Begin(batch[m])' = Begin(batch[m]) /\ Begin(batch[m] + 1)' = Begin(batch[m] + 1)
  BY Zenon DEF Begin
<1>4. Dest(m)' = Dest(m)
  BY Zenon DEF Dest
<1>5. Offset(m)' = Offset(m)
  BY Zenon, <1>1, <1>3, <1>4 DEF Offset
<1>6. QueueInv(m)'
  BY Zenon, <1>1, <1>3 DEF HNode, QueueInv, Begin
<1>7. CallInv(m)'
  BY Zenon, <1>1, <1>2, <1>5 DEF HNode, CallInv
<1>8. SentInv(m)'
  BY Zenon, <1>1, <1>2, <1>3 DEF HNode, SentInv
<1>. QED  BY Zenon, <1>1, <1>6, <1>7, <1>8 DEF HNode

\* A node that does not wait has returned from all its calls.
LEMMA Settled ==
  ASSUME HInv, NEW n \in Nodes, pc[n] # "bar"
  PROVE  /\ Place(n) = pc[n] /\ Returned(n) = calls[n]
         /\ calls[n] = Start(n, batch[n]) + Offset(n)
         /\ \A m \in Nodes : calls[m] >= calls[n]
<1>1. calls[n] \in Nat
  BY Zenon DEF HInv, HTypes
<1>2. Remaining(n) = 0 /\ Returned(n) = calls[n] /\ Place(n) = pc[n]
  BY Zenon DEF Remaining, Returned, Place
<1>. QED  BY <1>1, <1>2 DEF HInv, CallInv

\* What is known of a queue that is not empty.
LEMMA QueueFacts ==
  ASSUME CountFacts, HInv, NEW n \in Nodes
  PROVE  /\ batch[n] \in Nat \ {0} /\ CAPACITY \in Nat \ {0} /\ N_MINI \in Nat \ {0}
         /\ calls[n] \in Nat /\ send_q_tail[n] \in Nat /\ q_p[n] \in Nat
         /\ Begin(batch[n]) \in Nat /\ Begin(batch[n] + 1) = Begin(batch[n]) + N_MINI + 1
         /\ Start(n, batch[n]) \in Nat
         /\ \A p \in 0 .. send_q_tail[n] - 1 :
              /\ send_q[n][p] \in Nat
              /\ Begin(batch[n]) <= send_q[n][p] /\ send_q[n][p] < Begin(batch[n]) + N_MINI
<1>1. HTypes /\ QueueInv(n)
  BY Zenon DEF HInv
<1>2. /\ batch[n] \in Nat \ {0} /\ CAPACITY \in Nat \ {0} /\ N_MINI \in Nat \ {0} /\ calls[n] \in Nat
      /\ send_q_tail[n] \in 0 .. CAPACITY /\ q_p[n] \in 0 .. CAPACITY
      /\ send_q[n] \in [0 .. CAPACITY - 1 -> Nat]
  BY Zenon, <1>1, HotPeriodAssumption DEF HTypes
<1>3. /\ Begin(batch[n]) \in Nat /\ Begin(batch[n] + 1) = Begin(batch[n]) + N_MINI + 1
      /\ Start(n, batch[n]) \in Nat
  BY Zenon, <1>2, BeginNext, StartNext
<1>4. send_q_tail[n] \in Nat /\ q_p[n] \in Nat
  BY <1>2
<1>5. \A p \in 0 .. send_q_tail[n] - 1 : send_q[n][p] \in Nat
  BY <1>2
<1>6. \A p \in 0 .. send_q_tail[n] - 1 :
        Begin(batch[n]) <= send_q[n][p] /\ send_q[n][p] < Begin(batch[n]) + N_MINI
  BY Zenon, <1>1 DEF QueueInv
<1>. QED  BY Zenon, <1>2, <1>3, <1>4, <1>5, <1>6

\* Every step keeps the invariant.
LEMMA HStepInv ==
  ASSUME CountFacts, HInv, NEW n \in Nodes, HStep(n)
  PROVE  HInv'
\* What WaitNodes does to the node that calls it and to the others.
<1>Waits. ASSUME HTypes, NEW k \in Nat, NEW next \in {"start", "first", "window", "over"},
                WaitNodes(n, k, next)
       PROVE  /\ Place(n)' = next /\ Returned(n)' = calls[n] /\ calls'[n] + Remaining(n)' = calls[n] + k
              /\ pc'[n] = "bar" => togo'[n] = k /\ k >= 1 /\ calls'[n] >= 1 /\ ret'[n] = next
              /\ calls'[n] \in Nat /\ calls'[n] >= calls[n]
              /\ \A m \in Nodes \ {n} : /\ pc'[m] = pc[m] /\ ret'[m] = ret[m]
                                         /\ togo'[m] = togo[m] /\ calls'[m] = calls[m]
              /\ pc' \in [Nodes -> {"cold", "start", "first", "window", "over", "done", "bar"}]
              /\ ret' \in [Nodes -> {"start", "first", "window", "over"}]
              /\ togo' \in [Nodes -> Nat] /\ calls' \in [Nodes -> Nat]
  <2>. USE <1>Waits
  <2>1. /\ pc'[n] = IF k = 0 THEN next ELSE "bar"
        /\ ret'[n] = next /\ togo'[n] = k
        /\ calls'[n] = IF k = 0 THEN calls[n] ELSE calls[n] + 1
        /\ calls[n] \in Nat /\ calls'[n] \in Nat /\ next # "bar"
    BY DEF WaitNodes, HTypes
  <2>2. /\ pc' \in [Nodes -> {"cold", "start", "first", "window", "over", "done", "bar"}]
        /\ ret' \in [Nodes -> {"start", "first", "window", "over"}]
        /\ togo' \in [Nodes -> Nat] /\ calls' \in [Nodes -> Nat]
    BY DEF WaitNodes, HTypes
  <2>3. \A m \in Nodes \ {n} : /\ pc'[m] = pc[m] /\ ret'[m] = ret[m]
                               /\ togo'[m] = togo[m] /\ calls'[m] = calls[m]
    BY Zenon DEF WaitNodes, HTypes
  <2>4. Place(n)' = next /\ Returned(n)' = calls[n] /\ calls'[n] + Remaining(n)' = calls[n] + k
    BY <2>1 DEF Place, Returned, Remaining
  <2>. QED  BY <2>1, <2>2, <2>3, <2>4
\* The calls of a node that waits on its way to its next place.
<1>OnItsWay. ASSUME NEW k \in Nat, NEW next \in {"start", "first", "window", "over"},
                WaitNodes(n, k, next), batch'[n] = batch[n],
                Start(n, batch[n])' = Start(n, batch[n]),
                calls[n] + k = Start(n, batch[n]) + Offset(n)',
                next # "window" => k <= 1,
                next = "window" => calls[n] >= Start(n, batch[n]) + 2
       PROVE  CallInv(n)' /\ (sent'[n] = sent[n] => SentInv(n)')
  <2>. USE <1>OnItsWay
  <2>. DEFINE S == Start(n, batch[n])
              B == Begin(batch[n])
  <2>1. HTypes /\ CallInv(n) /\ SentInv(n)
    BY Zenon DEF HInv
  <2>2. /\ Place(n)' = next /\ Returned(n)' = calls[n] /\ calls'[n] + Remaining(n)' = calls[n] + k
        /\ pc'[n] = "bar" => togo'[n] = k /\ k >= 1 /\ calls'[n] >= 1 /\ ret'[n] = next
    BY Zenon, <2>1, <1>Waits
  <2>3. Start(n, batch[n])' = S /\ Begin(batch[n])' = B
    BY Zenon DEF Begin
  <2>4. batch[n] \in Nat \ {0} /\ calls[n] \in Nat /\ sent[n] \in Nat
    BY Zenon, <2>1 DEF HTypes
  <2>5. S \in Nat /\ B \in Nat /\ N_MINI \in Nat
    BY Zenon, <2>4, StartNext, BeginNext, HotPeriodAssumption
  <2>6. Returned(n) \in Int /\ Returned(n) <= calls[n]
    BY <2>4 DEF Returned
  <2>. HIDE DEF S, B
  <2>7. CallInv(n)'
    <3>1. calls'[n] + Remaining(n)' = S + Offset(n)'
      BY Zenon, <2>2 DEF S
    <3>2. pc'[n] = "bar" => togo'[n] >= 1 /\ (ret'[n] # "window" => togo'[n] = 1) /\ calls'[n] >= 1
      BY <2>2
    <3>3. Place(n)' = "window" => Returned(n)' >= S + 2
      BY Zenon, <2>2 DEF S
    <3>. QED  BY Zenon, <2>3, <3>1, <3>2, <3>3 DEF CallInv
  <2>8. ASSUME sent'[n] = sent[n]
        PROVE  SentInv(n)'
    <3>1. sent[n] < B + N_MINI /\ (sent[n] < B \/ Returned(n) >= S + 2 + (sent[n] - B))
      BY Zenon, <2>1 DEF SentInv, S, B
    <3>2. sent[n] < B \/ calls[n] >= S + 2 + (sent[n] - B)
      BY <2>4, <2>5, <2>6, <3>1
    <3>. QED  BY Zenon, <2>2, <2>3, <2>8, <3>1, <3>2 DEF SentInv
  <2>. QED  BY Zenon, <2>7, <2>8
\* What the steps of a node leave alone.
<1>SameBatch. ASSUME NEW p, batch'[p] = batch[p], empties'[p] = empties[p]
       PROVE  Start(p, batch[p])' = Start(p, batch[p]) /\ Begin(batch[p])' = Begin(batch[p])
              /\ Begin(batch[p] + 1)' = Begin(batch[p] + 1)
  BY <1>SameBatch, Zenon DEF Start, FullBatches, Begin
\* A call of wait_nodes returns.
<1>LeaveBarrierStep. ASSUME LeaveBarrier(n)
       PROVE  HNode(n)'
  <2>. USE <1>LeaveBarrierStep
  <2>. DEFINE k == togo[n] - 1
              next == ret[n]
  <2>1. HTypes /\ CallInv(n) /\ QueueInv(n)
    BY Zenon DEF HInv
  <2>2. /\ pc[n] = "bar" /\ WaitNodes(n, k, next)
        /\ UNCHANGED <<batch, mini_batch_num, past_mb_num, send_q, send_q_tail, q_p, sent, empties>>
    BY Zenon DEF LeaveBarrier, queue
  <2>3. /\ next \in {"start", "first", "window", "over"} /\ calls[n] \in Nat /\ togo[n] \in Nat
        /\ batch[n] \in Nat \ {0}
    BY Zenon, <2>1 DEF HTypes
  <2>4. k \in Nat /\ (next # "window" => k <= 1)
    BY <2>1, <2>2, <2>3 DEF CallInv
  <2>5. Place(n) = next /\ Place(n)' = next /\ Remaining(n) = k /\ Returned(n) = calls[n] - 1
    <3>1. Place(n)' = next
      BY Zenon, <2>1, <2>2, <2>3, <2>4, <1>Waits
    <3>. QED  BY Zenon, <2>2, <3>1 DEF Place, Remaining, Returned
  <2>6. Start(n, batch[n])' = Start(n, batch[n]) /\ Begin(batch[n])' = Begin(batch[n])
        /\ Begin(batch[n] + 1)' = Begin(batch[n] + 1)
    BY Zenon, <2>2, <1>SameBatch
  <2>7. Offset(n)' = Offset(n)
    <3>1. Dest(n)' = Dest(n)
      BY Zenon, <2>2 DEF Dest
    <3>. QED  BY Zenon, <2>2, <2>5, <2>6, <3>1 DEF Offset
  <2>8. calls[n] + k = Start(n, batch[n]) + Offset(n)'
    BY Zenon, <2>1, <2>5, <2>7 DEF CallInv
  <2>9. next = "window" => calls[n] >= Start(n, batch[n]) + 2
    BY <2>1, <2>3, <2>5, StartNext DEF CallInv
  <2>. HIDE DEF k, next
  <2>10. CallInv(n)' /\ SentInv(n)'
    BY Zenon, <2>2, <2>3, <2>4, <2>6, <2>8, <2>9, <1>OnItsWay
  <2>11. QueueInv(n)'
    BY Zenon, <2>1, <2>2, <2>5, <2>6 DEF QueueInv, Begin
  <2>. QED  BY Zenon, <2>10, <2>11 DEF HNode
\* The cold part of a batch queues the transactions of its mini-batches.
<1>ColdStep. ASSUME Cold(n)
       PROVE  HNode(n)' /\ empties' \in [Nodes -> SUBSET Nat] /\ send_q' \in [Nodes -> [0 .. CAPACITY - 1 -> Nat]]
              /\ send_q_tail' \in [Nodes -> 0 .. CAPACITY] /\ mini_batch_num' \in [Nodes -> Nat]
  <2>. USE <1>ColdStep
  <2>. DEFINE b == batch[n]
  <2>1. HTypes /\ CallInv(n) /\ QueueInv(n)
    BY Zenon DEF HInv
  <2>2. PICK k \in 0 .. CAPACITY :
         \E s \in [0 .. k - 1 -> mini_batch_num[n] .. mini_batch_num[n] + N_MINI - 1] :
           /\ \A p \in 1 .. k - 1 : s[p - 1] <= s[p]
           /\ send_q' = [send_q EXCEPT ![n] = [p \in DOMAIN @ |-> IF p < k THEN s[p] ELSE @[p]]]
           /\ send_q_tail' = [send_q_tail EXCEPT ![n] = k]
           /\ empties' = [empties EXCEPT ![n] = IF k = 0 THEN @ \cup {batch[n]} ELSE @]
    BY Zenon DEF Cold
  <2>3. PICK s \in [0 .. k - 1 -> mini_batch_num[n] .. mini_batch_num[n] + N_MINI - 1] :
           /\ \A p \in 1 .. k - 1 : s[p - 1] <= s[p]
           /\ send_q' = [send_q EXCEPT ![n] = [p \in DOMAIN @ |-> IF p < k THEN s[p] ELSE @[p]]]
           /\ send_q_tail' = [send_q_tail EXCEPT ![n] = k]
           /\ empties' = [empties EXCEPT ![n] = IF k = 0 THEN @ \cup {batch[n]} ELSE @]
    BY Zenon, <2>2
  <2>4. /\ pc[n] = "cold" /\ WaitNodes(n, 1, "start")
        /\ mini_batch_num' = [mini_batch_num EXCEPT ![n] = @ + N_MINI + 1]
        /\ UNCHANGED <<batch, past_mb_num, q_p, sent>>
    BY Zenon DEF Cold
  <2>5. /\ b \in Nat \ {0} /\ mini_batch_num[n] \in Nat /\ N_MINI \in Nat \ {0} /\ CAPACITY \in Nat \ {0}
        /\ send_q[n] \in [0 .. CAPACITY - 1 -> Nat] /\ empties[n] \in SUBSET Nat /\ calls[n] \in Nat
    BY Zenon, <2>1, HotPeriodAssumption DEF HTypes
  <2>6. Begin(b) \in Nat /\ Begin(b + 1) = Begin(b) + N_MINI + 1 /\ Start(n, b) \in Nat
    BY Zenon, <2>5, BeginNext, StartNext
  <2>7. Place(n) = "cold" /\ Place(n)' = "start" /\ calls[n] = Start(n, b) + Offset(n)
    BY Zenon, <2>1, <2>4, <1>Waits, Settled
  <2>8. /\ mini_batch_num[n] = Begin(b) /\ past_mb_num[n] = Begin(b) /\ send_q_tail[n] = 0
        /\ b \notin empties[n] /\ empties[n] \subseteq 1 .. b /\ send_q[n][0] <= Begin(b)
    BY Zenon, <2>1, <2>7 DEF QueueInv
  <2>30. s \in [0 .. k - 1 -> Begin(b) .. Begin(b) + N_MINI - 1] /\ k \in 0 .. CAPACITY
    BY Zenon, <2>2, <2>3, <2>8
  <2>31. \A p \in 1 .. k - 1 : s[p - 1] <= s[p]
    BY Zenon, <2>3
  <2>9. /\ send_q'[n] = [p \in 0 .. CAPACITY - 1 |-> IF p < k THEN s[p] ELSE send_q[n][p]]
        /\ send_q_tail'[n] = k /\ empties'[n] = (IF k = 0 THEN empties[n] \cup {b} ELSE empties[n])
        /\ mini_batch_num'[n] = Begin(b) + N_MINI + 1 /\ batch'[n] = b /\ past_mb_num'[n] = Begin(b)
    BY Zenon, <2>1, <2>3, <2>4, <2>5, <2>8 DEF HTypes
  <2>10. \A p \in 0 .. k - 1 : /\ send_q'[n][p] = s[p] /\ s[p] \in Nat
                                /\ Begin(b) <= s[p] /\ s[p] < Begin(b) + N_MINI
    <3>. SUFFICES ASSUME NEW p \in 0 .. k - 1
         PROVE  /\ send_q'[n][p] = s[p] /\ s[p] \in Nat
                /\ Begin(b) <= s[p] /\ s[p] < Begin(b) + N_MINI
      BY Zenon
    <3>1. p \in 0 .. CAPACITY - 1 /\ p < k
      BY <2>5, <2>30
    <3>2. send_q'[n][p] = s[p]
      BY Zenon, <2>9, <3>1
    <3>3. s[p] \in Begin(b) .. Begin(b) + N_MINI - 1
      BY Zenon, <2>30
    <3>4. Begin(b) \in Nat /\ N_MINI \in Nat
      BY Zenon, <2>5, <2>6
    <3>5. s[p] \in Nat /\ Begin(b) <= s[p] /\ s[p] < Begin(b) + N_MINI
      BY <3>3, <3>4
    <3>. QED  BY Zenon, <3>2, <3>5
  <2>11. send_q'[n] \in [0 .. CAPACITY - 1 -> Nat]
    <3>1. \A p \in 0 .. CAPACITY - 1 : p < k => p \in 0 .. k - 1
      BY <2>5, <2>30
    <3>2. \A p \in 0 .. CAPACITY - 1 : (IF p < k THEN s[p] ELSE send_q[n][p]) \in Nat
      BY Zenon, <2>5, <2>10, <3>1
    <3>. QED  BY Zenon, <2>9, <3>2
  <2>12. /\ empties' \in [Nodes -> SUBSET Nat] /\ send_q' \in [Nodes -> [0 .. CAPACITY - 1 -> Nat]]
         /\ send_q_tail' \in [Nodes -> 0 .. CAPACITY] /\ mini_batch_num' \in [Nodes -> Nat]
    <3>1. empties' \in [Nodes -> SUBSET Nat]
      BY Zenon, <2>1, <2>3, <2>5 DEF HTypes
    <3>2. send_q' \in [Nodes -> [0 .. CAPACITY - 1 -> Nat]]
      BY Zenon, <2>1, <2>3, <2>11 DEF HTypes
    <3>3. send_q_tail' \in [Nodes -> 0 .. CAPACITY] /\ mini_batch_num' \in [Nodes -> Nat]
      <4>1. send_q_tail' \in [Nodes -> 0 .. CAPACITY]
        BY Zenon, <2>1, <2>3, <2>30 DEF HTypes
      <4>2. mini_batch_num[n] + N_MINI + 1 \in Nat
        BY <2>5
      <4>3. mini_batch_num' \in [Nodes -> Nat]
        BY Zenon, <2>1, <2>4, <4>2 DEF HTypes
      <4>. QED  BY Zenon, <4>1, <4>3
    <3>. QED  BY Zenon, <3>1, <3>2, <3>3
  <2>13. Start(n, b)' = Start(n, b)
    <3>1. {x \in 1 .. (b - 1) : x \notin empties'[n]} = {x \in 1 .. (b - 1) : x \notin empties[n]}
      BY <2>2, <2>3, <2>5, <2>9
    <3>. QED  BY Zenon, <2>9, <3>1 DEF Start, FullBatches, Full
  <2>14. CallInv(n)' /\ SentInv(n)'
    <3>1. Offset(n)' = 1 /\ Offset(n) = 0
      BY Zenon, <2>7 DEF Offset
    <3>2. calls[n] + 1 = Start(n, b) + Offset(n)'
      BY <2>6, <2>7, <3>1
    <3>3. 1 \in Nat /\ 1 <= 1 /\ "start" # "window"
      OBVIOUS
    <3>. QED  BY Zenon, <2>4, <2>13, <3>2, <3>3, <1>OnItsWay
  <2>15. QueueInv(n)'
    <3>1. mini_batch_num'[n] = Begin(b + 1) /\ past_mb_num'[n] = Begin(b) /\ empties'[n] \subseteq 1 .. b
      <4>1. b \in 1 .. b
        BY <2>5
      <4>2. empties'[n] \subseteq 1 .. b
        BY Zenon, <2>8, <2>9, <4>1
      <4>. QED  BY Zenon, <2>6, <2>9, <4>2
    <3>2. k = 0 <=> b \in empties'[n]
      BY Zenon, <2>8, <2>9
    <3>3. \A p \in 0 .. k - 1 : p > 0 => send_q'[n][p - 1] <= send_q'[n][p]
      <4>. SUFFICES ASSUME NEW p \in 0 .. k - 1, p > 0
           PROVE  send_q'[n][p - 1] <= send_q'[n][p]
        BY Zenon
      <4>1. p \in 1 .. k - 1 /\ p - 1 \in 0 .. k - 1
        BY <2>30
      <4>. QED  BY Zenon, <2>10, <2>31, <4>1
    <3>4. k = 0 => send_q'[n][0] <= Begin(b)
      BY <2>5, <2>8, <2>9
    <3>5. \A p \in 0 .. send_q_tail'[n] - 1 :
            /\ Begin(b) <= send_q'[n][p] /\ send_q'[n][p] < Begin(b) + N_MINI
            /\ p > 0 => send_q'[n][p - 1] <= send_q'[n][p]
      BY Zenon, <2>9, <2>10, <3>3
    <3>6. \A x : Begin(x)' = Begin(x)
      BY Zenon DEF Begin
    <3>. HIDE DEF b
    <3>. QED  BY Zenon, <2>7, <2>9, <3>1, <3>2, <3>4, <3>5, <3>6 DEF QueueInv, b
  <2>. QED  BY Zenon, <2>12, <2>14, <2>15 DEF HNode
\* The start packets.
<1>SendStartStep. ASSUME SendStart(n)
       PROVE  HNode(n)' /\ q_p' \in [Nodes -> 0 .. CAPACITY]
  <2>. USE <1>SendStartStep
  <2>. DEFINE b == batch[n]
  <2>1. HTypes /\ CallInv(n) /\ QueueInv(n)
    BY Zenon DEF HInv
  <2>2. /\ pc[n] = "start" /\ WaitNodes(n, 1, "first") /\ q_p' = [q_p EXCEPT ![n] = 0]
        /\ UNCHANGED <<batch, mini_batch_num, past_mb_num, send_q, send_q_tail, sent, empties>>
    BY Zenon DEF SendStart
  <2>3. b \in Nat \ {0} /\ CAPACITY \in Nat \ {0} /\ calls[n] \in Nat
    BY Zenon, <2>1, HotPeriodAssumption DEF HTypes
  <2>4. q_p' \in [Nodes -> 0 .. CAPACITY] /\ q_p'[n] = 0
    BY <2>1, <2>2, <2>3 DEF HTypes
  <2>5. Place(n) = "start" /\ Place(n)' = "first" /\ calls[n] = Start(n, b) + Offset(n)
    BY Zenon, <2>1, <2>2, <1>Waits, Settled
  <2>6. Start(n, b)' = Start(n, b) /\ Begin(b)' = Begin(b) /\ Begin(b + 1)' = Begin(b + 1)
    BY Zenon, <2>2, <1>SameBatch
  <2>7. CallInv(n)' /\ SentInv(n)'
    <3>1. Offset(n)' = 2 /\ Offset(n) = 1
      BY Zenon, <2>5 DEF Offset
    <3>2. calls[n] + 1 = Start(n, b) + Offset(n)'
      BY <2>3, <2>5, <3>1, StartNext
    <3>3. 1 \in Nat /\ 1 <= 1 /\ "first" # "window"
      OBVIOUS
    <3>. QED  BY Zenon, <2>2, <2>6, <3>2, <3>3, <1>OnItsWay
  <2>8. QueueInv(n)'
    BY Zenon, <2>1, <2>2, <2>4, <2>5, <2>6 DEF QueueInv, Begin
  <2>. QED  BY Zenon, <2>4, <2>7, <2>8 DEF HNode
\* The mini-batches before the first window's.
<1>SkipFirstStep. ASSUME SkipFirst(n)
       PROVE  HNode(n)' /\ CatchUp(n) \in Nat
  <2>. USE <1>SkipFirstStep
  <2>. DEFINE b == batch[n]
              k == CatchUp(n)
  <2>1. HTypes /\ CallInv(n) /\ QueueInv(n)
    BY Zenon DEF HInv
  <2>2. /\ pc[n] = "first" /\ WaitNodes(n, k, "window")
        /\ UNCHANGED <<batch, mini_batch_num, past_mb_num, send_q, send_q_tail, q_p, sent, empties>>
    BY Zenon DEF SkipFirst, queue
  <2>3. /\ b \in Nat \ {0} /\ CAPACITY \in Nat \ {0} /\ N_MINI \in Nat \ {0}
        /\ calls[n] \in Nat /\ send_q_tail[n] \in Nat /\ Begin(b) \in Nat /\ Start(n, b) \in Nat
        /\ \A p \in 0 .. send_q_tail[n] - 1 :
             send_q[n][p] \in Nat /\ Begin(b) <= send_q[n][p] /\ send_q[n][p] < Begin(b) + N_MINI
    BY Zenon, QueueFacts
  <2>4. Place(n) = "first" /\ calls[n] = Start(n, b) + Offset(n)
    BY Zenon, <2>2, Settled
  <2>5. /\ past_mb_num[n] = Begin(b) /\ q_p[n] = 0 /\ (send_q_tail[n] = 0 <=> b \in empties[n])
        /\ send_q_tail[n] = 0 => send_q[n][0] <= Begin(b)
    BY Zenon, <2>1, <2>4 DEF QueueInv
  <2>6. send_q[n][0] \in Nat
    <3>1. 0 \in 0 .. CAPACITY - 1
      BY <2>3
    <3>2. send_q[n] \in [0 .. CAPACITY - 1 -> Nat]
      BY Zenon, <2>1 DEF HTypes
    <3>. QED  BY Zenon, <3>1, <3>2
  <2>7. k \in Nat /\ k = IF b \in empties[n] THEN 0 ELSE send_q[n][0] - Begin(b)
    <3>1. CASE b \in empties[n]
      <4>1. ~(send_q[n][0] > Begin(b))
        BY <2>3, <2>5, <2>6, <3>1
      <4>. QED  BY Zenon, <2>5, <3>1, <4>1 DEF CatchUp
    <3>2. CASE b \notin empties[n]
      <4>1. 0 \in 0 .. send_q_tail[n] - 1
        BY <2>3, <2>5, <3>2
      <4>2. Begin(b) <= send_q[n][0]
        BY Zenon, <2>3, <4>1
      <4>. QED  BY <2>3, <2>5, <2>6, <3>2, <4>2 DEF CatchUp
    <3>. QED  BY Zenon, <3>1, <3>2
  <2>. HIDE DEF k
  <2>8. Start(n, b)' = Start(n, b) /\ Begin(b)' = Begin(b) /\ Begin(b + 1)' = Begin(b + 1)
    BY Zenon, <2>2, <1>SameBatch
  <2>9. Place(n)' = "window"
    BY Zenon, <2>1, <2>2, <2>7, <1>Waits
  <2>10. Offset(n) = 2
    BY Zenon, <2>4 DEF Offset
  <2>11. Offset(n)' = 2 + k
    <3>1. CASE b \in empties[n]
      BY <2>2, <2>7, <2>9, <3>1 DEF Offset
    <3>2. CASE b \notin empties[n]
      <4>1. q_p'[n] < send_q_tail'[n]
        BY <2>2, <2>3, <2>5, <3>2
      <4>2. Dest(n)' = send_q[n][0]
        BY Zenon, <2>2, <2>5, <4>1 DEF Dest
      <4>3. Offset(n)' = 2 + send_q[n][0] - Begin(b)
        BY Zenon, <2>2, <2>8, <2>9, <3>2, <4>2 DEF Offset
      <4>. QED  BY Zenon, <2>3, <2>6, <2>7, <3>2, <4>3
    <3>. QED  BY Zenon, <3>1, <3>2
  <2>12. CallInv(n)' /\ SentInv(n)'
    <3>1. calls[n] + k = Start(n, b) + Offset(n)' /\ calls[n] >= Start(n, b) + 2
      BY <2>3, <2>4, <2>7, <2>10, <2>11
    <3>. QED  BY Zenon, <2>2, <2>7, <2>8, <3>1, <1>OnItsWay
  <2>13. QueueInv(n)'
    <3>1. q_p'[n] <= send_q_tail'[n]
      BY <2>2, <2>3, <2>5
    <3>. QED  BY Zenon, <2>1, <2>2, <2>4, <2>8, <2>9, <3>1 DEF QueueInv, Begin
  <2>. QED  BY Zenon, <2>7, <2>12, <2>13 DEF HNode, k
\* The windows of one mini-batch after the other.
<1>SendWindowStep. ASSUME SendWindow(n)
       PROVE  HNode(n)' /\ Advance(n, WindowEnd(n)) \in Nat /\ q_p' \in [Nodes -> 0 .. CAPACITY]
              /\ sent' \in [Nodes -> Nat]
     \* A window ends at the end of the queue, at its greatest size or at another mini-batch.
  <2>. USE <1>SendWindowStep
  <2>WindowEndMeans. ASSUME q_p[n] < send_q_tail[n]
         PROVE  /\ WindowEnd(n) \in q_p[n] + 1 .. send_q_tail[n]
                /\ \A p \in q_p[n] .. WindowEnd(n) - 1 : send_q[n][p] = send_q[n][q_p[n]]
    <3>. USE <2>WindowEndMeans
    <3>. DEFINE v == send_q[n][q_p[n]]
                T == {e \in q_p[n] + 1 .. send_q_tail[n] :
                        e = send_q_tail[n] \/ e - q_p[n] = MAX_IN_FLIGHT \/ send_q[n][e] # v}
                Ends(e) == /\ e - q_p[n] <= MAX_IN_FLIGHT
                           /\ \A p \in q_p[n] .. e - 1 : send_q[n][p] = send_q[n][q_p[n]]
                           /\ \/ e = send_q_tail[n] \/ e - q_p[n] = MAX_IN_FLIGHT
                              \/ send_q[n][e] # send_q[n][q_p[n]]
    <3>1. send_q_tail[n] \in Nat /\ q_p[n] \in Nat /\ MAX_IN_FLIGHT \in Nat \ {0}
      BY Zenon, QueueFacts, HotPeriodAssumption
    <3>2. T \in SUBSET Nat /\ send_q_tail[n] \in T
      BY <3>1
    <3>3. PICK e \in T : \A y \in T : e <= y
      <4>. HIDE DEF T
      <4>. QED  BY Zenon, <3>2 DEF CountFacts
    <3>4. /\ e \in q_p[n] + 1 .. send_q_tail[n]
          /\ e = send_q_tail[n] \/ e - q_p[n] = MAX_IN_FLIGHT \/ send_q[n][e] # v
      BY Zenon, <3>3
    <3>5. e - q_p[n] <= MAX_IN_FLIGHT
      <4>. SUFFICES ASSUME e - q_p[n] > MAX_IN_FLIGHT
           PROVE  FALSE
        BY <3>1, <3>4
      <4>1. q_p[n] + MAX_IN_FLIGHT \in T /\ ~(e <= q_p[n] + MAX_IN_FLIGHT)
        BY <3>1, <3>4
      <4>. HIDE DEF T
      <4>. QED  BY Zenon, <3>3, <4>1
    <3>6. ASSUME NEW p \in q_p[n] .. e - 1
          PROVE  send_q[n][p] = v
      <4>1. CASE p = q_p[n]
        BY Zenon, <4>1
      <4>2. CASE p # q_p[n]
        <5>1. p \in q_p[n] + 1 .. send_q_tail[n] /\ ~(e <= p)
          BY <3>1, <3>4, <3>6, <4>2
        <5>2. p \notin T
          <6>. HIDE DEF T
          <6>. QED  BY Zenon, <3>3, <5>1
        <5>. QED  BY Zenon, <5>1, <5>2
      <4>. QED  BY Zenon, <4>1, <4>2
    <3>7. \E x \in q_p[n] + 1 .. send_q_tail[n] : Ends(x)
      BY Zenon, <3>4, <3>5, <3>6
    <3>8. WindowEnd(n) = CHOOSE x \in q_p[n] + 1 .. send_q_tail[n] : Ends(x)
      BY Zenon DEF WindowEnd
    <3>. HIDE DEF Ends
    <3>9. WindowEnd(n) \in q_p[n] + 1 .. send_q_tail[n] /\ Ends(WindowEnd(n))
      BY Zenon, <3>7, <3>8
    <3>. QED  BY Zenon, <3>9 DEF Ends
  <2>. DEFINE b == batch[n]
              e == WindowEnd(n)
              v == send_q[n][q_p[n]]
              k == Advance(n, e)
              tail == send_q_tail[n]
  <2>1. HTypes /\ CallInv(n) /\ QueueInv(n)
    BY Zenon DEF HInv
  <2>2. /\ pc[n] = "window" /\ q_p[n] < tail /\ WaitNodes(n, k, "window")
        /\ sent' = [sent EXCEPT ![n] = send_q[n][e - 1]] /\ q_p' = [q_p EXCEPT ![n] = e]
        /\ UNCHANGED <<batch, mini_batch_num, past_mb_num, send_q, send_q_tail, empties>>
    BY Zenon DEF SendWindow
  <2>3. e \in q_p[n] + 1 .. tail /\ \A p \in q_p[n] .. e - 1 : send_q[n][p] = v
    BY Zenon, <2>2, <2>WindowEndMeans
  <2>. HIDE DEF e
  <2>4. /\ b \in Nat \ {0} /\ CAPACITY \in Nat \ {0} /\ N_MINI \in Nat \ {0}
        /\ calls[n] \in Nat /\ tail \in Nat /\ q_p[n] \in Nat /\ Begin(b) \in Nat /\ Start(n, b) \in Nat
        /\ Begin(b + 1) = Begin(b) + N_MINI + 1
    BY Zenon, QueueFacts
  <2>5. \A p \in 0 .. tail - 1 :
          send_q[n][p] \in Nat /\ Begin(b) <= send_q[n][p] /\ send_q[n][p] < Begin(b) + N_MINI
    BY Zenon, QueueFacts
  <2>6. v \in Nat /\ Begin(b) <= v /\ v < Begin(b) + N_MINI
    <3>1. q_p[n] \in 0 .. tail - 1
      BY <2>2, <2>4
    <3>. QED  BY Zenon, <2>5, <3>1
  <2>7. Place(n) = "window" /\ calls[n] = Start(n, b) + Offset(n)
    BY Zenon, <2>2, Settled
  <2>8. /\ mini_batch_num[n] = Begin(b) + N_MINI + 1 /\ b \notin empties[n]
    <3>1. mini_batch_num[n] = Begin(b + 1) /\ (tail = 0 <=> b \in empties[n])
      BY Zenon, <2>1, <2>7 DEF QueueInv
    <3>. QED  BY <2>2, <2>4, <3>1
  <2>9. Offset(n) = 2 + v - Begin(b)
    BY Zenon, <2>2, <2>7, <2>8 DEF Offset, Dest
  <2>10. e \in Nat /\ e <= tail /\ e > q_p[n]
    BY <2>3, <2>4
  <2>Last. send_q[n][e - 1] = v
    <3>1. e - 1 \in q_p[n] .. e - 1
      BY <2>4, <2>10
    <3>. QED  BY Zenon, <2>3, <3>1
  <2>11. q_p' \in [Nodes -> 0 .. CAPACITY] /\ q_p'[n] = e /\ sent' \in [Nodes -> Nat] /\ sent'[n] = v
    <3>1. e \in 0 .. CAPACITY
      <4>1. tail \in 0 .. CAPACITY
        BY Zenon, <2>1 DEF HTypes
      <4>. QED  BY <2>4, <2>10, <4>1
    <3>. HIDE DEF v
    <3>. QED  BY Zenon, <2>1, <2>2, <2>6, <2>Last, <3>1 DEF HTypes
  <2>12. e # tail => send_q[n][e] \in Nat /\ v <= send_q[n][e]
    <3>. SUFFICES ASSUME e # tail
         PROVE  send_q[n][e] \in Nat /\ v <= send_q[n][e]
      BY Zenon
    <3>1. e \in 0 .. tail - 1 /\ e > 0 /\ e - 1 \in q_p[n] .. e - 1
      BY <2>4, <2>10
    <3>2. send_q[n][e - 1] = v
      BY Zenon, <2>3, <3>1
    <3>3. send_q[n][e - 1] <= send_q[n][e]
      BY Zenon, <2>1, <3>1 DEF QueueInv
    <3>. QED  BY Zenon, <2>5, <3>1, <3>2, <3>3
  <2>13. k \in Nat /\ v + k = IF e < tail THEN send_q[n][e] ELSE mini_batch_num[n]
    <3>1. CASE e = tail
      <4>1. k = mini_batch_num[n] - v
        BY Zenon, <3>1 DEF Advance
      <4>. HIDE DEF k, v
      <4>. QED  BY <2>4, <2>6, <2>8, <3>1, <4>1
    <3>2. CASE e # tail
      <4>1. k = send_q[n][e] - v
        BY Zenon, <3>2 DEF Advance
      <4>2. e < tail
        BY <2>4, <2>10, <3>2
      <4>. HIDE DEF k, v
      <4>. QED  BY <2>6, <2>12, <3>2, <4>1, <4>2
    <3>. QED  BY Zenon, <3>1, <3>2
  <2>. HIDE DEF k
  <2>14. Start(n, b)' = Start(n, b) /\ Begin(b)' = Begin(b) /\ Begin(b + 1)' = Begin(b + 1)
    BY Zenon, <2>2, <1>SameBatch
  <2>15. Place(n)' = "window" /\ Returned(n)' = calls[n]
    BY Zenon, <2>1, <2>2, <2>13, <1>Waits
  <2>16. Offset(n)' = 2 + (v + k) - Begin(b)
    <3>1. Dest(n)' = v + k
      BY Zenon, <2>2, <2>11, <2>13 DEF Dest
    <3>. QED  BY Zenon, <2>2, <2>8, <2>14, <2>15, <3>1 DEF Offset
  <2>. HIDE DEF v
  <2>17. CallInv(n)'
    <3>1. calls[n] + k = Start(n, b) + Offset(n)' /\ calls[n] >= Start(n, b) + 2
      BY <2>4, <2>6, <2>7, <2>9, <2>13, <2>16
    <3>. QED  BY Zenon, <2>2, <2>13, <2>14, <3>1, <1>OnItsWay
  <2>18. SentInv(n)'
    <3>1. calls[n] >= Start(n, b) + 2 + (v - Begin(b))
      BY <2>4, <2>6, <2>7, <2>9
    <3>. QED  BY Zenon, <2>2, <2>6, <2>11, <2>14, <2>15, <3>1 DEF SentInv
  <2>19. QueueInv(n)'
    BY Zenon, <2>1, <2>2, <2>7, <2>10, <2>11, <2>14, <2>15 DEF QueueInv, Begin
  <2>. QED  BY Zenon, <2>11, <2>13, <2>17, <2>18, <2>19 DEF HNode, k, e
\* The end packets.
<1>SendEndStep. ASSUME SendEnd(n)
       PROVE  HNode(n)' /\ past_mb_num' \in [Nodes -> Nat]
  <2>. USE <1>SendEndStep
  <2>. DEFINE b == batch[n]
  <2>1. HTypes /\ CallInv(n) /\ QueueInv(n)
    BY Zenon DEF HInv
  <2>2. /\ pc[n] = "window" /\ q_p[n] = send_q_tail[n] /\ WaitNodes(n, 1, "over")
        /\ past_mb_num' = [past_mb_num EXCEPT ![n] = mini_batch_num[n]]
        /\ UNCHANGED <<batch, mini_batch_num, send_q, send_q_tail, q_p, sent, empties>>
    BY Zenon DEF SendEnd, queue
  <2>3. /\ b \in Nat \ {0} /\ N_MINI \in Nat \ {0} /\ calls[n] \in Nat /\ send_q_tail[n] \in Nat
        /\ Begin(b) \in Nat /\ Start(n, b) \in Nat /\ Begin(b + 1) = Begin(b) + N_MINI + 1
    BY Zenon, QueueFacts
  <2>4. Place(n) = "window" /\ Place(n)' = "over" /\ calls[n] = Start(n, b) + Offset(n)
    BY Zenon, <2>1, <2>2, <1>Waits, Settled
  <2>5. mini_batch_num[n] = Begin(b + 1)
    BY Zenon, <2>1, <2>4 DEF QueueInv
  <2>6. past_mb_num' \in [Nodes -> Nat] /\ past_mb_num'[n] = Begin(b + 1)
    BY Zenon, <2>1, <2>2, <2>5 DEF HTypes
  <2>7. Start(n, b)' = Start(n, b) /\ Begin(b)' = Begin(b) /\ Begin(b + 1)' = Begin(b + 1)
    BY Zenon, <2>2, <1>SameBatch
  <2>8. CallInv(n)' /\ SentInv(n)'
    <3>1. Offset(n) = IF b \in empties[n] THEN 2 ELSE 2 + Begin(b + 1) - Begin(b)
      <4>1. ~(q_p[n] < send_q_tail[n])
        BY <2>2, <2>3
      <4>. QED  BY Zenon, <2>4, <2>5, <4>1 DEF Offset, Dest
    <3>2. Offset(n)' = IF b \in empties[n] THEN 3 ELSE 3 + (N_MINI + 1)
      BY Zenon, <2>2, <2>4 DEF Offset
    <3>3. calls[n] + 1 = Start(n, b) + Offset(n)'
      BY <2>3, <2>4, <3>1, <3>2
    <3>4. 1 \in Nat /\ 1 <= 1 /\ "over" # "window"
      OBVIOUS
    <3>. QED  BY Zenon, <2>2, <2>7, <3>3, <3>4, <1>OnItsWay
  <2>9. QueueInv(n)'
    BY Zenon, <2>1, <2>2, <2>4, <2>6, <2>7 DEF QueueInv, Begin
  <2>. QED  BY Zenon, <2>6, <2>8, <2>9 DEF HNode
\* The next batch.
<1>OverStep. ASSUME Over(n)
       PROVE  HNode(n)' /\ Returned(n)' = calls[n]
  <2>. USE <1>OverStep
  <2>. DEFINE b == batch[n]
  <2>1. HTypes /\ CallInv(n) /\ QueueInv(n) /\ SentInv(n)
    BY Zenon DEF HInv
  <2>2. /\ pc[n] = "over" /\ send_q_tail' = [send_q_tail EXCEPT ![n] = 0]
        /\ batch' = [batch EXCEPT ![n] = @ + 1]
        /\ pc' = [pc EXCEPT ![n] = IF batch[n] < N_BATCHES THEN "cold" ELSE "done"]
        /\ UNCHANGED <<mini_batch_num, past_mb_num, send_q, q_p, calls, togo, ret, sent, empties>>
    BY Zenon DEF Over, barrier
  <2>3. /\ b \in Nat \ {0} /\ N_MINI \in Nat \ {0} /\ CAPACITY \in Nat \ {0}
        /\ calls[n] \in Nat /\ send_q_tail[n] \in Nat
        /\ Begin(b) \in Nat /\ Start(n, b) \in Nat /\ Begin(b + 1) = Begin(b) + N_MINI + 1
    BY Zenon, QueueFacts
  <2>4. send_q_tail'[n] = 0 /\ batch'[n] = b + 1 /\ pc'[n] \in {"cold", "done"}
    BY Zenon, <2>1, <2>2 DEF HTypes
  <2>5. /\ Place(n) = "over" /\ calls[n] = Start(n, b) + Offset(n)
        /\ Place(n)' = pc'[n] /\ Returned(n)' = calls[n] /\ Remaining(n)' = 0
    <3>1. Place(n) = "over" /\ calls[n] = Start(n, b) + Offset(n)
      BY Zenon, <2>2, Settled
    <3>. QED  BY Zenon, <2>2, <2>4, <3>1 DEF Place, Returned, Remaining
  <2>6. \A x : Begin(x)' = Begin(x)
    BY Zenon DEF Begin
  <2>7. CallInv(n)'
    <3>1. Offset(n) = (IF b \in empties[n] THEN 3 ELSE 3 + (N_MINI + 1)) /\ Offset(n)' = 0
      BY Zenon, <2>4, <2>5 DEF Offset
    <3>2. Start(n, b + 1) = Start(n, b) + 3 + (IF b \in empties[n] THEN 0 ELSE N_MINI + 1)
      BY Zenon, <2>3, StartNext
    <3>3. calls[n] + 0 = Start(n, b + 1) + 0
      BY <2>3, <2>5, <3>1, <3>2
    <3>4. (Start(n, batch[n]))' = Start(n, b + 1)
      BY Zenon, <2>2, <2>4, <2>6 DEF Start, FullBatches
    <3>5. pc'[n] # "bar" /\ Place(n)' # "window"
      BY Zenon, <2>4, <2>5
    <3>. QED  BY Zenon, <2>2, <2>5, <3>1, <3>3, <3>4, <3>5 DEF CallInv
  <2>8. SentInv(n)'
    <3>1. sent[n] < Begin(b + 1) /\ sent[n] < Begin(b + 1) + N_MINI
      <4>1. sent[n] \in Nat /\ sent[n] < Begin(b) + N_MINI
        BY Zenon, <2>1 DEF HTypes, SentInv
      <4>. QED  BY <2>3, <4>1
    <3>2. (Begin(batch[n]))' = Begin(b + 1)
      BY Zenon, <2>4 DEF Begin
    <3>. QED  BY Zenon, <2>2, <3>1, <3>2 DEF SentInv
  <2>9. QueueInv(n)'
    <3>1. /\ mini_batch_num[n] = Begin(b + 1) /\ past_mb_num[n] = Begin(b + 1) /\ empties[n] \subseteq 1 .. b
      BY Zenon, <2>1, <2>5 DEF QueueInv
    <3>2. b + 1 \notin empties[n] /\ empties[n] \subseteq 1 .. (b + 1)
      BY <2>3, <3>1
    <3>3. send_q[n][0] <= Begin(b + 1)
      <4>0. 0 \in 0 .. CAPACITY - 1
        BY <2>3
      <4>1. send_q[n] \in [0 .. CAPACITY - 1 -> Nat]
        BY Zenon, <2>1 DEF HTypes
      <4>2. send_q[n][0] \in Nat
        BY Zenon, <4>0, <4>1
      <4>3. CASE send_q_tail[n] = 0
        <5>1. send_q[n][0] <= Begin(b)
          BY Zenon, <2>1, <4>3 DEF QueueInv
        <5>. QED  BY <2>3, <4>2, <5>1
      <4>4. CASE send_q_tail[n] # 0
        <5>1. 0 \in 0 .. send_q_tail[n] - 1
          BY <2>3, <4>4
        <5>2. send_q[n][0] < Begin(b) + N_MINI
          BY Zenon, <5>1, QueueFacts
        <5>. QED  BY <2>3, <4>2, <5>2
      <4>. QED  BY Zenon, <4>3, <4>4
    <3>4. \A p : p \notin 0 .. 0 - 1
      OBVIOUS
    <3>5. (Begin(batch[n]))' = Begin(b + 1)
      BY Zenon, <2>4 DEF Begin
    <3>6. pc'[n] \notin {"first", "window", "over"}
      BY Zenon, <2>4
    <3>. QED  BY Zenon, <2>2, <2>4, <2>5, <2>6, <3>1, <3>2, <3>3, <3>4, <3>5, <3>6 DEF QueueInv
  <2>. QED  BY Zenon, <2>5, <2>7, <2>8, <2>9 DEF HNode
<1>1. HTypes
  BY Zenon DEF HInv
<1>. DEFINE Others == \A m \in Nodes \ {n} :
              /\ pc'[m] = pc[m] /\ ret'[m] = ret[m] /\ togo'[m] = togo[m] /\ calls'[m] = calls[m]
              /\ batch'[m] = batch[m] /\ mini_batch_num'[m] = mini_batch_num[m]
              /\ past_mb_num'[m] = past_mb_num[m] /\ send_q'[m] = send_q[m]
              /\ send_q_tail'[m] = send_q_tail[m] /\ q_p'[m] = q_p[m] /\ sent'[m] = sent[m]
              /\ empties'[m] = empties[m]
            Actor == /\ HTypes' /\ HNode(n)' /\ Returned(n)' = calls[n] /\ calls'[n] >= calls[n]
                     /\ \A m \in Nodes : calls[m] >= calls[n]
<1>2. ASSUME LeaveBarrier(n)
      PROVE  Actor /\ Others
  <2>. DEFINE k == togo[n] - 1
  <2>1. /\ WaitNodes(n, k, ret[n]) /\ ret[n] \in {"start", "first", "window", "over"}
        /\ UNCHANGED <<batch, mini_batch_num, past_mb_num, send_q, send_q_tail, q_p, sent, empties>>
        /\ \A m \in Nodes : calls[m] >= calls[n]
    BY Zenon, <1>1, <1>2 DEF LeaveBarrier, queue, HTypes
  <2>2. k \in Nat
    BY <1>1, <1>2 DEF HInv, CallInv, HTypes, LeaveBarrier
  <2>. HIDE DEF k
  <2>3. HNode(n)'
    BY Zenon, <1>2, <1>LeaveBarrierStep
  <2>4. HTypes'
    <3>1. /\ pc' \in [Nodes -> {"cold", "start", "first", "window", "over", "done", "bar"}]
          /\ ret' \in [Nodes -> {"start", "first", "window", "over"}]
          /\ togo' \in [Nodes -> Nat] /\ calls' \in [Nodes -> Nat]
      BY Zenon, <1>1, <2>1, <2>2, <1>Waits
    <3>. QED  BY Zenon, <1>1, <2>1, <3>1 DEF HTypes
  <2>8. /\ Returned(n)' = calls[n] /\ calls'[n] >= calls[n]
        /\ \A m \in Nodes \ {n} : /\ pc'[m] = pc[m] /\ ret'[m] = ret[m]
                                   /\ togo'[m] = togo[m] /\ calls'[m] = calls[m]
    BY Zenon, <1>1, <2>1, <2>2, <1>Waits
  <2>. QED  BY Zenon, <2>1, <2>2, <2>3, <2>4, <2>8
<1>3. ASSUME Cold(n)
      PROVE  Actor /\ Others
  <2>1. /\ WaitNodes(n, 1, "start") /\ pc[n] # "bar" /\ 1 \in Nat
        /\ UNCHANGED <<batch, past_mb_num, q_p, sent>>
    BY Zenon, <1>3 DEF Cold
  <2>2. \A m \in Nodes \ {n} : /\ mini_batch_num'[m] = mini_batch_num[m] /\ send_q'[m] = send_q[m]
                              /\ send_q_tail'[m] = send_q_tail[m] /\ empties'[m] = empties[m]
    BY Zenon, <1>1, <1>3 DEF Cold, HTypes
  <2>3. HNode(n)' /\ HTypes'
    BY Zenon, <1>1, <1>3, <2>1, <1>ColdStep, <1>Waits DEF HTypes
  <2>8. /\ Returned(n)' = calls[n] /\ calls'[n] >= calls[n]
        /\ \A m \in Nodes \ {n} : /\ pc'[m] = pc[m] /\ ret'[m] = ret[m]
                                   /\ togo'[m] = togo[m] /\ calls'[m] = calls[m]
    BY Zenon, <1>1, <2>1, <1>Waits
  <2>9. \A m \in Nodes : calls[m] >= calls[n]
    BY Zenon, <2>1, Settled
  <2>. QED  BY Zenon, <2>1, <2>2, <2>3, <2>8, <2>9
<1>4. ASSUME SendStart(n)
      PROVE  Actor /\ Others
  <2>1. /\ WaitNodes(n, 1, "first") /\ pc[n] # "bar" /\ 1 \in Nat
        /\ UNCHANGED <<batch, mini_batch_num, past_mb_num, send_q, send_q_tail, sent, empties>>
    BY Zenon, <1>4 DEF SendStart
  <2>2. \A m \in Nodes \ {n} : q_p'[m] = q_p[m]
    BY Zenon, <1>1, <1>4 DEF SendStart, HTypes
  <2>3. HNode(n)' /\ HTypes'
    BY Zenon, <1>1, <1>4, <2>1, <1>SendStartStep, <1>Waits DEF HTypes
  <2>8. /\ Returned(n)' = calls[n] /\ calls'[n] >= calls[n]
        /\ \A m \in Nodes \ {n} : /\ pc'[m] = pc[m] /\ ret'[m] = ret[m]
                                   /\ togo'[m] = togo[m] /\ calls'[m] = calls[m]
    BY Zenon, <1>1, <2>1, <1>Waits
  <2>9. \A m \in Nodes : calls[m] >= calls[n]
    BY Zenon, <2>1, Settled
  <2>. QED  BY Zenon, <2>1, <2>2, <2>3, <2>8, <2>9
<1>5. ASSUME SkipFirst(n)
      PROVE  Actor /\ Others
  <2>1. /\ WaitNodes(n, CatchUp(n), "window") /\ pc[n] # "bar"
        /\ UNCHANGED <<batch, mini_batch_num, past_mb_num, send_q, send_q_tail, q_p, sent, empties>>
    BY Zenon, <1>5 DEF SkipFirst, queue
  <2>2. HNode(n)' /\ CatchUp(n) \in Nat
    BY Zenon, <1>5, <1>SkipFirstStep
  <2>3. HTypes'
    BY Zenon, <1>1, <2>1, <2>2, <1>Waits DEF HTypes
  <2>8. /\ Returned(n)' = calls[n] /\ calls'[n] >= calls[n]
        /\ \A m \in Nodes \ {n} : /\ pc'[m] = pc[m] /\ ret'[m] = ret[m]
                                   /\ togo'[m] = togo[m] /\ calls'[m] = calls[m]
    BY Zenon, <1>1, <2>1, <2>2, <2>3, <1>Waits
  <2>9. \A m \in Nodes : calls[m] >= calls[n]
    BY Zenon, <2>1, Settled
  <2>. QED  BY Zenon, <2>1, <2>2, <2>3, <2>8, <2>9
<1>6. ASSUME SendWindow(n)
      PROVE  Actor /\ Others
  <2>1. /\ WaitNodes(n, Advance(n, WindowEnd(n)), "window") /\ pc[n] # "bar"
        /\ UNCHANGED <<batch, mini_batch_num, past_mb_num, send_q, send_q_tail, empties>>
    BY Zenon, <1>6 DEF SendWindow
  <2>2. \A m \in Nodes \ {n} : q_p'[m] = q_p[m] /\ sent'[m] = sent[m]
    BY Zenon, <1>1, <1>6 DEF SendWindow, HTypes
  <2>3. /\ HNode(n)' /\ Advance(n, WindowEnd(n)) \in Nat /\ q_p' \in [Nodes -> 0 .. CAPACITY]
        /\ sent' \in [Nodes -> Nat]
    BY Zenon, <1>6, <1>SendWindowStep
  <2>4. HTypes'
    BY Zenon, <1>1, <2>1, <2>3, <1>Waits DEF HTypes
  <2>8. /\ Returned(n)' = calls[n] /\ calls'[n] >= calls[n]
        /\ \A m \in Nodes \ {n} : /\ pc'[m] = pc[m] /\ ret'[m] = ret[m]
                                   /\ togo'[m] = togo[m] /\ calls'[m] = calls[m]
    BY Zenon, <1>1, <2>1, <2>2, <2>3, <1>Waits
  <2>9. \A m \in Nodes : calls[m] >= calls[n]
    BY Zenon, <2>1, Settled
  <2>. QED  BY Zenon, <2>1, <2>2, <2>3, <2>4, <2>8, <2>9
<1>7. ASSUME SendEnd(n)
      PROVE  Actor /\ Others
  <2>1. /\ WaitNodes(n, 1, "over") /\ pc[n] # "bar" /\ 1 \in Nat
        /\ UNCHANGED <<batch, mini_batch_num, send_q, send_q_tail, q_p, sent, empties>>
    BY Zenon, <1>7 DEF SendEnd, queue
  <2>2. \A m \in Nodes \ {n} : past_mb_num'[m] = past_mb_num[m]
    BY Zenon, <1>1, <1>7 DEF SendEnd, HTypes
  <2>3. HNode(n)' /\ HTypes'
    BY Zenon, <1>1, <1>7, <2>1, <1>SendEndStep, <1>Waits DEF HTypes
  <2>8. /\ Returned(n)' = calls[n] /\ calls'[n] >= calls[n]
        /\ \A m \in Nodes \ {n} : /\ pc'[m] = pc[m] /\ ret'[m] = ret[m]
                                   /\ togo'[m] = togo[m] /\ calls'[m] = calls[m]
    BY Zenon, <1>1, <2>1, <1>Waits
  <2>9. \A m \in Nodes : calls[m] >= calls[n]
    BY Zenon, <2>1, Settled
  <2>. QED  BY Zenon, <2>1, <2>2, <2>3, <2>8, <2>9
<1>8. ASSUME Over(n)
      PROVE  Actor /\ Others
  <2>1. /\ pc[n] # "bar"
        /\ UNCHANGED <<mini_batch_num, past_mb_num, send_q, q_p, calls, togo, ret, sent, empties>>
    BY Zenon, <1>8 DEF Over, barrier
  <2>2. \A m \in Nodes \ {n} : pc'[m] = pc[m] /\ batch'[m] = batch[m] /\ send_q_tail'[m] = send_q_tail[m]
    BY Zenon, <1>1, <1>8 DEF Over, HTypes
  <2>3. HNode(n)' /\ Returned(n)' = calls[n]
    BY Zenon, <1>8, <1>OverStep
  <2>4. /\ pc' \in [Nodes -> {"cold", "start", "first", "window", "over", "done", "bar"}]
        /\ batch' \in [Nodes -> Nat \ {0}] /\ send_q_tail' \in [Nodes -> 0 .. CAPACITY]
    <3>1. batch' \in [Nodes -> Nat \ {0}]
      BY <1>1, <1>8 DEF Over, HTypes
    <3>2. send_q_tail' \in [Nodes -> 0 .. CAPACITY]
      BY <1>1, <1>8, HotPeriodAssumption DEF Over, HTypes
    <3>3. pc' \in [Nodes -> {"cold", "start", "first", "window", "over", "done", "bar"}]
      BY Zenon, <1>1, <1>8 DEF Over, HTypes
    <3>. QED  BY Zenon, <3>1, <3>2, <3>3
  <2>5. HTypes'
    BY Zenon, <1>1, <2>1, <2>4 DEF HTypes
  <2>6. calls'[n] >= calls[n]
    BY <1>1, <2>1 DEF HTypes
  <2>. QED  BY Zenon, <2>1, <2>2, <2>3, <2>5, <2>6, Settled
<1>9. Actor /\ Others
  BY Zenon, <1>2, <1>3, <1>4, <1>5, <1>6, <1>7, <1>8 DEF HStep
<1>10. ASSUME NEW m \in Nodes
       PROVE  HNode(m)' /\ (m # n => Returned(m)' = Returned(m))
  <2>1. CASE m = n
    BY Zenon, <1>9, <2>1
  <2>2. CASE m # n
    <3>1. HNode(m)
      BY Zenon DEF HInv, HNode
    <3>2. m \in Nodes \ {n}
      BY Zenon, <2>2
    <3>. QED  BY Zenon, <1>9, <3>1, <3>2, IdleKeeps
  <2>. QED  BY Zenon, <2>1, <2>2
<1>11. ASSUME NEW x \in Nodes, NEW m \in Nodes
       PROVE  calls'[m] >= Returned(x)'
  <2>1. calls'[m] >= calls[m] /\ calls[m] \in Nat /\ calls'[m] \in Nat /\ calls[n] \in Nat
    <3>1. calls[m] \in Nat /\ calls'[m] \in Nat /\ calls[n] \in Nat
      BY Zenon, <1>1, <1>9 DEF HTypes
    <3>2. CASE m = n
      BY Zenon, <1>9, <3>1, <3>2
    <3>3. CASE m # n
      BY <1>9, <3>1, <3>3
    <3>. QED  BY Zenon, <3>2, <3>3
  <2>2. CASE x = n
    <3>1. Returned(x)' = calls[n] /\ calls[m] >= calls[n]
      BY Zenon, <1>9, <2>2
    <3>. QED  BY <2>1, <3>1
  <2>3. CASE x # n
    <3>1. Returned(x)' = Returned(x) /\ calls[m] >= Returned(x)
      BY Zenon, <1>10, <2>3 DEF HInv
    <3>2. Returned(x) \in Int
      <4>1. calls[x] \in Nat
        BY Zenon, <1>1 DEF HTypes
      <4>. QED  BY <4>1 DEF Returned
    <3>. QED  BY <2>1, <3>1, <3>2
  <2>. QED  BY Zenon, <2>2, <2>3
<1>. QED  BY Zenon, <1>9, <1>10, <1>11 DEF HInv, HNode

\* The initial state satisfies it.
LEMMA HInitInv ==
  ASSUME CountFacts, HInit
  PROVE  HInv
<1>1. N_MINI \in Nat \ {0} /\ CAPACITY \in Nat \ {0}
  BY Zenon, HotPeriodAssumption
<1>2. HTypes
  BY <1>1 DEF HInit, HTypes
<1>3. Begin(1) = 1
  BY <1>1 DEF Begin
<1>4. ASSUME NEW n \in Nodes
      PROVE  /\ QueueInv(n) /\ CallInv(n) /\ SentInv(n) /\ Returned(n) = 0 /\ calls[n] = 0
  <2>1. /\ pc[n] = "cold" /\ batch[n] = 1 /\ mini_batch_num[n] = 1 /\ past_mb_num[n] = 1
        /\ send_q_tail[n] = 0 /\ q_p[n] = 0 /\ calls[n] = 0 /\ togo[n] = 0 /\ sent[n] = 0
        /\ empties[n] = {} /\ send_q[n][0] = 0
    BY <1>1 DEF HInit
  <2>2. Place(n) = "cold" /\ Returned(n) = 0 /\ Remaining(n) = 0
    BY Zenon, <2>1 DEF Place, Returned, Remaining
  <2>3. Start(n, 1) = 0
    <3>2. FullBatches(n, 1) = 0
      BY Zenon DEF CountFacts, FullBatches
    <3>. QED  BY <1>1, <3>2 DEF Start
  <2>4. QueueInv(n)
    BY <1>1, <1>3, <2>1, <2>2 DEF QueueInv
  <2>5. CallInv(n)
    BY Zenon, <2>1, <2>2, <2>3 DEF CallInv, Offset
  <2>6. SentInv(n)
    BY <1>1, <1>3, <2>1 DEF SentInv
  <2>. QED  BY Zenon, <2>1, <2>2, <2>4, <2>5, <2>6
<1>. QED  BY <1>2, <1>4 DEF HInv

-----------------------------------------------------------------------------
(* Even batches.                                                            *)

\* Two nodes agree on the batches in which they queued nothing, and so on the calls before a batch.
LEMMA SameStart ==
  ASSUME HInv, ~Uneven, NEW n \in Nodes, NEW m \in Nodes, NEW b \in Nat \ {0}, b <= batch[n], b <= batch[m]
  PROVE  Start(n, b) = Start(m, b)
<1>1. batch[n] \in Nat /\ batch[m] \in Nat
  BY Zenon DEF HInv, HTypes
<1>2. ASSUME NEW x \in 1 .. (b - 1)
      PROVE  x \in empties[n] <=> x \in empties[m]
  <2>1. batch[n] > x /\ batch[m] > x
    BY <1>1
  <2>. QED  BY Zenon, <2>1 DEF Uneven
<1>3. {x \in 1 .. (b - 1) : x \notin empties[n]} = {x \in 1 .. (b - 1) : x \notin empties[m]}
  BY Zenon, <1>2
<1>. QED  BY Zenon, <1>3 DEF Start, FullBatches, Full

\* The place of every node when one of them sends.
LEMMA Sending ==
  ASSUME CountFacts, HInv, ~Uneven, NEW n \in Nodes, pc[n] = "window", q_p[n] < send_q_tail[n], NEW m \in Nodes
  PROVE  batch[m] = batch[n] /\ Place(m) \in {"first", "window"}
\* A later batch starts after the calls of an earlier one.
<1>StartLater. ASSUME NEW p, NEW a \in Nat \ {0}, NEW b \in Nat \ {0}, a < b
       PROVE  Start(p, a) + 3 + (IF a \in empties[p] THEN 0 ELSE N_MINI + 1) <= Start(p, b)
  <2>. USE <1>StartLater
  <2>5. FullBatches(p, a + 1) <= FullBatches(p, b)
    BY Zenon, FullNext
  <2>6. FullBatches(p, a + 1) \in Nat /\ FullBatches(p, b) \in Nat /\ N_MINI + 1 \in Nat
    BY FullNext, HotPeriodAssumption
  <2>7. \A k, x, y \in Nat : x <= y => k * x <= k * y
    OBVIOUS
  <2>8. (N_MINI + 1) * FullBatches(p, a + 1) <= (N_MINI + 1) * FullBatches(p, b)
    BY Zenon, <2>5, <2>6, <2>7
  <2>9. \A k, x \in Nat : k * x \in Nat
    OBVIOUS
  <2>10. (N_MINI + 1) * FullBatches(p, a + 1) \in Nat /\ (N_MINI + 1) * FullBatches(p, b) \in Nat
    BY Zenon, <2>6, <2>9
  <2>11. Start(p, a + 1) <= Start(p, b)
    BY <2>8, <2>10 DEF Start
  <2>. QED  BY Zenon, <2>11, StartNext
<1>. DEFINE b == batch[n]
            a == batch[m]
            S == Start(n, b)
            v == send_q[n][q_p[n]]
            Long(x) == IF x \in empties[n] THEN 0 ELSE N_MINI + 1
<1>1. HTypes /\ CallInv(n) /\ QueueInv(n) /\ CallInv(m) /\ QueueInv(m) /\ calls[n] >= Returned(m)
  BY Zenon DEF HInv
<1>2. /\ b \in Nat \ {0} /\ N_MINI \in Nat \ {0} /\ calls[n] \in Nat /\ send_q_tail[n] \in Nat /\ q_p[n] \in Nat
      /\ Begin(b) \in Nat /\ S \in Nat
  BY Zenon, QueueFacts
<1>3. v \in Nat /\ Begin(b) <= v /\ v < Begin(b) + N_MINI
  <2>1. q_p[n] \in 0 .. send_q_tail[n] - 1
    BY <1>2
  <2>. QED  BY Zenon, QueueFacts, <2>1
<1>4. Place(n) = "window" /\ calls[n] = S + Offset(n) /\ calls[m] >= calls[n]
  BY Zenon, Settled
<1>5. b \notin empties[n]
  <2>1. send_q_tail[n] = 0 <=> b \in empties[n]
    BY Zenon, <1>1, <1>4 DEF QueueInv
  <2>. QED  BY <1>2, <2>1
<1>6. calls[n] = S + 2 + (v - Begin(b))
  <2>1. Offset(n) = 2 + v - Begin(b)
    BY Zenon, <1>4, <1>5 DEF Offset, Dest
  <2>. QED  BY <1>2, <1>3, <1>4, <2>1
<1>. HIDE DEF v
<1>7. calls[n] >= S + 2 /\ calls[n] < S + 2 + N_MINI
  BY <1>2, <1>3, <1>6
<1>8. /\ a \in Nat \ {0} /\ calls[m] \in Nat /\ Begin(a) \in Nat /\ Start(m, a) \in Nat
      /\ Begin(a + 1) = Begin(a) + N_MINI + 1
  BY Zenon, QueueFacts
<1>9. /\ Place(m) \in {"cold", "start", "first", "window", "over", "done"}
      /\ Place(m) = "cold" <=> pc[m] = "cold"
      /\ Place(m) = "done" <=> pc[m] = "done"
  <2>1. pc[m] \in {"cold", "start", "first", "window", "over", "done", "bar"}
        /\ ret[m] \in {"start", "first", "window", "over"}
    BY Zenon, <1>1 DEF HTypes
  <2>. QED  BY Zenon, <2>1 DEF Place
<1>10. /\ Remaining(m) \in Nat /\ Returned(m) \in Int
       /\ calls[m] + Remaining(m) = Start(m, a) + Offset(m)
       /\ Place(m) # "window" => Remaining(m) = 0
  <2>1. togo[m] \in Nat
    BY Zenon, <1>1 DEF HTypes
  <2>. QED  BY <1>1, <1>8, <2>1 DEF Remaining, Returned, CallInv, Place
<1>11. /\ Place(m) \in {"cold", "done"} => Offset(m) = 0
       /\ Place(m) = "start" => Offset(m) = 1
       /\ Place(m) = "first" => Offset(m) = 2
       /\ Place(m) = "over" => Offset(m) = IF a \in empties[m] THEN 3 ELSE 3 + (N_MINI + 1)
  BY Zenon DEF Offset
<1>12. Place(m) = "window" => Offset(m) \in Int /\ Offset(m) <= 2 + (IF a \in empties[m] THEN 0 ELSE N_MINI + 1)
  <2>. SUFFICES ASSUME Place(m) = "window"
       PROVE  Offset(m) \in Int /\ Offset(m) <= 2 + (IF a \in empties[m] THEN 0 ELSE N_MINI + 1)
    BY Zenon
  <2>1. mini_batch_num[m] = Begin(a) + N_MINI + 1
    BY Zenon, <1>1, <1>8 DEF QueueInv
  <2>2. Dest(m) \in Int /\ Dest(m) <= Begin(a) + N_MINI + 1
    <3>1. CASE q_p[m] < send_q_tail[m]
      <4>1. q_p[m] \in Nat /\ send_q_tail[m] \in Nat
        BY Zenon, QueueFacts
      <4>2. q_p[m] \in 0 .. send_q_tail[m] - 1
        BY <3>1, <4>1
      <4>3. send_q[m][q_p[m]] \in Nat /\ send_q[m][q_p[m]] < Begin(a) + N_MINI
        BY Zenon, QueueFacts, <4>2
      <4>4. Dest(m) = send_q[m][q_p[m]]
        BY Zenon, <3>1 DEF Dest
      <4>. QED  BY <1>2, <1>8, <4>3, <4>4
    <3>2. CASE ~(q_p[m] < send_q_tail[m])
      <4>1. Dest(m) = mini_batch_num[m]
        BY Zenon, <3>2 DEF Dest
      <4>. QED  BY <1>2, <1>8, <2>1, <4>1
    <3>. QED  BY Zenon, <3>1, <3>2
  <2>3. Offset(m) = IF a \in empties[m] THEN 2 ELSE 2 + Dest(m) - Begin(a)
    BY Zenon DEF Offset
  <2>. QED  BY <1>2, <1>8, <2>2, <2>3
<1>13. /\ Offset(m) \in Int
       /\ Place(m) \notin {"cold", "done"} => Offset(m) <= 3 + (IF a \in empties[m] THEN 0 ELSE N_MINI + 1)
  BY <1>2, <1>9, <1>11, <1>12
<1>14. Returned(m) >= Start(m, a)
  <2>1. CASE Place(m) = "window"
    BY <1>1, <1>8, <1>10, <2>1 DEF CallInv
  <2>2. CASE Place(m) # "window"
    <3>1. calls[m] = Start(m, a) + Offset(m)
      BY <1>8, <1>10, <1>13, <2>2
    <3>2. CASE pc[m] = "bar"
      <4>1. Place(m) \notin {"cold", "done"}
        BY Zenon, <1>9, <3>2
      <4>2. Offset(m) >= 1
        BY <1>2, <1>9, <1>11, <2>2, <4>1
      <4>. QED  BY <1>8, <1>13, <3>1, <3>2, <4>2 DEF Returned
    <3>3. CASE pc[m] # "bar"
      <4>1. Offset(m) >= 0
        BY <1>2, <1>9, <1>11, <2>2
      <4>. QED  BY <1>8, <1>13, <3>1, <3>3, <4>1 DEF Returned
    <3>. QED  BY Zenon, <3>2, <3>3
  <2>. QED  BY Zenon, <2>1, <2>2
<1>. HIDE DEF S, a, b
<1>15. ~(a < b)
  <2>. SUFFICES ASSUME a < b
       PROVE  FALSE
    BY Zenon
  <2>1. Start(n, a) = Start(m, a)
    BY <1>2, <1>8, SameStart DEF a, b
  <2>2. Start(n, a) + 3 + Long(a) <= S
    BY Zenon, <1>2, <1>8, <1>StartLater DEF S
  <2>3. calls[m] <= Start(m, a) + Offset(m)
    BY <1>8, <1>10, <1>13
  <2>4. Offset(m) <= 3 + Long(a)
    <3>1. CASE Place(m) \in {"cold", "done"}
      BY <1>2, <1>11, <3>1
    <3>2. CASE Place(m) \notin {"cold", "done"}
      <4>1. pc[m] # "cold"
        BY Zenon, <1>9, <3>2
      <4>2. b > a
        BY Zenon, <1>2, <1>8
      <4>3. a \in empties[m] <=> a \in empties[n]
        BY Zenon, <4>1, <4>2 DEF Uneven, a, b
      <4>. QED  BY Zenon, <1>13, <3>2, <4>3
    <3>. QED  BY Zenon, <3>1, <3>2
  <2>5. Long(a) \in Nat
    BY <1>2
  <2>. HIDE DEF Long
  <2>. QED  BY <1>2, <1>4, <1>7, <1>8, <1>13, <2>1, <2>2, <2>3, <2>4, <2>5
<1>16. ~(b < a)
  <2>. SUFFICES ASSUME b < a
       PROVE  FALSE
    BY Zenon
  <2>1. S = Start(m, b)
    BY <1>2, <1>8, SameStart DEF a, b, S
  <2>2. b \notin empties[m]
    <3>1. pc[n] # "cold"
      BY Zenon
    <3>. QED  BY Zenon, <1>5, <3>1 DEF Uneven, b
  <2>3. Start(m, b) + 3 + (IF b \in empties[m] THEN 0 ELSE N_MINI + 1) <= Start(m, a)
    BY Zenon, <1>2, <1>8, <1>StartLater
  <2>4. S + 3 + (N_MINI + 1) <= Start(m, a)
    BY Zenon, <2>1, <2>2, <2>3
  <2>. QED  BY <1>1, <1>2, <1>7, <1>8, <1>10, <1>14, <2>4
<1>17. a = b
  BY <1>2, <1>8, <1>15, <1>16
<1>18. Start(m, a) = S
  <2>1. b <= batch[n] /\ b <= batch[m]
    BY <1>2, <1>17 DEF a, b
  <2>. QED  BY Zenon, <1>2, <1>17, <2>1, SameStart DEF S
<1>19. Place(m) \notin {"cold", "done", "start"}
  <2>. SUFFICES ASSUME Place(m) \in {"cold", "done", "start"}
       PROVE  FALSE
    BY Zenon
  <2>1. calls[m] <= S + 1
    BY <1>2, <1>8, <1>10, <1>11, <1>18
  <2>. QED  BY <1>2, <1>4, <1>7, <1>8, <2>1
<1>20. Place(m) # "over"
  <2>. SUFFICES ASSUME Place(m) = "over"
       PROVE  FALSE
    BY Zenon
  <2>1. b \notin empties[m]
    <3>1. pc[n] # "cold"
      BY Zenon
    <3>. QED  BY Zenon, <1>5, <3>1 DEF Uneven, b
  <2>2. calls[m] = S + 3 + (N_MINI + 1)
    BY <1>2, <1>8, <1>10, <1>11, <1>17, <1>18, <2>1
  <2>3. Returned(m) >= calls[m] - 1
    BY <1>8 DEF Returned
  <2>. QED  BY <1>1, <1>2, <1>7, <1>8, <1>10, <2>2, <2>3
<1>. QED  BY Zenon, <1>9, <1>17, <1>19, <1>20 DEF a, b

-----------------------------------------------------------------------------
(* One pass.                                                                *)

\* A packet carries its transaction: the instructions say where the layout put its
\* operations, and data not yet exchanged are the values to write.
PacketInv ==
  \A t \in Txns : place[t] # "node" =>
    /\ MakeTxnAsserts(t)
    /\ offset[t] = base_offset(t) /\ i[t] = Instrs(t)
    /\ \A r \in DOMAIN hot_ops_pass1[t] : stage[t] <= r => d[t][r] = hot_ops_pass1[t][r].value

StageInv ==
  \A t \in Txns :
    /\ place[t] \in {"node", "network"} => stage[t] = 0
    /\ place[t] = "replied" => stage[t] = N_REGS

\* The packets in the pipeline have different places in the order, and the next
\* one comes after all of them.
OrderInv ==
  /\ \A t \in Entered : entered[t] <= Cardinality(Entered)
  /\ \A t, u \in Entered : t # u => entered[t] # entered[u]

IInv == TypeOK /\ PacketInv /\ StageInv /\ OrderInv

-----------------------------------------------------------------------------
(* Facts about the order.                                                  *)

LEMMA PickSingleton == \A t : Pick({t}) = t
BY Zenon DEF Pick

-----------------------------------------------------------------------------
(* Where a packet's instruction points.                                    *)

LEMMA BaseType ==
  ASSUME NEW t \in Txns
  PROVE  /\ base_offset(t) \in Nat /\ base_offset(t) \in Records
         /\ SPAN * (base_offset(t) \div SPAN) = base_offset(t)
<1>DivExact. \A q \in Nat, s \in Nat \ {0} : (s * q) \div s = q
  OBVIOUS
<1>1. SPAN \in Nat \ {0} /\ N_RECORDS \in Nat /\ SLOTS_PER_SCHED_BLOCK \in Nat /\ block_num[t] \in Nat
  BY Zenon, OnePassAssumption
<1>2. block_num[t] * SLOTS_PER_SCHED_BLOCK \in Records
  BY Zenon, OnePassAssumption
<1>. DEFINE start == block_num[t] * SLOTS_PER_SCHED_BLOCK
            q == start \div SPAN
<1>3. start \in Nat /\ start < N_RECORDS
  BY <1>1, <1>2 DEF Records
<1>4. q \in Nat /\ SPAN * q <= start /\ SPAN * q \in Nat
  BY <1>1, <1>3
<1>5. base_offset(t) = SPAN * q
  BY Zenon DEF base_offset
<1>6. (SPAN * q) \div SPAN = q
  BY Zenon, <1>1, <1>4, <1>DivExact
<1>. QED  BY <1>1, <1>3, <1>4, <1>5, <1>6 DEF Records

\* An instruction of the transaction points to the operation's record.
LEMMA AddressExact ==
  ASSUME TypeOK, PacketInv, NEW t \in Txns, place[t] # "node",
         NEW r \in DOMAIN hot_ops_pass1[t]
  PROVE  /\ r \in Regs
         /\ Address(t, r) = hot_ops_pass1[t][r].idx
         /\ i[t][r].write <=> hot_ops_pass1[t][r].mode = "WRITE"
<1>1. r \in Regs /\ hot_ops_pass1[t][r] \in Op
  BY Zenon, OnePassAssumption
<1>2. i[t] = Instrs(t) /\ offset[t] = base_offset(t)
  BY Zenon DEF PacketInv
<1>3. i[t][r] = [idx |-> RelIdx(t, r), write |-> hot_ops_pass1[t][r].mode = "WRITE"]
  BY Zenon, <1>1, <1>2 DEF Instrs
<1>4. i[t][r].idx = hot_ops_pass1[t][r].idx - base_offset(t)
  BY <1>3 DEF RelIdx
<1>5. hot_ops_pass1[t][r].idx \in Int
  BY <1>1, OnePassAssumption DEF Op, Records
<1>6. Address(t, r) = base_offset(t) + (hot_ops_pass1[t][r].idx - base_offset(t))
  BY Zenon, <1>2, <1>4, BaseType DEF Address
<1>7. Address(t, r) = hot_ops_pass1[t][r].idx
  BY <1>5, <1>6, BaseType
<1>8. i[t][r].write = (hot_ops_pass1[t][r].mode = "WRITE")
  BY <1>3
<1>. QED  BY Zenon, <1>1, <1>7, <1>8

-----------------------------------------------------------------------------
(* The invariant.                                                          *)

LEMMA InitInv == Init => IInv
<1>. SUFFICES ASSUME Init PROVE IInv
  BY Zenon
<1>1. N_REGS \in Nat /\ N_RECORDS \in Nat /\ initial \in [Regs -> Values]
     /\ buffer \in [Txns -> [Regs -> Values]]
  BY Zenon, OnePassAssumption
<1>2. TypeOK
  <2>1. i \in [Txns -> [Regs -> [idx : Nat, write : BOOLEAN]]]
    BY Zenon DEF Init, NoInstr
  <2>2. offset \in [Txns -> Records]
    <3>. SUFFICES ASSUME NEW t \in Txns PROVE 0 \in Records
      BY Zenon DEF Init
    <3>1. block_num[t] * SLOTS_PER_SCHED_BLOCK \in Records
      BY Zenon, OnePassAssumption
    <3>. QED  BY <1>1, <3>1 DEF Records
  <2>. QED  BY <1>1, <2>1, <2>2 DEF Init, TypeOK, Places
<1>3. PacketInv /\ StageInv
  BY Zenon DEF Init, PacketInv, StageInv
<1>4. OrderInv
  BY Zenon DEF Init, OrderInv, Entered
<1>. QED  BY Zenon, <1>2, <1>3, <1>4 DEF IInv

LEMMA SendInv ==
  ASSUME IInv, NEW t \in Txns, Send(t)
  PROVE  IInv'
<1>. USE DEF IInv
<1>1. d' = [d EXCEPT ![t] = [r \in Regs |-> IF r \in DOMAIN hot_ops_pass1[t]
                                             THEN hot_ops_pass1[t][r].value ELSE d[t][r]]]
  BY Zenon DEF Send
<1>2. \A r \in DOMAIN hot_ops_pass1[t] : r \in Regs /\ hot_ops_pass1[t][r] \in Op
  BY Zenon, OnePassAssumption
<1>3. Instrs(t) \in [Regs -> [idx : Nat, write : BOOLEAN]]
  <2>1. \A r \in DOMAIN hot_ops_pass1[t] : RelIdx(t, r) \in Nat
    BY DEF Send, MakeTxnAsserts
  <2>. QED  BY Zenon, <2>1 DEF Instrs, NoInstr
<1>4. TypeOK'
  BY <1>1, <1>2, <1>3, BaseType DEF Send, TypeOK, Places, Op
<1>5. PacketInv'
  <2>. SUFFICES ASSUME NEW u \in Txns, place'[u] # "node"
                PROVE  /\ MakeTxnAsserts(u)
                       /\ offset'[u] = base_offset(u) /\ i'[u] = Instrs(u)
                       /\ \A r \in DOMAIN hot_ops_pass1[u] :
                            stage'[u] <= r => d'[u][r] = hot_ops_pass1[u][r].value
    BY Zenon DEF PacketInv
  <2>1. CASE u = t
    BY Zenon, <1>1, <1>2, <2>1 DEF Send, TypeOK
  <2>2. CASE u # t
    BY <1>1, <2>2 DEF Send, TypeOK, PacketInv
  <2>. QED  BY Zenon, <2>1, <2>2
<1>6. StageInv'
  BY Zenon DEF Send, TypeOK, StageInv
<1>7. Entered' = Entered
  BY Zenon DEF Send, TypeOK, Entered
<1>8. OrderInv'
  BY Zenon, <1>7 DEF OrderInv, Send
<1>. QED  BY Zenon, <1>4, <1>5, <1>6, <1>8

LEMMA AccessInv ==
  ASSUME IInv, NEW t \in Txns, Access(t)
  PROVE  IInv'
<1>AddressType. ASSUME TypeOK, PacketInv, place[t] # "node", NEW r \in Regs
       PROVE  Address(t, r) \in Records
  <2>. USE <1>AddressType
  <2>1. CASE r \in DOMAIN hot_ops_pass1[t]
    BY <2>1, AddressExact, OnePassAssumption DEF Op
  <2>2. CASE r \notin DOMAIN hot_ops_pass1[t]
    <3>1. i[t] = Instrs(t) /\ offset[t] = base_offset(t)
      BY Zenon DEF PacketInv
    <3>2. i[t][r].idx = 0
      BY <2>2, <3>1 DEF Instrs, NoInstr
    <3>. QED  BY <3>1, <3>2, BaseType DEF Address
  <2>. QED  BY Zenon, <2>1, <2>2
<1>. USE DEF IInv
<1>0. N_REGS \in Nat
  BY Zenon, OnePassAssumption
<1>1. stage[t] \in Regs
  BY <1>0 DEF Access, TypeOK, Regs
<1>2. Address(t, stage[t]) \in Records
  BY Zenon, <1>1, <1>AddressType DEF Access
<1>3. TypeOK'
  <2>1. d' \in [Txns -> [Regs -> Values]]
    BY <1>1, <1>2 DEF Access, TypeOK
  <2>2. reg' \in [Regs -> [Records -> Values]]
    BY <1>1, <1>2 DEF Access, TypeOK
  <2>3. stage' \in [Txns -> 0 .. N_REGS]
    BY <1>0 DEF Access, TypeOK
  <2>. QED  BY Zenon, <2>1, <2>2, <2>3 DEF Access, TypeOK
<1>4. PacketInv'
  <2>. SUFFICES ASSUME NEW u \in Txns, place[u] # "node", NEW r \in DOMAIN hot_ops_pass1[u],
                       stage'[u] <= r
                PROVE  d'[u][r] = hot_ops_pass1[u][r].value
    BY Zenon DEF Access, PacketInv
  <2>0. r \in Regs /\ r \in Int
    BY <1>0, OnePassAssumption DEF Regs
  <2>1. CASE u = t
    <3>1. stage'[t] = stage[t] + 1 /\ stage[t] \in Int
      BY <1>0 DEF Access, TypeOK
    <3>2. stage[t] <= r /\ r # stage[t]
      BY <2>0, <2>1, <3>1
    <3>3. d'[t][r] = d[t][r]
      BY Zenon, <2>0, <3>2 DEF Access, TypeOK
    <3>. QED  BY Zenon, <2>1, <3>2, <3>3 DEF PacketInv
  <2>2. CASE u # t
    BY Zenon, <2>2 DEF Access, TypeOK, PacketInv
  <2>. QED  BY Zenon, <2>1, <2>2
<1>5. StageInv'
  BY Zenon, <1>0 DEF Access, TypeOK, StageInv
<1>6. OrderInv'
  BY Zenon DEF Access, OrderInv, Entered
<1>. QED  BY Zenon, <1>3, <1>4, <1>5, <1>6

LEMMA ReplyInv ==
  ASSUME IInv, NEW t \in Txns, Reply(t)
  PROVE  IInv'
<1>. USE DEF IInv
<1>1. TypeOK' /\ StageInv'
  BY Zenon DEF Reply, TypeOK, StageInv, Places
<1>2. PacketInv'
  BY Zenon DEF Reply, TypeOK, PacketInv
<1>3. Entered' = Entered
  BY Zenon DEF Reply, TypeOK, Entered
<1>4. OrderInv'
  BY Zenon, <1>3 DEF OrderInv, Reply
<1>. QED  BY Zenon, <1>1, <1>2, <1>4

-----------------------------------------------------------------------------
(* The refinement.                                                         *)

LEMMA InitStore == Init => Store!Init
<1>. SUFFICES ASSUME Init PROVE Store!Init
  BY Zenon
<1>1. InPipe = {} /\ Entered = {}
  BY Zenon DEF Init, InPipe, Entered
<1>2. \A r \in Regs, x \in Records : After(Pending(r, x), entered, reg, r, x) = initial[r]
  BY Zenon, <1>1 DEF Init, Pending, After
<1>. QED  BY Zenon, <1>1, <1>2 DEF Store!Init, storeBar, replyBar

LEMMA ReplySame ==
  ASSUME Entered' = Entered,
         \A t \in Entered : \A r \in DOMAIN hot_ops_pass1[t] : Reads(t, r)' = Reads(t, r)
  PROVE  replyBar' = replyBar
BY Zenon DEF replyBar

LEMMA SendStutters ==
  ASSUME IInv, NEW t \in Txns, Send(t)
  PROVE  UNCHANGED Store!vars
<1>1. Entered' = Entered /\ InPipe' = InPipe /\ t \notin Entered
  BY Zenon DEF IInv, Send, TypeOK, Entered, InPipe
<1>2. \A r, x : Pending(r, x)' = Pending(r, x)
  BY Zenon, <1>1 DEF Pending, Send
<1>3. entered' = entered /\ reg' = reg /\ stage' = stage
  BY Zenon DEF Send
<1>4. \A u \in Entered : d'[u] = d[u]
  BY Zenon, <1>1 DEF IInv, Send, TypeOK, Entered
<1>5. storeBar' = storeBar
  BY Zenon, <1>2, <1>3 DEF storeBar
<1>6. \A u \in Entered : \A r : Reads(u, r)' = Reads(u, r)
  BY Zenon, <1>2, <1>3, <1>4 DEF Reads, Ahead
<1>7. replyBar' = replyBar
  BY Zenon, <1>1, <1>6, ReplySame
<1>. QED  BY Zenon, <1>5, <1>7 DEF Store!vars

LEMMA ReplyStutters ==
  ASSUME IInv, NEW t \in Txns, Reply(t)
  PROVE  UNCHANGED Store!vars
<1>1. Entered' = Entered /\ InPipe' = InPipe \ {t}
  BY Zenon DEF IInv, Reply, TypeOK, Entered, InPipe
<1>2. \A r \in Regs : \A x : Pending(r, x)' = Pending(r, x)
  <2>1. \A r \in Regs : ~(stage[t] <= r)
    BY OnePassAssumption DEF Reply, Regs
  <2>. QED  BY Zenon, <1>1, <2>1 DEF Pending, Reply
<1>3. entered' = entered /\ reg' = reg /\ stage' = stage /\ d' = d
  BY Zenon DEF Reply
<1>4. storeBar' = storeBar
  BY Zenon, <1>2, <1>3 DEF storeBar
<1>5. \A u \in Entered : \A r \in DOMAIN hot_ops_pass1[u] : r \in Regs
  BY Zenon, OnePassAssumption DEF Entered
<1>6. \A u \in Entered : \A r \in DOMAIN hot_ops_pass1[u] : Reads(u, r)' = Reads(u, r)
  BY Zenon, <1>2, <1>3, <1>5 DEF Reads, Ahead
<1>7. replyBar' = replyBar
  BY Zenon, <1>1, <1>6, ReplySame
<1>. QED  BY Zenon, <1>4, <1>7 DEF Store!vars

LEMMA AccessStutters ==
  ASSUME IInv, NEW t \in Txns, Access(t)
  PROVE  UNCHANGED Store!vars
\* The access of the oldest packet that has yet to come to a register changes the
\* register, and leaves what it will hold in the end.
<1>AfterAccess. ASSUME NEW r, r = stage[t],
                NEW x \in Records, NEW S, S \subseteq Pending(r, x),
                Writes(t, r, x) => t \in S
       PROVE  After(S \ {t}, entered', reg', r, x) = After(S, entered, reg, r, x)
  <2>. USE <1>AfterAccess
  <2>NewestSingleton. ASSUME NEW q, NEW e, e[q] \in Nat
         PROVE  Newest({q}, e) = {q}
    BY <2>NewestSingleton DEF Newest
\* Without its oldest packet, a set has the same newest one.
  <2>NewestDropOldest. ASSUME NEW e, NEW q, \A u \in S : e[u] \in Nat,
                  \A u \in S \ {q} : e[q] < e[u], S \ {q} # {}, q \in S
         PROVE  Newest(S, e) = Newest(S \ {q}, e)
    BY <2>NewestDropOldest DEF Newest
\* A register without operation is not written.
  <2>UnusedReads. ASSUME PacketInv, place[t] # "node",
                  NEW p \in Regs, p \notin DOMAIN hot_ops_pass1[t]
         PROVE  ~ i[t][p].write
    <3>. USE <2>UnusedReads
    <3>1. i[t] = Instrs(t)
      BY Zenon DEF PacketInv
    <3>2. i[t][p] = NoInstr
      BY Zenon, <3>1 DEF Instrs
    <3>. QED  BY <3>2 DEF NoInstr
  <2>0. r \in Regs
    BY OnePassAssumption DEF IInv, Access, TypeOK, Regs
  <2>1. entered' = entered
    BY Zenon DEF Access
  <2>2. reg'[r][x] = IF x = Address(t, r) /\ i[t][r].write THEN d[t][r] ELSE reg[r][x]
    BY Zenon, <2>0 DEF IInv, Access, TypeOK
  <2>3. place[t] = "pipeline"
    BY Zenon DEF Access
  <2>4. \A u \in S : u \in Txns /\ u \in InPipe /\ stage[u] <= r /\ Writes(u, r, x)
    BY Zenon DEF Pending, InPipe
  <2>5. CASE Writes(t, r, x)
    <3>1. t \in S
      BY Zenon, <2>5
    <3>2. CASE S \ {t} = {}
      <4>1. S = {t}
        BY Zenon, <3>1, <3>2
      <4>2. Pick(Newest(S, entered)) = t
        BY Zenon, <4>1, <2>NewestSingleton, PickSingleton DEF IInv, TypeOK
      <4>3. reg'[r][x] = hot_ops_pass1[t][r].value
        <5>1. r \in DOMAIN hot_ops_pass1[t] /\ hot_ops_pass1[t][r].idx = x
               /\ hot_ops_pass1[t][r].mode = "WRITE"
          BY Zenon, <2>5 DEF Writes
        <5>2. x = Address(t, r) /\ i[t][r].write
          BY Zenon, <2>3, <5>1, AddressExact DEF IInv
        <5>3. d[t][r] = hot_ops_pass1[t][r].value
          BY <2>0, <2>3, <5>1 DEF IInv, PacketInv, Regs
        <5>. QED  BY Zenon, <2>2, <5>2, <5>3
      <4>. QED  BY Zenon, <3>1, <3>2, <4>2, <4>3 DEF After
    <3>3. CASE S \ {t} # {}
      <4>1. \A u \in S \ {t} : entered[t] < entered[u]
        <5>. SUFFICES ASSUME NEW u \in S \ {t} PROVE entered[t] < entered[u]
          BY Zenon
        <5>1. u \in InPipe /\ stage[u] <= stage[t] /\ u \in Txns
          BY Zenon, <2>4
        <5>2. ~(entered[u] < entered[t])
          BY <5>1 DEF Access, InOrder, IInv, TypeOK
        <5>3. entered[u] # entered[t]
          BY Zenon, <2>3, <5>1 DEF IInv, OrderInv, Entered, InPipe
        <5>4. entered[u] \in Nat /\ entered[t] \in Nat
          BY Zenon, <5>1 DEF IInv, TypeOK
        <5>. QED  BY <5>2, <5>3, <5>4
      <4>2. Newest(S, entered) = Newest(S \ {t}, entered)
        BY Zenon, <2>4, <3>1, <3>3, <4>1, <2>NewestDropOldest DEF IInv, TypeOK
      <4>. QED  BY Zenon, <2>1, <3>1, <3>3, <4>2 DEF After
    <3>. QED  BY Zenon, <3>2, <3>3
  <2>6. CASE ~Writes(t, r, x)
    <3>1. S \ {t} = S
      BY Zenon, <2>4, <2>6
    <3>2. ~(x = Address(t, r) /\ i[t][r].write)
      <4>1. CASE r \in DOMAIN hot_ops_pass1[t]
        BY Zenon, <2>3, <2>6, <4>1, AddressExact DEF IInv, Writes
      <4>2. CASE r \notin DOMAIN hot_ops_pass1[t]
        BY Zenon, <2>0, <2>3, <4>2, <2>UnusedReads DEF IInv
      <4>. QED  BY Zenon, <4>1, <4>2
    <3>. QED  BY Zenon, <2>1, <2>2, <3>1, <3>2 DEF After
  <2>. QED  BY Zenon, <2>5, <2>6
<1>. DEFINE r == stage[t]
<1>0. N_REGS \in Nat /\ r \in Regs /\ r \in Int
  BY OnePassAssumption DEF IInv, Access, TypeOK, Regs
<1>1. Entered' = Entered /\ InPipe' = InPipe /\ entered' = entered
  BY Zenon DEF Access, Entered, InPipe
<1>2. place[t] = "pipeline" /\ t \in InPipe /\ t \in Entered
  BY Zenon DEF Access, InPipe, Entered
<1>3. \A u \in Txns : stage'[u] = (IF u = t THEN r + 1 ELSE stage[u]) /\ stage[u] \in Int
  BY <1>0 DEF IInv, Access, TypeOK
<1>4. \A s \in Regs : \A x : Pending(s, x)' = IF s = r THEN Pending(s, x) \ {t} ELSE Pending(s, x)
  <2>1. \A s \in Regs : s \in Int
    BY DEF Regs
  <2>. QED  BY <1>0, <1>1, <1>3, <2>1 DEF Pending, InPipe
<1>5. \A s \in Regs : s # r => reg'[s] = reg[s]
  BY Zenon, <1>0 DEF IInv, Access, TypeOK
<1>6. storeBar' = storeBar
  <2>. SUFFICES ASSUME NEW s \in Regs, NEW x \in Records
                PROVE  After(Pending(s, x)', entered', reg', s, x)
                         = After(Pending(s, x), entered, reg, s, x)
    BY Zenon DEF storeBar
  <2>1. CASE s # r
    BY Zenon, <1>1, <1>4, <1>5, <2>1 DEF After
  <2>2. CASE s = r
    <3>1. Writes(t, s, x) => t \in Pending(s, x)
      BY <1>0, <1>2, <2>2 DEF Pending
    <3>2. Pending(s, x)' = Pending(s, x) \ {t}
      BY Zenon, <1>4, <2>2
    <3>. QED  BY <2>2, <3>1, <3>2, <1>AfterAccess
  <2>. QED  BY Zenon, <2>1, <2>2
<1>7. \A u \in Entered : \A s \in DOMAIN hot_ops_pass1[u] : Reads(u, s)' = Reads(u, s)
  <2>. SUFFICES ASSUME NEW u \in Entered, NEW s \in DOMAIN hot_ops_pass1[u]
                PROVE  Reads(u, s)' = Reads(u, s)
    BY Zenon
  <2>. DEFINE x == hot_ops_pass1[u][s].idx
  <2>0. u \in Txns /\ s \in Regs /\ s \in Int /\ x \in Records
    BY OnePassAssumption DEF Entered, Regs, Op
  <2>a. Ahead(u, s, x)' = IF s = r THEN Ahead(u, s, x) \ {t} ELSE Ahead(u, s, x)
    BY Zenon, <1>1, <1>4, <2>0 DEF Ahead
  <2>1. CASE u = t /\ s = r
    <3>1. Ahead(t, r, x) = {}
      <4>. SUFFICES ASSUME NEW v \in Ahead(t, r, x) PROVE FALSE
        BY Zenon
      <4>1. v \in InPipe /\ stage[v] <= r /\ entered[v] < entered[t]
        BY Zenon DEF Ahead, Pending
      <4>2. stage[v] > r
        BY Zenon, <4>1 DEF Access, InOrder
      <4>3. stage[v] \in Int /\ r \in Int
        BY Zenon, <1>0, <1>3, <4>1 DEF InPipe
      <4>. QED  BY <4>1, <4>2, <4>3
    <3>2. Reads(t, r) = reg[r][x]
      <4>1. ~(stage[t] > r)
        BY <1>0
      <4>2. x = hot_ops_pass1[t][r].idx
        BY Zenon, <2>1
      <4>. QED  BY Zenon, <3>1, <4>1, <4>2 DEF Reads, After
    <3>3. Reads(t, s)' = d'[t][s]
      BY <1>0, <1>3, <2>0, <2>1 DEF Reads
    <3>4. d'[t][r] = reg[r][Address(t, r)]
      BY Zenon, <1>0 DEF IInv, Access, TypeOK
    <3>5. Address(t, r) = x
      BY Zenon, <1>2, <2>1, AddressExact DEF IInv
    <3>. QED  BY Zenon, <2>1, <3>2, <3>3, <3>4, <3>5
  <2>2. CASE ~(u = t /\ s = r) /\ stage[u] > s
    <3>1. stage'[u] > s
      BY <1>0, <1>3, <2>0, <2>2
    <3>2. d'[u][s] = d[u][s]
      BY Zenon, <1>0, <2>0, <2>2 DEF IInv, Access, TypeOK
    <3>. QED  BY Zenon, <2>2, <3>1, <3>2 DEF Reads
  <2>3. CASE ~(u = t /\ s = r) /\ ~(stage[u] > s)
    <3>1. ~(stage'[u] > s)
      BY <1>0, <1>3, <2>0, <2>3
    <3>2. After(Ahead(u, s, x)', entered', reg', s, x) = After(Ahead(u, s, x), entered, reg, s, x)
      <4>1. CASE s # r
        BY Zenon, <1>1, <1>5, <2>0, <2>a, <4>1 DEF After
      <4>2. CASE s = r
        <5>1. u # t /\ u \in InPipe
          BY <1>0, <2>0, <2>3, <4>2 DEF IInv, StageInv, InPipe, Entered, Regs
        <5>2. ~(entered[u] < entered[t])
          BY Zenon, <2>0, <2>3, <4>2, <5>1 DEF Access, InOrder
        <5>3. entered[u] # entered[t]
          BY Zenon, <1>2, <2>0, <5>1 DEF IInv, OrderInv
        <5>4. entered[u] \in Nat /\ entered[t] \in Nat
          BY Zenon, <2>0 DEF IInv, TypeOK
        <5>5. entered[t] < entered[u]
          BY <5>2, <5>3, <5>4
        <5>6. Writes(t, s, x) => t \in Ahead(u, s, x)
          BY <1>0, <1>2, <4>2, <5>5 DEF Ahead, Pending
        <5>7. Ahead(u, s, x) \subseteq Pending(s, x)
          BY Zenon DEF Ahead
        <5>8. Ahead(u, s, x)' = Ahead(u, s, x) \ {t}
          BY Zenon, <2>a, <4>2
        <5>9. s = stage[t]
          BY Zenon, <4>2
        <5>. HIDE DEF x
        <5>10. After(Ahead(u, s, x) \ {t}, entered', reg', s, x) = After(Ahead(u, s, x), entered, reg, s, x)
          BY Zenon, <2>0, <5>6, <5>7, <5>9, <1>AfterAccess
        <5>. QED  BY Zenon, <5>8, <5>10
      <4>. QED  BY Zenon, <4>1, <4>2
    <3>. QED  BY Zenon, <2>3, <3>1, <3>2 DEF Reads
  <2>. QED  BY Zenon, <2>1, <2>2, <2>3
<1>8. replyBar' = replyBar
  BY Zenon, <1>1, <1>7, ReplySame
<1>. QED  BY Zenon, <1>6, <1>8 DEF Store!vars

-----------------------------------------------------------------------------
(* A packet comes last in the order when the parser takes it.               *)
INSTANCE FiniteSetTheorems

LEMMA ParseInv ==
  ASSUME IInv, NEW t \in Txns, Parse(t)
  PROVE  IInv'
<1>. USE DEF IInv
<1>1. IsFiniteSet(Entered) /\ Cardinality(Entered) \in Nat
  BY Zenon, OnePassAssumption, FS_Subset, FS_CardinalityType DEF Entered
<1>2. Entered' = Entered \cup {t} /\ t \notin Entered
  BY Zenon DEF Parse, TypeOK, Entered
<1>3. Cardinality(Entered') = Cardinality(Entered) + 1
  BY Zenon, <1>1, <1>2, FS_AddElement
<1>4. TypeOK'
  BY <1>1 DEF Parse, TypeOK, Places
<1>5. PacketInv' /\ StageInv'
  BY Zenon DEF Parse, TypeOK, PacketInv, StageInv
<1>6. entered'[t] = Cardinality(Entered) + 1
  BY Zenon DEF Parse, TypeOK
<1>7. \A u \in Entered : u \in Txns /\ entered'[u] = entered[u] /\ entered[u] \in Nat
  BY Zenon, <1>2 DEF Parse, TypeOK, Entered
<1>8. OrderInv'
  BY <1>1, <1>2, <1>3, <1>6, <1>7 DEF OrderInv
<1>. QED  BY Zenon, <1>4, <1>5, <1>8

LEMMA Invariance == Spec => []IInv
<1>1. IInv /\ [Next]_vars => IInv'
  <2>. SUFFICES ASSUME IInv, [Next]_vars PROVE IInv'
    BY Zenon
  <2>1. CASE Next
    BY Zenon, <2>1, SendInv, ParseInv, AccessInv, ReplyInv DEF Next, Step
  <2>2. CASE UNCHANGED vars
    BY Zenon, <2>2 DEF vars, IInv, TypeOK, PacketInv, StageInv, OrderInv, Entered
  <2>. QED  BY Zenon, <2>1, <2>2
<1>. QED  BY <1>1, InitInv, PTL DEF Spec

\* A packet that enters the pipeline executes its transaction.
LEMMA ParseExecutes ==
  ASSUME IInv, NEW t \in Txns, Parse(t)
  PROVE  Store!Execute(t)
\* A packet that comes after all others is the newest.
<1>NewestAdded. ASSUME NEW S, NEW e, NEW q, \A u \in S \cup {q} : e[u] \in Nat,
                \A u \in S \ {q} : e[u] < e[q]
       PROVE  Newest(S \cup {q}, e) = {q}
  BY <1>NewestAdded DEF Newest
<1>NewestSame. ASSUME NEW S, NEW e, NEW f, \A u \in S : e[u] = f[u]
       PROVE  Newest(S, e) = Newest(S, f)
  BY <1>NewestSame, Zenon DEF Newest
<1>1. IsFiniteSet(Entered) /\ Cardinality(Entered) \in Nat
  BY Zenon, OnePassAssumption, FS_Subset, FS_CardinalityType DEF Entered
<1>2. Entered' = Entered \cup {t} /\ t \notin Entered /\ InPipe' = InPipe \cup {t}
  BY Zenon DEF IInv, Parse, TypeOK, Entered, InPipe
<1>3. reg' = reg /\ stage' = stage /\ d' = d /\ stage[t] = 0
  BY Zenon DEF IInv, Parse, StageInv
<1>4. \A u \in Entered : u \in Txns /\ entered'[u] = entered[u] /\ entered[u] \in Nat
                         /\ entered'[u] < entered'[t]
  <2>1. entered' = [entered EXCEPT ![t] = Cardinality(Entered) + 1]
    BY Zenon DEF Parse
  <2>2. \A u \in Entered : u \in Txns /\ u # t /\ entered[u] \in Nat
    BY Zenon, <1>2 DEF IInv, TypeOK, Entered
  <2>3. \A u \in Entered : entered[u] <= Cardinality(Entered)
    BY Zenon DEF IInv, OrderInv
  <2>4. entered'[t] = Cardinality(Entered) + 1
    BY Zenon, <2>1 DEF IInv, TypeOK
  <2>5. \A u \in Entered : entered'[u] = entered[u]
    BY Zenon, <2>1, <2>2 DEF IInv, TypeOK
  <2>. QED  BY <1>1, <2>2, <2>3, <2>4, <2>5
<1>5. entered'[t] \in Nat
  <2>1. entered'[t] = Cardinality(Entered) + 1
    BY Zenon DEF IInv, Parse, TypeOK
  <2>. QED  BY <1>1, <2>1
<1>6. \A r \in Regs : \A x : /\ Pending(r, x) \subseteq Entered
                             /\ Pending(r, x)' = IF Writes(t, r, x) THEN Pending(r, x) \cup {t}
                                                 ELSE Pending(r, x)
  <2>1. \A r \in Regs : 0 <= r
    BY DEF Regs
  <2>. QED  BY <1>2, <1>3, <2>1 DEF Pending, InPipe, Entered
<1>7. ASSUME NEW S, S \subseteq Entered, NEW r, NEW x
      PROVE  After(S, entered', reg', r, x) = After(S, entered, reg, r, x)
  <2>1. Newest(S, entered') = Newest(S, entered)
    BY Zenon, <1>4, <1>7, <1>NewestSame
  <2>. QED  BY Zenon, <1>3, <2>1 DEF After
<1>8. \A r \in DOMAIN hot_ops_pass1[t] : r \in Regs /\ hot_ops_pass1[t][r].idx \in Records
  BY Zenon, OnePassAssumption DEF Op
<1>9. replyBar[t] = NoReply
  BY Zenon, <1>2 DEF replyBar
<1>10. ASSUME NEW r \in DOMAIN hot_ops_pass1[t]
       PROVE  Reads(t, r)' = storeBar[r][hot_ops_pass1[t][r].idx]
  <2>. DEFINE x == hot_ops_pass1[t][r].idx
  <2>1. Ahead(t, r, x)' = Pending(r, x)
    <3>1. ~(entered'[t] < entered'[t])
      BY <1>5
    <3>. QED  BY Zenon, <1>4, <1>6, <1>8, <3>1 DEF Ahead
  <2>2. ~(stage'[t] > r)
    BY <1>3, <1>8 DEF Regs
  <2>3. Reads(t, r)' = After(Pending(r, x), entered', reg', r, x)
    BY Zenon, <2>1, <2>2 DEF Reads
  <2>. QED  BY Zenon, <1>6, <1>7, <1>8, <2>3 DEF storeBar
<1>11. ASSUME NEW u \in Entered, NEW r \in DOMAIN hot_ops_pass1[u]
       PROVE  Reads(u, r)' = Reads(u, r)
  <2>. DEFINE x == hot_ops_pass1[u][r].idx
  <2>1. r \in Regs
    BY Zenon, <1>4, OnePassAssumption
  <2>2. Ahead(u, r, x)' = Ahead(u, r, x)
    <3>1. ~(entered'[t] < entered'[u])
      BY <1>4, <1>5
    <3>. QED  BY Zenon, <1>4, <1>6, <2>1, <3>1 DEF Ahead
  <2>3. Ahead(u, r, x) \subseteq Entered
    BY Zenon, <1>6, <2>1 DEF Ahead
  <2>. QED  BY Zenon, <1>3, <1>7, <2>2, <2>3 DEF Reads
<1>12. replyBar' = [replyBar EXCEPT ![t] =
                      [r \in DOMAIN hot_ops_pass1[t] |-> storeBar[r][hot_ops_pass1[t][r].idx]]]
  BY Zenon, <1>2, <1>10, <1>11 DEF replyBar
<1>13. ASSUME NEW r \in Regs, NEW x \in Records
       PROVE  After(Pending(r, x)', entered', reg', r, x)
                = IF Writes(t, r, x) THEN hot_ops_pass1[t][r].value ELSE storeBar[r][x]
  <2>1. CASE ~Writes(t, r, x)
    BY Zenon, <1>6, <1>7, <2>1 DEF storeBar
  <2>2. CASE Writes(t, r, x)
    <3>. DEFINE S == Pending(r, x)
    <3>1. Pending(r, x)' = S \cup {t} /\ S \subseteq Entered
      BY Zenon, <1>6, <2>2
    <3>2. Newest(S \cup {t}, entered') = {t}
      BY Zenon, <1>4, <1>5, <3>1, <1>NewestAdded
    <3>. QED  BY Zenon, <2>2, <3>1, <3>2, PickSingleton DEF After
  <2>. QED  BY Zenon, <2>1, <2>2
<1>14. storeBar' = [r \in Regs |-> [x \in Records |->
                      IF Store!Writes(t, r, x) THEN hot_ops_pass1[t][r].value ELSE storeBar[r][x]]]
  BY Zenon, <1>13 DEF storeBar, Store!Writes, Writes
<1>. QED  BY Zenon, <1>9, <1>12, <1>14 DEF Store!Execute

\* OnePass implements the atomic store: packets in flight through make_txn, the
\* network and the registers of new_p4db.p4 never show an intermediate state.
THEOREM Atomicity == Spec => AtomicSpec
<1>1. ASSUME IInv, [Next]_vars PROVE [Store!Next]_(Store!vars)
  <2>1. CASE Next
    BY Zenon, <1>1, <2>1, SendStutters, ParseExecutes, AccessStutters, ReplyStutters DEF Next, Step, Store!Next
  <2>2. CASE UNCHANGED vars
    BY Zenon, <2>2 DEF vars, Store!vars, storeBar, replyBar, Reads, Ahead, Pending, InPipe, Entered
  <2>. QED  BY Zenon, <1>1, <2>1, <2>2
<1>. QED  BY <1>1, InitStore, Invariance, PTL DEF Spec, AtomicSpec, Store!Spec

-----------------------------------------------------------------------------
(* The theorems of the hot period.                                          *)

\* The batches outside a set, one batch after the other.
LEMMA HotCounts == CountFacts
\* A set of numbers has a least one.
<1>LeastNat. ASSUME NEW T \in SUBSET Nat, T # {}
       PROVE  \E x \in T : \A y \in T : x <= y
  <2>. USE <1>LeastNat
  <2>. DEFINE R == {ss \in Nat \X Nat : ss[1] < ss[2]}
  <2>0. IsWellFoundedOn(R, Nat)
    BY Zenon, NatLessThanWellFounded DEF OpToRel
  <2>1. \E x \in T : \A y \in T : ~(<<y, x>> \in R)
    <3>. HIDE DEF R
    <3>. QED BY Zenon, <2>0, WFMin
  <2>2. \A x, y \in Nat : x < y => <<x, y>> \in R
    BY Zenon
  <2>. HIDE DEF R
  <2>3. PICK x \in T : \A y \in T : ~(<<y, x>> \in R)
    BY Zenon, <2>1
  <2>4. \A y \in T : ~(y < x)
    BY Zenon, <2>2, <2>3
  <2>. QED  BY <2>3, <2>4
<1>1. ASSUME NEW E, NEW b \in Nat \ {0}
      PROVE  /\ Cardinality(Full(E, b)) \in Nat
             /\ Cardinality(Full(E, b + 1)) = Cardinality(Full(E, b)) + (IF b \in E THEN 0 ELSE 1)
             /\ \A a \in Nat \ {0} : a < b => Cardinality(Full(E, a + 1)) <= Cardinality(Full(E, b))
  <2>. DEFINE S == Full(E, b)
              T == Full(E, b + 1)
  <2>1. IsFiniteSet(1 .. (b - 1))
    BY FS_Interval
  <2>2. IsFiniteSet(S) /\ Cardinality(S) \in Nat
    BY Zenon, <2>1, FS_Subset, FS_CardinalityType DEF Full
  <2>3. Cardinality(T) = Cardinality(S) + (IF b \in E THEN 0 ELSE 1)
    <3>1. CASE b \notin E
      <4>1. T = S \cup {b} /\ b \notin S
        BY <3>1 DEF Full
      <4>2. Cardinality(S \cup {b}) = Cardinality(S) + 1
        BY Zenon, <2>2, <4>1, FS_AddElement
      <4>. QED  BY Zenon, <3>1, <4>1, <4>2
    <3>2. CASE b \in E
      <4>1. T = S
        BY <3>2 DEF Full
      <4>. QED  BY <2>2, <3>2, <4>1
    <3>. QED  BY Zenon, <3>1, <3>2
  <2>4. ASSUME NEW a \in Nat \ {0}, a < b
        PROVE  Cardinality(Full(E, a + 1)) <= Cardinality(S)
    <3>1. Full(E, a + 1) \subseteq S
      BY <2>4 DEF Full
    <3>. QED  BY Zenon, <2>2, <3>1, FS_Subset
  <2>. QED  BY Zenon, <2>2, <2>3, <2>4
<1>2. ASSUME NEW E PROVE Cardinality(Full(E, 1)) = 0
  <2>1. Full(E, 1) = {}
    BY DEF Full
  <2>. QED  BY Zenon, <2>1, FS_EmptySet
<1>. QED  BY Zenon, <1>1, <1>2, <1>LeastNat DEF CountFacts

\* The inductive invariant: in every reachable state each leader is at a place in run_hot_period
\* (ee/hot_period.cpp) that its count of wait_nodes calls determines, whatever the queues hold.
THEOREM HotInvariance == HSpec => []HInv
<1>1. HInit => HInv
  BY Zenon, HotCounts, HInitInv
<1>2. HInv /\ [HNext]_hotVars => HInv'
  <2>. SUFFICES ASSUME HInv, [HNext]_hotVars
       PROVE  HInv'
    BY Zenon
  <2>1. CASE \E n \in Nodes : HStep(n)
    BY Zenon, <2>1, HotCounts, HStepInv
  <2>2. CASE UNCHANGED hotVars
    <3>1. UNCHANGED <<pc, batch, mini_batch_num, past_mb_num, send_q, send_q_tail, q_p, calls, togo, ret,
                      sent, empties>>
      BY Zenon, <2>2 DEF hotVars, queue, barrier
    <3>2. HTypes'
      BY Zenon, <3>1 DEF HInv, HTypes
    <3>3. ASSUME NEW n \in Nodes
          PROVE  HNode(n)' /\ Returned(n)' = Returned(n)
      <4>1. HNode(n)
        BY Zenon DEF HInv, HNode
      <4>. QED  BY Zenon, <3>1, <4>1, IdleKeeps
    <3>4. \A n, m \in Nodes : calls'[m] >= Returned(n)'
      BY Zenon, <3>1, <3>3 DEF HInv
    <3>. QED  BY Zenon, <3>2, <3>3, <3>4 DEF HInv, HNode
  <2>. QED  BY Zenon, <2>1, <2>2 DEF HNext, Terminated
<1>. QED  BY <1>1, <1>2, PTL DEF HSpec

\* run_hot_period sends transactions only between every node's start packets and any node's end packets.
THEOREM RegistersStayLoaded == HSpec => []RegistersLoaded
<1>1. HInv => RegistersLoaded
  <2>. SUFFICES ASSUME HInv, ~Uneven, NEW n \in Nodes, pc[n] = "window", q_p[n] < send_q_tail[n],
                       NEW m \in Nodes
       PROVE  Loaded(n, m)
    BY Zenon DEF RegistersLoaded
  <2>1. batch[m] = batch[n] /\ Place(m) \in {"first", "window"}
    BY Zenon, HotCounts, Sending
  <2>. QED  BY Zenon, <2>1 DEF Loaded, Place
<1>. QED  BY <1>1, HotInvariance, PTL

\* The windows of all nodes reach the switch in the order of their mini-batches.
THEOREM WindowsInOrder == HSpec => MiniBatchOrder
<1>1. ASSUME HInv, ~Uneven, NEW n \in Nodes, NEW m \in Nodes, SendWindow(n)
      PROVE  sent[m] <= send_q[n][q_p[n]]
  <2>. DEFINE b == batch[n]
              v == send_q[n][q_p[n]]
  <2>1. pc[n] = "window" /\ q_p[n] < send_q_tail[n]
    BY Zenon, <1>1 DEF SendWindow
  <2>2. sent[m] \in Nat
    BY Zenon, <1>1 DEF HInv, HTypes
  <2>3. batch[m] = b
    BY Zenon, <1>1, <2>1, HotCounts, Sending
  <2>4. /\ b \in Nat \ {0} /\ Begin(b) \in Nat /\ Start(n, b) \in Nat /\ calls[n] \in Nat
        /\ q_p[n] \in Nat /\ send_q_tail[n] \in Nat
    BY Zenon, <1>1, HotCounts, QueueFacts
  <2>5. v \in Nat /\ Begin(b) <= v
    <3>1. q_p[n] \in 0 .. send_q_tail[n] - 1
      BY <2>1, <2>4
    <3>. QED  BY Zenon, <1>1, <3>1, HotCounts, QueueFacts
  <2>6. calls[n] = Start(n, b) + (2 + v - Begin(b))
    <3>1. Place(n) = "window" /\ calls[n] = Start(n, b) + Offset(n)
      BY Zenon, <1>1, <2>1, Settled
    <3>2. b \notin empties[n]
      <4>1. send_q_tail[n] = 0 <=> b \in empties[n]
        BY Zenon, <1>1, <3>1 DEF HInv, QueueInv
      <4>. QED  BY <2>1, <2>4, <4>1
    <3>3. Offset(n) = 2 + v - Begin(b)
      BY Zenon, <2>1, <3>1, <3>2 DEF Offset, Dest
    <3>. QED  BY Zenon, <3>1, <3>3
  <2>7. Start(m, b) = Start(n, b)
    <3>1. b <= batch[n] /\ b <= batch[m]
      BY <2>3, <2>4
    <3>. QED  BY Zenon, <1>1, <2>4, <3>1, SameStart
  <2>8. sent[m] < Begin(b) \/ Returned(m) >= Start(n, b) + 2 + (sent[m] - Begin(b))
    BY Zenon, <1>1, <2>3, <2>7 DEF HInv, SentInv
  <2>9. calls[n] >= Returned(m) /\ Returned(m) \in Int
    <3>1. calls[m] \in Nat
      BY Zenon, <1>1 DEF HInv, HTypes
    <3>. QED  BY <1>1, <3>1 DEF HInv, Returned
  <2>10. sent[m] <= v
    <3>. HIDE DEF b, v
    <3>. QED  BY <2>2, <2>4, <2>5, <2>6, <2>8, <2>9
  <2>. QED  BY <2>10
<1>2. HInv /\ [HNext]_hotVars => [~Uneven => \A n, m \in Nodes : SendWindow(n) => sent[m] <= send_q[n][q_p[n]]]_hotVars
  BY Zenon, <1>1
<1>. QED  BY <1>2, HotInvariance, PTL DEF HSpec, MiniBatchOrder
=============================================================================
