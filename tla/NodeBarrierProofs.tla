------------------------- MODULE NodeBarrierProofs -------------------------
(***************************************************************************)
(* wait_workers is a barrier of the workers of both nodes, and no node is   *)
(* more than one critical_wait ahead, for any number of workers, calls and  *)
(* waits.                                                                   *)
(*                                                                         *)
(* critical_wait hides in the middle function of the reusable barrier, so   *)
(* that NodeBarrier implements RBarrier and its theorems hold here: at most *)
(* one thread of a node is in critical_wait, and it has come there after    *)
(* all threads of the node.  What is left to show is that the counting of   *)
(* messages lines up the critical_waits of the two nodes.                   *)
(***************************************************************************)
EXTENDS NodeBarrier, FiniteSetTheorems, TLAPS

Critical == {"mf", "recv", "subtract"}
InBarrier == {"enter_last", "enter_spin", "exit", "exit_last", "exit_spin"}

\* Where the reusable barrier sees a thread: in its middle function or, when the leader
\* calls wait_nodes, outside.
Shown(l, c) == IF l \in Critical THEN IF c = "nodes" THEN "idle" ELSE "mf" ELSE l
bpc == [t \in Threads |-> Shown(pc[t], calls[t][pos[t]])]

NTypes ==
  /\ enter_ct \in [Nodes -> Nat] /\ exit_ct \in [Nodes -> Nat] /\ mf_calls \in [Nodes -> Nat]
  /\ pc \in [Threads -> {"idle"} \cup Critical \cup InBarrier] /\ pos \in [Threads -> Nat \ {0}]
  /\ is_last \in [Threads -> BOOLEAN]
  /\ entered \in [Threads -> Nat] /\ left \in [Threads -> Nat]
  /\ received \in [Nodes -> Int] /\ inflight \in [Nodes -> Nat]
  /\ sent \in [Nodes -> Nat] /\ met \in [Nodes -> Nat]

\* A thread that is not idle is in one of its calls.
Calling(t) ==
  /\ pc[t] \in Critical \cup InBarrier => pos[t] \in DOMAIN calls[t]
  /\ pc[t] \in Critical => calls[t][pos[t]] \in {"workers", "nodes"}
  /\ pc[t] \in InBarrier => calls[t][pos[t]] = "workers"

CallInv == NTypes /\ \A t \in Threads : Calling(t)

\* bpc says who is inside a wait; the thread in the middle function is the only one
\* there, all threads of its node are inside the same wait, and it has not been counted.
Waiting ==
  \A t \in Threads :
    LET n == node_id[t]
    IN  /\ entered[t] = IF bpc[t] = "idle" THEN left[t] ELSE left[t] + 1
        /\ left[t] <= mf_calls[n] /\ mf_calls[n] <= entered[t]
        /\ bpc[t] = "mf" =>
             /\ mf_calls[n] + 1 = entered[t]
             /\ \A u \in Local(n) : entered[u] = entered[t] /\ left[u] < entered[t] /\ (u # t => bpc[u] # "mf")

At(n, l) == \E t \in Local(n) : pc[t] = l
Num(b) == IF b THEN 1 ELSE 0

\* Every message that a node has sent is on its way, or counted and not yet subtracted,
\* or has been met by the other node.
Flow(n) ==
  /\ sent[n] = met[n] + Num(At(n, "recv"))
  /\ received[n] + inflight[n] + met[n] = sent[other(n)] + Num(At(n, "subtract"))
  /\ received[n] >= Num(At(n, "subtract"))

FlowInv == \A n \in Nodes : Flow(n)

\* How many of the calls of s before the p-th are c.
Made(s, p, c) == Cardinality({q \in 1 .. (p - 1) : s[q] = c})
Script(n) == calls[Leader[n]]

\* The leader's place in its calls tells how many waits it has returned from and how many
\* messages its node has sent.
Counts(n) ==
  LET p == pos[Leader[n]]
  IN  /\ left[Leader[n]] = Made(Script(n), p, "workers")
      /\ sent[n] = mf_calls[n] + Made(Script(n), p, "nodes") + Num(At(n, "recv") \/ At(n, "subtract"))

\* The messages of a node have come to the one of the p-th call, a wait_workers, only after
\* all workers of the node have entered that wait.
Reached(n) ==
  \A p \in DOMAIN Script(n) :
    Script(n)[p] = "workers" /\ Made(Script(n), p, "workers") + Made(Script(n), p, "nodes") < sent[n]
      => \A u \in Local(n) : entered[u] > Made(Script(n), p, "workers")

\* Nobody has returned from a wait that somebody has not entered.
Together == \A t, u \in Threads : left[t] <= entered[u]

WorkInv == (\A n \in Nodes : Counts(n) /\ Reached(n)) /\ Together

-----------------------------------------------------------------------------
(* NodeBarrier implements RBarrier.                                         *)

\* The node of a thread, and the number of its threads.
LEMMA NodeOf ==
  ASSUME NEW t \in Threads
  PROVE  /\ node_id[t] \in Nodes /\ Leader[node_id[t]] \in Threads
         /\ DOMAIN calls[t] = 1 .. Len(calls[t]) /\ Len(calls[t]) \in Nat
         /\ \A p \in DOMAIN calls[t] : calls[t][p] \in {"workers", "nodes", "batch"}
<1>1. node_id[t] \in Nodes
  BY Zenon, RBarrierAssumption
<1>2. Leader \in [Nodes -> Threads]
  BY Zenon, NodeBarrierAssumption
<1>3. calls[t] \in Seq({"workers", "nodes", "batch"})
  BY Zenon, NodeBarrierAssumption
<1>. QED  BY <1>1, <1>2, <1>3

\* There are two nodes.
LEMMA TwoNodes ==
  ASSUME NEW n \in Nodes
  PROVE  /\ other(n) \in Nodes /\ other(n) # n /\ other(other(n)) = n
         /\ Nodes = {n, other(n)} /\ Cardinality(Nodes) = 2
<1>1. PICK a, b \in Nodes : a # b /\ Nodes = {a, b}
  BY Zenon, NodeBarrierAssumption
<1>2. \A m \in Nodes : other(m) \in Nodes /\ other(m) # m
  BY Zenon, <1>1 DEF other
<1>3. Cardinality({a}) = 1 /\ IsFiniteSet({a}) /\ b \notin {a} /\ {a, b} = {a} \cup {b}
  BY Zenon, <1>1, FS_Singleton
<1>4. Cardinality({a} \cup {b}) = Cardinality({a}) + 1
  BY Zenon, <1>3, FS_AddElement
<1>5. Cardinality(Nodes) = 2
  BY <1>1, <1>3, <1>4
<1>. QED  BY Zenon, <1>1, <1>2, <1>5

\* A step of a thread moves that thread alone.
LEMMA OthersStay ==
  ASSUME CallInv, NEW t \in Threads, ThreadStep(t), NEW u \in Threads, u # t
  PROVE  pc'[u] = pc[u] /\ pos'[u] = pos[u] /\ entered'[u] = entered[u] /\ left'[u] = left[u]
BY Zenon DEF CallInv, NTypes, ThreadStep, WaitWorkers, WaitNodes, SendBarrier, MetNodes, Subtract, Inside,
   WorkersReturn, AddEnter, ResetEnter, SpinEnter, AddExit, ResetExit, SpinExit, AfterEnter, Return, Goto

\* Every step keeps the threads in their calls.
LEMMA CallInvStep == CallInv /\ [NNext]_allVars => CallInv'
\* Every step keeps the types.
<1>NTypesStep. CallInv /\ NNext => NTypes'
  <2>. SUFFICES ASSUME CallInv, NNext PROVE NTypes'
    BY Zenon
  <2>0. NTypes
    BY Zenon DEF CallInv
  <2>n. \A t \in Threads : node_id[t] \in Nodes /\ other(node_id[t]) \in Nodes
    BY Zenon, NodeOf, TwoNodes
  <2>1. ASSUME NEW t \in Threads, ThreadStep(t) PROVE NTypes'
    <3>1. CASE WaitWorkers(t)
      BY <2>0, <2>n, <3>1 DEF NTypes, WaitWorkers, AddEnter, Goto, InBarrier, nodeVars
    <3>2. CASE WaitNodes(t)
      BY Zenon, <2>0, <2>n, <3>2 DEF NTypes, WaitNodes, Goto, Critical, nodeVars
    <3>3. CASE SendBarrier(t)
      BY <2>0, <2>n, <3>3 DEF NTypes, SendBarrier, Goto, Critical
    <3>4. CASE MetNodes(t)
      BY <2>0, <2>n, <3>4 DEF NTypes, MetNodes, Goto, Critical
    <3>5. CASE Subtract(t)
      BY <2>0, <2>n, <3>5 DEF NTypes, Subtract, Goto, InBarrier
    <3>6. CASE Inside(t)
      BY <2>0, <2>n, <3>6 DEF NTypes, Inside, ResetEnter, SpinEnter, AddExit, AfterEnter, Goto, Critical,
         InBarrier, nodeVars
    <3>7. CASE WorkersReturn(t)
      BY <2>0, <2>n, <3>7 DEF NTypes, WorkersReturn, ResetExit, SpinExit, Return, Goto, nodeVars
    <3>. QED  BY Zenon, <2>1, <3>1, <3>2, <3>3, <3>4, <3>5, <3>6, <3>7 DEF ThreadStep
  <2>2. ASSUME NEW n \in Nodes, HandleBarrier(n) PROVE NTypes'
    BY <2>0, <2>2 DEF NTypes, HandleBarrier, vars
  <2>3. ASSUME NEW n \in Nodes, BatchBar(n) PROVE NTypes'
    BY <2>0, <2>3 DEF NTypes, BatchBar, vars, nodeVars
  <2>. QED  BY Zenon, <2>1, <2>2, <2>3 DEF NNext
<1>. SUFFICES ASSUME CallInv, [NNext]_allVars PROVE CallInv'
  BY Zenon
<1>0. NTypes /\ \A t \in Threads : Calling(t)
  BY Zenon DEF CallInv
<1>1. ASSUME NEW t \in Threads, ThreadStep(t) PROVE Calling(t)'
  <2>0. Calling(t) /\ pc[t] \in {"idle"} \cup Critical \cup InBarrier /\ pos[t] \in Nat \ {0}
    BY Zenon, <1>0 DEF NTypes
  <2>1. CASE WaitWorkers(t) \/ WaitNodes(t)
    <3>1. AtCall(t, "workers") \/ AtCall(t, "nodes")
      BY Zenon, <2>1 DEF WaitWorkers, WaitNodes
    <3>2. pos[t] \in DOMAIN calls[t] /\ calls[t][pos[t]] \in {"workers", "nodes"}
      BY <2>0, <3>1, NodeOf DEF AtCall
    <3>3. pos' = pos
      BY Zenon, <2>1 DEF WaitWorkers, WaitNodes
    <3>4. CASE WaitWorkers(t)
      <4>1. pc'[t] \in {"enter_last", "enter_spin"} /\ calls[t][pos[t]] = "workers"
        BY Zenon, <1>0, <3>4 DEF WaitWorkers, AtCall, AddEnter, Goto, NTypes
      <4>. QED  BY Zenon, <3>2, <3>3, <4>1 DEF Calling, Critical, InBarrier
    <3>5. CASE WaitNodes(t)
      <4>1. pc'[t] = "mf"
        BY Zenon, <1>0, <3>5 DEF WaitNodes, Goto, NTypes
      <4>. QED  BY Zenon, <3>2, <3>3, <4>1 DEF Calling, Critical, InBarrier
    <3>. QED  BY Zenon, <2>1, <3>4, <3>5
  <2>2. CASE SendBarrier(t) \/ MetNodes(t)
    <3>1. pc[t] \in Critical /\ pc'[t] \in Critical /\ pos' = pos
      BY Zenon, <1>0, <2>2 DEF SendBarrier, MetNodes, Goto, NTypes, Critical
    <3>. QED  BY Zenon, <2>0, <3>1 DEF Calling, Critical, InBarrier
  <2>3. CASE Subtract(t)
    <3>1. pc[t] \in Critical
      BY Zenon, <2>3 DEF Subtract, Critical
    <3>2. \/ pc'[t] = "exit" /\ pos' = pos /\ calls[t][pos[t]] = "workers"
          \/ pc'[t] = "idle"
      BY Zenon, <1>0, <2>3 DEF Subtract, Goto, NTypes
    <3>. QED  BY Zenon, <2>0, <3>1, <3>2 DEF Calling, Critical, InBarrier
  <2>4. CASE Inside(t)
    <3>1. pc[t] \in InBarrier /\ pc'[t] \in InBarrier \cup {"mf"} /\ pos' = pos
      BY Zenon, <1>0, <2>4 DEF Inside, ResetEnter, SpinEnter, AddExit, AfterEnter, Goto, NTypes, InBarrier
    <3>. QED  BY Zenon, <2>0, <3>1 DEF Calling, Critical, InBarrier
  <2>5. CASE WorkersReturn(t)
    <3>1. pc'[t] = "idle"
      BY Zenon, <1>0, <2>5 DEF WorkersReturn, ResetExit, SpinExit, Return, Goto, NTypes
    <3>. QED  BY Zenon, <3>1 DEF Calling, Critical, InBarrier
  <2>. QED  BY Zenon, <1>1, <2>1, <2>2, <2>3, <2>4, <2>5 DEF ThreadStep
<1>2. ASSUME NEW t \in Threads, ThreadStep(t), NEW u \in Threads, u # t PROVE Calling(u)'
  BY Zenon, <1>0, <1>2, OthersStay DEF Calling
<1>3. ASSUME NEW n \in Nodes, BatchBar(n), NEW t \in Threads PROVE Calling(t)'
  <2>1. pc' = pc /\ (pos'[t] = pos[t] \/ pc[t] = "idle")
    BY Zenon, <1>0, <1>3 DEF BatchBar, AtCall, Local, vars, NTypes
  <2>. QED  BY Zenon, <1>0, <2>1 DEF Calling, Critical, InBarrier
<1>4. ASSUME NEW n \in Nodes, HandleBarrier(n), NEW t \in Threads PROVE Calling(t)'
  <2>1. pc' = pc /\ pos' = pos
    BY Zenon, <1>4 DEF HandleBarrier, vars
  <2>. QED  BY Zenon, <1>0, <2>1 DEF Calling
<1>5. NNext => \A t \in Threads : Calling(t)'
  BY Zenon, <1>1, <1>2, <1>3, <1>4 DEF NNext
<1>6. CASE UNCHANGED allVars
  <2>1. UNCHANGED <<enter_ct, exit_ct, mf_calls, pc, pos, is_last, entered, left, received, inflight, sent, met>>
    BY Zenon, <1>6 DEF allVars, vars, nodeVars
  <2>. QED  BY Zenon, <1>0, <2>1 DEF CallInv, NTypes, Calling
<1>. QED  BY Zenon, <1>5, <1>6, <1>NTypesStep DEF CallInv

-----------------------------------------------------------------------------
(* The messages between the nodes.                                          *)

\* A node has one thread in critical_wait at most: the one in the middle function, or the
\* leader in wait_nodes, during which the node's reusable barrier cannot be full.
LEMMA OneCritical ==
  ASSUME CallInv, Waiting, NEW t \in Threads, NEW u \in Threads, node_id[t] = node_id[u],
         pc[t] \in Critical, pc[u] \in Critical
  PROVE  t = u
<1>1. /\ calls[t][pos[t]] \in {"workers", "nodes"} /\ pos[t] \in DOMAIN calls[t]
      /\ calls[u][pos[u]] \in {"workers", "nodes"} /\ pos[u] \in DOMAIN calls[u]
  BY Zenon DEF CallInv, Calling
<1>2. /\ bpc[t] = IF calls[t][pos[t]] = "nodes" THEN "idle" ELSE "mf"
      /\ bpc[u] = IF calls[u][pos[u]] = "nodes" THEN "idle" ELSE "mf"
  BY Zenon DEF bpc, Shown
<1>3. left[t] \in Nat /\ left[u] \in Nat /\ entered[t] \in Nat /\ entered[u] \in Nat
  BY Zenon DEF CallInv, NTypes
<1>4. CASE calls[t][pos[t]] = "nodes" /\ calls[u][pos[u]] = "nodes"
  <2>1. t = Leader[node_id[t]]
    BY Zenon, <1>1, <1>4, NodeBarrierAssumption
  <2>2. u = Leader[node_id[u]]
    BY Zenon, <1>1, <1>4, NodeBarrierAssumption
  <2>. QED  BY Zenon, <2>1, <2>2
<1>5. t \in Local(node_id[t]) /\ u \in Local(node_id[t]) /\ t \in Local(node_id[u])
  BY Zenon DEF Local
<1>6. CASE calls[t][pos[t]] = "workers"
  <2>1. bpc[t] = "mf"
    BY Zenon, <1>2, <1>6
  <2>2. entered[u] = entered[t] /\ left[u] < entered[t] /\ (u # t => bpc[u] # "mf")
    BY Zenon, <1>5, <2>1 DEF Waiting
  <2>3. bpc[u] = "idle" => entered[u] = left[u]
    BY Zenon DEF Waiting
  <2>. QED  BY <1>1, <1>2, <1>3, <2>2, <2>3
<1>7. CASE calls[u][pos[u]] = "workers"
  <2>1. bpc[u] = "mf"
    BY Zenon, <1>2, <1>7
  <2>2. entered[t] = entered[u] /\ left[t] < entered[u] /\ (t # u => bpc[t] # "mf")
    BY Zenon, <1>5, <2>1 DEF Waiting
  <2>3. bpc[t] = "idle" => entered[t] = left[t]
    BY Zenon DEF Waiting
  <2>. QED  BY <1>1, <1>2, <1>3, <2>2, <2>3
<1>. QED  BY Zenon, <1>1, <1>4, <1>6, <1>7

\* Where the threads of the nodes are after a step of a thread.
LEMMA AtStep ==
  ASSUME CallInv, Waiting, NEW t \in Threads, ThreadStep(t), NEW l \in {"recv", "subtract"}
  PROVE  /\ \A n \in Nodes : n # node_id[t] => (At(n, l)' <=> At(n, l))
         /\ pc[t] \in Critical => (At(node_id[t], l) <=> pc[t] = l) /\ (At(node_id[t], l)' <=> pc'[t] = l)
         /\ pc[t] \notin Critical => (At(node_id[t], l)' <=> At(node_id[t], l))
<1>0. l \in Critical
  BY Zenon DEF Critical
<1>1. \A u \in Threads : u # t => pc'[u] = pc[u]
  BY Zenon, OthersStay
<1>2. ASSUME NEW n \in Nodes, n # node_id[t] PROVE At(n, l)' <=> At(n, l)
  BY Zenon, <1>1, <1>2 DEF At, Local
<1>3. ASSUME pc[t] \in Critical
      PROVE (At(node_id[t], l) <=> pc[t] = l) /\ (At(node_id[t], l)' <=> pc'[t] = l)
  <2>1. ASSUME NEW u \in Local(node_id[t]), u # t PROVE pc[u] \notin Critical
    BY Zenon, <1>3, <2>1, OneCritical DEF Local
  <2>. QED  BY Zenon, <1>0, <1>1, <2>1 DEF At, Local
<1>4. ASSUME pc[t] \notin Critical PROVE At(node_id[t], l)' <=> At(node_id[t], l)
  <2>1. pc[t] # l
    BY Zenon, <1>0, <1>4
  <2>2. pc'[t] # l
    BY Zenon, <1>4 DEF CallInv, NTypes, Critical, ThreadStep, WaitWorkers, WaitNodes, SendBarrier, MetNodes, Subtract,
       Inside, WorkersReturn, AddEnter, ResetEnter, SpinEnter, AddExit, ResetExit, SpinExit, AfterEnter, Return,
       Goto
  <2>. QED  BY Zenon, <1>1, <2>1, <2>2 DEF At, Local
<1>. QED  BY Zenon, <1>2, <1>3, <1>4

\* Every step keeps the flow.
LEMMA FlowStep == CallInv /\ Waiting /\ FlowInv /\ [NNext]_allVars => FlowInv'
\* A node that nothing happens to keeps its flow.
<1>FlowStays. ASSUME NEW n \in Nodes, Flow(n),
                At(n, "recv")' <=> At(n, "recv"), At(n, "subtract")' <=> At(n, "subtract"),
                sent'[n] = sent[n], met'[n] = met[n], received'[n] = received[n], inflight'[n] = inflight[n],
                sent'[other(n)] = sent[other(n)]
       PROVE  Flow(n)'
  <2>. USE <1>FlowStays
  <2>1. Num(At(n, "recv"))' = Num(At(n, "recv")) /\ Num(At(n, "subtract"))' = Num(At(n, "subtract"))
    BY Zenon DEF Num
  <2>. QED  BY Zenon, <2>1 DEF Flow
<1>. SUFFICES ASSUME CallInv, Waiting, FlowInv, [NNext]_allVars PROVE FlowInv'
  BY Zenon
<1>0. NTypes
  BY Zenon DEF CallInv
<1>1. ASSUME NEW t \in Threads, ThreadStep(t) PROVE FlowInv'
  <2>. DEFINE n == node_id[t]
              o == other(n)
  <2>0. n \in Nodes /\ o \in Nodes /\ o # n /\ other(o) = n /\ Nodes = {n, o}
    BY Zenon, NodeOf, TwoNodes
  <2>f. Flow(n) /\ Flow(o)
    BY Zenon, <2>0 DEF FlowInv
  <2>s. SUFFICES Flow(n)' /\ Flow(o)'
    BY Zenon, <2>0 DEF FlowInv
  <2>o. (At(o, "recv")' <=> At(o, "recv")) /\ (At(o, "subtract")' <=> At(o, "subtract"))
    BY Zenon, <1>1, <2>0, AtStep
  <2>c. pc[t] \in Critical =>
          /\ At(n, "recv") <=> pc[t] = "recv"
          /\ At(n, "recv")' <=> pc'[t] = "recv"
          /\ At(n, "subtract") <=> pc[t] = "subtract"
          /\ At(n, "subtract")' <=> pc'[t] = "subtract"
    BY Zenon, <1>1, AtStep
  <2>y. /\ sent[n] \in Nat /\ met[n] \in Nat /\ received[n] \in Int /\ inflight[n] \in Nat
        /\ sent[o] \in Nat /\ met[o] \in Nat /\ received[o] \in Int /\ inflight[o] \in Nat
    BY Zenon, <1>0, <2>0 DEF NTypes
  <2>1. CASE SendBarrier(t)
    <3>1. /\ pc[t] = "mf" /\ pc'[t] = "recv"
          /\ sent'[n] = sent[n] + 1 /\ sent'[o] = sent[o] /\ met' = met /\ received' = received
          /\ inflight'[o] = inflight[o] + 1 /\ inflight'[n] = inflight[n]
      BY Zenon, <1>0, <2>0, <2>1 DEF SendBarrier, Goto, NTypes
    <3>2. /\ ~At(n, "recv") /\ At(n, "recv")' /\ ~At(n, "subtract") /\ ~At(n, "subtract")'
      BY Zenon, <2>c, <3>1 DEF Critical
    <3>3. Flow(n)'
      <4>1. Num(At(n, "recv")) = 0 /\ Num(At(n, "recv"))' = 1
            /\ Num(At(n, "subtract")) = 0 /\ Num(At(n, "subtract"))' = 0
        BY Zenon, <3>2 DEF Num
      <4>2. /\ sent[n] = met[n] + Num(At(n, "recv"))
            /\ received[n] + inflight[n] + met[n] = sent[o] + Num(At(n, "subtract"))
            /\ received[n] >= Num(At(n, "subtract"))
        BY Zenon, <2>f DEF Flow
      <4>3. /\ sent'[n] = met'[n] + Num(At(n, "recv"))'
            /\ received'[n] + inflight'[n] + met'[n] = sent'[o] + Num(At(n, "subtract"))'
            /\ received'[n] >= Num(At(n, "subtract"))'
        BY <2>y, <3>1, <4>1, <4>2
      <4>. QED  BY Zenon, <4>3 DEF Flow
    <3>4. Flow(o)'
      <4>1. Num(At(o, "recv"))' = Num(At(o, "recv")) /\ Num(At(o, "subtract"))' = Num(At(o, "subtract"))
            /\ Num(At(o, "subtract")) \in Nat /\ Num(At(o, "recv")) \in Nat
        BY Zenon, <2>o DEF Num
      <4>2. /\ sent[o] = met[o] + Num(At(o, "recv"))
            /\ received[o] + inflight[o] + met[o] = sent[n] + Num(At(o, "subtract"))
            /\ received[o] >= Num(At(o, "subtract"))
        BY Zenon, <2>0, <2>f DEF Flow
      <4>3. /\ sent'[o] = met'[o] + Num(At(o, "recv"))'
            /\ received'[o] + inflight'[o] + met'[o] = sent'[n] + Num(At(o, "subtract"))'
            /\ received'[o] >= Num(At(o, "subtract"))'
        BY <2>y, <3>1, <4>1, <4>2
      <4>. QED  BY Zenon, <2>0, <4>3 DEF Flow
    <3>. QED  BY Zenon, <3>3, <3>4
  <2>2. CASE MetNodes(t)
    <3>1. /\ pc[t] = "recv" /\ pc'[t] = "subtract" /\ received[n] = 1
          /\ met'[n] = met[n] + 1 /\ met'[o] = met[o] /\ sent' = sent /\ received' = received
          /\ inflight' = inflight
      BY <1>0, <2>0, <2>2, TwoNodes DEF MetNodes, AllReceived, Goto, NTypes
    <3>2. /\ At(n, "recv") /\ ~At(n, "recv")' /\ ~At(n, "subtract") /\ At(n, "subtract")'
      BY Zenon, <2>c, <3>1 DEF Critical
    <3>3. Flow(n)'
      <4>1. Num(At(n, "recv")) = 1 /\ Num(At(n, "recv"))' = 0
            /\ Num(At(n, "subtract")) = 0 /\ Num(At(n, "subtract"))' = 1
        BY Zenon, <3>2 DEF Num
      <4>2. /\ sent[n] = met[n] + Num(At(n, "recv"))
            /\ received[n] + inflight[n] + met[n] = sent[o] + Num(At(n, "subtract"))
            /\ received[n] >= Num(At(n, "subtract"))
        BY Zenon, <2>f DEF Flow
      <4>3. /\ sent'[n] = met'[n] + Num(At(n, "recv"))'
            /\ received'[n] + inflight'[n] + met'[n] = sent'[o] + Num(At(n, "subtract"))'
            /\ received'[n] >= Num(At(n, "subtract"))'
        BY <2>y, <3>1, <4>1, <4>2
      <4>. QED  BY Zenon, <4>3 DEF Flow
    <3>4. Flow(o)'
      BY Zenon, <2>0, <2>f, <2>o, <3>1, <1>FlowStays
    <3>. QED  BY Zenon, <3>3, <3>4
  <2>3. CASE Subtract(t)
    <3>1. /\ pc[t] = "subtract" /\ pc'[t] \in {"exit", "idle"}
          /\ received'[n] = received[n] - 1 /\ received'[o] = received[o] /\ met' = met /\ sent' = sent
          /\ inflight' = inflight
      BY Zenon, <1>0, <2>0, <2>3 DEF Subtract, Goto, NTypes
    <3>2. /\ ~At(n, "recv") /\ ~At(n, "recv")' /\ At(n, "subtract") /\ ~At(n, "subtract")'
      BY Zenon, <2>c, <3>1 DEF Critical
    <3>3. Flow(n)'
      <4>1. Num(At(n, "recv")) = 0 /\ Num(At(n, "recv"))' = 0
            /\ Num(At(n, "subtract")) = 1 /\ Num(At(n, "subtract"))' = 0
        BY Zenon, <3>2 DEF Num
      <4>2. /\ sent[n] = met[n] + Num(At(n, "recv"))
            /\ received[n] + inflight[n] + met[n] = sent[o] + Num(At(n, "subtract"))
            /\ received[n] >= Num(At(n, "subtract"))
        BY Zenon, <2>f DEF Flow
      <4>3. /\ sent'[n] = met'[n] + Num(At(n, "recv"))'
            /\ received'[n] + inflight'[n] + met'[n] = sent'[o] + Num(At(n, "subtract"))'
            /\ received'[n] >= Num(At(n, "subtract"))'
        <5>2. received[n] + inflight[n] + met[n] = sent[o] + 1 /\ received[n] >= 1
          BY Zenon, <4>1, <4>2
        <5>t. received[n] \in Int /\ inflight[n] \in Int /\ met[n] \in Int /\ sent[o] \in Int
          BY <2>y
        <5>3. (received[n] - 1) + inflight[n] + met[n] = sent[o] + 0
          BY <5>2, <5>t
        <5>4. received[n] - 1 >= 0
          BY <5>2, <5>t
        <5>. QED  BY Zenon, <3>1, <4>1, <4>2, <5>3, <5>4
      <4>. QED  BY Zenon, <4>3 DEF Flow
    <3>4. Flow(o)'
      BY Zenon, <2>0, <2>f, <2>o, <3>1, <1>FlowStays
    <3>. QED  BY Zenon, <3>3, <3>4
  <2>4. CASE WaitWorkers(t) \/ WaitNodes(t) \/ Inside(t) \/ WorkersReturn(t)
    <3>1. pc[t] \notin Critical
      BY Zenon, <2>4 DEF WaitWorkers, WaitNodes, Inside, WorkersReturn, AtCall, ResetEnter, SpinEnter, AddExit, ResetExit,
         SpinExit, Critical
    <3>2. sent' = sent /\ met' = met /\ received' = received /\ inflight' = inflight
      BY Zenon, <2>4 DEF WaitWorkers, WaitNodes, Inside, WorkersReturn, nodeVars
    <3>3. (At(n, "recv")' <=> At(n, "recv")) /\ (At(n, "subtract")' <=> At(n, "subtract"))
      BY Zenon, <1>1, <3>1, AtStep
    <3>4. Flow(n)'
      BY Zenon, <2>0, <2>f, <3>2, <3>3, <1>FlowStays
    <3>5. Flow(o)'
      BY Zenon, <2>0, <2>f, <2>o, <3>2, <1>FlowStays
    <3>. QED  BY Zenon, <3>4, <3>5
  <2>. QED  BY Zenon, <1>1, <2>1, <2>2, <2>3, <2>4 DEF ThreadStep
<1>2. ASSUME NEW n \in Nodes, HandleBarrier(n) PROVE FlowInv'
  <2>1. /\ sent' = sent /\ met' = met /\ pc' = pc
        /\ received'[n] = received[n] + 1 /\ inflight'[n] = inflight[n] - 1
        /\ \A m \in Nodes : m # n => received'[m] = received[m] /\ inflight'[m] = inflight[m]
    BY Zenon, <1>0, <1>2 DEF HandleBarrier, NTypes, vars
  <2>2. \A m : (At(m, "recv")' <=> At(m, "recv")) /\ (At(m, "subtract")' <=> At(m, "subtract"))
    BY Zenon, <2>1 DEF At, Local
  <2>3. \A m \in Nodes : m # n => Flow(m)'
    BY Zenon, <2>1, <2>2, <1>FlowStays DEF FlowInv
  <2>4. Flow(n)'
    <3>1. Num(At(n, "recv"))' = Num(At(n, "recv")) /\ Num(At(n, "subtract"))' = Num(At(n, "subtract"))
          /\ Num(At(n, "subtract")) \in Nat
      BY Zenon, <2>2 DEF Num
    <3>2. /\ sent[n] \in Nat /\ met[n] \in Nat /\ received[n] \in Int /\ inflight[n] \in Nat
      BY Zenon, <1>0 DEF NTypes
    <3>3. Flow(n)
      BY Zenon DEF FlowInv
    <3>. QED  BY <2>1, <3>1, <3>2, <3>3 DEF Flow
  <2>. QED  BY Zenon, <2>3, <2>4 DEF FlowInv
<1>3. CASE (\E n \in Nodes : BatchBar(n)) \/ UNCHANGED allVars
  <2>1. pc' = pc /\ sent' = sent /\ met' = met /\ received' = received /\ inflight' = inflight
    BY Zenon, <1>3 DEF BatchBar, allVars, vars, nodeVars
  <2>2. \A m : (At(m, "recv")' <=> At(m, "recv")) /\ (At(m, "subtract")' <=> At(m, "subtract"))
    BY Zenon, <2>1 DEF At, Local
  <2>. QED  BY Zenon, <2>1, <2>2, <1>FlowStays DEF FlowInv
<1>. QED  BY Zenon, <1>1, <1>2, <1>3 DEF NNext

\* What the flow says of the two nodes.
LEMMA FlowAhead ==
  ASSUME CallInv, Waiting, FlowInv, NEW n \in Nodes
  PROVE  met[n] <= sent[other(n)] /\ received[n] + inflight[n] <= 2
<1>. DEFINE o == other(n)
<1>0. n \in Nodes /\ o \in Nodes /\ o # n /\ other(o) = n
  BY Zenon, TwoNodes
<1>1. /\ sent[n] \in Nat /\ met[n] \in Nat /\ received[n] \in Int /\ inflight[n] \in Nat
      /\ sent[o] \in Nat /\ met[o] \in Nat /\ received[o] \in Int /\ inflight[o] \in Nat
  BY Zenon, <1>0 DEF CallInv, NTypes
<1>2. Flow(n) /\ Flow(o)
  BY Zenon, <1>0 DEF FlowInv
<1>3. Num(At(n, "recv")) + Num(At(n, "subtract")) <= 1
  <2>1. ~(At(n, "recv") /\ At(n, "subtract"))
    <3>. SUFFICES ASSUME NEW t \in Local(n), NEW u \in Local(n), pc[t] = "recv", pc[u] = "subtract" PROVE FALSE
      BY Zenon DEF At
    <3>1. t \in Threads /\ u \in Threads /\ node_id[t] = node_id[u] /\ pc[t] \in Critical /\ pc[u] \in Critical
      BY Zenon DEF Local, Critical
    <3>2. t = u
      BY Zenon, <3>1, OneCritical
    <3>. QED  BY Zenon, <3>2
  <2>. QED  BY <2>1 DEF Num
<1>4. \A m, l : Num(At(m, l)) \in {0, 1}
  BY Zenon DEF Num
<1>. QED  BY <1>0, <1>1, <1>2, <1>3, <1>4 DEF Flow

-----------------------------------------------------------------------------
(* The waits of the two nodes.                                              *)

\* Counting one call more.
LEMMA MadeStep ==
  ASSUME NEW s, NEW p \in Nat \ {0}, NEW c
  PROVE  Made(s, p, c) \in Nat /\ Made(s, p + 1, c) = Made(s, p, c) + Num(s[p] = c)
<1>. DEFINE S == {q \in 1 .. (p - 1) : s[q] = c}
            T == {q \in 1 .. ((p + 1) - 1) : s[q] = c}
<1>1. IsFiniteSet(1 .. (p - 1))
  BY FS_Interval
<1>2. IsFiniteSet(S) /\ Cardinality(S) \in Nat
  BY Zenon, <1>1, FS_Subset, FS_CardinalityType
<1>3. p \notin S
  OBVIOUS
<1>4. CASE s[p] = c
  <2>1. T = S \cup {p}
    BY <1>4
  <2>2. Cardinality(S \cup {p}) = Cardinality(S) + 1
    BY Zenon, <1>2, <1>3, FS_AddElement
  <2>. QED  BY Zenon, <1>2, <1>4, <2>1, <2>2 DEF Made, Num
<1>5. CASE s[p] # c
  <2>1. T = S
    BY <1>5
  <2>. QED  BY <1>2, <1>5, <2>1 DEF Made, Num
<1>. QED  BY Zenon, <1>4, <1>5

\* The leader of a node.
LEMMA LeaderFacts ==
  ASSUME NEW n \in Nodes
  PROVE  /\ Leader[n] \in Threads /\ node_id[Leader[n]] = n /\ Leader[n] \in Local(n)
         /\ DOMAIN Script(n) = 1 .. Len(Script(n)) /\ Len(Script(n)) \in Nat
<1>1. Leader[n] \in Threads /\ node_id[Leader[n]] = n
  BY Zenon, NodeBarrierAssumption
<1>. QED  BY Zenon, <1>1, NodeOf DEF Local, Script

\* Every step keeps the leaders' counts.
LEMMA CountsStep ==
  ASSUME CallInv, CallInv', Waiting, Waiting', WorkInv, [NNext]_allVars, NEW n \in Nodes
  PROVE  Counts(n)'
\* A wait or a batch_bar that ends moves the leader over one call.
<1>CountsMove. ASSUME NEW p \in Nat \ {0}
       PROVE  /\ Script(n)[p] = "workers" =>
                   /\ Made(Script(n), p + 1, "workers") = Made(Script(n), p, "workers") + 1
                   /\ Made(Script(n), p + 1, "nodes") = Made(Script(n), p, "nodes")
              /\ Script(n)[p] = "nodes" =>
                   /\ Made(Script(n), p + 1, "workers") = Made(Script(n), p, "workers")
                   /\ Made(Script(n), p + 1, "nodes") = Made(Script(n), p, "nodes") + 1
              /\ Script(n)[p] = "batch" =>
                   /\ Made(Script(n), p + 1, "workers") = Made(Script(n), p, "workers")
                   /\ Made(Script(n), p + 1, "nodes") = Made(Script(n), p, "nodes")
  <2>. USE <1>CountsMove
  <2>1. \A c \in {"workers", "nodes"} :
          Made(Script(n), p, c) \in Nat /\ Made(Script(n), p + 1, c) = Made(Script(n), p, c) + Num(Script(n)[p] = c)
    BY MadeStep
  <2>2. /\ Made(Script(n), p, "workers") \in Nat /\ Made(Script(n), p, "nodes") \in Nat
        /\ Made(Script(n), p + 1, "workers") = Made(Script(n), p, "workers") + Num(Script(n)[p] = "workers")
        /\ Made(Script(n), p + 1, "nodes") = Made(Script(n), p, "nodes") + Num(Script(n)[p] = "nodes")
    BY Zenon, <2>1
  <2>. QED  BY <2>2 DEF Num
<1>. DEFINE l == Leader[n]
            p == pos[l]
            busy == At(n, "recv") \/ At(n, "subtract")
<1>0. NTypes /\ NTypes' /\ l \in Threads /\ node_id[l] = n /\ l \in Local(n)
  BY Zenon, LeaderFacts DEF CallInv
<1>1. left[l] = Made(Script(n), p, "workers") /\ sent[n] = mf_calls[n] + Made(Script(n), p, "nodes") + Num(busy)
  BY Zenon DEF WorkInv, Counts
<1>2. p \in Nat \ {0} /\ sent[n] \in Nat /\ mf_calls[n] \in Nat /\ left[l] \in Nat
  BY Zenon, <1>0 DEF NTypes
<1>m. /\ Made(Script(n), p, "workers") \in Nat /\ Made(Script(n), p, "nodes") \in Nat
  BY Zenon, <1>2, MadeStep
<1>s. ASSUME /\ left'[l] = Made(Script(n), pos'[l], "workers")
             /\ sent'[n] = mf_calls'[n] + Made(Script(n), pos'[l], "nodes") + Num(busy)'
      PROVE  Counts(n)'
  BY Zenon, <1>s DEF Counts, Script
<1>u. ASSUME left'[l] = left[l], pos'[l] = p, sent'[n] = sent[n], mf_calls'[n] = mf_calls[n], busy' <=> busy
      PROVE  Counts(n)'
  <2>1. Num(busy)' = Num(busy)
    BY Zenon, <1>u DEF Num
  <2>. QED  BY Zenon, <1>1, <1>s, <1>u, <2>1
<1>3. ASSUME NEW t \in Threads, ThreadStep(t), node_id[t] # n PROVE Counts(n)'
  <2>1. busy' <=> busy
    BY Zenon, <1>3, AtStep
  <2>2. l # t
    BY Zenon, <1>0, <1>3
  <2>3. pos'[l] = p /\ left'[l] = left[l]
    BY Zenon, <1>0, <1>3, <2>2, OthersStay
  <2>4. sent'[n] = sent[n] /\ mf_calls'[n] = mf_calls[n]
    BY Zenon, <1>0, <1>3 DEF NTypes, ThreadStep, WaitWorkers, WaitNodes, SendBarrier, MetNodes, Subtract, Inside,
       WorkersReturn, AddEnter, ResetEnter, SpinEnter, AddExit, ResetExit, SpinExit, nodeVars
  <2>. QED  BY Zenon, <1>u, <2>1, <2>3, <2>4
<1>4. ASSUME NEW t \in Threads, ThreadStep(t), node_id[t] = n PROVE Counts(n)'
  <2>o. l # t => pos'[l] = p /\ left'[l] = left[l]
    BY Zenon, <1>0, <1>4, OthersStay
  <2>c. pc[t] \in Critical =>
          /\ At(n, "recv") <=> pc[t] = "recv"
          /\ At(n, "recv")' <=> pc'[t] = "recv"
          /\ At(n, "subtract") <=> pc[t] = "subtract"
          /\ At(n, "subtract")' <=> pc'[t] = "subtract"
    BY Zenon, <1>4, AtStep
  <2>d. pc[t] \notin Critical => (busy' <=> busy)
    BY Zenon, <1>4, AtStep
  <2>k. Calling(t)
    BY Zenon DEF CallInv
  <2>1. CASE SendBarrier(t)
    <3>1. /\ pc[t] = "mf" /\ pc'[t] = "recv" /\ pos' = pos /\ left' = left
          /\ sent'[n] = sent[n] + 1 /\ mf_calls' = mf_calls
      BY Zenon, <1>0, <1>4, <2>1 DEF SendBarrier, Goto, NTypes
    <3>2. ~busy /\ busy'
      BY Zenon, <2>c, <3>1 DEF Critical
    <3>3. Num(busy) = 0 /\ Num(busy)' = 1
      BY Zenon, <3>2 DEF Num
    <3>4. sent[n] + 1 = mf_calls[n] + Made(Script(n), p, "nodes") + 1
      BY <1>1, <1>2, <1>m, <3>3
    <3>. QED  BY Zenon, <1>1, <1>s, <3>1, <3>3, <3>4
  <2>2. CASE MetNodes(t)
    <3>1. /\ pc[t] = "recv" /\ pc'[t] = "subtract" /\ pos' = pos /\ left' = left
          /\ sent' = sent /\ mf_calls' = mf_calls
      BY Zenon, <1>0, <1>4, <2>2 DEF MetNodes, Goto, NTypes
    <3>2. busy /\ busy'
      BY Zenon, <2>c, <3>1 DEF Critical
    <3>. QED  BY Zenon, <1>u, <3>1, <3>2
  <2>3. CASE Subtract(t)
    <3>1. /\ pc[t] = "subtract" /\ pc'[t] \in {"exit", "idle"} /\ left' = left /\ sent' = sent
      BY Zenon, <1>0, <1>4, <2>3 DEF Subtract, Goto, NTypes
    <3>2. busy /\ ~busy'
      BY Zenon, <2>c, <3>1 DEF Critical
    <3>3. Num(busy) = 1 /\ Num(busy)' = 0
      BY Zenon, <3>2 DEF Num
    <3>4. CASE calls[t][pos[t]] = "workers"
      <4>1. pos' = pos /\ mf_calls'[n] = mf_calls[n] + 1
        BY Zenon, <1>0, <1>4, <2>3, <3>4 DEF Subtract, NTypes
      <4>2. sent[n] = (mf_calls[n] + 1) + Made(Script(n), p, "nodes") + 0
        BY <1>1, <1>2, <1>m, <3>3
      <4>. QED  BY Zenon, <1>1, <1>s, <3>1, <3>3, <4>1, <4>2
    <3>5. CASE calls[t][pos[t]] = "nodes"
      <4>1. t = l
        BY Zenon, <1>4, <2>k, <3>1, <3>5, NodeBarrierAssumption DEF Calling, Critical
      <4>2. pos'[l] = p + 1 /\ mf_calls' = mf_calls
        BY Zenon, <1>0, <2>3, <3>5, <4>1 DEF Subtract, NTypes
      <4>3. /\ Made(Script(n), p + 1, "workers") = Made(Script(n), p, "workers")
            /\ Made(Script(n), p + 1, "nodes") = Made(Script(n), p, "nodes") + 1
        BY Zenon, <1>2, <3>5, <4>1, <1>CountsMove DEF Script
      <4>4. sent[n] = mf_calls[n] + (Made(Script(n), p, "nodes") + 1) + 0
        BY <1>1, <1>2, <1>m, <3>3
      <4>. QED  BY Zenon, <1>1, <1>s, <3>1, <3>3, <4>2, <4>3, <4>4
    <3>. QED  BY Zenon, <2>3, <3>4, <3>5 DEF Subtract
  <2>4. CASE WorkersReturn(t)
    <3>1. /\ pc[t] \in InBarrier /\ left'[t] = entered[t] /\ pos'[t] = pos[t] + 1
          /\ sent' = sent /\ mf_calls' = mf_calls
      BY Zenon, <1>0, <2>4 DEF WorkersReturn, ResetExit, SpinExit, Return, NTypes, InBarrier, nodeVars
    <3>2. pc[t] \notin Critical
      BY Zenon, <3>1 DEF InBarrier, Critical
    <3>3. CASE t = l
      <4>1. calls[t][pos[t]] = "workers" /\ bpc[t] = pc[t] /\ bpc[t] # "idle"
        BY Zenon, <2>k, <3>1, <3>2 DEF Calling, bpc, Shown, InBarrier
      <4>2. entered[t] = left[t] + 1
        BY Zenon, <4>1 DEF Waiting
      <4>3. /\ Made(Script(n), p + 1, "workers") = Made(Script(n), p, "workers") + 1
            /\ Made(Script(n), p + 1, "nodes") = Made(Script(n), p, "nodes")
        BY Zenon, <1>2, <3>3, <4>1, <1>CountsMove DEF Script
      <4>4. Num(busy)' = Num(busy)
        BY Zenon, <2>d, <3>2 DEF Num
      <4>. QED  BY Zenon, <1>1, <1>s, <3>1, <3>3, <4>2, <4>3, <4>4
    <3>. QED  BY Zenon, <1>u, <2>d, <2>o, <3>1, <3>2, <3>3
  <2>5. CASE WaitWorkers(t) \/ WaitNodes(t) \/ Inside(t)
    <3>1. pc[t] \notin Critical
      BY Zenon, <2>5 DEF WaitWorkers, WaitNodes, Inside, AtCall, ResetEnter, SpinEnter, AddExit, Critical
    <3>2. sent' = sent /\ mf_calls' = mf_calls /\ pos' = pos /\ left' = left
      BY Zenon, <2>5 DEF WaitWorkers, WaitNodes, Inside, nodeVars, AddEnter, ResetEnter, SpinEnter, AddExit
    <3>. QED  BY Zenon, <1>u, <2>d, <3>1, <3>2
  <2>. QED  BY Zenon, <1>4, <2>1, <2>2, <2>3, <2>4, <2>5 DEF ThreadStep
<1>5. ASSUME NEW m \in Nodes, BatchBar(m) PROVE Counts(n)'
  <2>1. pc' = pc /\ left' = left /\ mf_calls' = mf_calls /\ sent' = sent
    BY Zenon, <1>5 DEF BatchBar, vars, nodeVars
  <2>2. busy' <=> busy
    BY Zenon, <2>1 DEF At, Local
  <2>3. CASE m = n
    <3>1. Script(n)[p] = "batch"
      BY Zenon, <1>0, <1>5, <2>3 DEF BatchBar, AtCall, Script
    <3>2. pos'[l] = p + 1
      BY Zenon, <1>0, <1>5, <2>3 DEF BatchBar
    <3>3. /\ Made(Script(n), p + 1, "workers") = Made(Script(n), p, "workers")
          /\ Made(Script(n), p + 1, "nodes") = Made(Script(n), p, "nodes")
      BY Zenon, <1>2, <3>1, <1>CountsMove
    <3>4. Num(busy)' = Num(busy)
      BY Zenon, <2>2 DEF Num
    <3>. QED  BY Zenon, <1>1, <1>s, <2>1, <3>2, <3>3, <3>4
  <2>4. CASE m # n
    <3>1. pos'[l] = p
      BY Zenon, <1>0, <1>5, <2>4 DEF BatchBar
    <3>. QED  BY Zenon, <1>u, <2>1, <2>2, <3>1
  <2>. QED  BY Zenon, <2>3, <2>4
<1>6. CASE (\E m \in Nodes : HandleBarrier(m)) \/ UNCHANGED allVars
  <2>1. pc' = pc /\ left' = left /\ mf_calls' = mf_calls /\ sent' = sent /\ pos' = pos
    BY Zenon, <1>6 DEF HandleBarrier, allVars, vars, nodeVars
  <2>2. busy' <=> busy
    BY Zenon, <2>1 DEF At, Local
  <2>. QED  BY Zenon, <1>u, <2>1, <2>2
<1>. QED  BY Zenon, <1>3, <1>4, <1>5, <1>6 DEF NNext

\* A node's messages stay behind its waits.
LEMMA ReachedStep ==
  ASSUME CallInv, CallInv', Waiting, WorkInv, [NNext]_allVars, NEW n \in Nodes
  PROVE  Reached(n)'
\* The threads of a node are all at the wait, or past it, that its next message stands for.
<1>SendReaches. ASSUME NEW t \in Threads, SendBarrier(t), n = node_id[t],
                NEW p \in DOMAIN Script(n), Script(n)[p] = "workers",
                Made(Script(n), p, "workers") + Made(Script(n), p, "nodes") < sent[n] + 1, NEW u \in Local(n)
       PROVE  entered[u] > Made(Script(n), p, "workers")
     \* Earlier in the calls, fewer have been made.
  <2>. USE <1>SendReaches
  <2>MadeLater. ASSUME NEW s, NEW a \in Nat \ {0}, NEW q \in Nat \ {0}, a < q, NEW c
         PROVE  Made(s, a, c) + Num(s[a] = c) <= Made(s, q, c)
    <3>. USE <2>MadeLater
    <3>. DEFINE S == {i \in 1 .. ((a + 1) - 1) : s[i] = c}
                T == {i \in 1 .. (q - 1) : s[i] = c}
    <3>1. IsFiniteSet(1 .. (q - 1))
      BY FS_Interval
    <3>2. IsFiniteSet(T)
      BY Zenon, <3>1, FS_Subset
    <3>3. S \subseteq T
      OBVIOUS
    <3>4. Cardinality(S) <= Cardinality(T)
      BY Zenon, <3>2, <3>3, FS_Subset
    <3>5. Made(s, a + 1, c) = Made(s, a, c) + Num(s[a] = c)
      BY MadeStep
    <3>. QED  BY Zenon, <3>4, <3>5 DEF Made
  <2>. DEFINE l == Leader[n]
              k == pos[l]
              Wk(i) == Made(Script(n), i, "workers")
              Nd(i) == Made(Script(n), i, "nodes")
  <2>0. /\ NTypes /\ l \in Threads /\ node_id[l] = n /\ l \in Local(n) /\ t \in Local(n) /\ u \in Threads
        /\ node_id[u] = n /\ Calling(t) /\ Calling(l)
    BY Zenon, LeaderFacts DEF CallInv, Local
  <2>1. pc[t] = "mf"
    BY Zenon DEF SendBarrier
  <2>2. k \in Nat \ {0} /\ p \in Nat \ {0} /\ sent[n] \in Nat /\ mf_calls[n] \in Nat /\ left[l] \in Nat
        /\ entered[l] \in Nat /\ entered[u] \in Nat /\ entered[t] \in Nat
    <3>1. p \in Nat \ {0}
      BY LeaderFacts
    <3>. QED  BY Zenon, <2>0, <3>1 DEF NTypes
  <2>3. \A i \in Nat \ {0} : Wk(i) \in Nat /\ Nd(i) \in Nat
    BY Zenon, MadeStep
  <2>4. ~(At(n, "recv") \/ At(n, "subtract"))
    <3>. SUFFICES ASSUME NEW v \in Local(n), pc[v] \in {"recv", "subtract"} PROVE FALSE
      BY Zenon DEF At
    <3>1. v \in Threads /\ node_id[v] = node_id[t] /\ pc[v] \in Critical /\ pc[t] \in Critical
      BY Zenon, <2>1 DEF Local, Critical
    <3>2. v = t
      BY Zenon, <3>1, OneCritical
    <3>. QED  BY Zenon, <2>1, <3>2
  <2>5. left[l] = Wk(k) /\ sent[n] = mf_calls[n] + Nd(k)
    <3>1. left[l] = Wk(k) /\ sent[n] = mf_calls[n] + Nd(k) + 0
      BY Zenon, <2>4 DEF WorkInv, Counts, Num
    <3>. QED  BY <2>2, <2>3, <3>1
  <2>6. calls[t][pos[t]] \in {"workers", "nodes"} /\ bpc[t] = IF calls[t][pos[t]] = "nodes" THEN "idle" ELSE "mf"
    BY Zenon, <2>0, <2>1 DEF Calling, bpc, Shown, Critical
  <2>7. p > k => Wk(k) + Num(Script(n)[k] = "workers") <= Wk(p) /\ Nd(k) + Num(Script(n)[k] = "nodes") <= Nd(p)
    BY Zenon, <2>2, <2>MadeLater
  <2>8. p < k => Wk(p) + Num(Script(n)[p] = "workers") <= Wk(k)
    BY Zenon, <2>2, <2>MadeLater
  <2>9. Num(Script(n)[p] = "workers") = 1
    BY Zenon DEF Num
  <2>10. CASE calls[t][pos[t]] = "workers"
    <3>1. bpc[t] = "mf"
      BY Zenon, <2>6, <2>10
    <3>2. mf_calls[n] + 1 = entered[t] /\ entered[l] = entered[t] /\ entered[u] = entered[t] /\ left[l] < entered[t]
      BY Zenon, <2>0, <3>1 DEF Waiting
    <3>3. bpc[l] # "idle" /\ entered[l] = left[l] + 1
      <4>1. entered[l] = IF bpc[l] = "idle" THEN left[l] ELSE left[l] + 1
        BY Zenon, <2>0 DEF Waiting
      <4>. QED  BY <2>2, <3>2, <4>1
    <3>4. Script(n)[k] = "workers"
      BY Zenon, <2>0, <3>3 DEF Calling, bpc, Shown, Script, CallInv, NTypes
    <3>5. Num(Script(n)[k] = "workers") = 1 /\ Num(Script(n)[k] = "nodes") \in Nat
      BY Zenon, <3>4 DEF Num
    <3>6. p <= k
      BY <2>2, <2>3, <2>5, <2>7, <3>2, <3>3, <3>5
    <3>7. Wk(p) <= Wk(k)
      BY <2>2, <2>3, <2>8, <2>9, <3>6
    <3>. QED  BY <2>2, <2>3, <2>5, <3>2, <3>3, <3>7
  <2>11. CASE calls[t][pos[t]] = "nodes"
    <3>1. t = l
      BY Zenon, <2>0, <2>1, <2>11, NodeBarrierAssumption DEF Calling, Critical
    <3>2. Script(n)[k] = "nodes" /\ bpc[l] = "idle"
      BY Zenon, <2>6, <2>11, <3>1 DEF Script
    <3>3. Num(Script(n)[k] = "nodes") = 1 /\ Num(Script(n)[k] = "workers") = 0
      BY Zenon, <3>2 DEF Num
    <3>4. entered[l] = left[l] /\ left[l] <= mf_calls[n] /\ mf_calls[n] <= entered[l] /\ mf_calls[n] <= entered[u]
      BY Zenon, <2>0, <3>2 DEF Waiting
    <3>5. p # k
      BY Zenon, <3>2
    <3>6. p < k
      BY <2>2, <2>3, <2>5, <2>7, <3>3, <3>4, <3>5
    <3>. QED  BY <2>2, <2>3, <2>5, <2>8, <2>9, <3>4, <3>6
  <2>. QED  BY Zenon, <2>6, <2>10, <2>11
<1>0. NTypes /\ NTypes' /\ Reached(n)
  BY Zenon DEF CallInv, WorkInv
<1>1. \A u \in Threads : entered[u] <= entered'[u]
  <2>1. entered' = entered \/ \E t \in Threads : AddEnter(t)
    BY Zenon DEF NNext, ThreadStep, WaitWorkers, WaitNodes, SendBarrier, MetNodes, Subtract, Inside,
       WorkersReturn, ResetEnter, SpinEnter, AddExit, ResetExit, SpinExit, Return, HandleBarrier, BatchBar,
       allVars, vars
  <2>2. \A u \in Threads : entered[u] \in Nat /\ entered[u] <= entered[u] /\ entered[u] <= entered[u] + 1
    BY <1>0 DEF NTypes
  <2>3. ASSUME NEW t \in Threads, AddEnter(t) PROVE \A u \in Threads : entered[u] <= entered'[u]
    BY Zenon, <1>0, <2>2, <2>3 DEF AddEnter, NTypes
  <2>. QED  BY Zenon, <2>1, <2>2, <2>3
<1>. SUFFICES ASSUME NEW p \in DOMAIN Script(n), Script(n)[p] = "workers",
                      Made(Script(n), p, "workers") + Made(Script(n), p, "nodes") < sent'[n], NEW u \in Local(n)
               PROVE  entered'[u] > Made(Script(n), p, "workers")
  BY Zenon DEF Reached, Script, Local
<1>t. u \in Threads /\ entered[u] \in Nat /\ entered'[u] \in Nat /\ Made(Script(n), p, "workers") \in Nat
  <2>1. u \in Threads
    BY Zenon DEF Local
  <2>2. p \in Nat \ {0}
    BY LeaderFacts
  <2>3. Made(Script(n), p, "workers") \in Nat
    BY Zenon, <2>2, MadeStep
  <2>. QED  BY Zenon, <1>0, <2>1, <2>3 DEF NTypes
<1>2. CASE sent'[n] = sent[n]
  <2>1. Made(Script(n), p, "workers") + Made(Script(n), p, "nodes") < sent[n]
    BY Zenon, <1>2
  <2>2. entered[u] > Made(Script(n), p, "workers")
    BY Zenon, <1>0, <2>1 DEF Reached
  <2>. QED  BY <1>1, <1>t, <2>2
<1>3. ASSUME NEW t \in Threads, SendBarrier(t), node_id[t] = n PROVE entered'[u] > Made(Script(n), p, "workers")
  <2>1. sent'[n] = sent[n] + 1
    BY Zenon, <1>0, <1>3 DEF SendBarrier, NTypes
  <2>2. Made(Script(n), p, "workers") + Made(Script(n), p, "nodes") < sent[n] + 1
    BY Zenon, <2>1
  <2>3. entered[u] > Made(Script(n), p, "workers")
    BY Zenon, <1>3, <2>2, <1>SendReaches
  <2>. QED  BY <1>1, <1>t, <2>3
<1>4. sent'[n] = sent[n] \/ \E t \in Threads : SendBarrier(t) /\ node_id[t] = n
  BY Zenon, <1>0 DEF NTypes, NNext, ThreadStep, WaitWorkers, WaitNodes, SendBarrier, MetNodes, Subtract, Inside,
     WorkersReturn, HandleBarrier, BatchBar, allVars, nodeVars
<1>. QED  BY Zenon, <1>2, <1>3, <1>4

\* A worker returns from a wait after all workers of both nodes have entered it.  Its own
\* node's have, since the middle function ran after them.  So had its leader, which is in
\* this wait still, or past it; in the first case the other node has sent the message that
\* the leader's place in its calls stands for, and its workers had entered.
LEMMA ReturnMeets ==
  ASSUME CallInv, CallInv', Waiting, Waiting', FlowInv, WorkInv, NEW t \in Threads, WorkersReturn(t),
         NEW u \in Threads
  PROVE  entered[u] >= entered[t] /\ left[t] < entered[t]
<1>. DEFINE n == node_id[t]
            o == other(n)
            r == entered[t]
            l == Leader[n]
            k == pos[l]
            Wk(i) == Made(Script(n), i, "workers")
            Nd(i) == Made(Script(n), i, "nodes")
<1>0. /\ NTypes /\ n \in Nodes /\ o \in Nodes /\ Nodes = {n, o} /\ l \in Threads /\ node_id[l] = n /\ l \in Local(n)
      /\ Calling(t) /\ Calling(l) /\ node_id[u] \in Nodes
  BY Zenon, LeaderFacts, NodeOf, TwoNodes DEF CallInv
<1>1. /\ pc[t] \in InBarrier /\ left'[t] = r /\ mf_calls' = mf_calls /\ entered' = entered
  BY Zenon, <1>0 DEF WorkersReturn, ResetExit, SpinExit, Return, NTypes, InBarrier
<1>2. /\ k \in Nat \ {0} /\ sent[n] \in Nat /\ sent[o] \in Nat /\ met[n] \in Nat /\ mf_calls[n] \in Nat
      /\ left[l] \in Nat /\ left[t] \in Nat /\ entered[l] \in Nat /\ entered[u] \in Nat /\ r \in Nat
  BY Zenon, <1>0 DEF NTypes
<1>3. bpc[t] = pc[t] /\ pc[t] # "idle"
  BY Zenon, <1>1 DEF bpc, Shown, Critical, InBarrier
<1>4. r = left[t] + 1
  BY Zenon, <1>3 DEF Waiting
<1>5. r <= mf_calls[n]
  BY Zenon, <1>1 DEF Waiting
<1>6. /\ mf_calls[n] <= entered[l]
      /\ entered[l] = IF bpc[l] = "idle" THEN left[l] ELSE left[l] + 1
  BY Zenon, <1>0 DEF Waiting
<1>7. entered[u] >= r
  <2>1. CASE node_id[u] = n
    <3>1. mf_calls[n] <= entered[u]
      BY Zenon, <2>1 DEF Waiting
    <3>. QED  BY <1>2, <1>5, <3>1
  <2>2. CASE left[l] >= r
    <3>1. left[l] <= entered[u]
      BY Zenon, <1>0 DEF WorkInv, Together
    <3>. QED  BY <1>2, <2>2, <3>1
  <2>3. CASE left[l] < r /\ node_id[u] = o
    <3>1. bpc[l] # "idle" /\ left[l] + 1 = r
      BY <1>2, <1>5, <1>6, <2>3
    <3>2. Script(n)[k] = "workers" /\ k \in DOMAIN Script(n)
      BY Zenon, <1>0, <3>1 DEF Calling, bpc, Shown, Script, NTypes, Critical, InBarrier
    <3>3. Wk(k) \in Nat /\ Nd(k) \in Nat
      BY Zenon, <1>2, MadeStep
    <3>4. left[l] = Wk(k) /\ sent[n] = mf_calls[n] + Nd(k) + Num(At(n, "recv") \/ At(n, "subtract"))
      BY Zenon, <1>0 DEF WorkInv, Counts
    <3>5. sent[n] = met[n] + Num(At(n, "recv"))
      BY Zenon, <1>0 DEF FlowInv, Flow
    <3>6. Num(At(n, "recv")) <= Num(At(n, "recv") \/ At(n, "subtract")) /\ Num(At(n, "recv")) \in Nat
          /\ Num(At(n, "recv") \/ At(n, "subtract")) \in Nat
      BY DEF Num
    <3>7. met[n] >= mf_calls[n] + Nd(k)
      BY <1>2, <3>3, <3>4, <3>5, <3>6
    <3>8. met[n] <= sent[o]
      BY Zenon, <1>0, FlowAhead
    <3>9. Wk(k) + Nd(k) < sent[o]
      BY <1>2, <1>5, <3>1, <3>3, <3>4, <3>7, <3>8
    <3>10. Script(o) = Script(n)
      BY Zenon, <1>0, NodeBarrierAssumption DEF Script
    <3>11. u \in Local(o)
      BY Zenon, <2>3 DEF Local
    <3>12. Reached(o)
      BY Zenon, <1>0 DEF WorkInv
    <3>13. entered[u] > Wk(k)
      BY Zenon, <3>2, <3>9, <3>10, <3>11, <3>12 DEF Reached
    <3>. QED  BY <1>2, <3>1, <3>3, <3>4, <3>13
  <2>4. left[l] >= r \/ left[l] < r
    BY <1>2
  <2>. QED  BY Zenon, <1>0, <2>1, <2>2, <2>3, <2>4
<1>. QED  BY <1>2, <1>4, <1>7

\* A step enters a wait, returns from one, or leaves the counts of the waits alone.
LEMMA WaitCounts ==
  ASSUME NTypes, [NNext]_allVars
  PROVE  \/ entered' = entered /\ left' = left
         \/ \E t \in Threads : WaitWorkers(t) /\ left' = left /\ entered' = [entered EXCEPT ![t] = @ + 1]
         \/ \E t \in Threads : WorkersReturn(t) /\ entered' = entered /\ left' = [left EXCEPT ![t] = entered[t]]
<1>1. ASSUME NEW t \in Threads, WaitWorkers(t) PROVE left' = left /\ entered' = [entered EXCEPT ![t] = @ + 1]
  BY Zenon, <1>1 DEF WaitWorkers, AddEnter
<1>2. ASSUME NEW t \in Threads, WorkersReturn(t) PROVE entered' = entered /\ left' = [left EXCEPT ![t] = entered[t]]
  BY Zenon, <1>2 DEF WorkersReturn, ResetExit, SpinExit, Return
<1>3. ASSUME NEW t \in Threads, WaitNodes(t) \/ SendBarrier(t) \/ MetNodes(t) \/ Subtract(t) \/ Inside(t)
      PROVE entered' = entered /\ left' = left
  BY Zenon, <1>3 DEF WaitNodes, SendBarrier, MetNodes, Subtract, Inside, ResetEnter, SpinEnter, AddExit
<1>4. ASSUME NEW n \in Nodes, HandleBarrier(n) \/ BatchBar(n) PROVE entered' = entered /\ left' = left
  BY Zenon, <1>4 DEF HandleBarrier, BatchBar, vars
<1>5. CASE UNCHANGED allVars
  BY Zenon, <1>5 DEF allVars, vars
<1>. QED  BY Zenon, <1>1, <1>2, <1>3, <1>4, <1>5 DEF NNext, ThreadStep

\* Every step keeps what is said of the waits.
LEMMA WorkStep ==
  ASSUME CallInv, CallInv', Waiting, Waiting', FlowInv, WorkInv, [NNext]_allVars
  PROVE  WorkInv'
<1>0. NTypes /\ Together
  BY Zenon DEF CallInv, WorkInv
<1>1. ASSUME NEW n \in Nodes PROVE Counts(n)' /\ Reached(n)'
  BY Zenon, CountsStep, ReachedStep
<1>2. Together'
  <2>1. CASE entered' = entered /\ left' = left
    BY Zenon, <1>0, <2>1 DEF Together
  <2>2. ASSUME NEW t \in Threads, left' = left, entered' = [entered EXCEPT ![t] = @ + 1] PROVE Together'
    BY <1>0, <2>2 DEF Together, NTypes
  <2>3. ASSUME NEW t \in Threads, WorkersReturn(t), entered' = entered, left' = [left EXCEPT ![t] = entered[t]]
        PROVE  Together'
    <3>1. \A u \in Threads : entered[u] >= entered[t]
      BY Zenon, <2>3, ReturnMeets
    <3>. QED  BY Zenon, <1>0, <2>3, <3>1 DEF Together, NTypes
  <2>. QED  BY Zenon, <1>0, <2>1, <2>2, <2>3, WaitCounts
<1>. QED  BY Zenon, <1>1, <1>2 DEF WorkInv

-----------------------------------------------------------------------------
(* The reusable barriers of the two nodes.                                  *)

RB == INSTANCE RBarrierProofs WITH pc <- bpc

\* The instance's own copies of the operators are the ones of this module.
LEMMA SameOperators ==
  ASSUME NEW n
  PROVE  /\ RB!IsFiniteSet(Threads) /\ RB!Local(n) = Local(n) /\ RB!n_threads(n) = n_threads(n)
         /\ node_id \in [Threads -> Nodes] /\ single \in [Nodes -> BOOLEAN] /\ MAX_WAITS \in Nat
<1>1. RB!IsFiniteSet(Threads)
  BY Zenon, RBarrierAssumption DEF RB!IsFiniteSet, IsFiniteSet
<1>2. RB!Local(n) = Local(n)
  BY Zenon DEF RB!Local, Local
<1>3. \A S : RB!Cardinality(S) = Cardinality(S)
  BY Zenon DEF RB!Cardinality, Cardinality
<1>. QED  BY Zenon, <1>1, <1>2, <1>3, RBarrierAssumption DEF RB!n_threads, n_threads

\* Every step of NodeBarrier is a step of the reusable barriers or none.
LEMMA BarrierStep == CallInv /\ CallInv' /\ [NNext]_allVars => [RB!Next]_RB!vars
\* What the barrier sees of a step of a thread.
<1>ShownStep. ASSUME CallInv, CallInv', NEW t \in Threads, ThreadStep(t)
       PROVE  bpc' = [bpc EXCEPT ![t] = Shown(pc'[t], calls[t][pos'[t]])]
  <2>. USE <1>ShownStep
  <2>1. \A u \in Threads : u # t => pc'[u] = pc[u] /\ pos'[u] = pos[u]
    BY Zenon, OthersStay
  <2>. QED  BY Zenon, <2>1 DEF bpc
<1>. SUFFICES ASSUME CallInv, CallInv', [NNext]_allVars PROVE RB!Next \/ RB!vars' = RB!vars
  BY Zenon
<1>0. NTypes /\ \A t \in Threads : Calling(t)
  BY Zenon DEF CallInv
<1>s. bpc' = bpc /\ UNCHANGED <<enter_ct, exit_ct, is_last, entered, left, mf_calls>> => RB!vars' = RB!vars
  BY Zenon DEF RB!vars
<1>t. ASSUME NEW t \in Threads, RB!Step(t) PROVE RB!Next
  BY Zenon, <1>t DEF RB!Next
<1>1. ASSUME NEW t \in Threads, ThreadStep(t) PROVE RB!Next \/ RB!vars' = RB!vars
  <2>0. /\ pc[t] \in InBarrier => bpc[t] = pc[t] /\ calls[t][pos[t]] = "workers"
        /\ pc[t] = "idle" => bpc[t] = "idle"
        /\ pc[t] \in Critical => bpc[t] = IF calls[t][pos[t]] = "nodes" THEN "idle" ELSE "mf"
        /\ node_id[t] \in Nodes
    BY Zenon, <1>0, NodeOf DEF bpc, Shown, Calling, Critical, InBarrier
  <2>b. bpc' = [bpc EXCEPT ![t] = Shown(pc'[t], calls[t][pos'[t]])]
    BY Zenon, <1>1, <1>ShownStep
  <2>n. RB!n_threads(node_id[t]) = n_threads(node_id[t])
    BY Zenon, SameOperators
  <2>1. CASE WaitWorkers(t)
    <3>1. AddEnter(t) /\ pc[t] = "idle" /\ pc'[t] \in {"enter_last", "enter_spin"}
      BY Zenon, <1>0, <2>1 DEF WaitWorkers, AddEnter, Goto, NTypes
    <3>2. bpc' = [bpc EXCEPT ![t] = pc'[t]]
      BY Zenon, <2>b, <3>1 DEF Shown, Critical
    <3>3. pc'[t] = IF enter_ct[node_id[t]] + 1 = n_threads(node_id[t]) THEN "enter_last" ELSE "enter_spin"
      BY Zenon, <1>0, <3>1 DEF AddEnter, Goto, NTypes
    <3>4. RB!AddEnter(t)
      BY Zenon, <2>0, <2>n, <3>1, <3>2, <3>3 DEF AddEnter, RB!AddEnter, RB!Goto
    <3>. QED  BY Zenon, <1>t, <3>4 DEF RB!Step
  <2>2. CASE WaitNodes(t)
    <3>1. pc[t] = "idle" /\ pc'[t] = "mf" /\ calls[t][pos'[t]] = "nodes"
          /\ UNCHANGED <<enter_ct, exit_ct, is_last, entered, left, mf_calls>>
      BY Zenon, <1>0, <2>2 DEF WaitNodes, AtCall, Goto, NTypes
    <3>2. bpc' = bpc
      BY Zenon, <2>0, <2>b, <3>1 DEF Shown, Critical, bpc
    <3>. QED  BY Zenon, <1>s, <3>1, <3>2
  <2>3. CASE SendBarrier(t) \/ MetNodes(t)
    <3>1. pc[t] \in Critical /\ pc'[t] \in Critical /\ pos' = pos
          /\ UNCHANGED <<enter_ct, exit_ct, is_last, entered, left, mf_calls>>
      BY Zenon, <1>0, <2>3 DEF SendBarrier, MetNodes, Goto, NTypes, Critical
    <3>2. bpc' = bpc
      BY Zenon, <2>0, <2>b, <3>1 DEF Shown, bpc
    <3>. QED  BY Zenon, <1>s, <3>1, <3>2
  <2>4. CASE Subtract(t)
    <3>1. CASE calls[t][pos[t]] = "workers"
      <4>1. /\ pc[t] \in Critical /\ pc'[t] = "exit"
            /\ mf_calls' = [mf_calls EXCEPT ![node_id[t]] = @ + 1]
            /\ UNCHANGED <<enter_ct, exit_ct, is_last, entered, left>>
        BY Zenon, <1>0, <2>4, <3>1 DEF Subtract, Goto, NTypes, Critical
      <4>2. bpc[t] = "mf" /\ bpc' = [bpc EXCEPT ![t] = "exit"]
        BY Zenon, <2>0, <2>b, <3>1, <4>1 DEF Shown, Critical
      <4>3. RB!Middle(t)
        BY Zenon, <4>1, <4>2 DEF RB!Middle, RB!Goto
      <4>. QED  BY Zenon, <1>t, <4>3 DEF RB!Step
    <3>2. CASE calls[t][pos[t]] = "nodes"
      <4>1. /\ pc[t] \in Critical /\ pc'[t] = "idle"
            /\ UNCHANGED <<enter_ct, exit_ct, is_last, entered, left, mf_calls>>
        BY Zenon, <1>0, <2>4, <3>2 DEF Subtract, Goto, NTypes, Critical
      <4>2. bpc' = bpc
        BY Zenon, <2>0, <2>b, <3>2, <4>1 DEF Shown, Critical, bpc
      <4>. QED  BY Zenon, <1>s, <4>1, <4>2
    <3>. QED  BY Zenon, <2>4, <3>1, <3>2 DEF Subtract
  <2>5. CASE Inside(t)
    <3>1. pc[t] \in InBarrier /\ pos' = pos /\ pc'[t] \in InBarrier \cup {"mf"}
      BY Zenon, <1>0, <2>5 DEF Inside, ResetEnter, SpinEnter, AddExit, AfterEnter, Goto, NTypes, InBarrier
    <3>2. bpc[t] = pc[t] /\ bpc' = [bpc EXCEPT ![t] = pc'[t]]
      BY Zenon, <2>0, <2>b, <3>1 DEF Shown, Critical, InBarrier
    <3>3. RB!RunsMiddle(t) <=> RunsMiddle(t)
      BY Zenon DEF RB!RunsMiddle, RunsMiddle
    <3>4. CASE ResetEnter(t)
      <4>1. pc'[t] = IF RunsMiddle(t) THEN "mf" ELSE "exit"
        BY Zenon, <1>0, <3>4 DEF ResetEnter, AfterEnter, Goto, NTypes
      <4>2. RB!ResetEnter(t)
        BY Zenon, <3>2, <3>3, <3>4, <4>1 DEF ResetEnter, RB!ResetEnter, RB!AfterEnter, RB!Goto
      <4>. QED  BY Zenon, <1>t, <4>2 DEF RB!Step
    <3>5. CASE SpinEnter(t)
      <4>1. pc'[t] = IF RunsMiddle(t) THEN "mf" ELSE "exit"
        BY Zenon, <1>0, <3>5 DEF SpinEnter, AfterEnter, Goto, NTypes
      <4>2. RB!SpinEnter(t)
        BY Zenon, <3>2, <3>3, <3>5, <4>1 DEF SpinEnter, RB!SpinEnter, RB!AfterEnter, RB!Goto, Open, RB!Open
      <4>. QED  BY Zenon, <1>t, <4>2 DEF RB!Step
    <3>6. CASE AddExit(t)
      <4>1. pc'[t] = IF exit_ct[node_id[t]] + 1 = n_threads(node_id[t]) THEN "exit_last" ELSE "exit_spin"
        BY Zenon, <1>0, <3>6 DEF AddExit, Goto, NTypes
      <4>2. RB!AddExit(t)
        BY Zenon, <2>n, <3>2, <3>6, <4>1 DEF AddExit, RB!AddExit, RB!Goto
      <4>. QED  BY Zenon, <1>t, <4>2 DEF RB!Step
    <3>. QED  BY Zenon, <2>5, <3>4, <3>5, <3>6 DEF Inside
  <2>6. CASE WorkersReturn(t)
    <3>1. pc[t] \in InBarrier /\ pc'[t] = "idle" /\ left' = [left EXCEPT ![t] = entered[t]]
      BY Zenon, <1>0, <2>6 DEF WorkersReturn, ResetExit, SpinExit, Return, Goto, NTypes, InBarrier
    <3>2. bpc[t] = pc[t] /\ bpc' = [bpc EXCEPT ![t] = "idle"]
      BY Zenon, <2>0, <2>b, <3>1 DEF Shown, Critical
    <3>3. CASE ResetExit(t)
      <4>1. RB!ResetExit(t)
        BY Zenon, <3>1, <3>2, <3>3 DEF ResetExit, RB!ResetExit, RB!Return, RB!Goto
      <4>. QED  BY Zenon, <1>t, <4>1 DEF RB!Step
    <3>4. CASE SpinExit(t)
      <4>1. RB!SpinExit(t)
        BY Zenon, <3>1, <3>2, <3>4 DEF SpinExit, RB!SpinExit, RB!Return, RB!Goto, Open, RB!Open
      <4>. QED  BY Zenon, <1>t, <4>1 DEF RB!Step
    <3>. QED  BY Zenon, <2>6, <3>3, <3>4 DEF WorkersReturn
  <2>. QED  BY Zenon, <1>1, <2>1, <2>2, <2>3, <2>4, <2>5, <2>6 DEF ThreadStep
<1>2. ASSUME NEW n \in Nodes, BatchBar(n) PROVE RB!vars' = RB!vars
  <2>1. \A t \in Threads : pc'[t] = pc[t] /\ (pos'[t] = pos[t] \/ pc[t] = "idle")
    BY Zenon, <1>0, <1>2 DEF BatchBar, AtCall, Local, vars, NTypes
  <2>2. bpc' = bpc
    BY Zenon, <2>1 DEF bpc, Shown, Critical
  <2>. QED  BY Zenon, <1>2, <1>s, <2>2 DEF BatchBar, vars
<1>3. ASSUME NEW n \in Nodes, HandleBarrier(n) PROVE RB!vars' = RB!vars
  <2>1. bpc' = bpc
    BY Zenon, <1>3 DEF HandleBarrier, vars, bpc
  <2>. QED  BY Zenon, <1>3, <1>s, <2>1 DEF HandleBarrier, vars
<1>4. CASE UNCHANGED allVars
  <2>1. bpc' = bpc
    BY Zenon, <1>4 DEF allVars, vars, bpc
  <2>. QED  BY Zenon, <1>4, <1>s, <2>1 DEF allVars, vars
<1>. QED  BY Zenon, <1>1, <1>2, <1>3, <1>4 DEF NNext

\* At the start everybody is idle, before the first call.
LEMMA InitCallInv == NInit => CallInv /\ RB!Init
<1>. SUFFICES ASSUME NInit PROVE CallInv /\ RB!Init
  BY Zenon
<1>1. NTypes
  BY DEF NInit, Init, NTypes
<1>2. \A t \in Threads : Calling(t)
  BY Zenon DEF NInit, Init, Calling, Critical, InBarrier
<1>3. bpc = [t \in Threads |-> "idle"]
  BY Zenon DEF NInit, Init, bpc, Shown, Critical
<1>. QED  BY Zenon, <1>1, <1>2, <1>3 DEF CallInv, NInit, Init, RB!Init

\* With critical_wait as its middle function, the reusable barrier of each node is one
\* of RBarrier.
THEOREM NodeImplementsRBarrier == NSpec => []CallInv /\ RB!Spec
BY InitCallInv, CallInvStep, BarrierStep, PTL DEF NSpec, RB!Spec

-----------------------------------------------------------------------------
(* What the reusable barrier gives.                                         *)

\* These facts hold throughout.
LEMMA AlwaysWaiting == NSpec => []Waiting
<1>0. /\ RB!IsFiniteSet(Threads) /\ node_id \in [Threads -> Nodes]
      /\ single \in [Nodes -> BOOLEAN] /\ MAX_WAITS \in Nat
  BY Zenon, SameOperators
<1>1. RB!Spec => []RB!MiddleAlone
  BY Zenon, <1>0, RB!MiddleIsAlone
<1>2. RB!Spec => []RB!MiddlePerWait
  BY Zenon, <1>0, RB!MiddleOncePerWait
<1>3. RB!Spec => []RB!WaitFacts
  BY Zenon, <1>0, RB!WaitsCounted
<1>4. CallInv /\ RB!MiddleAlone /\ RB!MiddlePerWait /\ RB!WaitFacts => Waiting
  <2>. SUFFICES ASSUME CallInv, RB!MiddleAlone, RB!MiddlePerWait, RB!WaitFacts, NEW t \in Threads, NEW n, n = node_id[t]
                PROVE  /\ entered[t] = IF bpc[t] = "idle" THEN left[t] ELSE left[t] + 1
                       /\ left[t] <= mf_calls[n] /\ mf_calls[n] <= entered[t]
                       /\ bpc[t] = "mf" =>
                            /\ mf_calls[n] + 1 = entered[t]
                            /\ \A u \in Local(n) : entered[u] = entered[t] /\ left[u] < entered[t]
                                                   /\ (u # t => bpc[u] # "mf")
    BY Zenon DEF Waiting
  <2>1. n \in Nodes /\ single[n] /\ RB!Local(n) = Local(n)
    BY Zenon, NodeOf, NodeBarrierAssumption, SameOperators
  <2>2. /\ entered[t] = IF bpc[t] = "idle" THEN left[t] ELSE left[t] + 1
        /\ bpc[t] = "mf" => mf_calls[n] + 1 = entered[t]
    BY Zenon, <2>1 DEF RB!WaitFacts
  <2>3. 1 * left[t] <= mf_calls[n] /\ mf_calls[n] <= 1 * entered[t]
    BY Zenon, <2>1 DEF RB!MiddlePerWait
  <2>4. left[t] \in Nat /\ entered[t] \in Nat /\ mf_calls[n] \in Nat
    BY Zenon, <2>1 DEF CallInv, NTypes
  <2>5. left[t] <= mf_calls[n] /\ mf_calls[n] <= entered[t]
    BY <2>3, <2>4
  <2>6. bpc[t] = "mf" => \A u \in Local(n) : entered[u] = entered[t] /\ left[u] < entered[t]
                                             /\ (u # t => bpc[u] # "mf")
    BY Zenon, <2>1 DEF RB!MiddleAlone
  <2>. QED  BY Zenon, <2>2, <2>5, <2>6
<1>. QED  BY <1>1, <1>2, <1>3, <1>4, NodeImplementsRBarrier, PTL

-----------------------------------------------------------------------------
(* The theorems.                                                            *)

\* At the start nothing has been sent.
LEMMA InitFlow == NInit => FlowInv /\ WorkInv
\* Before the first call there are none.
<1>MadeNone. ASSUME NEW s, NEW c
       PROVE  Made(s, 1, c) = 0
  <2>1. {q \in 1 .. (1 - 1) : s[q] = c} = {}
    OBVIOUS
  <2>. QED  BY Zenon, <2>1, FS_EmptySet DEF Made
<1>. SUFFICES ASSUME NInit PROVE FlowInv /\ WorkInv
  BY Zenon
<1>1. \A n, l : l # "idle" => ~At(n, l)
  BY Zenon DEF NInit, Init, At, Local
<1>2. ASSUME NEW n \in Nodes PROVE Flow(n) /\ Counts(n) /\ Reached(n)
  <2>1. Num(At(n, "recv")) = 0 /\ Num(At(n, "subtract")) = 0 /\ Num(At(n, "recv") \/ At(n, "subtract")) = 0
    BY Zenon, <1>1 DEF Num
  <2>2. other(n) \in Nodes /\ Leader[n] \in Threads
    BY Zenon, TwoNodes, LeaderFacts
  <2>3. sent[n] = 0 /\ sent[other(n)] = 0 /\ met[n] = 0 /\ received[n] = 0 /\ inflight[n] = 0 /\ mf_calls[n] = 0
        /\ left[Leader[n]] = 0 /\ pos[Leader[n]] = 1
    BY Zenon, <2>2 DEF NInit, Init
  <2>4. Flow(n)
    BY <2>1, <2>3 DEF Flow
  <2>5. Made(Script(n), 1, "workers") = 0 /\ Made(Script(n), 1, "nodes") = 0
    BY Zenon, <1>MadeNone
  <2>6. Counts(n)
    BY <2>1, <2>3, <2>5 DEF Counts
  <2>7. ASSUME NEW p \in DOMAIN Script(n) PROVE ~(Made(Script(n), p, "workers") + Made(Script(n), p, "nodes") < sent[n])
    <3>1. p \in Nat \ {0}
      BY LeaderFacts
    <3>2. Made(Script(n), p, "workers") \in Nat /\ Made(Script(n), p, "nodes") \in Nat
      BY Zenon, <3>1, MadeStep
    <3>. QED  BY <2>3, <3>2
  <2>8. Reached(n)
    BY Zenon, <2>7 DEF Reached
  <2>. QED  BY Zenon, <2>4, <2>6, <2>8
<1>3. Together
  BY DEF NInit, Init, Together
<1>. QED  BY Zenon, <1>2, <1>3 DEF FlowInv, WorkInv

\* The counting holds throughout.
LEMMA NodeInvariance == NSpec => [](CallInv /\ Waiting /\ FlowInv /\ WorkInv)
<1>1. CallInv /\ CallInv' /\ Waiting /\ Waiting' /\ FlowInv /\ WorkInv /\ [NNext]_allVars => FlowInv' /\ WorkInv'
  BY Zenon, FlowStep, WorkStep
<1>. QED  BY <1>1, InitFlow, AlwaysWaiting, NodeImplementsRBarrier, PTL DEF NSpec

\* A critical_wait passes only after the other node has come to the same one, and two
\* messages at most are waiting for a node: received, shared by wait_workers and
\* wait_nodes, never mixes up two of them.
THEOREM NodesOneAhead == NSpec => []OneAhead
<1>1. CallInv /\ Waiting /\ FlowInv => OneAhead
  BY Zenon, FlowAhead DEF OneAhead
<1>. QED  BY <1>1, NodeInvariance, PTL

\* wait_workers is a barrier of the workers of both nodes, whatever their number and
\* whatever wait_nodes and batch_bars the leaders make in between.
THEOREM WorkersBarrier == NSpec => WorkersSpec
<1>1. NInit => W!Init
  BY Zenon DEF NInit, Init, W!Init
<1>2. CallInv /\ CallInv' /\ Waiting /\ Waiting' /\ FlowInv /\ WorkInv /\ [NNext]_allVars
        => [W!Next]_<<entered, left>>
  <2>. SUFFICES ASSUME CallInv, CallInv', Waiting, Waiting', FlowInv, WorkInv, [NNext]_allVars
                PROVE  W!Next \/ <<entered, left>>' = <<entered, left>>
    BY Zenon
  <2>0. NTypes
    BY Zenon DEF CallInv
  <2>1. ASSUME NEW t \in Threads, WaitWorkers(t), left' = left, entered' = [entered EXCEPT ![t] = @ + 1]
        PROVE  W!Next
    <3>1. bpc[t] = "idle"
      BY Zenon, <2>1 DEF WaitWorkers, AtCall, bpc, Shown, Critical
    <3>2. entered[t] = left[t]
      BY Zenon, <3>1 DEF Waiting
    <3>3. W!Enter(t)
      BY Zenon, <2>1, <3>2 DEF W!Enter
    <3>. QED  BY Zenon, <3>3 DEF W!Next
  <2>2. ASSUME NEW t \in Threads, WorkersReturn(t), entered' = entered, left' = [left EXCEPT ![t] = entered[t]]
        PROVE  W!Next
    <3>1. \A u \in Threads : entered[u] >= entered[t] /\ left[t] < entered[t]
      BY Zenon, <2>2, ReturnMeets
    <3>2. [v \in Threads |-> Threads][t] = Threads
      BY Zenon
    <3>3. W!Leave(t)
      BY Zenon, <2>2, <3>1, <3>2 DEF W!Leave
    <3>. QED  BY Zenon, <3>3 DEF W!Next
  <2>. QED  BY Zenon, <2>0, <2>1, <2>2, WaitCounts
<1>. QED  BY <1>1, <1>2, NodeInvariance, PTL DEF NSpec, WorkersSpec, W!Spec
=============================================================================
