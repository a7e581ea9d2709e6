----------------------------- MODULE HotPeriod -----------------------------
(***************************************************************************)
(* run_hot_period (ee/hot_period.cpp) on the leader threads of all nodes:   *)
(* start packets load the registers of the switch, then the queued hot      *)
(* transactions are sent in windows, one mini-batch after the other with    *)
(* wait_nodes in between, then end packets read the registers back.         *)
(*                                                                         *)
(* Every node counts its own calls of wait_nodes; nothing but the queues    *)
(* and mini-batch numbers makes the counts agree.  wait_nodes is the        *)
(* barrier that NodeBarrier models: a node's k-th call returns when every   *)
(* node has made k calls.                                                   *)
(***************************************************************************)
EXTENDS Naturals, Sequences, FiniteSets

CONSTANTS
  Nodes,
  N_MINI,          \* BATCH_SIZE_TGT / MINI_BATCH_SIZE_TGT
  CAPACITY,        \* send_q_capacity
  MAX_IN_FLIGHT,
  N_BATCHES

ASSUME HotPeriodAssumption ==
  /\ IsFiniteSet(Nodes) /\ N_MINI \in Nat \ {0} /\ CAPACITY \in Nat \ {0}
  /\ MAX_IN_FLIGHT \in Nat \ {0} /\ N_BATCHES \in Nat \ {0}

VARIABLES
  pc, batch,
  mini_batch_num,  \* of the leader's executor
  past_mb_num,
  send_q,          \* node -> array of mini_batch_num, never cleared
  send_q_tail,
  q_p,
  calls,           \* wait_nodes calls entered
  togo, ret,       \* calls left in the current loop, and where it goes on
  sent,            \* mini_batch_num of the last transaction a node has sent
  empties          \* batches in which a node queued nothing

barrier == <<calls, togo, ret>>
queue == <<send_q, send_q_tail, q_p>>
hotVars == <<pc, batch, mini_batch_num, past_mb_num, queue, barrier, sent, empties>>

\* send_q is a fresh mapping, hence zero; past_mb_num starts at 1.
HInit ==
  /\ pc = [n \in Nodes |-> "cold"]
  /\ batch = [n \in Nodes |-> 1]
  /\ mini_batch_num = [n \in Nodes |-> 1]
  /\ past_mb_num = [n \in Nodes |-> 1]
  /\ send_q = [n \in Nodes |-> [p \in 0 .. CAPACITY - 1 |-> 0]]
  /\ send_q_tail = [n \in Nodes |-> 0]
  /\ q_p = [n \in Nodes |-> 0]
  /\ calls = [n \in Nodes |-> 0]
  /\ togo = [n \in Nodes |-> 0]
  /\ ret = [n \in Nodes |-> "start"]
  /\ sent = [n \in Nodes |-> 0]
  /\ empties = [n \in Nodes |-> {}]

\* Node n makes k calls of wait_nodes, then goes on at next.
WaitNodes(n, k, next) ==
  /\ togo' = [togo EXCEPT ![n] = k]
  /\ ret' = [ret EXCEPT ![n] = next]
  /\ calls' = [calls EXCEPT ![n] = IF k = 0 THEN @ ELSE @ + 1]
  /\ pc' = [pc EXCEPT ![n] = IF k = 0 THEN next ELSE "bar"]

\* One call returns.
LeaveBarrier(n) ==
  /\ pc[n] = "bar"
  /\ \A m \in Nodes : calls[m] >= calls[n]
  /\ WaitNodes(n, togo[n] - 1, ret[n])
  /\ UNCHANGED <<batch, mini_batch_num, past_mb_num, queue, sent, empties>>

\* The cold part of a batch (txn_executor): alloc_slot queues transactions in the
\* order of their mini-batches, the drain is one more, and wait_workers ends it.
Cold(n) ==
  /\ pc[n] = "cold"
  /\ \E k \in 0 .. CAPACITY :
       \E s \in [0 .. k - 1 -> mini_batch_num[n] .. mini_batch_num[n] + N_MINI - 1] :
         /\ \A p \in 1 .. k - 1 : s[p - 1] <= s[p]
         /\ send_q' = [send_q EXCEPT ![n] = [p \in DOMAIN @ |-> IF p < k THEN s[p] ELSE @[p]]]
         /\ send_q_tail' = [send_q_tail EXCEPT ![n] = k]
         /\ empties' = [empties EXCEPT ![n] = IF k = 0 THEN @ \cup {batch[n]} ELSE @]
  /\ mini_batch_num' = [mini_batch_num EXCEPT ![n] = @ + N_MINI + 1]
  /\ WaitNodes(n, 1, "start")
  /\ UNCHANGED <<batch, past_mb_num, q_p, sent>>

\* run_hot_period: send the start packets and wait.
SendStart(n) ==
  /\ pc[n] = "start"
  /\ q_p' = [q_p EXCEPT ![n] = 0]
  /\ WaitNodes(n, 1, "first")
  /\ UNCHANGED <<batch, mini_batch_num, past_mb_num, send_q, send_q_tail, sent, empties>>

\* Mutant: a leader that takes the first window's mini-batch for the first of all.
MutNoCatchUp(n) == 0

\* The mini-batches before the first window's, which this node skips.  An empty
\* queue still has entry 0 of an earlier batch, and the loop makes no call.
CatchUp(n) ==
  LET first == send_q[n][0]
  IN  IF first > past_mb_num[n] THEN first - past_mb_num[n] ELSE 0

SkipFirst(n) ==
  /\ pc[n] = "first"
  /\ WaitNodes(n, CatchUp(n), "window")
  /\ UNCHANGED <<batch, mini_batch_num, past_mb_num, queue, sent, empties>>

\* Mutant: a window is filled up without a look at the mini-batches.
MutLongWindow(n) ==
  IF q_p[n] + MAX_IN_FLIGHT < send_q_tail[n] THEN q_p[n] + MAX_IN_FLIGHT ELSE send_q_tail[n]

\* Where the window that starts at q_p ends.
WindowEnd(n) ==
  CHOOSE e \in q_p[n] + 1 .. send_q_tail[n] :
    /\ e - q_p[n] <= MAX_IN_FLIGHT
    /\ \A p \in q_p[n] .. e - 1 : send_q[n][p] = send_q[n][q_p[n]]
    /\ \/ e = send_q_tail[n] \/ e - q_p[n] = MAX_IN_FLIGHT
       \/ send_q[n][e] # send_q[n][q_p[n]]

\* Mutant: one wait per change of mini-batch, not per mini-batch.
MutOneWait(n, e) == IF e = send_q_tail[n] \/ send_q[n][q_p[n]] < send_q[n][e] THEN 1 ELSE 0

\* The mini-batches from a window's to the next one's, or to the end.
Advance(n, e) ==
  IF e = send_q_tail[n] THEN mini_batch_num[n] - send_q[n][q_p[n]]
  ELSE send_q[n][e] - send_q[n][q_p[n]]

SendWindow(n) ==
  /\ pc[n] = "window" /\ q_p[n] < send_q_tail[n]
  /\ sent' = [sent EXCEPT ![n] = send_q[n][WindowEnd(n) - 1]]
  /\ q_p' = [q_p EXCEPT ![n] = WindowEnd(n)]
  /\ WaitNodes(n, Advance(n, WindowEnd(n)), "window")
  /\ UNCHANGED <<batch, mini_batch_num, past_mb_num, send_q, send_q_tail, empties>>

\* The end packets and the last wait_nodes.
SendEnd(n) ==
  /\ pc[n] = "window" /\ q_p[n] = send_q_tail[n]
  /\ past_mb_num' = [past_mb_num EXCEPT ![n] = mini_batch_num[n]]
  /\ WaitNodes(n, 1, "over")
  /\ UNCHANGED <<batch, mini_batch_num, queue, sent, empties>>

\* hot_send_q.done_sending and the next batch.
Over(n) ==
  /\ pc[n] = "over"
  /\ send_q_tail' = [send_q_tail EXCEPT ![n] = 0]
  /\ batch' = [batch EXCEPT ![n] = @ + 1]
  /\ pc' = [pc EXCEPT ![n] = IF batch[n] < N_BATCHES THEN "cold" ELSE "done"]
  /\ UNCHANGED <<mini_batch_num, past_mb_num, send_q, q_p, barrier, sent, empties>>

HStep(n) ==
  \/ LeaveBarrier(n) \/ Cold(n) \/ SendStart(n) \/ SkipFirst(n)
  \/ SendWindow(n) \/ SendEnd(n) \/ Over(n)

Terminated == (\A n \in Nodes : pc[n] = "done") /\ UNCHANGED hotVars

HNext == (\E n \in Nodes : HStep(n)) \/ Terminated

HSpec == HInit /\ [][HNext]_hotVars

\* The leader threads are scheduled, and wait_nodes spins until it may return.
HFairSpec == HSpec /\ \A n \in Nodes : WF_hotVars(HStep(n))

-----------------------------------------------------------------------------
\* In some batch one node queued transactions and another none: line 124 then
\* makes them call wait_nodes a different number of times.
Uneven ==
  \E n, m \in Nodes : \E b \in empties[n] :
    b \notin empties[m] /\ (batch[m] > b \/ (batch[m] = b /\ pc[m] # "cold"))

\* Node m has loaded its registers in node n's batch and not read them back.
Loaded(n, m) ==
  /\ batch[m] = batch[n]
  /\ pc[m] \in {"first", "window"} \/ (pc[m] = "bar" /\ ret[m] \in {"first", "window"})

\* A node sends transactions only while the registers of all nodes are loaded:
\* after every node's start packets and before any node's end packets.
RegistersLoaded ==
  ~Uneven => \A n \in Nodes : pc[n] = "window" /\ q_p[n] < send_q_tail[n] =>
               \A m \in Nodes : Loaded(n, m)

\* The switch gets the transactions of all nodes in the order of their
\* mini-batches, the order in which their cold parts ran: when a node sends a window,
\* no node has sent a transaction of a mini-batch after that of the first in it.
MiniBatchOrder ==
  [][~Uneven => \A n, m \in Nodes : SendWindow(n) => sent[m] <= send_q[n][q_p[n]]]_hotVars

\* Unless a batch is uneven, the counts of wait_nodes agree and every node comes to
\* the end of every hot period.
Completes == <>(Uneven \/ \A n \in Nodes : pc[n] = "done")
=============================================================================
