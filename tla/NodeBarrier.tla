---------------------------- MODULE NodeBarrier ----------------------------
(***************************************************************************)
(* BarrierHandler (comm/handlers/barrier.cpp), on the two nodes it is       *)
(* written for.  wait_workers is the node's reusable barrier with           *)
(* critical_wait as its middle function; wait_nodes, called by the leader   *)
(* alone, is critical_wait.  critical_wait sends a message to the other     *)
(* node, spins until received, which the network thread increments, is one, *)
(* and subtracts one.                                                       *)
(*                                                                         *)
(* Each thread makes the calls that txn_executor and main make, in order:   *)
(* "workers", "nodes" (leaders only, main's own calls included) and "batch" *)
(* for batch_bar, the node's other reusable barrier, which here is taken as *)
(* the barrier that RBarrier shows it to be.                                *)
(***************************************************************************)
EXTENDS RBarrier, Sequences

CONSTANTS
  calls,  \* thread -> sequence of calls
  Leader  \* node -> the worker that runs the hot period

\* The calls without the leader's own.
Common(t) == SelectSeq(calls[t], LAMBDA c : c # "nodes")

\* wait_nodes is called by the leaders alone, and all leaders make the same calls.
ASSUME NodeBarrierAssumption ==
  /\ \E m, n \in Nodes : m # n /\ Nodes = {m, n}
  /\ \A n \in Nodes : single[n]
  /\ Leader \in [Nodes -> Threads] /\ \A n \in Nodes : node_id[Leader[n]] = n
  /\ \A t \in Threads : calls[t] \in Seq({"workers", "nodes", "batch"})
  /\ \A t \in Threads : \A p \in DOMAIN calls[t] : calls[t][p] = "nodes" => t = Leader[node_id[t]]
  /\ \A m, n \in Nodes : calls[Leader[m]] = calls[Leader[n]]
  /\ \A t, u \in Threads : Common(t) = Common(u)

VARIABLES
  pos,       \* thread -> index of its current or next call
  received,  \* node -> BarrierHandler.received
  inflight,  \* node -> msg::Barrier on their way to it
  sent, met  \* node -> critical_waits that have sent, that have met the other

nodeVars == <<received, inflight, sent, met>>
allVars == <<vars, pos, nodeVars>>

other(n) == CHOOSE m \in Nodes : m # n

NInit ==
  /\ Init
  /\ pos = [t \in Threads |-> 1]
  /\ received = [n \in Nodes |-> 0]
  /\ inflight = [n \in Nodes |-> 0]
  /\ sent = [n \in Nodes |-> 0]
  /\ met = [n \in Nodes |-> 0]

AtCall(t, c) == pc[t] = "idle" /\ pos[t] <= Len(calls[t]) /\ calls[t][pos[t]] = c

WaitWorkers(t) == AtCall(t, "workers") /\ AddEnter(t) /\ UNCHANGED <<pos, nodeVars>>

WaitNodes(t) ==
  /\ AtCall(t, "nodes")
  /\ Goto(t, "mf")
  /\ UNCHANGED <<enter_ct, exit_ct, is_last, entered, left, mf_calls, pos, nodeVars>>

\* my_wait, the loop over the other nodes.
SendBarrier(t) ==
  LET n == node_id[t]
  IN  /\ pc[t] = "mf"
      /\ inflight' = [inflight EXCEPT ![other(n)] = @ + 1]
      /\ sent' = [sent EXCEPT ![n] = @ + 1]
      /\ Goto(t, "recv")
      /\ UNCHANGED <<enter_ct, exit_ct, is_last, entered, left, mf_calls, pos, received, met>>

\* handle, on the network thread.
HandleBarrier(n) ==
  /\ inflight[n] > 0
  /\ inflight' = [inflight EXCEPT ![n] = @ - 1]
  /\ received' = [received EXCEPT ![n] = @ + 1]
  /\ UNCHANGED <<vars, pos, sent, met>>

\* Mutant: the wait does not look at the counter.
MutNoSpin(n) == TRUE

AllReceived(n) == received[n] = Cardinality(Nodes) - 1

\* my_wait, the end of the spin.
MetNodes(t) ==
  LET n == node_id[t]
  IN  /\ pc[t] = "recv" /\ AllReceived(n)
      /\ met' = [met EXCEPT ![n] = @ + 1]
      /\ Goto(t, "subtract")
      /\ UNCHANGED <<enter_ct, exit_ct, is_last, entered, left, mf_calls, pos>>
      /\ UNCHANGED <<received, inflight, sent>>

\* The rest of critical_wait; wait_nodes returns.
Subtract(t) ==
  LET n == node_id[t]
  IN  /\ pc[t] = "subtract"
      /\ received' = [received EXCEPT ![n] = @ - 1]
      /\ \/ /\ calls[t][pos[t]] = "workers"
            /\ Goto(t, "exit")
            /\ mf_calls' = [mf_calls EXCEPT ![n] = @ + 1]
            /\ UNCHANGED pos
         \/ /\ calls[t][pos[t]] = "nodes"
            /\ Goto(t, "idle")
            /\ pos' = [pos EXCEPT ![t] = @ + 1]
            /\ UNCHANGED mf_calls
      /\ UNCHANGED <<enter_ct, exit_ct, is_last, entered, left, inflight, sent, met>>

Inside(t) == (ResetEnter(t) \/ SpinEnter(t) \/ AddExit(t)) /\ UNCHANGED <<pos, nodeVars>>

WorkersReturn(t) ==
  /\ ResetExit(t) \/ SpinExit(t)
  /\ pos' = [pos EXCEPT ![t] = @ + 1]
  /\ UNCHANGED nodeVars

BatchBar(n) ==
  /\ \A t \in Local(n) : AtCall(t, "batch")
  /\ pos' = [t \in Threads |-> IF node_id[t] = n THEN pos[t] + 1 ELSE pos[t]]
  /\ UNCHANGED <<vars, nodeVars>>

ThreadStep(t) ==
  \/ WaitWorkers(t) \/ WaitNodes(t) \/ SendBarrier(t) \/ MetNodes(t) \/ Subtract(t)
  \/ Inside(t) \/ WorkersReturn(t)

NNext ==
  \/ \E t \in Threads : ThreadStep(t)
  \/ \E n \in Nodes : HandleBarrier(n) \/ BatchBar(n)

NSpec == NInit /\ [][NNext]_allVars

\* The operating system schedules every thread, and TCP delivers.
NFairSpec ==
  /\ NSpec
  /\ \A t \in Threads : WF_allVars(ThreadStep(t))
  /\ \A n \in Nodes : WF_allVars(HandleBarrier(n)) /\ WF_allVars(BatchBar(n))

-----------------------------------------------------------------------------
(* Properties.                                                              *)

\* wait_workers is a barrier of all the workers of both nodes: the promise
\* that Executor is built on.
W == INSTANCE Barrier WITH Peers <- [t \in Threads |-> Threads]
WorkersSpec == W!Spec

\* A critical_wait passes only after the other node has come to the same one,
\* counted over wait_workers and wait_nodes together, which share received; and
\* the other node is never more than one critical_wait ahead, so that two
\* messages at most are waiting for a node.
OneAhead ==
  \A n \in Nodes : met[n] <= sent[other(n)] /\ received[n] + inflight[n] <= 2

\* The comment on critical_wait has messages that come too early queued up, so
\* that they do no harm: every call returns on every node.
CallsReturn == <>(\A t \in Threads : pos[t] = Len(calls[t]) + 1)
=============================================================================
