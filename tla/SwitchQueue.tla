---------------------------- MODULE SwitchQueue ----------------------------
(***************************************************************************)
(* SwitchLocks with the order in which packets come back: recirculate sends *)
(* all of them to one loopback port, which is a queue.  New packets come in *)
(* by other ports, at any time.                                             *)
(***************************************************************************)
EXTENDS SwitchLocks, Sequences

VARIABLES
  to_come,       \* the packets that the nodes have not sent yet
  loopback       \* the packets that wait at port 192

queueVars == <<lockVars, to_come, loopback>>

QueueInit == LocksInit /\ to_come = Pkts /\ loopback = <<>>

\* do_recirc: back to the end of the queue, unless there is an answer.
Recirculate(p, waiting) ==
  loopback' = IF st'[p] = "flying" THEN Append(waiting, p) ELSE waiting

\* A packet from a node.
Arrive(p) ==
  /\ p \in to_come /\ to_come' = to_come \ {p}
  /\ Pass(p)
  /\ Recirculate(p, loopback)

\* The next packet of the loopback port.
Return ==
  /\ loopback # <<>> /\ UNCHANGED to_come
  /\ Pass(Head(loopback))
  /\ Recirculate(Head(loopback), Tail(loopback))

QueueNext ==
  \/ \E p \in Pkts : Arrive(p)
  \/ Return
  \/ Idle /\ UNCHANGED <<to_come, loopback>>

QueueSpec == QueueInit /\ [][QueueNext]_queueVars

\* Both the nodes and the loopback port are served.
QueueFairSpec ==
  QueueSpec /\ (\A p \in Pkts : WF_queueVars(Arrive(p))) /\ WF_queueVars(Return)
=============================================================================
