------------------------------ MODULE RBarrier ------------------------------
(***************************************************************************)
(* The reusable barrier of utils/rbarrier.hpp: two counters that the last   *)
(* thread sets back to zero while the others spin on them, and a middle     *)
(* function between the two, run by the last thread (single) or by all.     *)
(* Each node has its own; a thread calls wait up to MAX_WAITS times.        *)
(***************************************************************************)
EXTENDS Naturals, FiniteSets

CONSTANTS
  Nodes, Threads,
  node_id,     \* thread -> node
  single,      \* node -> only the last thread to enter runs mf
  MAX_WAITS    \* bound on the calls of one thread

Local(n) == {t \in Threads : node_id[t] = n}

ASSUME RBarrierAssumption ==
  /\ IsFiniteSet(Threads)
  /\ node_id \in [Threads -> Nodes]
  /\ single \in [Nodes -> BOOLEAN]
  /\ MAX_WAITS \in Nat

VARIABLES
  enter_ct, exit_ct,  \* node -> counters of its barrier
  pc,                 \* thread -> where it is in wait
  is_last,            \* thread -> my_enter_ct == n_threads
  entered, left,      \* thread -> calls entered, calls returned from
  mf_calls            \* node -> calls of mf

vars == <<enter_ct, exit_ct, pc, is_last, entered, left, mf_calls>>

n_threads(n) == Cardinality(Local(n))

Init ==
  /\ enter_ct = [n \in Nodes |-> 0]
  /\ exit_ct = [n \in Nodes |-> 0]
  /\ pc = [t \in Threads |-> "idle"]
  /\ is_last = [t \in Threads |-> FALSE]
  /\ entered = [t \in Threads |-> 0]
  /\ left = [t \in Threads |-> 0]
  /\ mf_calls = [n \in Nodes |-> 0]

Goto(t, l) == pc' = [pc EXCEPT ![t] = l]

AddEnter(t) ==
  LET n == node_id[t]
      last == enter_ct[n] + 1 = n_threads(n)
  IN  /\ pc[t] = "idle" /\ entered[t] < MAX_WAITS
      /\ enter_ct' = [enter_ct EXCEPT ![n] = @ + 1]
      /\ is_last' = [is_last EXCEPT ![t] = last]
      /\ Goto(t, IF last THEN "enter_last" ELSE "enter_spin")
      /\ entered' = [entered EXCEPT ![t] = @ + 1]
      /\ UNCHANGED <<exit_ct, left, mf_calls>>

\* Mutant: every thread runs the middle function of a single barrier.
MutAllRun(t) == TRUE

RunsMiddle(t) == ~single[node_id[t]] \/ is_last[t]

AfterEnter(t) == Goto(t, IF RunsMiddle(t) THEN "mf" ELSE "exit")

\* The last thread opens the first gate.
ResetEnter(t) ==
  /\ pc[t] = "enter_last"
  /\ enter_ct' = [enter_ct EXCEPT ![node_id[t]] = 0]
  /\ AfterEnter(t)
  /\ UNCHANGED <<exit_ct, is_last, entered, left, mf_calls>>

\* Mutant: the spins do not look at the counter.
MutOpen(ct, n) == TRUE

\* A gate is open while its counter is zero.
Open(ct, n) == ct[n] = 0

SpinEnter(t) ==
  /\ pc[t] = "enter_spin" /\ Open(enter_ct, node_id[t])
  /\ AfterEnter(t)
  /\ UNCHANGED <<enter_ct, exit_ct, is_last, entered, left, mf_calls>>

Middle(t) ==
  /\ pc[t] = "mf"
  /\ mf_calls' = [mf_calls EXCEPT ![node_id[t]] = @ + 1]
  /\ Goto(t, "exit")
  /\ UNCHANGED <<enter_ct, exit_ct, is_last, entered, left>>

\* Mutant: there is no second gate.
MutNoExit(t) ==
  /\ pc[t] = "exit"
  /\ Goto(t, "idle")
  /\ left' = [left EXCEPT ![t] = entered[t]]
  /\ UNCHANGED <<enter_ct, exit_ct, is_last, entered, mf_calls>>

AddExit(t) ==
  LET n == node_id[t]
  IN  /\ pc[t] = "exit"
      /\ exit_ct' = [exit_ct EXCEPT ![n] = @ + 1]
      /\ Goto(t, IF exit_ct[n] + 1 = n_threads(n) THEN "exit_last" ELSE "exit_spin")
      /\ UNCHANGED <<enter_ct, is_last, entered, left, mf_calls>>

Return(t) ==
  /\ Goto(t, "idle")
  /\ left' = [left EXCEPT ![t] = entered[t]]

\* Mutant: the last thread leaves the second gate closed.
MutKeepExit(t) ==
  /\ pc[t] = "exit_last"
  /\ Return(t)
  /\ UNCHANGED <<enter_ct, exit_ct, is_last, entered, mf_calls>>

ResetExit(t) ==
  /\ pc[t] = "exit_last"
  /\ exit_ct' = [exit_ct EXCEPT ![node_id[t]] = 0]
  /\ Return(t)
  /\ UNCHANGED <<enter_ct, is_last, entered, mf_calls>>

SpinExit(t) ==
  /\ pc[t] = "exit_spin" /\ Open(exit_ct, node_id[t])
  /\ Return(t)
  /\ UNCHANGED <<enter_ct, exit_ct, is_last, entered, mf_calls>>

Step(t) ==
  \/ AddEnter(t) \/ ResetEnter(t) \/ SpinEnter(t) \/ Middle(t)
  \/ AddExit(t) \/ ResetExit(t) \/ SpinExit(t)

\* The threads stay stopped after their last call.
Terminated ==
  /\ \A t \in Threads : pc[t] = "idle" /\ entered[t] = MAX_WAITS
  /\ UNCHANGED vars

Next == (\E t \in Threads : Step(t)) \/ Terminated

Spec == Init /\ [][Next]_vars

\* The operating system schedules every thread.
FairSpec == Spec /\ \A t \in Threads : WF_vars(Step(t))

-----------------------------------------------------------------------------
(* Properties.                                                              *)

\* The counters stay within the number of threads of the node.
TypeOK ==
  /\ enter_ct \in [Nodes -> Nat] /\ exit_ct \in [Nodes -> Nat]
  /\ \A n \in Nodes : enter_ct[n] <= n_threads(n) /\ exit_ct[n] <= n_threads(n)
  /\ pc \in [Threads -> {"idle", "enter_last", "enter_spin", "mf",
                         "exit", "exit_last", "exit_spin"}]
  /\ is_last \in [Threads -> BOOLEAN]
  /\ entered \in [Threads -> Nat] /\ left \in [Threads -> Nat]
  /\ mf_calls \in [Nodes -> Nat]

\* reusable_barrier_t is a barrier of the threads of its node, however often
\* it is reused and however fast a thread comes back to it.
B == INSTANCE Barrier WITH Peers <- [t \in Threads |-> Local(node_id[t])]
BarrierSpec == B!Spec

\* While mf runs, every thread of the node is inside this wait, none beyond
\* it, and with single set no other thread runs mf: the section of
\* critical_wait and single_db_section may rely on the others standing still.
MiddleAlone ==
  \A t \in Threads : pc[t] = "mf" =>
    \A u \in Local(node_id[t]) :
      /\ entered[u] = entered[t] /\ left[u] < entered[t]
      /\ single[node_id[t]] /\ u # t => pc[u] # "mf"

\* mf has run for every wait that somebody has returned from, and never for
\* one that somebody has yet to enter: once per wait, or once per thread.
MiddlePerWait ==
  \A t \in Threads :
    LET n == node_id[t]
        k == IF single[n] THEN 1 ELSE n_threads(n)
    IN  k * left[t] <= mf_calls[n] /\ mf_calls[n] <= k * entered[t]

\* Nobody spins for ever on a counter that was reset and reused meanwhile.
AllReturn == <>(\A t \in Threads : left[t] = MAX_WAITS)
=============================================================================
