------------------------------ MODULE Barrier ------------------------------
(***************************************************************************)
(* What a barrier promises: nobody returns from its r-th wait before all    *)
(* the threads it meets have entered theirs.                                *)
(***************************************************************************)
EXTENDS Naturals

CONSTANTS Threads, Peers  \* thread -> the threads it meets

VARIABLES entered, left  \* thread -> waits entered, waits returned from

Init ==
  /\ entered = [t \in Threads |-> 0]
  /\ left = [t \in Threads |-> 0]

Enter(t) ==
  /\ entered[t] = left[t]
  /\ entered' = [entered EXCEPT ![t] = @ + 1]
  /\ UNCHANGED left

Leave(t) ==
  /\ left[t] < entered[t]
  /\ \A u \in Peers[t] : entered[u] >= entered[t]
  /\ left' = [left EXCEPT ![t] = entered[t]]
  /\ UNCHANGED entered

Next == \E t \in Threads : Enter(t) \/ Leave(t)

Spec == Init /\ [][Next]_<<entered, left>>
=============================================================================
