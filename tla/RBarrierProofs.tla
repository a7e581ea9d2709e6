--------------------------- MODULE RBarrierProofs ---------------------------
(***************************************************************************)
(* The reusable barrier implements Barrier, for any number of threads and   *)
(* of waits.  At any time the barrier of a node gathers its threads at the  *)
(* first gate or releases them from it; while it gathers for wait R + 1,    *)
(* slow threads may still be leaving wait R.                                *)
(***************************************************************************)
EXTENDS RBarrier, TLAPS, FiniteSetTheorems

AtEnter == {"enter_spin", "enter_last"}
AtExit == {"exit_spin", "exit_last"}
E(n) == {t \in Local(n) : pc[t] \in AtEnter}
X(n) == {t \in Local(n) : pc[t] \in AtExit}

Gathering(t, R) ==
  \/ pc[t] \in AtEnter /\ entered[t] = R + 1 /\ left[t] = R
  \/ pc[t] = "idle" /\ entered[t] = R /\ left[t] = R
  \/ pc[t] = "exit_spin" /\ entered[t] = R /\ left[t] + 1 = R

\* The first gate is closed, the second one open.
Gather(n, R) ==
  /\ exit_ct[n] = 0 /\ enter_ct[n] = Cardinality(E(n))
  /\ \A t \in Local(n) :
       /\ Gathering(t, R)
       /\ pc[t] \in AtEnter => (is_last[t] <=> pc[t] = "enter_last")
       /\ pc[t] = "enter_last" => E(n) = Local(n)
       /\ pc[t] = "enter_last" => \A u \in Local(n) : pc[u] = "enter_last" => u = t

Releasing(t, R) ==
  /\ entered[t] = R /\ left[t] + 1 = R
  /\ pc[t] \in {"enter_spin", "mf", "exit", "exit_spin", "exit_last"}

\* The first gate is open, the second one closed.
Release(n, R) ==
  /\ enter_ct[n] = 0 /\ exit_ct[n] = Cardinality(X(n))
  /\ \A t \in Local(n) :
       /\ Releasing(t, R)
       /\ pc[t] = "mf" => ~single[n] \/ is_last[t]
       /\ pc[t] = "exit_last" => X(n) = Local(n)
       /\ pc[t] = "exit_last" => \A u \in Local(n) : pc[u] = "exit_last" => u = t
       /\ \A u \in Local(n) : is_last[t] /\ is_last[u] => u = t

Types ==
  /\ enter_ct \in [Nodes -> Nat] /\ exit_ct \in [Nodes -> Nat]
  /\ pc \in [Threads -> {"idle", "enter_last", "enter_spin", "mf",
                         "exit", "exit_last", "exit_spin"}]
  /\ is_last \in [Threads -> BOOLEAN]
  /\ entered \in [Threads -> Nat] /\ left \in [Threads -> Nat]
  /\ mf_calls \in [Nodes -> Nat]

RInv == Types /\ \A n \in Nodes : \E R \in Nat : Gather(n, R) \/ Release(n, R)

-----------------------------------------------------------------------------

\* The sets of threads of a node are finite, and a full one is the node.
LEMMA LocalFinite ==
  ASSUME NEW n, NEW S \in SUBSET Local(n)
  PROVE  /\ IsFiniteSet(Local(n)) /\ IsFiniteSet(S)
         /\ Cardinality(S) \in Nat /\ n_threads(n) \in Nat
         /\ Cardinality(S) <= n_threads(n)
         /\ Cardinality(S) = n_threads(n) => S = Local(n)
         /\ Cardinality(S) = 0 <=> S = {}
<1>1. IsFiniteSet(Local(n))
  BY Zenon, RBarrierAssumption, FS_Subset DEF Local
<1>2. IsFiniteSet(S) /\ Cardinality(S) <= Cardinality(Local(n))
      /\ (Cardinality(S) = Cardinality(Local(n)) => S = Local(n))
  BY Zenon, <1>1, FS_Subset
<1>3. Cardinality(S) \in Nat /\ Cardinality(Local(n)) \in Nat
  BY Zenon, <1>1, <1>2, FS_CardinalityType
<1>4. Cardinality(S) = 0 <=> S = {}
  BY Zenon, <1>2, FS_EmptySet
<1>. QED  BY Zenon, <1>1, <1>2, <1>3, <1>4 DEF n_threads

\* A step of a thread changes its own fields and the counters of its node.
LEMMA Frame ==
  ASSUME Types, NEW t \in Threads, Step(t)
  PROVE  /\ node_id[t] \in Nodes
         /\ \A u \in Threads : u # t => /\ pc'[u] = pc[u] /\ entered'[u] = entered[u]
                                        /\ left'[u] = left[u] /\ is_last'[u] = is_last[u]
         /\ \A m \in Nodes : m # node_id[t] => enter_ct'[m] = enter_ct[m] /\ exit_ct'[m] = exit_ct[m]
<1>1. node_id[t] \in Nodes
  BY Zenon, RBarrierAssumption
<1>. QED
  BY Zenon, <1>1 DEF Types, Step, AddEnter, ResetEnter, SpinEnter, Middle, AddExit, ResetExit, SpinExit,
     AfterEnter, Return, Goto

\* Every step keeps the types.
LEMMA TypesStep ==
  ASSUME Types, NEW t \in Threads, Step(t)
  PROVE  Types'
<1>1. node_id[t] \in Nodes /\ n_threads(node_id[t]) \in Nat
  BY Zenon, RBarrierAssumption, LocalFinite
<1>. USE <1>1 DEF Types
<1>2. CASE AddEnter(t)
  BY <1>2 DEF AddEnter, Goto
<1>3. CASE ResetEnter(t) \/ SpinEnter(t) \/ Middle(t)
  BY <1>3 DEF ResetEnter, SpinEnter, Middle, AfterEnter, Goto
<1>4. CASE AddExit(t)
  BY <1>4 DEF AddExit, Goto
<1>5. CASE ResetExit(t) \/ SpinExit(t)
  BY <1>5 DEF ResetExit, SpinExit, Return, Goto
<1>. QED  BY Zenon, <1>2, <1>3, <1>4, <1>5 DEF Step

\* The barrier of another node does not notice.
LEMMA OtherNode ==
  ASSUME Types, NEW t \in Threads, Step(t), NEW m \in Nodes, m # node_id[t], NEW R \in Nat
  PROVE  (Gather(m, R) => Gather(m, R)') /\ (Release(m, R) => Release(m, R)')
<1>1. \A u \in Local(m) : /\ pc'[u] = pc[u] /\ entered'[u] = entered[u]
                          /\ left'[u] = left[u] /\ is_last'[u] = is_last[u]
  BY Zenon, Frame DEF Local
<1>2. enter_ct'[m] = enter_ct[m] /\ exit_ct'[m] = exit_ct[m]
  BY Zenon, Frame
<1>3. E(m)' = E(m) /\ X(m)' = X(m)
  BY Zenon, <1>1 DEF E, X
<1>4. Gather(m, R) => Gather(m, R)'
  BY <1>1, <1>2, <1>3 DEF Gather, Gathering
<1>5. Release(m, R) => Release(m, R)'
  BY Zenon, <1>1, <1>2, <1>3 DEF Release, Releasing
<1>. QED  BY Zenon, <1>4, <1>5

\* A thread comes to the first gate.
LEMMA StepAddEnter ==
  ASSUME Types, NEW t \in Threads, AddEnter(t), NEW n \in Nodes, n = node_id[t],
         NEW R \in Nat, Gather(n, R) \/ Release(n, R)
  PROVE  Gather(n, R) /\ Gather(n, R)'
<1>1. /\ t \in Local(n) /\ pc[t] = "idle" /\ Gather(n, R) /\ t \notin E(n)
  BY Zenon DEF AddEnter, Local, Release, Releasing, E, AtEnter
<1>2. /\ exit_ct'[n] = 0 /\ enter_ct'[n] = enter_ct[n] + 1
      /\ entered'[t] = R + 1 /\ left'[t] = R /\ pc'[t] \in AtEnter
      /\ pc'[t] = "enter_last" <=> enter_ct[n] + 1 = n_threads(n)
      /\ is_last'[t] <=> pc'[t] = "enter_last"
  BY Zenon, <1>1 DEF AddEnter, Goto, Types, Gather, Gathering, AtEnter
<1>3. \A u \in Local(n) : u # t => /\ pc'[u] = pc[u] /\ entered'[u] = entered[u]
                                   /\ left'[u] = left[u] /\ is_last'[u] = is_last[u]
  BY Zenon, Frame DEF Step, Local
<1>4. E(n)' = E(n) \cup {t}
  BY Zenon, <1>1, <1>2, <1>3 DEF E
<1>a. E(n) \in SUBSET Local(n) /\ E(n)' \in SUBSET Local(n)
  BY Zenon, <1>1, <1>4 DEF E
<1>5. IsFiniteSet(E(n)) /\ E(n)' \in SUBSET Local(n)
  BY Zenon, <1>a, LocalFinite
<1>6. Cardinality(E(n)') = Cardinality(E(n)) + 1
  BY Zenon, <1>1, <1>4, <1>5, FS_AddElement
<1>7. enter_ct'[n] = Cardinality(E(n)') /\ enter_ct[n] = Cardinality(E(n))
  BY Zenon, <1>1, <1>2, <1>6 DEF Gather
<1>8. pc'[t] = "enter_last" => E(n)' = Local(n)
  BY <1>2, <1>5, <1>6, <1>7, LocalFinite
<1>9. \A u \in Local(n) : u # t => pc'[u] # "enter_last"
  BY Zenon, <1>1, <1>3 DEF Gather
<1>10. \A u \in Local(n) : Gathering(u, R)'
  BY <1>1, <1>2, <1>3 DEF Gather, Gathering
<1>11. \A u \in Local(n) : pc'[u] \in AtEnter => (is_last'[u] <=> pc'[u] = "enter_last")
  BY Zenon, <1>1, <1>2, <1>3 DEF Gather
<1>. QED  BY Zenon, <1>1, <1>2, <1>7, <1>8, <1>9, <1>10, <1>11 DEF Gather

\* The last thread opens the first gate: all are at it.
LEMMA StepResetEnter ==
  ASSUME Types, NEW t \in Threads, ResetEnter(t), NEW n \in Nodes, n = node_id[t],
         NEW R \in Nat, Gather(n, R) \/ Release(n, R)
  PROVE  Gather(n, R) /\ E(n) = Local(n) /\ Release(n, R + 1)'
<1>1. /\ t \in Local(n) /\ pc[t] = "enter_last" /\ Gather(n, R) /\ E(n) = Local(n)
  BY Zenon DEF ResetEnter, Local, Release, Releasing, Gather
<1>2. /\ enter_ct'[n] = 0 /\ exit_ct'[n] = 0 /\ is_last' = is_last
      /\ entered' = entered /\ left' = left
      /\ pc'[t] = IF RunsMiddle(t) THEN "mf" ELSE "exit"
  BY Zenon, <1>1 DEF ResetEnter, AfterEnter, Goto, Types, Gather
<1>3. \A u \in Local(n) : u # t => pc'[u] = "enter_spin" /\ pc[u] = "enter_spin"
  <2>1. \A u \in Local(n) : u # t => pc'[u] = pc[u]
    BY Zenon, Frame DEF Step, Local
  <2>. QED  BY Zenon, <1>1, <2>1 DEF E, AtEnter, Gather
<1>4. X(n)' = {}
  BY Zenon, <1>2, <1>3 DEF X, AtExit
<1>5. exit_ct'[n] = Cardinality(X(n)')
  BY Zenon, <1>2, <1>4, FS_EmptySet
<1>6. \A u \in Local(n) : entered[u] = R + 1 /\ left[u] + 1 = R + 1
  BY Zenon, <1>1, <1>3 DEF Gather, Gathering, AtEnter
<1>7. \A u \in Local(n) : Releasing(u, R + 1)'
  BY Zenon, <1>2, <1>3, <1>6 DEF Releasing
<1>8. is_last[t] /\ \A u \in Local(n) : u # t => ~is_last[u]
  BY Zenon, <1>1, <1>3 DEF Gather, AtEnter
<1>. QED  BY Zenon, <1>1, <1>2, <1>3, <1>5, <1>7, <1>8 DEF Release

\* A thread that waited at the first gate finds it open.
LEMMA StepSpinEnter ==
  ASSUME Types, NEW t \in Threads, SpinEnter(t) \/ Middle(t), NEW n \in Nodes, n = node_id[t],
         NEW R \in Nat, Gather(n, R) \/ Release(n, R)
  PROVE  Release(n, R) /\ Release(n, R)'
<1>1. t \in Local(n)
  BY Zenon DEF Local
<1>2. Release(n, R)
  <2>1. CASE Middle(t)
    BY Zenon, <1>1, <2>1 DEF Middle, Gather, Gathering, AtEnter
  <2>2. CASE SpinEnter(t)
    <3>1. t \in E(n) /\ enter_ct[n] = 0
      BY Zenon, <1>1, <2>2 DEF SpinEnter, Open, E, AtEnter
    <3>2. E(n) \in SUBSET Local(n)
      BY Zenon DEF E
    <3>3. enter_ct[n] # Cardinality(E(n))
      BY Zenon, <3>1, <3>2, LocalFinite
    <3>. QED  BY Zenon, <3>3 DEF Gather
  <2>. QED  BY Zenon, <2>1, <2>2
<1>3. /\ UNCHANGED <<enter_ct, exit_ct, is_last, entered, left>>
      /\ pc[t] \in {"enter_spin", "mf"} /\ pc'[t] \in {"mf", "exit"}
      /\ pc'[t] = "mf" => RunsMiddle(t)
  BY Zenon DEF SpinEnter, Open, Middle, AfterEnter, Goto, Types
<1>4. \A u \in Local(n) : u # t => pc'[u] = pc[u]
  BY Zenon, Frame DEF Step, Local
<1>5. X(n)' = X(n) /\ t \notin X(n)
  BY Zenon, <1>3, <1>4 DEF X, AtExit
<1>6. \A u \in Local(n) : Releasing(u, R)'
  BY Zenon, <1>2, <1>3, <1>4 DEF Release, Releasing
<1>7. \A u \in Local(n) : pc'[u] = "mf" => ~single[n] \/ is_last[u]
  BY Zenon, <1>2, <1>3, <1>4 DEF Release, RunsMiddle
<1>8. \A u \in Local(n) : pc'[u] = "exit_last" => pc[u] = "exit_last"
  BY Zenon, <1>3, <1>4
<1>. QED  BY Zenon, <1>2, <1>3, <1>5, <1>6, <1>7, <1>8 DEF Release

\* A thread comes to the second gate.
LEMMA StepAddExit ==
  ASSUME Types, NEW t \in Threads, AddExit(t), NEW n \in Nodes, n = node_id[t],
         NEW R \in Nat, Gather(n, R) \/ Release(n, R)
  PROVE  Release(n, R) /\ Release(n, R)'
<1>1. /\ t \in Local(n) /\ pc[t] = "exit" /\ Release(n, R) /\ t \notin X(n)
  BY Zenon DEF AddExit, Local, Gather, Gathering, X, AtEnter, AtExit
<1>2. /\ UNCHANGED <<enter_ct, is_last, entered, left>>
      /\ exit_ct'[n] = exit_ct[n] + 1 /\ pc'[t] \in AtExit
      /\ pc'[t] = "exit_last" <=> exit_ct[n] + 1 = n_threads(n)
  BY Zenon, <1>1 DEF AddExit, Goto, Types, AtExit
<1>3. \A u \in Local(n) : u # t => pc'[u] = pc[u]
  BY Zenon, Frame DEF Step, Local
<1>4. X(n)' = X(n) \cup {t}
  BY Zenon, <1>1, <1>2, <1>3 DEF X
<1>5. X(n) \in SUBSET Local(n) /\ X(n)' \in SUBSET Local(n)
  BY Zenon, <1>1, <1>4 DEF X
<1>a. IsFiniteSet(X(n))
  BY Zenon, <1>5, LocalFinite
<1>6. Cardinality(X(n)') = Cardinality(X(n)) + 1
  BY Zenon, <1>1, <1>4, <1>a, FS_AddElement
<1>7. exit_ct'[n] = Cardinality(X(n)') /\ exit_ct[n] = Cardinality(X(n))
  BY Zenon, <1>1, <1>2, <1>6 DEF Release
<1>8. pc'[t] = "exit_last" => X(n)' = Local(n)
  BY <1>2, <1>5, <1>6, <1>7, LocalFinite
<1>9. \A u \in Local(n) : u # t => pc'[u] # "exit_last"
  BY Zenon, <1>1, <1>3 DEF Release
<1>10. \A u \in Local(n) : Releasing(u, R)'
  BY Zenon, <1>1, <1>2, <1>3 DEF Release, Releasing, AtExit
<1>11. \A u \in Local(n) : pc'[u] = "mf" => ~single[n] \/ is_last[u]
  BY Zenon, <1>1, <1>2, <1>3 DEF Release, AtExit
<1>. QED  BY Zenon, <1>1, <1>2, <1>7, <1>8, <1>9, <1>10, <1>11 DEF Release

\* The last thread opens the second gate, which closes the first one again.
LEMMA StepResetExit ==
  ASSUME Types, NEW t \in Threads, ResetExit(t), NEW n \in Nodes, n = node_id[t],
         NEW R \in Nat, Gather(n, R) \/ Release(n, R)
  PROVE  Release(n, R) /\ X(n) = Local(n) /\ Gather(n, R)'
<1>1. /\ t \in Local(n) /\ pc[t] = "exit_last" /\ Release(n, R) /\ X(n) = Local(n)
  BY Zenon DEF ResetExit, Local, Gather, Gathering, AtEnter, Release
<1>2. /\ UNCHANGED <<enter_ct, is_last, entered>> /\ enter_ct'[n] = 0
      /\ exit_ct'[n] = 0 /\ pc'[t] = "idle" /\ left'[t] = entered[t]
  BY Zenon, <1>1 DEF ResetExit, Return, Goto, Types, Release
<1>3. \A u \in Local(n) : u # t => pc'[u] = "exit_spin" /\ left'[u] = left[u]
  <2>1. \A u \in Local(n) : u # t => pc'[u] = pc[u] /\ left'[u] = left[u]
    BY Zenon, Frame DEF Step, Local
  <2>. QED  BY Zenon, <1>1, <2>1 DEF X, AtExit, Release
<1>4. E(n)' = {}
  BY Zenon, <1>2, <1>3 DEF E, AtEnter
<1>5. enter_ct'[n] = Cardinality(E(n)')
  BY Zenon, <1>2, <1>4, FS_EmptySet
<1>6. \A u \in Local(n) : Gathering(u, R)'
  BY Zenon, <1>1, <1>2, <1>3 DEF Release, Releasing, Gathering
<1>7. \A u \in Local(n) : pc'[u] \notin AtEnter
  BY Zenon, <1>2, <1>3 DEF AtEnter
<1>. QED  BY Zenon, <1>1, <1>2, <1>5, <1>6, <1>7 DEF Gather, AtEnter

\* A thread that waited at the second gate finds it open.
LEMMA StepSpinExit ==
  ASSUME Types, NEW t \in Threads, SpinExit(t), NEW n \in Nodes, n = node_id[t],
         NEW R \in Nat, Gather(n, R) \/ Release(n, R)
  PROVE  Gather(n, R) /\ Gather(n, R)'
<1>1. t \in Local(n) /\ pc[t] = "exit_spin" /\ exit_ct[n] = 0
  BY Zenon DEF Local, SpinExit, Open
<1>2. Gather(n, R)
  <2>1. t \in X(n) /\ X(n) \in SUBSET Local(n)
    BY Zenon, <1>1 DEF X, AtExit
  <2>2. exit_ct[n] # Cardinality(X(n))
    BY Zenon, <1>1, <2>1, LocalFinite
  <2>. QED  BY Zenon, <2>2 DEF Release
<1>3. /\ UNCHANGED <<enter_ct, exit_ct, is_last, entered>>
      /\ pc'[t] = "idle" /\ left'[t] = entered[t]
  BY Zenon DEF SpinExit, Open, Return, Goto, Types
<1>4. \A u \in Local(n) : u # t => pc'[u] = pc[u] /\ left'[u] = left[u]
  BY Zenon, Frame DEF Step, Local
<1>5. E(n)' = E(n)
  BY Zenon, <1>1, <1>3, <1>4 DEF E, AtEnter
<1>6. entered[t] = R
  BY Zenon, <1>1, <1>2 DEF Gather, Gathering, AtEnter
<1>7. \A u \in Local(n) : Gathering(u, R)'
  BY <1>2, <1>3, <1>4, <1>6 DEF Gather, Gathering
<1>8. \A u \in Local(n) : pc'[u] \in AtEnter => pc'[u] = pc[u]
  BY Zenon, <1>3, <1>4 DEF AtEnter
<1>9. \A u \in Local(n) : pc'[u] = "enter_last" => pc[u] = "enter_last"
  BY Zenon, <1>3, <1>4
<1>. QED  BY Zenon, <1>2, <1>3, <1>5, <1>7, <1>8, <1>9 DEF Gather

\* Every step leaves each barrier gathering or releasing.
LEMMA RInvStep == RInv /\ [Next]_vars => RInv'
<1>. SUFFICES ASSUME RInv, [Next]_vars PROVE RInv'
  BY Zenon
<1>1. ASSUME NEW t \in Threads, Step(t) PROVE RInv'
  <2>1. Types /\ Types'
    BY Zenon, <1>1, TypesStep DEF RInv
  <2>2. ASSUME NEW n \in Nodes PROVE \E R \in Nat : Gather(n, R)' \/ Release(n, R)'
    <3>1. PICK R \in Nat : Gather(n, R) \/ Release(n, R)
      BY Zenon DEF RInv
    <3>2. CASE n # node_id[t]
      BY Zenon, <1>1, <2>1, <3>1, <3>2, OtherNode
    <3>3. CASE n = node_id[t]
      <4>1. R + 1 \in Nat
        OBVIOUS
      <4>2. \/ Gather(n, R)' \/ Release(n, R)' \/ Release(n, R + 1)'
        BY Zenon, <1>1, <2>1, <3>1, <3>3, StepAddEnter, StepResetEnter, StepSpinEnter,
           StepAddExit, StepResetExit, StepSpinExit DEF Step
      <4>. QED  BY Zenon, <4>1, <4>2
    <3>. QED  BY Zenon, <3>2, <3>3
  <2>. QED  BY Zenon, <2>1, <2>2 DEF RInv
<1>2. CASE UNCHANGED vars
  <2>1. UNCHANGED <<enter_ct, exit_ct, pc, is_last, entered, left, mf_calls>>
    BY Zenon, <1>2 DEF vars
  <2>2. \A n : E(n)' = E(n) /\ X(n)' = X(n)
    BY Zenon, <2>1 DEF E, X
  <2>3. \A n \in Nodes, R \in Nat : Gather(n, R) => Gather(n, R)'
    BY <2>1, <2>2 DEF Gather, Gathering
  <2>4. \A n \in Nodes, R \in Nat : Release(n, R) => Release(n, R)'
    BY <2>1, <2>2 DEF Release, Releasing
  <2>5. Types'
    BY Zenon, <2>1 DEF RInv, Types
  <2>. QED  BY Zenon, <2>3, <2>4, <2>5 DEF RInv
<1>. QED  BY Zenon, <1>1, <1>2 DEF Next, Terminated

\* Every barrier starts by gathering for the first wait.
LEMMA InitRInv == Init => RInv
<1>. SUFFICES ASSUME Init PROVE RInv
  BY Zenon
<1>1. Types
  BY Zenon DEF Init, Types
<1>2. ASSUME NEW n \in Nodes PROVE Gather(n, 0)
  <2>1. \A t \in Local(n) : pc[t] = "idle" /\ entered[t] = 0 /\ left[t] = 0
    BY Zenon DEF Init, Local
  <2>2. E(n) = {}
    BY Zenon, <2>1 DEF E, AtEnter
  <2>3. enter_ct[n] = Cardinality(E(n)) /\ exit_ct[n] = 0
    BY Zenon, <2>2, FS_EmptySet DEF Init
  <2>. QED  BY Zenon, <2>1, <2>3 DEF Gather, Gathering, AtEnter
<1>. QED  BY Zenon, <1>1, <1>2 DEF RInv

\* A barrier always gathers its threads or releases them.
THEOREM RInvariance == Spec => []RInv
<1>. QED  BY InitRInv, RInvStep, PTL DEF Spec

\* The counters stay within the number of threads.
THEOREM TypeCorrect == Spec => []TypeOK
<1>1. RInv => TypeOK
  <2>. SUFFICES ASSUME RInv PROVE TypeOK
    BY Zenon
  <2>1. ASSUME NEW n \in Nodes PROVE enter_ct[n] <= n_threads(n) /\ exit_ct[n] <= n_threads(n)
    <3>1. PICK R \in Nat : Gather(n, R) \/ Release(n, R)
      BY Zenon DEF RInv
    <3>2. E(n) \in SUBSET Local(n) /\ X(n) \in SUBSET Local(n)
      BY Zenon DEF E, X
    <3>3. /\ Cardinality(E(n)) <= n_threads(n) /\ Cardinality(X(n)) <= n_threads(n)
          /\ n_threads(n) \in Nat
      BY Zenon, <3>2, LocalFinite
    <3>. QED  BY <3>1, <3>3 DEF Gather, Release
  <2>. QED  BY Zenon, <2>1 DEF TypeOK, RInv, Types
<1>. QED  BY <1>1, RInvariance, PTL

\* While the middle function runs, every thread of the node is inside this
\* wait, and with single set nobody else runs it.
THEOREM MiddleIsAlone == Spec => []MiddleAlone
<1>1. RInv => MiddleAlone
  <2>. SUFFICES ASSUME RInv, NEW t \in Threads, pc[t] = "mf", NEW u \in Local(node_id[t])
                PROVE  /\ entered[u] = entered[t] /\ left[u] < entered[t]
                       /\ single[node_id[t]] /\ u # t => pc[u] # "mf"
    BY Zenon DEF MiddleAlone
  <2>1. PICK n \in Nodes : n = node_id[t]
    BY Zenon, RBarrierAssumption
  <2>2. PICK R \in Nat : Gather(n, R) \/ Release(n, R)
    BY Zenon DEF RInv
  <2>3. t \in Local(n) /\ u \in Local(n)
    BY Zenon, <2>1 DEF Local
  <2>4. Release(n, R)
    BY Zenon, <2>2, <2>3 DEF Gather, Gathering, AtEnter
  <2>5. left[u] \in Nat
    BY Zenon, <2>3 DEF RInv, Types, Local
  <2>. QED  BY <2>1, <2>3, <2>4, <2>5 DEF Release, Releasing
<1>. QED  BY <1>1, RInvariance, PTL

\* reusable_barrier_t implements Barrier: it can be reused at once.
THEOREM Refinement == Spec => BarrierSpec
<1>1. Init => B!Init
  BY Zenon DEF Init, B!Init
<1>2. RInv /\ [Next]_vars => [B!Next]_<<entered, left>>
  <2>. SUFFICES ASSUME RInv, [Next]_vars PROVE [B!Next]_<<entered, left>>
    BY Zenon
  <2>1. CASE UNCHANGED <<entered, left>>
    BY Zenon, <2>1
  <2>2. ASSUME NEW t \in Threads, AddEnter(t) PROVE B!Enter(t)
    <3>1. PICK n \in Nodes : n = node_id[t]
      BY Zenon, RBarrierAssumption
    <3>2. PICK R \in Nat : Gather(n, R) \/ Release(n, R)
      BY Zenon DEF RInv
    <3>3. pc[t] = "idle" /\ t \in Local(n)
      BY Zenon, <2>2, <3>1 DEF AddEnter, Local
    <3>4. entered[t] = left[t]
      BY Zenon, <3>2, <3>3 DEF Gather, Gathering, Release, Releasing, AtEnter
    <3>. QED  BY Zenon, <2>2, <3>4 DEF AddEnter, B!Enter
  <2>3. ASSUME NEW t \in Threads, ResetExit(t) \/ SpinExit(t) PROVE B!Leave(t)
    <3>1. PICK n \in Nodes : n = node_id[t]
      BY Zenon, RBarrierAssumption
    <3>2. PICK R \in Nat : Gather(n, R) \/ Release(n, R)
      BY Zenon DEF RInv
    <3>3. pc[t] \in AtExit /\ t \in Local(n)
      BY Zenon, <2>3, <3>1 DEF ResetExit, SpinExit, Open, Local, AtExit
    <3>4. \A u \in Local(n) : entered[u] = R \/ entered[u] = R + 1
      BY Zenon, <3>2 DEF Gather, Gathering, Release, Releasing
    <3>5. entered[t] = R /\ left[t] + 1 = R /\ left[t] \in Nat
      BY Zenon, <3>2, <3>3 DEF Gather, Gathering, Release, Releasing, AtEnter, AtExit, RInv, Types
    <3>6. \A u \in Local(node_id[t]) : entered[u] >= entered[t]
      BY <3>1, <3>4, <3>5
    <3>. QED  BY <2>3, <3>5, <3>6 DEF ResetExit, SpinExit, Return, B!Leave
  <2>4. \/ UNCHANGED <<entered, left>>
        \/ \E t \in Threads : AddEnter(t) \/ ResetExit(t) \/ SpinExit(t)
    BY Zenon DEF Next, Step, Terminated, vars, ResetEnter, SpinEnter, Middle, AddExit
  <2>. QED  BY Zenon, <2>1, <2>2, <2>3, <2>4 DEF B!Next
<1>. QED  BY <1>1, <1>2, RInvariance, PTL DEF Spec, BarrierSpec, B!Spec

-----------------------------------------------------------------------------
(* How often the middle function runs.                                      *)

Outside == AtExit \cup {"exit"}

\* The threads of a node that run mf in this wait, those that have done it, and how
\* many there are to do it.
Runners(n) == {t \in Local(n) : RunsMiddle(t)}
Ran(n) == {t \in Runners(n) : pc[t] \in Outside}
PerWait(n) == IF single[n] THEN 1 ELSE n_threads(n)

\* mf has run for all waits but, while the threads are released, for those that are
\* still to run it.
Counted(n, R) ==
  \/ Gather(n, R) /\ mf_calls[n] = PerWait(n) * R
  \/ /\ Release(n, R) /\ Cardinality(Runners(n)) = PerWait(n)
     /\ mf_calls[n] + PerWait(n) = PerWait(n) * R + Cardinality(Ran(n))

CountInv == \A n \in Nodes : \E R \in Nat : Counted(n, R)

\* These sets are finite.
LEMMA RunnersFinite ==
  ASSUME NEW n \in Nodes
  PROVE  /\ PerWait(n) \in Nat /\ IsFiniteSet(Ran(n)) /\ Cardinality(Ran(n)) \in Nat
         /\ Cardinality(Ran(n)) <= Cardinality(Runners(n)) /\ Cardinality(Runners(n)) \in Nat
<1>1. Runners(n) \in SUBSET Local(n) /\ Ran(n) \in SUBSET Runners(n) /\ Ran(n) \in SUBSET Local(n)
  BY Zenon DEF Runners, Ran
<1>2. /\ n_threads(n) \in Nat /\ IsFiniteSet(Runners(n)) /\ Cardinality(Runners(n)) \in Nat
      /\ IsFiniteSet(Ran(n)) /\ Cardinality(Ran(n)) \in Nat
  BY Zenon, <1>1, LocalFinite
<1>3. Cardinality(Ran(n)) <= Cardinality(Runners(n))
  BY Zenon, <1>1, <1>2, FS_Subset
<1>4. PerWait(n) \in Nat
  BY Zenon, <1>2 DEF PerWait
<1>. QED  BY Zenon, <1>2, <1>3, <1>4

\* A step of a thread keeps the count of its node.
LEMMA CountStep ==
  ASSUME Types, NEW t \in Threads, Step(t), NEW n \in Nodes, n = node_id[t],
         NEW R \in Nat, Counted(n, R)
  PROVE  \E S \in Nat : Counted(n, S)'
<1>g. Gather(n, R) \/ Release(n, R)
  BY Zenon DEF Counted
<1>t. t \in Local(n) /\ t \in Threads
  BY Zenon DEF Local
<1>u. \A u \in Local(n) : u # t => pc'[u] = pc[u] /\ is_last'[u] = is_last[u]
  BY Zenon, Frame DEF Local
<1>p. PICK k : k = PerWait(n)
  BY Zenon
<1>k. k \in Nat /\ PerWait(n)' = k
  BY Zenon, <1>p, RunnersFinite DEF PerWait
\* In which state it is follows from where the thread is.
<1>x. ~(Gather(n, R) /\ Release(n, R))
  <2>1. Gathering(t, R) /\ Releasing(t, R) => pc[t] \in {"exit_spin"} \cup AtEnter
    BY Zenon DEF Gathering, Releasing
  <2>. SUFFICES ASSUME Gather(n, R), Release(n, R) PROVE FALSE
    BY Zenon
  <2>2. entered[t] = R /\ left[t] + 1 = R /\ left[t] \in Nat /\ entered[t] \in Nat
    BY Zenon, <1>t DEF Release, Releasing, Types
  <2>3. pc[t] = "exit_spin"
    BY <1>t, <2>2 DEF Gather, Gathering, Release, Releasing
  <2>4. t \in X(n) /\ Cardinality(X(n)) = 0
    BY Zenon, <1>t, <2>3 DEF X, AtExit, Gather, Release
  <2>5. X(n) \in SUBSET Local(n)
    BY Zenon DEF X
  <2>. QED  BY Zenon, <2>4, <2>5, LocalFinite
<1>G. Gather(n, R) => mf_calls[n] = k * R
  BY Zenon, <1>p, <1>x DEF Counted
<1>R. Release(n, R) => Cardinality(Runners(n)) = k /\ mf_calls[n] + k = k * R + Cardinality(Ran(n))
  BY Zenon, <1>p, <1>x DEF Counted
<1>1. CASE AddEnter(t) \/ SpinExit(t)
  <2>1. Gather(n, R) /\ Gather(n, R)' /\ mf_calls' = mf_calls
    BY Zenon, <1>1, <1>g, StepAddEnter, StepSpinExit DEF AddEnter, SpinExit
  <2>2. mf_calls'[n] = k * R
    BY Zenon, <1>G, <2>1
  <2>. QED  BY Zenon, <1>k, <2>1, <2>2 DEF Counted
<1>2. CASE ResetExit(t)
  <2>1. Release(n, R) /\ X(n) = Local(n) /\ Gather(n, R)' /\ mf_calls' = mf_calls
    BY Zenon, <1>2, <1>g, StepResetExit DEF ResetExit
  <2>2. Ran(n) = Runners(n)
    BY Zenon, <2>1 DEF Ran, Runners, X, Outside
  <2>3. mf_calls[n] \in Nat /\ k * R \in Nat
    BY <1>k DEF Types
  <2>4. mf_calls[n] + k = k * R + k
    BY Zenon, <1>R, <2>1, <2>2
  <2>5. mf_calls'[n] = k * R
    BY <1>k, <2>1, <2>3, <2>4
  <2>. QED  BY Zenon, <1>k, <2>1, <2>5 DEF Counted
<1>3. CASE ResetEnter(t)
  <2>1. Gather(n, R) /\ E(n) = Local(n) /\ Release(n, R + 1)' /\ mf_calls' = mf_calls
        /\ is_last' = is_last /\ pc[t] = "enter_last"
    BY Zenon, <1>3, <1>g, StepResetEnter DEF ResetEnter
  <2>2. \A u \in Local(n) : u # t => pc[u] \in AtEnter /\ pc[u] # "enter_last"
    BY Zenon, <1>t, <2>1 DEF E, Gather
  <2>3. is_last[t] /\ \A u \in Local(n) : u # t => ~is_last[u]
    BY Zenon, <1>t, <2>1, <2>2 DEF Gather, AtEnter
  <2>4. pc'[t] = IF RunsMiddle(t) THEN "mf" ELSE "exit"
    BY Zenon, <1>3 DEF ResetEnter, AfterEnter, Goto, Types
  <2>5. RunsMiddle(t) /\ pc'[t] = "mf"
    BY Zenon, <2>3, <2>4 DEF RunsMiddle
  <2>6. Runners(n)' = Runners(n)
    BY Zenon, <2>1 DEF Runners, RunsMiddle
  <2>7. Ran(n)' = {}
    BY Zenon, <1>u, <2>2, <2>5 DEF Ran, Runners, Outside, AtExit, AtEnter
  <2>8. Cardinality(Runners(n)) = k
    <3>1. CASE single[n]
      <4>1. Runners(n) = {t}
        BY Zenon, <1>t, <2>3, <3>1 DEF Runners, RunsMiddle, Local
      <4>. QED  BY Zenon, <1>p, <3>1, <4>1, FS_Singleton DEF PerWait
    <3>2. CASE ~single[n]
      <4>1. Runners(n) = Local(n)
        BY Zenon, <3>2 DEF Runners, RunsMiddle, Local
      <4>. QED  BY Zenon, <1>p, <3>2, <4>1 DEF PerWait, n_threads
    <3>. QED  BY Zenon, <3>1, <3>2
  <2>9. R + 1 \in Nat /\ Cardinality(Ran(n)') = 0 /\ k * R + k = k * (R + 1) + 0
    BY <1>k, <2>7, FS_EmptySet
  <2>10. mf_calls'[n] + k = k * (R + 1) + Cardinality(Ran(n)')
    BY Zenon, <1>G, <2>1, <2>9
  <2>11. Counted(n, R + 1)'
    BY Zenon, <1>k, <2>1, <2>6, <2>8, <2>10 DEF Counted
  <2>. QED  BY Zenon, <2>9, <2>11
<1>4. CASE SpinEnter(t) \/ AddExit(t)
  <2>1. Release(n, R) /\ Release(n, R)' /\ mf_calls' = mf_calls /\ is_last' = is_last
    BY Zenon, <1>4, <1>g, StepSpinEnter, StepAddExit DEF SpinEnter, AddExit
  <2>2. Runners(n)' = Runners(n)
    BY Zenon, <2>1 DEF Runners, RunsMiddle
  <2>3. t \in Ran(n)' <=> t \in Ran(n)
    <3>1. CASE SpinEnter(t)
      <4>1. pc[t] = "enter_spin" /\ pc'[t] = IF RunsMiddle(t) THEN "mf" ELSE "exit"
        BY Zenon, <3>1 DEF SpinEnter, AfterEnter, Goto, Types
      <4>. QED  BY Zenon, <2>2, <4>1 DEF Ran, Runners, Outside, AtExit
    <3>2. CASE AddExit(t)
      <4>1. pc[t] = "exit" /\ pc'[t] \in AtExit
        BY Zenon, <3>2 DEF AddExit, Goto, Types, AtExit
      <4>. QED  BY Zenon, <2>2, <4>1 DEF Ran, Outside
    <3>. QED  BY Zenon, <1>4, <3>1, <3>2
  <2>4. Ran(n)' = Ran(n)
    <3>1. \A u \in Local(n) : u # t => (u \in Ran(n)' <=> u \in Ran(n))
      BY Zenon, <1>u, <2>2 DEF Ran
    <3>2. \A u : u \in Ran(n) \/ u \in Ran(n)' => u \in Local(n)
      BY Zenon DEF Ran, Runners
    <3>. QED  BY <2>3, <3>1, <3>2
  <2>5. mf_calls'[n] + k = k * R + Cardinality(Ran(n)') /\ Cardinality(Runners(n)') = k
    BY Zenon, <1>R, <2>1, <2>2, <2>4
  <2>. QED  BY Zenon, <1>k, <2>1, <2>5 DEF Counted
<1>5. CASE Middle(t)
  <2>1. Release(n, R) /\ Release(n, R)' /\ is_last' = is_last
    BY Zenon, <1>5, <1>g, StepSpinEnter DEF Middle
  <2>2. pc[t] = "mf" /\ pc'[t] = "exit" /\ mf_calls'[n] = mf_calls[n] + 1
    BY Zenon, <1>5 DEF Middle, Goto, Types
  <2>3. Runners(n)' = Runners(n) /\ t \in Runners(n)
    <3>1. ~single[n] \/ is_last[t]
      BY Zenon, <1>t, <2>1, <2>2 DEF Release
    <3>. QED  BY Zenon, <1>t, <2>1, <3>1 DEF Runners, RunsMiddle
  <2>4. t \notin Ran(n) /\ t \in Ran(n)'
    BY Zenon, <2>2, <2>3 DEF Ran, Outside, AtExit
  <2>5. Ran(n)' = Ran(n) \cup {t}
    <3>1. \A u \in Local(n) : u # t => (u \in Ran(n)' <=> u \in Ran(n))
      BY Zenon, <1>u, <2>3 DEF Ran
    <3>2. \A u : u \in Ran(n) \/ u \in Ran(n)' => u \in Local(n)
      BY Zenon DEF Ran, Runners
    <3>. QED  BY Zenon, <2>4, <3>1, <3>2
  <2>6. IsFiniteSet(Ran(n)) /\ Cardinality(Ran(n)) \in Nat
    BY Zenon, RunnersFinite
  <2>7. Cardinality(Ran(n)') = Cardinality(Ran(n)) + 1
    BY Zenon, <2>4, <2>5, <2>6, FS_AddElement
  <2>8. mf_calls[n] \in Nat /\ k * R \in Nat
    BY <1>k DEF Types
  <2>9. mf_calls[n] + k = k * R + Cardinality(Ran(n)) /\ Cardinality(Runners(n)) = k
    BY Zenon, <1>R, <2>1
  <2>10. mf_calls'[n] + k = k * R + Cardinality(Ran(n)')
    BY <1>k, <2>2, <2>6, <2>7, <2>8, <2>9
  <2>. QED  BY Zenon, <1>k, <2>1, <2>3, <2>9, <2>10 DEF Counted
<1>. QED  BY Zenon, <1>1, <1>2, <1>3, <1>4, <1>5 DEF Step

\* Every step keeps the counts of all nodes.
LEMMA CountInvStep == RInv /\ CountInv /\ [Next]_vars => CountInv'
<1>. SUFFICES ASSUME RInv, CountInv, [Next]_vars, NEW n \in Nodes PROVE \E S \in Nat : Counted(n, S)'
  BY Zenon DEF CountInv
<1>1. PICK R \in Nat : Counted(n, R)
  BY Zenon DEF CountInv
<1>0. Types
  BY Zenon DEF RInv
<1>s. ASSUME UNCHANGED <<mf_calls[n], Runners(n), Ran(n)>>, Gather(n, R) => Gather(n, R)',
             Release(n, R) => Release(n, R)'
      PROVE  Counted(n, R)'
  BY Zenon, <1>1, <1>s DEF Counted, PerWait
<1>2. ASSUME NEW t \in Threads, Step(t), n # node_id[t] PROVE Counted(n, R)'
  <2>1. \A u \in Local(n) : pc'[u] = pc[u] /\ is_last'[u] = is_last[u]
    <3>1. \A u \in Local(n) : u \in Threads /\ u # t
      BY Zenon, <1>2 DEF Local
    <3>. QED  BY Zenon, <1>0, <1>2, <3>1, Frame
  <2>2. Runners(n)' = Runners(n) /\ Ran(n)' = Ran(n)
    BY Zenon, <2>1 DEF Runners, Ran, RunsMiddle
  <2>3. mf_calls'[n] = mf_calls[n]
    BY Zenon, <1>0, <1>2 DEF Types, Step, AddEnter, ResetEnter, SpinEnter, Middle, AddExit, ResetExit, SpinExit
  <2>. QED  BY Zenon, <1>0, <1>2, <1>s, <2>2, <2>3, OtherNode
<1>3. CASE UNCHANGED vars
  <2>1. UNCHANGED <<enter_ct, exit_ct, pc, is_last, entered, left, mf_calls>>
    BY Zenon, <1>3 DEF vars
  <2>2. E(n)' = E(n) /\ X(n)' = X(n) /\ Runners(n)' = Runners(n) /\ Ran(n)' = Ran(n)
    BY Zenon, <2>1 DEF E, X, Runners, Ran, RunsMiddle
  <2>3. Gather(n, R) => Gather(n, R)'
    BY Zenon, <2>1, <2>2 DEF Gather, Gathering
  <2>4. Release(n, R) => Release(n, R)'
    BY Zenon, <2>1, <2>2 DEF Release, Releasing
  <2>. QED  BY Zenon, <1>s, <2>1, <2>2, <2>3, <2>4
<1>. QED  BY Zenon, <1>0, <1>1, <1>2, <1>3, CountStep DEF Next, Terminated

\* mf has not run before the first wait.
LEMMA InitCount == Init => CountInv
<1>. SUFFICES ASSUME Init, NEW n \in Nodes PROVE Counted(n, 0)
  BY Zenon DEF CountInv
<1>1. Gather(n, 0)
  <2>1. \A t \in Local(n) : pc[t] = "idle" /\ entered[t] = 0 /\ left[t] = 0
    BY Zenon DEF Init, Local
  <2>2. E(n) = {}
    BY Zenon, <2>1 DEF E, AtEnter
  <2>3. enter_ct[n] = Cardinality(E(n)) /\ exit_ct[n] = 0
    BY Zenon, <2>2, FS_EmptySet DEF Init
  <2>. QED  BY Zenon, <2>1, <2>3 DEF Gather, Gathering, AtEnter
<1>2. mf_calls[n] = 0 /\ PerWait(n) * 0 = 0
  BY RunnersFinite DEF Init
<1>. QED  BY Zenon, <1>1, <1>2 DEF Counted

\* The middle function runs once per wait, or once per thread and wait: it has run for
\* every wait that somebody has returned from and for none that somebody has yet to enter.
THEOREM MiddleOncePerWait == Spec => []MiddlePerWait
<1>1. RInv /\ CountInv => MiddlePerWait
  <2>. SUFFICES ASSUME RInv, CountInv, NEW t \in Threads, NEW n \in Nodes, n = node_id[t]
                PROVE  PerWait(n) * left[t] <= mf_calls[n] /\ mf_calls[n] <= PerWait(n) * entered[t]
    BY Zenon, RBarrierAssumption DEF MiddlePerWait, PerWait
  <2>1. PICK R \in Nat : Counted(n, R)
    BY Zenon DEF CountInv
  <2>2. PICK k \in Nat : k = PerWait(n)
    BY Zenon, RunnersFinite
  <2>3. PICK l \in Nat, e \in Nat, f \in Nat : l = left[t] /\ e = entered[t] /\ f = mf_calls[n]
    BY Zenon DEF RInv, Types
  <2>4. t \in Local(n)
    BY Zenon DEF Local
  <2>5. \A a, b \in Nat : a <= b => k * a <= k * b
    OBVIOUS
  <2>6. CASE Gather(n, R) /\ mf_calls[n] = PerWait(n) * R
    <3>1. l <= R /\ R <= e
      BY <2>3, <2>4, <2>6 DEF Gather, Gathering
    <3>2. k * l <= k * R /\ k * R <= k * e
      BY Zenon, <2>5, <3>1
    <3>. QED  BY Zenon, <2>2, <2>3, <2>6, <3>2
  <2>7. CASE /\ Release(n, R) /\ Cardinality(Runners(n)) = PerWait(n)
             /\ mf_calls[n] + PerWait(n) = PerWait(n) * R + Cardinality(Ran(n))
    <3>1. e = R /\ l + 1 = R
      BY Zenon, <2>3, <2>4, <2>7 DEF Release, Releasing
    <3>2. PICK c \in Nat : c = Cardinality(Ran(n)) /\ c <= k
      BY Zenon, <2>2, <2>7, RunnersFinite
    <3>3. f + k = k * R + c
      BY Zenon, <2>2, <2>3, <2>7, <3>2
    <3>4. k * R = k * l + k /\ k * l \in Nat
      BY <3>1
    <3>5. k * l <= f /\ f <= k * R
      BY <3>2, <3>3, <3>4
    <3>. QED  BY Zenon, <2>2, <2>3, <3>1, <3>5
  <2>. QED  BY Zenon, <2>1, <2>6, <2>7 DEF Counted
<1>. QED  BY <1>1, InitCount, CountInvStep, RInvariance, PTL DEF Spec

\* What a user of the barrier relies on: where a thread is says whether it is inside a
\* wait, and a middle function of a single barrier that is still to run is not counted.
WaitFacts ==
  \A t \in Threads :
    /\ entered[t] = IF pc[t] = "idle" THEN left[t] ELSE left[t] + 1
    /\ pc[t] = "mf" /\ single[node_id[t]] => mf_calls[node_id[t]] + 1 = entered[t]

\* Every wait of reusable_barrier_t keeps these facts.
THEOREM WaitsCounted == Spec => []WaitFacts
<1>1. RInv /\ CountInv => WaitFacts
  <2>. SUFFICES ASSUME RInv, CountInv, NEW t \in Threads, NEW n \in Nodes, n = node_id[t]
                PROVE  /\ entered[t] = IF pc[t] = "idle" THEN left[t] ELSE left[t] + 1
                       /\ pc[t] = "mf" /\ single[n] => mf_calls[n] + 1 = entered[t]
    BY Zenon, RBarrierAssumption DEF WaitFacts
  <2>1. PICK R \in Nat : Counted(n, R)
    BY Zenon DEF CountInv
  <2>2. t \in Local(n) /\ left[t] \in Nat /\ entered[t] \in Nat /\ mf_calls[n] \in Nat
    BY Zenon DEF Local, RInv, Types
  <2>3. entered[t] = IF pc[t] = "idle" THEN left[t] ELSE left[t] + 1
    <3>1. Gathering(t, R) \/ Releasing(t, R)
      BY Zenon, <2>1, <2>2 DEF Counted, Gather, Release
    <3>. QED  BY Zenon, <2>2, <3>1 DEF Gathering, Releasing, AtEnter
  <2>4. ASSUME pc[t] = "mf", single[n] PROVE mf_calls[n] + 1 = entered[t]
    <3>1. ~Gather(n, R)
      BY Zenon, <2>2, <2>4 DEF Gather, Gathering, AtEnter
    <3>2. /\ Release(n, R) /\ Cardinality(Runners(n)) = PerWait(n)
          /\ mf_calls[n] + PerWait(n) = PerWait(n) * R + Cardinality(Ran(n))
      BY Zenon, <2>1, <3>1 DEF Counted
    <3>3. PerWait(n) = 1
      BY Zenon, <2>4 DEF PerWait
    <3>4. is_last[t] /\ entered[t] = R
      BY Zenon, <2>2, <2>4, <3>2 DEF Release, Releasing
    <3>5. t \in Runners(n) /\ t \notin Ran(n) /\ Ran(n) \in SUBSET Runners(n)
      BY Zenon, <2>2, <2>4, <3>4 DEF Runners, Ran, RunsMiddle, Outside, AtExit
    <3>6. IsFiniteSet(Runners(n)) /\ Runners(n) \in SUBSET Local(n)
      BY Zenon, LocalFinite DEF Runners
    <3>7. Cardinality(Ran(n)) <= Cardinality(Runners(n)) /\ Cardinality(Ran(n)) # Cardinality(Runners(n))
      BY Zenon, <3>5, <3>6, FS_Subset
    <3>8. Cardinality(Ran(n)) \in Nat
      BY Zenon, RunnersFinite
    <3>9. PICK c \in Nat : c = Cardinality(Ran(n)) /\ c <= 1 /\ c # 1 /\ mf_calls[n] + 1 = 1 * R + c
      BY Zenon, <3>2, <3>3, <3>7, <3>8
    <3>. QED  BY <2>2, <3>4, <3>9
  <2>. QED  BY Zenon, <2>3, <2>4
<1>. QED  BY <1>1, InitCount, CountInvStep, RInvariance, PTL DEF Spec
=============================================================================
