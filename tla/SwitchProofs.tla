---------------------------- MODULE SwitchProofs ----------------------------
(***************************************************************************)
(* The theorems of the switch, for any number of packets, locks, cells,     *)
(* tenants, nodes and blocks.                                               *)
(*                                                                         *)
(* SwitchLocks: the lock bits are sound and, at the cells whose locks the    *)
(* second passes hold, the passes serializable.  A packet between its two   *)
(* passes holds those locks, so no later packet has been at those cells.    *)
(*                                                                         *)
(* ControlPlane: no two tenants use a block at once, nodes and control      *)
(* plane agree on what the next bytes of a stream are, and the asserts of   *)
(* handle_alloc and handle_free hold.                                       *)
(***************************************************************************)
EXTENDS SwitchLocks, ControlPlane, TLAPS

-----------------------------------------------------------------------------
(* Two passes and locks.                                                    *)

Between(p) == st[p] = "flying" /\ is_second_pass[p]

SecondInv ==
  \A p \in Pkts : Between(p) =>
    /\ locks_undo[p] = locks_acquire[p] /\ locks_acquire[p] # {} /\ ticket[p] <= tickets
    /\ \A c \in pass2[p] : Protected(c) => last[c] <= ticket[p]

SInv ==
  /\ LocksTypeOK /\ UndoHeld /\ NoLeak /\ SecondInv
  /\ \A c \in Cells : last[c] <= tickets

\* The header fields and locks of a packet have the types of the program.
LEMMA PktFacts ==
  ASSUME NEW p \in Pkts
  PROVE  /\ locks_check[p] \subseteq Locks /\ locks_acquire[p] \subseteq locks_check[p]
         /\ pass1[p] \subseteq Cells /\ pass2[p] \subseteq Cells
         /\ \A c \in pass2[p] : Protected(c) => lock_pos[c] \in locks_acquire[p] /\ lock_pos[c] # NoLock
         /\ \A c \in pass1[p] : lock_pos[c] # NoLock => lock_pos[c] \in locks_check[p]
BY Zenon, SwitchLocksAssumption DEF Protected

\* n_failed wraps around.
LEMMA Wrap ==
  ASSUME NEW n \in Nat
  PROVE  n % FAIL_WRAP \in 0 .. FAIL_WRAP - 1
<1>1. FAIL_WRAP \in Nat \ {0}
  BY Zenon, SwitchLocksAssumption
<1>. QED  BY <1>1

\* No packet disturbs the header of another one.
LEMMA OtherPkt ==
  ASSUME LocksTypeOK, NEW p \in Pkts, Pass(p), NEW q \in Pkts, q # p
  PROVE  /\ st'[q] = st[q] /\ locks_undo'[q] = locks_undo[q]
         /\ is_second_pass'[q] = is_second_pass[q] /\ ticket'[q] = ticket[q]
         /\ Held(q)' = Held(q) /\ (Between(q)' <=> Between(q))
<1>1. /\ st'[q] = st[q] /\ locks_undo'[q] = locks_undo[q]
      /\ is_second_pass'[q] = is_second_pass[q] /\ ticket'[q] = ticket[q]
  BY Zenon DEF Pass, SecondPass, UndoPass, FirstPass, FailPass, LocksTypeOK, hdrVars
<1>. QED  BY Zenon, <1>1 DEF Held, Between

\* Every pass keeps the types.
LEMMA TypeStep ==
  ASSUME LocksTypeOK, NEW p \in Pkts, Pass(p)
  PROVE  LocksTypeOK'
<1>. USE DEF LocksTypeOK
<1>1. CASE SecondPass(p)
  BY Zenon, <1>1 DEF SecondPass, LocksUndone, AccessCells, hdrVars
<1>2. CASE UndoPass(p)
  <2>1. my_lock' \subseteq Locks /\ st' \in [Pkts -> {"flying", "replied", "refused"}]
    BY Zenon, <1>2 DEF UndoPass, LocksUndone
  <2>2. locks_undo' \in [Pkts -> SUBSET Locks]
    BY Zenon, <1>2 DEF UndoPass
  <2>3. UNCHANGED <<is_second_pass, n_failed, ticket, tickets, last>>
    BY Zenon, <1>2 DEF UndoPass
  <2>. QED  BY Zenon, <2>1, <2>2, <2>3
<1>3. CASE FirstPass(p)
  <2>1. my_lock' \subseteq Locks /\ locks_undo' \in [Pkts -> SUBSET Locks]
    BY Zenon, <1>3, PktFacts DEF FirstPass, LocksAcquired
  <2>2. tickets' \in Nat /\ ticket' \in [Pkts -> Nat] /\ last' \in [Cells -> Nat]
    BY <1>3 DEF FirstPass, AccessCells
  <2>3. /\ st' \in [Pkts -> {"flying", "replied", "refused"}]
        /\ is_second_pass' \in [Pkts -> BOOLEAN] /\ n_failed' = n_failed
    BY Zenon, <1>3 DEF FirstPass
  <2>. QED  BY Zenon, <2>1, <2>2, <2>3
<1>4. CASE FailPass(p)
  <2>1. my_lock' \subseteq Locks /\ locks_undo' \in [Pkts -> SUBSET Locks]
    BY Zenon, <1>4, PktFacts DEF FailPass, LocksAcquired, OwnLocks
  <2>2. n_failed' \in [Pkts -> 0 .. FAIL_WRAP - 1]
    <3>1. n_failed[p] + 1 \in Nat
      OBVIOUS
    <3>2. (n_failed[p] + 1) % FAIL_WRAP \in 0 .. FAIL_WRAP - 1
      BY Zenon, <3>1, Wrap
    <3>. QED  BY Zenon, <1>4, <3>2 DEF FailPass, CountFailure
  <2>3. UNCHANGED <<st, is_second_pass, ticket, tickets, last>>
    BY Zenon, <1>4 DEF FailPass
  <2>. QED  BY Zenon, <2>1, <2>2, <2>3
<1>. QED  BY Zenon, <1>1, <1>2, <1>3, <1>4 DEF Pass

\* What one pass does to the bits: it sets free ones, which the packet then
\* holds, or clears those it holds.
LEMMA LockStep ==
  ASSUME SInv, NEW p \in Pkts, Pass(p)
  PROVE  \/ /\ my_lock' = my_lock \ Held(p) /\ Held(p)' = {}
         \/ /\ Held(p) = {} /\ my_lock' = my_lock \cup Held(p)'
            /\ Held(p)' \cap my_lock = {}
<1>1. LocksTypeOK /\ locks_acquire[p] \subseteq locks_check[p]
  BY Zenon, PktFacts DEF SInv
<1>2. CASE SecondPass(p)
  BY Zenon, <1>1, <1>2 DEF SecondPass, LocksUndone, Held, LocksTypeOK
<1>3. CASE UndoPass(p)
  BY Zenon, <1>1, <1>3 DEF UndoPass, LocksUndone, Held, LocksTypeOK
<1>4. CASE FirstPass(p)
  <2>1. Held(p) = {} /\ my_lock \cap locks_acquire[p] = {}
    BY Zenon, <1>1, <1>4 DEF FirstPass, Held, Conflict
  <2>2. Held(p)' = locks_acquire[p]
    BY Zenon, <1>1, <1>4 DEF FirstPass, Held, LocksTypeOK
  <2>. QED  BY Zenon, <1>4, <2>1, <2>2 DEF FirstPass, LocksAcquired
<1>5. CASE FailPass(p)
  <2>1. Held(p) = {} /\ OwnLocks(p) = locks_acquire[p] \ my_lock
    BY Zenon, <1>1, <1>5 DEF FailPass, Held, OwnLocks, Conflict
  <2>2. Held(p)' = OwnLocks(p)
    BY Zenon, <1>1, <1>5 DEF FailPass, Held, LocksTypeOK
  <2>. QED  BY Zenon, <1>5, <2>1, <2>2 DEF FailPass, LocksAcquired
<1>. QED  BY Zenon, <1>2, <1>3, <1>4, <1>5 DEF Pass

\* Every pass keeps each set bit with one packet that will clear it.
LEMMA HeldStep ==
  ASSUME SInv, NEW p \in Pkts, Pass(p)
  PROVE  UndoHeld' /\ NoLeak'
<1>1. UndoHeld /\ NoLeak /\ LocksTypeOK
  BY Zenon DEF SInv
<1>2. \A q \in Pkts : q # p => Held(q)' = Held(q)
  BY Zenon, <1>1, OtherPkt
<1>3. \A q \in Pkts : Held(q) \subseteq my_lock
  BY Zenon, <1>1 DEF UndoHeld
<1>4. \A q, r \in Pkts : q # r => Held(q) \cap Held(r) = {}
  BY Zenon, <1>1 DEF UndoHeld
<1>5. \A l \in my_lock : \E q \in Pkts : l \in Held(q)
  BY Zenon, <1>1 DEF NoLeak
<1>6. CASE my_lock' = my_lock \ Held(p) /\ Held(p)' = {}
  <2>1. UndoHeld'
    BY Zenon, <1>2, <1>3, <1>4, <1>6 DEF UndoHeld
  <2>2. NoLeak'
    BY Zenon, <1>2, <1>5, <1>6 DEF NoLeak
  <2>. QED  BY Zenon, <2>1, <2>2
<1>7. CASE /\ Held(p) = {} /\ my_lock' = my_lock \cup Held(p)'
           /\ Held(p)' \cap my_lock = {}
  <2>1. UndoHeld'
    BY <1>2, <1>3, <1>4, <1>7 DEF UndoHeld
  <2>2. NoLeak'
    BY Zenon, <1>2, <1>5, <1>7 DEF NoLeak
  <2>. QED  BY Zenon, <2>1, <2>2
<1>. QED  BY Zenon, <1>6, <1>7, LockStep

\* A pass does not touch the protected cells of another packet between its two passes.
LEMMA CellsStep ==
  ASSUME SInv, NEW p \in Pkts, Pass(p), NEW q \in Pkts, q # p, Between(q),
         NEW c \in pass2[q], Protected(c)
  PROVE  last'[c] = last[c]
<1>1. lock_pos[c] \in Held(q) /\ lock_pos[c] # NoLock /\ c \in Cells
  BY Zenon, PktFacts DEF SInv, SecondInv, Between, Held
<1>2. Held(q) \subseteq my_lock /\ Held(p) \cap Held(q) = {}
  BY Zenon DEF SInv, UndoHeld
<1>3. CASE SecondPass(p)
  <2>1. Held(p) = locks_acquire[p]
    BY Zenon, <1>3 DEF SecondPass, SInv, SecondInv, Between, Held
  <2>2. c \notin pass2[p]
    BY Zenon, <1>1, <1>2, <2>1, PktFacts
  <2>. QED  BY Zenon, <1>1, <1>3, <2>2 DEF SecondPass, AccessCells
<1>4. CASE FirstPass(p)
  <2>1. lock_pos[c] \notin locks_check[p]
    BY Zenon, <1>1, <1>2, <1>4 DEF FirstPass, Conflict
  <2>2. c \notin pass1[p]
    BY Zenon, <1>1, <2>1, PktFacts
  <2>. QED  BY Zenon, <1>1, <1>4, <2>2 DEF FirstPass, AccessCells
<1>5. CASE UndoPass(p) \/ FailPass(p)
  BY Zenon, <1>5 DEF UndoPass, FailPass
<1>. QED  BY Zenon, <1>3, <1>4, <1>5 DEF Pass

\* Every pass keeps the later packets off the protected cells of a second pass.
LEMMA OrderStep ==
  ASSUME SInv, NEW p \in Pkts, Pass(p)
  PROVE  SecondInv' /\ \A c \in Cells : last'[c] <= tickets'
<1>1. LocksTypeOK /\ LocksTypeOK' /\ tickets \in Nat /\ tickets' \in Nat /\ tickets <= tickets'
  <2>1. LocksTypeOK /\ LocksTypeOK'
    BY Zenon, TypeStep DEF SInv
  <2>2. tickets' = tickets \/ tickets' = tickets + 1
    BY Zenon DEF Pass, SecondPass, UndoPass, FirstPass, FailPass
  <2>3. tickets \in Nat
    BY Zenon, <2>1 DEF LocksTypeOK
  <2>. QED  BY <2>1, <2>2, <2>3
<1>2. \A c \in Cells : last[c] \in Nat /\ last[c] <= tickets
  BY Zenon, <1>1 DEF SInv, LocksTypeOK
<1>3. \A c \in Cells : last'[c] <= tickets'
  <2>1. CASE SecondPass(p)
    <3>1. ticket[p] <= tickets /\ tickets' = tickets
      BY Zenon, <2>1 DEF SecondPass, SInv, SecondInv, Between
    <3>. QED  BY Zenon, <1>2, <2>1, <3>1 DEF SecondPass, AccessCells
  <2>2. CASE FirstPass(p)
    BY <1>1, <1>2, <2>2 DEF FirstPass, AccessCells
  <2>3. CASE UndoPass(p) \/ FailPass(p)
    BY Zenon, <1>2, <2>3 DEF UndoPass, FailPass
  <2>. QED  BY Zenon, <2>1, <2>2, <2>3 DEF Pass
<1>4. ASSUME NEW q \in Pkts, Between(q)'
      PROVE  /\ locks_undo'[q] = locks_acquire[q] /\ locks_acquire[q] # {}
             /\ ticket'[q] <= tickets'
             /\ \A c \in pass2[q] : Protected(c) => last'[c] <= ticket'[q]
  <2>1. CASE q # p
    <3>1. /\ Between(q) /\ locks_undo'[q] = locks_undo[q] /\ ticket'[q] = ticket[q]
      BY Zenon, <1>1, <1>4, <2>1, OtherPkt
    <3>2. /\ locks_undo[q] = locks_acquire[q] /\ locks_acquire[q] # {} /\ ticket[q] <= tickets
          /\ \A c \in pass2[q] : Protected(c) => last[c] <= ticket[q]
      BY Zenon, <3>1 DEF SInv, SecondInv
    <3>3. \A c \in pass2[q] : Protected(c) => last'[c] = last[c]
      BY Zenon, <2>1, <3>1, CellsStep
    <3>4. ticket[q] \in Nat
      BY Zenon, <1>1 DEF LocksTypeOK
    <3>. QED  BY <1>1, <3>1, <3>2, <3>3, <3>4
  <2>2. CASE q = p
    <3>1. st'[p] = "flying" /\ is_second_pass'[p]
      BY Zenon, <1>4, <2>2 DEF Between
    <3>a. ~SecondPass(p) /\ ~UndoPass(p)
      BY Zenon, <1>1, <3>1 DEF SecondPass, UndoPass, LocksTypeOK
    <3>b. locks_undo[p] = {} => ~is_second_pass[p] \/ st[p] # "flying"
      BY Zenon DEF SInv, SecondInv, Between
    <3>c. FirstPass(p)
      BY Zenon, <3>1, <3>a, <3>b DEF Pass, FailPass
    <3>2. /\ ticket'[p] = tickets + 1 /\ tickets' = tickets + 1
          /\ locks_undo'[p] = locks_acquire[p] /\ locks_acquire[p] # {}
      BY Zenon, <1>1, <3>1, <3>b, <3>c DEF FirstPass, LocksTypeOK
    <3>3. pass2[p] \subseteq Cells
      BY Zenon, PktFacts
    <3>. QED  BY <1>1, <1>3, <2>2, <3>2, <3>3
  <2>. QED  BY Zenon, <2>1, <2>2
<1>. QED  BY Zenon, <1>3, <1>4 DEF SecondInv

\* Every step of the switch keeps the invariant.
LEMMA SInvStep == SInv /\ [LocksNext]_lockVars => SInv'
<1>. SUFFICES ASSUME SInv, [LocksNext]_lockVars PROVE SInv'
  BY Zenon
<1>1. ASSUME NEW p \in Pkts, Pass(p) PROVE SInv'
  <2>1. LocksTypeOK'
    BY Zenon, <1>1, TypeStep DEF SInv
  <2>. QED  BY Zenon, <1>1, <2>1, HeldStep, OrderStep DEF SInv
<1>2. CASE UNCHANGED lockVars
  <2>1. UNCHANGED <<my_lock, st, locks_undo, is_second_pass, n_failed, ticket, tickets, last>>
    BY Zenon, <1>2 DEF lockVars, hdrVars
  <2>2. \A p : Held(p)' = Held(p) /\ (Between(p)' <=> Between(p))
    BY Zenon, <2>1 DEF Held, Between
  <2>3. LocksTypeOK' /\ UndoHeld' /\ NoLeak'
    BY Zenon, <2>1, <2>2 DEF SInv, LocksTypeOK, UndoHeld, NoLeak
  <2>4. SecondInv'
    BY Zenon, <2>1, <2>2 DEF SInv, SecondInv
  <2>. QED  BY Zenon, <2>1, <2>3, <2>4 DEF SInv
<1>. QED  BY Zenon, <1>1, <1>2 DEF LocksNext, Idle

\* The invariant holds in every state of the switch.
THEOREM LocksInvariance == LocksSpec => []SInv
<1>1. LocksInit => SInv
  <2>. SUFFICES ASSUME LocksInit PROVE SInv
    BY Zenon
  <2>1. FAIL_WRAP \in Nat \ {0}
    BY Zenon, SwitchLocksAssumption
  <2>2. LocksTypeOK
    BY <2>1 DEF LocksInit, LocksTypeOK
  <2>3. UndoHeld /\ NoLeak /\ SecondInv
    BY Zenon DEF LocksInit, UndoHeld, NoLeak, SecondInv, Held, Between
  <2>. QED  BY <2>2, <2>3 DEF SInv, LocksInit
<1>. QED  BY <1>1, SInvStep, PTL DEF LocksSpec

\* The lock register and the headers keep their types.
THEOREM TypeCorrect == LocksSpec => []LocksTypeOK
<1>1. SInv => LocksTypeOK
  BY Zenon DEF SInv
<1>. QED  BY <1>1, LocksInvariance, PTL

\* lock_action never subtracts a bit that is not set or that is another's.
THEOREM UndoSound == LocksSpec => []UndoHeld
<1>1. SInv => UndoHeld
  BY Zenon DEF SInv
<1>. QED  BY <1>1, LocksInvariance, PTL

\* No lock bit stays set for ever: some packet will clear it.
THEOREM NoLockLeaks == LocksSpec => []NoLeak
<1>1. SInv => NoLeak
  BY Zenon DEF SInv
<1>. QED  BY <1>1, LocksInvariance, PTL

\* At the cells whose second passes hold the lock of the cell, transactions of one
\* and two passes come in the order of their first passes: lock_action keeps all
\* packets that check the lock away between the two passes.
THEOREM Serializable == LocksSpec => ProtectedSerial
<1>1. SInv /\ [LocksNext]_lockVars => [\A c \in Cells : Protected(c) => last'[c] >= last[c]]_lockVars
  <2>. SUFFICES ASSUME SInv, LocksNext PROVE \A c \in Cells : Protected(c) => last'[c] >= last[c]
    BY Zenon
  <2>1. tickets \in Nat /\ \A c \in Cells : last[c] \in Nat /\ last[c] <= tickets
    BY Zenon DEF SInv, LocksTypeOK
  <2>2. ASSUME NEW p \in Pkts, SecondPass(p) PROVE \A c \in Cells : Protected(c) => last'[c] >= last[c]
    <3>1. ticket[p] \in Nat /\ \A c \in pass2[p] : Protected(c) => last[c] <= ticket[p]
      BY Zenon, <2>2 DEF SecondPass, SInv, SecondInv, Between, LocksTypeOK
    <3>. QED  BY <2>1, <2>2, <3>1 DEF SecondPass, AccessCells
  <2>3. ASSUME NEW p \in Pkts, FirstPass(p) PROVE \A c \in Cells : Protected(c) => last'[c] >= last[c]
    BY <2>1, <2>3 DEF FirstPass, AccessCells
  <2>4. CASE UNCHANGED last
    BY <2>1, <2>4
  <2>. QED  BY Zenon, <2>2, <2>3, <2>4 DEF LocksNext, Pass, UndoPass, FailPass, Idle, lockVars
<1>. QED  BY <1>1, LocksInvariance, PTL DEF LocksSpec, ProtectedSerial

-----------------------------------------------------------------------------
(* The control plane.                                                       *)

\* What a request says.
LEMMA RequestFields ==
  \A e, b, k : e = [batch_num |-> b, blk_to_free |-> k] => e.batch_num = b /\ e.blk_to_free = k
OBVIOUS

Message == [batch_num : Nat, alloced_blk_id : Blocks] \cup Ready

CType ==
  /\ block_queue \in [Blocks -> Seq(Tenants)]
  /\ n_waiting \in [Tenants -> {0, 1}]
  /\ to_notify \subseteq Tenants
  /\ cached \in [Tenants -> [batch_num : Nat, alloced_blk_id : Blocks]]
  /\ n_cached_uses \in [Tenants -> Nat]
  /\ sock_fds \in [Tenants -> SUBSET Nodes]
  /\ req \in [Nodes -> Seq([batch_num : Nat, blk_to_free : Blocks \cup {NO_BLOCK}])]
  /\ chan \in [Nodes -> Seq(Message)]
  /\ pc \in [Nodes -> {"alloc", "recv", "wait", "hot", "end", "done"}]
  /\ batch \in [Nodes -> Nat]
  /\ block_num \in [Nodes -> Blocks \cup {NO_BLOCK}]

-----------------------------------------------------------------------------
(* The inductive invariant.                                                 *)

\* The batch and the block of the tenant's last allocation.
cur(t) == cached[t].batch_num
blk(t) == cached[t].alloced_blk_id

\* The responses that node n has been sent.
AnswersTo(n) == IF pc[n] = "alloc" \/ req[n] # <<>> THEN batch[n] ELSE batch[n] + 1

\* The nodes of t have been sent the ready messages for its block.
IsReady(t) == cur(t) > 0 /\ t \notin to_notify /\ n_waiting[t] = 0

ReadyMsg == [alloced_blk_id |-> NO_BLOCK]

\* Node n is yet to read its response, or the ready message that comes after it.
Unread(n) == pc[n] = "recv" /\ req[n] = <<>>
Awaits(n) == Unread(n) \/ pc[n] \in {"wait", "done"}

\* What is in the stream to a node follows from where the node and its tenant are.
ChanInv(n) ==
  LET t == tenant[n] IN
  /\ ~Awaits(n) => chan[n] = <<>>
  /\ Unread(n) => chan[n] = IF IsReady(t) THEN <<cached[t], ReadyMsg>> ELSE <<cached[t]>>
  /\ pc[n] \in {"wait", "done"} => chan[n] = IF IsReady(t) THEN <<ReadyMsg>> ELSE <<>>

\* A node has been answered for its tenant's batch, or is about to ask for it; once
\* answered it has the tenant's block, and it is past its wait only if the ready
\* messages are sent.
NodeInv(n) ==
  LET t == tenant[n] IN
  /\ req[n] # <<>> => /\ pc[n] = "recv"
                      /\ req[n] = <<[batch_num |-> 1 + batch[n], blk_to_free |-> block_num[n]]>>
  /\ AnswersTo(n) = cur(t) \/ (AnswersTo(n) + 1 = cur(t) /\ ~Awaits(n) /\ pc[n] # "hot")
  /\ AnswersTo(n) = cur(t) /\ ~Unread(n)
       => block_num[n] = IF cur(t) = 0 THEN NO_BLOCK ELSE blk(t)
  /\ AnswersTo(n) = cur(t) /\ ~Awaits(n) => cur(t) = 0 \/ IsReady(t)
  /\ ChanInv(n)
  /\ batch[n] <= N_BATCHES /\ (pc[n] \in {"wait", "hot", "end"} => batch[n] < N_BATCHES)

\* A node is ahead of another one of its tenant only out of the last wait_nodes.
PeerInv ==
  \A n, m \in Nodes : tenant[n] = tenant[m] /\ batch[n] > batch[m] => pc[m] = "end"

\* What the control plane knows of a tenant.
TenantInv(t) ==
  /\ cur(t) = 0 => t \notin to_notify /\ n_waiting[t] = 0
  /\ cur(t) > 0 =>
       /\ \E p \in DOMAIN block_queue[blk(t)] : block_queue[blk(t)][p] = t
       /\ n_cached_uses[t] = Cardinality({n \in Peers(t) : AnswersTo(n) = cur(t)})
  /\ t \in to_notify => n_waiting[t] = 0
  /\ IsReady(t) => \A n \in Peers(t) : AnswersTo(n) = cur(t)
  /\ sock_fds[t] = {n \in Peers(t) : AnswersTo(n) > 0}

\* The tenants in the queue of a block have that block and no other, and all but the
\* first one wait.
QueueInv ==
  \A b \in Blocks : \A p \in DOMAIN block_queue[b] :
    LET t == block_queue[b][p] IN
    /\ cur(t) > 0 /\ blk(t) = b
    /\ n_waiting[t] = 0 <=> p = 1
    /\ \A s \in DOMAIN block_queue[b] : block_queue[b][s] = t => s = p

CInv ==
  /\ CType
  /\ \A n \in Nodes : NodeInv(n)
  /\ \A t \in Tenants : TenantInv(t)
  /\ PeerInv /\ QueueInv

\* What the proofs use of the library's theorems on finite sets: how the nodes of a
\* tenant are counted.  PeersAreCounted proves it; the lemmas that need it assume it.
PeersCounted ==
  /\ \A t : \A S \in SUBSET Peers(t) :
       /\ IsFiniteSet(S) /\ Cardinality(S) \in Nat
       /\ Cardinality(S) = Cardinality(Peers(t)) => S = Peers(t)
       /\ \A x : x \notin S => Cardinality(S \cup {x}) = Cardinality(S) + 1
  /\ \A x : Cardinality({x}) = 1

-----------------------------------------------------------------------------
(* Short sequences.                                                         *)

\* A sequence is its length and its elements.
LEMMA SameSeq ==
  ASSUME NEW S, NEW r \in Seq(S), NEW s \in Seq(S), Len(r) = Len(s), \A j \in 1 .. Len(r) : r[j] = s[j]
  PROVE  r = s
OBVIOUS

\* A message behind another one.
LEMMA AppendSecond ==
  ASSUME NEW x, NEW y
  PROVE  Append(<<x>>, y) = <<x, y>>
<1>. DEFINE S == {x, y}
<1>1. <<x>> \in Seq(S) /\ <<x, y>> \in Seq(S) /\ Append(<<x>>, y) \in Seq(S)
  OBVIOUS
<1>2. /\ Len(Append(<<x>>, y)) = 2 /\ Len(<<x, y>>) = 2
      /\ Append(<<x>>, y)[1] = x /\ Append(<<x>>, y)[2] = y
      /\ <<x, y>>[1] = x /\ <<x, y>>[2] = y
  OBVIOUS
<1>. HIDE DEF S
<1>3. \A j \in 1 .. Len(Append(<<x>>, y)) : Append(<<x>>, y)[j] = <<x, y>>[j]
  BY <1>2
<1>. QED  BY Zenon, <1>1, <1>2, <1>3, SameSeq

\* What the steps do to the short sequences of requests and messages.
LEMMA ShortSeqs ==
  ASSUME NEW x, NEW y
  PROVE  /\ Head(<<x>>) = x /\ Tail(<<x>>) = <<>> /\ Head(<<x, y>>) = x /\ Tail(<<x, y>>) = <<y>>
         /\ Append(<<>>, x) = <<x>> /\ Append(<<x>>, y) = <<x, y>>
         /\ <<x>> # <<>> /\ <<x, y>> # <<>>
<1>1. Tail(<<x, y>>) = <<y>>
  OBVIOUS
<1>2. Head(<<x>>) = x /\ Tail(<<x>>) = <<>> /\ Head(<<x, y>>) = x /\ Append(<<>>, x) = <<x>>
  OBVIOUS
<1>3. <<x>> # <<>> /\ <<x, y>> # <<>>
  BY Zenon
<1>. QED  BY Zenon, <1>1, <1>2, <1>3, AppendSecond

\* The sequences that grow.
LEMMA AppendIs ==
  ASSUME NEW S, NEW s \in Seq(S), NEW x \in S
  PROVE  /\ Append(s, x) \in Seq(S) /\ Len(Append(s, x)) = Len(s) + 1 /\ Append(s, x) # <<>>
         /\ \A j \in 1 .. Len(s) : Append(s, x)[j] = s[j]
         /\ Append(s, x)[Len(s) + 1] = x
OBVIOUS

-----------------------------------------------------------------------------
(* The initial state.                                                       *)

\* It satisfies the invariant.
LEMMA InitCInv == Init => CInv
<1>. SUFFICES ASSUME Init PROVE CInv
  BY Zenon
<1>1. CType
  BY ControlPlaneAssumption DEF Init, CType, Blocks
<1>2. \A t \in Tenants : cur(t) = 0 /\ ~IsReady(t)
  BY DEF Init, cur, IsReady
<1>3. \A n \in Nodes : AnswersTo(n) = 0 /\ ~Awaits(n) /\ tenant[n] \in Tenants
  BY Zenon, ControlPlaneAssumption DEF Init, AnswersTo, Awaits, Unread
<1>4. \A n \in Nodes : NodeInv(n)
  BY <1>2, <1>3, ControlPlaneAssumption DEF Init, NodeInv, ChanInv, Unread
<1>5. \A t \in Tenants : TenantInv(t)
  BY <1>2, <1>3 DEF Init, TenantInv, Peers
<1>6. PeerInv /\ QueueInv
  BY DEF Init, PeerInv, QueueInv
<1>. QED  BY Zenon, <1>1, <1>4, <1>5, <1>6 DEF CInv

\* A node is one answer behind its tenant at most.
LEMMA NodeNums ==
  ASSUME CInv, NEW n \in Nodes
  PROVE  /\ tenant[n] \in Tenants /\ n \in Peers(tenant[n])
         /\ batch[n] \in Nat /\ cur(tenant[n]) \in Nat /\ AnswersTo(n) \in Nat
         /\ AnswersTo(n) = batch[n] \/ AnswersTo(n) = batch[n] + 1
         /\ AnswersTo(n) = cur(tenant[n]) \/ AnswersTo(n) + 1 = cur(tenant[n])
         /\ AnswersTo(n) # cur(tenant[n]) => ~Awaits(n) /\ pc[n] # "hot"
         /\ AnswersTo(n) = cur(tenant[n]) /\ ~Awaits(n) => cur(tenant[n]) = 0 \/ IsReady(tenant[n])
         /\ AnswersTo(n) = batch[n] => ~Awaits(n) /\ pc[n] # "hot" /\ pc[n] # "end"
<1>1. tenant[n] \in Tenants /\ n \in Peers(tenant[n])
  BY Zenon, ControlPlaneAssumption DEF Peers
<1>2. batch[n] \in Nat /\ cur(tenant[n]) \in Nat
  BY Zenon, <1>1 DEF CInv, CType, cur
<1>3. req[n] # <<>> => pc[n] = "recv"
  BY Zenon DEF CInv, NodeInv
<1>4. AnswersTo(n) \in Nat /\ (AnswersTo(n) = batch[n] \/ AnswersTo(n) = batch[n] + 1)
  BY <1>2 DEF AnswersTo
<1>5. AnswersTo(n) = batch[n] => pc[n] = "alloc" \/ req[n] # <<>>
  BY <1>2 DEF AnswersTo
<1>6. AnswersTo(n) = batch[n] => ~Awaits(n) /\ pc[n] # "hot" /\ pc[n] # "end"
  BY Zenon, <1>3, <1>5 DEF Awaits, Unread
<1>7. AnswersTo(n) = cur(tenant[n]) \/ (AnswersTo(n) + 1 = cur(tenant[n]) /\ ~Awaits(n) /\ pc[n] # "hot")
  BY Zenon DEF CInv, NodeInv
<1>8. AnswersTo(n) = cur(tenant[n]) /\ ~Awaits(n) => cur(tenant[n]) = 0 \/ IsReady(tenant[n])
  BY Zenon DEF CInv, NodeInv
<1>9. AnswersTo(n) # cur(tenant[n]) => ~Awaits(n) /\ pc[n] # "hot"
  BY Zenon, <1>7
<1>. QED  BY Zenon, <1>1, <1>2, <1>4, <1>6, <1>7, <1>8, <1>9

\* Once a tenant is ready, all its nodes have been answered for its batch.
LEMMA ReadyAnswered ==
  ASSUME CInv, NEW n \in Nodes, IsReady(tenant[n]), NEW m \in Peers(tenant[n])
  PROVE  AnswersTo(m) = cur(tenant[n])
BY Zenon, NodeNums DEF CInv, TenantInv

-----------------------------------------------------------------------------
(* The steps of a node.                                                     *)

\* They leave the control plane alone, and nobody's answers are counted anew.
LEMMA NodeStepSame ==
  ASSUME CInv, NEW n \in Nodes, NodeStep(n)
  PROVE  /\ UNCHANGED <<block_queue, n_waiting, to_notify, cached, n_cached_uses, sock_fds>>
         /\ \A m \in Nodes : m # n =>
              /\ pc'[m] = pc[m] /\ batch'[m] = batch[m] /\ req'[m] = req[m]
              /\ chan'[m] = chan[m] /\ block_num'[m] = block_num[m]
         /\ \A m \in Nodes : AnswersTo(m)' = AnswersTo(m)
         /\ CType'
<1>1. CType /\ NodeInv(n) /\ tenant[n] \in Tenants
  BY Zenon, ControlPlaneAssumption DEF CInv
<1>2. UNCHANGED <<block_queue, n_waiting, to_notify, cached, n_cached_uses, sock_fds>>
  BY Zenon DEF NodeStep, SendAlloc, RecvAlloc, WaitReady, EndHot, LeaveHot, handle, info
<1>3. \A m \in Nodes : m # n =>
        /\ pc'[m] = pc[m] /\ batch'[m] = batch[m] /\ req'[m] = req[m]
        /\ chan'[m] = chan[m] /\ block_num'[m] = block_num[m]
  BY SMTT(30), <1>1 DEF CType, NodeStep, SendAlloc, RecvAlloc, WaitReady, EndHot, LeaveHot
<1>4. AnswersTo(n)' = AnswersTo(n) /\ CType'
  <2>1. CASE SendAlloc(n)
    <3>. DEFINE x == [batch_num |-> 1 + batch[n], blk_to_free |-> block_num[n]]
    <3>0. req'[n] = Append(req[n], x) /\ pc'[n] = "recv" /\ batch' = batch
          /\ req[n] \in Seq([batch_num : Nat, blk_to_free : Blocks \cup {NO_BLOCK}])
      BY Zenon, <1>1, <2>1 DEF SendAlloc, CType
    <3>. HIDE DEF x
    <3>1. req'[n] # <<>> /\ pc'[n] = "recv" /\ batch' = batch
      BY <3>0
    <3>. USE DEF x
    <3>2. [batch_num |-> 1 + batch[n], blk_to_free |-> block_num[n]] \in [batch_num : Nat, blk_to_free : Blocks \cup {NO_BLOCK}]
      BY <1>1 DEF CType
    <3>3. req' \in [Nodes -> Seq([batch_num : Nat, blk_to_free : Blocks \cup {NO_BLOCK}])]
      <4>. HIDE DEF Blocks
      <4>1. Append(req[n], [batch_num |-> 1 + batch[n], blk_to_free |-> block_num[n]]) \in Seq([batch_num : Nat, blk_to_free : Blocks \cup {NO_BLOCK}])
        BY Zenon, <1>1, <3>2, AppendIs DEF CType
      <4>. QED  BY Zenon, <1>1, <2>1, <4>1 DEF SendAlloc, CType
    <3>4. pc' \in [Nodes -> {"alloc", "recv", "wait", "hot", "end", "done"}]
      BY Zenon, <1>1, <2>1 DEF SendAlloc, CType
    <3>5. CType'
      BY Zenon, <1>1, <1>2, <2>1, <3>3, <3>4 DEF SendAlloc, CType
    <3>. QED  BY Zenon, <2>1, <3>1, <3>5 DEF AnswersTo, SendAlloc
  <2>2. CASE RecvAlloc(n)
    <3>1. req[n] = <<>>
      BY Zenon, <1>1, <2>2 DEF RecvAlloc, NodeInv, ChanInv, Awaits, Unread
    <3>2. chan[n] \in Seq(Message) /\ Tail(chan[n]) \in Seq(Message)
      BY <1>1, <2>2 DEF RecvAlloc, CType
    <3>3. chan[n] = <<cached[tenant[n]], ReadyMsg>> \/ chan[n] = <<cached[tenant[n]]>>
      BY Zenon, <1>1, <2>2, <3>1 DEF NodeInv, ChanInv, Unread, RecvAlloc
    <3>4. Head(chan[n]) = cached[tenant[n]]
      BY ZenonT(60), <3>3, ShortSeqs
    <3>5. Head(chan[n]).alloced_blk_id \in Blocks
      BY Zenon, <1>1, <3>4 DEF CType
    <3>6. CType'
      BY Zenon, <1>1, <1>2, <2>2, <3>2, <3>5 DEF RecvAlloc, CType
    <3>. QED  BY Zenon, <1>1, <2>2, <3>1, <3>6 DEF AnswersTo, RecvAlloc, CType
  <2>3. CASE WaitReady(n)
    <3>1. req[n] = <<>>
      BY Zenon, <1>1, <2>3 DEF WaitReady, NodeInv
    <3>2. Tail(chan[n]) \in Seq(Message)
      BY <1>1, <2>3 DEF WaitReady, CType
    <3>. QED  BY Zenon, <1>1, <1>2, <2>3, <3>1, <3>2 DEF AnswersTo, WaitReady, CType
  <2>4. CASE EndHot(n)
    BY Zenon, <1>1, <1>2, <2>4 DEF AnswersTo, EndHot, CType, NodeInv
  <2>5. CASE LeaveHot(n)
    <3>1. req[n] = <<>> /\ pc[n] = "end"
      BY Zenon, <1>1, <2>5 DEF LeaveHot, HotOver, NodeInv
    <3>2. pc'[n] = "alloc" /\ batch'[n] = batch[n] + 1 /\ req' = req
      BY Zenon, <1>1, <2>5 DEF LeaveHot, CType
    <3>3. batch' \in [Nodes -> Nat] /\ pc' \in [Nodes -> {"alloc", "recv", "wait", "hot", "end", "done"}]
      BY <1>1, <2>5 DEF LeaveHot, CType
    <3>4. CType'
      BY Zenon, <1>1, <1>2, <2>5, <3>3 DEF LeaveHot, CType
    <3>. QED  BY Zenon, <3>1, <3>2, <3>4 DEF AnswersTo
  <2>. QED  BY Zenon, <2>1, <2>2, <2>3, <2>4, <2>5 DEF NodeStep
<1>5. \A m \in Nodes : AnswersTo(m)' = AnswersTo(m)
  BY Zenon, <1>3, <1>4 DEF AnswersTo
<1>. QED  BY Zenon, <1>2, <1>3, <1>4, <1>5

\* What it does to the node itself.
LEMMA NodeStepSelf ==
  ASSUME CInv, NEW n \in Nodes, NodeStep(n)
  PROVE  NodeInv(n)'
<1>. DEFINE t == tenant[n]
<1>1. /\ CType /\ NodeInv(n) /\ t \in Tenants /\ N_BATCHES \in Nat
      /\ pc \in [Nodes -> {"alloc", "recv", "wait", "hot", "end", "done"}]
      /\ batch[n] \in Nat /\ cur(t) \in Nat
  BY Zenon, ControlPlaneAssumption DEF CInv, CType, cur
<1>2. /\ AnswersTo(n)' = AnswersTo(n) /\ CType'
      /\ cached' = cached /\ cur(t)' = cur(t) /\ blk(t)' = blk(t) /\ IsReady(t)' = IsReady(t)
  BY Zenon, NodeStepSame DEF cur, blk, IsReady
<1>3. CASE SendAlloc(n)
  <2>1. /\ pc[n] = "alloc" /\ pc'[n] = "recv" /\ batch' = batch /\ block_num' = block_num
        /\ chan' = chan /\ req'[n] = Append(req[n], [batch_num |-> 1 + batch[n], blk_to_free |-> block_num[n]])
    BY Zenon, <1>1, <1>3 DEF SendAlloc, CType
  <2>2. req[n] = <<>> /\ ~Awaits(n) /\ ~Unread(n) /\ chan[n] = <<>>
    BY Zenon, <1>1, <2>1 DEF NodeInv, ChanInv, Awaits, Unread
  <2>3. req'[n] = <<[batch_num |-> 1 + batch[n], blk_to_free |-> block_num[n]]>> /\ req'[n] # <<>>
    BY ZenonT(60), <2>1, <2>2, ShortSeqs
  <2>4. ~Awaits(n)' /\ ~Unread(n)' /\ pc'[n] \notin {"wait", "hot", "end", "done"}
    BY Zenon, <2>1, <2>3 DEF Awaits, Unread
  <2>. QED  BY Zenon, <1>1, <1>2, <2>1, <2>2, <2>3, <2>4 DEF NodeInv, ChanInv
<1>4. CASE RecvAlloc(n)
  <2>1. /\ pc[n] = "recv" /\ chan[n] # <<>> /\ batch' = batch /\ req' = req
        /\ block_num'[n] = Head(chan[n]).alloced_blk_id /\ chan'[n] = Tail(chan[n])
        /\ pc'[n] = IF batch[n] < N_BATCHES THEN "wait" ELSE "done"
    BY Zenon, <1>1, <1>4 DEF RecvAlloc, CType
  <2>2. req[n] = <<>> /\ Unread(n) /\ Awaits(n)
    BY Zenon, <1>1, <2>1 DEF NodeInv, ChanInv, Awaits, Unread
  <2>3. AnswersTo(n) = cur(t) /\ cur(t) # 0
    BY <1>1, <2>1, <2>2 DEF NodeInv, AnswersTo
  <2>4. chan[n] = IF IsReady(t) THEN <<cached[t], ReadyMsg>> ELSE <<cached[t]>>
    BY Zenon, <1>1, <2>2 DEF NodeInv, ChanInv
  <2>5. Head(chan[n]) = cached[t] /\ Tail(chan[n]) = IF IsReady(t) THEN <<ReadyMsg>> ELSE <<>>
    <3>1. CASE IsReady(t)
      <4>1. Head(<<cached[t], ReadyMsg>>) = cached[t] /\ Tail(<<cached[t], ReadyMsg>>) = <<ReadyMsg>>
        BY ZenonT(60), ShortSeqs
      <4>. QED  BY Zenon, <2>4, <3>1, <4>1
    <3>2. CASE ~IsReady(t)
      BY Zenon, <2>4, <3>2, ShortSeqs
    <3>. QED  BY Zenon, <3>1, <3>2
  <2>6. /\ Awaits(n)' /\ ~Unread(n)' /\ pc'[n] \in {"wait", "done"} /\ req'[n] = <<>>
        /\ pc'[n] # "hot" /\ pc'[n] # "end" /\ (pc'[n] = "wait" => batch[n] < N_BATCHES)
    BY Zenon, <2>1, <2>2 DEF Awaits, Unread
  <2>7. ChanInv(n)'
    BY Zenon, <1>2, <2>1, <2>5, <2>6 DEF ChanInv
  <2>8. block_num'[n] = blk(t)
    BY Zenon, <2>1, <2>5 DEF blk
  <2>9. batch'[n] <= N_BATCHES
    BY Zenon, <1>1, <2>1 DEF NodeInv
  <2>. QED  BY Zenon, <1>2, <2>1, <2>3, <2>6, <2>7, <2>8, <2>9 DEF NodeInv
<1>5. CASE WaitReady(n)
  <2>1. /\ pc[n] = "wait" /\ chan[n] # <<>> /\ batch' = batch /\ req' = req /\ block_num' = block_num
        /\ chan'[n] = Tail(chan[n]) /\ pc'[n] = "hot"
    BY Zenon, <1>1, <1>5 DEF WaitReady, CType
  <2>2. req[n] = <<>> /\ ~Unread(n) /\ Awaits(n) /\ chan[n] = IF IsReady(t) THEN <<ReadyMsg>> ELSE <<>>
    BY Zenon, <1>1, <2>1 DEF NodeInv, ChanInv, Awaits, Unread
  <2>3. AnswersTo(n) = cur(t) /\ IsReady(t) /\ block_num[n] = IF cur(t) = 0 THEN NO_BLOCK ELSE blk(t)
    BY Zenon, <1>1, <2>1, <2>2 DEF NodeInv
  <2>4. chan'[n] = <<>>
    BY Zenon, <2>1, <2>2, <2>3, ShortSeqs
  <2>5. ~Awaits(n)' /\ ~Unread(n)' /\ pc'[n] \notin {"wait", "done"} /\ req'[n] = <<>>
    BY Zenon, <2>1, <2>2 DEF Awaits, Unread
  <2>. QED  BY Zenon, <1>1, <1>2, <2>1, <2>3, <2>4, <2>5 DEF NodeInv, ChanInv
<1>6. CASE EndHot(n)
  <2>1. /\ pc[n] = "hot" /\ batch' = batch /\ req' = req /\ block_num' = block_num
        /\ chan' = chan /\ pc'[n] = "end"
    BY Zenon, <1>1, <1>6 DEF EndHot, CType
  <2>2. ~Unread(n) /\ ~Awaits(n) /\ ~Unread(n)' /\ ~Awaits(n)' /\ pc'[n] \notin {"recv", "wait", "done", "hot"}
    BY Zenon, <2>1 DEF Awaits, Unread
  <2>. QED  BY Zenon, <1>1, <1>2, <2>1, <2>2 DEF NodeInv, ChanInv
<1>7. CASE LeaveHot(n)
  <2>1. /\ pc[n] = "end" /\ batch'[n] = batch[n] + 1 /\ req' = req /\ block_num' = block_num
        /\ chan' = chan /\ pc'[n] = "alloc"
    BY Zenon, <1>1, <1>7 DEF LeaveHot, HotOver, CType
  <2>2. ~Unread(n) /\ ~Awaits(n) /\ ~Unread(n)' /\ ~Awaits(n)' /\ pc'[n] \notin {"recv", "wait", "done", "hot", "end"}
    BY Zenon, <2>1 DEF Awaits, Unread
  <2>3. batch'[n] <= N_BATCHES
    BY <1>1, <2>1 DEF NodeInv
  <2>4. req'[n] = <<>>
    BY Zenon, <1>1, <2>1 DEF NodeInv
  <2>. QED  BY Zenon, <1>1, <1>2, <2>1, <2>2, <2>3, <2>4 DEF NodeInv, ChanInv
<1>. QED  BY Zenon, <1>3, <1>4, <1>5, <1>6, <1>7 DEF NodeStep

\* A step of a node keeps the invariant.
LEMMA NodeStepInv ==
  ASSUME CInv, NEW n \in Nodes, NodeStep(n)
  PROVE  CInv'
<1>1. /\ UNCHANGED <<block_queue, n_waiting, to_notify, cached, n_cached_uses, sock_fds>>
      /\ \A m \in Nodes : m # n =>
           /\ pc'[m] = pc[m] /\ batch'[m] = batch[m] /\ req'[m] = req[m]
           /\ chan'[m] = chan[m] /\ block_num'[m] = block_num[m]
      /\ \A m \in Nodes : AnswersTo(m)' = AnswersTo(m)
      /\ CType'
  BY Zenon, NodeStepSame
<1>2. \A t : cur(t)' = cur(t) /\ blk(t)' = blk(t) /\ IsReady(t)' = IsReady(t)
  BY Zenon, <1>1 DEF cur, blk, IsReady
<1>3. ASSUME NEW m \in Nodes, m # n PROVE NodeInv(m)'
  <2>1. NodeInv(m) /\ (Unread(m)' <=> Unread(m)) /\ (Awaits(m)' <=> Awaits(m))
    BY Zenon, <1>1, <1>3 DEF CInv, Unread, Awaits
  <2>2. ChanInv(m)'
    BY Zenon, <1>1, <1>2, <1>3, <2>1 DEF NodeInv, ChanInv
  <2>. QED  BY Zenon, <1>1, <1>2, <1>3, <2>1, <2>2 DEF NodeInv
<1>4. \A t \in Tenants : TenantInv(t)'
  <2>. SUFFICES ASSUME NEW t \in Tenants PROVE TenantInv(t)'
    BY Zenon
  <2>1. TenantInv(t) /\ \A m \in Peers(t) : AnswersTo(m)' = AnswersTo(m)
    BY Zenon, <1>1 DEF CInv, Peers
  <2>2. /\ {m \in Peers(t) : AnswersTo(m) = cur(t)}' = {m \in Peers(t) : AnswersTo(m) = cur(t)}
        /\ {m \in Peers(t) : AnswersTo(m) > 0}' = {m \in Peers(t) : AnswersTo(m) > 0}
    BY Zenon, <1>2, <2>1 DEF Peers
  <2>. QED  BY Zenon, <1>1, <1>2, <2>1, <2>2 DEF TenantInv
<1>5. QueueInv'
  BY Zenon, <1>1, <1>2 DEF CInv, QueueInv
<1>6. PeerInv'
  <2>. SUFFICES ASSUME NEW a \in Nodes, NEW m \in Nodes, tenant[a] = tenant[m], batch'[a] > batch'[m]
                PROVE  pc'[m] = "end"
    BY Zenon DEF PeerInv
  <2>0. /\ CType /\ batch[a] \in Nat /\ batch[m] \in Nat /\ batch[n] \in Nat
        /\ \A x \in Nodes : NodeInv(x) /\ cur(tenant[x]) \in Nat
        /\ batch[a] > batch[m] => pc[m] = "end"
    BY Zenon, ControlPlaneAssumption DEF CInv, CType, PeerInv, cur
  <2>1. CASE ~LeaveHot(n)
    <3>1. batch' = batch /\ pc[n] # "end"
      BY Zenon, <2>0, <2>1 DEF NodeStep, SendAlloc, RecvAlloc, WaitReady, EndHot
    <3>. QED  BY Zenon, <1>1, <2>0, <3>1
  <2>2. CASE LeaveHot(n)
    <3>1. /\ batch'[n] = batch[n] + 1 /\ pc[n] = "end"
          /\ \A x \in Peers(tenant[n]) : batch[x] > batch[n] \/ pc[x] = "end"
      BY Zenon, <2>0, <2>2 DEF LeaveHot, HotOver, CType
    <3>2. CASE m = n
      <4>1. batch[a] > batch[n] + 1
        BY <1>1, <2>0, <3>1, <3>2
      <4>2. AnswersTo(n) = batch[n] + 1
        BY Zenon, <3>1, NodeNums
      <4>3. cur(tenant[a]) = cur(tenant[n]) /\ n \in Peers(tenant[a])
        BY Zenon, <3>2, NodeNums
      <4>4. AnswersTo(a) = batch[a] /\ AnswersTo(a) = cur(tenant[a]) /\ cur(tenant[a]) # 0 /\ AnswersTo(n) # cur(tenant[a])
        BY <4>1, <4>2, <4>3, NodeNums
      <4>5. IsReady(tenant[a])
        BY Zenon, <4>4, NodeNums
      <4>. QED  BY Zenon, <4>3, <4>4, <4>5, ReadyAnswered
    <3>3. CASE m # n /\ a # n
      BY Zenon, <1>1, <2>0, <3>3
    <3>4. CASE m # n /\ a = n
      <4>1. ~(batch[m] > batch[n]) /\ m \in Peers(tenant[n]) /\ pc'[m] = pc[m]
        BY <1>1, <2>0, <3>1, <3>4 DEF Peers
      <4>. QED  BY Zenon, <3>1, <4>1
    <3>. QED  BY Zenon, <3>2, <3>3, <3>4
  <2>. QED  BY Zenon, <2>1, <2>2
<1>. QED  BY Zenon, <1>1, <1>3, <1>4, <1>5, <1>6, NodeStepSelf DEF CInv

-----------------------------------------------------------------------------
(* An answer: what both kinds of request have in common.                    *)

\* What the control plane has done when it comes to the end of its loop with N as
\* to_notify: the tenant of node n has a batch that it is not ready for, and every
\* other tenant is as ready, or as far from it, as it was.
Answers(n, N) ==
  LET t == tenant[n] IN
  /\ req[n] # <<>>
  /\ Respond(n, cached'[t], n_cached_uses', N)
  /\ /\ block_queue' \in [Blocks -> Seq(Tenants)]
     /\ n_waiting' \in [Tenants -> {0, 1}]
     /\ N \subseteq Tenants
     /\ cached' \in [Tenants -> [batch_num : Nat, alloced_blk_id : Blocks]]
     /\ n_cached_uses' \in [Tenants -> Nat]
  /\ cur(t)' = batch[n] + 1
  /\ \A u \in Tenants : u # t =>
       /\ cached'[u] = cached[u] /\ n_cached_uses'[u] = n_cached_uses[u]
       /\ u \in N \/ n_waiting'[u] # 0 <=> u \in to_notify \/ n_waiting[u] # 0
  /\ t \in N \/ n_waiting'[t] # 0
  /\ \A u \in N : n_waiting'[u] = 0
  /\ \A u \in Tenants : cur(u)' > 0 =>
       \E p \in DOMAIN block_queue'[blk(u)'] : block_queue'[blk(u)'][p] = u
  /\ QueueInv'
  /\ n_cached_uses'[t] = Cardinality({m \in Peers(t) : m = n \/ AnswersTo(m) = batch[n] + 1})
  /\ \A m \in Peers(t) : m # n =>
       \/ AnswersTo(m) = batch[n] + 1 /\ cached' = cached
       \/ AnswersTo(m) = batch[n] /\ ~Awaits(m) /\ pc[m] # "hot"

\* A node whose request is answered.
LEMMA Asker ==
  ASSUME CInv, NEW n \in Nodes, req[n] # <<>>
  PROVE  /\ pc[n] = "recv" /\ AnswersTo(n) = batch[n] /\ ~Awaits(n) /\ ~Unread(n) /\ chan[n] = <<>>
         /\ req[n] = <<[batch_num |-> 1 + batch[n], blk_to_free |-> block_num[n]]>>
         /\ Head(req[n]) = [batch_num |-> 1 + batch[n], blk_to_free |-> block_num[n]]
         /\ Tail(req[n]) = <<>>
<1>1. NodeInv(n)
  BY Zenon DEF CInv
<1>2. pc[n] = "recv" /\ AnswersTo(n) = batch[n] /\ ~Awaits(n) /\ ~Unread(n)
  BY Zenon, <1>1 DEF NodeInv, AnswersTo, Awaits, Unread
<1>3. req[n] = <<[batch_num |-> 1 + batch[n], blk_to_free |-> block_num[n]]>> /\ chan[n] = <<>>
  BY Zenon, <1>1, <1>2 DEF NodeInv, ChanInv
<1>. QED  BY Zenon, <1>2, <1>3, ShortSeqs

\* An answer keeps the invariant.
LEMMA RespondInv ==
  ASSUME PeersCounted, CInv, NEW n \in Nodes, NEW N, Answers(n, N)
  PROVE  CInv'
<1>. DEFINE t == tenant[n]
            socks == [sock_fds EXCEPT ![t] = @ \cup {n}]
            ready == IF Cardinality(socks[t]) = Cardinality(Peers(t))
                     THEN {u \in N : AllAnswered(u, socks, n_cached_uses')} ELSE {}
            sent == [chan EXCEPT ![n] = Append(@, cached'[t])]
<1>1. /\ CType /\ t \in Tenants /\ n \in Peers(t) /\ batch[n] \in Nat
      /\ \A m \in Nodes : NodeInv(m)
      /\ \A u \in Tenants : TenantInv(u)
  BY Zenon, NodeNums DEF CInv
<1>2. /\ sock_fds' = socks /\ to_notify' = N \ ready
      /\ chan' = [m \in Nodes |->
                   IF tenant[m] \in ready /\ m \in socks[tenant[m]]
                   THEN Append(sent[m], ReadyMsg) ELSE sent[m]]
      /\ req' = [req EXCEPT ![n] = Tail(@)]
      /\ pc' = pc /\ batch' = batch /\ block_num' = block_num
  BY Zenon DEF Answers, Respond, ReadyMsg
<1>3. /\ pc[n] = "recv" /\ AnswersTo(n) = batch[n] /\ chan[n] = <<>> /\ Tail(req[n]) = <<>>
  BY Zenon, Asker DEF Answers
<1>4. req'[n] = <<>> /\ \A m \in Nodes : m # n => req'[m] = req[m]
  BY Zenon, <1>1, <1>2, <1>3 DEF CType
<1>5. AnswersTo(n)' = batch[n] + 1 /\ \A m \in Nodes : m # n => AnswersTo(m)' = AnswersTo(m)
  <2>1. pc'[n] = "recv"
    BY Zenon, <1>2, <1>3
  <2>2. AnswersTo(n)' = batch[n] + 1
    BY Zenon, <1>2, <1>4, <2>1 DEF AnswersTo
  <2>. QED  BY Zenon, <1>2, <1>4, <2>2 DEF AnswersTo
<1>6. \A m \in Nodes : /\ tenant[m] \in Tenants /\ m \in Peers(tenant[m])
                       /\ AnswersTo(m)' \in Nat /\ AnswersTo(m) \in Nat
  <2>1. batch[n] + 1 \in Nat
    BY <1>1
  <2>. QED  BY Zenon, <1>5, <2>1, NodeNums
<1>7. cur(t)' = batch[n] + 1 /\ \A u \in Tenants : u # t => cached'[u] = cached[u] /\ cur(u)' = cur(u)
  BY Zenon DEF Answers, cur
<1>8. \A u \in Tenants : cur(u)' \in Nat /\ cur(u) \in Nat
  BY Zenon, <1>1 DEF Answers, cur, CType
<1>9. sock_fds' \in [Tenants -> SUBSET Nodes]
  BY Zenon, <1>1, <1>2 DEF CType
<1>10. ASSUME NEW u \in Tenants PROVE socks[u] = {m \in Peers(u) : AnswersTo(m)' > 0}
  <2>1. sock_fds[u] = {m \in Peers(u) : AnswersTo(m) > 0}
    BY Zenon, <1>1, <1>10 DEF TenantInv
  <2>2. CASE u = t
    <3>1. socks[u] = sock_fds[u] \cup {n}
      BY Zenon, <1>1, <2>2 DEF CType
    <3>2. AnswersTo(n)' > 0
      BY <1>1, <1>5
    <3>3. \A m \in Peers(u) : m \in Nodes
      BY Zenon DEF Peers
    <3>. QED  BY Zenon, <1>1, <1>5, <2>1, <2>2, <3>1, <3>2, <3>3
  <2>3. CASE u # t
    <3>1. socks[u] = sock_fds[u]
      BY Zenon, <1>1, <2>3 DEF CType
    <3>2. \A m \in Peers(u) : m \in Nodes /\ m # n
      BY Zenon, <2>3 DEF Peers
    <3>. QED  BY Zenon, <1>5, <2>1, <3>1, <3>2
  <2>. QED  BY Zenon, <2>2, <2>3
<1>11. ASSUME NEW u \in Tenants, cur(u)' > 0
       PROVE  n_cached_uses'[u] = Cardinality({m \in Peers(u) : AnswersTo(m)' = cur(u)'})
  <2>1. CASE u = t
    <3>1. {m \in Peers(u) : AnswersTo(m)' = cur(u)'} = {m \in Peers(t) : m = n \/ AnswersTo(m) = batch[n] + 1}
      <4>1. \A m \in Peers(u) : m \in Nodes
        BY Zenon DEF Peers
      <4>2. \A m \in Peers(u) : AnswersTo(m)' = cur(u)' <=> (m = n \/ AnswersTo(m) = batch[n] + 1)
        BY Zenon, <1>5, <1>7, <2>1, <4>1
      <4>. QED  BY Zenon, <2>1, <4>2
    <3>. QED  BY Zenon, <2>1, <3>1 DEF Answers
  <2>2. CASE u # t
    <3>1. n_cached_uses'[u] = n_cached_uses[u] /\ cur(u) > 0
      BY Zenon, <1>7, <1>11, <2>2 DEF Answers
    <3>2. \A m \in Peers(u) : m \in Nodes /\ m # n
      BY Zenon, <2>2 DEF Peers
    <3>3. {m \in Peers(u) : AnswersTo(m)' = cur(u)'} = {m \in Peers(u) : AnswersTo(m) = cur(u)}
      BY Zenon, <1>5, <1>7, <2>2, <3>2
    <3>. QED  BY Zenon, <1>1, <3>1, <3>3 DEF TenantInv
  <2>. QED  BY Zenon, <2>1, <2>2
<1>12. ASSUME NEW u \in N PROVE u \in Tenants /\ cur(u)' > 0 /\ n_waiting'[u] = 0
  <2>1. u \in Tenants /\ n_waiting'[u] = 0
    BY Zenon, <1>12 DEF Answers
  <2>2. CASE u = t
    BY <1>1, <1>7, <2>1, <2>2
  <2>3. CASE u # t
    <3>1. u \in to_notify \/ n_waiting[u] # 0
      BY Zenon, <2>1, <2>3, <1>12 DEF Answers
    <3>2. cur(u) # 0
      BY Zenon, <1>1, <2>1, <3>1 DEF TenantInv
    <3>. QED  BY <1>7, <1>8, <2>1, <2>3, <3>2
  <2>. QED  BY Zenon, <2>2, <2>3
<1>13. ASSUME NEW u \in ready
       PROVE  /\ u \in N /\ u \in Tenants /\ cur(u)' > 0 /\ n_waiting'[u] = 0
              /\ \A m \in Peers(u) : AnswersTo(m)' = cur(u)' /\ m \in socks[u]
  <2>1. u \in N /\ n_cached_uses'[u] = Cardinality(Peers(u))
    BY Zenon, <1>13 DEF AllAnswered
  <2>2. u \in Tenants /\ cur(u)' > 0 /\ n_waiting'[u] = 0
    BY Zenon, <1>12, <2>1
  <2>3. {m \in Peers(u) : AnswersTo(m)' = cur(u)'} = Peers(u)
    <3>. DEFINE T == {m \in Peers(u) : AnswersTo(m)' = cur(u)'}
    <3>1. T \in SUBSET Peers(u) /\ Cardinality(T) = Cardinality(Peers(u))
      BY Zenon, <1>11, <2>1, <2>2
    <3>. HIDE DEF T
    <3>2. T = Peers(u)
      BY Zenon, <3>1 DEF PeersCounted
    <3>. QED  BY Zenon, <3>2 DEF T
  <2>4. \A m \in Peers(u) : AnswersTo(m)' = cur(u)'
    BY Zenon, <2>3
  <2>5. \A m \in Peers(u) : AnswersTo(m)' > 0
    BY Zenon, <2>2, <2>4
  <2>. QED  BY Zenon, <1>10, <2>1, <2>2, <2>4, <2>5
<1>. HIDE DEF ready, socks, sent
<1>14. t \in ready \/ ~IsReady(t)'
  BY Zenon, <1>2 DEF IsReady, Answers
<1>15. ASSUME NEW u \in Tenants, cached'[u] = cached[u]
       PROVE  /\ IsReady(u)' <=> IsReady(u) \/ u \in ready
              /\ u \in ready => ~IsReady(u)
  <2>1. u \in ready => IsReady(u)'
    BY Zenon, <1>2, <1>13 DEF IsReady
  <2>2. CASE u = t
    <3>1. cur(t) # AnswersTo(n)
      <4>1. cur(t) = batch[n] + 1
        BY Zenon, <1>7, <1>15, <2>2 DEF cur
      <4>. QED  BY <1>1, <1>3, <4>1
    <3>2. ~IsReady(t)
      BY Zenon, <1>1, <3>1, ReadyAnswered
    <3>. QED  BY Zenon, <1>14, <2>1, <2>2, <3>2
  <2>3. CASE u # t
    <3>1. /\ u \in N \/ n_waiting'[u] # 0 <=> u \in to_notify \/ n_waiting[u] # 0
          /\ cur(u)' = cur(u)
      BY Zenon, <1>7, <2>3 DEF Answers
    <3>2. u \in ready => u \in N
      BY Zenon, <1>13
    <3>. QED  BY Zenon, <1>2, <2>1, <3>1, <3>2 DEF IsReady
  <2>. QED  BY Zenon, <2>2, <2>3
<1>16. ASSUME NEW m \in Nodes PROVE chan'[m] = IF tenant[m] \in ready THEN Append(sent[m], ReadyMsg) ELSE sent[m]
  <2>1. tenant[m] \in ready => m \in socks[tenant[m]]
    BY Zenon, <1>6, <1>13
  <2>2. chan'[m] = IF tenant[m] \in ready /\ m \in socks[tenant[m]] THEN Append(sent[m], ReadyMsg) ELSE sent[m]
    BY Zenon, <1>2
  <2>. QED  BY Zenon, <2>1, <2>2
<1>17. sent[n] = <<cached'[t]>> /\ \A m \in Nodes : m # n => sent[m] = chan[m]
  <2>1. Append(<<>>, cached'[t]) = <<cached'[t]>>
    BY Zenon, ShortSeqs
  <2>. QED  BY Zenon, <1>1, <1>3, <2>1 DEF CType, sent
<1>18. \A m \in Nodes : m # n => (Unread(m)' <=> Unread(m)) /\ (Awaits(m)' <=> Awaits(m))
  BY Zenon, <1>2, <1>4 DEF Unread, Awaits
<1>19. \A m \in Nodes : batch'[m] <= N_BATCHES /\ (pc'[m] \in {"wait", "hot", "end"} => batch'[m] < N_BATCHES)
  BY Zenon, <1>1, <1>2 DEF NodeInv
<1>20. NodeInv(n)'
  <2>1. Unread(n)' /\ Awaits(n)' /\ pc'[n] \notin {"wait", "done"}
    BY Zenon, <1>2, <1>3, <1>4 DEF Unread, Awaits
  <2>2. t \in ready <=> IsReady(t)'
    BY Zenon, <1>2, <1>13, <1>14 DEF IsReady
  <2>3. chan'[n] = IF IsReady(t)' THEN <<cached'[t], ReadyMsg>> ELSE <<cached'[t]>>
    BY Zenon, <1>16, <1>17, <2>2, AppendSecond
  <2>4. ChanInv(n)'
    BY Zenon, <2>1, <2>3 DEF ChanInv, ReadyMsg
  <2>. QED  BY Zenon, <1>4, <1>5, <1>7, <1>19, <2>1, <2>4 DEF NodeInv
<1>21. ASSUME NEW m \in Nodes, m # n, cached'[tenant[m]] = cached[tenant[m]] PROVE NodeInv(m)'
  <2>. DEFINE u == tenant[m]
  <2>1. /\ u \in Tenants /\ NodeInv(m) /\ cur(u)' = cur(u) /\ blk(u)' = blk(u) /\ AnswersTo(m)' = AnswersTo(m)
        /\ req'[m] = req[m] /\ pc'[m] = pc[m] /\ batch'[m] = batch[m] /\ block_num'[m] = block_num[m]
    BY Zenon, <1>1, <1>2, <1>4, <1>5, <1>6, <1>21 DEF cur, blk
  <2>2. /\ IsReady(u)' <=> IsReady(u) \/ u \in ready
        /\ u \in ready => ~IsReady(u)
    BY Zenon, <1>15, <1>21, <2>1
  <2>3. (Unread(m)' <=> Unread(m)) /\ (Awaits(m)' <=> Awaits(m))
    BY Zenon, <1>18, <1>21
  <2>4. u \in ready => Awaits(m)
    <3>. SUFFICES ASSUME u \in ready PROVE Awaits(m)
      BY Zenon
    <3>1. AnswersTo(m) = cur(u) /\ cur(u) > 0
      BY Zenon, <1>6, <1>13, <2>1
    <3>2. cur(u) # 0
      BY <3>1
    <3>. QED  BY Zenon, <2>2, <3>1, <3>2, NodeNums
  <2>5. ChanInv(m)'
    <3>1. ChanInv(m)
      BY Zenon, <2>1 DEF NodeInv
    <3>2. CASE u \notin ready
      <4>1. chan'[m] = chan[m] /\ (IsReady(u)' <=> IsReady(u))
        BY Zenon, <1>16, <1>17, <1>21, <2>2, <3>2
      <4>. QED  BY Zenon, <1>21, <2>1, <2>3, <3>1, <4>1 DEF ChanInv, ReadyMsg
    <3>3. CASE u \in ready
      <4>1. chan'[m] = Append(chan[m], ReadyMsg) /\ IsReady(u)' /\ ~IsReady(u) /\ Awaits(m)
        BY Zenon, <1>16, <1>17, <1>21, <2>2, <2>4, <3>3
      <4>2. CASE Unread(m)
        <5>1. pc[m] \notin {"wait", "done"}
          BY Zenon, <4>2 DEF Unread
        <5>2. chan[m] = <<cached[u]>>
          BY Zenon, <3>1, <4>1, <4>2 DEF ChanInv
        <5>3. chan'[m] = <<cached[u], ReadyMsg>>
          BY Zenon, <4>1, <5>2, AppendSecond
        <5>. QED  BY Zenon, <1>21, <2>1, <2>3, <4>1, <4>2, <5>1, <5>3 DEF ChanInv, ReadyMsg
      <4>3. CASE ~Unread(m)
        <5>1. pc[m] \in {"wait", "done"}
          BY Zenon, <4>1, <4>3 DEF Awaits
        <5>2. chan[m] = <<>>
          BY Zenon, <3>1, <4>1, <5>1 DEF ChanInv
        <5>3. chan'[m] = <<ReadyMsg>>
          BY Zenon, <4>1, <5>2, ShortSeqs
        <5>. QED  BY Zenon, <2>1, <2>3, <4>1, <4>3, <5>3 DEF ChanInv, ReadyMsg
      <4>. QED  BY Zenon, <4>2, <4>3
    <3>. QED  BY Zenon, <3>2, <3>3
  <2>6. AnswersTo(m)' = cur(u)' \/ (AnswersTo(m)' + 1 = cur(u)' /\ ~Awaits(m)' /\ pc'[m] # "hot")
    BY Zenon, <2>1, <2>3 DEF NodeInv
  <2>7. AnswersTo(m)' = cur(u)' /\ ~Unread(m)' => block_num'[m] = IF cur(u)' = 0 THEN NO_BLOCK ELSE blk(u)'
    BY Zenon, <2>1, <2>3 DEF NodeInv
  <2>8. AnswersTo(m)' = cur(u)' /\ ~Awaits(m)' => cur(u)' = 0 \/ IsReady(u)'
    BY Zenon, <2>1, <2>2, <2>3 DEF NodeInv
  <2>9. req'[m] # <<>> => /\ pc'[m] = "recv"
                          /\ req'[m] = <<[batch_num |-> 1 + batch'[m], blk_to_free |-> block_num'[m]]>>
    BY Zenon, <2>1 DEF NodeInv
  <2>. QED  BY Zenon, <1>19, <2>5, <2>6, <2>7, <2>8, <2>9 DEF NodeInv
<1>22. ASSUME NEW m \in Nodes, m # n, cached'[tenant[m]] # cached[tenant[m]] PROVE NodeInv(m)'
  <2>1. tenant[m] = t /\ m \in Peers(t)
    BY Zenon, <1>6, <1>7, <1>22
  <2>2. AnswersTo(m) = batch[n] /\ ~Awaits(m) /\ pc[m] # "hot"
    BY Zenon, <1>22, <2>1 DEF Answers
  <2>3. AnswersTo(m)' = batch[n] /\ ~Awaits(m)' /\ pc'[m] # "hot" /\ AnswersTo(m)' # cur(t)' /\ ~Unread(m)' /\ pc'[m] \notin {"wait", "done"}
    <3>1. AnswersTo(m)' # cur(t)'
      BY <1>1, <1>5, <1>7, <1>22, <2>2
    <3>. QED  BY Zenon, <1>2, <1>5, <1>18, <1>22, <2>2, <3>1 DEF Awaits
  <2>4. chan[m] = <<>> /\ NodeInv(m)
    BY Zenon, <1>1, <2>2 DEF NodeInv, ChanInv
  <2>5. t \notin ready
    BY Zenon, <1>13, <2>1, <2>3
  <2>6. chan'[m] = <<>>
    BY Zenon, <1>16, <1>17, <1>22, <2>1, <2>4, <2>5
  <2>7. ChanInv(m)'
    BY Zenon, <2>3, <2>6 DEF ChanInv
  <2>8. req'[m] # <<>> => /\ pc'[m] = "recv"
                          /\ req'[m] = <<[batch_num |-> 1 + batch'[m], blk_to_free |-> block_num'[m]]>>
    BY Zenon, <1>2, <1>4, <1>22, <2>4 DEF NodeInv
  <2>. QED  BY Zenon, <1>7, <1>19, <2>1, <2>3, <2>7, <2>8 DEF NodeInv
<1>23. ASSUME NEW u \in Tenants PROVE TenantInv(u)'
  <2>1. cur(u)' = 0 => u \notin to_notify' /\ n_waiting'[u] = 0
    <3>. SUFFICES ASSUME cur(u)' = 0 PROVE u \notin to_notify' /\ n_waiting'[u] = 0
      BY Zenon
    <3>1. u # t
      BY <1>1, <1>7
    <3>2. u \notin to_notify /\ n_waiting[u] = 0
      BY Zenon, <1>1, <1>7, <3>1 DEF TenantInv
    <3>. QED  BY Zenon, <1>2, <3>1, <3>2 DEF Answers
  <2>2. cur(u)' > 0 => /\ \E p \in DOMAIN block_queue'[blk(u)'] : block_queue'[blk(u)'][p] = u
                       /\ n_cached_uses'[u] = Cardinality({m \in Peers(u) : AnswersTo(m)' = cur(u)'})
    BY Zenon, <1>11 DEF Answers
  <2>3. u \in to_notify' => n_waiting'[u] = 0
    BY Zenon, <1>2, <1>12
  <2>4. IsReady(u)' => \A m \in Peers(u) : AnswersTo(m)' = cur(u)'
    <3>1. CASE u \in ready
      BY Zenon, <1>13, <3>1
    <3>2. CASE u \notin ready
      <4>1. u = t => ~IsReady(u)'
        BY Zenon, <1>14, <3>2
      <4>2. CASE u # t
        <5>1. cached'[u] = cached[u] /\ cur(u)' = cur(u)
          BY Zenon, <1>7, <4>2
        <5>2. IsReady(u)' => \A m \in Peers(u) : AnswersTo(m) = cur(u)
          BY Zenon, <1>1, <1>15, <3>2, <5>1 DEF TenantInv
        <5>3. \A m \in Peers(u) : m \in Nodes /\ m # n
          BY Zenon, <4>2 DEF Peers
        <5>. QED  BY Zenon, <1>5, <5>1, <5>2, <5>3
      <4>. QED  BY Zenon, <4>1, <4>2
    <3>. QED  BY Zenon, <3>1, <3>2
  <2>5. sock_fds'[u] = {m \in Peers(u) : AnswersTo(m)' > 0}
    BY Zenon, <1>2, <1>10
  <2>6. Peers(u)' = Peers(u)
    BY Zenon DEF Peers
  <2>. QED  BY Zenon, <2>1, <2>2, <2>3, <2>4, <2>5, <2>6 DEF TenantInv
<1>24. CType'
  <2>1. req' \in [Nodes -> Seq([batch_num : Nat, blk_to_free : Blocks \cup {NO_BLOCK}])]
    <3>1. Tail(req[n]) \in Seq([batch_num : Nat, blk_to_free : Blocks \cup {NO_BLOCK}])
      <4>1. \A S : <<>> \in Seq(S)
        OBVIOUS
      <4>. QED  BY Zenon, <1>3, <4>1
    <3>. QED  BY Zenon, <1>1, <1>2, <3>1 DEF CType
  <2>2. cached'[t] \in Message /\ ReadyMsg \in Message
    BY Zenon, <1>1 DEF Answers, Message, ReadyMsg, Ready
  <2>3. sent \in [Nodes -> Seq(Message)]
    <3>1. Append(chan[n], cached'[t]) \in Seq(Message)
      BY Zenon, <1>1, <2>2, AppendIs DEF CType
    <3>. QED  BY Zenon, <1>1, <3>1 DEF CType, sent
  <2>4. \A m \in Nodes : chan'[m] \in Seq(Message)
    <3>. SUFFICES ASSUME NEW m \in Nodes PROVE chan'[m] \in Seq(Message)
      BY Zenon
    <3>1. sent[m] \in Seq(Message)
      BY Zenon, <2>3
    <3>2. Append(sent[m], ReadyMsg) \in Seq(Message)
      BY Zenon, <2>2, <3>1, AppendIs
    <3>. QED  BY Zenon, <1>16, <3>1, <3>2
  <2>5. chan' \in [Nodes -> Seq(Message)]
    BY Zenon, <1>2, <2>4
  <2>6. to_notify' \subseteq Tenants
    BY Zenon, <1>2 DEF Answers
  <2>. QED  BY Zenon, <1>1, <1>2, <1>9, <2>1, <2>5, <2>6 DEF CType, Answers
<1>25. PeerInv' /\ QueueInv'
  BY Zenon, <1>2 DEF CInv, PeerInv, Answers
<1>. QED  BY Zenon, <1>20, <1>21, <1>22, <1>23, <1>24, <1>25 DEF CInv

-----------------------------------------------------------------------------
(* The two kinds of request.                                                *)

\* A request for the batch that the tenant has already been given.
LEMMA CachedAnswers ==
  ASSUME PeersCounted, CInv, NEW n \in Nodes, AnswerCached(n)
  PROVE  Answers(n, to_notify)
<1>. DEFINE t == tenant[n]
<1>1. /\ CType /\ t \in Tenants /\ batch[n] \in Nat /\ TenantInv(t) /\ cur(t) \in Nat
      /\ \A u \in Tenants : TenantInv(u)
      /\ n \in Peers(t)
  BY Zenon, NodeNums DEF CInv
<1>2. /\ req[n] # <<>> /\ ~IsNewBatch(n)
      /\ Respond(n, cached[t], [n_cached_uses EXCEPT ![t] = @ + 1], to_notify)
      /\ block_queue' = block_queue /\ n_waiting' = n_waiting /\ cached' = cached
  BY Zenon DEF AnswerCached
<1>3. n_cached_uses' = [n_cached_uses EXCEPT ![t] = @ + 1]
  BY Zenon, <1>2 DEF Respond
<1>4. Head(req[n]).batch_num = 1 + batch[n] /\ AnswersTo(n) = batch[n]
  <2>1. Head(req[n]) = [batch_num |-> 1 + batch[n], blk_to_free |-> block_num[n]] /\ AnswersTo(n) = batch[n]
    BY Zenon, Asker, <1>2
  <2>. QED  BY <2>1
<1>5. cur(t) = batch[n] + 1 /\ cur(t) # 0 /\ cur(t) > 0
  BY <1>1, <1>2, <1>4 DEF IsNewBatch, cur
<1>6. t \in to_notify \/ n_waiting[t] # 0
  <2>1. AnswersTo(n) # cur(t)
    BY <1>1, <1>4, <1>5
  <2>2. ~IsReady(t)
    BY Zenon, <1>1, <2>1, ReadyAnswered
  <2>. QED  BY Zenon, <1>5, <2>2 DEF IsReady
<1>7. n_cached_uses'[t] = Cardinality({m \in Peers(t) : m = n \/ AnswersTo(m) = batch[n] + 1})
  <2>. DEFINE S == {m \in Peers(t) : AnswersTo(m) = cur(t)}
  <2>1. n_cached_uses[t] = Cardinality(S)
    BY Zenon, <1>1, <1>5 DEF TenantInv
  <2>2. n \notin S
    BY <1>1, <1>4, <1>5
  <2>3. S \in SUBSET Peers(t)
    BY Zenon
  <2>4. {m \in Peers(t) : m = n \/ AnswersTo(m) = batch[n] + 1} = S \cup {n}
    BY Zenon, <1>1, <1>5
  <2>5. n_cached_uses'[t] = n_cached_uses[t] + 1
    BY Zenon, <1>1, <1>3 DEF CType
  <2>. HIDE DEF S
  <2>6. Cardinality(S \cup {n}) = Cardinality(S) + 1
    BY Zenon, <2>2, <2>3 DEF PeersCounted
  <2>. QED  BY Zenon, <2>1, <2>4, <2>5, <2>6
<1>8. \A m \in Peers(t) : m # n =>
        \/ AnswersTo(m) = batch[n] + 1 /\ cached' = cached
        \/ AnswersTo(m) = batch[n] /\ ~Awaits(m) /\ pc[m] # "hot"
  <2>. SUFFICES ASSUME NEW m \in Peers(t), AnswersTo(m) # batch[n] + 1
                PROVE  AnswersTo(m) = batch[n] /\ ~Awaits(m) /\ pc[m] # "hot"
    BY Zenon, <1>2
  <2>1. m \in Nodes /\ tenant[m] = t
    BY Zenon DEF Peers
  <2>2. AnswersTo(m) # cur(tenant[m]) /\ AnswersTo(m) = batch[n]
    BY <1>1, <1>5, <2>1, NodeNums
  <2>. QED  BY Zenon, <2>1, <2>2, NodeNums
<1>9. n_cached_uses' \in [Tenants -> Nat]
  BY <1>1, <1>3 DEF CType
<1>10. \A u \in Tenants : u # t => n_cached_uses'[u] = n_cached_uses[u]
  BY Zenon, <1>1, <1>3 DEF CType
<1>11. cur(t)' = batch[n] + 1 /\ \A u : cur(u)' = cur(u) /\ blk(u)' = blk(u)
  BY Zenon, <1>2, <1>5 DEF cur, blk
<1>12. QueueInv'
  BY Zenon, <1>2, <1>11 DEF CInv, QueueInv
<1>13. \A u \in Tenants : cur(u)' > 0 =>
         \E p \in DOMAIN block_queue'[blk(u)'] : block_queue'[blk(u)'][p] = u
  BY Zenon, <1>1, <1>2, <1>11 DEF TenantInv
<1>14. \A u \in to_notify : n_waiting'[u] = 0
  BY Zenon, <1>1, <1>2 DEF CType, TenantInv
<1>15. Respond(n, cached'[t], n_cached_uses', to_notify)
  BY Zenon, <1>2, <1>3
<1>16. t \in to_notify \/ n_waiting'[t] # 0
  BY Zenon, <1>2, <1>6
<1>17. /\ block_queue' \in [Blocks -> Seq(Tenants)]
       /\ n_waiting' \in [Tenants -> {0, 1}]
       /\ to_notify \subseteq Tenants
       /\ cached' \in [Tenants -> [batch_num : Nat, alloced_blk_id : Blocks]]
  BY Zenon, <1>1, <1>2 DEF CType
<1>. QED  BY Zenon, <1>2, <1>7, <1>8, <1>9, <1>10, <1>11, <1>12, <1>13, <1>14, <1>15, <1>16, <1>17 DEF Answers

\* The queues and notifications with tenant t out of them: everybody else is as
\* ready, or as far from it, as in the state.
Without(h, t) ==
  /\ h.queue \in [Blocks -> Seq(Tenants)] /\ h.waiting \in [Tenants -> {0, 1}] /\ h.notify \subseteq Tenants
  /\ h.waiting[t] = 0 /\ t \notin h.notify
  /\ \A b \in Blocks : \A p \in DOMAIN h.queue[b] :
       LET u == h.queue[b][p] IN
       /\ u # t /\ cur(u) > 0 /\ blk(u) = b
       /\ h.waiting[u] = 0 <=> p = 1
       /\ \A s \in DOMAIN h.queue[b] : h.queue[b][s] = u => s = p
  /\ \A u \in Tenants : u # t =>
       /\ u \in h.notify \/ h.waiting[u] # 0 <=> u \in to_notify \/ n_waiting[u] # 0
       /\ cur(u) > 0 => \E p \in DOMAIN h.queue[blk(u)] : h.queue[blk(u)][p] = u
  /\ \A u \in h.notify : h.waiting[u] = 0

\* The first element of a sequence and the rest.
LEMMA TailFacts ==
  ASSUME NEW S, NEW q \in Seq(S), q # <<>>
  PROVE  /\ Len(q) \in Nat /\ DOMAIN q = 1 .. Len(q) /\ 1 \in DOMAIN q
         /\ Tail(q) \in Seq(S) /\ DOMAIN Tail(q) = 1 .. Len(q) - 1
         /\ \A k \in DOMAIN Tail(q) : k + 1 \in DOMAIN q /\ Tail(q)[k] = q[k + 1]
         /\ \A p \in DOMAIN q : p # 1 => p - 1 \in DOMAIN Tail(q) /\ Tail(q)[p - 1] = q[p]
         /\ Tail(q) # <<>> => 1 \in DOMAIN Tail(q) /\ Head(Tail(q)) = Tail(q)[1]
OBVIOUS

\* A new element at the end of a sequence.
LEMMA AppendFacts ==
  ASSUME NEW S, NEW q \in Seq(S), NEW x \in S
  PROVE  /\ Append(q, x) \in Seq(S) /\ Len(q) \in Nat /\ DOMAIN q = 1 .. Len(q)
         /\ DOMAIN Append(q, x) = 1 .. Len(q) + 1
         /\ \A k \in DOMAIN q : k \in DOMAIN Append(q, x) /\ Append(q, x)[k] = q[k]
         /\ Append(q, x)[Len(q) + 1] = x
         /\ \A k \in DOMAIN Append(q, x) : k \in DOMAIN q \/ k = Len(q) + 1
         /\ q # <<>> <=> Len(q) # 0
OBVIOUS

\* handle_free takes a tenant that is ready out of the queues: the next one of its
\* block joins to_notify when its wait ends.
LEMMA FreeWithout ==
  ASSUME CInv, NEW t \in Tenants, IsReady(t)
  PROVE  Without(handle_free(Handle, blk(t)), t)
<1>. DEFINE b == blk(t)
            Q == block_queue[b]
            h == handle_free(Handle, b)
<1>1. CType /\ QueueInv /\ \A u \in Tenants : TenantInv(u)
  BY Zenon DEF CInv
<1>2. b \in Blocks /\ Q \in Seq(Tenants) /\ cur(t) > 0 /\ n_waiting[t] = 0 /\ t \notin to_notify
  BY Zenon, <1>1 DEF CType, IsReady, blk
<1>3. PICK p0 \in DOMAIN Q : Q[p0] = t
  BY Zenon, <1>1, <1>2 DEF TenantInv
<1>4. p0 = 1
  BY Zenon, <1>1, <1>2, <1>3 DEF QueueInv
<1>5. Q # <<>>
  BY <1>3
<1>6. Q[1] = t /\ \A p \in DOMAIN Q : p # 1 => Q[p] # t /\ n_waiting[Q[p]] # 0
  <2>1. Q[1] = t /\ \A p \in DOMAIN Q : (n_waiting[Q[p]] = 0 <=> p = 1)
    BY Zenon, <1>1, <1>2, <1>3, <1>4 DEF QueueInv
  <2>. QED  BY Zenon, <1>2, <2>1
<1>7. /\ Tail(Q) \in Seq(Tenants)
      /\ \A k \in DOMAIN Tail(Q) : k \in Nat /\ k + 1 # 1 /\ k + 1 \in DOMAIN Q /\ Tail(Q)[k] = Q[k + 1]
      /\ \A p \in DOMAIN Q : p # 1 => p - 1 \in DOMAIN Tail(Q) /\ Tail(Q)[p - 1] = Q[p]
  BY <1>2, <1>5, TailFacts
<1>8. \A c \in Blocks : \A p \in DOMAIN block_queue[c] :
        /\ cur(block_queue[c][p]) > 0 /\ blk(block_queue[c][p]) = c
        /\ n_waiting[block_queue[c][p]] = 0 <=> p = 1
        /\ \A s \in DOMAIN block_queue[c] : block_queue[c][s] = block_queue[c][p] => s = p
  BY Zenon, <1>1 DEF QueueInv
<1>9. \A u \in Tenants : u # t /\ cur(u) > 0 =>
        IF blk(u) = b THEN \E k \in DOMAIN Tail(Q) : Tail(Q)[k] = u
        ELSE \E p \in DOMAIN block_queue[blk(u)] : block_queue[blk(u)][p] = u
  <2>. SUFFICES ASSUME NEW u \in Tenants, u # t, cur(u) > 0
                PROVE  IF blk(u) = b THEN \E k \in DOMAIN Tail(Q) : Tail(Q)[k] = u
                       ELSE \E p \in DOMAIN block_queue[blk(u)] : block_queue[blk(u)][p] = u
    BY Zenon
  <2>1. PICK p \in DOMAIN block_queue[blk(u)] : block_queue[blk(u)][p] = u
    BY Zenon, <1>1 DEF TenantInv
  <2>2. blk(u) = b => p # 1
    BY Zenon, <1>6, <2>1
  <2>. QED  BY ZenonT(60), <1>7, <2>1, <2>2
<1>10. /\ Handle.queue = block_queue /\ Handle.waiting = n_waiting /\ Handle.notify = to_notify
       /\ h.queue = [block_queue EXCEPT ![b] = Tail(Q)]
  <2>1. Handle.queue = block_queue /\ Handle.waiting = n_waiting /\ Handle.notify = to_notify
    BY Zenon DEF Handle
  <2>2. h.queue = [Handle.queue EXCEPT ![b] = Tail(Handle.queue[b])]
    BY Zenon DEF handle_free, Handle
  <2>. QED  BY Zenon, <2>1, <2>2
<1>11. h.queue \in [Blocks -> Seq(Tenants)] /\ h.queue[b] = Tail(Q) /\ \A c \in Blocks : c # b => h.queue[c] = block_queue[c]
  <2>1. block_queue \in [Blocks -> Seq(Tenants)]
    BY Zenon, <1>1 DEF CType
  <2>. QED  BY ZenonT(60), <1>2, <1>7, <1>10, <2>1
<1>12. \A u \in Tenants : u # t => (cur(u) > 0 => \E p \in DOMAIN h.queue[blk(u)] : h.queue[blk(u)][p] = u)
  <2>1. \A u \in Tenants : blk(u) \in Blocks
    BY Zenon, <1>1 DEF CType, blk
  <2>. HIDE DEF h
  <2>. QED  BY Zenon, <1>9, <1>11, <2>1
<1>13. CASE Tail(Q) = <<>>
  <2>1. h.waiting = n_waiting /\ h.notify = to_notify
    BY Zenon, <1>13 DEF handle_free, Handle
  <2>2. DOMAIN Tail(Q) = {}
    BY <1>13
  <2>. HIDE DEF h, b
  <2>3. ASSUME NEW c \in Blocks, NEW p \in DOMAIN h.queue[c]
        PROVE  /\ h.queue[c][p] # t /\ cur(h.queue[c][p]) > 0 /\ blk(h.queue[c][p]) = c
               /\ h.waiting[h.queue[c][p]] = 0 <=> p = 1
               /\ \A s \in DOMAIN h.queue[c] : h.queue[c][s] = h.queue[c][p] => s = p
    <3>1. c # b
      BY Zenon, <1>11, <2>2, <2>3
    <3>2. b = blk(t)
      BY Zenon DEF b
    <3>. QED  BY <1>8, <1>11, <2>1, <2>3, <3>1, <3>2
  <2>4. \A u \in to_notify : n_waiting[u] = 0
    BY Zenon, <1>1 DEF CType, TenantInv
  <2>5. Without(h, t)
    BY Zenon, <1>1, <1>2, <1>11, <1>12, <2>1, <2>3, <2>4 DEF Without, CType
  <2>. QED  BY Zenon, <2>5 DEF h, b
<1>14. CASE Tail(Q) # <<>>
  <2>. DEFINE next == Tail(Q)[1]
  <2>1. 1 \in DOMAIN Tail(Q) /\ Head(Tail(Q)) = next
    BY Zenon, <1>2, <1>5, <1>14, TailFacts
  <2>2. next = Q[2] /\ 2 \in DOMAIN Q /\ next # t /\ n_waiting[next] # 0 /\ next \in Tenants
    BY <1>2, <1>6, <1>7, <2>1
  <2>3. n_waiting[next] = 1
    BY Zenon, <1>1, <2>2 DEF CType
  <2>4. h.waiting = [n_waiting EXCEPT ![next] = 0] /\ h.notify = to_notify \cup {next}
    <3>1. h.waiting = [Handle.waiting EXCEPT ![Head(Tail(Q))] = Handle.waiting[Head(Tail(Q))] - 1]
      BY Zenon, <1>14, <1>10 DEF handle_free
    <3>2. h.notify = IF Handle.waiting[Head(Tail(Q))] - 1 = 0 THEN Handle.notify \cup {Head(Tail(Q))} ELSE Handle.notify
      BY Zenon, <1>14, <1>10 DEF handle_free
    <3>3. n_waiting[next] - 1 = 0
      BY <2>3
    <3>. QED  BY Zenon, <1>10, <2>1, <3>1, <3>2, <3>3
  <2>5. /\ h.waiting \in [Tenants -> {0, 1}] /\ h.waiting[next] = 0
        /\ \A u \in Tenants : u # next => h.waiting[u] = n_waiting[u]
    BY Zenon, <1>1, <2>2, <2>4 DEF CType
  <2>6. blk(next) = b
    BY <1>2, <1>8, <2>2
  <2>. HIDE DEF h, b, next
  <2>7. b = blk(t)
    BY Zenon DEF b
  <2>8. ASSUME NEW c \in Blocks, NEW p \in DOMAIN h.queue[c]
        PROVE  /\ h.queue[c][p] # t /\ cur(h.queue[c][p]) > 0 /\ blk(h.queue[c][p]) = c
               /\ h.waiting[h.queue[c][p]] = 0 <=> p = 1
               /\ \A s \in DOMAIN h.queue[c] : h.queue[c][s] = h.queue[c][p] => s = p
    <3>0. h.queue[c][p] \in Tenants
      BY <1>11, <2>8
    <3>1. CASE c # b
      BY <1>8, <1>11, <2>5, <2>6, <2>7, <2>8, <3>0, <3>1
    <3>2. CASE c = b
      <4>. DEFINE u == h.queue[c][p]
      <4>1. p \in DOMAIN Tail(Q) /\ u = Tail(Q)[p]
        BY Zenon, <1>11, <2>8, <3>2
      <4>2. p + 1 \in DOMAIN Q /\ u = Q[p + 1] /\ p + 1 # 1 /\ p \in Nat
        BY Zenon, <1>7, <4>1
      <4>3. u # t /\ cur(u) > 0 /\ blk(u) = b /\ n_waiting[u] # 0
        BY <1>2, <1>6, <1>8, <4>2
      <4>4. \A s \in DOMAIN h.queue[c] : h.queue[c][s] = u => s = p
        <5>. SUFFICES ASSUME NEW s \in DOMAIN h.queue[c], h.queue[c][s] = u PROVE s = p
          BY Zenon
        <5>1. s \in DOMAIN Tail(Q) /\ Tail(Q)[s] = u
          BY Zenon, <1>11, <3>2
        <5>2. s + 1 \in DOMAIN Q /\ Q[s + 1] = u /\ s \in Nat
          BY Zenon, <1>7, <5>1
        <5>3. s + 1 = p + 1
          BY <1>2, <1>8, <4>2, <5>2
        <5>. QED  BY <4>2, <5>2, <5>3
      <4>5. h.waiting[u] = 0 <=> p = 1
        <5>1. CASE p = 1
          BY Zenon, <2>5, <4>1, <5>1 DEF next
        <5>2. CASE p # 1
          <6>1. u # next
            BY Zenon, <1>11, <2>1, <3>2, <4>4, <5>2 DEF next
          <6>. QED  BY Zenon, <2>5, <3>0, <4>3, <5>2, <6>1
        <5>. QED  BY Zenon, <5>1, <5>2
      <4>. QED  BY Zenon, <3>2, <4>3, <4>4, <4>5
    <3>. QED  BY Zenon, <3>1, <3>2
  <2>9. ASSUME NEW u \in Tenants PROVE u \in h.notify \/ h.waiting[u] # 0 <=> u \in to_notify \/ n_waiting[u] # 0
    BY Zenon, <2>2, <2>4, <2>5 DEF next
  <2>10. \A u \in h.notify : h.waiting[u] = 0
    <3>1. \A u \in to_notify : u \in Tenants /\ n_waiting[u] = 0
      BY Zenon, <1>1 DEF CType, TenantInv
    <3>2. \A u \in h.notify : u \in to_notify \/ u = next
      BY Zenon, <2>4
    <3>. SUFFICES ASSUME NEW u \in h.notify PROVE h.waiting[u] = 0
      BY Zenon
    <3>3. CASE u = next
      BY Zenon, <2>5, <3>3
    <3>4. CASE u # next
      BY <2>5, <3>1, <3>2, <3>4
    <3>. QED  BY Zenon, <3>3, <3>4
  <2>11. h.notify \subseteq Tenants /\ t \notin h.notify /\ h.waiting[t] = 0
    BY Zenon, <1>1, <1>2, <2>2, <2>4, <2>5 DEF CType, next
  <2>12. Without(h, t)
    BY Zenon, <1>11, <1>12, <2>5, <2>8, <2>9, <2>10, <2>11 DEF Without
  <2>. QED  BY Zenon, <2>12 DEF h, b
<1>. QED  BY Zenon, <1>13, <1>14

\* A tenant that has no block yet is in no queue.
LEMMA NewWithout ==
  ASSUME CInv, NEW t \in Tenants, cur(t) = 0
  PROVE  Without(Handle, t)
<1>1. Handle.queue = block_queue /\ Handle.waiting = n_waiting /\ Handle.notify = to_notify
  BY Zenon DEF Handle
<1>2. CType /\ QueueInv /\ \A u \in Tenants : TenantInv(u)
  BY Zenon DEF CInv
<1>3. ~(cur(t) > 0)
  OBVIOUS
<1>4. n_waiting[t] = 0 /\ t \notin to_notify /\ \A u \in to_notify : n_waiting[u] = 0
  BY Zenon, <1>2 DEF CType, TenantInv
<1>. HIDE DEF Handle
<1>5. ASSUME NEW c \in Blocks, NEW p \in DOMAIN block_queue[c]
      PROVE  /\ block_queue[c][p] # t /\ cur(block_queue[c][p]) > 0 /\ blk(block_queue[c][p]) = c
             /\ n_waiting[block_queue[c][p]] = 0 <=> p = 1
             /\ \A s \in DOMAIN block_queue[c] : block_queue[c][s] = block_queue[c][p] => s = p
  BY Zenon, <1>2, <1>3, <1>5 DEF QueueInv
<1>6. \A u \in Tenants : cur(u) > 0 => \E p \in DOMAIN block_queue[blk(u)] : block_queue[blk(u)][p] = u
  BY Zenon, <1>2 DEF TenantInv
<1>. QED  BY ZenonT(60), <1>1, <1>2, <1>4, <1>5, <1>6 DEF Without, CType

\* The first request for a batch: whatever block handle_alloc finds.
LEMMA NewAnswers ==
  ASSUME PeersCounted, CInv, NEW n \in Nodes, AnswerNew(n)
  PROVE  \E N : Answers(n, N)
<1>. DEFINE t == tenant[n]
            r == Head(req[n])
            h == IF r.blk_to_free # NO_BLOCK THEN handle_free(Handle, r.blk_to_free) ELSE Handle
<1>1. /\ CType /\ t \in Tenants /\ batch[n] \in Nat /\ TenantInv(t) /\ cur(t) \in Nat
      /\ n \in Peers(t) /\ NodeInv(n)
  BY Zenon, NodeNums DEF CInv
<1>2. /\ req[n] # <<>> /\ IsNewBatch(n)
      /\ \E b \in Blocks :
           /\ block_queue' = handle_alloc(h, t, b).queue
           /\ n_waiting' = handle_alloc(h, t, b).waiting
           /\ cached' = [cached EXCEPT ![t] = [batch_num |-> r.batch_num, alloced_blk_id |-> b]]
           /\ Respond(n, cached'[t], [n_cached_uses EXCEPT ![t] = 1], handle_alloc(h, t, b).notify)
  BY Zenon DEF AnswerNew
<1>3. /\ r = [batch_num |-> 1 + batch[n], blk_to_free |-> block_num[n]]
      /\ AnswersTo(n) = batch[n] /\ ~Awaits(n) /\ ~Unread(n)
  BY Zenon, Asker, <1>2
<1>4. r.batch_num = batch[n] + 1 /\ r.blk_to_free = block_num[n]
  BY <1>1, <1>3
<1>5. cur(t) = batch[n] /\ (cur(t) = 0 \/ IsReady(t))
  <2>1. cur(t) # batch[n] + 1
    BY Zenon, <1>2, <1>4 DEF IsNewBatch, cur
  <2>2. cur(t) = AnswersTo(n)
    BY Zenon, <1>1, <1>3, <2>1, NodeNums
  <2>. QED  BY Zenon, <1>3, <2>2, NodeNums
<1>6. block_num[n] = IF cur(t) = 0 THEN NO_BLOCK ELSE blk(t)
  BY Zenon, <1>1, <1>3, <1>5 DEF NodeInv
<1>7. Without(h, t)
  <2>1. CASE cur(t) = 0
    BY Zenon, <1>1, <1>4, <1>6, <2>1, NewWithout
  <2>2. CASE cur(t) # 0
    <3>1. blk(t) # NO_BLOCK
      BY <1>1, ControlPlaneAssumption DEF CType, blk
    <3>. QED  BY Zenon, <1>1, <1>4, <1>5, <1>6, <2>2, <3>1, FreeWithout
  <2>. QED  BY Zenon, <2>1, <2>2
<1>8. \A m \in Peers(t) : m # n => AnswersTo(m) = batch[n] /\ ~Awaits(m) /\ pc[m] # "hot"
  <2>. SUFFICES ASSUME NEW m \in Peers(t) PROVE m # n => AnswersTo(m) = batch[n] /\ ~Awaits(m) /\ pc[m] # "hot"
    BY Zenon
  <2>1. m \in Nodes /\ tenant[m] = t
    BY Zenon DEF Peers
  <2>2. AnswersTo(m) = cur(t)
    <3>1. CASE cur(t) = 0
      BY <2>1, <3>1, NodeNums
    <3>2. CASE IsReady(t)
      BY Zenon, <1>1, <3>2, ReadyAnswered
    <3>. QED  BY Zenon, <1>5, <3>1, <3>2
  <2>3. CASE batch[m] = batch[n]
    BY Zenon, <1>5, <2>1, <2>2, <2>3, NodeNums
  <2>4. CASE batch[m] # batch[n]
    <3>1. batch[n] > batch[m]
      BY <1>1, <1>5, <2>1, <2>2, <2>4, NodeNums
    <3>2. pc[m] = "end"
      BY Zenon, <2>1, <3>1 DEF CInv, PeerInv
    <3>. QED  BY Zenon, <1>5, <2>2, <3>2 DEF Awaits, Unread
  <2>. QED  BY Zenon, <2>3, <2>4
<1>. HIDE DEF h, r
<1>9. PICK b \in Blocks :
        /\ block_queue' = handle_alloc(h, t, b).queue
        /\ n_waiting' = handle_alloc(h, t, b).waiting
        /\ cached' = [cached EXCEPT ![t] = [batch_num |-> r.batch_num, alloced_blk_id |-> b]]
        /\ Respond(n, cached'[t], [n_cached_uses EXCEPT ![t] = 1], handle_alloc(h, t, b).notify)
  BY ZenonT(60), <1>2
<1>. DEFINE Q == h.queue[b]
            N == handle_alloc(h, t, b).notify
<1>10. /\ block_queue' = [h.queue EXCEPT ![b] = Append(@, t)]
       /\ n_waiting' = IF Q # <<>> THEN [h.waiting EXCEPT ![t] = 1] ELSE h.waiting
       /\ N = IF Q # <<>> THEN h.notify ELSE h.notify \cup {t}
  BY Zenon, <1>9 DEF handle_alloc
<1>11. /\ cached' \in [Tenants -> [batch_num : Nat, alloced_blk_id : Blocks]]
       /\ cached'[t] = [batch_num |-> batch[n] + 1, alloced_blk_id |-> b]
       /\ \A u \in Tenants : u # t => cached'[u] = cached[u]
  <2>1. [batch_num |-> batch[n] + 1, alloced_blk_id |-> b] \in [batch_num : Nat, alloced_blk_id : Blocks]
    BY <1>1
  <2>. QED  BY Zenon, <1>1, <1>4, <1>9, <2>1 DEF CType
<1>12. /\ cur(t)' = batch[n] + 1 /\ blk(t)' = b /\ cur(t)' > 0
       /\ \A u \in Tenants : u # t => cur(u)' = cur(u) /\ blk(u)' = blk(u)
  <2>1. cur(t)' = batch[n] + 1 /\ blk(t)' = b
    BY <1>11 DEF cur, blk
  <2>2. batch[n] + 1 > 0
    BY <1>1
  <2>. QED  BY Zenon, <1>11, <2>1, <2>2 DEF cur, blk
<1>13. /\ h.queue \in [Blocks -> Seq(Tenants)] /\ h.waiting \in [Tenants -> {0, 1}] /\ h.notify \subseteq Tenants
       /\ h.waiting[t] = 0 /\ \A u \in h.notify : h.waiting[u] = 0
  BY Zenon, <1>7 DEF Without
<1>14. Q \in Seq(Tenants) /\ block_queue'[b] = Append(Q, t) /\ \A c \in Blocks : c # b => block_queue'[c] = h.queue[c]
  BY Zenon, <1>10, <1>13
<1>15. /\ Append(Q, t) \in Seq(Tenants)
       /\ \A k \in DOMAIN Q : k \in DOMAIN Append(Q, t) /\ Append(Q, t)[k] = Q[k]
       /\ Len(Q) + 1 \in DOMAIN Append(Q, t) /\ Append(Q, t)[Len(Q) + 1] = t
       /\ \A k \in DOMAIN Append(Q, t) : k \in DOMAIN Q \/ k = Len(Q) + 1
       /\ Q # <<>> <=> Len(Q) + 1 # 1
  BY <1>1, <1>14, AppendFacts
<1>16. /\ n_waiting' \in [Tenants -> {0, 1}] /\ (n_waiting'[t] = 0 <=> Q = <<>>)
       /\ \A u \in Tenants : u # t => n_waiting'[u] = h.waiting[u]
  <2>1. CASE Q # <<>>
    <3>1. n_waiting' = [h.waiting EXCEPT ![t] = 1]
      BY Zenon, <1>10, <2>1
    <3>. QED  BY <1>1, <1>13, <2>1, <3>1
  <2>2. CASE Q = <<>>
    <3>1. n_waiting' = h.waiting
      BY Zenon, <1>10, <2>2
    <3>. QED  BY Zenon, <1>13, <2>2, <3>1
  <2>. QED  BY Zenon, <2>1, <2>2
<1>. HIDE DEF N, Q
<1>17. \A c \in Blocks : \A p \in DOMAIN h.queue[c] :
         /\ h.queue[c][p] \in Tenants
         /\ h.queue[c][p] # t /\ cur(h.queue[c][p]) > 0 /\ blk(h.queue[c][p]) = c
         /\ h.waiting[h.queue[c][p]] = 0 <=> p = 1
         /\ \A s \in DOMAIN h.queue[c] : h.queue[c][s] = h.queue[c][p] => s = p
  <2>1. \A c \in Blocks : \A p \in DOMAIN h.queue[c] : h.queue[c][p] \in Tenants
    BY <1>13
  <2>. QED  BY Zenon, <1>7, <2>1 DEF Without
<1>18. QueueInv'
  <2>. SUFFICES ASSUME NEW c \in Blocks, NEW p \in DOMAIN block_queue'[c], NEW u, u = block_queue'[c][p]
                PROVE  /\ cur(u)' > 0 /\ blk(u)' = c
                       /\ n_waiting'[u] = 0 <=> p = 1
                       /\ \A s \in DOMAIN block_queue'[c] : block_queue'[c][s] = u => s = p
    BY DEF QueueInv, Blocks, cur, blk
  <2>1. CASE c # b
    <3>1. block_queue'[c] = h.queue[c]
      BY Zenon, <1>14, <2>1
    <3>2. /\ u \in Tenants /\ u # t /\ cur(u) > 0 /\ blk(u) = c /\ (h.waiting[u] = 0 <=> p = 1)
          /\ \A s \in DOMAIN h.queue[c] : h.queue[c][s] = u => s = p
      BY <1>17, <3>1
    <3>. QED  BY Zenon, <1>12, <1>16, <3>1, <3>2
  <2>2. CASE c = b
    <3>1. block_queue'[c] = Append(Q, t) /\ Q = h.queue[c]
      BY Zenon, <1>14, <2>2 DEF Q
    <3>2. CASE p \in DOMAIN Q
      <4>1. /\ u \in Tenants /\ u # t /\ cur(u) > 0 /\ blk(u) = c /\ (h.waiting[u] = 0 <=> p = 1)
            /\ \A s \in DOMAIN Q : Q[s] = u => s = p
        BY SMTT(30), <1>15, <1>17, <3>1, <3>2
      <4>2. \A s \in DOMAIN block_queue'[c] : block_queue'[c][s] = u => s = p
        BY SMTT(30), <1>15, <3>1, <4>1
      <4>. QED  BY ZenonT(60), <1>12, <1>16, <4>1, <4>2
    <3>3. CASE p = Len(Q) + 1
      <4>1. u = t
        BY Zenon, <1>15, <3>1, <3>3
      <4>2. \A s \in DOMAIN block_queue'[c] : block_queue'[c][s] = t => s = p
        BY <1>15, <1>17, <3>1, <3>3
      <4>. QED  BY Zenon, <1>12, <1>15, <1>16, <2>2, <3>3, <4>1, <4>2
    <3>. QED  BY Zenon, <1>15, <3>1, <3>2, <3>3
  <2>. QED  BY Zenon, <2>1, <2>2
<1>19. ASSUME NEW u \in Tenants, cur(u)' > 0
       PROVE  \E p \in DOMAIN block_queue'[blk(u)'] : block_queue'[blk(u)'][p] = u
  <2>1. CASE u = t
    BY Zenon, <1>12, <1>14, <1>15, <2>1
  <2>2. CASE u # t
    <3>1. PICK p \in DOMAIN h.queue[blk(u)] : h.queue[blk(u)][p] = u
      <4>1. cur(u) > 0
        BY Zenon, <1>12, <1>19, <2>2
      <4>2. \A w \in Tenants : w # t => (cur(w) > 0 => \E p \in DOMAIN h.queue[blk(w)] : h.queue[blk(w)][p] = w)
        BY Zenon, <1>7 DEF Without
      <4>. QED  BY Zenon, <2>2, <4>1, <4>2
    <3>2. blk(u)' = blk(u) /\ blk(u) \in Blocks
      BY SMTT(30), <1>1, <1>12, <2>2 DEF CType, blk
    <3>3. CASE blk(u) = b
      BY SMTT(30), <1>14, <1>15, <3>1, <3>2, <3>3 DEF Q
    <3>4. CASE blk(u) # b
      BY Zenon, <1>14, <3>1, <3>2, <3>4
    <3>. QED  BY Zenon, <3>3, <3>4
  <2>. QED  BY Zenon, <2>1, <2>2
<1>20. /\ n_cached_uses' = [n_cached_uses EXCEPT ![t] = 1] /\ Respond(n, cached'[t], n_cached_uses', N)
  <2>1. Respond(n, cached'[t], [n_cached_uses EXCEPT ![t] = 1], N)
    BY Zenon, <1>9 DEF N
  <2>2. n_cached_uses' = [n_cached_uses EXCEPT ![t] = 1]
    BY Zenon, <2>1 DEF Respond
  <2>. QED  BY Zenon, <2>1, <2>2
<1>21. /\ n_cached_uses' \in [Tenants -> Nat] /\ n_cached_uses'[t] = 1
       /\ \A u \in Tenants : u # t => n_cached_uses'[u] = n_cached_uses[u]
  BY SMTT(30), <1>1, <1>20 DEF CType
<1>22. Cardinality({m \in Peers(t) : m = n \/ AnswersTo(m) = batch[n] + 1}) = 1
  <2>1. batch[n] # batch[n] + 1
    BY <1>1
  <2>2. {m \in Peers(t) : m = n \/ AnswersTo(m) = batch[n] + 1} = {n}
    BY Zenon, <1>1, <1>8, <2>1
  <2>. QED  BY Zenon, <2>2 DEF PeersCounted
<1>23. /\ N \subseteq Tenants /\ (t \in N \/ n_waiting'[t] # 0)
       /\ \A u \in N : n_waiting'[u] = 0
  <2>1. t \notin h.notify
    BY Zenon, <1>7 DEF Without
  <2>2. CASE Q = <<>>
    <3>1. N = h.notify \cup {t} /\ n_waiting' = h.waiting
      BY Zenon, <1>10, <2>2
    <3>. QED  BY Zenon, <1>1, <1>13, <3>1
  <2>3. CASE Q # <<>>
    <3>1. N = h.notify
      BY Zenon, <1>10, <2>3
    <3>. QED  BY Zenon, <1>13, <1>16, <2>1, <2>3, <3>1
  <2>. QED  BY Zenon, <2>2, <2>3
<1>24. ASSUME NEW u \in Tenants, u # t
       PROVE  u \in N \/ n_waiting'[u] # 0 <=> u \in to_notify \/ n_waiting[u] # 0
  <2>1. u \in N <=> u \in h.notify
    BY Zenon, <1>10, <1>24
  <2>2. n_waiting'[u] = h.waiting[u]
    BY Zenon, <1>16, <1>24
  <2>. QED  BY Zenon, <1>7, <1>24, <2>1, <2>2 DEF Without
<1>25. block_queue' \in [Blocks -> Seq(Tenants)]
  BY Zenon, <1>10, <1>13, <1>14, <1>15
<1>26. Answers(n, N)
  BY Zenon, <1>2, <1>8, <1>11, <1>12, <1>16, <1>18, <1>19, <1>20, <1>21, <1>22, <1>23, <1>24, <1>25 DEF Answers
<1>. QED  BY Zenon, <1>26

\* The invariant is inductive.
LEMMA CInvStep ==
  ASSUME PeersCounted, CInv, [Next]_vars
  PROVE  CInv'
<1>1. ASSUME NEW n \in Nodes, NodeStep(n) PROVE CInv'
  BY Zenon, <1>1, NodeStepInv
<1>2. ASSUME NEW n \in Nodes, Answer(n) PROVE CInv'
  BY Zenon, <1>2, CachedAnswers, NewAnswers, RespondInv DEF Answer
<1>3. CASE UNCHANGED vars
  <2>1. /\ block_queue' = block_queue /\ n_waiting' = n_waiting /\ to_notify' = to_notify /\ cached' = cached
        /\ n_cached_uses' = n_cached_uses /\ sock_fds' = sock_fds /\ req' = req /\ chan' = chan
        /\ pc' = pc /\ batch' = batch /\ block_num' = block_num
    BY Zenon, <1>3 DEF vars, handle, info
  <2>2. \A u : cur(u)' = cur(u) /\ blk(u)' = blk(u) /\ (IsReady(u)' <=> IsReady(u))
    BY Zenon, <2>1 DEF IsReady, cur, blk
  <2>3. \A n : AnswersTo(n)' = AnswersTo(n) /\ (Unread(n)' <=> Unread(n)) /\ (Awaits(n)' <=> Awaits(n))
    BY Zenon, <2>1 DEF AnswersTo, Awaits, Unread
  <2>4. \A n \in Nodes : NodeInv(n)'
    BY Zenon, <2>1, <2>2, <2>3 DEF CInv, NodeInv, ChanInv
  <2>5. \A u \in Tenants : TenantInv(u)'
    BY ZenonT(60), <2>1, <2>2, <2>3 DEF CInv, TenantInv
  <2>6. CType' /\ PeerInv' /\ QueueInv'
    BY Zenon, <2>1, <2>2 DEF CInv, CType, PeerInv, QueueInv
  <2>. QED  BY Zenon, <2>4, <2>5, <2>6 DEF CInv
<1>. QED  BY Zenon, <1>1, <1>2, <1>3 DEF Next, Terminated

\* A node in its hot period has its tenant's block, and the tenant is ready.
LEMMA HotReady ==
  ASSUME CInv, NEW n \in Nodes, Hot(n)
  PROVE  IsReady(tenant[n]) /\ block_num[n] = blk(tenant[n])
<1>1. AnswersTo(n) = cur(tenant[n]) /\ ~Awaits(n) /\ ~Unread(n)
  BY Zenon, NodeNums DEF Hot, Awaits, Unread
<1>2. cur(tenant[n]) # 0
  BY <1>1, NodeNums DEF Hot
<1>. QED  BY Zenon, <1>1, <1>2, NodeNums DEF CInv, NodeInv

-----------------------------------------------------------------------------
(* The theorems.                                                            *)
INSTANCE FiniteSetTheorems

\* The library's theorems count the nodes of a tenant.
LEMMA PeersAreCounted == PeersCounted
<1>1. \A t : IsFiniteSet(Peers(t))
  BY Zenon, FS_Subset, ControlPlaneAssumption DEF Peers
<1>2. ASSUME NEW t, NEW S \in SUBSET Peers(t)
      PROVE  /\ IsFiniteSet(S) /\ Cardinality(S) \in Nat
             /\ Cardinality(S) = Cardinality(Peers(t)) => S = Peers(t)
  BY Zenon, <1>1, FS_Subset, FS_CardinalityType
<1>3. ASSUME NEW t, NEW S \in SUBSET Peers(t), NEW x, x \notin S
      PROVE  Cardinality(S \cup {x}) = Cardinality(S) + 1
  BY Zenon, <1>2, <1>3, FS_AddElement
<1>4. \A x : Cardinality({x}) = 1
  BY Zenon, FS_Singleton
<1>. QED  BY Zenon, <1>2, <1>3, <1>4 DEF PeersCounted

\* In every reachable state of the control plane and the nodes the invariant holds.
THEOREM ControlPlaneInvariant == Spec => []CInv
<1>1. CInv /\ [Next]_vars => CInv'
  BY Zenon, PeersAreCounted, CInvStep
<1>. QED  BY <1>1, InitCInv, PTL DEF Spec

\* No two tenants are in a hot period on the same block, and the nodes of a tenant
\* are on the same one: block_queue hands a block over only when its last tenant is
\* through with it.
THEOREM BlockExclusiveHolds == Spec => []BlockExclusive
<1>1. CInv => BlockExclusive
  <2>. SUFFICES ASSUME CInv, NEW n \in Nodes, NEW m \in Nodes, Hot(n), Hot(m)
                PROVE  tenant[n] = tenant[m] <=> block_num[n] = block_num[m]
    BY Zenon DEF BlockExclusive
  <2>. DEFINE b == blk(tenant[n])
  <2>1. /\ IsReady(tenant[n]) /\ block_num[n] = b /\ tenant[n] \in Tenants
        /\ IsReady(tenant[m]) /\ block_num[m] = blk(tenant[m]) /\ tenant[m] \in Tenants
    BY Zenon, HotReady, NodeNums
  <2>2. b \in Blocks
    BY Zenon, <2>1 DEF CInv, CType, blk
  <2>3. ASSUME NEW t \in Tenants, IsReady(t), blk(t) = b
        PROVE  block_queue[b][1] = t
    <3>1. PICK p \in DOMAIN block_queue[b] : block_queue[b][p] = t
      BY Zenon, <2>3 DEF CInv, TenantInv, IsReady
    <3>2. p = 1
      BY Zenon, <2>2, <2>3, <3>1 DEF CInv, QueueInv, IsReady
    <3>. QED  BY Zenon, <3>1, <3>2
  <2>4. block_num[n] = block_num[m] => tenant[n] = tenant[m]
    BY Zenon, <2>1, <2>3
  <2>. QED  BY Zenon, <2>1, <2>4
<1>. QED  BY <1>1, ControlPlaneInvariant, PTL

\* update_alloc reads the response to its own request and wait_sched_ready a ready
\* message: the node and the control plane agree on where a message starts.
THEOREM FramedHolds == Spec => []Framed
<1>1. CInv => Framed
  <2>. SUFFICES ASSUME CInv, NEW n \in Nodes, chan[n] # <<>>
                PROVE  /\ pc[n] = "recv" => Head(chan[n]) \in Response /\ Head(chan[n]).batch_num = 1 + batch[n]
                       /\ pc[n] = "wait" => Head(chan[n]) \in Ready
    BY Zenon DEF Framed
  <2>. DEFINE t == tenant[n]
  <2>1. NodeInv(n) /\ ChanInv(n) /\ t \in Tenants /\ cached[t] \in [batch_num : Nat, alloced_blk_id : Blocks]
    BY Zenon, NodeNums DEF CInv, CType, NodeInv
  <2>2. CASE pc[n] = "recv"
    <3>1. Unread(n) /\ Awaits(n)
      BY Zenon, <2>1, <2>2 DEF ChanInv, Awaits, Unread
    <3>2. chan[n] = IF IsReady(t) THEN <<cached[t], ReadyMsg>> ELSE <<cached[t]>>
      BY Zenon, <2>1, <3>1 DEF ChanInv
    <3>3. Head(chan[n]) = cached[t]
      <4>1. Head(<<cached[t], ReadyMsg>>) = cached[t] /\ Head(<<cached[t]>>) = cached[t]
        BY Zenon, ShortSeqs
      <4>. QED  BY Zenon, <3>2, <4>1
    <3>4. cur(t) = batch[n] + 1
      BY SMTT(30), <3>1, NodeNums
    <3>5. batch[n] \in Nat /\ batch[n] <= N_BATCHES /\ N_BATCHES \in Nat
      BY Zenon, <2>1, NodeNums, ControlPlaneAssumption DEF NodeInv
    <3>6. cached[t].batch_num = 1 + batch[n] /\ cached[t] \in Response
      BY <2>1, <3>4, <3>5 DEF cur, Response
    <3>. QED  BY Zenon, <2>2, <3>3, <3>6
  <2>3. CASE pc[n] = "wait"
    <3>1. chan[n] = <<ReadyMsg>>
      BY Zenon, <2>1, <2>3 DEF ChanInv
    <3>2. Head(chan[n]) = ReadyMsg
      BY Zenon, <3>1, ShortSeqs
    <3>3. ReadyMsg \in Ready
      BY Zenon DEF ReadyMsg, Ready
    <3>. QED  BY Zenon, <2>3, <3>2, <3>3
  <2>. QED  BY Zenon, <2>2, <2>3
<1>. QED  BY <1>1, ControlPlaneInvariant, PTL

\* The asserts of handle_free and handle_alloc: a tenant that frees a block is at the
\* front of its queue, and one that asks for a block is not waiting for one.
THEOREM HandleAssertsHold == Spec => []HandleAsserts
<1>1. CInv => HandleAsserts
  <2>. SUFFICES ASSUME CInv, NEW n \in Nodes, req[n] # <<>>, IsNewBatch(n)
                PROVE  /\ n_waiting[tenant[n]] = 0
                       /\ Head(req[n]).blk_to_free # NO_BLOCK =>
                            /\ block_queue[Head(req[n]).blk_to_free] # <<>>
                            /\ Head(block_queue[Head(req[n]).blk_to_free]) = tenant[n]
    BY Zenon DEF HandleAsserts
  <2>. DEFINE t == tenant[n]
  <2>1. /\ Head(req[n]) = [batch_num |-> 1 + batch[n], blk_to_free |-> block_num[n]]
        /\ AnswersTo(n) = batch[n] /\ ~Awaits(n) /\ ~Unread(n) /\ t \in Tenants /\ NodeInv(n) /\ TenantInv(t)
    BY Zenon, Asker, NodeNums DEF CInv
  <2>2. Head(req[n]).batch_num = 1 + batch[n] /\ Head(req[n]).blk_to_free = block_num[n]
    BY Zenon, <2>1, RequestFields
  <2>3. cur(t) = AnswersTo(n)
    <3>1. cur(t) # batch[n] + 1
      BY <2>2, NodeNums DEF IsNewBatch, cur
    <3>. QED  BY Zenon, <2>1, <3>1, NodeNums
  <2>4. CASE cur(t) = 0
    BY Zenon, <2>1, <2>2, <2>3, <2>4 DEF TenantInv, NodeInv
  <2>5. CASE cur(t) # 0
    <3>1. IsReady(t) /\ block_num[n] = blk(t)
      BY Zenon, <2>1, <2>3, <2>5 DEF NodeInv
    <3>2. blk(t) \in Blocks /\ block_queue[blk(t)] \in Seq(Tenants)
      BY Zenon, <2>1 DEF CInv, CType, blk
    <3>3. PICK p \in DOMAIN block_queue[blk(t)] : block_queue[blk(t)][p] = t
      BY Zenon, <2>1, <3>1 DEF TenantInv, IsReady
    <3>4. p = 1 /\ n_waiting[t] = 0
      BY ZenonT(60), <3>1, <3>2, <3>3 DEF CInv, QueueInv, IsReady
    <3>5. block_queue[blk(t)] # <<>> /\ Head(block_queue[blk(t)]) = t
      BY <3>2, <3>3, <3>4
    <3>. QED  BY Zenon, <2>2, <3>1, <3>4, <3>5
  <2>. QED  BY Zenon, <2>4, <2>5
<1>. QED  BY <1>1, ControlPlaneInvariant, PTL
=============================================================================
