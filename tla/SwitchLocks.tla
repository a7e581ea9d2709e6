---------------------------- MODULE SwitchLocks ----------------------------
(***************************************************************************)
(* The ingress of switch_src/my_p4db.p4: transactions of one or two passes  *)
(* over the register cells, kept apart by the bits of the register my_lock. *)
(* A packet goes through the pipeline in order with the others, so that one *)
(* pass is one step; between passes it is anywhere in the recirculation     *)
(* queue, so that passes of different packets interleave in any order.      *)
(*                                                                         *)
(* Bit vectors are sets of bits: | is union, & intersection, and the        *)
(* subtraction of locks_undo is set difference because UndoHeld holds.      *)
(***************************************************************************)
EXTENDS Naturals

CONSTANTS
  Pkts, Locks, Cells,
  NoLock,                      \* lock of a cell that has none, record 0 of a register
  lock_pos,                    \* cell -> lock (DeclusteredLayout)
  pass1, pass2,                \* packet -> cells accessed in each pass
  locks_check, locks_acquire,  \* packet -> fields of lock_info (extract_hot_cold)
  FAIL_LIMIT,                  \* 8
  FAIL_WRAP                    \* 256: n_failed is bit<8>

\* What extract_hot_cold gives a packet: it checks the lock of every cell that it
\* accesses, and it acquires only locks that it checks.  Those need not be the
\* locks of its second pass: of two operations on a register the later one's is
\* acquired, whichever of them is done second.
ASSUME SwitchLocksAssumption ==
  /\ NoLock \notin Locks
  /\ lock_pos \in [Cells -> Locks \cup {NoLock}]
  /\ pass1 \in [Pkts -> SUBSET Cells] /\ pass2 \in [Pkts -> SUBSET Cells]
  /\ locks_check \in [Pkts -> SUBSET Locks] /\ locks_acquire \in [Pkts -> SUBSET Locks]
  /\ \A p \in Pkts :
       /\ locks_acquire[p] \subseteq locks_check[p]
       /\ \A c \in pass1[p] \cup pass2[p] :
            lock_pos[c] # NoLock => lock_pos[c] \in locks_check[p]
  /\ FAIL_LIMIT \in Nat /\ FAIL_WRAP \in Nat \ {0}

VARIABLES
  my_lock,         \* the lock register
  st,              \* packet -> "flying", "replied" or "refused"
  locks_undo, is_second_pass, n_failed,  \* packet -> its header fields
  ticket, tickets, \* packet -> place among the first accesses, their number
  last             \* cell -> ticket of the last packet to access it

hdrVars == <<locks_undo, is_second_pass, n_failed>>
lockVars == <<my_lock, st, hdrVars, ticket, tickets, last>>

LocksInit ==
  /\ my_lock = {}
  /\ st = [p \in Pkts |-> "flying"]
  /\ locks_undo = [p \in Pkts |-> {}]
  /\ is_second_pass = [p \in Pkts |-> FALSE]
  /\ n_failed = [p \in Pkts |-> 0]
  /\ ticket = [p \in Pkts |-> 0] /\ tickets = 0
  /\ last = [c \in Cells |-> 0]

\* Mutant: the undo takes back all that the packet asks for.
MutUndoAll(p) == my_lock \ locks_acquire[p]

\* lock_action, the undo.
LocksUndone(p) == my_lock \ locks_undo[p]

\* lock_action, the acquisition: all bits at once, held by others or not.
LocksAcquired(p) == my_lock \cup locks_acquire[p]

\* Mutant: only the locks that are acquired are checked.
MutCheckOwn(p) == my_lock \cap locks_acquire[p]

\* r: the locks in the way.
Conflict(p) == my_lock \cap locks_check[p]

\* The registers of one pass; reg_i_access of every valid header.
AccessCells(cells, t) == last' = [c \in Cells |-> IF c \in cells THEN t ELSE last[c]]

\* Mutant: the second pass accesses the registers and keeps its locks.
MutKeepLocks(p) ==
  /\ st[p] = "flying" /\ locks_undo[p] # {} /\ is_second_pass[p]
  /\ AccessCells(pass2[p], ticket[p])
  /\ st' = [st EXCEPT ![p] = "replied"]
  /\ UNCHANGED <<my_lock, hdrVars, ticket, tickets>>

\* locks_undo # 0, is_second_pass: release and finish.
SecondPass(p) ==
  /\ st[p] = "flying" /\ locks_undo[p] # {} /\ is_second_pass[p]
  /\ my_lock' = LocksUndone(p)
  /\ AccessCells(pass2[p], ticket[p])
  /\ st' = [st EXCEPT ![p] = "replied"]
  /\ UNCHANGED <<hdrVars, ticket, tickets>>

\* locks_undo # 0 after a failure: release, then try again or give up.
UndoPass(p) ==
  /\ st[p] = "flying" /\ locks_undo[p] # {} /\ ~is_second_pass[p]
  /\ my_lock' = LocksUndone(p)
  /\ \/ /\ n_failed[p] < FAIL_LIMIT
        /\ locks_undo' = [locks_undo EXCEPT ![p] = {}]
        /\ UNCHANGED st
     \/ /\ n_failed[p] >= FAIL_LIMIT
        /\ st' = [st EXCEPT ![p] = "refused"]
        /\ UNCHANGED locks_undo
  /\ UNCHANGED <<is_second_pass, n_failed, ticket, tickets, last>>

\* locks_undo = 0 and no lock in the way: access; a packet that acquired locks
\* comes back for its second pass, and one that did not is answered, whether it
\* has a second pass or not.
FirstPass(p) ==
  /\ st[p] = "flying" /\ locks_undo[p] = {} /\ Conflict(p) = {}
  /\ my_lock' = LocksAcquired(p)
  /\ locks_undo' = [locks_undo EXCEPT ![p] = locks_acquire[p]]
  /\ tickets' = tickets + 1
  /\ ticket' = [ticket EXCEPT ![p] = tickets + 1]
  /\ AccessCells(pass1[p], tickets + 1)
  /\ \/ /\ locks_acquire[p] # {}
        /\ is_second_pass' = [is_second_pass EXCEPT ![p] = TRUE]
        /\ UNCHANGED st
     \/ /\ locks_acquire[p] = {}
        /\ st' = [st EXCEPT ![p] = "replied"]
        /\ UNCHANGED is_second_pass
  /\ UNCHANGED n_failed

\* (~r) & locks_acquire: the bits this packet has set itself.
OwnLocks(p) == locks_acquire[p] \ Conflict(p)

\* Mutant: failures are not counted.
MutNoCount(p) == n_failed[p]

\* n_failed + 1, in its eight bits.
CountFailure(p) == (n_failed[p] + 1) % FAIL_WRAP

FailPass(p) ==
  /\ st[p] = "flying" /\ locks_undo[p] = {} /\ Conflict(p) # {}
  /\ my_lock' = LocksAcquired(p)
  /\ locks_undo' = [locks_undo EXCEPT ![p] = OwnLocks(p)]
  /\ n_failed' = [n_failed EXCEPT ![p] = CountFailure(p)]
  /\ UNCHANGED <<st, is_second_pass, ticket, tickets, last>>

Pass(p) == SecondPass(p) \/ UndoPass(p) \/ FirstPass(p) \/ FailPass(p)

\* The switch is idle once every packet has been answered.
Idle == (\A p \in Pkts : st[p] # "flying") /\ UNCHANGED lockVars

LocksNext == (\E p \in Pkts : Pass(p)) \/ Idle

LocksSpec == LocksInit /\ [][LocksNext]_lockVars

-----------------------------------------------------------------------------
(* Properties.                                                              *)

LocksTypeOK ==
  /\ my_lock \subseteq Locks
  /\ st \in [Pkts -> {"flying", "replied", "refused"}]
  /\ locks_undo \in [Pkts -> SUBSET Locks]
  /\ is_second_pass \in [Pkts -> BOOLEAN]
  /\ n_failed \in [Pkts -> 0 .. FAIL_WRAP - 1]
  /\ ticket \in [Pkts -> Nat] /\ tickets \in Nat
  /\ last \in [Cells -> Nat]

\* The bits that a packet on its way will take back.
Held(p) == IF st[p] = "flying" THEN locks_undo[p] ELSE {}

\* Every bit a packet will subtract is set, so that the subtraction of
\* lock_action borrows from no other bit, and no bit is taken back twice.
UndoHeld ==
  \A p \in Pkts :
    /\ Held(p) \subseteq my_lock
    /\ \A q \in Pkts : p # q => Held(p) \cap Held(q) = {}

\* No bit stays set without a packet that will clear it: my_lock is 0 again
\* once every packet has been answered, refused or not.
NoLeak == \A l \in my_lock : \E p \in Pkts : l \in Held(p)

\* The accesses of every cell come in the order of the first passes, so that
\* the passes have the effect of whole transactions run one by one in it.
Serial == [][\A c \in Cells : last'[c] >= last[c]]_lockVars

\* Every packet that comes to the cell in its second pass acquires its lock.
Protected(c) == \A p \in Pkts : c \in pass2[p] => lock_pos[c] \in locks_acquire[p]

\* The same of the cells whose second passes hold the lock of the cell: checking
\* a lock that one does not acquire keeps first passes out between the two.
ProtectedSerial == [][\A c \in Cells : Protected(c) => last'[c] >= last[c]]_lockVars

\* Every packet is answered.
Answered == <>(\A p \in Pkts : st[p] # "flying")
=============================================================================
