----------------------------- MODULE SwitchSim -----------------------------
(***************************************************************************)
(* The second half of the simulator in mine/fast_layout: the model of the   *)
(* ingress pipe of the switch (switch.cpp, mempool.h) under the loop of     *)
(* system_test and cc_system_test.  A packet is a slot of a pool that goes  *)
(* from an input buffer through a parser and the stages to the egress or,   *)
(* when it has passes left or found a lock taken, back to the buffer of the *)
(* recirculation port.  stats::checker records which transaction used a     *)
(* record before which.                                                     *)
(***************************************************************************)
EXTENDS SimLayout

CONSTANTS
  N_PORT_GROUPS, PORTS_PER_GROUP, IPB_SIZE, MAX_FAIL_CT,
  N_SLOTS,                   \* the size of the pool
  BACKOFF                    \* the packets of a buffer that is almost full

Ports == 0 .. N_PORT_GROUPS * PORTS_PER_GROUP - 1
Groups == 0 .. N_PORT_GROUPS - 1
RECIRC_PORT == N_PORT_GROUPS
Bufs == Groups \cup {RECIRC_PORT}
Slots == 1 .. N_SLOTS
NoSlot == 0
NoTxn == 0                   \* START_TXN_ID, or no holder
Locs == Regs \X (0 .. Cardinality(Keys) - 1)

ASSUME SwitchSimAssumption ==
  /\ N_PORT_GROUPS \in Nat \ {0} /\ PORTS_PER_GROUP \in Nat \ {0}
  /\ IPB_SIZE \in Nat /\ BACKOFF \in 1 .. IPB_SIZE /\ MAX_FAIL_CT \in Nat /\ N_SLOTS \in Nat

VARIABLES
  step,                      \* where the loop of main is: "send", "cycle", "recv"
  p_batch, received,
  pool, free_list, ipb, parser, ingr_pipe, mock_egress,
  regs,                      \* last_txn_id of every record
  deps,                      \* pairs that add_dep has seen
  num_ops,
  holder, locks              \* the static variables of the functions that lock

swVars == <<step, p_batch, received, pool, free_list, ipb, parser, ingr_pipe, mock_egress,
            regs, deps, num_ops, holder, locks>>
vars == <<layVars, swVars>>

Fresh == [port |-> 0, id |-> NoTxn, pass_ct |-> 0, fail_ct |-> 0, valid |-> TRUE, undo |-> {}]

Init ==
  /\ LInit
  /\ step = "send" /\ p_batch = 0 /\ received = <<>>
  /\ pool = [s \in Slots |-> Fresh]
  /\ free_list = [n \in 1 .. N_SLOTS |-> n]
  /\ ipb = [b \in Bufs |-> <<>>] /\ parser = [b \in Bufs |-> NoSlot]
  /\ ingr_pipe = [i \in Stages |-> NoSlot]
  /\ mock_egress = [p \in Ports |-> <<>>]
  /\ regs = [l \in Locs |-> NoTxn]
  /\ deps = {} /\ num_ops = 0 /\ holder = NoTxn /\ locks = {}

Sent(s) == sw_txns[pool[s].id]
N(s) == Len(Sent(s).passes)

-----------------------------------------------------------------------------
port_to_group(port) == port \div PORTS_PER_GROUP

ipb_almost_full(port) == Len(ipb[port_to_group(port)]) >= BACKOFF

\* sw_mempool_t::alloc, which asserts that a slot is free.
alloc == Head(free_list)

\* switch_t::send; the ids are given in the order of sw_txns.
send(port) ==
  /\ Len(ipb[port_to_group(port)]) < IPB_SIZE
  /\ pool' = [pool EXCEPT ![alloc] = [Fresh EXCEPT !.port = port, !.id = p_batch + 1]]
  /\ free_list' = Tail(free_list)
  /\ ipb' = [ipb EXCEPT ![port_to_group(port)] = Append(@, alloc)]

\* The first part of a round of main: the next transaction is sent.  The tests use port
\* 0 for all; here it may be any, so that the buffers compete for the pipe.
Send ==
  /\ phase = "run" /\ step = "send" /\ p_batch < Len(sw_txns)
  /\ \E port \in Ports : ~ipb_almost_full(port) /\ send(port)
  /\ p_batch' = p_batch + 1 /\ step' = "cycle"
  /\ UNCHANGED <<layVars, received, parser, ingr_pipe, mock_egress, regs, deps, num_ops, holder, locks>>

\* The buffer is almost full, or nothing is left to send.
DontSend ==
  /\ phase = "run" /\ step = "send" /\ Len(received) < Len(sw_txns)
  /\ p_batch < Len(sw_txns) => \E port \in Ports : ipb_almost_full(port)
  /\ step' = "cycle"
  /\ UNCHANGED <<layVars, p_batch, received, pool, free_list, ipb, parser, ingr_pipe, mock_egress,
                 regs, deps, num_ops, holder, locks>>

-----------------------------------------------------------------------------
\* The operations that run_reg_ops(i) carries out.
run_reg_ops(i) ==
  IF ingr_pipe[i] = NoSlot \/ ~pool[ingr_pipe[i]].valid THEN {}
  ELSE LET s == ingr_pipe[i]
           grid == Sent(s).passes[pool[s].pass_ct + 1]
       IN  {[id |-> pool[s].id, loc |-> <<r, grid[r]>>] : r \in {q \in DOMAIN grid : q[1] = i}}

RunOps ==
  LET ops == UNION {run_reg_ops(i) : i \in Stages}
  IN  /\ deps' = deps \cup {<<o.id, regs[o.loc]>> : o \in ops}
      /\ num_ops' = num_ops + Cardinality(ops)
      /\ regs' = [l \in Locs |-> IF \E o \in ops : o.loc = l
                                 THEN (CHOOSE o \in ops : o.loc = l).id ELSE regs[l]]

\* Mutant: a packet is given up while it has locks to take back.
MutGaveUp(t) == t.pass_ct = 0 /\ t.fail_ct >= MAX_FAIL_CT

\* Recirculating too long, with nothing to undo.
GaveUp(t) == t.pass_ct = 0 /\ t.fail_ct >= MAX_FAIL_CT /\ t.undo = {}

\* The packet that leaves the last stage, with the pass counted, and where it goes.
Leaver == ingr_pipe[N_STAGES - 1]
Counted == [pool[Leaver] EXCEPT !.pass_ct = IF pool[Leaver].valid THEN @ + 1 ELSE @]
Finished == Leaver # NoSlot /\ Counted.pass_ct = N(Leaver)
Rejected == Leaver # NoSlot /\ ~Finished /\ GaveUp(Counted)
Recirculates == Leaver # NoSlot /\ ~Finished /\ ~Rejected

Left ==
  IF Leaver = NoSlot THEN pool
  ELSE [pool EXCEPT ![Leaver] = IF Recirculates THEN [Counted EXCEPT !.valid = TRUE] ELSE Counted]

Egress ==
  mock_egress' = IF Finished \/ Rejected
                 THEN [mock_egress EXCEPT ![Counted.port] = Append(@, <<Finished, Leaver>>)]
                 ELSE mock_egress

-----------------------------------------------------------------------------
\* Mutant: the holder keeps the pipe after its last pass.
MutKeepPipe(s) ==
  LET t == Left[s]
  IN  /\ \/ holder = NoTxn /\ holder' = (IF N(s) >= 2 THEN t.id ELSE NoTxn)
         \/ holder = t.id /\ UNCHANGED holder
         \/ holder \notin {NoTxn, t.id} /\ UNCHANGED holder
      /\ pool' = [Left EXCEPT ![s].valid = holder \in {NoTxn, t.id}]
      /\ UNCHANGED locks

\* One transaction of several passes at a time has the whole pipe.
whole_pipe_lock(s) ==
  LET t == Left[s]
  IN  /\ \/ holder = NoTxn /\ holder' = (IF N(s) >= 2 THEN t.id ELSE NoTxn)
         \/ holder = t.id /\ holder' = (IF N(s) = t.pass_ct + 1 THEN NoTxn ELSE holder)
         \/ holder \notin {NoTxn, t.id} /\ UNCHANGED holder
      /\ pool' = [Left EXCEPT ![s].valid = holder \in {NoTxn, t.id}]
      /\ UNCHANGED locks

\* The last pass gives the locks back, in both versions with a bit for each lock; a
\* packet that prepare_txns_sw has kept has no pass between the first and the last.
ReleaseLocks(s) ==
  /\ Left[s].pass_ct = N(s) - 1
  /\ locks' = SymDiff(locks, Sent(s).locks_wanted)
  /\ pool' = [Left EXCEPT ![s].valid = TRUE]

\* The locks are checked and taken in one step.
granular_lock_OPT(s) ==
  /\ \/ /\ Left[s].pass_ct = 0 /\ locks \cap Sent(s).locks_check = {}
        /\ locks' = locks \cup Sent(s).locks_wanted
        /\ pool' = [Left EXCEPT ![s].valid = TRUE]
     \/ /\ Left[s].pass_ct = 0 /\ locks \cap Sent(s).locks_check # {}
        /\ pool' = [Left EXCEPT ![s].valid = FALSE]
        /\ UNCHANGED locks
     \/ Left[s].pass_ct # 0 /\ ReleaseLocks(s)
  /\ UNCHANGED holder

\* Mutant: a packet that failed takes back all that it wanted.
MutUndoAll(s) == Sent(s).locks_wanted

\* The locks that a packet has set and must take back: (~before) & wanted.
UndoOf(s) == Sent(s).locks_wanted \ locks

\* As the switch can do it: the locks are set before the check, and one more round
\* through the pipe takes back those that were set in vain.
granular_lock_real(s) ==
  /\ \/ /\ Left[s].pass_ct = 0 /\ Left[s].undo = {} /\ locks \cap Sent(s).locks_check = {}
        /\ locks' = locks \cup Sent(s).locks_wanted
        /\ pool' = [Left EXCEPT ![s].valid = TRUE]
     \/ /\ Left[s].pass_ct = 0 /\ Left[s].undo = {} /\ locks \cap Sent(s).locks_check # {}
        /\ locks' = locks \cup Sent(s).locks_wanted
        /\ pool' = [Left EXCEPT ![s] = [@ EXCEPT !.valid = FALSE, !.undo = UndoOf(s), !.fail_ct = @ + 1]]
     \/ /\ Left[s].pass_ct = 0 /\ Left[s].undo # {}
        /\ locks' = SymDiff(locks, Left[s].undo)
        /\ pool' = [Left EXCEPT ![s] = [@ EXCEPT !.valid = FALSE, !.undo = {}]]
     \/ Left[s].pass_ct # 0 /\ ReleaseLocks(s)
  /\ UNCHANGED holder

manage_locks(s) ==
  \/ build = "whole_pipe" /\ whole_pipe_lock(s)
  \/ build = "granular_OPT" /\ granular_lock_OPT(s)
  \/ build = "granular_real" /\ granular_lock_real(s)

-----------------------------------------------------------------------------
\* The buffers once the leaving packet is back.
Queued == IF Recirculates THEN [ipb EXCEPT ![RECIRC_PORT] = Append(@, Leaver)] ELSE ipb

\* Mutant: the buffers are served in the order of their number.
MutChosen(b) == parser[b] # NoSlot /\ \A c \in Bufs : parser[c] # NoSlot => b <= c

\* The parser that is served: recirculation first, then the first of the fullest buffers.
Chosen(b) ==
  /\ parser[b] # NoSlot
  /\ parser[RECIRC_PORT] # NoSlot => b = RECIRC_PORT
  /\ \A c \in Groups \ {b} :
       parser[c] # NoSlot /\ b # RECIRC_PORT =>
         \/ Len(Queued[c]) < Len(Queued[b])
         \/ Len(Queued[c]) = Len(Queued[b]) /\ b < c

\* ipb_to_parser for the parser just emptied and for all that are empty.
Refill(empty) ==
  LET moves == {b \in empty : Queued[b] # <<>>}
  IN  /\ parser' = [b \in Bufs |-> IF b \in moves THEN Head(Queued[b])
                                   ELSE IF b \in empty THEN NoSlot ELSE parser[b]]
      /\ ipb' = [b \in Bufs |-> IF b \in moves THEN Tail(Queued[b]) ELSE Queued[b]]

EmptyParsers == {b \in Bufs : parser[b] = NoSlot}

Shift(first) == ingr_pipe' = [i \in Stages |-> IF i = 0 THEN first ELSE ingr_pipe[i - 1]]

\* One cycle of the clock: every stage runs, the last one lets its packet go, the
\* packets move up and the parser that is chosen feeds the first stage.
run_cycle ==
  /\ phase = "run" /\ step = "cycle"
  /\ RunOps
  /\ Egress
  /\ \/ /\ EmptyParsers = Bufs
        /\ Shift(NoSlot) /\ Refill(Bufs)
        /\ pool' = Left /\ UNCHANGED <<holder, locks>>
     \/ \E b \in Bufs : /\ Chosen(b)
                        /\ manage_locks(parser[b])
                        /\ Shift(parser[b]) /\ Refill(EmptyParsers \cup {b})
  /\ step' = "recv"
  /\ UNCHANGED <<layVars, p_batch, received, free_list>>

\* sw_mempool_t::free.
free(s) == <<s>> \o free_list

\* switch_t::recv(port), and the loop goes round.
recv(port) ==
  /\ mock_egress[port] # <<>>
  /\ LET res == Head(mock_egress[port])
     IN  /\ received' = Append(received, <<res[1], pool[res[2]].id>>)
         /\ free_list' = free(res[2])
  /\ mock_egress' = [mock_egress EXCEPT ![port] = Tail(@)]

Recv ==
  /\ phase = "run" /\ step = "recv"
  /\ \/ \E port \in Ports : recv(port)
     \/ /\ \A port \in Ports : mock_egress[port] = <<>>
        /\ UNCHANGED <<received, free_list, mock_egress>>
  /\ step' = "send"
  /\ UNCHANGED <<layVars, p_batch, pool, ipb, parser, ingr_pipe, regs, deps, num_ops, holder, locks>>

\* main returns.
Done ==
  /\ phase = "run" /\ step = "send" /\ Len(received) = Len(sw_txns)
  /\ UNCHANGED vars

Next ==
  \/ LNext /\ UNCHANGED swVars
  \/ Send \/ DontSend \/ run_cycle \/ Recv \/ Done

\* The test runs alone and goes on until main returns.
Spec == Init /\ [][Next]_vars /\ WF_vars(Next)

-----------------------------------------------------------------------------
\* walk_graph finds no cycle: no set of transactions in which each has another (or
\* itself) before it.
Serial(ds) ==
  LET ids == {d[1] : d \in ds}
  IN  \A S \in SUBSET ids \ {{}} : \E t \in S : \A u \in S : <<t, u>> \notin ds

\* "Serializable history.": whatever the layout, the heuristic and the way of locking,
\* the order in which transactions of one and two passes use the records has no cycle,
\* although a second pass runs when others are in the pipe.
Serializable == Serial(deps)

\* Where a slot of the pool is.
PlacesOf(s) ==
  {<<"free", n>> : n \in {m \in DOMAIN free_list : free_list[m] = s}}
  \cup UNION {{<<"ipb", b, n>> : n \in {m \in DOMAIN ipb[b] : ipb[b][m] = s}} : b \in Bufs}
  \cup {<<"parser", b>> : b \in {c \in Bufs : parser[c] = s}}
  \cup {<<"stage", i>> : i \in {j \in Stages : ingr_pipe[j] = s}}
  \cup UNION {{<<"egress", p, n>> : n \in {m \in DOMAIN mock_egress[p] : mock_egress[p][m][2] = s}} :
                p \in Ports}

\* Every slot of the pool is in one place: free, in a buffer, a parser, a stage or the
\* egress; and the recirculation buffer, the one that is filled without a look at its
\* size, is empty after every cycle, since its parser goes first.
OnePlace ==
  /\ \A s \in Slots : Cardinality(PlacesOf(s)) = 1
  /\ ipb[RECIRC_PORT] = <<>>

\* The locks that a packet has set: those to undo, those of a first pass that is
\* running, and those of a second pass that has not yet come to the first stage.
Owned(s) ==
  LET t == pool[s]
      running == \E i \in Stages : ingr_pipe[i] = s
  IN  IF t.id = NoTxn \/ (\E n \in DOMAIN free_list : free_list[n] = s) THEN {}
      ELSE IF t.pass_ct = 0 THEN IF running /\ t.valid THEN Sent(s).locks_wanted ELSE t.undo
      ELSE IF parser[RECIRC_PORT] = s THEN Sent(s).locks_wanted ELSE {}

\* A lock that is set has exactly one packet that will take it back, and a lock that is
\* not set has none.  The assertions of granular_lock_OPT and granular_lock_real follow;
\* so does that "locks ^= ..." never sets a bit.
LocksOwned ==
  build # "whole_pipe" =>
    \A l \in Locks : Cardinality({s \in Slots : l \in Owned(s)}) = (IF l \in locks THEN 1 ELSE 0)

OpsOf(n) == MapThenSumSet(LAMBDA p : Cardinality(DOMAIN sw_txns[n].passes[p]), DOMAIN sw_txns[n].passes)

\* When main returns, every transaction was answered once, those that were accepted did
\* each of their operations once and those rejected none, and no lock is left.
AllOrNothing ==
  phase = "run" /\ step = "send" /\ Len(received) = Len(sw_txns) =>
    /\ {received[n][2] : n \in DOMAIN received} = DOMAIN sw_txns
    /\ num_ops = MapThenSumSet(LAMBDA n : OpsOf(received[n][2]),
                               {n \in DOMAIN received : received[n][1]})
    /\ locks = {} /\ holder = NoTxn

\* main returns: every transaction that was sent comes back, accepted or rejected.
Delivered == <>(phase = "run" /\ step = "send" /\ Len(received) = Len(sw_txns))
=============================================================================
