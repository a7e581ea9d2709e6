------------------------------ MODULE OnePass ------------------------------
(***************************************************************************)
(* One-pass transactions: the packets that make_txn builds (ee/switch.cpp)  *)
(* and the second pipeline of new_p4db.p4, which executes them.             *)
(*                                                                         *)
(* A packet has one instruction per register, an index relative to a base  *)
(* offset and a write bit, and visits the registers in the order of the     *)
(* stages they are in.  Packets follow each other through the pipeline:     *)
(* many are in it at once, at different registers, and none overtakes       *)
(* another.  Before the pipeline they may be reordered in any way.          *)
(***************************************************************************)
EXTENDS Integers, FiniteSets

CONSTANTS
  Txns,
  N_REGS, N_RECORDS,         \* 72 registers of 32768 records
  SLOTS_PER_SCHED_BLOCK,
  SPAN,                      \* 2^N_OFFSET_BITS, a power of two
  Values,
  initial,                   \* register -> value that its declaration gives its records
  block_num,                 \* txn -> block of its tenant
  buffer,                    \* txn -> register -> what the packet buffer held there before
  hot_ops_pass1,             \* txn -> registers it uses -> [idx, mode, value]
  NoReply

Regs == 0 .. N_REGS - 1
Records == 0 .. N_RECORDS - 1
Op == [idx : Records, mode : {"READ", "WRITE"}, value : Values]

\* What extract_hot_cold hands over: at most one operation per register, at the
\* records of the tenant's block that get_location names.
ASSUME OnePassAssumption ==
  /\ IsFiniteSet(Txns) /\ initial \in [Regs -> Values]
  /\ buffer \in [Txns -> [Regs -> Values]]
  /\ N_REGS \in Nat /\ N_RECORDS \in Nat /\ SPAN \in Nat \ {0}
  /\ SLOTS_PER_SCHED_BLOCK \in Nat \ {0}
  /\ block_num \in [Txns -> Nat]
  /\ \A t \in Txns : block_num[t] * SLOTS_PER_SCHED_BLOCK \in Records
  /\ \A t \in Txns :
       /\ DOMAIN hot_ops_pass1[t] \subseteq Regs
       /\ \A r \in DOMAIN hot_ops_pass1[t] :
            /\ hot_ops_pass1[t][r] \in Op
            /\ hot_ops_pass1[t][r].idx \div SLOTS_PER_SCHED_BLOCK = block_num[t]

VARIABLES
  place,         \* txn -> where its packet is
  offset,        \* txn -> instrs.offset of its packet
  i,             \* txn -> register -> [idx, write], the bits of its instruction
  d,             \* txn -> register -> data of its instruction, before that what the buffer held
  stage,         \* txn -> register that its packet comes to next
  entered,       \* txn -> its place in the order in which packets entered the pipeline
  reg            \* register -> record -> value

vars == <<place, offset, i, d, stage, entered, reg>>

Places == {"node", "network", "pipeline", "replied"}

NoInstr == [idx |-> 0, write |-> FALSE]

Init ==
  /\ place = [t \in Txns |-> "node"]
  /\ offset = [t \in Txns |-> 0]
  /\ i = [t \in Txns |-> [r \in Regs |-> NoInstr]]
  /\ d = buffer
  /\ stage = [t \in Txns |-> 0]
  /\ entered = [t \in Txns |-> 0]
  /\ reg = [r \in Regs |-> [x \in Records |-> initial[r]]]

-----------------------------------------------------------------------------
(* make_txn.                                                               *)

\* Mutant: the mask is not inverted.
MutMask(t) == (block_num[t] * SLOTS_PER_SCHED_BLOCK) % SPAN

\* offset & ~((1 << N_OFFSET_BITS) - 1)
base_offset(t) ==
  LET start == block_num[t] * SLOTS_PER_SCHED_BLOCK
  IN  SPAN * (start \div SPAN)

\* The index that goes into the instruction.
RelIdx(t, r) == hot_ops_pass1[t][r].idx - base_offset(t)

\* The asserts of make_txn.
MakeTxnAsserts(t) ==
  /\ base_offset(t) < 65535
  /\ \A r \in DOMAIN hot_ops_pass1[t] : RelIdx(t, r) \in 0 .. SPAN - 1

\* idx_perm_mask of each instruction; that of a register without operation is 0.
Instrs(t) ==
  [r \in Regs |-> IF r \in DOMAIN hot_ops_pass1[t]
                  THEN [idx |-> RelIdx(t, r), write |-> hot_ops_pass1[t][r].mode = "WRITE"]
                  ELSE NoInstr]

\* A node builds the packet and sends it.  Data of registers without operation
\* are not set: they stay what the buffer held.
Send(t) ==
  /\ place[t] = "node" /\ MakeTxnAsserts(t)
  /\ place' = [place EXCEPT ![t] = "network"]
  /\ offset' = [offset EXCEPT ![t] = base_offset(t)]
  /\ i' = [i EXCEPT ![t] = Instrs(t)]
  /\ d' = [d EXCEPT ![t] = [r \in Regs |-> IF r \in DOMAIN hot_ops_pass1[t]
                                            THEN hot_ops_pass1[t][r].value ELSE d[t][r]]]
  /\ UNCHANGED <<stage, entered, reg>>

-----------------------------------------------------------------------------
(* The pipeline.                                                           *)

Entered == {t \in Txns : place[t] \in {"pipeline", "replied"}}
InPipe == {t \in Txns : place[t] = "pipeline"}

\* SwitchIngressParser: the packet carries the uid and its instructions are extracted.
Parse(t) ==
  /\ place[t] = "network"
  /\ place' = [place EXCEPT ![t] = "pipeline"]
  /\ entered' = [entered EXCEPT ![t] = Cardinality(Entered) + 1]
  /\ UNCHANGED <<offset, i, d, stage, reg>>

\* Mutant: a packet that does not wait for those before it.
MutOvertake(t) == TRUE

\* Packets come to a register in the order in which they entered.
InOrder(t) == \A u \in InPipe : entered[u] < entered[t] => stage[u] > stage[t]

\* offset ++ instrs.i_r[6:0]
Address(t, r) == SPAN * (offset[t] \div SPAN) + i[t][r].idx

\* reg_r_access.execute: the data come back as they were before the write.
Access(t) ==
  LET r == stage[t]
      x == Address(t, r)
  IN
  /\ place[t] = "pipeline" /\ stage[t] < N_REGS /\ InOrder(t)
  /\ d' = [d EXCEPT ![t] = [s \in Regs |-> IF s = r THEN reg[r][x] ELSE d[t][s]]]
  /\ reg' = [reg EXCEPT ![r] =
               [y \in Records |-> IF y = x /\ i[t][r].write THEN d[t][r] ELSE reg[r][y]]]
  /\ stage' = [stage EXCEPT ![t] = @ + 1]
  /\ UNCHANGED <<place, offset, i, entered>>

\* l2fwd finds the address of the switch and sends the packet back where it came from.
Reply(t) ==
  /\ place[t] = "pipeline" /\ stage[t] = N_REGS
  /\ place' = [place EXCEPT ![t] = "replied"]
  /\ UNCHANGED <<offset, i, d, stage, entered, reg>>

Step(t) == Send(t) \/ Parse(t) \/ Access(t) \/ Reply(t)

Next == \E t \in Txns : Step(t)

Spec == Init /\ [][Next]_vars

\* Nodes send all they have; the pipeline moves at every clock.
FairSpec == Spec /\ \A t \in Txns : WF_vars(Step(t))

-----------------------------------------------------------------------------
\* The types; everything in the pipeline has its own place in the order.
TypeOK ==
  /\ place \in [Txns -> Places]
  /\ offset \in [Txns -> Records]
  /\ i \in [Txns -> [Regs -> [idx : Nat, write : BOOLEAN]]]
  /\ d \in [Txns -> [Regs -> Values]]
  /\ stage \in [Txns -> 0 .. N_REGS]
  /\ entered \in [Txns -> Nat]
  /\ reg \in [Regs -> [Records -> Values]]

\* The operation of t on register r writes record x.
Writes(t, r, x) ==
  /\ r \in DOMAIN hot_ops_pass1[t]
  /\ hot_ops_pass1[t][r].idx = x /\ hot_ops_pass1[t][r].mode = "WRITE"

\* The packets that have yet to write record x of register r.
Pending(r, x) == {u \in InPipe : stage[u] <= r /\ Writes(u, r, x)}

\* The last of the packets S in the order e, and what a record of the registers rg
\* holds once they have written it.
Newest(S, e) == {u \in S : \A v \in S : e[v] <= e[u]}
Pick(S) == CHOOSE u \in S : TRUE
After(S, e, rg, r, x) ==
  IF S = {} THEN rg[r][x] ELSE hot_ops_pass1[Pick(Newest(S, e))][r].value

\* The packets ahead of t that have yet to write record x of register r.
Ahead(t, r, x) == {u \in Pending(r, x) : entered[u] < entered[t]}

\* What t has read, or is going to read, in register r.
Reads(t, r) ==
  LET x == hot_ops_pass1[t][r].idx
  IN  IF stage[t] > r THEN d[t][r] ELSE After(Ahead(t, r, x), entered, reg, r, x)

\* A transaction takes effect when its packet enters the pipeline: the store is what
\* the registers hold once the pipeline has run empty.
storeBar == [r \in Regs |-> [x \in Records |-> After(Pending(r, x), entered, reg, r, x)]]
replyBar == [t \in Txns |-> IF t \in Entered
                            THEN [r \in DOMAIN hot_ops_pass1[t] |-> Reads(t, r)] ELSE NoReply]

Store == INSTANCE HotStore WITH hot_ops <- hot_ops_pass1, store <- storeBar, reply <- replyBar

\* Though its packets are spread over the pipeline and carry indices relative to a
\* shared base, the switch executes every transaction atomically, on the records that
\* the layout gave it and no others.
AtomicSpec == Store!Spec

\* No packet is stuck: no assert of make_txn fails, and every packet is answered.
Replied == <>(\A t \in Txns : place[t] = "replied")
=============================================================================
