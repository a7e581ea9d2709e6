------------------------------ MODULE HotStore ------------------------------
(***************************************************************************)
(* What the switch promises for accelerated transactions: each one reads    *)
(* and writes the records of its registers in one atomic step.              *)
(***************************************************************************)
CONSTANTS
  Txns, Regs, Records, Values,
  initial,   \* register -> value of its records before any transaction
  hot_ops,   \* txn -> registers it uses -> [idx, mode, value]
  NoReply

VARIABLES
  store,     \* register -> record -> value
  reply      \* txn -> registers it uses -> value read

vars == <<store, reply>>

Init ==
  /\ store = [r \in Regs |-> [x \in Records |-> initial[r]]]
  /\ reply = [t \in Txns |-> NoReply]

Writes(t, r, x) ==
  r \in DOMAIN hot_ops[t] /\ hot_ops[t][r].idx = x /\ hot_ops[t][r].mode = "WRITE"

Execute(t) ==
  /\ reply[t] = NoReply
  /\ reply' = [reply EXCEPT ![t] =
                 [r \in DOMAIN hot_ops[t] |-> store[r][hot_ops[t][r].idx]]]
  /\ store' = [r \in Regs |-> [x \in Records |->
                 IF Writes(t, r, x) THEN hot_ops[t][r].value ELSE store[r][x]]]

Next == \E t \in Txns : Execute(t)

Spec == Init /\ [][Next]_vars
=============================================================================
