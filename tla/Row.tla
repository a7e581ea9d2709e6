-------------------------------- MODULE Row --------------------------------
(***************************************************************************)
(* The row of the table (src/src/ee/row.hpp): a reader/writer lock without *)
(* waiting, the tuple, and last_acq, the identity of the transaction that  *)
(* last released the row.  The operations are functions from rows to rows; *)
(* each one is the critical section a method runs under the row's mutex.   *)
(***************************************************************************)
EXTENDS Integers

CONSTANT USE_FLOW_ORDER    \* defs.hpp: one node may reuse a row in a mini-batch

ASSUME FlowOrderAssumption == USE_FLOW_ORDER \in BOOLEAN

AccessMode == {"INVALID", "READ", "WRITE"}

TxnId(Nodes) == [valid : BOOLEAN, node_id : Nodes, mini_batch_id : Nat]

RowType(Nodes, Values) ==
  [lock_type : AccessMode, owner_cnt : Nat,
   tuple : Values, last_acq : TxnId(Nodes)]

\* Row(): unlocked, last acquired by (valid, node 0, mini-batch 0).
NewRow(node0, value) ==
  [lock_type |-> "INVALID", owner_cnt |-> 0, tuple |-> value,
   last_acq |-> [valid |-> TRUE, node_id |-> node0, mini_batch_id |-> 0]]

\* Mutant: a reader is let in beside a writer.
MutReadDirty(row, mode) == row.lock_type = "INVALID" \/ mode # "WRITE"

is_compatible(row, mode) ==
  \/ row.lock_type = "INVALID"
  \/ row.lock_type # "WRITE" /\ mode # "WRITE"

\* The assert of mb_allow_lock: no request is older than the last release.
mb_in_order(row, id) ==
  id.valid => id.mini_batch_id >= row.last_acq.mini_batch_id

\* Mutant: the flow-order test is left out.
MutAnyNode(row, id) == TRUE

\* Within a mini-batch a row is reused by the node that released it, or, when
\* USE_FLOW_ORDER is off, by nobody.
mb_allow_lock(row, id) ==
  id.valid => ~ /\ id.mini_batch_id = row.last_acq.mini_batch_id
                /\ ~USE_FLOW_ORDER \/ id.node_id # row.last_acq.node_id

may_lock(row, mode, id) == mb_allow_lock(row, id) /\ is_compatible(row, mode)

lock(row, mode) ==
  [lock_type |-> mode, owner_cnt |-> row.owner_cnt + 1,
   tuple |-> row.tuple, last_acq |-> row.last_acq]

\* Mutant: a release frees the row although other readers still own it.
MutUnlockAll(row, mode, id) ==
  [row EXCEPT !.last_acq = id, !.owner_cnt = @ - 1, !.lock_type = "INVALID"]

\* Mutant: the last release leaves the lock type behind.
MutKeepType(row, mode, id) == [row EXCEPT !.last_acq = id, !.owner_cnt = @ - 1]

\* last_acq is written even when the mode does not match; a mismatch leaves
\* the count alone and makes local_unlock return INVALID_ACCESS_MODE.
unlock(row, mode, id) ==
  IF row.lock_type # mode
  THEN [row EXCEPT !.last_acq = id]
  ELSE [lock_type |-> IF row.owner_cnt = 1 THEN "INVALID" ELSE mode,
        owner_cnt |-> row.owner_cnt - 1,
        tuple |-> row.tuple, last_acq |-> id]
=============================================================================
