------------------------------ MODULE HotCold ------------------------------
(***************************************************************************)
(* extract_hot_cold (ee/hot_cold.cpp): one pass over the operations of a    *)
(* transaction moves those on hot keys to the first or, with                *)
(* MAX_PASSES_ACCEL = 2, the second pass through the switch, packs the      *)
(* others at the front of cold_ops, and collects the switch locks and the   *)
(* hottest cold operations.  Where a key is comes from the DeclusteredLayout *)
(* of Layout.  An operation is its key and its place in the trace, so that  *)
(* none can be mistaken for another.                                        *)
(***************************************************************************)
EXTENDS Layout, Sequences

CONSTANTS
  N_OPS, MAX_OPS_PASS2_ACCEL,
  Builds,                    \* the values of MAX_PASSES_ACCEL to look at
  Traces,                    \* the transactions to look at: their keys
  INVALID                    \* an entry of mode INVALID, which ends a list

Op == [id : AllKeys, pos : 1 .. N_OPS]

ASSUME HotColdAssumption ==
  /\ N_OPS \in Nat \ {0} /\ Builds \subseteq {1, 2} /\ MAX_OPS_PASS2_ACCEL \in Nat
  /\ INVALID \notin Op /\ Traces \subseteq [1 .. N_OPS -> AllKeys]

VARIABLES
  MAX_PASSES_ACCEL,          \* a constant of the build
  trace,                     \* the keys of the transaction, as loaded
  i,
  cold_ops, cold_p,          \* the array, packed in place, and its length so far
  pass1, pass2,              \* hot_ops_pass1 and hot_ops_pass2
  hot_reorder_buf,           \* registers used in pass 1 -> index in pass1
  reg_usage_2,
  locks_check, locks_acquire,
  cold1, cold2,              \* the hottest cold operations: [i, v]
  do_accel, init_done

txnVars == <<MAX_PASSES_ACCEL, trace, i, cold_ops, cold_p, pass1, pass2, hot_reorder_buf,
             reg_usage_2, locks_check, locks_acquire, cold1, cold2, do_accel, init_done>>
allVars == <<vars, txnVars>>

TInit ==
  /\ Init
  /\ MAX_PASSES_ACCEL \in Builds
  /\ trace = <<>> /\ i = 0
  /\ cold_ops = <<>> /\ cold_p = 0
  /\ pass1 = <<>> /\ pass2 = <<>>
  /\ hot_reorder_buf = << >> /\ reg_usage_2 = {}
  /\ locks_check = {} /\ locks_acquire = {}
  /\ cold1 = [i |-> 0, v |-> 0] /\ cold2 = [i |-> 0, v |-> 0]
  /\ do_accel = FALSE /\ init_done = FALSE

\* A transaction is handed to extract_hot_cold, after main has updated the layout
\* with the first block.
Load(T) ==
  /\ i = 0 /\ block_num # NO_BLOCK
  /\ trace' \in T
  /\ cold_ops' = [p \in 1 .. N_OPS |-> [id |-> trace'[p], pos |-> p]]
  /\ i' = 1 /\ do_accel' = TRUE
  /\ UNCHANGED <<MAX_PASSES_ACCEL, cold_p, pass1, pass2, hot_reorder_buf, reg_usage_2,
                 locks_check, locks_acquire, cold1, cold2, init_done>>

\* What get_location says of a key.
hot(k) == get_location(k).hot
reg(k) == get_location(k).reg
freq(k) == Location(k).dist_freq
Locks(k) == {Location(k).lock_pos} \ {NO_LOCK}

reg_usage == DOMAIN hot_reorder_buf

\* locks_check.set, if the key has a lock.
Checked(k) == locks_check \cup Locks(k)

\* Mutant: a test that never sees a register as used.
MutReuse(k) == hot(k)

\* The first hot operation on a register.
FirstUse(k) == hot(k) /\ reg(k) \notin reg_usage

ToPass1(o) ==
  /\ FirstUse(o.id)
  /\ hot_reorder_buf' = [r \in reg_usage \cup {reg(o.id)} |->
                           IF r = reg(o.id) THEN Len(pass1) + 1 ELSE hot_reorder_buf[r]]
  /\ pass1' = Append(pass1, o)
  /\ locks_check' = Checked(o.id)
  /\ UNCHANGED <<cold_ops, cold_p, pass2, reg_usage_2, locks_acquire, cold1, cold2, do_accel>>

\* The second one, where a second pass has room for it.
SecondUse(k) ==
  /\ hot(k) /\ ~FirstUse(k)
  /\ MAX_PASSES_ACCEL = 2 /\ reg(k) \notin reg_usage_2 /\ Len(pass2) < MAX_OPS_PASS2_ACCEL

\* It goes to the second pass, or takes the place of the one in the first.
ToPass2(o) ==
  LET s == hot_reorder_buf[reg(o.id)]
      first == pass1[s]
  IN  /\ SecondUse(o.id)
      /\ reg_usage_2' = reg_usage_2 \cup {reg(o.id)}
      /\ \/ /\ total_order_gt(freq(first.id), first.id, freq(o.id), o.id)
            /\ pass2' = Append(pass2, o) /\ UNCHANGED pass1
         \/ /\ ~total_order_gt(freq(first.id), first.id, freq(o.id), o.id)
            /\ pass2' = Append(pass2, first) /\ pass1' = [pass1 EXCEPT ![s] = o]
      /\ locks_check' = Checked(o.id)
      /\ locks_acquire' = locks_acquire \cup Locks(o.id)
      /\ UNCHANGED <<cold_ops, cold_p, hot_reorder_buf, cold1, cold2, do_accel>>

\* Otherwise the transaction is not accelerated.
NotAccelerated(o) ==
  /\ hot(o.id) /\ ~FirstUse(o.id) /\ ~SecondUse(o.id)
  /\ do_accel' = FALSE
  /\ pass1' = Append(pass1, o)
  /\ UNCHANGED <<cold_ops, cold_p, pass2, hot_reorder_buf, reg_usage_2,
                 locks_check, locks_acquire, cold1, cold2>>

\* A cold operation moves to the front, and the two hottest ones are noted.
ToCold(o) ==
  LET f == freq(o.id)
      here == [i |-> cold_p + 1, v |-> f]
  IN  /\ ~hot(o.id)
      /\ cold1' = IF f > cold1.v THEN here ELSE cold1
      /\ cold2' = IF f <= cold1.v /\ f > cold2.v THEN here ELSE cold2
      /\ cold_ops' = [cold_ops EXCEPT ![cold_p + 1] = o]
      /\ cold_p' = cold_p + 1
      /\ UNCHANGED <<pass1, pass2, hot_reorder_buf, reg_usage_2, locks_check,
                     locks_acquire, do_accel>>

\* One round of the loop.
Extract ==
  /\ i \in 1 .. N_OPS
  /\ \/ ToPass1(cold_ops[i]) \/ ToPass2(cold_ops[i])
     \/ NotAccelerated(cold_ops[i]) \/ ToCold(cold_ops[i])
  /\ i' = i + 1
  /\ UNCHANGED <<MAX_PASSES_ACCEL, trace, init_done>>

\* Mutant: the hot operations are not put back.
MutRestore(p) == cold_ops[p]

\* What is in cold_ops once the hot operations are put back behind the cold ones.
Restored(p) == IF p <= cold_p THEN cold_ops[p]
               ELSE IF p <= cold_p + Len(pass1) THEN pass1[p - cold_p]
               ELSE pass2[p - cold_p - Len(pass1)]

\* After the loop.
Finish ==
  /\ i > N_OPS /\ ~init_done
  /\ \/ /\ ~do_accel
        /\ cold_ops' = [p \in 1 .. N_OPS |-> Restored(p)]
        /\ pass1' = <<>> /\ pass2' = <<>>
     \/ /\ do_accel
        /\ cold_ops' = IF cold_p < N_OPS THEN [cold_ops EXCEPT ![cold_p + 1] = INVALID] ELSE cold_ops
        /\ UNCHANGED <<pass1, pass2>>
  /\ init_done' = TRUE
  /\ UNCHANGED <<MAX_PASSES_ACCEL, trace, i, cold_p, hot_reorder_buf, reg_usage_2, locks_check, locks_acquire,
                 cold1, cold2, do_accel>>

\* On to the next Txn, with the local variables as they were.
NewTxn ==
  /\ trace' = <<>> /\ i' = 0
  /\ cold_ops' = <<>> /\ cold_p' = 0
  /\ pass1' = <<>> /\ pass2' = <<>>
  /\ hot_reorder_buf' = << >> /\ reg_usage_2' = {}
  /\ locks_check' = {} /\ locks_acquire' = {}
  /\ cold1' = [i |-> 0, v |-> 0] /\ cold2' = [i |-> 0, v |-> 0]
  /\ do_accel' = FALSE /\ init_done' = FALSE
  /\ UNCHANGED MAX_PASSES_ACCEL

-----------------------------------------------------------------------------
Elems(s) == {s[p] : p \in DOMAIN s}

\* The number of cold operations that the executor sees, up to the first INVALID.
ColdLen ==
  CHOOSE l \in 0 .. N_OPS : /\ \A p \in 1 .. l : cold_ops[p] # INVALID
                            /\ l = N_OPS \/ cold_ops[l + 1] = INVALID

Cold == SubSeq(cold_ops, 1, ColdLen)

\* Packing in place, swapping between the passes and restoring lose no operation and
\* double none, and the lists add up to N_OPS as the last assert says.
NoOpLost ==
  init_done =>
    /\ Len(Cold) + Len(pass1) + Len(pass2) = N_OPS
    /\ Elems(Cold) \cup Elems(pass1) \cup Elems(pass2)
         = {[id |-> trace[p], pos |-> p] : p \in 1 .. N_OPS}

\* An accelerated transaction leaves no hot operation to the nodes, uses a register
\* at most once in a pass, which is all that the switch can do, and has the switch
\* check the lock of every record it uses; one that is not accelerated leaves nothing
\* to the switch.
OncePerPass ==
  init_done =>
    /\ do_accel => /\ \A p \in DOMAIN Cold : ~hot(Cold[p].id)
                   /\ \A o \in Elems(pass1) \cup Elems(pass2) : Locks(o.id) \subseteq locks_check
    /\ ~do_accel => pass1 = <<>> /\ pass2 = <<>>
    /\ \A p, s \in DOMAIN pass1 : p # s => reg(pass1[p].id) # reg(pass1[s].id)
    /\ \A p, s \in DOMAIN pass2 : p # s => reg(pass2[p].id) # reg(pass2[s].id)
=============================================================================
