----------------------------- MODULE SimLayout -----------------------------
(***************************************************************************)
(* The first half of the simulator in mine/fast_layout, from a trace to the *)
(* packets that its tests send: batch_iter_t keeps the hot operations of    *)
(* the trace (batch.cpp), layout_t gives every hot key a record of a        *)
(* register with one of five heuristics, the constructor of sw_txn_t deals  *)
(* the operations of a transaction out to passes, and prepare_txns_sw drops *)
(* the transactions with too many passes and spreads the locks over the     *)
(* keys that a second pass may touch (layout.cpp).  std::sort is not        *)
(* stable, so keys of one count come in any order.                          *)
(***************************************************************************)
EXTENDS Integers, Sequences, FiniteSets, SequencesExt

CONSTANTS
  Keys,
  YcsbTraces,                \* files to look at: a sequence of keys for every line
  SynDraws,                  \* what rand() may return, for every transaction
  Orders,                    \* files to look at: <<order id, key>> for every line
  Impls,                     \* the *_impl that the constructor of layout_t may call
  Builds,                    \* what manage_locks may call: see SwitchSim
  N_STAGES, REGS_PER_STAGE, N_LOCKS, PASS2_ACCEL_THR, N_MAX_HOT_OPS, SYN_OPS,
  HOT_PERCENT                \* FRAC_HOT

Stages == 0 .. N_STAGES - 1
Regs == Stages \X (0 .. REGS_PER_STAGE - 1)
Locks == 0 .. N_LOCKS - 1

ASSUME SimLayoutAssumption ==
  /\ N_STAGES \in Nat \ {0} /\ REGS_PER_STAGE \in Nat \ {0} /\ N_LOCKS \in Nat \ {0}
  /\ IsFiniteSet(Keys)
  /\ \A tr \in YcsbTraces \cup SynDraws : tr \in Seq(Seq(Keys))
  /\ \A lines \in Orders : lines \in Seq(Nat \X Keys)
  /\ Impls \subseteq {"naive_spray", "freq_heuristic", "better_random",
                      "even_better_random", "random_spray"}
  /\ Builds \subseteq {"whole_pipe", "granular_OPT", "granular_real"}

VARIABLES
  impl, build,               \* the alternatives of this build
  phase,                     \* "load", "split", "sort", "place", "prepare", "lock", "run"
  txns,                      \* the hot operations of the batch
  order,                     \* the keys in the order they are placed
  key_cts,                   \* the number of operations on each of them
  forward,                   \* keys placed so far -> [reg, idx]
  idx_to_alloc, weight,
  lock2_by_freq,             \* the operations on each key that may need a lock
  sw_txns                    \* what the test sends

layVars == <<impl, build, phase, txns, order, key_cts, forward, idx_to_alloc, weight,
             lock2_by_freq, sw_txns>>

LInit ==
  /\ impl \in Impls /\ build \in Builds
  /\ impl = "naive_spray" => build = "whole_pipe"  \* see KeepTxns
  /\ phase = "load"
  /\ txns = <<>> /\ order = <<>> /\ sw_txns = <<>>
  /\ forward = << >> /\ key_cts = << >> /\ lock2_by_freq = << >>
  /\ idx_to_alloc = [r \in Regs |-> 0] /\ weight = [r \in Regs |-> 0]

-----------------------------------------------------------------------------
TouchedKeys(ts) == UNION {ToSet(ts[n]) : n \in DOMAIN ts}

\* The number of operations on each key of a set.
Counts(S, ts) ==
  [k \in S |-> MapThenSumSet(LAMBDA n : Cardinality({p \in DOMAIN ts[n] : ts[n][p] = k}), DOMAIN ts)]

\* The vectors that std::sort can make of a map from keys to counts, the largest first.
Descending(cts) ==
  {s \in SetToSeqs(DOMAIN cts) : \A p \in 1 .. Len(s) - 1 : cts[s[p]] >= cts[s[p + 1]]}

get_key_cts(ts) == Descending(Counts(TouchedKeys(ts), ts))

\* A sequence without what came before in it.
Uniq(q) ==
  LET first == {p \in DOMAIN q : \A o \in 1 .. p - 1 : q[o] # q[p]}
  IN  [n \in 1 .. Cardinality(first) |->
         q[CHOOSE p \in first : Cardinality({o \in first : o <= p}) = n]]

\* A transaction for every line, without the operations on a key seen before.
get_ycsb_txns(lines) == [n \in DOMAIN lines |-> Uniq(lines[n])]

\* Draws are repeated until the key is new, for every operation.
gen_unique_keys(draws) == SubSeq(Uniq(draws), 1, SYN_OPS)

\* get_syn_unif_txns and get_syn_hot_8_txns, which differ in the keys they draw.
get_syn_txns(draws) == [n \in DOMAIN draws |-> gen_unique_keys(draws[n])]

\* A transaction for every run of lines with the same order id.
get_instacart_txns(lines) ==
  LET add(acc, line) ==
        IF acc.last_order_id # line[1]
        THEN [last_order_id |-> line[1], raw |-> Append(acc.raw, <<line[2]>>)]
        ELSE [acc EXCEPT !.raw[Len(acc.raw)] = Append(@, line[2])]
  IN  FoldLeft(add, [last_order_id |-> -1, raw |-> <<>>], lines).raw

\* get_batch_iter reads or makes the trace.
get_batch_iter ==
  /\ phase = "load"
  /\ \/ \E lines \in YcsbTraces : txns' = get_ycsb_txns(lines)
     \/ \E draws \in SynDraws : txns' = get_syn_txns(draws)
     \/ \E lines \in Orders : txns' = get_instacart_txns(lines)
  /\ phase' = "split"
  /\ UNCHANGED <<impl, build, order, key_cts, forward, idx_to_alloc, weight, lock2_by_freq, sw_txns>>

\* The constructor of batch_iter_t splits off the operations on the hottest keys, and
\* next_batch returns those of every transaction that has some and not too many.
NextBatch ==
  /\ phase = "split"
  /\ \E key_cts_v \in get_key_cts(txns) :
       LET is_hot == ToSet(SubSeq(key_cts_v, 1, (Len(key_cts_v) * HOT_PERCENT) \div 100))
           hot_txns == [n \in DOMAIN txns |-> SelectSeq(txns[n], LAMBDA k : k \in is_hot)]
       IN  txns' = SelectSeq(hot_txns, LAMBDA t : Len(t) > 0 /\ Len(t) < N_MAX_HOT_OPS)
  /\ phase' = "sort"
  /\ UNCHANGED <<impl, build, order, key_cts, forward, idx_to_alloc, weight, lock2_by_freq, sw_txns>>

-----------------------------------------------------------------------------
\* What uniq_op_iter_t goes through: every key once, as the transactions name them.
uniq_ops == Uniq(FlattenSeq(txns))

\* keys_sorted_, and the order in which the heuristic takes the keys.
SortKeys ==
  /\ phase = "sort"
  /\ \/ impl = "naive_spray" /\ order' = uniq_ops
     \/ impl # "naive_spray" /\ order' \in get_key_cts(txns)
  /\ key_cts' = Counts(TouchedKeys(txns), txns)
  /\ phase' = "place"
  /\ UNCHANGED <<impl, build, txns, forward, idx_to_alloc, weight, lock2_by_freq, sw_txns>>

Placed == DOMAIN forward
Rank(r) == r[1] * REGS_PER_STAGE + r[2]

\* The first register, in the order of the loops, with the least value of f.
FirstLeast(r, f) == \A s \in Regs : f[r] < f[s] \/ (f[r] = f[s] /\ Rank(r) <= Rank(s))

\* The number of keys in a register that share a transaction with k.
reg_freqs(k, r) ==
  Cardinality({j \in Placed \ {k} : /\ forward[j].reg = r
                                    /\ \E n \in DOMAIN txns : {j, k} \subseteq ToSet(txns[n])})

naive_spray(k, r) == Rank(r) = Cardinality(Placed) % Cardinality(Regs)
freq_heuristic(k, r) == FirstLeast(r, [s \in Regs |-> reg_freqs(k, s)])
better_random(k, r) == FirstLeast(r, idx_to_alloc)
even_better_random(k, r) == FirstLeast(r, weight)

Takes(k, r) ==
  \/ impl = "naive_spray" /\ naive_spray(k, r)
  \/ impl = "freq_heuristic" /\ freq_heuristic(k, r)
  \/ impl = "better_random" /\ better_random(k, r)
  \/ impl = "even_better_random" /\ even_better_random(k, r)
  \/ impl = "random_spray"

\* idx_to_alloc[r]++, the record that a key gets.
NextIdx(r) == idx_to_alloc[r]

\* One round of the loop of the heuristic.
Place ==
  /\ phase = "place" /\ Cardinality(Placed) < Len(order)
  /\ LET k == order[Cardinality(Placed) + 1]
     IN  \E r \in Regs :
           /\ Takes(k, r)
           /\ forward' = [j \in Placed \cup {k} |->
                            IF j = k THEN [reg |-> r, idx |-> NextIdx(r)] ELSE forward[j]]
           /\ idx_to_alloc' = [idx_to_alloc EXCEPT ![r] = @ + 1]
           /\ weight' = [weight EXCEPT ![r] = @ + key_cts[k]]
  /\ UNCHANGED <<impl, build, phase, txns, order, key_cts, lock2_by_freq, sw_txns>>

AllPlaced ==
  /\ phase = "place" /\ Cardinality(Placed) = Len(order)
  /\ phase' = "prepare"
  /\ UNCHANGED <<impl, build, txns, order, key_cts, forward, idx_to_alloc, weight, lock2_by_freq, sw_txns>>

\* rev_lookup; insert keeps the first key of a record.
rev_lookup(r, idx) ==
  order[CHOOSE p \in DOMAIN order :
          /\ forward[order[p]] = [reg |-> r, idx |-> idx]
          /\ \A o \in 1 .. p - 1 : forward[order[o]] # [reg |-> r, idx |-> idx]]

-----------------------------------------------------------------------------
\* Mutant: the colder key comes first.
MutColdFirst(j, k) ==
  \/ key_cts[j] < key_cts[k]
  \/ key_cts[j] = key_cts[k] /\ forward[j].idx < forward[k].idx

\* The comparator of the constructor of sw_txn_t, for keys of one register.
ComesFirst(j, k) ==
  \/ key_cts[j] > key_cts[k]
  \/ key_cts[j] = key_cts[k] /\ forward[j].idx < forward[k].idx

\* The operations of a transaction on every register, sorted.
locs(t) == [r \in Regs |-> SortSeq(SelectSeq(t, LAMBDA k : forward[k].reg = r), ComesFirst)]

\* The p-th operation on a register goes to the p-th pass: the record in passes[p].grid.
passes(t) ==
  LET l == locs(t)
  IN  [p \in 1 .. Max({Len(l[r]) : r \in Regs}) |->
         [r \in {q \in Regs : Len(l[q]) >= p} |-> forward[l[r][p]].idx]]

\* The operations on a register after the first one.
to_lock(t) == LET l == locs(t) IN UNION {ToSet(Tail(l[r])) : r \in {q \in Regs : l[q] # <<>>}}

\* sw_txn_t: the packet of a transaction.
sw_txn_t(t) == [ops |-> ToSet(t), passes |-> passes(t), to_lock |-> to_lock(t),
                locks_check |-> {}, locks_wanted |-> {}]

\* system_test sends the transactions as they are, with no locks; it is run with the
\* lock on the whole pipe.
SendAsTheyAre ==
  /\ phase = "prepare" /\ build = "whole_pipe"
  /\ sw_txns' = [n \in DOMAIN txns |-> sw_txn_t(txns[n])]
  /\ phase' = "run"
  /\ UNCHANGED <<impl, build, txns, order, key_cts, forward, idx_to_alloc, weight, lock2_by_freq>>

\* Which transactions prepare_txns_sw keeps.
Accelerated(t) ==
  LET ps == passes(t)
  IN  Len(ps) <= 2 /\ (Len(ps) = 2 => Cardinality(DOMAIN ps[2]) <= PASS2_ACCEL_THR)

\* The first loop of prepare_txns_sw: the packets, and the uses of every key with a
\* record other than 0.  Its assertion that no second pass uses a record 0 fails with
\* naive_spray, which does not place the keys by their count.
KeepTxns ==
  /\ phase = "prepare" /\ impl # "naive_spray"
  /\ LET kept == SelectSeq(txns, Accelerated)
     IN  /\ sw_txns' = [n \in DOMAIN kept |-> sw_txn_t(kept[n])]
         /\ lock2_by_freq' = Counts({k \in TouchedKeys(kept) : forward[k].idx # 0}, kept)
  /\ phase' = "lock"
  /\ UNCHANGED <<impl, build, txns, order, key_cts, forward, idx_to_alloc, weight>>

\* What a lock is meant to carry, rounded up.
lock_quantum(total) == (total + N_LOCKS - 1) \div N_LOCKS

\* The loop that fills one lock after the other with keys, each up to the quantum.
lock_nums(v, quantum) ==
  LET fill[n \in 1 .. Len(v)] ==
        IF n = 1 THEN [num |-> 0, fsum |-> lock2_by_freq[v[1]]]
        ELSE IF fill[n - 1].fsum < quantum
             THEN [num |-> fill[n - 1].num, fsum |-> fill[n - 1].fsum + lock2_by_freq[v[n]]]
             ELSE [num |-> fill[n - 1].num + 1, fsum |-> lock2_by_freq[v[n]]]
  IN  [n \in 1 .. Len(v) |-> fill[n].num]

\* Mutant: only the locks that are wanted are checked.
MutCheckWanted(t) == t.to_lock

\* The keys whose locks are checked.
CheckedKeys(t) == t.ops

\* The rest of prepare_txns_sw: the locks are handed out and the bits of every packet
\* set; lock_idxs[k] is 0 for a key that is not there.
FillLocks ==
  /\ phase = "lock"
  /\ \E v \in Descending(lock2_by_freq) :
       LET nums == lock_nums(v, lock_quantum(SumFunction(lock2_by_freq)))
           lock_idxs(k) == IF k \in ToSet(v) THEN nums[CHOOSE p \in DOMAIN v : v[p] = k] ELSE 0
       IN  sw_txns' = [n \in DOMAIN sw_txns |->
                         [sw_txns[n] EXCEPT
                            !.locks_check = {lock_idxs(k) : k \in CheckedKeys(sw_txns[n])},
                            !.locks_wanted = {lock_idxs(k) : k \in sw_txns[n].to_lock}]]
  /\ phase' = "run"
  /\ UNCHANGED <<impl, build, txns, order, key_cts, forward, idx_to_alloc, weight, lock2_by_freq>>

LNext == get_batch_iter \/ NextBatch \/ SortKeys \/ Place \/ AllPlaced \/ SendAsTheyAre \/ KeepTxns \/ FillLocks

-----------------------------------------------------------------------------
\* Every heuristic gives every key of the batch a record of its own, so that rev_lookup
\* finds it again, and what prepare_txns_sw and bitset::set ask for holds: the record 0
\* of a register, which has no lock, is never left to the second pass, the locks wanted
\* are among those checked, and the quantum leaves no key without one of the N_LOCKS
\* bits.
LayoutSound ==
  /\ phase \in {"prepare", "lock", "run"} =>
       /\ Placed = TouchedKeys(txns)
       /\ \A k \in Placed : rev_lookup(forward[k].reg, forward[k].idx) = k
  /\ phase = "run" => \A n \in DOMAIN sw_txns :
       /\ sw_txns[n].locks_wanted \subseteq sw_txns[n].locks_check
       /\ sw_txns[n].locks_check \subseteq Locks
  /\ phase \in {"lock", "run"} /\ lock2_by_freq # << >> =>
       \A n \in DOMAIN sw_txns : Len(sw_txns[n].passes) = 2 =>
         \A r \in DOMAIN sw_txns[n].passes[2] : sw_txns[n].passes[2][r] # 0
=============================================================================
