------------------------------- MODULE Layout -------------------------------
(***************************************************************************)
(* DeclusteredLayout (layout/declustered_layout.cpp): the constructor goes  *)
(* through the keys from the hottest on and gives each a record of the      *)
(* lightest register and, unless it is the register's record 0, the         *)
(* lightest lock; get_location and rev_lookup shift the records by the      *)
(* block that the control plane allocated.  LoadedKeys is the loop of       *)
(* gen_start_end_packets, which decides what the switch is loaded with.     *)
(***************************************************************************)
EXTENDS Integers, FiniteSets

CONSTANTS
  AllKeys,                 \* a set of naturals, the keys that transactions may use
  Keys,                    \* those of id_freq; the two come from different files
  Freqs,                   \* the frequencies to look at
  U16,                     \* 65536, the values of a uint16_t
  N_REGS, N_SW_LOCKS, SLOTS_PER_SCHED_BLOCK,
  NO_LOCK, NO_KEY,         \* std::nullopt of rev_lookup
  Blocks, NO_BLOCK         \* values of block_num

Regs == 0 .. N_REGS - 1
SwLocks == 0 .. N_SW_LOCKS - 1

ASSUME LayoutAssumption ==
  /\ AllKeys \subseteq Nat /\ Keys \subseteq AllKeys /\ IsFiniteSet(Keys) /\ Blocks \subseteq Nat
  /\ Freqs \subseteq [Keys -> Nat] /\ U16 \in Nat \ {0}
  /\ N_REGS \in Nat \ {0} /\ N_SW_LOCKS \in Nat \ {0}
  /\ SLOTS_PER_SCHED_BLOCK \in Nat \ {0}
  /\ NO_LOCK \notin SwLocks /\ NO_KEY \notin AllKeys /\ NO_BLOCK \notin Blocks

\* The records of a block, though not those of all keys, fit the uint16_t of
\* reg_array_idx: a register of the switch has fewer than 65536 cells.
ASSUME BlocksFitAssumption ==
  \A b \in Blocks : SLOTS_PER_SCHED_BLOCK * b + SLOTS_PER_SCHED_BLOCK <= U16

VARIABLES
  id_freq,                 \* key -> frequency
  virt_map,                \* keys placed so far -> TupleLocation
  rev_by_reg,              \* register -> the keys of its records
  idx_to_alloc, weight, lock_weight,
  block_num

vars == <<id_freq, virt_map, rev_by_reg, idx_to_alloc, weight, lock_weight, block_num>>

Init ==
  /\ id_freq \in Freqs
  /\ virt_map = << >>
  /\ rev_by_reg = [r \in Regs |-> << >>]
  /\ idx_to_alloc = [r \in Regs |-> 0]
  /\ weight = [r \in Regs |-> 0]
  /\ lock_weight = [l \in SwLocks |-> 0]
  /\ block_num = NO_BLOCK

\* total_order_gt, which is a less-than.
total_order_gt(f1, k1, f2, k2) == IF f1 # f2 THEN f1 < f2 ELSE k1 < k2

\* The comparator of the sort: the hottest keys come first.
SortsBefore(k, j) == ~total_order_gt(id_freq[k], k, id_freq[j], j)

\* The first of the lightest, as the loops over weight and lock_weight find it.
Lightest(i, w) == \A j \in DOMAIN w : w[i] < w[j] \/ (w[i] = w[j] /\ i <= j)

\* Mutant: a register chosen again without counting its records.
MutSameRecord(r) == 0

\* idx_to_alloc[r]++, the record that a key gets, as a uint16_t.
Record(r) == idx_to_alloc[r] % U16

Placed == DOMAIN virt_map

\* rev_by_reg[r].emplace keeps the key that a record has.
emplace(r, idx, k) ==
  [rev_by_reg EXCEPT ![r] = [x \in DOMAIN @ \cup {idx} |-> IF x \in DOMAIN @ THEN @[x] ELSE k]]

\* One round of the constructor's loop.
Place(k) ==
  /\ k \in Keys \ Placed
  /\ \A j \in Keys \ (Placed \cup {k}) : SortsBefore(k, j)
  /\ \E r \in Regs : Lightest(r, weight) /\
       LET idx == Record(r)
           put(l) == [j \in Placed \cup {k} |->
                        IF j = k THEN [reg_array_id |-> r, reg_array_idx |-> idx,
                                       dist_freq |-> id_freq[k], lock_pos |-> l]
                        ELSE virt_map[j]]
       IN  /\ weight' = [weight EXCEPT ![r] = @ + id_freq[k]]
           /\ idx_to_alloc' = [idx_to_alloc EXCEPT ![r] = @ + 1]
           /\ rev_by_reg' = emplace(r, idx, k)
           /\ \/ idx = 0 /\ virt_map' = put(NO_LOCK) /\ UNCHANGED lock_weight
              \/ idx # 0 /\ \E l \in SwLocks :
                              /\ Lightest(l, lock_weight)
                              /\ lock_weight' = [lock_weight EXCEPT ![l] = @ + id_freq[k]]
                              /\ virt_map' = put(l)
  /\ UNCHANGED <<id_freq, block_num>>

\* update_alloc stores the block that the control plane has allocated.
UpdateAlloc ==
  /\ Placed = Keys
  /\ block_num' \in Blocks
  /\ UNCHANGED <<id_freq, virt_map, rev_by_reg, idx_to_alloc, weight, lock_weight>>

Next == (\E k \in Keys : Place(k)) \/ UpdateAlloc

Spec == Init /\ [][Next]_vars

-----------------------------------------------------------------------------
\* virt_map[k]; operator[] gives a key that it does not know a location of zeros.
Location(k) ==
  IF k \in Placed THEN virt_map[k]
  ELSE [reg_array_id |-> 0, reg_array_idx |-> 0, dist_freq |-> 0, lock_pos |-> 0]

\* get_location; reg_array_idx is a uint16_t.
get_location(k) ==
  [hot |-> Location(k).reg_array_idx < SLOTS_PER_SCHED_BLOCK,
   reg |-> Location(k).reg_array_id,
   idx |-> (SLOTS_PER_SCHED_BLOCK * block_num + Location(k).reg_array_idx) % U16]

\* Mutant: rev_lookup that forgets the block.
MutNoBlock(r, reg_idx) ==
  IF reg_idx \in DOMAIN rev_by_reg[r] THEN rev_by_reg[r][reg_idx] ELSE NO_KEY

\* rev_lookup; below the block, the difference is no record of a register.
rev_lookup(r, reg_idx) ==
  LET idx == reg_idx - SLOTS_PER_SCHED_BLOCK * block_num
  IN  IF idx \in DOMAIN rev_by_reg[r] THEN rev_by_reg[r][idx] ELSE NO_KEY

\* The keys that the start packets of all nodes load into the switch.
LoadedKeys ==
  {rev_lookup(r, s + SLOTS_PER_SCHED_BLOCK * block_num) :
     r \in Regs, s \in 0 .. SLOTS_PER_SCHED_BLOCK - 1} \ {NO_KEY}

HotKeys == {k \in Placed : get_location(k).hot}

\* More keys than a uint16_t can number have come to the register.
Overfull(r) == idx_to_alloc[r] > U16

\* rev_lookup finds a hot key where get_location says it is, in whatever block, unless
\* the numbers of its register have wrapped around and a hotter key was there first.
RevInverse ==
  block_num # NO_BLOCK => \A k \in HotKeys :
    LET l == get_location(k)
        j == rev_lookup(l.reg, l.idx)
    IN  \/ j = k
        \/ j \in HotKeys /\ get_location(j) = l /\ SortsBefore(j, k) /\ Overfull(l.reg)

\* The start packets load only keys that extract_hot_cold takes for hot, and they leave
\* out none of them but in a register whose numbers have wrapped around.
LoadsHotKeys ==
  block_num # NO_BLOCK =>
    /\ LoadedKeys \subseteq HotKeys
    /\ \A k \in HotKeys \ LoadedKeys : Overfull(get_location(k).reg)
=============================================================================
