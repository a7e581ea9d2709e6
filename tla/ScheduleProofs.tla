--------------------------- MODULE ScheduleProofs ---------------------------
(***************************************************************************)
(* The theorems of Schedule and of the modules under it: where the layout   *)
(* puts the keys, how extract_hot_cold divides a transaction, how main      *)
(* deals the transactions out and how sched_batch queues them.              *)
(***************************************************************************)
EXTENDS Schedule, TLAPS

-----------------------------------------------------------------------------
(* The layout.                                                              *)

\* Until the numbers of its register wrap, a key has a record below the next one.
BelowNext(k) ==
  ~Overfull(virt_map[k].reg_array_id) =>
    virt_map[k].reg_array_idx < idx_to_alloc[virt_map[k].reg_array_id]

\* The key of a record of rev_by_reg has that record.
RevKey(r, x) ==
  /\ rev_by_reg[r][x] \in Placed
  /\ virt_map[rev_by_reg[r][x]].reg_array_id = r /\ virt_map[rev_by_reg[r][x]].reg_array_idx = x

\* At the record of a key is the key or, after a wrap, one that sorts before it.
Found(k) ==
  LET r == virt_map[k].reg_array_id
      x == virt_map[k].reg_array_idx
  IN  /\ x \in DOMAIN rev_by_reg[r]
      /\ rev_by_reg[r][x] = k \/ (SortsBefore(rev_by_reg[r][x], k) /\ Overfull(r))

\* The keys that have a record sort before those that have none yet, so a key that
\* finds its record taken sorts behind the one that has it.
LayoutInv ==
  /\ Placed \subseteq Keys
  /\ \A k \in Placed : virt_map[k].reg_array_id \in Regs /\ virt_map[k].reg_array_idx \in Nat
  /\ idx_to_alloc \in [Regs -> Nat]
  /\ block_num \in Blocks \cup {NO_BLOCK}
  /\ \A j \in Placed, k \in Keys \ Placed : SortsBefore(j, k)
  /\ DOMAIN rev_by_reg = Regs
  /\ \A r \in Regs : \A x \in DOMAIN rev_by_reg[r] : RevKey(r, x)
  /\ \A k \in Placed : BelowNext(k) /\ Found(k)

\* What get_location says of a key with a record, once the block is known.
LEMMA LocationOf ==
  ASSUME LayoutInv, NEW k \in Placed
  PROVE  /\ get_location(k).hot = (virt_map[k].reg_array_idx < SLOTS_PER_SCHED_BLOCK)
         /\ get_location(k).reg = virt_map[k].reg_array_id
         /\ get_location(k).idx = (SLOTS_PER_SCHED_BLOCK * block_num + virt_map[k].reg_array_idx) % U16
<1>1. Location(k) = virt_map[k]
  BY Zenon DEF Location
<1>. QED  BY Zenon, <1>1 DEF get_location

\* A record of the block is not wrapped around, and the block is what rev_lookup takes off.
LEMMA BlockRecords ==
  ASSUME LayoutInv, block_num # NO_BLOCK
  PROVE  /\ SLOTS_PER_SCHED_BLOCK \in Nat /\ SLOTS_PER_SCHED_BLOCK * block_num \in Nat
         /\ \A x \in Nat : x < SLOTS_PER_SCHED_BLOCK =>
              (SLOTS_PER_SCHED_BLOCK * block_num + x) % U16 = SLOTS_PER_SCHED_BLOCK * block_num + x
         /\ \A x \in Nat : /\ (SLOTS_PER_SCHED_BLOCK * block_num + x) - SLOTS_PER_SCHED_BLOCK * block_num = x
                           /\ (x + SLOTS_PER_SCHED_BLOCK * block_num) - SLOTS_PER_SCHED_BLOCK * block_num = x
<1>. DEFINE n == SLOTS_PER_SCHED_BLOCK
            b == SLOTS_PER_SCHED_BLOCK * block_num
<1>1. n \in Nat /\ block_num \in Blocks /\ block_num \in Nat /\ U16 \in Nat
  BY Zenon, LayoutAssumption DEF LayoutInv
<1>2. b \in Nat /\ b + n <= U16
  BY <1>1, BlocksFitAssumption
<1>. HIDE DEF n, b
<1>3. \A x \in Nat : x < n => (b + x) % U16 = b + x
  BY <1>1, <1>2
<1>4. \A x \in Nat : (b + x) - b = x /\ (x + b) - b = x
  BY <1>2
<1>. QED  BY Zenon, <1>1, <1>2, <1>3, <1>4 DEF n, b

\* get_location and rev_lookup are inverse to each other where no number has wrapped.
LEMMA RevMeans == LayoutInv => RevInverse
<1>. SUFFICES ASSUME LayoutInv, block_num # NO_BLOCK, NEW k \in HotKeys
              PROVE  LET l == get_location(k)
                         j == rev_lookup(l.reg, l.idx)
                     IN  \/ j = k
                         \/ /\ j \in HotKeys /\ get_location(j) = l
                            /\ SortsBefore(j, k) /\ Overfull(l.reg)
  BY Zenon DEF RevInverse
<1>. DEFINE r == virt_map[k].reg_array_id
            x == virt_map[k].reg_array_idx
            b == SLOTS_PER_SCHED_BLOCK * block_num
            j == rev_by_reg[r][x]
<1>1. k \in Placed /\ get_location(k).hot
  BY Zenon DEF HotKeys
<1>2. x < SLOTS_PER_SCHED_BLOCK /\ x \in Nat /\ r \in Regs
  BY Zenon, <1>1, LocationOf DEF LayoutInv
<1>3. get_location(k).reg = r /\ get_location(k).idx = b + x /\ (b + x) - b = x
  BY Zenon, <1>1, <1>2, LocationOf, BlockRecords
<1>4. x \in DOMAIN rev_by_reg[r] /\ (j = k \/ (SortsBefore(j, k) /\ Overfull(r)))
  BY Zenon, <1>1 DEF LayoutInv, Found
<1>5. rev_lookup(r, b + x) = j
  BY Zenon, <1>3, <1>4 DEF rev_lookup
<1>6. j \in Placed /\ virt_map[j].reg_array_id = r /\ virt_map[j].reg_array_idx = x
  <2>1. RevKey(r, x)
    BY Zenon, <1>2, <1>4 DEF LayoutInv
  <2>. QED  BY Zenon, <2>1 DEF RevKey
<1>7. get_location(j) = get_location(k)
  <2>1. Location(j) = virt_map[j] /\ Location(k) = virt_map[k]
    BY Zenon, <1>1, <1>6 DEF Location
  <2>. QED  BY Zenon, <1>6, <2>1 DEF get_location
<1>8. j \in HotKeys
  BY Zenon, <1>1, <1>6, <1>7 DEF HotKeys
<1>. HIDE DEF j, r, x, b
<1>. QED  BY Zenon, <1>3, <1>4, <1>5, <1>7, <1>8

\* The loop of gen_start_end_packets finds the hot keys.
LEMMA LoadsMeans == LayoutInv => LoadsHotKeys
<1>. SUFFICES ASSUME LayoutInv, block_num # NO_BLOCK
              PROVE  /\ LoadedKeys \subseteq HotKeys
                     /\ \A k \in HotKeys \ LoadedKeys : Overfull(get_location(k).reg)
  BY Zenon DEF LoadsHotKeys
<1>. DEFINE b == SLOTS_PER_SCHED_BLOCK * block_num
            n == SLOTS_PER_SCHED_BLOCK
<1>1. ASSUME NEW k \in LoadedKeys PROVE k \in HotKeys
  <2>1. PICK r \in Regs, x \in 0 .. n - 1 : k = rev_lookup(r, x + b) /\ k # NO_KEY
    BY <1>1 DEF LoadedKeys
  <2>2. x \in Nat /\ x < n
    BY BlockRecords
  <2>3. (x + b) - b = x
    BY Zenon, <2>2, BlockRecords
  <2>4. x \in DOMAIN rev_by_reg[r] /\ k = rev_by_reg[r][x]
    BY Zenon, <2>1, <2>3 DEF rev_lookup
  <2>5. k \in Placed /\ virt_map[k].reg_array_idx = x
    BY Zenon, <2>4 DEF LayoutInv, RevKey
  <2>. QED  BY Zenon, <2>2, <2>5, LocationOf DEF HotKeys
<1>2. ASSUME NEW k \in HotKeys, ~Overfull(get_location(k).reg) PROVE k \in LoadedKeys
  <2>. DEFINE r == virt_map[k].reg_array_id
              x == virt_map[k].reg_array_idx
  <2>1. k \in Placed /\ x < n /\ x \in Nat /\ r \in Regs /\ get_location(k).reg = r
    BY Zenon, LocationOf DEF HotKeys, LayoutInv
  <2>2. x \in DOMAIN rev_by_reg[r] /\ rev_by_reg[r][x] = k
    BY Zenon, <1>2, <2>1 DEF LayoutInv, Found
  <2>3. (x + b) - b = x /\ n \in Nat
    BY Zenon, <2>1, BlockRecords
  <2>4. rev_lookup(r, x + b) = k
    BY Zenon, <2>2, <2>3 DEF rev_lookup
  <2>5. x \in 0 .. n - 1
    BY <2>1, <2>3
  <2>6. k # NO_KEY
    BY Zenon, <2>1, LayoutAssumption DEF LayoutInv
  <2>. HIDE DEF r, x
  <2>. QED  BY <2>1, <2>4, <2>5, <2>6 DEF LoadedKeys
<1>. QED  BY Zenon, <1>1, <1>2

\* No key has a record at first.
LEMMA LayoutInit == Init => LayoutInv
<1>. SUFFICES ASSUME Init PROVE LayoutInv
  BY Zenon
<1>1. Placed = {}
  BY DEF Init, Placed
<1>2. DOMAIN rev_by_reg = Regs /\ \A r \in Regs : DOMAIN rev_by_reg[r] = {}
  BY DEF Init
<1>3. idx_to_alloc \in [Regs -> Nat] /\ block_num = NO_BLOCK
  BY DEF Init
<1>. QED  BY Zenon, <1>1, <1>2, <1>3 DEF LayoutInv

\* What one round of the constructor's loop does.
LEMMA PlaceFacts ==
  ASSUME LayoutInv, NEW k \in Keys, Place(k)
  PROVE  \E r \in Regs :
           /\ Placed' = Placed \cup {k} /\ k \notin Placed
           /\ virt_map'[k].reg_array_id = r /\ virt_map'[k].reg_array_idx = Record(r)
           /\ \A j \in Placed : virt_map'[j] = virt_map[j]
           /\ idx_to_alloc' \in [Regs -> Nat] /\ idx_to_alloc'[r] = idx_to_alloc[r] + 1
           /\ \A s \in Regs : s # r => idx_to_alloc'[s] = idx_to_alloc[s]
           /\ rev_by_reg' = emplace(r, Record(r), k)
<1>1. PICK r \in Regs : \E l :
        /\ virt_map' = [j \in Placed \cup {k} |->
             IF j = k THEN [reg_array_id |-> r, reg_array_idx |-> Record(r),
                            dist_freq |-> id_freq[k], lock_pos |-> l]
             ELSE virt_map[j]]
        /\ idx_to_alloc' = [idx_to_alloc EXCEPT ![r] = @ + 1]
        /\ rev_by_reg' = emplace(r, Record(r), k)
  BY Zenon DEF Place
<1>2. PICK l :
        /\ virt_map' = [j \in Placed \cup {k} |->
             IF j = k THEN [reg_array_id |-> r, reg_array_idx |-> Record(r),
                            dist_freq |-> id_freq[k], lock_pos |-> l]
             ELSE virt_map[j]]
        /\ idx_to_alloc' = [idx_to_alloc EXCEPT ![r] = @ + 1]
        /\ rev_by_reg' = emplace(r, Record(r), k)
  BY Zenon, <1>1
<1>3. k \notin Placed
  BY Zenon DEF Place
<1>4. /\ Placed' = Placed \cup {k}
      /\ virt_map'[k].reg_array_id = r /\ virt_map'[k].reg_array_idx = Record(r)
      /\ \A j \in Placed : virt_map'[j] = virt_map[j]
  BY Zenon, <1>2, <1>3 DEF Placed
<1>5. /\ idx_to_alloc' \in [Regs -> Nat] /\ idx_to_alloc'[r] = idx_to_alloc[r] + 1
      /\ \A s \in Regs : s # r => idx_to_alloc'[s] = idx_to_alloc[s]
  <2>1. idx_to_alloc \in [Regs -> Nat] /\ idx_to_alloc[r] \in Nat
    BY Zenon DEF LayoutInv
  <2>2. idx_to_alloc[r] + 1 \in Nat
    BY <2>1
  <2>. QED  BY Zenon, <1>2, <2>1, <2>2
<1>. QED  BY Zenon, <1>2, <1>3, <1>4, <1>5

\* One round of the constructor's loop keeps the records apart until they wrap.
LEMMA PlaceStep ==
  ASSUME LayoutInv, NEW k \in Keys, Place(k)
  PROVE  LayoutInv'
<1>1. PICK r \in Regs :
        /\ Placed' = Placed \cup {k} /\ k \notin Placed
        /\ virt_map'[k].reg_array_id = r /\ virt_map'[k].reg_array_idx = Record(r)
        /\ \A j \in Placed : virt_map'[j] = virt_map[j]
        /\ idx_to_alloc' \in [Regs -> Nat] /\ idx_to_alloc'[r] = idx_to_alloc[r] + 1
        /\ \A s \in Regs : s # r => idx_to_alloc'[s] = idx_to_alloc[s]
        /\ rev_by_reg' = emplace(r, Record(r), k)
  BY Zenon, PlaceFacts
<1>. DEFINE x == Record(r)
<1>2. /\ x \in Nat /\ idx_to_alloc[r] \in Nat /\ U16 \in Nat
      /\ idx_to_alloc[r] < U16 => x = idx_to_alloc[r]
  <2>1. idx_to_alloc[r] \in Nat /\ U16 \in Nat \ {0}
    BY Zenon, LayoutAssumption DEF LayoutInv
  <2>. QED  BY <2>1 DEF Record
<1>. HIDE DEF x
<1>3. \A j, m : SortsBefore(j, m)' <=> SortsBefore(j, m)
  BY Zenon DEF SortsBefore, Place
<1>4. \A j \in Placed', m \in Keys \ Placed' : SortsBefore(j, m)
  <2>1. \A m \in Keys \ (Placed \cup {k}) : SortsBefore(k, m)
    BY Zenon DEF Place
  <2>2. \A j \in Placed, m \in Keys \ Placed : SortsBefore(j, m)
    BY Zenon DEF LayoutInv
  <2>. QED  BY Zenon, <1>1, <2>1, <2>2
\* After the step a register is overfull if its number was U16 or more.
<1>5. /\ \A s \in Regs : Overfull(s)' <=> idx_to_alloc'[s] > U16
      /\ \A s \in Regs : Overfull(s) => Overfull(s)'
      /\ Overfull(r)' \/ idx_to_alloc[r] < U16
  <2>1. \A s \in Regs : Overfull(s)' <=> idx_to_alloc'[s] > U16
    BY Zenon DEF Overfull
  <2>2. /\ idx_to_alloc[r] > U16 => idx_to_alloc[r] + 1 > U16
        /\ idx_to_alloc[r] + 1 > U16 \/ idx_to_alloc[r] < U16
    BY <1>2
  <2>3. \A s \in Regs : Overfull(s) => Overfull(s)'
    BY Zenon, <1>1, <2>1, <2>2 DEF Overfull
  <2>4. Overfull(r)' \/ idx_to_alloc[r] < U16
    BY Zenon, <1>1, <2>1, <2>2
  <2>. QED  BY Zenon, <2>1, <2>3, <2>4
<1>6. ASSUME NEW j \in Placed' PROVE BelowNext(j)'
  <2>1. CASE j = k
    <3>1. CASE Overfull(r)'
      BY Zenon, <1>1, <2>1, <3>1 DEF BelowNext, Overfull
    <3>2. CASE idx_to_alloc[r] < U16
      <4>1. virt_map'[k].reg_array_idx = idx_to_alloc[r]
        BY Zenon, <1>1, <1>2, <3>2 DEF x
      <4>2. idx_to_alloc[r] < idx_to_alloc[r] + 1
        BY <1>2
      <4>3. virt_map'[k].reg_array_idx < idx_to_alloc'[virt_map'[k].reg_array_id]
        BY Zenon, <1>1, <4>1, <4>2
      <4>. QED  BY Zenon, <2>1, <4>3 DEF BelowNext
    <3>. QED  BY Zenon, <1>5, <3>1, <3>2
  <2>2. CASE j \in Placed
    <3>. DEFINE s == virt_map[j].reg_array_id
                y == virt_map[j].reg_array_idx
    <3>1. s \in Regs /\ y \in Nat /\ idx_to_alloc[s] \in Nat /\ virt_map'[j] = virt_map[j]
      BY Zenon, <1>1, <2>2 DEF LayoutInv
    <3>2. ~Overfull(s) => y < idx_to_alloc[s]
      BY Zenon, <2>2 DEF LayoutInv, BelowNext
    <3>3. idx_to_alloc'[s] = idx_to_alloc[s] \/ idx_to_alloc'[s] = idx_to_alloc[s] + 1
      BY Zenon, <1>1, <3>1
    <3>. HIDE DEF s, y
    <3>4. ~Overfull(s) => y < idx_to_alloc'[s]
      BY <3>1, <3>2, <3>3
    <3>5. idx_to_alloc'[s] > U16 \/ y < idx_to_alloc'[s]
      BY Zenon, <1>5, <3>1, <3>4
    <3>. QED  BY Zenon, <3>1, <3>5 DEF s, y, BelowNext, Overfull
  <2>. QED  BY Zenon, <1>1, <2>1, <2>2
<1>7. /\ DOMAIN rev_by_reg' = Regs
      /\ \A s \in Regs : s # r => rev_by_reg'[s] = rev_by_reg[s]
      /\ DOMAIN rev_by_reg'[r] = DOMAIN rev_by_reg[r] \cup {x}
      /\ \A y \in DOMAIN rev_by_reg[r] : rev_by_reg'[r][y] = rev_by_reg[r][y]
      /\ x \notin DOMAIN rev_by_reg[r] => rev_by_reg'[r][x] = k
  <2>1. DOMAIN rev_by_reg = Regs
    BY Zenon DEF LayoutInv
  <2>2. rev_by_reg' = [rev_by_reg EXCEPT ![r] =
          [y \in DOMAIN rev_by_reg[r] \cup {x} |-> IF y \in DOMAIN rev_by_reg[r] THEN rev_by_reg[r][y] ELSE k]]
    BY Zenon, <1>1 DEF emplace, x
  <2>3. rev_by_reg'[r] = [y \in DOMAIN rev_by_reg[r] \cup {x} |->
                            IF y \in DOMAIN rev_by_reg[r] THEN rev_by_reg[r][y] ELSE k]
    BY Zenon, <2>1, <2>2
  <2>4. DOMAIN rev_by_reg' = Regs /\ \A s \in Regs : s # r => rev_by_reg'[s] = rev_by_reg[s]
    BY Zenon, <2>1, <2>2
  <2>5. DOMAIN rev_by_reg'[r] = DOMAIN rev_by_reg[r] \cup {x}
    BY Zenon, <2>3
  <2>6. \A y \in DOMAIN rev_by_reg[r] \cup {x} :
          rev_by_reg'[r][y] = IF y \in DOMAIN rev_by_reg[r] THEN rev_by_reg[r][y] ELSE k
    BY Zenon, <2>3
  <2>. QED  BY Zenon, <2>4, <2>5, <2>6
<1>8. ASSUME NEW s \in Regs, NEW y \in DOMAIN rev_by_reg'[s] PROVE RevKey(s, y)'
  <2>1. CASE y \in DOMAIN rev_by_reg[s]
    <3>1. rev_by_reg'[s][y] = rev_by_reg[s][y]
      BY Zenon, <1>7, <2>1
    <3>2. RevKey(s, y)
      BY Zenon, <2>1 DEF LayoutInv
    <3>. QED  BY Zenon, <1>1, <3>1, <3>2 DEF RevKey
  <2>2. CASE y \notin DOMAIN rev_by_reg[s]
    <3>1. s = r /\ y = x /\ rev_by_reg'[r][x] = k
      BY Zenon, <1>7, <1>8, <2>2
    <3>. QED  BY Zenon, <1>1, <3>1 DEF x, RevKey
  <2>. QED  BY Zenon, <2>1, <2>2
\* A record that is taken has a key that sorts before, and only after a wrap.
<1>9. ASSUME x \in DOMAIN rev_by_reg[r] PROVE SortsBefore(rev_by_reg[r][x], k) /\ Overfull(r)'
  <2>. DEFINE j == rev_by_reg[r][x]
  <2>1. j \in Placed /\ virt_map[j].reg_array_id = r /\ virt_map[j].reg_array_idx = x
    BY Zenon, <1>9 DEF LayoutInv, RevKey
  <2>2. SortsBefore(j, k)
    BY Zenon, <1>1, <2>1 DEF LayoutInv
  <2>3. Overfull(r) \/ x < idx_to_alloc[r]
    <3>1. BelowNext(j)
      BY Zenon, <2>1 DEF LayoutInv
    <3>. QED  BY Zenon, <2>1, <3>1 DEF BelowNext
  <2>4. idx_to_alloc[r] < U16 => ~(idx_to_alloc[r] > U16) /\ ~(idx_to_alloc[r] < idx_to_alloc[r])
    BY <1>2
  <2>5. ~(idx_to_alloc[r] < U16)
    BY Zenon, <1>2, <2>3, <2>4 DEF Overfull
  <2>. QED  BY Zenon, <1>5, <2>2, <2>5
<1>10. ASSUME NEW j \in Placed' PROVE Found(j)'
  <2>1. CASE j = k
    <3>1. x \in DOMAIN rev_by_reg'[r] /\ virt_map'[k].reg_array_id = r /\ virt_map'[k].reg_array_idx = x
      BY Zenon, <1>1, <1>7 DEF x
    <3>2. rev_by_reg'[r][x] = k \/ (SortsBefore(rev_by_reg'[r][x], k) /\ Overfull(r)')
      BY Zenon, <1>7, <1>9
    <3>. QED  BY Zenon, <1>3, <1>7, <2>1, <3>1, <3>2 DEF Found, SortsBefore, Overfull
  <2>2. CASE j \in Placed
    <3>. DEFINE s == virt_map[j].reg_array_id
                y == virt_map[j].reg_array_idx
    <3>1. s \in Regs /\ virt_map'[j] = virt_map[j]
      BY Zenon, <1>1, <2>2 DEF LayoutInv
    <3>2. /\ y \in DOMAIN rev_by_reg[s]
          /\ rev_by_reg[s][y] = j \/ (SortsBefore(rev_by_reg[s][y], j) /\ Overfull(s))
      BY Zenon, <2>2 DEF LayoutInv, Found
    <3>3. y \in DOMAIN rev_by_reg'[s] /\ rev_by_reg'[s][y] = rev_by_reg[s][y]
      <4>. HIDE DEF s, y
      <4>1. CASE s = r
        BY Zenon, <1>7, <3>2, <4>1
      <4>2. CASE s # r
        BY Zenon, <1>7, <3>1, <3>2, <4>2
      <4>. QED  BY Zenon, <4>1, <4>2
    <3>. HIDE DEF s, y
    <3>4. Overfull(s) => idx_to_alloc'[s] > U16
      BY Zenon, <1>5, <3>1
    <3>5. id_freq' = id_freq
      BY Zenon DEF Place
    <3>. QED  BY Zenon, <3>1, <3>2, <3>3, <3>4, <3>5 DEF s, y, Found, SortsBefore, Overfull
  <2>. QED  BY Zenon, <1>1, <2>1, <2>2
<1>11. Placed' \subseteq Keys /\ block_num' \in Blocks \cup {NO_BLOCK}
  <2>1. block_num' = block_num
    BY Zenon DEF Place
  <2>. QED  BY Zenon, <1>1, <2>1 DEF LayoutInv
<1>12. \A j \in Placed' : virt_map'[j].reg_array_id \in Regs /\ virt_map'[j].reg_array_idx \in Nat
  BY Zenon, <1>1, <1>2 DEF LayoutInv, x
<1>13. \A j \in Placed', m \in Keys \ Placed' : SortsBefore(j, m)'
  BY Zenon, <1>3, <1>4
<1>. QED  BY Zenon, <1>1, <1>6, <1>7, <1>8, <1>10, <1>11, <1>12, <1>13 DEF LayoutInv

\* So does update_alloc.
LEMMA LayoutStep ==
  ASSUME LayoutInv, Next \/ UNCHANGED vars
  PROVE  LayoutInv'
<1>1. CASE \E k \in Keys : Place(k)
  BY Zenon, <1>1, PlaceStep
<1>2. CASE UpdateAlloc \/ UNCHANGED vars
  <2>1. /\ id_freq' = id_freq /\ virt_map' = virt_map /\ idx_to_alloc' = idx_to_alloc
        /\ rev_by_reg' = rev_by_reg
        /\ block_num' = block_num \/ block_num' \in Blocks
    BY Zenon, <1>2 DEF UpdateAlloc, vars
  <2>2. /\ Placed' = Placed /\ \A r : Overfull(r)' <=> Overfull(r)
        /\ \A j, k : SortsBefore(j, k)' <=> SortsBefore(j, k)
    BY Zenon, <2>1 DEF Placed, Overfull, SortsBefore
  <2>3. /\ \A k : BelowNext(k)' <=> BelowNext(k)
        /\ \A r, x : RevKey(r, x)' <=> RevKey(r, x)
    BY Zenon, <2>1, <2>2 DEF BelowNext, RevKey, Overfull
  <2>4. ASSUME NEW k \in Placed, Found(k) PROVE Found(k)'
    BY Zenon, <2>1, <2>4 DEF Found, Overfull, SortsBefore
  <2>5. LayoutInv
    OBVIOUS
  <2>6. /\ Placed' \subseteq Keys
        /\ \A k \in Placed' : virt_map'[k].reg_array_id \in Regs /\ virt_map'[k].reg_array_idx \in Nat
        /\ idx_to_alloc' \in [Regs -> Nat] /\ block_num' \in Blocks \cup {NO_BLOCK}
        /\ DOMAIN rev_by_reg' = Regs
    BY Zenon, <2>1, <2>2, <2>5 DEF LayoutInv
  <2>7. \A j \in Placed', k \in Keys \ Placed' : SortsBefore(j, k)'
    BY Zenon, <2>2, <2>5 DEF LayoutInv
  <2>8. \A r \in Regs : \A x \in DOMAIN rev_by_reg'[r] : RevKey(r, x)'
    BY Zenon, <2>1, <2>3, <2>5 DEF LayoutInv
  <2>9. \A k \in Placed' : BelowNext(k)' /\ Found(k)'
    BY Zenon, <2>2, <2>3, <2>4, <2>5 DEF LayoutInv
  <2>. QED  BY Zenon, <2>6, <2>7, <2>8, <2>9 DEF LayoutInv
<1>. QED  BY Zenon, <1>1, <1>2 DEF Next

-----------------------------------------------------------------------------
(* extract_hot_cold.                                                        *)

OpAt(p) == [id |-> trace[p], pos |-> p]

\* The cold operations so far.
Front == {cold_ops[p] : p \in 1 .. cold_p}

\* In the loop: what is packed at the front of cold_ops and in the two passes is what
\* the loop has gone through, and what is behind i is as it was loaded.
ExtractInv ==
  /\ i \in 1 .. N_OPS + 1 /\ cold_p \in Nat
  /\ cold_ops \in [1 .. N_OPS -> Op] /\ pass1 \in Seq(Op) /\ pass2 \in Seq(Op)
  /\ cold_p + Len(pass1) + Len(pass2) = i - 1
  /\ \A p \in i .. N_OPS : cold_ops[p] = OpAt(p)
  /\ Front \cup Elems(pass1) \cup Elems(pass2) = {OpAt(p) : p \in 1 .. i - 1}

\* In the loop: hot_reorder_buf points at the operation that uses a register in the
\* first pass, and the second pass uses no register twice.
PassInv ==
  /\ \A r \in reg_usage : /\ hot_reorder_buf[r] \in DOMAIN pass1
                          /\ reg(pass1[hot_reorder_buf[r]].id) = r
  /\ do_accel => \A p \in DOMAIN pass1 : /\ reg(pass1[p].id) \in reg_usage
                                         /\ hot_reorder_buf[reg(pass1[p].id)] = p
  /\ \A p \in DOMAIN pass2 : reg(pass2[p].id) \in reg_usage_2
  /\ \A p, s \in DOMAIN pass2 : p # s => reg(pass2[p].id) # reg(pass2[s].id)
  /\ do_accel => \A o \in Elems(pass1) \cup Elems(pass2) : Locks(o.id) \subseteq locks_check
  /\ \A p \in 1 .. cold_p : ~hot(cold_ops[p].id)
  /\ cold1.v > 0 => cold1.i \in 1 .. cold_p

TxnInv ==
  /\ init_done \in BOOLEAN /\ do_accel \in BOOLEAN
  /\ i = 0 => /\ cold_p = 0 /\ pass1 = <<>> /\ pass2 = <<>> /\ hot_reorder_buf = << >>
              /\ ~(cold1.v > 0) /\ ~init_done
  /\ i # 0 => trace \in [1 .. N_OPS -> AllKeys]
  /\ i # 0 /\ ~init_done => ExtractInv /\ PassInv
  /\ init_done => /\ i > N_OPS /\ NoOpLost /\ OncePerPass
                  /\ do_accel /\ cold1.v > 0 => cold_ops[cold1.i] \in Op

\* What is in a sequence after push_back.
LEMMA ElemsAppend ==
  ASSUME NEW S, NEW s \in Seq(S), NEW e \in S
  PROVE  /\ Append(s, e) \in Seq(S) /\ Len(Append(s, e)) = Len(s) + 1
         /\ DOMAIN Append(s, e) = DOMAIN s \cup {Len(s) + 1}
         /\ \A p \in DOMAIN s : Append(s, e)[p] = s[p] /\ p # Len(s) + 1
         /\ Append(s, e)[Len(s) + 1] = e
         /\ Elems(Append(s, e)) = Elems(s) \cup {e}
<1>1. /\ Append(s, e) \in Seq(S) /\ Len(Append(s, e)) = Len(s) + 1
      /\ DOMAIN Append(s, e) = DOMAIN s \cup {Len(s) + 1}
      /\ \A p \in DOMAIN s : Append(s, e)[p] = s[p] /\ p # Len(s) + 1
      /\ Append(s, e)[Len(s) + 1] = e
  OBVIOUS
<1>. QED  BY Zenon, <1>1 DEF Elems

\* What is in a sequence after one element is exchanged.
LEMMA ElemsExcept ==
  ASSUME NEW s \in Seq(Op), NEW n \in Seq(Op), NEW p \in DOMAIN s, DOMAIN n = DOMAIN s,
         \A x \in DOMAIN s : x # p => n[x] = s[x]
  PROVE  Elems(n) \cup {s[p]} = Elems(s) \cup {n[p]}
BY DEF Elems

\* The layout is not changed by extract_hot_cold.
LEMMA LayoutSame ==
  ASSUME UNCHANGED vars
  PROVE  \A k : /\ hot(k)' = hot(k) /\ reg(k)' = reg(k) /\ Locks(k)' = Locks(k) /\ freq(k)' = freq(k)
BY Zenon DEF vars, hot, reg, Locks, freq, get_location, Location, Placed

\* The loop has gone through one more operation.
LEMMA OneMore ==
  ASSUME ExtractInv, i \in 1 .. N_OPS
  PROVE  /\ cold_ops[i] = OpAt(i) /\ cold_ops[i] \in Op
         /\ {OpAt(p) : p \in 1 .. (i + 1) - 1} = {OpAt(p) : p \in 1 .. i - 1} \cup {cold_ops[i]}
         /\ i + 1 \in 1 .. N_OPS + 1 /\ (i + 1) - 1 = (i - 1) + 1
<1>1. i \in Nat /\ N_OPS \in Nat
  BY HotColdAssumption
<1>2. i \in i .. N_OPS /\ i + 1 \in 1 .. N_OPS + 1 /\ (i + 1) - 1 = (i - 1) + 1
  BY <1>1
<1>3. cold_ops[i] = OpAt(i) /\ cold_ops[i] \in Op
  BY Zenon, <1>2 DEF ExtractInv
<1>4. 1 .. (i + 1) - 1 = 1 .. i - 1 \cup {i}
  BY <1>1
<1>. QED  BY Zenon, <1>2, <1>3, <1>4

\* A step that leaves the front of cold_ops alone and adds the operation to the passes.
LEMMA HotStep ==
  ASSUME ExtractInv, i \in 1 .. N_OPS, i' = i + 1, trace' = trace,
         cold_ops' = cold_ops, cold_p' = cold_p, pass1' \in Seq(Op), pass2' \in Seq(Op),
         Len(pass1') + Len(pass2') = Len(pass1) + Len(pass2) + 1,
         Elems(pass1') \cup Elems(pass2') = Elems(pass1) \cup Elems(pass2) \cup {cold_ops[i]}
  PROVE  ExtractInv'
<1>1. i' \in 1 .. N_OPS + 1 /\ i \in Nat /\ N_OPS \in Nat
  BY OneMore, HotColdAssumption
<1>2. cold_p' + Len(pass1') + Len(pass2') = i' - 1
  <2>1. cold_p \in Nat /\ Len(pass1) \in Nat /\ Len(pass2) \in Nat /\ Len(pass1') \in Nat /\ Len(pass2') \in Nat
    BY DEF ExtractInv
  <2>2. cold_p + Len(pass1) + Len(pass2) = i - 1
    BY Zenon DEF ExtractInv
  <2>. QED  BY <1>1, <2>1, <2>2
<1>3. \A p : OpAt(p)' = OpAt(p)
  BY Zenon DEF OpAt
<1>4. \A p \in i' .. N_OPS : cold_ops'[p] = OpAt(p)'
  <2>1. i' .. N_OPS \subseteq i .. N_OPS
    BY <1>1
  <2>. QED  BY Zenon, <1>3, <2>1 DEF ExtractInv
<1>5. (Front \cup Elems(pass1) \cup Elems(pass2))' = {OpAt(p) : p \in 1 .. i' - 1}
  <2>1. Front' = Front
    BY Zenon DEF Front
  <2>2. Front \cup Elems(pass1) \cup Elems(pass2) = {OpAt(p) : p \in 1 .. i - 1}
    BY Zenon DEF ExtractInv
  <2>3. {OpAt(p) : p \in 1 .. i' - 1} = {OpAt(p) : p \in 1 .. i - 1} \cup {cold_ops[i]}
    BY Zenon, OneMore
  <2>4. Elems(pass1)' = Elems(pass1') /\ Elems(pass2)' = Elems(pass2')
    BY Zenon DEF Elems
  <2>. QED  BY Zenon, <2>1, <2>2, <2>3, <2>4
<1>6. {OpAt(p) : p \in 1 .. i - 1}' = {OpAt(p) : p \in 1 .. i' - 1}
  BY Zenon, <1>3
<1>. QED  BY Zenon, <1>1, <1>2, <1>4, <1>5, <1>6 DEF ExtractInv
\* The first hot operation on a register.
LEMMA Pass1Step ==
  ASSUME ExtractInv, PassInv, i \in 1 .. N_OPS, i' = i + 1, trace' = trace, UNCHANGED vars,
         ToPass1(cold_ops[i])
  PROVE  ExtractInv' /\ PassInv'
<1>o. PICK o : o = cold_ops[i]
  BY Zenon
<1>r. PICK r : r = reg(o.id)
  BY Zenon
<1>p. /\ r \notin reg_usage /\ pass1' = Append(pass1, o) /\ pass2' = pass2
      /\ hot_reorder_buf' = [x \in reg_usage \cup {r} |-> IF x = r THEN Len(pass1) + 1 ELSE hot_reorder_buf[x]]
      /\ locks_check' = locks_check \cup Locks(o.id)
      /\ cold_ops' = cold_ops /\ cold_p' = cold_p /\ reg_usage_2' = reg_usage_2
      /\ cold1' = cold1 /\ do_accel' = do_accel
  BY Zenon, <1>o, <1>r DEF ToPass1, FirstUse, Checked
<1>t. pass1 \in Seq(Op) /\ pass2 \in Seq(Op) /\ o \in Op
  BY Zenon, <1>o, OneMore DEF ExtractInv
<1>l. \A k : hot(k)' = hot(k) /\ reg(k)' = reg(k) /\ Locks(k)' = Locks(k)
  BY Zenon, LayoutSame
<1>a. /\ pass1' \in Seq(Op) /\ Len(pass1') = Len(pass1) + 1
      /\ DOMAIN pass1' = DOMAIN pass1 \cup {Len(pass1) + 1}
      /\ \A p \in DOMAIN pass1 : pass1'[p] = pass1[p] /\ p # Len(pass1) + 1
      /\ pass1'[Len(pass1) + 1] = o
      /\ Elems(pass1') = Elems(pass1) \cup {o}
  BY <1>p, <1>t, ElemsAppend
<1>1. ExtractInv'
  <2>1. Len(pass1') + Len(pass2') = Len(pass1) + Len(pass2) + 1
    BY <1>a, <1>p, <1>t
  <2>2. Elems(pass1') \cup Elems(pass2') = Elems(pass1) \cup Elems(pass2) \cup {o}
    BY Zenon, <1>a, <1>p
  <2>. QED  BY Zenon, <1>a, <1>p, <1>t, <2>1, <2>2, <1>o, HotStep
<1>2. /\ reg_usage' = reg_usage \cup {r} /\ hot_reorder_buf'[r] = Len(pass1) + 1
      /\ \A x \in reg_usage : hot_reorder_buf'[x] = hot_reorder_buf[x]
  BY Zenon, <1>p DEF reg_usage
<1>3. \A x \in reg_usage' : hot_reorder_buf'[x] \in DOMAIN pass1' /\ reg(pass1[hot_reorder_buf[x]].id)' = x
  <2>1. ASSUME NEW x \in reg_usage
        PROVE  hot_reorder_buf'[x] \in DOMAIN pass1' /\ reg(pass1[hot_reorder_buf[x]].id)' = x
    <3>1. /\ hot_reorder_buf[x] \in DOMAIN pass1 /\ reg(pass1[hot_reorder_buf[x]].id) = x
          /\ hot_reorder_buf'[x] = hot_reorder_buf[x]
      BY Zenon, <1>2, <2>1 DEF PassInv
    <3>y. PICK y : y = hot_reorder_buf[x]
      BY Zenon
    <3>2. pass1'[y] = pass1[y] /\ hot_reorder_buf'[x] = y
      BY Zenon, <1>a, <3>1, <3>y
    <3>. QED  BY Zenon, <1>a, <1>l, <3>1, <3>2, <3>y
  <2>2. hot_reorder_buf'[r] \in DOMAIN pass1' /\ reg(pass1[hot_reorder_buf[r]].id)' = r
    <3>1. pass1'[hot_reorder_buf'[r]] = o
      BY Zenon, <1>2, <1>a
    <3>2. reg(o.id)' = r
      BY Zenon, <1>l, <1>r
    <3>. QED  BY Zenon, <1>a, <1>2, <1>l, <1>r, <3>1
  <2>. QED  BY Zenon, <1>2, <2>1, <2>2
<1>4. ASSUME do_accel', NEW p \in DOMAIN pass1'
      PROVE  reg(pass1[p].id)' \in reg_usage' /\ hot_reorder_buf'[reg(pass1[p].id)'] = p
  <2>1. CASE p = Len(pass1) + 1
    BY Zenon, <2>1, <1>2, <1>a, <1>l, <1>r
  <2>2. CASE p \in DOMAIN pass1
    BY Zenon, <1>4, <2>2, <1>2, <1>a, <1>l, <1>p DEF PassInv
  <2>. QED  BY Zenon, <1>a, <1>4, <2>1, <2>2
<1>5. (\A p \in DOMAIN pass2 : reg(pass2[p].id) \in reg_usage_2)'
  BY Zenon, <1>p, <1>l DEF PassInv
<1>6. (\A p, s \in DOMAIN pass2 : p # s => reg(pass2[p].id) # reg(pass2[s].id))'
  BY Zenon, <1>p, <1>l DEF PassInv
<1>7. ASSUME do_accel', NEW e \in (Elems(pass1) \cup Elems(pass2))' PROVE Locks(e.id)' \subseteq locks_check'
  <2>1. e \in Elems(pass1) \cup Elems(pass2) \cup {o}
    BY Zenon, <1>7, <1>a, <1>p DEF Elems
  <2>. QED  BY Zenon, <1>7, <2>1, <1>p, <1>l DEF PassInv
<1>8. (\A p \in 1 .. cold_p : ~hot(cold_ops[p].id))' /\ (cold1.v > 0 => cold1.i \in 1 .. cold_p)'
  BY Zenon, <1>p, <1>l DEF PassInv
<1>. QED  BY Zenon, <1>1, <1>3, <1>4, <1>5, <1>6, <1>7, <1>8 DEF PassInv

\* The second one.
LEMMA Pass2Step ==
  ASSUME ExtractInv, PassInv, i \in 1 .. N_OPS, i' = i + 1, trace' = trace, UNCHANGED vars,
         ToPass2(cold_ops[i])
  PROVE  ExtractInv' /\ PassInv'
<1>o. PICK o : o = cold_ops[i]
  BY Zenon
<1>r. PICK r : r = reg(o.id)
  BY Zenon
<1>h. PICK s : s = hot_reorder_buf[r]
  BY Zenon
<1>i. PICK first : first = pass1[s]
  BY Zenon
<1>p. /\ r \in reg_usage /\ r \notin reg_usage_2 /\ reg_usage_2' = reg_usage_2 \cup {r}
      /\ \/ pass2' = Append(pass2, o) /\ pass1' = pass1
         \/ pass2' = Append(pass2, first) /\ pass1' = [pass1 EXCEPT ![s] = o]
      /\ locks_check' = locks_check \cup Locks(o.id)
      /\ cold_ops' = cold_ops /\ cold_p' = cold_p /\ hot_reorder_buf' = hot_reorder_buf
      /\ cold1' = cold1 /\ do_accel' = do_accel
  BY Zenon, <1>o, <1>r, <1>h, <1>i DEF ToPass2, SecondUse, FirstUse, Checked
<1>t. pass1 \in Seq(Op) /\ pass2 \in Seq(Op) /\ o \in Op
  BY Zenon, <1>o, OneMore DEF ExtractInv
<1>l. \A k : hot(k)' = hot(k) /\ reg(k)' = reg(k) /\ Locks(k)' = Locks(k)
  BY Zenon, LayoutSame
<1>s. s \in DOMAIN pass1 /\ reg(first.id) = r /\ first \in Elems(pass1)
  BY Zenon, <1>p, <1>h, <1>i DEF PassInv, Elems
<1>f. first \in Op
  BY <1>s, <1>i, <1>t
\* Whichever goes to the second pass.
<1>c. PICK e \in {o, first} : pass2' = Append(pass2, e)
  BY Zenon, <1>p
<1>e. e \in Op /\ reg(e.id) = r
  BY Zenon, <1>c, <1>t, <1>f, <1>s, <1>r
<1>a. /\ pass2' \in Seq(Op) /\ Len(pass2') = Len(pass2) + 1
      /\ DOMAIN pass2' = DOMAIN pass2 \cup {Len(pass2) + 1}
      /\ \A p \in DOMAIN pass2 : pass2'[p] = pass2[p] /\ p # Len(pass2) + 1
      /\ pass2'[Len(pass2) + 1] = e
      /\ Elems(pass2') = Elems(pass2) \cup {e}
  BY <1>c, <1>e, <1>t, ElemsAppend
<1>b. /\ pass1' \in Seq(Op) /\ Len(pass1') = Len(pass1) /\ DOMAIN pass1' = DOMAIN pass1
      /\ \A x \in DOMAIN pass1 : reg(pass1'[x].id) = reg(pass1[x].id)
      /\ Elems(pass1') \cup Elems(pass2') = Elems(pass1) \cup Elems(pass2) \cup {o}
  <2>1. CASE pass2' = Append(pass2, o) /\ pass1' = pass1
    <3>1. Elems(pass2') = Elems(pass2) \cup {o}
      BY <2>1, <1>t, ElemsAppend
    <3>. QED  BY Zenon, <2>1, <3>1, <1>t
  <2>2. CASE pass2' = Append(pass2, first) /\ pass1' = [pass1 EXCEPT ![s] = o]
    <3>1. Elems(pass2') = Elems(pass2) \cup {first}
      BY <2>2, <1>t, <1>f, ElemsAppend
    <3>2. /\ pass1' \in Seq(Op) /\ Len(pass1') = Len(pass1) /\ DOMAIN pass1' = DOMAIN pass1
          /\ pass1'[s] = o /\ (\A x \in DOMAIN pass1 : x # s => pass1'[x] = pass1[x])
      BY <2>2, <1>s, <1>t
    <3>e. Elems(pass1') \cup {pass1[s]} = Elems(pass1) \cup {o}
      <4>1. /\ pass1' \in Seq(Op) /\ DOMAIN pass1' = DOMAIN pass1
            /\ \A x \in DOMAIN pass1 : x # s => pass1'[x] = pass1[x]
        BY Zenon, <3>2
      <4>2. s \in DOMAIN pass1 /\ pass1 \in Seq(Op)
        BY Zenon, <1>s, <1>t
      <4>3. Elems(pass1') \cup {pass1[s]} = Elems(pass1) \cup {pass1'[s]}
        BY ZenonT(60), <4>1, <4>2, ElemsExcept
      <4>. QED  BY Zenon, <3>2, <4>3
    <3>3. \A x \in DOMAIN pass1 : reg(pass1'[x].id) = reg(pass1[x].id)
      BY Zenon, <3>2, <1>s, <1>r, <1>i
    <3>4. Elems(pass1') \cup Elems(pass2') = Elems(pass1) \cup Elems(pass2) \cup {o}
      BY Zenon, <3>1, <3>e, <1>i
    <3>. QED  BY Zenon, <3>2, <3>3, <3>4
  <2>. QED  BY Zenon, <1>p, <2>1, <2>2
<1>1. ExtractInv'
  <2>1. Len(pass1') + Len(pass2') = Len(pass1) + Len(pass2) + 1
    BY <1>a, <1>b, <1>t
  <2>. QED  BY Zenon, <1>a, <1>b, <1>p, <2>1, <1>o, HotStep
<1>2. reg_usage' = reg_usage
  BY Zenon, <1>p DEF reg_usage
<1>3. \A x \in reg_usage' : hot_reorder_buf'[x] \in DOMAIN pass1' /\ reg(pass1[hot_reorder_buf[x]].id)' = x
  BY Zenon, <1>2, <1>b, <1>l, <1>p DEF PassInv
<1>4. ASSUME do_accel', NEW p \in DOMAIN pass1'
      PROVE  reg(pass1[p].id)' \in reg_usage' /\ hot_reorder_buf'[reg(pass1[p].id)'] = p
  <2>1. reg(pass1[p].id)' = reg(pass1[p].id) /\ p \in DOMAIN pass1
    BY Zenon, <1>4, <1>b, <1>l
  <2>. QED  BY ZenonT(60), <1>4, <2>1, <1>2, <1>p DEF PassInv
<1>5. (\A p \in DOMAIN pass2 : reg(pass2[p].id) \in reg_usage_2)'
  BY Zenon, <1>a, <1>e, <1>p, <1>l DEF PassInv
<1>6. ASSUME NEW p \in DOMAIN pass2', NEW x \in DOMAIN pass2', p # x
      PROVE  reg(pass2[p].id)' # reg(pass2[x].id)'
  <2>1. \A z \in DOMAIN pass2 : reg(pass2'[z].id) = reg(pass2[z].id)
    BY Zenon, <1>a
  <2>2. \A z \in DOMAIN pass2 : reg(pass2[z].id) # r
    <3>1. \A z \in DOMAIN pass2 : reg(pass2[z].id) \in reg_usage_2
      BY Zenon DEF PassInv
    <3>. QED  BY Zenon, <1>p, <3>1
  <2>3. reg(pass2'[Len(pass2) + 1].id) = r
    BY Zenon, <1>a, <1>e
  <2>4. \A y, z \in DOMAIN pass2 : y # z => reg(pass2[y].id) # reg(pass2[z].id)
    BY Zenon DEF PassInv
  <2>5. reg(pass2'[p].id) # reg(pass2'[x].id)
    BY Zenon, <1>6, <1>a, <2>1, <2>2, <2>3, <2>4
  <2>. QED  BY Zenon, <1>l, <2>5
<1>7. ASSUME do_accel', NEW y \in (Elems(pass1) \cup Elems(pass2))' PROVE Locks(y.id)' \subseteq locks_check'
  <2>1. y \in Elems(pass1) \cup Elems(pass2) \cup {o}
    BY Zenon, <1>7, <1>b DEF Elems
  <2>. QED  BY Zenon, <1>7, <2>1, <1>p, <1>l DEF PassInv
<1>8. (\A p \in 1 .. cold_p : ~hot(cold_ops[p].id))' /\ (cold1.v > 0 => cold1.i \in 1 .. cold_p)'
  BY Zenon, <1>p, <1>l DEF PassInv
<1>. QED  BY Zenon, <1>1, <1>3, <1>4, <1>5, <1>6, <1>7, <1>8 DEF PassInv

\* An operation too many: the transaction is given up, and the loop goes on.
LEMMA GiveUpStep ==
  ASSUME ExtractInv, PassInv, i \in 1 .. N_OPS, i' = i + 1, trace' = trace, UNCHANGED vars,
         NotAccelerated(cold_ops[i])
  PROVE  ExtractInv' /\ PassInv'
<1>. DEFINE o == cold_ops[i]
<1>p. /\ pass1' = Append(pass1, o) /\ pass2' = pass2 /\ hot_reorder_buf' = hot_reorder_buf
      /\ cold_ops' = cold_ops /\ cold_p' = cold_p /\ reg_usage_2' = reg_usage_2
      /\ cold1' = cold1 /\ do_accel' = FALSE
  BY Zenon DEF NotAccelerated
<1>t. pass1 \in Seq(Op) /\ pass2 \in Seq(Op) /\ o \in Op
  BY Zenon, OneMore DEF ExtractInv
<1>l. \A k : hot(k)' = hot(k) /\ reg(k)' = reg(k) /\ Locks(k)' = Locks(k)
  BY Zenon, LayoutSame
<1>. HIDE DEF o
<1>a. /\ pass1' \in Seq(Op) /\ Len(pass1') = Len(pass1) + 1
      /\ DOMAIN pass1' = DOMAIN pass1 \cup {Len(pass1) + 1}
      /\ \A p \in DOMAIN pass1 : pass1'[p] = pass1[p]
      /\ Elems(pass1') = Elems(pass1) \cup {o}
  BY <1>p, <1>t, ElemsAppend
<1>1. ExtractInv'
  <2>1. Len(pass1') + Len(pass2') = Len(pass1) + Len(pass2) + 1
    BY <1>a, <1>p, <1>t
  <2>2. Elems(pass1') \cup Elems(pass2') = Elems(pass1) \cup Elems(pass2) \cup {o}
    BY Zenon, <1>a, <1>p
  <2>. QED  BY Zenon, <1>a, <1>p, <1>t, <2>1, <2>2, HotStep DEF o
<1>2. reg_usage' = reg_usage
  BY Zenon, <1>p DEF reg_usage
<1>3. \A x \in reg_usage' : hot_reorder_buf'[x] \in DOMAIN pass1' /\ reg(pass1[hot_reorder_buf[x]].id)' = x
  BY Zenon, <1>2, <1>a, <1>l, <1>p DEF PassInv
<1>5. (\A p \in DOMAIN pass2 : reg(pass2[p].id) \in reg_usage_2)'
  BY Zenon, <1>p, <1>l DEF PassInv
<1>6. (\A p, s \in DOMAIN pass2 : p # s => reg(pass2[p].id) # reg(pass2[s].id))'
  BY Zenon, <1>p, <1>l DEF PassInv
<1>8. (\A p \in 1 .. cold_p : ~hot(cold_ops[p].id))' /\ (cold1.v > 0 => cold1.i \in 1 .. cold_p)'
  BY Zenon, <1>p, <1>l DEF PassInv
<1>. QED  BY Zenon, <1>1, <1>3, <1>5, <1>6, <1>8, <1>p DEF PassInv

\* A cold operation is packed at the front, over one that the loop has gone through.
LEMMA ColdStep ==
  ASSUME ExtractInv, PassInv, i \in 1 .. N_OPS, i' = i + 1, trace' = trace, UNCHANGED vars,
         ToCold(cold_ops[i])
  PROVE  ExtractInv' /\ PassInv'
<1>. DEFINE o == cold_ops[i]
            c == cold_p + 1
<1>p. /\ ~hot(o.id) /\ cold_ops' = [cold_ops EXCEPT ![c] = o] /\ cold_p' = c
      /\ pass1' = pass1 /\ pass2' = pass2 /\ hot_reorder_buf' = hot_reorder_buf
      /\ reg_usage_2' = reg_usage_2 /\ do_accel' = do_accel /\ locks_check' = locks_check
      /\ cold1' = cold1 \/ cold1' = [i |-> c, v |-> freq(o.id)]
  BY Zenon DEF ToCold
<1>t. cold_ops \in [1 .. N_OPS -> Op] /\ o \in Op
  BY Zenon, OneMore DEF ExtractInv
<1>l. \A k : hot(k)' = hot(k) /\ reg(k)' = reg(k) /\ Locks(k)' = Locks(k)
  BY Zenon, LayoutSame
<1>n. /\ cold_p \in Nat /\ Len(pass1) \in Nat /\ Len(pass2) \in Nat /\ i \in Nat /\ N_OPS \in Nat
      /\ cold_p + Len(pass1) + Len(pass2) = i - 1 /\ i <= N_OPS
  BY HotColdAssumption DEF ExtractInv
<1>m. /\ c \in 1 .. N_OPS /\ c <= i /\ c \in Nat /\ 1 .. c = 1 .. cold_p \cup {c} /\ c \notin 1 .. cold_p
      /\ 1 .. cold_p \subseteq 1 .. N_OPS /\ c + Len(pass1) + Len(pass2) = (i + 1) - 1
      /\ i + 1 .. N_OPS \subseteq i .. N_OPS /\ c \notin i + 1 .. N_OPS /\ i + 1 .. N_OPS \subseteq 1 .. N_OPS
  BY <1>n
<1>. HIDE DEF o, c
<1>a. /\ cold_ops' \in [1 .. N_OPS -> Op] /\ cold_ops'[c] = o
      /\ \A p \in 1 .. N_OPS : p # c => cold_ops'[p] = cold_ops[p]
  BY Zenon, <1>p, <1>t, <1>m
<1>1. ExtractInv'
  <2>1. Front' = Front \cup {o}
    <3>1. \A p \in 1 .. cold_p : cold_ops'[p] = cold_ops[p]
      BY Zenon, <1>a, <1>m
    <3>2. Front' = {cold_ops'[p] : p \in 1 .. cold_p \cup {c}}
      BY Zenon, <1>p, <1>m DEF Front
    <3>. QED  BY Zenon, <1>a, <3>1, <3>2 DEF Front
  <2>2. \A p : OpAt(p)' = OpAt(p)
    BY Zenon DEF OpAt
  <2>3. \A p \in i' .. N_OPS : cold_ops'[p] = OpAt(p)'
    BY Zenon, <2>2, <1>a, <1>m DEF ExtractInv
  <2>4. {OpAt(p) : p \in 1 .. i - 1}' = {OpAt(p) : p \in 1 .. i' - 1}
    BY Zenon, <2>2
  <2>5. /\ {OpAt(p) : p \in 1 .. i' - 1} = {OpAt(p) : p \in 1 .. i - 1} \cup {o}
        /\ i' \in 1 .. N_OPS + 1
    BY Zenon, OneMore DEF o
  <2>6. (Front \cup Elems(pass1) \cup Elems(pass2))' = Front \cup Elems(pass1) \cup Elems(pass2) \cup {o}
    BY Zenon, <2>1, <1>p DEF Elems
  <2>7. (Front \cup Elems(pass1) \cup Elems(pass2) = {OpAt(p) : p \in 1 .. i - 1})'
    BY Zenon, <2>4, <2>5, <2>6 DEF ExtractInv
  <2>8. (cold_p + Len(pass1) + Len(pass2) = i - 1)' /\ cold_p' \in Nat
    BY Zenon, <1>p, <1>m
  <2>. QED  BY Zenon, <1>a, <1>p, <2>3, <2>5, <2>7, <2>8 DEF ExtractInv
<1>2. reg_usage' = reg_usage
  BY Zenon, <1>p DEF reg_usage
<1>3. (\A r \in reg_usage : hot_reorder_buf[r] \in DOMAIN pass1 /\ reg(pass1[hot_reorder_buf[r]].id) = r)'
  BY Zenon, <1>2, <1>l, <1>p DEF PassInv
<1>4. (do_accel => \A p \in DOMAIN pass1 : /\ reg(pass1[p].id) \in reg_usage
                                           /\ hot_reorder_buf[reg(pass1[p].id)] = p)'
  BY Zenon, <1>2, <1>l, <1>p DEF PassInv
<1>5. (\A p \in DOMAIN pass2 : reg(pass2[p].id) \in reg_usage_2)'
  BY Zenon, <1>p, <1>l DEF PassInv
<1>6. (\A p, s \in DOMAIN pass2 : p # s => reg(pass2[p].id) # reg(pass2[s].id))'
  BY Zenon, <1>p, <1>l DEF PassInv
<1>7. (do_accel => \A e \in Elems(pass1) \cup Elems(pass2) : Locks(e.id) \subseteq locks_check)'
  <2>1. Elems(pass1)' = Elems(pass1) /\ Elems(pass2)' = Elems(pass2)
    BY Zenon, <1>p DEF Elems
  <2>. QED  BY Zenon, <1>p, <1>l, <2>1 DEF PassInv
<1>8. (\A p \in 1 .. cold_p : ~hot(cold_ops[p].id))'
  BY Zenon, <1>a, <1>p, <1>m, <1>l DEF PassInv
<1>9. cold1'.v > 0 => cold1'.i \in 1 .. c
  <2>1. CASE cold1' = cold1
    BY Zenon, <2>1, <1>m DEF PassInv
  <2>2. CASE cold1' = [i |-> c, v |-> freq(o.id)]
    BY Zenon, <2>2, <1>m
  <2>. QED  BY Zenon, <1>p, <2>1, <2>2
<1>. QED  BY Zenon, <1>1, <1>3, <1>4, <1>5, <1>6, <1>7, <1>8, <1>9, <1>p DEF PassInv

\* Where the list of cold operations ends.
LEMMA ColdEnd ==
  ASSUME NEW l \in 0 .. N_OPS, \A p \in 1 .. l : cold_ops'[p] # INVALID,
         l = N_OPS \/ cold_ops'[l + 1] = INVALID
  PROVE  ColdLen' = l
<1>1. N_OPS \in Nat /\ l \in Nat /\ l <= N_OPS
  BY HotColdAssumption
<1>2. ASSUME NEW m \in 0 .. N_OPS, \A p \in 1 .. m : cold_ops'[p] # INVALID,
             m = N_OPS \/ cold_ops'[m + 1] = INVALID
      PROVE  m = l
  <2>1. m \in Nat /\ m <= N_OPS
    BY <1>1
  <2>2. CASE m < l
    <3>1. m # N_OPS /\ m + 1 \in 1 .. l
      BY <1>1, <2>1, <2>2
    <3>. QED  BY Zenon, <1>2, <3>1
  <2>3. CASE l < m
    <3>1. l # N_OPS /\ l + 1 \in 1 .. m
      BY <1>1, <2>1, <2>3
    <3>. QED  BY Zenon, <1>2, <3>1
  <2>. QED  BY <1>1, <2>1, <2>2, <2>3
<1>. QED  BY Zenon, <1>2 DEF ColdLen

\* What that list is.
LEMMA ColdIs ==
  ASSUME NEW l \in 0 .. N_OPS, DOMAIN cold_ops' = 1 .. N_OPS, \A p \in 1 .. l : cold_ops'[p] \in Op,
         l = N_OPS \/ cold_ops'[l + 1] = INVALID
  PROVE  /\ Len(Cold)' = l /\ DOMAIN Cold' = 1 .. l
         /\ \A p \in 1 .. l : Cold'[p] = cold_ops'[p]
         /\ Elems(Cold)' = {cold_ops'[p] : p \in 1 .. l}
<1>1. \A p \in 1 .. l : cold_ops'[p] # INVALID
  BY Zenon, HotColdAssumption
<1>2. Cold' = SubSeq(cold_ops', 1, l)
  BY Zenon, <1>1, ColdEnd DEF Cold
<1>3. N_OPS \in Nat /\ l \in Nat /\ l <= N_OPS
  BY HotColdAssumption
<1>4. /\ Cold' = [p \in 1 .. l |-> cold_ops'[p]]
      /\ Len(Cold)' = l
  <2>1. SubSeq(cold_ops', 1, l) = [p \in 1 .. (1 + l) - 1 |-> cold_ops'[(p + 1) - 1]]
    BY <1>3
  <2>. QED  BY <1>2, <1>3
<1>5. DOMAIN Cold' = 1 .. l /\ \A p \in 1 .. l : Cold'[p] = cold_ops'[p]
  BY Zenon, <1>4
<1>. QED  BY Zenon, <1>4, <1>5 DEF Elems
\* The transaction after the loop.
LEMMA FinishStep ==
  ASSUME ExtractInv, PassInv, do_accel \in BOOLEAN, Finish, UNCHANGED vars
  PROVE  /\ NoOpLost' /\ OncePerPass'
         /\ do_accel' /\ cold1'.v > 0 => cold_ops'[cold1'.i] \in Op
<1>p. /\ i > N_OPS /\ trace' = trace /\ locks_check' = locks_check /\ do_accel' = do_accel /\ cold1' = cold1
  BY Zenon DEF Finish
<1>t. /\ cold_ops \in [1 .. N_OPS -> Op] /\ pass1 \in Seq(Op) /\ pass2 \in Seq(Op)
      /\ DOMAIN pass1 = 1 .. Len(pass1) /\ DOMAIN pass2 = 1 .. Len(pass2)
  BY DEF ExtractInv
<1>n. /\ cold_p \in Nat /\ N_OPS \in Nat /\ Len(pass1) \in Nat /\ Len(pass2) \in Nat
      /\ cold_p + Len(pass1) + Len(pass2) = N_OPS /\ 1 .. i - 1 = 1 .. N_OPS
  <2>1. i \in 1 .. N_OPS + 1 /\ N_OPS \in Nat
    BY Zenon, HotColdAssumption DEF ExtractInv
  <2>2. i = N_OPS + 1
    BY <1>p, <2>1
  <2>. QED  BY <1>t, <2>1, <2>2 DEF ExtractInv
<1>m. /\ cold_p \in 0 .. N_OPS /\ 1 .. cold_p \subseteq 1 .. N_OPS
      /\ cold_p < N_OPS => cold_p + 1 \in 1 .. N_OPS /\ cold_p + 1 \notin 1 .. cold_p
  BY <1>n
<1>l. \A k : hot(k)' = hot(k) /\ reg(k)' = reg(k) /\ Locks(k)' = Locks(k)
  BY Zenon, LayoutSame
<1>e. Front \cup Elems(pass1) \cup Elems(pass2) = {OpAt(p) : p \in 1 .. N_OPS}
  BY Zenon, <1>n DEF ExtractInv
<1>f. {OpAt(p) : p \in 1 .. N_OPS} = {[id |-> trace[p], pos |-> p] : p \in 1 .. N_OPS}
  BY Zenon DEF OpAt
<1>1. CASE do_accel
  <2>1. /\ pass1' = pass1 /\ pass2' = pass2
        /\ cold_ops' = IF cold_p < N_OPS THEN [cold_ops EXCEPT ![cold_p + 1] = INVALID] ELSE cold_ops
    BY Zenon, <1>1 DEF Finish
  <2>2. /\ DOMAIN cold_ops' = 1 .. N_OPS /\ \A p \in 1 .. cold_p : cold_ops'[p] = cold_ops[p]
        /\ cold_p = N_OPS \/ cold_ops'[cold_p + 1] = INVALID
    <3>1. CASE cold_p < N_OPS
      BY Zenon, <1>m, <1>t, <2>1, <3>1
    <3>2. CASE ~(cold_p < N_OPS)
      <4>1. cold_p = N_OPS
        BY <1>n, <3>2
      <4>. QED  BY Zenon, <1>t, <2>1, <3>2, <4>1
    <3>. QED  BY Zenon, <3>1, <3>2
  <2>3. \A p \in 1 .. cold_p : cold_ops'[p] \in Op
    BY Zenon, <1>m, <1>t, <2>2
  <2>4. /\ Len(Cold)' = cold_p /\ DOMAIN Cold' = 1 .. cold_p
        /\ \A p \in 1 .. cold_p : Cold'[p] = cold_ops[p]
        /\ Elems(Cold)' = Front
    <3>1. /\ Len(Cold)' = cold_p /\ DOMAIN Cold' = 1 .. cold_p
          /\ \A p \in 1 .. cold_p : Cold'[p] = cold_ops'[p]
          /\ Elems(Cold)' = {cold_ops'[p] : p \in 1 .. cold_p}
      BY Zenon, <1>m, <2>2, <2>3, ColdIs
    <3>2. {cold_ops'[p] : p \in 1 .. cold_p} = Front
      BY Zenon, <2>2 DEF Front
    <3>. QED  BY Zenon, <2>2, <3>1, <3>2
  <2>5. NoOpLost'
    <3>1. Elems(pass1)' = Elems(pass1) /\ Elems(pass2)' = Elems(pass2)
      BY Zenon, <2>1 DEF Elems
    <3>2. (Len(Cold) + Len(pass1) + Len(pass2) = N_OPS)'
      BY Zenon, <1>n, <2>1, <2>4
    <3>3. {[id |-> trace[p], pos |-> p] : p \in 1 .. N_OPS}' = {[id |-> trace[p], pos |-> p] : p \in 1 .. N_OPS}
      BY Zenon, <1>p
    <3>. QED  BY Zenon, <1>e, <1>f, <2>4, <3>1, <3>2, <3>3 DEF NoOpLost
  <2>6. (\A p \in DOMAIN Cold : ~hot(Cold[p].id))'
    <3>1. \A p \in 1 .. cold_p : ~hot(cold_ops[p].id)
      BY Zenon DEF PassInv
    <3>2. \A p \in 1 .. cold_p : ~hot(Cold'[p].id)
      BY Zenon, <2>4, <3>1
    <3>. QED  BY Zenon, <1>l, <2>4, <3>2
  <2>7. (\A o \in Elems(pass1) \cup Elems(pass2) : Locks(o.id) \subseteq locks_check)'
    <3>1. Elems(pass1)' = Elems(pass1) /\ Elems(pass2)' = Elems(pass2)
      BY Zenon, <2>1 DEF Elems
    <3>. QED  BY Zenon, <1>1, <1>l, <1>p, <3>1 DEF PassInv
  <2>8. (\A p, s \in DOMAIN pass1 : p # s => reg(pass1[p].id) # reg(pass1[s].id))'
    <3>1. \A p \in DOMAIN pass1 : hot_reorder_buf[reg(pass1[p].id)] = p
      BY Zenon, <1>1 DEF PassInv
    <3>2. \A p, s \in DOMAIN pass1 : p # s => reg(pass1[p].id) # reg(pass1[s].id)
      BY Zenon, <3>1
    <3>. QED  BY Zenon, <1>l, <2>1, <3>2
  <2>9. (\A p, s \in DOMAIN pass2 : p # s => reg(pass2[p].id) # reg(pass2[s].id))'
    BY Zenon, <1>l, <2>1 DEF PassInv
  <2>10. OncePerPass'
    BY Zenon, <1>1, <1>p, <2>6, <2>7, <2>8, <2>9 DEF OncePerPass
  <2>11. cold1.v > 0 => cold_ops'[cold1.i] \in Op
    BY Zenon, <2>3 DEF PassInv
  <2>. QED  BY Zenon, <1>p, <2>5, <2>10, <2>11
<1>2. CASE ~do_accel
  <2>1. pass1' = <<>> /\ pass2' = <<>> /\ cold_ops' = [p \in 1 .. N_OPS |-> Restored(p)]
    BY Zenon, <1>2 DEF Finish
  <2>2. /\ \A p \in 1 .. cold_p : p \in 1 .. N_OPS /\ Restored(p) = cold_ops[p]
        /\ \A p \in DOMAIN pass1 : cold_p + p \in 1 .. N_OPS /\ Restored(cold_p + p) = pass1[p]
        /\ \A p \in DOMAIN pass2 : /\ cold_p + Len(pass1) + p \in 1 .. N_OPS
                                   /\ Restored(cold_p + Len(pass1) + p) = pass2[p]
    <3>1. \A p \in 1 .. cold_p : p \in 1 .. N_OPS /\ p <= cold_p
      BY <1>n
    <3>2. \A p \in 1 .. Len(pass1) : /\ cold_p + p \in 1 .. N_OPS /\ ~(cold_p + p <= cold_p)
                                     /\ cold_p + p <= cold_p + Len(pass1) /\ (cold_p + p) - cold_p = p
      BY <1>n
    <3>3. \A p \in 1 .. Len(pass2) : /\ cold_p + Len(pass1) + p \in 1 .. N_OPS
                                     /\ ~(cold_p + Len(pass1) + p <= cold_p)
                                     /\ ~(cold_p + Len(pass1) + p <= cold_p + Len(pass1))
                                     /\ (cold_p + Len(pass1) + p) - cold_p - Len(pass1) = p
      BY <1>n
    <3>4. \A p \in 1 .. cold_p : Restored(p) = cold_ops[p]
      BY Zenon, <3>1 DEF Restored
    <3>5. \A p \in 1 .. Len(pass1) : Restored(cold_p + p) = pass1[p]
      BY Zenon, <3>2 DEF Restored
    <3>6. \A p \in 1 .. Len(pass2) : Restored(cold_p + Len(pass1) + p) = pass2[p]
      BY Zenon, <3>3 DEF Restored
    <3>. QED  BY Zenon, <1>t, <3>1, <3>2, <3>3, <3>4, <3>5, <3>6
  <2>3. \A p \in 1 .. N_OPS : \/ p \in 1 .. cold_p
                              \/ \E s \in 1 .. Len(pass1) : p = cold_p + s
                              \/ \E s \in 1 .. Len(pass2) : p = cold_p + Len(pass1) + s
    <3>. SUFFICES ASSUME NEW p \in 1 .. N_OPS, p \notin 1 .. cold_p
                  PROVE  \/ \E s \in 1 .. Len(pass1) : p = cold_p + s
                         \/ \E s \in 1 .. Len(pass2) : p = cold_p + Len(pass1) + s
      BY Zenon
    <3>1. CASE p - cold_p <= Len(pass1)
      <4>1. p - cold_p \in 1 .. Len(pass1) /\ p = cold_p + (p - cold_p)
        BY <1>n, <3>1
      <4>. QED  BY Zenon, <4>1
    <3>2. CASE ~(p - cold_p <= Len(pass1))
      <4>1. /\ p - cold_p - Len(pass1) \in 1 .. Len(pass2)
            /\ p = cold_p + Len(pass1) + (p - cold_p - Len(pass1))
        BY <1>n, <3>2
      <4>. QED  BY Zenon, <4>1
    <3>. QED  BY Zenon, <3>1, <3>2
  <2>4. {Restored(p) : p \in 1 .. N_OPS} = Front \cup Elems(pass1) \cup Elems(pass2)
    <3>1. ASSUME NEW p \in 1 .. N_OPS PROVE Restored(p) \in Front \cup Elems(pass1) \cup Elems(pass2)
      BY Zenon, <1>t, <2>2, <2>3 DEF Front, Elems
    <3>2. ASSUME NEW o \in Front \cup Elems(pass1) \cup Elems(pass2)
          PROVE  \E p \in 1 .. N_OPS : o = Restored(p)
      BY Zenon, <2>2 DEF Front, Elems
    <3>. QED  BY Zenon, <3>1, <3>2
  <2>5. {Restored(p) : p \in 1 .. N_OPS} \subseteq Op
    <3>1. Front \subseteq Op
      BY Zenon, <1>m, <1>t DEF Front
    <3>2. Elems(pass1) \subseteq Op /\ Elems(pass2) \subseteq Op
      BY <1>t DEF Elems
    <3>. QED  BY Zenon, <2>4, <3>1, <3>2
  <2>6. /\ DOMAIN cold_ops' = 1 .. N_OPS /\ \A p \in 1 .. N_OPS : cold_ops'[p] = Restored(p)
        /\ N_OPS \in 0 .. N_OPS
    BY <1>n, <2>1
  <2>7. /\ Len(Cold)' = N_OPS /\ Elems(Cold)' = {Restored(p) : p \in 1 .. N_OPS}
    <3>1. \A p \in 1 .. N_OPS : cold_ops'[p] \in Op
      BY Zenon, <2>5, <2>6
    <3>2. Len(Cold)' = N_OPS /\ Elems(Cold)' = {cold_ops'[p] : p \in 1 .. N_OPS}
      BY Zenon, <2>6, <3>1, ColdIs
    <3>3. {cold_ops'[p] : p \in 1 .. N_OPS} = {Restored(p) : p \in 1 .. N_OPS}
      BY Zenon, <2>6
    <3>. QED  BY Zenon, <3>2, <3>3
  <2>8. Elems(<<>>) = {} /\ Len(<<>>) = 0 /\ DOMAIN <<>> = {}
    BY DEF Elems
  <2>9. NoOpLost'
    <3>1. Elems(pass1)' = {} /\ Elems(pass2)' = {}
      BY Zenon, <2>1, <2>8
    <3>2. (Len(Cold) + Len(pass1) + Len(pass2) = N_OPS)'
      BY <1>n, <2>1, <2>7, <2>8
    <3>3. {[id |-> trace[p], pos |-> p] : p \in 1 .. N_OPS}' = {[id |-> trace[p], pos |-> p] : p \in 1 .. N_OPS}
      BY Zenon, <1>p
    <3>. QED  BY Zenon, <1>e, <1>f, <2>4, <2>7, <3>1, <3>2, <3>3 DEF NoOpLost
  <2>10. OncePerPass'
    BY Zenon, <1>2, <1>p, <2>1, <2>8 DEF OncePerPass
  <2>. QED  BY Zenon, <1>2, <1>p, <2>9, <2>10
<1>. QED  BY Zenon, <1>1, <1>2

\* Before the first transaction.
LEMMA TxnInit ==
  ASSUME TInit PROVE TxnInv
<1>1. /\ i = 0 /\ cold_p = 0 /\ pass1 = <<>> /\ pass2 = <<>> /\ hot_reorder_buf = << >>
      /\ cold1 = [i |-> 0, v |-> 0] /\ do_accel = FALSE /\ init_done = FALSE
  BY Zenon DEF TInit
<1>2. ~(cold1.v > 0)
  BY <1>1
<1>. QED  BY Zenon, <1>1, <1>2 DEF TxnInv

\* The transaction is handed to the loop as it was loaded.
LEMMA LoadStep ==
  ASSUME TxnInv, NEW T \in SUBSET [1 .. N_OPS -> AllKeys], Load(T)
  PROVE  TxnInv'
<1>p. /\ i = 0 /\ trace' \in [1 .. N_OPS -> AllKeys] /\ i' = 1 /\ do_accel' = TRUE
      /\ cold_ops' = [p \in 1 .. N_OPS |-> [id |-> trace'[p], pos |-> p]]
      /\ cold_p' = cold_p /\ pass1' = pass1 /\ pass2' = pass2 /\ hot_reorder_buf' = hot_reorder_buf
      /\ cold1' = cold1 /\ init_done' = init_done
  BY Zenon DEF Load
<1>z. /\ cold_p' = 0 /\ pass1' = <<>> /\ pass2' = <<>> /\ hot_reorder_buf' = << >>
      /\ ~(cold1'.v > 0) /\ init_done' = FALSE
  BY Zenon, <1>p DEF TxnInv
<1>n. N_OPS \in Nat /\ i' \in 1 .. N_OPS + 1 /\ 1 .. 0 = {} /\ i' - 1 = 0 /\ i' # 0
  BY <1>p, HotColdAssumption
<1>e. Len(<<>>) = 0 /\ DOMAIN <<>> = {} /\ Elems(<<>>) = {} /\ <<>> \in Seq(Op) /\ DOMAIN << >> = {}
  BY DEF Elems
<1>1. cold_ops' \in [1 .. N_OPS -> Op] /\ \A p \in 1 .. N_OPS : cold_ops'[p] = OpAt(p)'
  <2>1. \A p \in 1 .. N_OPS : [id |-> trace'[p], pos |-> p] \in Op
    BY Zenon, <1>p DEF Op
  <2>. QED  BY Zenon, <1>p, <2>1 DEF OpAt
<1>2. Front' = {} /\ Elems(pass1)' = {} /\ Elems(pass2)' = {} /\ {OpAt(p) : p \in 1 .. i - 1}' = {}
  BY Zenon, <1>z, <1>n, <1>e DEF Front
<1>3. ExtractInv'
  <2>1. (cold_p + Len(pass1) + Len(pass2) = i - 1)' /\ cold_p' \in Nat
    BY <1>z, <1>n, <1>e
  <2>2. \A p \in i' .. N_OPS : cold_ops'[p] = OpAt(p)'
    BY Zenon, <1>1, <1>p
  <2>. QED  BY Zenon, <1>1, <1>2, <1>e, <1>n, <1>z, <2>1, <2>2 DEF ExtractInv
<1>4. PassInv'
  <2>1. reg_usage' = {} /\ DOMAIN pass1' = {} /\ DOMAIN pass2' = {} /\ 1 .. cold_p' = {}
    BY Zenon, <1>z, <1>e, <1>n DEF reg_usage
  <2>. QED  BY Zenon, <1>2, <1>z, <2>1 DEF PassInv
<1>. QED  BY Zenon, <1>3, <1>4, <1>n, <1>p, <1>z DEF TxnInv

\* Every step of extract_hot_cold keeps the invariant.
LEMMA ExtractStep ==
  ASSUME TxnInv, UNCHANGED vars, Extract \/ Finish
  PROVE  TxnInv'
<1>1. CASE Extract
  <2>1. /\ i \in 1 .. N_OPS /\ i' = i + 1 /\ trace' = trace /\ init_done' = init_done
        /\ \/ ToPass1(cold_ops[i]) \/ ToPass2(cold_ops[i])
           \/ NotAccelerated(cold_ops[i]) \/ ToCold(cold_ops[i])
    BY Zenon, <1>1 DEF Extract
  <2>2. i # 0 /\ i + 1 # 0 /\ ~(i > N_OPS)
    BY <2>1, HotColdAssumption
  <2>3. ~init_done /\ do_accel \in BOOLEAN /\ trace \in [1 .. N_OPS -> AllKeys]
    BY Zenon, <2>1, <2>2 DEF TxnInv
  <2>4. ExtractInv /\ PassInv
    BY Zenon, <2>2, <2>3 DEF TxnInv
  <2>5. ExtractInv' /\ PassInv'
    BY Zenon, <2>1, <2>4, Pass1Step, Pass2Step, GiveUpStep, ColdStep
  <2>6. do_accel' \in BOOLEAN
    BY Zenon, <2>1, <2>3 DEF ToPass1, ToPass2, NotAccelerated, ToCold
  <2>. QED  BY Zenon, <2>1, <2>2, <2>3, <2>5, <2>6 DEF TxnInv
<1>2. CASE Finish
  <2>1. i > N_OPS /\ ~init_done /\ init_done' = TRUE /\ trace' = trace /\ i' = i /\ do_accel' = do_accel
    BY Zenon, <1>2 DEF Finish
  <2>2. i # 0
    BY <2>1, HotColdAssumption
  <2>3. ExtractInv /\ PassInv /\ do_accel \in BOOLEAN /\ trace \in [1 .. N_OPS -> AllKeys]
    BY Zenon, <2>1, <2>2 DEF TxnInv
  <2>4. /\ NoOpLost' /\ OncePerPass'
        /\ do_accel' /\ cold1'.v > 0 => cold_ops'[cold1'.i] \in Op
    BY Zenon, <1>2, <2>3, FinishStep
  <2>. QED  BY Zenon, <2>1, <2>2, <2>3, <2>4 DEF TxnInv
<1>. QED  BY Zenon, <1>1, <1>2

\* The next one starts with empty lists.
LEMMA NewTxnStep ==
  ASSUME NewTxn PROVE TxnInv'
<1>1. /\ i' = 0 /\ cold_p' = 0 /\ pass1' = <<>> /\ pass2' = <<>> /\ hot_reorder_buf' = << >>
      /\ cold1' = [i |-> 0, v |-> 0] /\ do_accel' = FALSE /\ init_done' = FALSE
  BY Zenon DEF NewTxn
<1>2. ~(cold1'.v > 0)
  BY <1>1
<1>. QED  BY Zenon, <1>1, <1>2 DEF TxnInv

\* The layout of the keys and the transaction do not change otherwise.
LEMMA TxnSame ==
  ASSUME TxnInv, UNCHANGED txnVars, UNCHANGED vars \/ i = 0
  PROVE  TxnInv'
<1>p. /\ trace' = trace /\ i' = i /\ cold_ops' = cold_ops /\ cold_p' = cold_p /\ pass1' = pass1
      /\ pass2' = pass2 /\ hot_reorder_buf' = hot_reorder_buf /\ reg_usage_2' = reg_usage_2
      /\ locks_check' = locks_check /\ cold1' = cold1 /\ do_accel' = do_accel /\ init_done' = init_done
  BY Zenon DEF txnVars
<1>1. CASE i = 0
  BY Zenon, <1>1, <1>p DEF TxnInv
<1>2. CASE UNCHANGED vars
  <2>l. \A k : hot(k)' = hot(k) /\ reg(k)' = reg(k) /\ Locks(k)' = Locks(k)
    BY Zenon, <1>2, LayoutSame
  <2>1. Cold' = Cold /\ Elems(pass1)' = Elems(pass1) /\ Elems(pass2)' = Elems(pass2)
        /\ Front' = Front /\ reg_usage' = reg_usage
    BY Zenon, <1>p DEF Cold, ColdLen, Elems, Front, reg_usage
  <2>2. ExtractInv' <=> ExtractInv
    <3>1. {OpAt(p) : p \in 1 .. i - 1}' = {OpAt(p) : p \in 1 .. i - 1} /\ \A p : OpAt(p)' = OpAt(p)
      BY Zenon, <1>p DEF OpAt
    <3>. QED  BY Zenon, <1>p, <2>1, <3>1 DEF ExtractInv
  <2>3. PassInv' <=> PassInv
    BY Zenon, <1>p, <2>1, <2>l DEF PassInv
  <2>4. NoOpLost' <=> NoOpLost
    <3>1. Elems(Cold)' = Elems(Cold) /\ Len(Cold)' = Len(Cold) /\ Len(pass1)' = Len(pass1)
          /\ Len(pass2)' = Len(pass2)
          /\ {[id |-> trace[p], pos |-> p] : p \in 1 .. N_OPS}' = {[id |-> trace[p], pos |-> p] : p \in 1 .. N_OPS}
      BY Zenon, <1>p, <2>1 DEF Elems
    <3>. QED  BY Zenon, <1>p, <2>1, <3>1 DEF NoOpLost
  <2>5. OncePerPass' <=> OncePerPass
    BY Zenon, <1>p, <2>1, <2>l DEF OncePerPass
  <2>. QED  BY Zenon, <1>p, <2>2, <2>3, <2>4, <2>5 DEF TxnInv
<1>. QED  BY Zenon, <1>1, <1>2

-----------------------------------------------------------------------------
(* The table of schedules.                                                  *)

\* The number of extra slices is a natural number: the division of size_t does not wrap.
LEMMA ExtraSlices == n_extra_local \in Nat
<1> DEFINE a == num_nodes * (100 - REMOTE_FRAC) - 100
<1>1. a \in Nat
  BY SchedTableAssumption
<1>2. REMOTE_FRAC \in Nat \ {0}
  BY SchedTableAssumption
<1>3. \A m \in Nat : \A d \in Nat \ {0} : m \div d \in Nat
  OBVIOUS
<1> QED
  BY Zenon, <1>1, <1>2, <1>3 DEF n_extra_local

\* The assertion s_best != -1 of sched_batch: in every schedule of the keys of every
\* node, each node has a slot.
THEOREM EveryNodeHasASlot ==
  \A node, m \in Nodes : \A s \in 0 .. n_schedules - 1 :
    \E x \in Slots : schedules(node, s)[x] = m
<1> SUFFICES ASSUME NEW node \in Nodes, NEW m \in Nodes, NEW s \in 0 .. n_schedules - 1
             PROVE  \E x \in Slots : schedules(node, s)[x] = m
  BY Zenon
<1>1. num_nodes \in Nat /\ n_extra_local \in Nat
  BY Zenon, SchedTableAssumption, ExtraSlices
<1>2. s + m \in Slots /\ s + m >= s /\ s + m < s + num_nodes /\ (s + m) - s = m
  BY <1>1 DEF Nodes, Slots, n_schedules, schedule_len
<1>3. schedules(node, s)[s + m] = m
  BY Zenon, <1>2 DEF schedules
<1> QED
  BY Zenon, <1>2, <1>3

-----------------------------------------------------------------------------
(* sched_batch.                                                             *)

Item == [txn : Nat, key : AllKeys \cup {NO_KEY}]

Places == UNION {{<<s, x>> : x \in DOMAIN mb_queues[s]} : s \in Slots}

\* The queues hold the transactions before pos, and nothing before the workers start.
QueueInv ==
  /\ pos \in Nat /\ zero_spray_idx \in Nat /\ mb_queues \in [Slots -> Seq(Item)]
  /\ \A s \in Slots : \A x \in DOMAIN mb_queues[s] : mb_queues[s][x].txn < pos
  /\ SlotPerNode
  /\ stage # "sched" => pos = 0 /\ i = 0 /\ \A s \in Slots : mb_queues[s] = <<>>
  /\ i # 0 => block_num # NO_BLOCK

\* hottest_cold_i1 is the key of an operation.
LEMMA HottestKey ==
  ASSUME TxnInv, init_done PROVE Hottest1 \in AllKeys \cup {NO_KEY}
<1>1. do_accel /\ cold1.v > 0 => cold_ops[cold1.i] \in Op
  BY Zenon DEF TxnInv
<1>2. \A o \in Op : o.id \in AllKeys
  BY Zenon DEF Op
<1>. QED  BY Zenon, <1>1, <1>2 DEF Hottest1

\* The places of the queues of functions q.
LEMMA PlaceIs ==
  ASSUME NEW q
  PROVE  \A p : p \in UNION {{<<s, x>> : x \in DOMAIN q[s]} : s \in Slots}
               <=> \E r \in Slots : \E x \in DOMAIN q[r] : p = <<r, x>>
<1>1. ASSUME NEW p, p \in UNION {{<<s, x>> : x \in DOMAIN q[s]} : s \in Slots}
      PROVE  \E r \in Slots : \E x \in DOMAIN q[r] : p = <<r, x>>
  <2>1. PICK T \in {{<<s, x>> : x \in DOMAIN q[s]} : s \in Slots} : p \in T
    BY Zenon, <1>1
  <2>2. PICK r \in Slots : T = {<<r, x>> : x \in DOMAIN q[r]}
    BY Zenon, <2>1
  <2>. QED  BY Zenon, <2>1, <2>2
<1>2. ASSUME NEW r \in Slots, NEW x \in DOMAIN q[r]
      PROVE  <<r, x>> \in UNION {{<<s, y>> : y \in DOMAIN q[s]} : s \in Slots}
  <2>1. <<r, x>> \in {<<r, y>> : y \in DOMAIN q[r]}
    BY Zenon
  <2>2. {<<r, y>> : y \in DOMAIN q[r]} \in {{<<s, y>> : y \in DOMAIN q[s]} : s \in Slots}
    BY Zenon
  <2>. QED  BY Zenon, <2>1, <2>2
<1>. QED  BY Zenon, <1>1, <1>2

\* The queue of a transaction without a hottest cold key.
LEMMA SpraySlot ==
  ASSUME NEW z \in Nat PROVE z % n_queues \in Slots
<1>1. n_queues \in Nat /\ n_queues > 0 /\ n_queues = schedule_len
  BY ExtraSlices, SchedTableAssumption DEF n_queues, schedule_len
<1>2. z % n_queues \in 0 .. n_queues - 1
  BY <1>1
<1>. QED  BY Zenon, <1>1, <1>2 DEF Slots

\* Every step keeps what holds of the transaction that is being looked at.
LEMMA TxnStep ==
  ASSUME TxnInv, QueueInv, SNext \/ UNCHANGED sVars PROVE TxnInv'
<1>1. CASE Next /\ block_num = NO_BLOCK /\ UNCHANGED <<txnVars, dealVars, schedVars>>
  <2>1. i = 0 /\ UNCHANGED txnVars
    BY Zenon, <1>1 DEF QueueInv
  <2>. QED  BY Zenon, <2>1, TxnSame
<1>2. CASE Deal \/ DealtOut \/ Even \/ StartWorkers \/ Scheduled \/ UNCHANGED sVars
  <2>1. UNCHANGED txnVars /\ UNCHANGED vars
    BY Zenon, <1>2 DEF Deal, DealtOut, Even, StartWorkers, Scheduled, sVars, allVars
  <2>. QED  BY Zenon, <2>1, TxnSame
<1>3. CASE NextTxn
  <2>1. PICK T \in SUBSET [1 .. N_OPS -> AllKeys] : Load(T)
    BY Zenon, <1>3, HotColdAssumption, ScheduleAssumption DEF NextTxn
  <2>. QED  BY Zenon, <2>1, LoadStep
<1>4. CASE ExtractTxn
  BY Zenon, <1>4, ExtractStep DEF ExtractTxn
<1>5. CASE Enqueue
  BY Zenon, <1>5, NewTxnStep DEF Enqueue
<1>. QED  BY Zenon, <1>1, <1>2, <1>3, <1>4, <1>5 DEF SNext

-----------------------------------------------------------------------------
(* main deals the trace out and evens the shares out.                       *)

\* What the workers have and, as the last hand, redist.
Hands == 0 .. num_txn_workers
Held == [v \in Hands |-> IF v = num_txn_workers THEN redist ELSE per_core_txns[v]]

\* The hands H hold the transactions before m, each in one place.
Holding(H, m) ==
  /\ H \in [Hands -> Seq(Nat)]
  /\ \A n \in 0 .. m - 1 : \E v \in Hands : \E x \in DOMAIN H[v] : H[v][x] = n
  /\ \A v \in Hands : \A x \in DOMAIN H[v] : H[v][x] \in 0 .. m - 1
  /\ \A u, v \in Hands : \A x \in DOMAIN H[u], y \in DOMAIN H[v] : H[u][x] = H[v][y] => u = v /\ x = y

\* The first round leaves no worker too much, the second one too little only when
\* there is nothing left.
DealInv ==
  /\ dealt \in 0 .. num_txns /\ stage \in {"deal", "even", "sched"}
  /\ per_core_txns \in [Workers -> Seq(Nat)] /\ redist \in Seq(Nat)
  /\ Holding(Held, dealt)
  /\ stage = "deal" => redist = <<>> /\ t = 0 /\ w = 0
  /\ stage = "even" =>
       /\ dealt = num_txns /\ t \in 0 .. 2 /\ w \in Workers /\ (t = 2 => w = 0)
       /\ \A v \in Workers : t >= 1 \/ v < w => Len(per_core_txns[v]) <= Share
       /\ \A v \in Workers : t = 2 \/ (t = 1 /\ v < w) => Len(per_core_txns[v]) = Share \/ redist = <<>>

\* The inductive invariant of the schedule.
SInv == LayoutInv /\ TxnInv /\ QueueInv /\ DealInv

\* One sequence behind another.
IsJoin(d, b, f) ==
  /\ d \in Seq(Nat) /\ Len(d) = Len(b) + Len(f) /\ DOMAIN d = 1 .. Len(b) + Len(f)
  /\ \A x \in DOMAIN b : x \in DOMAIN d /\ d[x] = b[x]
  /\ \A x \in Len(b) + 1 .. Len(b) + Len(f) : d[x] = f[x - Len(b)]

\* That is what insert does at the end.
LEMMA Joined ==
  ASSUME NEW b \in Seq(Nat), NEW f \in Seq(Nat) PROVE IsJoin(b \o f, b, f)
<1>d. PICK d : d = b \o f
  BY Zenon
<1>1. d \in Seq(Nat) /\ Len(d) = Len(b) + Len(f)
  BY <1>d
<1>2. DOMAIN d = 1 .. Len(b) + Len(f)
  BY <1>1
<1>3. ASSUME NEW x \in DOMAIN b PROVE x \in 1 .. Len(b) + Len(f) /\ d[x] = b[x]
  BY <1>d
<1>4. ASSUME NEW x \in Len(b) + 1 .. Len(b) + Len(f) PROVE d[x] = f[x - Len(b)]
  BY <1>d
<1>. QED  BY Zenon, <1>d, <1>1, <1>2, <1>3, <1>4 DEF IsJoin

\* The last k transactions of a move to the end of b, the last one first, and leave c
\* and d.
IsMove(a, b, k, c, d) ==
  /\ c \in Seq(Nat) /\ Len(c) = Len(a) - k /\ DOMAIN c = 1 .. Len(a) - k
  /\ \A x \in DOMAIN c : x \in DOMAIN a /\ c[x] = a[x]
  /\ d \in Seq(Nat) /\ Len(d) = Len(b) + k /\ DOMAIN d = 1 .. Len(b) + k
  /\ \A x \in DOMAIN b : x \in DOMAIN d /\ d[x] = b[x]
  /\ \A x \in Len(b) + 1 .. Len(b) + k :
       /\ Len(a) + 1 - (x - Len(b)) \in DOMAIN a
       /\ d[x] = a[Len(a) + 1 - (x - Len(b))]

\* That is what the loops with push_back and pop_back do.
LEMMA Moved ==
  ASSUME NEW a \in Seq(Nat), NEW b \in Seq(Nat), NEW k \in 0 .. Len(a), NEW c, NEW d,
         c = SubSeq(a, 1, Len(a) - k), d = b \o [n \in 1 .. k |-> a[Len(a) + 1 - n]]
  PROVE  IsMove(a, b, k, c, d)
<1>f. PICK f : f = [n \in 1 .. k |-> a[Len(a) + 1 - n]]
  BY Zenon
<1>1. \A n \in 1 .. k : Len(a) + 1 - n \in DOMAIN a /\ Len(a) + 1 - n \in 1 .. Len(a)
  OBVIOUS
<1>2. f \in Seq(Nat) /\ Len(f) = k /\ \A n \in 1 .. k : f[n] = a[Len(a) + 1 - n]
  <2>1. \A n \in 1 .. k : a[Len(a) + 1 - n] \in Nat
    BY <1>1
  <2>2. f \in [1 .. k -> Nat] /\ k \in Nat
    BY <1>f, <2>1
  <2>3. f \in Seq(Nat) /\ Len(f) = k
    BY <2>2
  <2>. QED  BY Zenon, <1>f, <2>3
<1>d. d = b \o f
  BY Zenon, <1>f
<1>j. /\ d \in Seq(Nat) /\ Len(d) = Len(b) + Len(f) /\ DOMAIN d = 1 .. Len(b) + Len(f)
      /\ \A x \in DOMAIN b : x \in DOMAIN d /\ d[x] = b[x]
      /\ \A x \in Len(b) + 1 .. Len(b) + Len(f) : d[x] = f[x - Len(b)]
  <2>1. f \in Seq(Nat)
    BY Zenon, <1>2
  <2>2. IsJoin(d, b, f)
    BY Zenon, <1>d, <2>1, Joined
  <2>. QED  BY Zenon, <2>2 DEF IsJoin
<1>3. /\ d \in Seq(Nat) /\ Len(d) = Len(b) + k /\ DOMAIN d = 1 .. Len(b) + k
      /\ \A x \in DOMAIN b : x \in DOMAIN d /\ d[x] = b[x]
  BY Zenon, <1>2, <1>j
<1>4. ASSUME NEW x \in Len(b) + 1 .. Len(b) + k
      PROVE  d[x] = a[Len(a) + 1 - (x - Len(b))] /\ Len(a) + 1 - (x - Len(b)) \in DOMAIN a
  <2>1. x - Len(b) \in 1 .. k
    OBVIOUS
  <2>2. d[x] = f[x - Len(b)]
    BY Zenon, <1>2, <1>j
  <2>. QED  BY Zenon, <1>1, <1>2, <1>d, <2>1, <2>2
<1>5. c \in Seq(Nat) /\ Len(c) = Len(a) - k /\ DOMAIN c = 1 .. Len(a) - k
  OBVIOUS
<1>6. \A x \in DOMAIN c : x \in DOMAIN a /\ c[x] = a[x]
  BY <1>5
<1>. QED  BY Zenon, <1>3, <1>4, <1>5, <1>6 DEF IsMove

\* The last k transactions of hand u of H go to hand v, which makes K.
HandMove(H, K, u, v, k) ==
  /\ K \in [Hands -> Seq(Nat)] /\ k \in 0 .. Len(H[u])
  /\ \A h \in Hands : h # u /\ h # v => K[h] = H[h]
  /\ K[u] = SubSeq(H[u], 1, Len(H[u]) - k)
  /\ K[v] = H[v] \o [n \in 1 .. k |-> H[u][Len(H[u]) + 1 - n]]

\* That leaves each transaction in one place.
LEMMA HandsMoved ==
  ASSUME NEW H, NEW K, NEW m \in Nat, NEW u \in Hands, NEW v \in Hands, u # v, NEW k,
         Holding(H, m), HandMove(H, K, u, v, k)
  PROVE  Holding(K, m)
<1>k. /\ K \in [Hands -> Seq(Nat)] /\ k \in 0 .. Len(H[u])
      /\ \A h \in Hands : h # u /\ h # v => K[h] = H[h]
      /\ K[u] = SubSeq(H[u], 1, Len(H[u]) - k)
      /\ K[v] = H[v] \o [n \in 1 .. k |-> H[u][Len(H[u]) + 1 - n]]
  BY Zenon DEF HandMove
<1>t. H[u] \in Seq(Nat) /\ H[v] \in Seq(Nat)
  BY Zenon DEF Holding
<1>a. PICK a : a = H[u]
  BY Zenon
<1>b. PICK b : b = H[v]
  BY Zenon
<1>m. /\ DOMAIN K[u] = 1 .. Len(a) - k
      /\ \A x \in DOMAIN K[u] : x \in DOMAIN a /\ K[u][x] = a[x]
      /\ DOMAIN K[v] = 1 .. Len(b) + k
      /\ \A x \in DOMAIN b : x \in DOMAIN K[v] /\ K[v][x] = b[x]
      /\ \A x \in Len(b) + 1 .. Len(b) + k :
           /\ Len(a) + 1 - (x - Len(b)) \in DOMAIN a
           /\ K[v][x] = a[Len(a) + 1 - (x - Len(b))]
  <2>1. a \in Seq(Nat) /\ b \in Seq(Nat) /\ k \in 0 .. Len(a)
    BY Zenon, <1>t, <1>a, <1>b, <1>k
  <2>2. K[u] = SubSeq(a, 1, Len(a) - k) /\ K[v] = b \o [n \in 1 .. k |-> a[Len(a) + 1 - n]]
    BY Zenon, <1>a, <1>b, <1>k
  <2>3. PICK c, d : c = K[u] /\ d = K[v]
    BY Zenon
  <2>4. c = SubSeq(a, 1, Len(a) - k) /\ d = b \o [n \in 1 .. k |-> a[Len(a) + 1 - n]]
    BY Zenon, <2>2, <2>3
  <2>5. IsMove(a, b, k, c, d)
    BY Zenon, <2>1, <2>4, Moved
  <2>. QED  BY Zenon, <2>3, <2>5 DEF IsMove
<1>n. DOMAIN a = 1 .. Len(a) /\ Len(a) \in Nat /\ DOMAIN b = 1 .. Len(b) /\ Len(b) \in Nat /\ k \in 0 .. Len(a)
  BY <1>t, <1>a, <1>b, <1>k
\* Where a transaction comes from.
<1>1. \A h \in Hands : \A x \in DOMAIN K[h] :
        \/ x \in DOMAIN H[h] /\ K[h][x] = H[h][x] /\ (h = u => x <= Len(a) - k) /\ (h = v => x <= Len(b))
        \/ /\ h = v /\ x \in Len(b) + 1 .. Len(b) + k
           /\ Len(a) + 1 - (x - Len(b)) \in DOMAIN H[u]
           /\ K[h][x] = H[u][Len(a) + 1 - (x - Len(b))]
  <2>. TAKE h \in Hands
  <2>. TAKE x \in DOMAIN K[h]
  <2>1. CASE h # u /\ h # v
    BY Zenon, <1>k, <2>1
  <2>2. CASE h = u
    <3>1. x \in DOMAIN a /\ K[h][x] = a[x] /\ x \in 1 .. Len(a) - k
      BY Zenon, <1>m, <2>2
    <3>2. x <= Len(a) - k
      BY <1>n, <3>1
    <3>. QED  BY Zenon, <1>a, <2>2, <3>1, <3>2
  <2>3. CASE h = v
    <3>1. x \in 1 .. Len(b) \/ x \in Len(b) + 1 .. Len(b) + k
      BY <1>m, <1>n, <2>3
    <3>2. CASE x \in 1 .. Len(b)
      <4>1. x \in DOMAIN b /\ K[v][x] = b[x]
        BY Zenon, <1>m, <1>n, <3>2
      <4>2. x <= Len(b)
        BY <1>n, <3>2
      <4>. QED  BY Zenon, <1>b, <2>3, <4>1, <4>2
    <3>3. CASE x \in Len(b) + 1 .. Len(b) + k
      BY Zenon, <1>m, <1>a, <2>3, <3>3
    <3>. QED  BY Zenon, <3>1, <3>2, <3>3
  <2>. QED  BY Zenon, <2>1, <2>2, <2>3
\* Where it goes to.
<1>2. \A h \in Hands : \A x \in DOMAIN H[h] : \E g \in Hands : \E y \in DOMAIN K[g] : K[g][y] = H[h][x]
  <2>. TAKE h \in Hands
  <2>. TAKE x \in DOMAIN H[h]
  <2>1. CASE h # u /\ h # v
    BY Zenon, <1>k, <2>1
  <2>2. CASE h = v
    BY Zenon, <1>b, <1>m, <2>2
  <2>3. CASE h = u /\ x <= Len(a) - k
    <3>1. x \in DOMAIN K[u] /\ K[u][x] = a[x]
      BY <1>a, <1>m, <1>n, <2>3
    <3>. QED  BY ZenonT(60), <1>a, <2>3, <3>1
  <2>4. CASE h = u /\ ~(x <= Len(a) - k)
    <3>1. PICK y : y = Len(b) + (Len(a) + 1 - x)
      BY Zenon
    <3>2. y \in Len(b) + 1 .. Len(b) + k /\ y \in DOMAIN K[v] /\ Len(a) + 1 - (y - Len(b)) = x
      <4>1. x \in 1 .. Len(a)
        BY Zenon, <1>a, <1>n, <2>4
      <4>2. y \in Len(b) + 1 .. Len(b) + k /\ y \in 1 .. Len(b) + k /\ Len(a) + 1 - (y - Len(b)) = x
        <5>1. \A A, B \in Nat : \A c \in 0 .. A : \A z \in 1 .. A : ~(z <= A - c) =>
                 /\ B + (A + 1 - z) \in B + 1 .. B + c /\ B + (A + 1 - z) \in 1 .. B + c
                 /\ A + 1 - ((B + (A + 1 - z)) - B) = z
          OBVIOUS
        <5>. QED  BY Zenon, <1>n, <2>4, <3>1, <4>1, <5>1
      <4>. QED  BY Zenon, <1>m, <4>2
    <3>3. K[v][y] = a[x]
      BY Zenon, <1>m, <3>2
    <3>. QED  BY Zenon, <1>a, <2>4, <3>2, <3>3
  <2>. QED  BY Zenon, <2>1, <2>2, <2>3, <2>4
<1>3. \A n \in 0 .. m - 1 : \E g \in Hands : \E y \in DOMAIN K[g] : K[g][y] = n
  <2>. TAKE n \in 0 .. m - 1
  <2>1. PICK h \in Hands : \E x \in DOMAIN H[h] : H[h][x] = n
    BY Zenon DEF Holding
  <2>2. PICK x \in DOMAIN H[h] : H[h][x] = n
    BY Zenon, <2>1
  <2>. QED  BY Zenon, <1>2, <2>2
<1>4. \A h \in Hands : \A x \in DOMAIN K[h] : K[h][x] \in 0 .. m - 1
  <2>1. \A h \in Hands : \A x \in DOMAIN H[h] : H[h][x] \in 0 .. m - 1
    BY Zenon DEF Holding
  <2>. QED  BY Zenon, <1>1, <2>1
<1>5. ASSUME NEW g \in Hands, NEW h \in Hands, NEW x \in DOMAIN K[g], NEW y \in DOMAIN K[h], K[g][x] = K[h][y]
      PROVE  g = h /\ x = y
  <2>i. \A gg, hh \in Hands : \A xx \in DOMAIN H[gg], yy \in DOMAIN H[hh] :
          H[gg][xx] = H[hh][yy] => gg = hh /\ xx = yy
    BY Zenon DEF Holding
  <2>1. CASE /\ x \in DOMAIN H[g] /\ K[g][x] = H[g][x] /\ y \in DOMAIN H[h] /\ K[h][y] = H[h][y]
    <3>1. H[g][x] = H[h][y]
      BY Zenon, <1>5, <2>1
    <3>. QED  BY Zenon, <2>1, <2>i, <3>1
  <2>2. CASE /\ g = v /\ x \in Len(b) + 1 .. Len(b) + k /\ Len(a) + 1 - (x - Len(b)) \in DOMAIN H[u]
             /\ K[g][x] = H[u][Len(a) + 1 - (x - Len(b))]
             /\ y \in DOMAIN H[h] /\ K[h][y] = H[h][y] /\ (h = u => y <= Len(a) - k)
    <3>0. PICK q \in DOMAIN H[u] : q = Len(a) + 1 - (x - Len(b)) /\ K[g][x] = H[u][q]
      BY Zenon, <2>2
    <3>3. H[h][y] = H[u][q]
      BY Zenon, <1>5, <2>2, <3>0
    <3>4. h = u /\ y = q
      <4>1. y \in DOMAIN H[h]
        BY Zenon, <2>2
      <4>2. \A xx \in DOMAIN H[h], yy \in DOMAIN H[u] : H[h][xx] = H[u][yy] => h = u /\ xx = yy
        BY Zenon, <2>i
      <4>. QED  BY Zenon, <3>3, <4>1, <4>2
    <3>1. u = h /\ Len(a) + 1 - (x - Len(b)) = y
      BY Zenon, <3>0, <3>4
    <3>2. y <= Len(a) - k
      BY Zenon, <2>2, <3>1
    <3>. QED  BY <1>n, <2>2, <3>1, <3>2
  <2>3. CASE /\ h = v /\ y \in Len(b) + 1 .. Len(b) + k /\ Len(a) + 1 - (y - Len(b)) \in DOMAIN H[u]
             /\ K[h][y] = H[u][Len(a) + 1 - (y - Len(b))]
             /\ x \in DOMAIN H[g] /\ K[g][x] = H[g][x] /\ (g = u => x <= Len(a) - k)
    <3>0. PICK q \in DOMAIN H[u] : q = Len(a) + 1 - (y - Len(b)) /\ K[h][y] = H[u][q]
      BY Zenon, <2>3
    <3>3. H[g][x] = H[u][q]
      BY Zenon, <1>5, <2>3, <3>0
    <3>4. g = u /\ x = q
      BY Zenon, <2>3, <2>i, <3>3
    <3>1. g = u /\ x = Len(a) + 1 - (y - Len(b))
      BY Zenon, <3>0, <3>4
    <3>2. x <= Len(a) - k
      BY Zenon, <2>3, <3>1
    <3>. QED  BY <1>n, <2>3, <3>1, <3>2
  <2>4. CASE /\ g = v /\ x \in Len(b) + 1 .. Len(b) + k /\ Len(a) + 1 - (x - Len(b)) \in DOMAIN H[u]
             /\ K[g][x] = H[u][Len(a) + 1 - (x - Len(b))]
             /\ h = v /\ y \in Len(b) + 1 .. Len(b) + k /\ Len(a) + 1 - (y - Len(b)) \in DOMAIN H[u]
             /\ K[h][y] = H[u][Len(a) + 1 - (y - Len(b))]
    <3>1. Len(a) + 1 - (x - Len(b)) = Len(a) + 1 - (y - Len(b))
      <4>1. PICK q \in DOMAIN H[u] : q = Len(a) + 1 - (x - Len(b)) /\ K[g][x] = H[u][q]
        BY Zenon, <2>4
      <4>2. PICK z \in DOMAIN H[u] : z = Len(a) + 1 - (y - Len(b)) /\ K[h][y] = H[u][z]
        BY Zenon, <2>4
      <4>3. H[u][q] = H[u][z]
        BY Zenon, <1>5, <4>1, <4>2
      <4>4. q = z
        BY SMTT(30), <2>i, <4>3
      <4>. QED  BY Zenon, <4>1, <4>2, <4>4
    <3>2. x = y
      BY <1>n, <2>4, <3>1
    <3>. QED  BY Zenon, <2>4, <3>2
  <2>. QED  BY Zenon, <1>1, <1>5, <2>1, <2>2, <2>3, <2>4
<1>. QED  BY Zenon, <1>k, <1>3, <1>4, <1>5 DEF Holding

\* What is in a hand.
LEMMA HandIs ==
  /\ num_txn_workers \in Hands /\ Held[num_txn_workers] = redist
  /\ \A v \in Workers : v \in Hands /\ v # num_txn_workers /\ Held[v] = per_core_txns[v]
  /\ \A v \in Hands : v = num_txn_workers \/ v \in Workers
<1>1. /\ num_txn_workers \in Hands
      /\ \A v \in Workers : v \in Hands /\ v # num_txn_workers
      /\ \A v \in Hands : v = num_txn_workers \/ v \in Workers
  BY ScheduleAssumption DEF Hands, Workers
<1>. QED  BY Zenon, <1>1 DEF Held

\* The same of the next state.
LEMMA HandIsPrimed ==
  /\ Held'[num_txn_workers] = redist'
  /\ \A v \in Workers : Held'[v] = per_core_txns'[v]
<1>1. /\ num_txn_workers \in Hands
      /\ \A v \in Workers : v \in Hands /\ v # num_txn_workers
  BY Zenon, HandIs
<1>. QED  BY Zenon, <1>1 DEF Held

\* Nothing is dealt out yet.
LEMMA DealNone ==
  ASSUME NEW H, H = [v \in Hands |-> <<>>] PROVE Holding(H, 0)
<1>1. DOMAIN <<>> = {} /\ <<>> \in Seq(Nat) /\ 0 .. 0 - 1 = {}
  OBVIOUS
<1>. QED  BY Zenon, <1>1 DEF Holding

\* The next transaction goes to one worker.
LEMMA DealOne ==
  ASSUME NEW H, NEW K, NEW m \in Nat, NEW v \in Hands, Holding(H, m),
         K = [H EXCEPT ![v] = Append(H[v], m)]
  PROVE  Holding(K, m + 1)
<1>t. H \in [Hands -> Seq(Nat)] /\ H[v] \in Seq(Nat)
  BY Zenon DEF Holding
<1>a. K[v] = Append(H[v], m) /\ \A h \in Hands : h # v => K[h] = H[h]
  BY Zenon, <1>t
<1>l. PICK l : l = Len(H[v]) + 1
  BY Zenon
<1>b. /\ K[v] \in Seq(Nat) /\ DOMAIN K[v] = DOMAIN H[v] \cup {l} /\ l \notin DOMAIN H[v]
      /\ K[v][l] = m /\ \A x \in DOMAIN H[v] : K[v][x] = H[v][x]
  BY <1>a, <1>l, <1>t, ElemsAppend
<1>1. K \in [Hands -> Seq(Nat)]
  <2>1. \A h \in Hands : K[h] \in Seq(Nat)
    BY Zenon, <1>a, <1>b, <1>t
  <2>2. K = [h \in Hands |-> K[h]]
    BY Zenon, <1>t
  <2>. QED  BY Zenon, <2>1, <2>2
<1>c. \A h \in Hands : \A x \in DOMAIN K[h] :
        \/ h = v /\ x = l /\ K[h][x] = m
        \/ x \in DOMAIN H[h] /\ K[h][x] = H[h][x]
  BY Zenon, <1>a, <1>b
<1>d. \A h \in Hands : \A x \in DOMAIN H[h] : x \in DOMAIN K[h] /\ K[h][x] = H[h][x]
  BY Zenon, <1>a, <1>b
<1>o. \A h \in Hands : \A x \in DOMAIN H[h] : H[h][x] \in 0 .. m - 1
  BY Zenon DEF Holding
<1>n. /\ \A n \in 0 .. (m + 1) - 1 : n = m \/ n \in 0 .. m - 1
      /\ m \in 0 .. (m + 1) - 1 /\ m \notin 0 .. m - 1 /\ \A n \in 0 .. m - 1 : n \in 0 .. (m + 1) - 1
  OBVIOUS
<1>2. \A n \in 0 .. (m + 1) - 1 : \E h \in Hands : \E x \in DOMAIN K[h] : K[h][x] = n
  <2>1. \A n \in 0 .. m - 1 : \E h \in Hands : \E x \in DOMAIN H[h] : H[h][x] = n
    BY Zenon DEF Holding
  <2>2. l \in DOMAIN K[v]
    BY Zenon, <1>b
  <2>. TAKE n \in 0 .. (m + 1) - 1
  <2>3. CASE n = m
    BY Zenon, <1>b, <2>2, <2>3
  <2>4. CASE n \in 0 .. m - 1
    <3>1. PICK h \in Hands : \E x \in DOMAIN H[h] : H[h][x] = n
      BY Zenon, <2>1, <2>4
    <3>2. PICK x \in DOMAIN H[h] : H[h][x] = n
      BY Zenon, <3>1
    <3>. QED  BY Zenon, <1>d, <3>2
  <2>. QED  BY Zenon, <1>n, <2>3, <2>4
<1>3. \A h \in Hands : \A x \in DOMAIN K[h] : K[h][x] \in 0 .. (m + 1) - 1
  BY Zenon, <1>c, <1>n, <1>o
<1>4. ASSUME NEW g \in Hands, NEW h \in Hands, NEW x \in DOMAIN K[g], NEW y \in DOMAIN K[h], K[g][x] = K[h][y]
      PROVE  g = h /\ x = y
  <2>1. \A gg, hh \in Hands : \A xx \in DOMAIN H[gg], yy \in DOMAIN H[hh] :
          H[gg][xx] = H[hh][yy] => gg = hh /\ xx = yy
    BY Zenon DEF Holding
  <2>2. \A gg \in Hands : \A xx \in DOMAIN H[gg] : H[gg][xx] # m
    BY Zenon, <1>n, <1>o
  <2>3. CASE x \in DOMAIN H[g] /\ K[g][x] = H[g][x] /\ y \in DOMAIN H[h] /\ K[h][y] = H[h][y]
    <3>1. H[g][x] = H[h][y]
      BY Zenon, <1>4, <2>3
    <3>. QED  BY <2>1, <2>3, <3>1
  <2>4. CASE K[g][x] = m
    BY <1>4, <1>c, <2>2, <2>4
  <2>5. CASE K[h][y] = m
    BY <1>4, <1>c, <2>2, <2>5
  <2>. QED  BY Zenon, <1>c, <2>3, <2>4, <2>5
<1>. QED  BY Zenon, <1>1, <1>2, <1>3, <1>4 DEF Holding

\* The share of a worker.
LEMMA ShareIs ==
  /\ num_txn_workers \in Nat \ {0} /\ num_txns \in Nat /\ Share \in Nat
  /\ num_txns = num_txn_workers * Share + (num_txns % num_txn_workers)
  /\ num_txns % num_txn_workers \in 0 .. num_txn_workers - 1
<1>1. num_txn_workers \in Nat \ {0} /\ num_txns \in Nat
  BY Zenon, ScheduleAssumption
<1>2. \A m \in Nat : \A d \in Nat \ {0} : m \div d \in Nat /\ m % d \in 0 .. d - 1
  OBVIOUS
<1>3. \A m \in Nat : \A d \in Nat \ {0} : m = d * (m \div d) + (m % d)
  OBVIOUS
<1>. QED  BY Zenon, <1>1, <1>2, <1>3 DEF Share

\* Before the first transaction is dealt out.
LEMMA DealInit == SInit => DealInv
<1>. SUFFICES ASSUME SInit PROVE DealInv
  BY Zenon
<1>1. /\ stage = "deal" /\ dealt = 0 /\ per_core_txns = [v \in Workers |-> <<>>] /\ redist = <<>>
      /\ t = 0 /\ w = 0
  BY Zenon DEF SInit
<1>2. Held = [v \in Hands |-> <<>>]
  <2>1. \A v \in Hands : v # num_txn_workers => v \in Workers
    BY Zenon, HandIs
  <2>. QED  BY Zenon, <1>1, <2>1 DEF Held
<1>3. Holding(Held, dealt)
  BY Zenon, <1>1, <1>2, DealNone
<1>4. dealt \in 0 .. num_txns
  BY <1>1, ShareIs
<1>5. <<>> \in Seq(Nat) /\ "deal" # "even"
  OBVIOUS
<1>. QED  BY Zenon, <1>1, <1>3, <1>4, <1>5 DEF DealInv

\* One transaction is dealt out.
LEMMA DealStep ==
  ASSUME DealInv, Deal PROVE DealInv'
<1>t. /\ dealt \in 0 .. num_txns /\ per_core_txns \in [Workers -> Seq(Nat)] /\ redist \in Seq(Nat)
      /\ Holding(Held, dealt) /\ (stage = "deal" => redist = <<>> /\ t = 0 /\ w = 0)
  BY Zenon DEF DealInv
<1>1. PICK v \in Workers : per_core_txns' = [per_core_txns EXCEPT ![v] = Append(per_core_txns[v], dealt)]
  BY Zenon DEF Deal
<1>2. /\ stage = "deal" /\ stage' = "deal" /\ redist' = redist /\ t' = t /\ w' = w /\ dealt < num_txns
      /\ dealt' = dealt + 1
  BY Zenon DEF Deal
<1>3. dealt \in Nat /\ dealt' \in 0 .. num_txns
  BY <1>2, <1>t, ShareIs
<1>4. Held' = [Held EXCEPT ![v] = Append(Held[v], dealt)]
  <2>1. v \in Hands /\ v # num_txn_workers /\ Held[v] = per_core_txns[v]
    BY Zenon, HandIs
  <2>2. \A h \in Hands : h = num_txn_workers \/ h \in Workers
    BY Zenon, HandIs
  <2>3. per_core_txns'[v] = Append(per_core_txns[v], dealt) /\ \A h \in Workers : h # v => per_core_txns'[h] = per_core_txns[h]
    BY Zenon, <1>1, <1>t
  <2>4. Held' = [h \in Hands |-> IF h = num_txn_workers THEN redist ELSE per_core_txns'[h]]
    BY Zenon, <1>2 DEF Held
  <2>5. Held = [h \in Hands |-> IF h = num_txn_workers THEN redist ELSE per_core_txns[h]]
    BY Zenon DEF Held
  <2>. QED  BY Zenon, <2>1, <2>2, <2>3, <2>4, <2>5
<1>5. Holding(Held', dealt')
  <2>1. v \in Hands
    BY Zenon, HandIs
  <2>. QED  BY Zenon, <1>2, <1>3, <1>4, <1>t, <2>1, DealOne
<1>6. per_core_txns' \in [Workers -> Seq(Nat)]
  <2>1. Append(per_core_txns[v], dealt) \in Seq(Nat)
    BY <1>3, <1>t
  <2>. QED  BY Zenon, <1>1, <1>t, <2>1
<1>7. "deal" # "even"
  BY Zenon
<1>. QED  BY Zenon, <1>2, <1>3, <1>5, <1>6, <1>7, <1>t DEF DealInv

\* The loops of one worker leave it its share, or less when redist has no more.
LEMMA EvenStep ==
  ASSUME DealInv, Even PROVE DealInv'
<1>t. /\ dealt \in 0 .. num_txns /\ per_core_txns \in [Workers -> Seq(Nat)] /\ redist \in Seq(Nat)
      /\ Holding(Held, dealt) /\ dealt \in Nat
  <2>1. /\ dealt \in 0 .. num_txns /\ per_core_txns \in [Workers -> Seq(Nat)] /\ redist \in Seq(Nat)
        /\ Holding(Held, dealt)
    BY Zenon DEF DealInv
  <2>2. dealt \in Nat
    BY <2>1, ShareIs
  <2>. QED  BY Zenon, <2>1, <2>2
<1>e. /\ stage = "even" /\ stage' = "even" /\ dealt' = dealt /\ t < 2
      /\ w' = (w + 1) % num_txn_workers /\ t' = IF w = num_txn_workers - 1 THEN t + 1 ELSE t
  BY Zenon DEF Even, Rounds
<1>i. /\ dealt = num_txns /\ t \in 0 .. 2 /\ w \in Workers
      /\ \A v \in Workers : t >= 1 \/ v < w => Len(per_core_txns[v]) <= Share
      /\ \A v \in Workers : t = 2 \/ (t = 1 /\ v < w) => Len(per_core_txns[v]) = Share \/ redist = <<>>
  BY Zenon, <1>e DEF DealInv
<1>m. PICK mine : mine = per_core_txns[w]
  BY Zenon
<1>n. /\ mine \in Seq(Nat) /\ Len(mine) \in Nat /\ Len(redist) \in Nat
      /\ w \in Hands /\ w # num_txn_workers /\ Held[w] = mine
      /\ num_txn_workers \in Hands /\ Held[num_txn_workers] = redist
  <2>1. mine \in Seq(Nat)
    BY Zenon, <1>i, <1>m, <1>t
  <2>2. Len(mine) \in Nat /\ Len(redist) \in Nat
    BY <1>t, <2>1
  <2>. QED  BY Zenon, <1>i, <1>m, <2>1, <2>2, HandIs
\* Only the hands of w and redist change.
<1>o. ASSUME NEW mine2 \in Seq(Nat), redist' \in Seq(Nat),
             per_core_txns' = [per_core_txns EXCEPT ![w] = mine2]
      PROVE  /\ per_core_txns' \in [Workers -> Seq(Nat)] /\ per_core_txns'[w] = mine2
             /\ \A v \in Workers : v # w => per_core_txns'[v] = per_core_txns[v]
             /\ Held' \in [Hands -> Seq(Nat)] /\ Held'[w] = mine2 /\ Held'[num_txn_workers] = redist'
             /\ \A h \in Hands : h # w /\ h # num_txn_workers => Held'[h] = Held[h]
  <2>1. /\ per_core_txns' \in [Workers -> Seq(Nat)] /\ per_core_txns'[w] = mine2
        /\ \A v \in Workers : v # w => per_core_txns'[v] = per_core_txns[v]
    BY Zenon, <1>i, <1>o, <1>t
  <2>2. /\ Held'[num_txn_workers] = redist' /\ \A v \in Workers : Held'[v] = per_core_txns'[v]
    BY Zenon, HandIsPrimed
  <2>3. \A h \in Hands : h = num_txn_workers \/ h \in Workers
    BY Zenon, HandIs
  <2>4. \A v \in Workers : Held[v] = per_core_txns[v]
    BY Zenon, HandIs
  <2>5. Held' = [h \in Hands |-> Held'[h]]
    BY Zenon DEF Held
  <2>6. \A h \in Hands : Held'[h] \in Seq(Nat)
    BY Zenon, <1>o, <2>1, <2>2, <2>3
  <2>7. Held' \in [Hands -> Seq(Nat)]
    BY Zenon, <2>5, <2>6
  <2>8. \A h \in Hands : h # w /\ h # num_txn_workers => Held'[h] = Held[h]
    BY ZenonT(60), <2>1, <2>2, <2>3, <2>4
  <2>. QED  BY Zenon, <1>i, <2>1, <2>2, <2>7, <2>8
\* What w has and what is left after its loops.
<1>1. /\ per_core_txns' \in [Workers -> Seq(Nat)] /\ redist' \in Seq(Nat) /\ Holding(Held', dealt)
      /\ \A v \in Workers : v # w => per_core_txns'[v] = per_core_txns[v]
      /\ Len(per_core_txns'[w]) <= Share
      /\ Len(mine) <= Share => /\ Len(per_core_txns'[w]) = Share \/ redist' = <<>>
                               /\ redist = <<>> => redist' = <<>>
  <2>1. CASE Len(mine) >= Share
    <3>0. PICK k : k = Len(mine) - Share
      BY Zenon
    <3>1. k \in 0 .. Len(mine) /\ Len(mine) - k = Share /\ (Len(mine) <= Share => k = 0)
      BY <1>n, <2>1, <3>0, ShareIs
    <3>2. /\ redist' = redist \o [n \in 1 .. Len(mine) - Share |-> mine[Len(mine) + 1 - n]]
          /\ per_core_txns' = [per_core_txns EXCEPT ![w] = SubSeq(mine, 1, Share)]
      <4>1. ~(Len(mine) < Share)
        BY <1>n, <2>1, ShareIs
      <4>. QED  BY Zenon, <1>m, <2>1, <4>1 DEF Even
    <3>3. PICK c : c = SubSeq(mine, 1, Len(mine) - k)
      BY Zenon
    <3>4. redist' = redist \o [n \in 1 .. k |-> mine[Len(mine) + 1 - n]] /\ per_core_txns' = [per_core_txns EXCEPT ![w] = c]
      BY Zenon, <3>0, <3>1, <3>2, <3>3
    <3>5. IsMove(mine, redist, k, c, redist')
      BY Zenon, <1>n, <1>t, <3>1, <3>3, <3>4, Moved
    <3>6. c \in Seq(Nat) /\ redist' \in Seq(Nat) /\ Len(c) = Share /\ Len(redist') = Len(redist) + k
      BY Zenon, <3>1, <3>5 DEF IsMove
    <3>7. Holding(Held', dealt)
      <4>1. PICK H, K : H = Held /\ K = Held'
        BY Zenon
      <4>2. /\ K \in [Hands -> Seq(Nat)] /\ k \in 0 .. Len(H[w])
            /\ \A h \in Hands : h # w /\ h # num_txn_workers => K[h] = H[h]
            /\ K[w] = SubSeq(H[w], 1, Len(H[w]) - k)
            /\ K[num_txn_workers] = H[num_txn_workers] \o [n \in 1 .. k |-> H[w][Len(H[w]) + 1 - n]]
        BY Zenon, <1>n, <1>o, <1>t, <3>1, <3>3, <3>4, <3>6, <4>1
      <4>3. Holding(H, dealt) /\ HandMove(H, K, w, num_txn_workers, k)
        BY Zenon, <1>t, <4>1, <4>2 DEF HandMove
      <4>4. Holding(K, dealt)
        BY Zenon, <1>n, <1>t, <4>3, HandsMoved
      <4>. QED  BY Zenon, <4>1, <4>4
    <3>8. per_core_txns'[w] = c /\ per_core_txns' \in [Workers -> Seq(Nat)]
          /\ \A v \in Workers : v # w => per_core_txns'[v] = per_core_txns[v]
      BY Zenon, <1>o, <3>4, <3>6
    <3>9. Len(mine) <= Share /\ redist = <<>> => redist' = <<>>
      BY <3>1, <3>6
    <3>10. Share <= Share
      BY ShareIs
    <3>. QED  BY Zenon, <3>6, <3>7, <3>8, <3>9, <3>10
  <2>2. CASE Len(mine) < Share
    <3>0. PICK k : k = IF Len(redist) < Share - Len(mine) THEN Len(redist) ELSE Share - Len(mine)
      BY Zenon
    <3>1. /\ k \in 0 .. Len(redist) /\ Len(mine) + k <= Share
          /\ Len(mine) + k = Share \/ Len(redist) - k = 0
          /\ Len(redist) = 0 => Len(redist) - k = 0
      BY <1>n, <2>2, <3>0, ShareIs
    <3>2. /\ redist' = SubSeq(redist, 1, Len(redist) - k)
          /\ per_core_txns' = [per_core_txns EXCEPT ![w] = mine \o [n \in 1 .. k |-> redist[Len(redist) + 1 - n]]]
      <4>1. ~(Len(mine) >= Share)
        BY <1>n, <2>2, ShareIs
      <4>. QED  BY Zenon, <1>m, <2>2, <3>0, <4>1 DEF Even
    <3>3. PICK d : d = mine \o [n \in 1 .. k |-> redist[Len(redist) + 1 - n]]
      BY Zenon
    <3>4. per_core_txns' = [per_core_txns EXCEPT ![w] = d]
      BY Zenon, <3>2, <3>3
    <3>5. IsMove(redist, mine, k, redist', d)
      BY Zenon, <1>n, <1>t, <3>1, <3>2, <3>3, Moved
    <3>6. d \in Seq(Nat) /\ redist' \in Seq(Nat) /\ Len(d) = Len(mine) + k /\ Len(redist') = Len(redist) - k
      BY Zenon, <3>5 DEF IsMove
    <3>7. Holding(Held', dealt)
      <4>1. PICK H, K : H = Held /\ K = Held'
        BY Zenon
      <4>2. /\ K \in [Hands -> Seq(Nat)] /\ k \in 0 .. Len(H[num_txn_workers])
            /\ \A h \in Hands : h # num_txn_workers /\ h # w => K[h] = H[h]
            /\ K[num_txn_workers] = SubSeq(H[num_txn_workers], 1, Len(H[num_txn_workers]) - k)
            /\ K[w] = H[w] \o [n \in 1 .. k |-> H[num_txn_workers][Len(H[num_txn_workers]) + 1 - n]]
        BY Zenon, <1>n, <1>o, <1>t, <3>1, <3>2, <3>3, <3>4, <3>6, <4>1
      <4>3. Holding(H, dealt) /\ HandMove(H, K, num_txn_workers, w, k)
        BY Zenon, <1>t, <4>1, <4>2 DEF HandMove
      <4>4. Holding(K, dealt)
        BY Zenon, <1>n, <1>t, <4>3, HandsMoved
      <4>. QED  BY Zenon, <4>1, <4>4
    <3>8. per_core_txns'[w] = d /\ per_core_txns' \in [Workers -> Seq(Nat)]
          /\ \A v \in Workers : v # w => per_core_txns'[v] = per_core_txns[v]
      BY Zenon, <1>o, <3>4, <3>6
    <3>9. Len(d) = Share \/ redist' = <<>>
      BY <3>1, <3>6
    <3>10. redist = <<>> => redist' = <<>>
      BY <3>1, <3>6
    <3>11. Len(d) <= Share
      BY Zenon, <3>1, <3>6
    <3>. QED  BY Zenon, <3>6, <3>7, <3>8, <3>9, <3>10, <3>11
  <2>. QED  BY <1>n, <2>1, <2>2, ShareIs
\* The counters of the two loops.
<1>2. /\ w' \in Workers /\ t' \in 0 .. 2
      /\ \/ w # num_txn_workers - 1 /\ w' = w + 1 /\ t' = t
         \/ w = num_txn_workers - 1 /\ w' = 0 /\ t' = t + 1
  <2>1. CASE w = num_txn_workers - 1
    <3>1. (w + 1) % num_txn_workers = 0
      BY <2>1, ShareIs
    <3>. QED  BY <1>e, <1>i, <2>1, <3>1, ShareIs DEF Workers
  <2>2. CASE w # num_txn_workers - 1
    <3>1. w + 1 \in 0 .. num_txn_workers - 1
      BY <1>i, <2>2, ShareIs DEF Workers
    <3>2. (w + 1) % num_txn_workers = w + 1
      BY <3>1, ShareIs
    <3>. QED  BY Zenon, <1>e, <1>i, <2>2, <3>1, <3>2, ShareIs DEF Workers
  <2>. QED  BY Zenon, <2>1, <2>2
<1>3. \A v \in Workers : v \in Nat /\ v <= num_txn_workers - 1
  BY ShareIs DEF Workers
<1>4. t' = 2 => w' = 0
  BY <1>2, <1>e, <1>i
<1>5. \A v \in Workers : t' >= 1 \/ v < w' => Len(per_core_txns'[v]) <= Share
  <2>. SUFFICES ASSUME NEW v \in Workers, t' >= 1 \/ v < w', v # w
                PROVE  Len(per_core_txns[v]) <= Share
    BY Zenon, <1>1
  <2>1. t >= 1 \/ v < w
    BY <1>2, <1>3, <1>i, <1>e, ShareIs
  <2>. QED  BY Zenon, <1>i, <2>1
<1>6. \A v \in Workers : t' = 2 \/ (t' = 1 /\ v < w') => Len(per_core_txns'[v]) = Share \/ redist' = <<>>
  <2>. SUFFICES ASSUME NEW v \in Workers, t' = 2 \/ (t' = 1 /\ v < w')
                PROVE  Len(per_core_txns'[v]) = Share \/ redist' = <<>>
    BY Zenon
  <2>1. t = 1 /\ (v # w => v < w)
    BY <1>2, <1>3, <1>i, <1>e, ShareIs
  <2>2. t >= 1
    BY <2>1
  <2>3. Len(mine) <= Share
    BY Zenon, <1>i, <1>m, <2>2
  <2>4. CASE v = w
    BY Zenon, <1>1, <2>3, <2>4
  <2>5. CASE v # w
    BY Zenon, <1>1, <1>i, <2>1, <2>3, <2>5
  <2>. QED  BY Zenon, <2>4, <2>5
<1>7. "even" # "deal"
  BY Zenon
<1>. QED  BY Zenon, <1>1, <1>2, <1>4, <1>5, <1>6, <1>7, <1>e, <1>i, <1>t DEF DealInv

\* Every step keeps what holds of the hands.
LEMMA DealInvStep ==
  ASSUME DealInv, SNext \/ UNCHANGED sVars PROVE DealInv'
<1>1. CASE Deal
  BY Zenon, <1>1, DealStep
<1>2. CASE Even
  BY Zenon, <1>2, EvenStep
<1>3. CASE DealtOut
  <2>1. /\ stage = "deal" /\ stage' = "even" /\ dealt = num_txns /\ dealt' = dealt
        /\ per_core_txns' = per_core_txns /\ redist' = redist /\ t' = t /\ w' = w
    BY Zenon, <1>3 DEF DealtOut
  <2>2. t = 0 /\ w = 0 /\ Held' = Held
    BY Zenon, <2>1 DEF DealInv, Held
  <2>3. t' \in 0 .. 2 /\ w' \in Workers /\ t' # 2 /\ t' # 1 /\ ~(t' >= 1) /\ \A v \in Workers : ~(v < w')
    BY <2>1, <2>2, ShareIs DEF Workers
  <2>4. "even" # "deal"
    BY Zenon
  <2>. QED  BY Zenon, <2>1, <2>2, <2>3, <2>4 DEF DealInv
<1>4. CASE StartWorkers
  <2>1. /\ stage' = "sched" /\ dealt' = 0 /\ redist' = <<>> /\ per_core_txns' = [v \in Workers |-> <<>>]
    BY Zenon, <1>4 DEF StartWorkers
  <2>2. Held' = [v \in Hands |-> <<>>]
    <3>1. \A v \in Hands : v # num_txn_workers => v \in Workers
      BY Zenon, HandIs
    <3>. QED  BY Zenon, <2>1, <3>1 DEF Held
  <2>3. Holding(Held', dealt')
    BY Zenon, <2>1, <2>2, DealNone
  <2>4. dealt' \in 0 .. num_txns
    BY <2>1, ShareIs
  <2>5. <<>> \in Seq(Nat) /\ "sched" # "even" /\ "sched" # "deal"
    OBVIOUS
  <2>. QED  BY Zenon, <2>1, <2>3, <2>4, <2>5 DEF DealInv
<1>5. CASE UNCHANGED dealVars
  <2>1. /\ stage' = stage /\ dealt' = dealt /\ per_core_txns' = per_core_txns /\ redist' = redist
        /\ t' = t /\ w' = w
    BY Zenon, <1>5 DEF dealVars
  <2>2. Held' = Held
    BY Zenon, <2>1 DEF Held
  <2>. QED  BY Zenon, <2>1, <2>2 DEF DealInv
<1>6. ASSUME SNext \/ UNCHANGED sVars, ~Deal, ~Even, ~DealtOut, ~StartWorkers PROVE UNCHANGED dealVars
  BY Zenon, <1>6 DEF SNext, NextTxn, ExtractTxn, Enqueue, Scheduled, sVars
<1>. QED  BY Zenon, <1>1, <1>2, <1>3, <1>4, <1>5, <1>6

-----------------------------------------------------------------------------
(* How many.  What rests on the cardinality of a set comes from here on:    *)
(* a push adds one place, the shares differ by at most one.                 *)

INSTANCE FiniteSetTheorems

\* A transaction is pushed in a slot that its key gives to this node.
LEMMA PushStep ==
  ASSUME QueueInv, NEW s \in Slots, push(s), Hottest1 \in AllKeys \cup {NO_KEY}, pos' = pos + 1,
         node_id' = node_id, Hottest1 # NO_KEY => s \in MySlots(Hottest1)
  PROVE  /\ mb_queues' \in [Slots -> Seq(Item)]
         /\ \A r \in Slots : \A x \in DOMAIN mb_queues'[r] : mb_queues'[r][x].txn < pos'
         /\ SlotPerNode'
<1>. DEFINE e == [txn |-> pos, key |-> Hottest1]
<1>t. e \in Item /\ e.txn = pos /\ e.key = Hottest1 /\ pos \in Nat /\ mb_queues \in [Slots -> Seq(Item)]
  BY Zenon DEF QueueInv, Item
<1>p. mb_queues' = [mb_queues EXCEPT ![s] = Append(mb_queues[s], e)]
  BY Zenon DEF push
<1>. HIDE DEF e
<1>a. /\ mb_queues'[s] = Append(mb_queues[s], e) /\ DOMAIN mb_queues' = Slots
      /\ \A r \in Slots : r # s => mb_queues'[r] = mb_queues[r]
  BY Zenon, <1>p, <1>t
<1>q. PICK l : l = Len(mb_queues[s]) + 1
  BY Zenon
<1>b. /\ mb_queues'[s] \in Seq(Item) /\ DOMAIN mb_queues'[s] = DOMAIN mb_queues[s] \cup {l}
      /\ \A x \in DOMAIN mb_queues[s] : mb_queues'[s][x] = mb_queues[s][x]
      /\ mb_queues'[s][l] = e
  <2>1. mb_queues[s] \in Seq(Item)
    BY Zenon, <1>t
  <2>. QED  BY <1>a, <1>q, <1>t, <2>1, ElemsAppend
<1>1. mb_queues' \in [Slots -> Seq(Item)]
  <2>1. \A r \in Slots : mb_queues'[r] \in Seq(Item)
    BY Zenon, <1>a, <1>b, <1>t
  <2>2. mb_queues' = [r \in Slots |-> mb_queues'[r]]
    BY Zenon, <1>p, <1>t
  <2>. QED  BY Zenon, <2>1, <2>2
\* Every place of the new queues is the new one or was there before.
<1>c. \A r \in Slots : \A x \in DOMAIN mb_queues'[r] :
        \/ r = s /\ x = l /\ mb_queues'[r][x] = e
        \/ x \in DOMAIN mb_queues[r] /\ mb_queues'[r][x] = mb_queues[r][x]
  BY Zenon, <1>a, <1>b
<1>d. \A r \in Slots : \A x \in DOMAIN mb_queues[r] :
        x \in DOMAIN mb_queues'[r] /\ mb_queues'[r][x] = mb_queues[r][x]
  BY Zenon, <1>a, <1>b
<1>o. \A r \in Slots : \A x \in DOMAIN mb_queues[r] : mb_queues[r][x].txn < pos /\ mb_queues[r][x].txn \in Nat
  <2>1. \A r \in Slots : \A x \in DOMAIN mb_queues[r] : mb_queues[r][x] \in Item
    BY <1>t
  <2>. QED  BY Zenon, <2>1 DEF QueueInv, Item
<1>2. \A r \in Slots : \A x \in DOMAIN mb_queues'[r] : mb_queues'[r][x].txn < pos'
  <2>1. pos < pos + 1 /\ \A m \in Nat : m < pos => m < pos + 1
    BY <1>t
  <2>. QED  BY Zenon, <1>c, <1>o, <1>t, <2>1
<1>3. ASSUME NEW n \in 0 .. pos' - 1
      PROVE  Cardinality({p \in Places' : mb_queues'[p[1]][p[2]].txn = n}) = 1
  <2>1. \A p : p \in Places <=> \E r \in Slots : \E x \in DOMAIN mb_queues[r] : p = <<r, x>>
    BY Zenon, PlaceIs DEF Places
  <2>2. \A p : p \in Places' <=> \E r \in Slots : \E x \in DOMAIN mb_queues'[r] : p = <<r, x>>
    BY Zenon, PlaceIs DEF Places
  <2>3. \A r, x : <<r, x>>[1] = r /\ <<r, x>>[2] = x
    BY Zenon
  <2>4. CASE n = pos
    <3>1. \A r \in Slots : \A x \in DOMAIN mb_queues[r] : mb_queues[r][x].txn # pos
      BY <1>o, <1>t
    <3>2. {p \in Places' : mb_queues'[p[1]][p[2]].txn = n} = {<<s, l>>}
      <4>1. ASSUME NEW p \in Places', mb_queues'[p[1]][p[2]].txn = n PROVE p = <<s, l>>
        <5>1. PICK r \in Slots : \E x \in DOMAIN mb_queues'[r] : p = <<r, x>>
          BY Zenon, <2>2, <4>1
        <5>2. PICK x \in DOMAIN mb_queues'[r] : p = <<r, x>>
          BY Zenon, <5>1
        <5>3. mb_queues'[r][x].txn = n
          BY SMTT(30), <2>3, <4>1, <5>2
        <5>. QED  BY Zenon, <1>c, <2>4, <3>1, <5>2, <5>3
      <4>2. <<s, l>> \in Places' /\ mb_queues'[<<s, l>>[1]][<<s, l>>[2]].txn = n
        <5>1. <<s, l>> \in Places'
          BY Zenon, <1>b, <2>2
        <5>. QED  BY Zenon, <1>b, <1>t, <2>3, <2>4, <5>1
      <4>. QED  BY Zenon, <4>1, <4>2
    <3>. QED  BY Zenon, <3>2, FS_Singleton
  <2>5. CASE n # pos
    <3>1. n \in 0 .. pos - 1
      BY <1>3, <1>t, <2>5
    <3>2. {p \in Places' : mb_queues'[p[1]][p[2]].txn = n} = {p \in Places : mb_queues[p[1]][p[2]].txn = n}
      <4>1. ASSUME NEW p \in Places', mb_queues'[p[1]][p[2]].txn = n
            PROVE  p \in Places /\ mb_queues[p[1]][p[2]].txn = n
        <5>1. PICK r \in Slots : \E x \in DOMAIN mb_queues'[r] : p = <<r, x>>
          BY Zenon, <2>2, <4>1
        <5>2. PICK x \in DOMAIN mb_queues'[r] : p = <<r, x>>
          BY Zenon, <5>1
        <5>3. mb_queues'[r][x].txn = n
          BY Zenon, <2>3, <4>1, <5>2
        <5>4. x \in DOMAIN mb_queues[r] /\ mb_queues[r][x].txn = n
          BY Zenon, <1>c, <1>t, <2>5, <5>3
        <5>5. p \in Places
          BY Zenon, <2>1, <5>2, <5>4
        <5>. QED  BY Zenon, <2>3, <5>2, <5>4, <5>5
      <4>2. ASSUME NEW p \in Places, mb_queues[p[1]][p[2]].txn = n
            PROVE  p \in Places' /\ mb_queues'[p[1]][p[2]].txn = n
        <5>1. PICK r \in Slots : \E x \in DOMAIN mb_queues[r] : p = <<r, x>>
          BY Zenon, <2>1, <4>2
        <5>2. PICK x \in DOMAIN mb_queues[r] : p = <<r, x>>
          BY Zenon, <5>1
        <5>3. x \in DOMAIN mb_queues'[r] /\ mb_queues'[r][x] = mb_queues[r][x]
          BY Zenon, <1>d
        <5>4. p \in Places'
          BY Zenon, <2>2, <5>2, <5>3
        <5>. QED  BY Zenon, <2>3, <4>2, <5>2, <5>3, <5>4
      <4>. QED  BY Zenon, <4>1, <4>2
    <3>3. Cardinality({p \in Places : mb_queues[p[1]][p[2]].txn = n}) = 1
      BY Zenon, <3>1 DEF QueueInv, SlotPerNode, Places
    <3>. QED  BY Zenon, <3>2, <3>3
  <2>. QED  BY Zenon, <2>4, <2>5
<1>4. ASSUME NEW r \in Slots, NEW f \in Elems(mb_queues'[r]), f.key # NO_KEY, NEW m \in Nodes \ {node_id}
      PROVE  schedules(f.key \div partition_size, f.key % n_schedules)[r] # m
  <2>1. PICK x \in DOMAIN mb_queues'[r] : f = mb_queues'[r][x]
    BY Zenon, <1>4 DEF Elems
  <2>2. CASE r = s /\ x = l /\ mb_queues'[r][x] = e
    <3>1. s \in MySlots(f.key)
      BY Zenon, <1>4, <1>t, <2>1, <2>2
    <3>. QED  BY Zenon, <1>4, <2>2, <3>1 DEF MySlots
  <2>3. CASE x \in DOMAIN mb_queues[r] /\ mb_queues'[r][x] = mb_queues[r][x]
    <3>1. f \in Elems(mb_queues[r])
      BY Zenon, <2>1, <2>3 DEF Elems
    <3>. QED  BY Zenon, <1>4, <3>1 DEF QueueInv, SlotPerNode
  <2>. QED  BY Zenon, <1>c, <2>1, <2>2, <2>3
<1>5. SlotPerNode'
  BY Zenon, <1>3, <1>4 DEF SlotPerNode, Places
<1>. QED  BY Zenon, <1>1, <1>2, <1>5

\* The loop of sched_batch puts every transaction in one queue of the right node.
LEMMA QueueStep ==
  ASSUME TxnInv, QueueInv, SNext \/ UNCHANGED sVars PROVE QueueInv'
<1>t. /\ pos \in Nat /\ zero_spray_idx \in Nat /\ mb_queues \in [Slots -> Seq(Item)]
      /\ \A s \in Slots : \A x \in DOMAIN mb_queues[s] : mb_queues[s][x].txn < pos
      /\ SlotPerNode
      /\ stage # "sched" => pos = 0 /\ i = 0 /\ \A s \in Slots : mb_queues[s] = <<>>
      /\ i # 0 => block_num # NO_BLOCK
  BY Zenon DEF QueueInv
<1>s. ASSUME UNCHANGED schedVars, stage' = "sched" \/ (stage' # "sched" /\ stage # "sched"),
             stage # "sched" /\ stage' # "sched" => i' = 0, i' # 0 => block_num' # NO_BLOCK
      PROVE  QueueInv'
  <2>1. pos' = pos /\ zero_spray_idx' = zero_spray_idx /\ mb_queues' = mb_queues /\ node_id' = node_id
    BY Zenon, <1>s DEF schedVars
  <2>2. SlotPerNode' <=> SlotPerNode
    <3>1. Places' = Places /\ \A s : Elems(mb_queues[s])' = Elems(mb_queues[s])
      <4>1. Places' = Places
        BY <2>1 DEF Places
      <4>2. ASSUME NEW s PROVE Elems(mb_queues[s])' = Elems(mb_queues[s])
        BY Zenon, <2>1 DEF Elems
      <4>. QED  BY Zenon, <4>1, <4>2
    <3>2. \A n : {p \in Places : mb_queues[p[1]][p[2]].txn = n}' = {p \in Places : mb_queues[p[1]][p[2]].txn = n}
      BY Zenon, <2>1, <3>1
    <3>. QED  BY Zenon, <2>1, <3>1, <3>2 DEF SlotPerNode, Places
  <2>. QED  BY Zenon, <1>s, <1>t, <2>1, <2>2 DEF QueueInv
<1>1. CASE Next /\ block_num = NO_BLOCK /\ UNCHANGED <<txnVars, dealVars, schedVars>>
  <2>1. i' = i /\ i = 0 /\ stage' = stage /\ UNCHANGED schedVars
    BY Zenon, <1>1, <1>t DEF txnVars, dealVars
  <2>. QED  BY Zenon, <1>s, <2>1
<1>2. CASE Deal \/ DealtOut \/ Even
  <2>1. /\ i' = i /\ block_num' = block_num /\ UNCHANGED schedVars /\ stage # "sched" /\ stage' # "sched"
    <3>1. "even" # "sched" /\ "deal" # "sched"
      BY Zenon
    <3>. QED  BY Zenon, <1>2, <3>1 DEF Deal, DealtOut, Even, allVars, txnVars, vars
  <2>. QED  BY Zenon, <1>s, <1>t, <2>1
<1>3. CASE StartWorkers
  <2>1. /\ i' = i /\ block_num' = block_num /\ pos' = pos /\ mb_queues' = mb_queues
        /\ zero_spray_idx' = zero_spray_idx /\ stage = "even" /\ stage' = "sched"
    BY Zenon, <1>3 DEF StartWorkers, allVars, txnVars, vars
  <2>2. pos = 0 /\ \A s \in Slots : mb_queues[s] = <<>>
    BY Zenon, <1>t, <2>1
  <2>3. SlotPerNode'
    <3>1. 0 .. pos' - 1 = {}
      BY <2>1, <2>2
    <3>2. \A s \in Slots : Elems(mb_queues[s])' = {}
      <4>1. DOMAIN <<>> = {}
        OBVIOUS
      <4>. QED  BY Zenon, <2>1, <2>2, <4>1 DEF Elems
    <3>. QED  BY Zenon, <3>1, <3>2 DEF SlotPerNode
  <2>. QED  BY Zenon, <1>t, <2>1, <2>3 DEF QueueInv
<1>4. CASE NextTxn
  <2>1. /\ stage = "sched" /\ stage' = stage /\ block_num # NO_BLOCK /\ block_num' = block_num
        /\ UNCHANGED schedVars
    BY Zenon, <1>4 DEF NextTxn, Load, dealVars, vars
  <2>. QED  BY Zenon, <1>s, <2>1
<1>5. CASE ExtractTxn
  <2>1. stage' = stage /\ block_num' = block_num /\ UNCHANGED schedVars
    BY Zenon, <1>5 DEF ExtractTxn, dealVars, vars
  <2>2. i # 0
    <3>1. i \in 1 .. N_OPS \/ i > N_OPS
      BY Zenon, <1>5 DEF ExtractTxn, Extract, Finish
    <3>. QED  BY <3>1, HotColdAssumption
  <2>3. stage = "sched" /\ block_num # NO_BLOCK
    BY Zenon, <1>t, <2>2
  <2>. QED  BY Zenon, <1>s, <2>1, <2>3
<1>6. CASE Enqueue
  <2>1. /\ init_done /\ pos' = pos + 1 /\ i' = 0 /\ node_id' = node_id /\ stage' = stage
    BY Zenon, <1>6 DEF Enqueue, NewTxn, dealVars
  <2>2. i # 0
    <3>1. i > N_OPS
      BY Zenon, <2>1 DEF TxnInv
    <3>. QED  BY <3>1, HotColdAssumption
  <2>3. stage' = "sched"
    BY Zenon, <1>t, <2>1, <2>2
  <2>4. Hottest1 \in AllKeys \cup {NO_KEY}
    BY Zenon, <2>1, HottestKey
  <2>5. zero_spray_idx' \in Nat
    <3>1. zero_spray_idx' = zero_spray_idx \/ zero_spray_idx' = zero_spray_idx + 1
      BY Zenon, <1>6 DEF Enqueue
    <3>. QED  BY <1>t, <3>1
  <2>6. PICK s \in Slots : push(s) /\ (Hottest1 # NO_KEY => s \in MySlots(Hottest1))
    <3>1. CASE Hottest1 # NO_KEY
      <4>1. PICK s \in Slots : Shortest(Candidates, s) /\ push(s)
        BY Zenon, <1>6, <3>1 DEF Enqueue
      <4>2. s \in Candidates
        BY Zenon, <4>1 DEF Shortest
      <4>3. s \in MySlots(Hottest1)
        BY Zenon, <4>2 DEF Candidates
      <4>. QED  BY Zenon, <4>1, <4>3
    <3>2. CASE Hottest1 = NO_KEY
      BY Zenon, <1>6, <1>t, <3>2, SpraySlot DEF Enqueue
    <3>. QED  BY Zenon, <3>1, <3>2
  <2>7. /\ mb_queues' \in [Slots -> Seq(Item)]
        /\ \A r \in Slots : \A x \in DOMAIN mb_queues'[r] : mb_queues'[r][x].txn < pos'
        /\ SlotPerNode'
    BY Zenon, <2>1, <2>4, <2>6, PushStep
  <2>8. pos' \in Nat
    BY <1>t, <2>1
  <2>. QED  BY Zenon, <2>1, <2>3, <2>5, <2>7, <2>8 DEF QueueInv
<1>7. CASE Scheduled \/ UNCHANGED sVars
  <2>1. stage' = stage /\ i' = i /\ block_num' = block_num /\ UNCHANGED schedVars
    BY Zenon, <1>7 DEF Scheduled, sVars, allVars, txnVars, vars, dealVars
  <2>. QED  BY Zenon, <1>s, <1>t, <2>1
<1>. QED  BY Zenon, <1>1, <1>2, <1>3, <1>4, <1>5, <1>6, <1>7 DEF SNext

\* The numbers of n things.
LEMMA UpTo ==
  ASSUME NEW n \in Nat
  PROVE  /\ IsFiniteSet(1 .. n) /\ Cardinality(1 .. n) = n
         /\ IsFiniteSet(0 .. n - 1) /\ Cardinality(0 .. n - 1) = n
<1>1. IsFiniteSet(1 .. n) /\ Cardinality(1 .. n) = n
  BY FS_Interval
<1>2. IsFiniteSet(0 .. n - 1) /\ Cardinality(0 .. n - 1) = n
  BY FS_Interval
<1>. QED  BY Zenon, <1>1, <1>2

\* Hands that hold the transactions before m have m places.
LEMMA HandPlaces ==
  ASSUME NEW H, NEW m \in Nat, Holding(H, m),
         NEW P, P = {p \in Hands \X Nat : p[2] \in DOMAIN H[p[1]]}
  PROVE  IsFiniteSet(P) /\ Cardinality(P) = m
<1>1. PICK f : f = [p \in P |-> H[p[1]][p[2]]]
  BY Zenon
<1>p. \A p \in P : p[1] \in Hands /\ p[2] \in DOMAIN H[p[1]] /\ p = <<p[1], p[2]>>
  OBVIOUS
<1>q. \A v \in Hands : \A x \in DOMAIN H[v] : <<v, x>> \in P /\ f[<<v, x>>] = H[v][x]
  <2>1. ASSUME NEW v \in Hands, NEW x \in DOMAIN H[v] PROVE x \in Nat
    <3>1. H[v] \in Seq(Nat)
      BY Zenon DEF Holding
    <3>. QED  BY <3>1
  <2>2. ASSUME NEW v \in Hands, NEW x \in DOMAIN H[v] PROVE <<v, x>> \in P
    BY Zenon, <2>1
  <2>. QED  BY Zenon, <1>1, <2>2
<1>2. f \in [P -> 0 .. m - 1]
  <2>1. \A p \in P : H[p[1]][p[2]] \in 0 .. m - 1
    <3>1. \A v \in Hands : \A x \in DOMAIN H[v] : H[v][x] \in 0 .. m - 1
      BY Zenon DEF Holding
    <3>. QED  BY Zenon, <1>p, <3>1
  <2>. QED  BY Zenon, <1>1, <2>1
<1>3. \A p, q \in P : f[p] = f[q] => p = q
  <2>. TAKE p, q \in P
  <2>. HAVE f[p] = f[q]
  <2>1. H[p[1]][p[2]] = H[q[1]][q[2]]
    BY Zenon, <1>1
  <2>2. PICK u \in Hands, v \in Hands : u = p[1] /\ v = q[1]
    BY Zenon, <1>p
  <2>3. PICK x, y : x = p[2] /\ y = q[2]
    BY Zenon
  <2>4. x \in DOMAIN H[u] /\ y \in DOMAIN H[v] /\ H[u][x] = H[v][y]
    BY Zenon, <1>p, <2>1, <2>2, <2>3
  <2>5. \A a \in DOMAIN H[u], b \in DOMAIN H[v] : H[u][a] = H[v][b] => u = v /\ a = b
    BY Zenon DEF Holding
  <2>6. u = v /\ x = y
    BY Zenon, <2>4, <2>5
  <2>. QED  BY Zenon, <1>p, <2>2, <2>3, <2>6
<1>4. \A n \in 0 .. m - 1 : \E p \in P : f[p] = n
  <2>. TAKE n \in 0 .. m - 1
  <2>1. PICK v \in Hands : \E x \in DOMAIN H[v] : H[v][x] = n
    BY Zenon DEF Holding
  <2>2. PICK x \in DOMAIN H[v] : H[v][x] = n
    BY Zenon, <2>1
  <2>3. PICK p : p = <<v, x>>
    BY Zenon
  <2>4. p \in P /\ f[p] = n
    BY Zenon, <1>q, <2>2, <2>3
  <2>. QED  BY Zenon, <2>4
<1>5. f \in Injection(P, 0 .. m - 1) /\ f \in Surjection(P, 0 .. m - 1)
  <2>1. IsInjective(f)
    BY Zenon, <1>2, <1>3 DEF IsInjective
  <2>. QED  BY Zenon, <1>2, <1>4, <2>1 DEF Injection, Surjection
<1>6. IsFiniteSet(0 .. m - 1) /\ Cardinality(0 .. m - 1) = m
  BY Zenon, UpTo
<1>. QED  BY ZenonT(60), <1>5, <1>6, FS_Injection

\* The shares are even: were one too small, redist would be empty and no other too
\* large, and there would be too few places for the transactions.
LEMMA EvenMeans ==
  ASSUME DealInv PROVE EvenShares
<1>. SUFFICES ASSUME stage = "even", t = 2
              PROVE  /\ \A v \in Workers : Len(per_core_txns[v]) = Share
                     /\ Len(redist) = num_txns % num_txn_workers
                     /\ Elems(redist) \cup UNION {Elems(per_core_txns[v]) : v \in Workers} = 0 .. num_txns - 1
  BY Zenon DEF EvenShares, Rounds
<1>t. /\ per_core_txns \in [Workers -> Seq(Nat)] /\ redist \in Seq(Nat) /\ Holding(Held, num_txns)
      /\ \A v \in Workers : t >= 1 => Len(per_core_txns[v]) <= Share
      /\ \A v \in Workers : Len(per_core_txns[v]) = Share \/ redist = <<>>
  BY Zenon DEF DealInv
<1>l. \A v \in Workers : Len(per_core_txns[v]) \in Nat /\ Len(per_core_txns[v]) <= Share
                         /\ DOMAIN per_core_txns[v] = 1 .. Len(per_core_txns[v])
  <2>1. \A v \in Workers : per_core_txns[v] \in Seq(Nat)
    BY Zenon, <1>t
  <2>2. t >= 1
    OBVIOUS
  <2>. QED  BY <1>t, <2>1, <2>2
<1>r. Len(redist) \in Nat /\ DOMAIN redist = 1 .. Len(redist)
  BY <1>t
<1>h. /\ num_txn_workers \in Hands /\ Held[num_txn_workers] = redist
      /\ \A v \in Workers : v \in Hands /\ v # num_txn_workers /\ Held[v] = per_core_txns[v]
      /\ \A v \in Hands : v = num_txn_workers \/ v \in Workers
  BY Zenon, HandIs
<1>n. /\ num_txn_workers \in Nat \ {0} /\ num_txns \in Nat /\ Share \in Nat
      /\ num_txns = num_txn_workers * Share + (num_txns % num_txn_workers)
      /\ num_txns % num_txn_workers \in 0 .. num_txn_workers - 1
  BY Zenon, ShareIs
<1>m. PICK W : W = num_txn_workers * Share
  BY Zenon
<1>P. PICK P : P = {p \in Hands \X Nat : p[2] \in DOMAIN Held[p[1]]}
  BY Zenon
<1>c. IsFiniteSet(P) /\ Cardinality(P) = num_txns
  BY Zenon, <1>P, <1>n, <1>t, HandPlaces
<1>S. PICK S : S = Workers \X (1 .. Share)
  BY Zenon
<1>s. IsFiniteSet(S) /\ Cardinality(S) = W
  <2>1. /\ IsFiniteSet(Workers) /\ Cardinality(Workers) = num_txn_workers
        /\ IsFiniteSet(1 .. Share) /\ Cardinality(1 .. Share) = Share
    <3>1. num_txn_workers \in Nat
      BY Zenon, <1>n
    <3>. QED  BY Zenon, <1>n, <3>1, UpTo DEF Workers
  <2>2. IsFiniteSet(S) /\ Cardinality(S) = Cardinality(Workers) * Cardinality(1 .. Share)
    BY Zenon, <1>S, <2>1, FS_Product
  <2>. QED  BY Zenon, <1>m, <2>1, <2>2
<1>1. \A v \in Workers : Len(per_core_txns[v]) = Share
  <2>. SUFFICES ASSUME NEW v \in Workers, Len(per_core_txns[v]) # Share PROVE FALSE
    BY Zenon
  <2>1. redist = <<>> /\ Len(per_core_txns[v]) < Share
    BY <1>l, <1>n, <1>t
  <2>2. P \subseteq S \ {<<v, Share>>}
    <3>. SUFFICES ASSUME NEW p \in P PROVE p \in S /\ p # <<v, Share>>
      BY Zenon
    <3>1. p[1] \in Hands /\ p[2] \in DOMAIN Held[p[1]] /\ p = <<p[1], p[2]>> /\ p[2] \in Nat
      BY <1>P
    <3>2. p[1] # num_txn_workers
      <4>1. DOMAIN redist = {}
        BY <2>1
      <4>. QED  BY Zenon, <1>h, <3>1, <4>1
    <3>3. p[1] \in Workers /\ p[2] \in 1 .. Len(per_core_txns[p[1]])
      BY Zenon, <1>h, <1>l, <3>1, <3>2
    <3>4. p[2] \in 1 .. Share
      BY <1>l, <1>n, <3>3
    <3>5. p \in S
      BY Zenon, <1>S, <3>1, <3>3, <3>4
    <3>6. ASSUME p = <<v, Share>> PROVE FALSE
      <4>1. p[1] = v /\ p[2] = Share
        BY Zenon, <3>6
      <4>2. Share \in 1 .. Len(per_core_txns[v])
        BY Zenon, <3>3, <4>1
      <4>. QED  BY <1>l, <1>n, <2>1, <4>2
    <3>. QED  BY Zenon, <3>5, <3>6
  <2>3. <<v, Share>> \in S
    <3>1. Share \in 1 .. Share
      BY <1>l, <1>n, <2>1
    <3>. QED  BY Zenon, <1>S, <3>1
  <2>4. IsFiniteSet(S \ {<<v, Share>>}) /\ Cardinality(S \ {<<v, Share>>}) = Cardinality(S) - 1
    <3>1. PICK e : e = <<v, Share>>
      BY Zenon
    <3>. QED  BY Zenon, <1>s, <2>3, FS_RemoveElement
  <2>5. Cardinality(P) <= Cardinality(S \ {<<v, Share>>})
    BY Zenon, <2>2, <2>4, FS_Subset
  <2>. QED  BY <1>c, <1>m, <1>n, <1>s, <2>4, <2>5
<1>2. Len(redist) = num_txns % num_txn_workers
  <2>R. PICK R : R = {num_txn_workers} \X (1 .. Len(redist))
    BY Zenon
  <2>1. IsFiniteSet(R) /\ Cardinality(R) = Len(redist)
    <3>1. /\ IsFiniteSet({num_txn_workers}) /\ Cardinality({num_txn_workers}) = 1
          /\ IsFiniteSet(1 .. Len(redist)) /\ Cardinality(1 .. Len(redist)) = Len(redist)
      <4>1. IsFiniteSet({num_txn_workers}) /\ Cardinality({num_txn_workers}) = 1
        BY Zenon, FS_Singleton
      <4>2. IsFiniteSet(1 .. Len(redist)) /\ Cardinality(1 .. Len(redist)) = Len(redist)
        BY Zenon, <1>r, UpTo
      <4>. QED  BY Zenon, <4>1, <4>2
    <3>2. IsFiniteSet(R) /\ Cardinality(R) = Cardinality({num_txn_workers}) * Cardinality(1 .. Len(redist))
      BY Zenon, <2>R, <3>1, FS_Product
    <3>. QED  BY <1>r, <3>1, <3>2
  <2>2. P = S \cup R
    <3>1. ASSUME NEW p \in P PROVE p \in S \cup R
      <4>1. p[1] \in Hands /\ p[2] \in DOMAIN Held[p[1]] /\ p = <<p[1], p[2]>>
        BY <1>P
      <4>2. CASE p[1] = num_txn_workers
        <5>1. p[2] \in 1 .. Len(redist)
          BY Zenon, <1>h, <1>r, <4>1, <4>2
        <5>. QED  BY Zenon, <2>R, <4>1, <4>2, <5>1
      <4>3. CASE p[1] \in Workers
        <5>1. p[2] \in 1 .. Share
          BY Zenon, <1>1, <1>h, <1>l, <4>1, <4>3
        <5>. QED  BY Zenon, <1>S, <4>1, <4>3, <5>1
      <4>. QED  BY Zenon, <1>h, <4>1, <4>2, <4>3
    <3>2. ASSUME NEW p \in S PROVE p \in P
      <4>1. p[1] \in Workers /\ p[2] \in 1 .. Share /\ p = <<p[1], p[2]>>
        BY <1>S
      <4>2. p[1] \in Hands /\ p[2] \in DOMAIN Held[p[1]]
        BY Zenon, <1>1, <1>h, <1>l, <4>1
      <4>3. p[2] \in Nat
        BY <4>1
      <4>. QED  BY Zenon, <1>P, <4>1, <4>2, <4>3
    <3>3. ASSUME NEW p \in R PROVE p \in P
      <4>1. p[1] = num_txn_workers /\ p[2] \in 1 .. Len(redist) /\ p = <<p[1], p[2]>>
        BY <2>R
      <4>2. p[1] \in Hands /\ p[2] \in DOMAIN Held[p[1]]
        BY Zenon, <1>h, <1>r, <4>1
      <4>3. p[2] \in Nat
        BY <4>1
      <4>. QED  BY Zenon, <1>P, <4>1, <4>2, <4>3
    <3>. QED  BY Zenon, <3>1, <3>2, <3>3
  <2>3. S \cap R = {}
    <3>1. num_txn_workers \notin Workers
      BY <1>n DEF Workers
    <3>. QED  BY Zenon, <1>S, <2>R, <3>1
  <2>4. Cardinality(S \cap R) = 0
    BY Zenon, <2>3, FS_EmptySet
  <2>5. Cardinality(P) = Cardinality(S) + Cardinality(R) - Cardinality(S \cap R)
    BY Zenon, <1>s, <2>1, <2>2, FS_Union
  <2>6. num_txns = W + Len(redist) - 0
    BY Zenon, <1>c, <1>s, <2>1, <2>4, <2>5
  <2>7. num_txns = W + (num_txns % num_txn_workers) /\ W \in Nat
    BY <1>m, <1>n
  <2>8. num_txns % num_txn_workers \in Int
    BY <1>n
  <2>. QED  BY <1>r, <2>6, <2>7, <2>8
<1>3. Elems(redist) \cup UNION {Elems(per_core_txns[v]) : v \in Workers} = 0 .. num_txns - 1
  <2>1. ASSUME NEW n \in 0 .. num_txns - 1
        PROVE  n \in Elems(redist) \cup UNION {Elems(per_core_txns[v]) : v \in Workers}
    <3>1. PICK v \in Hands : \E x \in DOMAIN Held[v] : Held[v][x] = n
      BY Zenon, <1>t DEF Holding
    <3>2. PICK x \in DOMAIN Held[v] : Held[v][x] = n
      BY Zenon, <3>1
    <3>3. v = num_txn_workers => n \in Elems(redist)
      BY Zenon, <1>h, <3>2 DEF Elems
    <3>4. v \in Workers => n \in Elems(per_core_txns[v])
      BY Zenon, <1>h, <3>2 DEF Elems
    <3>. QED  BY Zenon, <1>h, <3>3, <3>4
  <2>2. \A v \in Hands : Elems(Held[v]) \subseteq 0 .. num_txns - 1
    <3>1. \A v \in Hands : \A x \in DOMAIN Held[v] : Held[v][x] \in 0 .. num_txns - 1
      BY Zenon, <1>t DEF Holding
    <3>. QED  BY Zenon, <3>1 DEF Elems
  <2>3. Elems(redist) \subseteq 0 .. num_txns - 1 /\ \A v \in Workers : Elems(per_core_txns[v]) \subseteq 0 .. num_txns - 1
    BY Zenon, <1>h, <2>2
  <2>4. UNION {Elems(per_core_txns[v]) : v \in Workers} \subseteq 0 .. num_txns - 1
    BY Zenon, <2>3
  <2>. QED  BY Zenon, <2>1, <2>3, <2>4
<1>. QED  BY Zenon, <1>1, <1>2, <1>3

-----------------------------------------------------------------------------
(* The invariant and what it gives.                                         *)

\* The queues are empty at first.
LEMMA QueueInit == SInit => QueueInv
<1>. SUFFICES ASSUME SInit PROVE QueueInv
  BY Zenon
<1>1. /\ pos = 0 /\ zero_spray_idx = 0 /\ i = 0
      /\ mb_queues = [s \in Slots |-> <<>>]
  BY Zenon DEF SInit, TInit
<1>2. DOMAIN <<>> = {} /\ <<>> \in Seq(Item) /\ 0 .. 0 - 1 = {} /\ 0 \in Nat
  OBVIOUS
<1>3. \A s \in Slots : mb_queues[s] = <<>> /\ DOMAIN mb_queues[s] = {} /\ Elems(mb_queues[s]) = {}
  BY Zenon, <1>1, <1>2 DEF Elems
<1>4. SlotPerNode
  BY Zenon, <1>1, <1>2, <1>3 DEF SlotPerNode
<1>. QED  BY Zenon, <1>1, <1>2, <1>3, <1>4 DEF QueueInv

\* The placement goes on only before the block is known.
LEMMA LayoutSStep ==
  ASSUME LayoutInv, SNext \/ UNCHANGED sVars PROVE LayoutInv'
<1>1. Next \/ UNCHANGED vars
  BY Zenon DEF SNext, Deal, DealtOut, Even, StartWorkers, NextTxn, ExtractTxn, Enqueue, Scheduled,
               sVars, allVars
<1>. QED  BY Zenon, <1>1, LayoutStep

\* The inductive invariant holds at first.
LEMMA SInvInit == SInit => SInv
BY Zenon, LayoutInit, TxnInit, QueueInit, DealInit DEF SInv, SInit, TInit

\* Every step keeps it.
LEMMA SInvNext == SInv /\ [SNext]_sVars => SInv'
BY Zenon, LayoutSStep, TxnStep, QueueStep, DealInvStep DEF SInv

\* The inductive invariant of the layout, the transaction at hand, the queues and the
\* hands of the workers.
THEOREM ScheduleInvariant == SSpec => []SInv
BY SInvInit, SInvNext, PTL DEF SSpec

\* What it gives of a state.
LEMMA SInvMeans ==
  SInv => RevInverse /\ LoadsHotKeys /\ NoOpLost /\ OncePerPass /\ EvenShares /\ SlotPerNode
<1>. SUFFICES ASSUME SInv PROVE RevInverse /\ LoadsHotKeys /\ NoOpLost /\ OncePerPass /\ EvenShares /\ SlotPerNode
  BY Zenon
<1>1. RevInverse /\ LoadsHotKeys
  BY Zenon, RevMeans, LoadsMeans DEF SInv
<1>2. NoOpLost /\ OncePerPass
  BY Zenon DEF SInv, TxnInv, NoOpLost, OncePerPass
<1>3. EvenShares
  BY Zenon, EvenMeans DEF SInv
<1>4. SlotPerNode
  BY Zenon DEF SInv, QueueInv
<1>. QED  BY Zenon, <1>1, <1>2, <1>3, <1>4

\* rev_lookup finds the hot key that get_location gives a record of the block to, for
\* any keys, frequencies, registers and blocks, but in a register that got more keys
\* than a uint16_t can number; there it may find a hotter one.
THEOREM RevLookupInverts == SSpec => []RevInverse
BY ScheduleInvariant, SInvMeans, PTL

\* The start packets load the registers with hot keys only, and with all of those in
\* registers that got no more keys than a uint16_t can number.
THEOREM HotKeysLoaded == SSpec => []LoadsHotKeys
BY ScheduleInvariant, SInvMeans, PTL

\* extract_hot_cold loses no operation and doubles none, however the swaps between the
\* two passes and the packing of cold_ops interleave.
THEOREM OperationsKept == SSpec => []NoOpLost
BY ScheduleInvariant, SInvMeans, PTL

\* A pass through the switch uses a register once and checks the lock of every record.
THEOREM PassesSound == SSpec => []OncePerPass
BY ScheduleInvariant, SInvMeans, PTL

\* Two rounds of redistribution even the shares out, for any number of workers and
\* transactions and however they were dealt.
THEOREM SharesEven == SSpec => []EvenShares
BY ScheduleInvariant, SInvMeans, PTL

\* Every transaction that sched_batch has scheduled is in one queue, of a slot that no
\* other node has in the schedule of its key.
THEOREM SlotsDisjoint == SSpec => []SlotPerNode
BY ScheduleInvariant, SInvMeans, PTL
=============================================================================
