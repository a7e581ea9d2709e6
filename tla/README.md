# A TLA+ model of P4DB

P4DB is a distributed in-memory database that keeps its hottest rows in the registers
of a programmable switch. Every node runs a fixed number of worker threads over a trace of transactions.
A transaction is split into a *cold* part, executed under two-phase locking on the
nodes that hold its rows, and a *hot* part, one packet that the switch executes later.
The workers run in *mini-batches*, separated by a barrier of all nodes; a *batch* is a
number of mini-batches, a last one that drains the queues, a *hot period* in which the
leaders send the packets that were queued, and the *left-over* transactions that could
not be accelerated. Before a hot period a node needs a block of switch memory, which
the control plane of the switch hands out to tenants.

The correctness of the design hangs on one thing: the order in which conflicting
transactions pass through the switch must be the order in which they locked their cold
rows. Within a node the slots of the send queue give that order. Between nodes there
is none within a mini-batch, so transactions of different nodes in the same mini-batch must not
conflict, and the barriers must keep the mini-batches apart, in the cold part and in
the hot period. Most of what follows is about that.

## Parts and modules

| Part | Source | Module |
| --- | --- | --- |
| row locks | `src/ee/row.hpp` | `Row` |
| workers, undo log, tuple messages, batch loop | `src/ee/executor.cpp`, `undolog.*`, `future.hpp`, `comm/msg_handler.cpp`, `comm/handlers/tuple_put_res.cpp` | `Executor` |
| reusable barrier | `src/utils/rbarrier.hpp` | `Barrier` (what it promises), `RBarrier` |
| barrier of the nodes | `src/comm/handlers/barrier.cpp` | `NodeBarrier` |
| hot period | `src/ee/hot_period.cpp`, `database.hpp` | `HotPeriod` |
| block allocation | `src/ee/sched_intf.cpp`, `switch_src/01_control_plane/` | `ControlPlane` |
| switch program with locks | `switch_src/my_p4db.p4` | `SwitchLocks`, `SwitchQueue` (its loopback port) |
| one-pass packets and switch program | `src/ee/switch.cpp`, `new_p4db.p4` | `HotStore` (what it promises), `OnePass` |
| placement of hot keys | `src/layout/declustered_layout.*` | `Layout` |
| hot/cold extraction | `src/ee/hot_cold.cpp` | `HotCold` (on top of `Layout`) |
| shares of the workers, batch scheduler | `src/main/main.cpp`, `src/ee/sched.cpp` | `SchedTable`, `Schedule` (on top of `HotCold`) |
| simulator: traces, layouts, packets | `mine/fast_layout/src/batch.cpp`, `layout.cpp` | `SimLayout` |
| simulator: pipe of the switch, locks, tests | `mine/fast_layout/src/switch.cpp`, `mempool.h`, `*system_test.cpp` | `SwitchSim` (on top of `SimLayout`) |

`PROJECT.json` lists every part of the repository, those that are not modelled
included, the lines that each definition stands for, and the hazards with the properties
that cover them. The `MC` modules and the `.cfg` files are the instances for TLC; the
modules whose names end in `Proofs`, and `ExecutorBatches` and `ExecutorOrder`, hold proofs.

### Executor

State: the rows (lock type, owner count, `last_acq`, tuple), and per worker the loop of
`txn_executor` it is in, its queues, the transaction, the operation that the loops of
`my_execute`, `execute` and `Undolog::clear` have reached, and a future per operation. A
worker waits for every answer, so a message is identified by worker and operation, and
the field `st` of the future says where the request or the release is. There is one
action for each step that another thread can observe: the test outside the mutex and
the lock inside it, a lock request, its handling on the home node, its answer, the accesses,
the slot of the send queue, each entry of the log that is cleared, a release, its
handling, its acknowledgement, and the entries and exits of the barriers. The value of a
row is the transaction that wrote it last. `hot_ops` and `cold_ops` are what
`extract_hot_cold` left, `Sched` what `sched_batch` filled the queues with.

The barriers `wait_workers`, `wait_nodes` and `batch_bar` are used here as what they promise. `RBarrier` and
`NodeBarrier` model how they are made: `RBarrier` one action per atomic operation on
the two counters, `NodeBarrier` the same with `critical_wait` as the middle function,
the messages between the nodes, and the calls of `main` and `txn_executor` in their order.

### Hot period and control plane

`HotPeriod` follows `run_hot_period` on every leader: start packets, the waits for
mini-batches without packets, windows of packets, waits, end packets. `ControlPlane` has
the messages between the leaders and the event loop of the switch CPU, the queues of
`handle_alloc` and `handle_free`, and the ready messages. `sched.cpp` accepts as many
connections as its compile-time constant `N_NODES` says, 2 in the source; the model takes it as a
parameter, and the run uses three nodes of two tenants, so that one tenant has two nodes.

### Switch

`SwitchLocks` models a packet's way through `my_p4db.p4`: the stateful action on the
lock register, accesses of the first and the second pass, recirculation after a
success, a failure and an undo. A cell is a record of a register. The order in which packets pass
is arbitrary. `SwitchQueue` adds the order in which they come back: all that recirculate go through one loopback port, first in, first out,
while new ones arrive at any time.

The headers of the packets are made by `extract_hot_cold` in a build with `MAX_PASSES_ACCEL` 2 (the source has 1). `SwitchLocks` takes them as constants, of
which it assumes (`SwitchLocksAssumption`) only what `extract_hot_cold` does for any transaction: the locks of all cells are checked, and those acquired are among them. It is
not assumed that the locks acquired are those of the second pass, since they need not be: see `sw_swap`. `MCSwitchLocks` computes the headers from traces by the
rule of `extract_hot_cold`.

`OnePass` is the build with `USE_1PASS_PKTS`: `make_txn` writes an index relative to a shared base offset
and a write bit for each of the registers, and the second pipeline of `new_p4db.p4` accesses the registers in
their order. Many packets are in the pipeline at once; that they keep their order in it is the
one thing taken from the hardware. `HotStore` executes a transaction in one step. The refinement mapping lets
a transaction take effect when its packet enters the pipeline: the abstract store is what the registers will hold
once the packets in the pipeline have passed, and a reply is what a packet has read or is going to read.

### Layout, extraction and scheduling

`Layout` runs the constructor of `DeclusteredLayout` key by key for every assignment of
frequencies and has `get_location`, `rev_lookup` and the keys that the start packets
load. `HotCold` runs `extract_hot_cold` operation by operation on any trace, for the builds
with `MAX_PASSES_ACCEL` 1 and 2, using the layout that the constructor made. The numbers of records are cut to `U16` values, as the `uint16_t` of the code does. Transactions and frequencies
come from different files, so a trace may use a key that was not placed (`AllKeys`); `virt_map[k]` then makes it a location of zeros, which counts as hot. Traces may also name a key
twice: the generator `Generic.java` draws keys until they are unique, but the loader takes any trace and does not look.

`Schedule` composes them as a node does. First `main` deals the transactions out, each to the worker
with the fewest remote operations so far, and moves transactions between the workers until their shares are equal
(`Deal`, `Even`). Then `sched_batch` of one worker extracts transaction after transaction and puts each in the queue of a slot
(`NextTxn`, `ExtractTxn`, `Enqueue`). `SchedTable` has the table that says which node may use a key in which slot. A queue holds the position of a transaction and its hottest cold key,
which is what the property is about.

### Simulator

`mine/fast_layout` is the program with which the design of the switch was chosen. `SimLayout` follows a batch from the trace
to packets: the loaders, the split into hot and cold operations, the five `*_impl` heuristics of `layout_t` (one action per key that
is placed), the constructor of `sw_txn_t`, which deals operations out to passes, and `prepare_txns_sw`, which drops
transactions with too many passes and spreads the locks. `std::sort` is not stable, so keys of the same count come in any
order, and `rand()` may return anything. `SwitchSim` is a cycle of the clock per action: registers, egress or recirculation, shift,
choice of a parser, locks, refilling of the parsers; between cycles the loop of the tests sends and receives. Which
heuristic and which of the three lock managers a build has is chosen by comments in the source; here it is a
variable that never changes. `granular_*` is combined with `prepare_txns_sw` only, since the other test sends packets without locks, and
`naive_spray`, with which an assertion of `prepare_txns_sw` fails, with the lock on the whole pipe only. The tests use
port 0; here a packet may use any.

## Runs

Passing runs:

- `exec` (three workers on two nodes, five transactions over two batches, one hot
  key, one accelerated retry): `LockInv`, `CopyFresh`, `MbInOrder`, `PutsCounted`,
  `AnswerAwaited`, `WritesDisjoint`, `SlotOrder`, `ExactlyOnce`, and every worker finishes (`Terminates`). The instance has
  local and remote readers and writers on the same rows in a mini-batch, two workers of one node that both write them (their
  slots are what `SlotOrder` is about), aborts with both outcomes (another try, left over), a transaction that is not accelerated, drains and left-overs.
  Transactions take their locks in one order; otherwise the livelock that a comment in `run_leftover_txns` fears is real.
- `rbar`: a node of three threads with a single middle function and one of two threads
  that both run it, two waits each. Two waits are enough for a fast thread to meet slow ones of
  the wait before, and a third adds nothing that the proof does not cover.
- `nbar`: two workers on one node, one on the other, two batches of calls. Deadlock is not
  checked because the overrun below is a deadlock.
- `sw`: six packets on three records of two registers with three locks. Three come to the hotter record of a register last, so that they acquire its lock,
  two of them on both registers; one has a second pass without a lock, one acquires the lock of the wrong record, one needs a single pass. `ProtectedSerial` is about the
  cells that every second pass on them holds the lock of. `Answered` needs the order of the loopback port: with recirculation in any order a packet with nothing
  to undo can be refused until `n_failed`, of which the program looks at the limit in an undo pass only, has wrapped around (after `FAIL_WRAP` failures), and begins anew.
  The limit itself is needed as well: without it two packets can undo each other's tries for ever.
- `cp`: two tenants, three nodes, two blocks, two batches. `Served` exempts a node behind a tenant that has
  finished: after its last batch a tenant allocates once more and never frees the block.
- `onepass`: four transactions of two blocks under one base offset, on two registers; refinement of `HotStore`, and every
  packet is answered (no assert of `make_txn` fails).
- `hot`: two leaders, queues of any shape up to three slots, two mini-batches per batch, two batches,
  windows of two packets.
- `accel`: six keys on two registers of two records per block, so that four keys are hot and a transaction can have
  cold ones, and a seventh that was not placed; two blocks; `U16` = 4. The frequencies are all those with values 1 and 2, and one in which a key is so hot that five others come to one register and the
  number of the last wraps around. Every first trace of three operations, then two more transactions; three nodes, two workers and five
  transactions to deal out, so that one is left over and one round of evening out is not enough (`EvenShares`).
- `sim`: five keys, two stages of one register, two locks, up to four packets, two groups of ports; traces of each kind of loader,
  chosen so that lines name keys twice, a key is cold, transactions have one, two and more passes and want one or two locks, packets
  refuse each other, undo one lock of the two they want, and are given up after two failures. `Serializable` is the verdict of the checker that the simulator itself runs at its end.

Runs that show a disagreement between the code and what is said of it:

- `nbar_overrun`: `my_wait` spins until `received` is exactly one. If the other node is
  fast and sends the message of its next wait before the spinning thread looks, it is two, and the
  wait never ends. The comment on `critical_wait` says such messages are queued up.
- `exec_readers`: the checker of the logs asserts that the keys touched by the two nodes in a mini-batch are
  disjoint. Readers break it: the id of the last release is that of another reader.
- `sw_swap`: `extract_hot_cold` puts the operation on the hotter of two records of a register in the second pass, though its comment speaks of the least hot, and always
  acquires the lock of the operation it met last. A transaction that names the hotter record first therefore uses it in its second pass without holding its lock; a packet
  that comes between the passes uses it too, and the two are not serializable (`Serial`). The hottest record of a register has no lock, which
  the layout takes to be safe because it is never in a second pass. This needs a build with two passes.

Fairness: weak fairness of each thread (the operating system schedules them), of each
message (TCP delivers), of each packet that is sent, and of the loopback port of the switch, which is served in the order of its queue. The simulator is one sequential program, so `sim` has weak fairness of the whole step: it goes on until `main`
returns. Deadlock is left unchecked where the processes end or a liveness property covers it.

## Proofs

All theorems hold for any values of the constants that satisfy the named assumptions,
which say what kind of values the constants are. Those that say more are: `BlocksFitAssumption` (the records of a block fit a `uint16_t`), `SchedTableAssumption` (a subtraction does not wrap),
`NodeBarrierAssumption` (two nodes, leaders that make the same calls), `SwitchLocksAssumption` (which locks a packet checks, above) and `SchedAssumption` (a transaction is scheduled once).

- `ExecutorProofs`, `ExecutorBatches` and `ExecutorOrder` build on each other; the theorems are all in the last.
  `TypeOK`, `LockInv`, `PutsCounted`, `WritesDisjoint`, `MbInOrder` and `AnswerAwaited` are invariants of `Executor`. None of them is inductive. `ExecutorInv` has
  the invariant that is: what the log of a worker can hold at each point of its program
  (`LogInv`); that holders still satisfy the test on `last_acq` (`HolderInv`); that nobody is past a
  barrier that another has not entered (`BarrierInv`); that no release, done or to come, carries an id of a
  mini-batch that is not open (`AcqInv`); and that every row that a slot of the
  send queue wrote was last released by that slot's transaction or later (`SlotInv`). From the last
  one `WritesDisjoint` follows: a writer of another node in the same mini-batch would have been refused.
  `ExecutorProofs` shows that every step keeps it: what it says of each worker action by action, and what it says of locks once for each
  of three kinds of steps, those that grant a lock, release one, or keep them all.
  The first two modules use the facts on finite sets that they need as a hypothesis (`FiniteSetFacts`); `ExecutorOrder` proves
  them from the library and discharges it, so no theorem depends on it.
  `CopyFresh` is an invariant relative to this one: a step that changes a row needs a lock that
  the holder of a copy excludes, or is the holder's own.
- `SlotOrder` and `ExactlyOnce`, also of `Executor`, need more. `OInv`, kept by every step by the lemmas of `ExecutorBatches` and `ExecutorOrder`, adds how far a worker is in its batch
  and which numbers its mini-batches have (`LoopInv`), that what is left over is not accelerated (`LeftInv`), that no worker is two
  mini-batches ahead of another (`MbClose`) and none of a node a batch ahead (`BatchInv`), that the slots of a queue are of mini-batches
  that are not sent, not later than the open one (`SlotMbInv`), where the value that a slot wrote is until its lock is released
  (`WroteInv`), `SlotOrder` for any moment and any row, also while the row is being written (`OrderInv`), and where each transaction of a batch
  is (`OnceInv`). The order is that of the locks: a new slot is filled while its transaction holds its rows, so it comes
  after every slot of its own node, and after those of other nodes because, by `WritesDisjoint`, those are of earlier mini-batches.
  `ExactlyOnce` needs that `sched_batch` puts a transaction in one queue only (`SchedAssumption`), which is the first
  half of `SlotPerNode`.
- `RBarrierProofs`: `MiddleAlone`, `MiddlePerWait`, and that `RBarrier` implements `Barrier`. The invariant says that a
  node is either gathering (second gate open, some threads in) or releasing (first gate
  open, some threads out), and counts the threads in each gate. For `MiddlePerWait` it also counts the calls of the middle
  function (`CountInv`): all of them for the waits that are over, and while a node is releasing those of the threads that have run it.
- `NodeBarrierProofs`: `OneAhead`, and `WorkersSpec`: `wait_workers` is a barrier of the workers of both nodes, the promise that `Executor` is
  built on. First, `NodeBarrier` implements `RBarrier` when `critical_wait` is hidden in the middle function (`bpc`), so the theorems of
  `RBarrierProofs` hold of it by `INSTANCE`: a thread in `critical_wait` is alone there, with all threads of its node inside the same wait (`Waiting`).
  Then the messages are counted. Each is on its way, counted in `received`, or met (`FlowInv`), which gives `OneAhead`. The leader's place in its
  calls says how many of them its node has sent (`Counts`), and a message for a `wait_workers` is sent only after all workers of the node have
  entered that wait (`Reached`). Since all leaders make the same calls, equal numbers of messages mean the same call. `NodeBarrierAssumption` says
  that, that there are two nodes, and that only leaders call `wait_nodes`. A wait that the overrun of `nbar_overrun` stops for ever is no exception: a thread that never
  returns breaks no barrier.
- `HotProofs`, for `HotPeriod`: `RegistersLoaded` and `MiniBatchOrder`. `HInv` says how the queue of a batch is filled and numbered (`QueueInv`),
  that the calls of `wait_nodes` a leader has made determine its batch and its place in `run_hot_period` (`CallInv`), that what it has sent is
  of mini-batches it has come to (`SentInv`), and that nobody has returned from a call that another has not made. Unless a batch is uneven, equal counts
  mean the same place at all nodes, which gives both.
- `HotProofs`, for `OnePass`: it implements `HotStore`. The invariant says that a packet carries its transaction (`PacketInv`),
  where it can be in each place (`StageInv`), and that packets in the pipeline have different places in the order
  (`OrderInv`); the arithmetic of base offset and relative index is exact for any block size and offset width. The heart is that an access
  by the oldest packet that has yet to come to a register changes neither the store nor a reply of the mapping.
- `SwitchProofs`, for `SwitchLocks`: `UndoHeld`, `NoLeak` and `ProtectedSerial`, for packets in any order, hence also in that of `SwitchQueue`. The invariant ties the bits of the lock
  register to the packets that are between their passes or about to undo: a cell whose lock a second pass holds is not used by others before it.
- `SwitchProofs`, for `ControlPlane`: `BlockExclusive`, `Framed` and `HandleAsserts`, for any tenants, nodes and blocks. The invariant `CInv` says what can be in
  the two directions of a node's connection at each point of its program (`NodeInv`, `ChanInv`), that the nodes of a
  tenant differ by one batch at most (`PeerInv`), that the tables of the control plane follow from the requests that were
  answered (`TenantInv`), and that the tenants in the queue of a block have that block and all but the first wait (`QueueInv`).
- `ScheduleProofs`: `RevInverse`, `LoadsHotKeys`, `NoOpLost`, `OncePerPass`, `EvenShares` and `SlotPerNode`, from the invariant `SInv`.
  `LayoutInv` says that the numbers of a register's records are below the next free one (`BelowNext`), that a number has a key that was placed there (`RevKey`), and that a
  placed key is found under its number, or a hotter key is and the register has had more keys than a `uint16_t` counts (`Found`). `TxnInv` says that the packed front of `cold_ops` and the two
  passes are the operations before `i`, each once, and the rest of the array is as it was loaded; and that
  `hot_reorder_buf` points to the operation of the first pass on its register. `QueueInv` has `SlotPerNode` and that only transactions before
  `pos` are queued. `DealInv` looks at the shares and `redist` as hands that hold each transaction once: the first round leaves no
  share too large, the second one too small only when `redist` is empty, and then counting places shows that none is.
  `EveryNodeHasASlot` is the assertion of `sched_batch` that a slot was found, for any number of nodes and any remote
  fraction for which the unsigned subtraction of the constructor does not wrap (`SchedTableAssumption`). The witness is the slot
  at the node's own place in the range of the schedule that belongs to all nodes.

Only model-checked: liveness (`Terminates`, `AllReturn`, `Answered`, `Served`, `Completes`, `Replied`, `Delivered`),
and everything about `SimLayout` and `SwitchSim`. Liveness under fairness is beyond the
provers. The orders of the simulator come from sorting and from sums over keys, which the provers can only reach by induction over data.

## Not modelled

- I/O on sockets, configuration, time measurement and memory management, the memory pools included.
- Code that the build leaves out: `old_hot_period.cpp`, `ORIG_MODE`, the original switch program `dumb_p4db_3.p4`.
- `InitHandler`: it runs once, before any other message, and keeps no state that a later step uses.
- The exit of a node while the control plane serves others: its assertion on the length of a request then stops the program,
  and no property of the allocation can hold after that.
- The generator of traces, and the programs of `mine/` that only print statistics of a trace. The adversarial trace of the simulator
  names a key twice in a transaction, which its checker reports as a cycle.
- Wrap-around of `mini_batch_id` after 2^27 mini-batches.
- The limit of 400000 cycles of `nobatch_system_test.cpp`, after which it stops without its last answers.
- Packets on their way between a node and the switch when a block changes hands.

`Executor` takes the queues that `sched_batch` fills as the constant `Sched`: its theorems hold for any filling in which a transaction of a
batch is once (`SchedAssumption`), and only `ExactlyOnce` uses that.
