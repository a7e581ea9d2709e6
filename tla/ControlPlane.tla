---------------------------- MODULE ControlPlane ----------------------------
(***************************************************************************)
(* The allocation of switch register blocks to tenants: the single-threaded *)
(* loop of switch_src/01_control_plane/sched.cpp with the state of          *)
(* handle.cpp, and the leader thread of every node that talks to it         *)
(* (ee/sched_intf.cpp): update_alloc gives the tenant's block back and asks *)
(* for the next one, wait_sched_ready blocks until the tenant may use it.   *)
(*                                                                         *)
(* chan[n] is the TCP stream from the control plane to node n: responses    *)
(* (8 bytes) and ready messages (4 bytes), which the node tells apart only  *)
(* by where it is.  Of run_hot_period only the time between the ready       *)
(* message and the last wait_nodes is kept.                                 *)
(***************************************************************************)
EXTENDS Naturals, Sequences, FiniteSets

CONSTANTS
  Nodes, Tenants, tenant,    \* leader threads, and the tenant each belongs to
  N_BLOCKS, NO_BLOCK,
  START_DELAY, DURATION,     \* COLD_BATCH_DUR_EST_NS, HOT_BATCH_DUR_EST_NS
  N_BATCHES,                 \* batches that every tenant runs
  MAX_TS                     \* bound on the clock

Blocks == 0 .. N_BLOCKS - 1
Peers(t) == {n \in Nodes : tenant[n] = t}

ASSUME ControlPlaneAssumption ==
  /\ IsFiniteSet(Nodes) /\ tenant \in [Nodes -> Tenants]
  /\ N_BLOCKS \in Nat \ {0} /\ NO_BLOCK \notin Blocks
  /\ START_DELAY \in Nat /\ DURATION \in Nat
  /\ N_BATCHES \in Nat \ {0} /\ MAX_TS \in Nat

VARIABLES
  blocks,          \* blocks_sorted: block -> est_finish_ts
  block_queue,     \* block -> tenants in order of allocation
  n_waiting,       \* tenant_req[t].n_waiting
  to_notify,
  cached,          \* tenant_info[t].cached: [batch_num, alloced_blk_id]
  n_cached_uses,
  sock_fds,        \* tenant -> nodes it has been heard from
  now,             \* the clock when it was last read
  req,             \* node -> requests on their way to the control plane
  chan,            \* node -> messages on their way to the node
  pc, batch, block_num

handle == <<blocks, block_queue, n_waiting, to_notify>>
info == <<cached, n_cached_uses, sock_fds>>
vars == <<handle, info, now, req, chan, pc, batch, block_num>>

Init ==
  /\ blocks = [b \in Blocks |-> 0]
  /\ block_queue = [b \in Blocks |-> <<>>]
  /\ n_waiting = [t \in Tenants |-> 0]
  /\ to_notify = {}
  /\ cached = [t \in Tenants |-> [batch_num |-> 0, alloced_blk_id |-> 0]]
  /\ n_cached_uses = [t \in Tenants |-> 0]
  /\ sock_fds = [t \in Tenants |-> {}]
  /\ now = 0
  /\ req = [n \in Nodes |-> <<>>]
  /\ chan = [n \in Nodes |-> <<>>]
  /\ pc = [n \in Nodes |-> "alloc"]
  /\ batch = [n \in Nodes |-> 0]
  /\ block_num = [n \in Nodes |-> NO_BLOCK]

-----------------------------------------------------------------------------
(* The node's side.                                                         *)

\* update_alloc, up to its recv.
SendAlloc(n) ==
  /\ pc[n] = "alloc"
  /\ req' = [req EXCEPT ![n] = Append(@, [batch_num |-> 1 + batch[n], blk_to_free |-> block_num[n]])]
  /\ pc' = [pc EXCEPT ![n] = "recv"]
  /\ UNCHANGED <<handle, info, now, chan, batch, block_num>>

\* The rest of update_alloc; the last one is for a batch that never comes.
RecvAlloc(n) ==
  /\ pc[n] = "recv" /\ chan[n] # <<>>
  /\ block_num' = [block_num EXCEPT ![n] = Head(chan[n]).alloced_blk_id]
  /\ chan' = [chan EXCEPT ![n] = Tail(@)]
  /\ pc' = [pc EXCEPT ![n] = IF batch[n] < N_BATCHES THEN "wait" ELSE "done"]
  /\ UNCHANGED <<handle, info, now, req, batch>>

\* wait_sched_ready.
WaitReady(n) ==
  /\ pc[n] = "wait" /\ chan[n] # <<>>
  /\ chan' = [chan EXCEPT ![n] = Tail(@)]
  /\ pc' = [pc EXCEPT ![n] = "hot"]
  /\ UNCHANGED <<handle, info, now, req, batch, block_num>>

\* run_hot_period has sent its last packets and enters its last wait_nodes.
EndHot(n) ==
  /\ pc[n] = "hot"
  /\ pc' = [pc EXCEPT ![n] = "end"]
  /\ UNCHANGED <<handle, info, now, req, chan, batch, block_num>>

\* Mutant: a node that skips its last wait_nodes.
MutNoWait(n) == pc[n] = "end"

\* That wait_nodes returns once every node of the tenant has entered it.
HotOver(n) ==
  /\ pc[n] = "end"
  /\ \A m \in Peers(tenant[n]) : batch[m] > batch[n] \/ pc[m] = "end"

LeaveHot(n) ==
  /\ HotOver(n)
  /\ pc' = [pc EXCEPT ![n] = "alloc"]
  /\ batch' = [batch EXCEPT ![n] = @ + 1]
  /\ UNCHANGED <<handle, info, now, req, chan, block_num>>

-----------------------------------------------------------------------------
(* The control plane's side.                                                *)

\* blk_meta_cmp_t on (est_finish_ts, blk_id).
Before(ts1, b1, ts2, b2) == ts1 < ts2 \/ (ts1 = ts2 /\ b1 < b2)

\* The block handle_alloc finds: the last one before upper_bound(start, 0), or
\* the first of all.
Found(b, start) ==
  LET early == {c \in Blocks : ~Before(start, 0, blocks[c], c)}
  IN  IF early = {}
      THEN \A c \in Blocks \ {b} : Before(blocks[b], b, blocks[c], c)
      ELSE b \in early /\ \A c \in early \ {b} : Before(blocks[c], c, blocks[b], b)

\* The new est_finish_ts of a block allocated for a start time.
Finish(b, start) ==
  start + DURATION + (IF blocks[b] >= start THEN blocks[b] - start ELSE 0)

\* handle.cpp's queues and notifications, as one value.
Handle == [queue |-> block_queue, waiting |-> n_waiting, notify |-> to_notify]

\* Mutant: handle_free that leaves the next tenant of the block waiting.
MutNoHandOver(h, b) == [h EXCEPT !.queue[b] = Tail(@)]

\* handle_free: the next tenant of the block, if any, is ready.
handle_free(h, b) ==
  LET q == Tail(h.queue[b])
      next == Head(q)
      left == h.waiting[next] - 1
  IN  IF q = <<>> THEN [h EXCEPT !.queue[b] = q]
      ELSE [queue   |-> [h.queue EXCEPT ![b] = q],
            waiting |-> [h.waiting EXCEPT ![next] = left],
            notify  |-> IF left = 0 THEN h.notify \cup {next} ELSE h.notify]

\* handle_alloc of block b: behind the tenants that have it, or ready at once.
handle_alloc(h, t, b) ==
  [queue   |-> [h.queue EXCEPT ![b] = Append(@, t)],
   waiting |-> IF h.queue[b] # <<>> THEN [h.waiting EXCEPT ![t] = 1] ELSE h.waiting,
   notify  |-> IF h.queue[b] # <<>> THEN h.notify ELSE h.notify \cup {t}]

\* Mutant: ready messages sent before every node of the tenant has its response.
MutEager(u, socks, uses) == socks[u] # {}

\* Every node of the tenant has connected and has been answered.
AllAnswered(u, socks, uses) ==
  /\ Cardinality(socks[u]) = Cardinality(Peers(u))
  /\ uses[u] = Cardinality(Peers(u))

\* The end of the loop body: answer node n, then send ready messages to the
\* tenants of notify whose nodes are all answered.
Respond(n, resp, uses, notify) ==
  LET t == tenant[n]
      socks == [sock_fds EXCEPT ![t] = @ \cup {n}]
      ready == IF Cardinality(socks[t]) = Cardinality(Peers(t))
               THEN {u \in notify : AllAnswered(u, socks, uses)} ELSE {}
      sent == [chan EXCEPT ![n] = Append(@, resp)]
  IN  /\ sock_fds' = socks
      /\ n_cached_uses' = uses
      /\ to_notify' = notify \ ready
      /\ chan' = [m \in Nodes |->
                   IF tenant[m] \in ready /\ m \in socks[tenant[m]]
                   THEN Append(sent[m], [alloced_blk_id |-> NO_BLOCK]) ELSE sent[m]]
      /\ req' = [req EXCEPT ![n] = Tail(@)]
      /\ UNCHANGED <<pc, batch, block_num>>

\* Mutant: a control plane that takes every request for a new batch.
MutAlwaysNew(n) == TRUE

\* The first request of a tenant for a batch.
IsNewBatch(n) == cached[tenant[n]].batch_num # Head(req[n]).batch_num

\* It frees the old block and allocates a new one.
AnswerNew(n) ==
  LET t == tenant[n]
      r == Head(req[n])
      h == IF r.blk_to_free # NO_BLOCK THEN handle_free(Handle, r.blk_to_free) ELSE Handle
  IN  /\ req[n] # <<>> /\ IsNewBatch(n)
      /\ \E ts \in now .. MAX_TS, b \in Blocks :
           /\ Found(b, ts + START_DELAY)
           /\ now' = ts
           /\ blocks' = [blocks EXCEPT ![b] = Finish(b, ts + START_DELAY)]
           /\ block_queue' = handle_alloc(h, t, b).queue
           /\ n_waiting' = handle_alloc(h, t, b).waiting
           /\ cached' = [cached EXCEPT ![t] = [batch_num |-> r.batch_num, alloced_blk_id |-> b]]
           /\ Respond(n, cached'[t], [n_cached_uses EXCEPT ![t] = 1], handle_alloc(h, t, b).notify)

\* The others get the same block.
AnswerCached(n) ==
  LET t == tenant[n]
  IN  /\ req[n] # <<>> /\ ~IsNewBatch(n)
      /\ Respond(n, cached[t], [n_cached_uses EXCEPT ![t] = @ + 1], to_notify)
      /\ UNCHANGED <<blocks, block_queue, n_waiting, cached, now>>

-----------------------------------------------------------------------------
NodeStep(n) ==
  SendAlloc(n) \/ RecvAlloc(n) \/ WaitReady(n) \/ EndHot(n) \/ LeaveHot(n)

Answer(n) == AnswerNew(n) \/ AnswerCached(n)

\* Every node has run all its batches.
Terminated == (\A n \in Nodes : pc[n] = "done") /\ UNCHANGED vars

Next == (\E n \in Nodes : NodeStep(n) \/ Answer(n)) \/ Terminated

Spec == Init /\ [][Next]_vars

\* Threads and the control plane's loop are scheduled; epoll_wait returns every
\* socket that has a request.
FairSpec == Spec /\ \A n \in Nodes : WF_vars(NodeStep(n)) /\ WF_vars(Answer(n))

-----------------------------------------------------------------------------
Response == [batch_num : 0 .. N_BATCHES + 1, alloced_blk_id : Blocks]
Ready == [alloced_blk_id : {NO_BLOCK}]

\* Node n sends packets for its block.
Hot(n) == pc[n] = "hot"

\* No two tenants are in a hot period on the same block, although block_queue
\* hands a block from one tenant to the next while the nodes of both are running,
\* and all the nodes of a tenant are on the same one.
BlockExclusive ==
  \A n, m \in Nodes : Hot(n) /\ Hot(m) =>
    (tenant[n] = tenant[m] <=> block_num[n] = block_num[m])

\* update_alloc reads the response to its own request (the assert on batch_num)
\* and wait_sched_ready a ready message: neither takes the other's bytes from the
\* stream.
Framed ==
  \A n \in Nodes : chan[n] # <<>> =>
    /\ pc[n] = "recv" => Head(chan[n]) \in Response /\ Head(chan[n]).batch_num = 1 + batch[n]
    /\ pc[n] = "wait" => Head(chan[n]) \in Ready

\* The asserts of handle_free and handle_alloc: a tenant that frees a block is at
\* the front of its queue, and one that asks for a block is not waiting for one.
HandleAsserts ==
  \A n \in Nodes : req[n] # <<>> /\ IsNewBatch(n) =>
    LET b == Head(req[n]).blk_to_free
    IN  /\ n_waiting[tenant[n]] = 0
        /\ b # NO_BLOCK => block_queue[b] # <<>> /\ Head(block_queue[b]) = tenant[n]

\* A tenant that has finished still has the block that node n waits for.
HeldByFinished(n) ==
  pc[n] = "wait" /\ \E t \in Tenants \ {tenant[n]} :
    /\ \A m \in Peers(t) : pc[m] = "done"
    /\ Head(block_queue[block_num[n]]) = t

\* A node that waits for its block gets to use it, unless a tenant that has run
\* all its batches is in front of it.
Served == \A n \in Nodes : pc[n] = "wait" ~> pc[n] = "hot" \/ HeldByFinished(n)
=============================================================================
