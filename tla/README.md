# A verification of DiSpec

DiSpec is an inference engine for language models: a paged KV cache, continuous
batching, prefix caching, speculative decoding, prefill/decode disaggregation, KV transfer
between models and an HTTP server. This directory models the control logic of `src/dispec/` in
TLA+, and the tensor code as far as indices, order and exact arithmetic go; TLC checks it and
TLAPS proves part of it. Line numbers are those of the source
files; `PROJECT.json` maps every definition to the lines it stands for.

Contents: [the system](#the-system), [modules](#modules-and-how-they-correspond-to-the-code),
[runs](#what-the-runs-check), [fairness](#fairness), [proofs](#what-is-proved),
[disagreements](#where-the-code-and-its-documentation-disagree),
[limits](#what-is-not-modelled), [plan](#plan).

## The system

| Component (source) | State | Operations | Talks to |
|---|---|---|---|
| Block allocator (`kv/block_manager.py`) | free list, reference counts, a block table and a token count per sequence | allocate, append_token, reserve, fork, truncate, free, add_ref, release | called by every engine and by the prefix cache |
| KV tensors (`kv/paged_cache.py`) | what each slot of each block holds | write, gather, import/export_contiguous | written and read through a table's slots |
| Prefix cache (`kv/prefix_cache.py`) | nodes: hash of a prefix -> block, last use; a clock | match, insert, evict | pins blocks with add_ref, unpins with release |
| Single-sequence engine (`engine/engine.py`) | the locals of one call | generate | allocator, prefix cache, KV |
| Continuous batching (`sched/scheduler.py`) | requests in waiting, prefilling, running, finished | add_request, step | allocator, KV; driven by the server |
| Server (`router/server.py`) | lock, pending table, stop flag | generate, generate_stream, stop, the thread `_run` with `_reap` and `_push_delta` | engine by calls under the lock, event loop by call_soon_threadsafe |
| Autoscaler (`router/autoscale.py`) | replica count | observe | called by the server's thread after a step |
| Speculative engine (`spec/speculative.py`) | two allocators and caches, the carried distributions | generate | rejection sampling |
| Rejection sampling (`spec/rejection.py`) | none | rejection_sample | random draws |
| Disaggregation (`workers/disaggregated.py`) | two worker processes, three queues | submit, collect, shutdown, the two worker loops | transport |
| Transports (`transport/cuda_ipc.py`, `transport/tcp.py`) | retained tensors; a socket | send, recv, close | the workers |
| Model runner (`engine/model_runner.py`) | none between two calls | forward: projections, rotation, write, attention per sequence | reads and writes the KV tensors; called by every engine |
| Triton kernels (`engine/triton_attn.py`) | running maximum, sum and accumulator | batched paged decode | called by the model runner |
| CUDA graphs (`engine/cuda_graph.py`) | static inputs per bucket | capture, decode | called by the single-sequence engine |
| Sampling (`sampling.py`) | none | logits to probabilities, sample | called by every engine |
| KV transfer (`kv/transfer.py`) | a loaded map | load, validate, map | called by escalation |
| Escalation (`workers/escalation.py`) | the source's blocks during a call | prefill_and_map, escalate | source allocator and runner, KV transfer, the target's scheduler |
| Not modelled | | configuration, loading of models, HTTP routing, metrics, dashboard | |

What is hard in it:

- **Long sequences of allocator calls.** Blocks are shared by prefix caching, dropped by
  roll-back, pinned and unpinned. A reference lost or kept too long shows many calls
  later, as another sequence's KV or as a leak.
- **step() is long.** It decodes, admits, imports, prefills in chunks, forwards, samples
  and retires in one pass over mutable queues; an exception leaves it in the middle.
  Lists built in two different loops must agree row by row.
- **Two threads and a lock** in the server: handlers block the event loop on the lock
  the engine thread holds, results come back as queued callbacks, stop() joins the
  thread from the loop.
- **Two caches kept in step** by speculative decoding, which hold a different number of
  drafted tokens and are rolled back by different amounts. An error of one has no
  symptom but worse text.
- **Two processes, three queues and join timeouts** in disaggregation, where the memory
  behind a message dies with its sender.
- **Indices that nothing checks.** A flat batch of rows of several requests, a padded slot table,
  a mask that lives longer than a call, tiles of a context, a design row concatenated over
  layers and heads: off by one or in another order, each gives plausible numbers and no error.
- **A byte stream** that delivers pieces of any size and may end anywhere.

`PROJECT.json` lists these as 40 hazards, each at its line with the properties that
watch it.

## Modules and how they correspond to the code

```
module          rests on                                              theorems in
BlockManager    implements BlockPool                                  BlockManagerProofs
Selection       (which entries of a list, in order)                   ListLemmas
ModelRunner                                                           ListLemmas
Scheduler       BlockManager, ModelRunner, Selection; implements Engine   SchedulerProofs
CudaGraph       ModelRunner, Selection
PrefixCache     BlockManager, Selection
LLMEngine       PrefixCache, CudaGraph                                LLMEngineProofs
Autoscaler                                                            ServerProofs
Server          Autoscaler; uses Engine                               ServerProofs
Sampling                                                              RejectionProofs
Rejection       Sampling                                              RejectionProofs
Speculative     BlockManager twice, Rejection; implements TargetDecoding   SpeculativeProofs
Disaggregated   Selection                                             WorkersProofs
TcpTransport                                                          WorkersProofs
Transformer     ModelRunner, PagedAttention, KVTransfer               WorkersProofs
KVTransfer                                                            WorkersProofs
DenseModel      Transformer (reference)
Escalation      BlockManager, DenseModel                              WorkersProofs
```

Each `MC*` module extends the module it is named after and defines values for its
constants. Definitions that a comment calls a mutant are plausible bugs; no
specification uses them. They show that a property can fail.

**Selection** is a comprehension that keeps some entries of a list: `Selected` has them in their order and
`Before` counts those before an entry, by positions instead of by recursion, so that it can be reasoned about.

**BlockManager.** `live`, `blockIds`, `numTokens` are the tables, `free`, `refCount` the
pool, `pins` a ghost that counts the explicit references (add_ref less release). One
action per method: `Allocate`, `AppendToken`, `Reserve`, `Fork`, `Truncate`, `Free`,
`AddRef`, `Release`; `SetNumTokens` is the scheduler's direct assignment to
`num_tokens`. `AllocateFails` and `AppendFails` say when a method raises
OutOfBlocksError; a raising `allocate` has no effect because line 78 tests before it
takes anything. The free list is a set, so that nothing depends on which free block is
popped. The inputs are what the callers in `src/` pass: reused blocks are held by
somebody and are as many as the prefix fills, a fork's child is fresh, a truncation
shortens.

**BlockPool** is the abstract allocator: sequences hold sets of blocks, and the available
blocks are exactly those nobody holds. It has no counts. `ImplementsPool` says the
counting allocator implements it.

**Scheduler** extends BlockManager. `state`, `prefillPos`, `outLen`, `req`, `prefix` are
the fields of a Request; the four queues are those of the engine; `batch`, `rows`,
`lastIdx`, `budget`, `todo` are locals of step(). step() is cut into micro-steps, one
per allocator call: `StartStep`, `Decode` or `DecodeRaises` per running request,
`QueuePrefills` (the sorted list is fixed here), then per candidate `Admit` or
`AdmitFails`, `Import`, `Chunk`, and `EndPrefill`, `Forward`, `Sample`, `Retire`. `kv`
says for each slot which token of which request was written to it, so a property can
speak of what a forward pass reads; which slots a row reads is said by ModelRunner. Whether a token ends the sequence is
nondeterministic.

**Engine** is what the scheduler promises to the server: rounds of tokens in which every
emitting request takes part, limits that hold, and progress. `KeepsPromise` is
the refinement, liveness included. The server is checked over Engine, not over
Scheduler, which keeps both state spaces small.

**PrefixCache** extends BlockManager with `nodes` (in the dict's order, which breaks ties
in evict) and `clock`. `Match`, `Insert`, `Evict` are the methods; keys are token
prefixes, so hashes are taken to be free of collisions. **LLMEngine** extends it with
one call of generate at a time: `Generate` (match, allocate, adopt) or `GenerateFails`,
`Prefill`, one `InsertBlock` per block, `Sample`, `Decode` or `DecodeRaises`,
`Finally`; `StartEvict` and `EvictBlock` between the calls. A forward, a replay and the sampling may also raise
(`PrefillRaises`, `StepRaises`, `SampleRaises`), a forward before it wrote or with slots left that hold the KV of no
token (`Spoilt`); every one of them ends in `Finally`. The KV of a token is the
token prefix it was computed from. The calls decode one token by a replayed graph when a bucket fits.

**ModelRunner** is the layout of a flat batch: row offsets, the padded slot table, gathering a
context or taking the rows just projected, and the causal mask that is aligned with the last
key. `RowContext` says what a row attends to on either backend. It has no state, and Scheduler,
LLMEngine and Transformer supply what the slots hold. **CudaGraph** adds the replay of a captured graph: the
smallest bucket that fits, the window, and the mask that outlives the replay (`mask`).

**PagedAttention** has the softmax of a whole context and the Triton kernel that walks it in
tiles with a running maximum, in integers. **Transformer** is ModelRunner.forward one layer at a time with
numbers: fused or separate projections, rotation, the write into the cache, and attention
with grouped heads. The weights are constant operators. **KVTransfer** is `kv/transfer.py`:
rotary tables in quarter turns, stripping and restoring, the design row, the map with its
factors and residual, what `load` refuses, and what makes a product fail. **DenseModel** models no
code. It says what a forward and a map are to compute, without pages, batches, kernels or factors.

**Escalation** extends BlockManager and those: `LoadMap`, `Call` and `ForwardSource`, layer by layer,
or `ForwardRaises`; `MapAndFree` or `MapRaisesAndFrees`; `Escalate`; and the target as far as the first token,
`AddRequest`, `Admit`, `ForwardTarget`, with a batch of escalated and plain requests. A member of `Pairs` is what
a caller passes: the files of a map, the arguments of load, `use_residual` and the target.

**Sampling** is the way from logits to a distribution: greedy, temperature, top-k, then top-p. Temperatures
are such that weights are powers of two, so everything is exact, and ties in a sort are open.

**Server** has the event loop (`loopPc`), the thread (`threadPc`), the lock, the pending
table, the callbacks queued on the loop (`ready`) and the clients. A handler's path is
`BeginSubmit`, `Acquire`, `AddRequest`, `Register`, then `RunCallback` or `Cancel`; the
thread's is `CheckStop`, `Lock`, then `Idle` and `Wake`, or `StepEmits`/`StepQuiet`/
`StepRaises`, `ReapRunning` (which begins with the autoscaler's observation), `ReapFinished`, `Unlock`; `Stop`, `JoinReturns`
and `Close` are the shutdown. `Text` is what the tokenizer's decode does as far as deltas
depend on it: special tokens vanish, a character of two tokens is the replacement
character until its second token is there; `Frames` is what the HTTP handlers send for an event.

**Autoscaler** is `observe`, with utilisation in tenths and divisions multiplied out. The server
calls it with the number of its running requests; a specification of its own, fed with any load, serves the proofs.

**Speculative** has two instances of BlockManager, the KV of both models, the carried
distributions `pNext` and `qNext` (named by their context) and an instance of
Rejection for the acceptance loop. Its actions follow generate: allocate, prefill,
`DraftFirst`, `DraftMore`, `Verify`, `Reject`, then `RollTarget`, `FixTarget`,
`RollDraft`, `FixDraft`, `Emit`, the two raising forward passes and the two frees of
the finally blocks. **TargetDecoding** is generation by the target alone, one token at a
time; `DecodesAsTarget` is the refinement. **Rejection** extends Sampling: its distributions are
those of the logits of draft and target under one set of parameters, brought to a common sum.

**Disaggregated** has the three queues, the loops of both workers including their deaths,
the parent, and the set `inflight` of payloads the prefill worker retains: a handle is
usable while its payload is retained and its process is alive (`HandleMapped`).

**TcpTransport** has the bytes of a stream: those the sender still has to hand over, those under
way and the receiver's buffer; `Ask` and `Receive` are one `recv` call of any size.

## What the runs check

Ten runs pass, two end in a violation that is a finding. Deadlock checking is off where
the program really may stop: when all requests, calls or messages of the instance are
used up, after a raised exception, or after a shutdown.

| Run | Instance | What it shows |
|---|---|---|
| `allocator` | 3 sequences, 3 blocks of 2 tokens, counts 0..3, one pin per block; symmetric | Every order of calls keeps `BMInv`: the free list is the unreferenced blocks (`Partition`), counts are exact (`RefExact`), tables have no repetition and room for all stored tokens (`Capacity`). Nothing leaks, no stored token moves, and the allocator implements BlockPool, in which a sequence grows by unused blocks only |
| `scheduler` | 3 requests, prompts of 1 and 3, limits 0 and 3, two priorities, an imported prefix of 2; 3 blocks of 2; batch and chunk of 2 tokens | `SchedInv`: queues, states and tables agree at every point of step(), requests share no block, the budget holds and running requests always fit in the batch. On both attention backends every row attends to its own request's tokens up to itself, whatever else is in the batch; rows go to the request they belong to; admission is in order |
| `scheduler_live` | 3 requests of 3 tokens, limits 0 and 3, two priorities, two blocks of 3 | Implements Engine, calls the allocator as its clients must, finishes every request unless a step raised |
| `scheduler_raise` | as `scheduler`, 4 blocks | violation: step() raises on an empty pool |
| `prefix_cache` | 3 calls, 5 prompts that share blocks, 3 blocks of 2, graphs of 3 and 5 slots, evictions in between, raising forwards, replays and samplings | Pins are exact, positions agree and the last prompt token is always computed (`CacheInv`). Adopted blocks hold the KV of the prefix, every step, replayed or not, attends to exactly its context, the allocator is called as its clients must, and a call leaves nothing behind however it ends |
| `server` | 2 requests, one a stream, limits 1 and 2, tokens with and without text, a pool of 1 or 2 replicas | `ServerInv`: the lock is held by whoever is inside it, and outside it the pending table has exactly the requests that are owed an answer. Each handler gets its own answer, once, complete and in order; the draft pool does not flap; awaits return; stop() ends the thread |
| `server_stream` | the same with two-token characters and a limit of 4 | violation: `decoded` is not what was streamed |
| `rejection` | 3 tokens, 4 rows of logits with and without ties, greedy or sharpened by 1 or 2, top-k of 0, 1 and 2, top-p of 4/7 and 1; 2 drafted tokens | What can be drawn is exactly the nucleus asked for; the acceptance test is lossless and emits only what the target can at that position |
| `speculative` | 2 calls, 3 tokens, K = 2, blocks of 3, pools of 3 blocks, prompts that fit, run out, and never fit | After every roll-back both caches hold the confirmed context exactly (`SpecInv`); every token is tested at its own position; the output is one of the target's; nothing is left behind after exceptions |
| `disaggregated` | 4 requests, two blocks of 2: one prompt does not fit, one runs out while decoding, two are served | Order kept, nothing lost or doubled; each token is fed at the slot it is stored at and an import always fits (`DisaggInv`); answered unless a worker died or a shutdown began; workers always end |
| `tcp` | 3 messages (bodies of 3, 0 and 4), headers of 2, recv of at most 2 | Whole messages in order, framing never lost (`TransportInv`); each message arrives or the peer closed, and no hang on a closed peer |
| `escalation` | 10 pairs of map and target (the identity on two targets, a low-rank map over both layers with residuals, the same used without residuals that could not be applied, a map to a smaller model, one whose factors do not fit, four that are refused), 4 prompts of 1 to 3 tokens, 2 calls, a batch of 2, 3 source blocks of 2, tiles of 2 | Only a raising forward leaves blocks behind (`EscalationInv`). A map that passes validation yields KV the target takes; what arrives is the map of the prompt's own content; the first token is computed from it and the last prompt token, in any batch and on either backend, and the identity map changes nothing |

Why the bounds are enough. Three sequences are the least with which a block is shared
by two and wanted by a third; three blocks let one be free, one shared and one
exhausted. Blocks of two tokens have a full and a half-full state, which is all that `%`
and `//` distinguish; blocks of three in `speculative` and `scheduler_live` make roll-backs cross
a boundary in either direction. A chunk and a batch of two cut a three-token prompt in
two and make decodes compete with chunks. K = 2 is the least with an accepted token
that is followed by a rejected one; K = 1 and K = 3 were checked too. In the server
two requests are enough for one to be reaped while the other runs or submits. Three tokens
are the least with which a nucleus of two leaves one out, and 4/7 is the weight of the best token when
the logits are 2, 1, 0, so that the cumulative sum meets top-p exactly. A tile of 2 is passed by a context of 3, and a
precision of 14 keeps all weights of the instance exact. Graphs of 3 and 5 slots let a call go from one bucket to the next
and past the last. Models of two layers, two KV heads and two dimensions tell apart
any two of them that are exchanged. Bounds that the code does not have: `MaxPins` in BlockManager (the prefix
cache never exceeds 1, `CachePinsItsBlocks`), `Calls` in Speculative, `Seqs` as the
request ids of Scheduler and the call numbers of LLMEngine, `Messages` in TcpTransport,
`MaxCalls`, `MaxBatch` and `TableWidth` in Escalation.

Every action of every next-state relation fires in a passing run. A run checks the invariants of a component as one conjunction of named parts, the
candidate for its inductive invariant, and beside it the properties that speak of
several steps or several actors. For every property
of a passing run `PROJECT.json` names a mutated definition with which TLC finds it violated.

## Fairness

- Scheduler: `WF(Step)`. run_until_done and the server's loop call step() as long as
  has_work() holds, and a step runs to its end. Adding requests is not fair.
- Engine: `WF(SomeRound)`; it is implied by the scheduler's fairness (`KeepsPromise`).
- Server: `WF` of the thread and of the event loop, which run; clients are not fair. The
  lock is a `threading.Lock`, which is not fair: a thread that releases and takes it again
  may win for ever. So the handler is only promised the lock if the thread is asleep
  outside it again and again (line 107, 3 ms): `SF(Acquire /\ threadPc = "sleep")`. A busy engine
  gets there because it finishes: `SF(StepEmits)`, which Engine's fairness gives. With a stream of
  requests that never ends the code promises a waiting handler nothing.
- Disaggregated: `WF` of each worker, of join (it has a timeout) and of the parent's
  collect. Submitting and shutting down are not fair.
- TcpTransport: `WF` of the sender's sendall and of the receiver.

## What is proved

TLAPS checks, for all values of the constants that satisfy the ASSUMEs:

`BlockManagerProofs`, for any sets of sequences and blocks (infinite ones too), any
block size of at least 1, any set of naturals as token counts:

- `AllocatorSafe`: `BMInv` is an invariant.
- `ReferencesExact`, `NothingLeaks`: the properties `RefExact` and `NoLeak`.
- `SlotsFixed`: no operation moves a token that stays stored (`StoredSlotsFixed`).
- `GrowthTakesUnusedBlocks`: a live sequence grows by unused blocks only.
- `AllocatorRefinesPool`: the allocator implements BlockPool (`ImplementsPool`).

The invariant is `BMInv == BMTypeOK /\ Partition /\ RefExact /\ TableInjective /\
Capacity`. None of the parts is inductive alone. That free blocks are unreferenced
needs exact counts: free returns a block when its count reaches zero, so the count must be that
of its holders. Exact counts need tables without repetition: one pass over a table
takes one reference per entry, which is one per holder only if no block is listed
twice. Tables stay without repetition because a block taken from the free list is in
no table, which is `Partition` with `RefExact` again. `Capacity` rests on arithmetic
of blocks (`BlocksCover`, `RoomInLastBlock`, `BlocksMonotone`) and is what makes the slot of every
stored token exist. The proof has two central lemmas, `ExtendInv` and
`ShrinkInv`, since every operation either extends a table by reused and fresh blocks
or drops references; then one lemma per operation. Cardinalities of
holder sets change by one (`OneMore`, `OneLess`), from the library's facts on finite
sets. The refinement maps `holds` to the set of a table and `avail` to the free
list, and each operation to the pool's Start, Grow, Shrink, Pin or Unpin step or to a stutter.

`SchedulerProofs`, for any set of requests (`RequestIds`), prompt lengths, priorities, pool, budgets and
block size: the whole of step(), with raising decodes and imported prefixes.

- `EngineInductive`: `SchedIInv` is an invariant; the others follow from it.
- `EngineConsistent`: `SchedInv`, queues, tables and reservations agree in every micro-step.
- `EngineUsesAllocator`: every step is a step of `BMSpec` or leaves the allocator alone, so the theorems on the
  allocator hold in the engine.
- `RowsToTheirRequests`, `RowsAttendOwnContext`: `NoCrossSequenceLeakage` and `AttendsOwnContext`.
- `AdmissionInOrder`: `AdmittedInOrder`.
- `PromiseSafety`: initial states and steps of `KeepsPromise`, the refinement of Engine.

`SchedIInv` adds to `SchedInv` what step() keeps in its locals. `Queues`: each queue holds the requests in its
state, once. `Visits`: what the loops have left is in the queues they iterate over, and waiting
requests are left in the order of the sort. `Budgets`: rows and running requests share the
budget. `Entered` and `Lengths`: the entries of the batch are different requests, and how many tokens each
has at that point. `RowsLaidOut`: the rows of the i-th entry stand together at `RowStart` and are the last
tokens of its context. `LastRows`: last_idx has the last of them for each entry that samples, which needs the count
of such entries before it. `Stocked`: every token a table counts is in the cache, is a row not written yet, or
belongs to the import under way. Each is needed by another one: that a row attends to its own context
is `Stocked` for the slots before it and `RowsLaidOut` for those of its own batch; `Stocked` survives
the writes of others because tables share no block (`RequestsIsolated`), which rests on `BMInv`; and the
budget keeps the last chunk from overlapping the decodes. The proofs stand on
the layout of a batch: `RowStart` is a recursive function, and what `RowStartNext` and `RowStartAgrees`
say of it is proved by induction on sets of naturals.

`LLMEngineProofs`, for any prompts, number of calls, pool, block size, graphs and evictions:

- `CallsInductive`: `CallIInv` is an invariant.
- `CallsUseAllocator`, `CacheConsistent`, `CallsRelease`: `UsesAllocator`, `CacheInv`, `CallsLeaveNothing`.
- `CachedKVStays`: `CachedBlocksKeepTheirKV`.
- `RowsAttendOwnContext`: `AttendsOwnContext`, by attention or by a replayed graph.

Two facts carry `CallIInv`. `NodesApart`: no key and no block is in the dict twice, and the pins are
exactly one for each node, so that an eviction releases what an insertion took. `TableCached`:
a block of the current table that is cached is a full block of the prompt, cached under the prefix the
prompt has there, and adopted if the prompt is not stored yet. A call therefore writes behind its adopted prefix
into blocks that no node names, and what it inserts is stored (`Stocked`): that is why cached blocks keep their KV, when a forward raises too:
what it spoils are slots of tokens that are not stored yet, and none of them is cached (`PrefillRaisesKeeps`, `StepRaisesKeeps`). The mask of a
graph that was just replayed is the whole context (`Masked`), whatever an earlier call left in it.

`ServerProofs`, for any finite set of requests (`LoadsCoverRequests`), limits, kinds of tokens and streams:

- `LockProtectsPending`: `ServerInv`. The table and the engine disagree inside the lock: a request is in
  the engine before it is registered, and finished before it is reaped. `ServerIInv` says exactly how
  (`PendingExact`): the table is what is owed and what is finished, less the request being registered. With `LockHeld` that
  excludes the thread from the lock while a handler registers. It is preserved whether clients leave,
  step() raises or the loop closes under the thread.
- `AnsweredAtMostOnce`: `AnsweredOnce`. The frames of a request are those it was sent and those of the callbacks still
  queued, so that the invariant (`AnswerIInv`) speaks of both: they end at most once and at the end (`AnswersEnd`),
  and have not ended while the request is pending or did not reach the engine (`AnswersOpen`). Taking an
  entry out of the table with the last events of its request is what keeps it; that nobody who is pending is at the lock
  again (`Waiting`) keeps the next registration from opening an answer that ended. A client that left takes no frames,
  and dropping some keeps the rest in order.
- `AnswersAreOutputs`: `AnswerIsOutput`, if every token of a stream stands for itself (`TokensStandAlone`: whole characters and
  special tokens, or no streams at all). The invariant (`OutputIInv`) follows the text from the engine to the client: what is decoded is
  continued by what the engine has (`DecodedContinues`), what a pending client has or finds in the queue is what is decoded
  (`Streamed`), so that the last delta completes it, and an answer that ended is the output of a request that is done
  and emits no more (`EndedIsWhole`, `FinishedAreDone`). The assumption is needed: for characters of two tokens
  `DecodedContinues` fails, and the claim with it (see `DecodedIsStreamed` below).
- `ReplicasInRange` and `PoolDoesNotFlap` of the autoscaler alone, for any limits, replica sizes and loads, and any
  thresholds with `2 * down <= up`. The latter needs the width
  of the band: after growing from r to r + 1 >= 2 replicas under a load n > up * r, a
  shrink would need n < down * (r + 1) <= 2 * down * r, a contradiction (`BandHolds`). The invariant
  remembers in which direction the pool last moved under the present load and what that
  says about it (`GrewFor`, `ShrankFor`). The defaults 0.8 and 0.4 are exactly at this bound.
- `ServerPoolDoesNotFlap`: `NoFlap` of the pool the server drives, since
  the number of running requests is one of the loads.

`SpeculativeProofs`, for any two models, vocabulary, K, prompts, limits, block size and pools of one size:

- `SpeculativeInvariant`: `SpecIInv` is an invariant; the others follow from it.
- `SpeculativeInStep`: `SpecInv`, both caches hold exactly the confirmed context at the start of a round.
- `SpeculativeTests`: `TestedAtOwnPosition`.
- `SpeculativeLeavesNothing`: `CallsLeaveNothing`.
- `SpeculationIsInvisible`: `DecodesAsTarget`, the refinement of TargetDecoding (which states no fairness, so this is
  the whole of it).

`SpecIInv` is `TgtSide /\ DrfSide /\ Locals /\ AtStep`. The sides are `BMInv` of each allocator, the shape of
the tensors, the one table that is there and a bound on its count. `AtStep` says for every step of generate which
context each cache holds and what the round has come to, and a step needs all that the steps before it established:
the draft's cache is a proposal behind after the last draft (`Reached(K)`) while the target's holds all of them, so that
the two roll-backs differ, by `K - accepted` and by `max(0, K - 1 - accepted)`, and both end at the accepted tokens; the token
fed to repair a cache then has exactly its context before it. `Cached` ties three things together, the count of a table, its
slots, and the context each slot holds; a roll-back keeps it because the slots of the tokens that stay do not
move (`SlotsStay`), a forward because it writes to slots behind them, which are different because the
table has no repetition. That the second allocation cannot raise needs both pools to be of one size and whole at the start
of a call (`EquallyFull`). For the refinement `CanEmit` says that the tokens emitted so far in a round are such as the
target could emit one after the other, which the acceptance loop gives by
`TestedAtOwnPosition`: a distribution taken at any other position would do here only by chance. What a caller sees of a call (`Seen`) changes
with the first allocation, with every appended token and when the target's table is freed; every other step is a stutter.

`RejectionProofs`, for any vocabulary, rows of logits, sampling parameters and number of drafted tokens:

- `RejectionIsLossless`: `Lossless`. For a token that the draft proposes with weight q and the target emits with
  weight p, acceptance contributes min(p, q) and the correction (p - q)+, which is p in all; what is rejected
  weighs as much as the residual, for the rows have one sum (`ResidualMakesUp`). The greedy branch, a residual of zero and the bonus are the
  other cases.
- `RejectionEmitsPossible`: `TargetCanEmit`.
- `SamplesFromNucleus`: `KeptIsNucleus`. top-k keeps what fewer than k tokens outrank (`TopKKeepsRanked`), top-p walks
  the tokens in a sorted order and cuts where the sum before a token has reached the share asked for. The proof takes any
  sorted order (`SortedProperties`), so ties may fall either way, and the sums of prefixes are those of the tokens before
  (`PrefixMasses`); that the kept set is the shortest such prefix is `NucleusWithTopP`.

The invariant, `RejectionIInv`, keeps what the initial states establish, the sums and supports of the rows (`RowsMatch`,
`RowsKept`), and that each token returned so far can be emitted at its position (`OutputPossible`).

`WorkersProofs` has the workers, the transport between them and the transfer between models, three independent parts.
For disaggregation, with any requests, prompts, pool and limit:

- `WorkersRelyOnEachOther`: `DisaggInv`. The decode worker
  allocates for a prompt it never measured. That it cannot fail rests on every payload in the queue
  fitting in a pool of the size of the prefill worker's, which allocated it first (`HandedOverFits`); and that position and count agree while
  it decodes needs the bound on both (`DecodingFits`).
- `RequestsKeepOrder`: `PipelineKeepsOrder`. Read from the results back to the request queue, the sentinels left
  out, the requests stand as submitted. Each step of a worker moves one item over a border of this list; that a
  dead or idle worker holds nothing (`IdleHoldNothing`) makes the borders meet.

For the TCP transport, with any messages, header length and limit of one recv: `FramingHolds`, `TransportInv`. That a
completed body is the next message needs more than that the bytes join to the stream: the receiver must have asked for
what is left of this header or body (`Asked`), every byte must know its message (`BytesOK`), and the sender must have sent as many bytes
as its count says (`SentInOrder`). Then a piece of the right length at the right place is the message
(`SameFront`), whatever sizes recv returned.

For escalation, with any models, maps, prompts and number of calls:

- `OnlyRaisingForwardsKeepBlocks`: `EscalationInv`. The
  invariant adds `BMInv` of the allocator, whose lemmas `AllocateInv` and `FreeInv` are used as they stand, that
  nothing is pinned, and that the sequence of the call is not one that raised before (`OwnersExact`);
  exact counts then make the free blocks those that nobody lists (`FreeIsUnlisted`).
- `ValidMapsAreAdmissible`: `MappedIsAdmissible`. load checks the outer dimensions of a map, add_request the shape of what
  arrives; the two tests are in different modules and nothing says that the first implies the second. The invariant
  (`TransferIInv`) keeps that the map in use passed the first. The proof follows the shape through the product
  with its factors and its residual (`MappedLength`), the cut into heads (`HeadsShape`), the layers
  (`AppliedShape`) and the rotation (`RestoredShape`) to the second test (`ShapeAdmissible`).
- `TransferIsExact`: `TransferExact`. What arrives is what `DenseModel` says: for each token of the prompt, the map, as
  one affine function, of what the source's layers make of that token, rotated as the target rotates. Two
  things have to be shown. First, the paged forward computes the dense one: `SourceExact` says that after l layers the
  slots of the call's sequence hold the rotated keys and the values of layers 1 to l of its own prompt
  (`Forwarding`, `Forwarded`), whatever the pool held before. The slots of a prompt are its own
  (`SlotsOfCall`, from `BMInv`), so writing one token moves no other (`WriteReachesSlots`); the context a row
  gathers is its own prefix (`ContextIsPrefix`); the fused projection, cut by sizes, is the three
  (`FusedProjects`); so a layer is the reference's
  (`LayerIsReference`). A prompt of one token, which a forward may hand to the decode kernel, has nothing to map. Second, map() undoes and redoes the
  right things: stripping undoes the rotation (`RotationUndone`), column n of the design row is the layer, head and
  dimension that `ContentRow` gives by division (`DesignIsContent`), the factors multiply to one weight by
  exchanging sums (`FactorsMultiply`, `SumExchange`), and the heads are cut as they were joined (`HeadsEntries`,
  `HeadsOfFlat`). `TargetExact` then carries the mapped KV into the queue of the target.

`ListLemmas` has what these proofs share about lists: selecting entries keeps their order, the place of an
entry among the selected is the number of those before it (`SelectedProperties`, `SelectedConcat`), rows of a batch
(`RowStartNext`), joining (`FlattenAppend`, `FlattenConcat`, `Halves`,
`SameFront`), sums over sets (`FoldExists`, `Masses`, `MassOfMore`, `PrefixMasses`,
`SumExchange`), and division (`DivModUnique`). The prover takes no induction over
lists, but the set of the naturals for which a statement
holds can be shown to be all of Nat (`NatSetInduction`: otherwise a finite set of them would be mapped one to one into itself and not onto), which reaches recursive functions such
as RowStart and FlattenSeq. A fold of the community modules is a recursive function on sets once it is unfolded to one operation, so the
same induction on cardinalities reaches sums (`FoldInduction`).

The assumptions on constants beyond their types, and where they come from: prompts are not empty (`RequestAssumption`,
`PromptAssumption`, `PromptsAssumption`, `SpecAssumption`), which neither add_request nor the server tests, see below; the token counts the
allocator is asked for cover every chunk of a prompt and every prompt (`ChunkCounts`, `PromptAssumption`), as an int does; at least one pin per block is
counted (`PinAssumption`); the sentinel of a queue is no request (`SentinelAssumption`); a token is one of the four kinds
`Text` knows (`KnownKinds`); both caches of speculative decoding are made with the same number of blocks (`PoolsAssumption`,
speculative.py:57-60) and both models give every token of one vocabulary a weight (`ModelsAssumption`); a row has a logit for each
token (`RowsAssumption`) and weights are positive and ordered as logits are (`ExpAssumption`: the powers of two which stand
for exp are beyond the provers' arithmetic); the matrices of a map are not empty and are rectangular
(`PairsAssumption`), as tensors are, and so are its residuals; the
source has at least one head of an even dimension, and its projections return heads of that dimension for the hidden states
its prompts give (`WeightsAssumption`), as the views in `engine/model_runner.py:126-140` would raise on any other.

Only model-checked: that the target's first token is computed from what arrived (`FirstTokenExact`). It compares a batch
that runs tile by tile with the reference's softmax, and holds only while the powers of two of a tile
fit the precision, which is a fact on numbers the provers do not know. Out of the
provers' reach: liveness under fairness (`EveryRequestFinishes`, `KeepsPromise`'s
fairness, `EveryAwaitReturns`, `StopEndsThread`,
`EveryRequestAnswered`, `ShutdownEndsWorkers`, `EveryMessageArrives`, `CloseEndsReceiver`).
`TransferIInv` with `SourceExact` and `TargetExact`, `SpecIInv` and `RejectionIInv` were also checked by TLC in every state of the runs `escalation`, `speculative` and `rejection`.

## Where the code and its documentation disagree

Checked by a run each:

- `NeverRaises` (`sched/scheduler.py:137`): admission reserves blocks for the prompt
  only. Two running requests can need a block when the pool is empty; append_token's exception leaves
  step(), although `kv/block_manager.py:19` says the scheduler must preempt. In the
  server it ends the engine thread; every handler then waits for ever.
- `DecodedIsStreamed` (`router/server.py:142-148`): a delta is cut at the length of the text decoded before.
  When a second token completes a character the text changes in place: the client keeps
  the replacement character. `AnswerIsOutput` therefore holds for tokens that only add to the text,
  which is what the run `server` uses.

Met while modelling, and left out of the runs:

- All rows of a step are sampled with the first request's parameters
  (`sched/scheduler.py:218`), though each request carries its own.
- A request with an empty prompt is sampled from the last row of the batch entry
  before it (`sched/scheduler.py:188-190`), against "No cross-sequence leakage".
  The runs use prompts of at least one token.
- append_token tests `num_tokens % block_size == 0`, so on a table that reserve has
  extended it takes a block although slots are free (`kv/block_manager.py:101-103`).
- fork is documented as copy-on-write (`kv/block_manager.py:120`), but an append writes into the shared last
  block; no code under `src/` calls fork.
- evict has no caller: under memory pressure generate is refused although the cache alone
  holds blocks (`kv/prefix_cache.py:11-12` says entries are evicted).
- The load is observed only after a step, so an idle engine keeps its replicas
  (`router/server.py:103`).
- A prompt larger than the pool is never admitted and blocks the queue behind it
  (`sched/scheduler.py:160`).
- prefill_and_map is documented to free the source sequence (`workers/escalation.py:56`), but the forward stands
  outside the try block (`:63`): when it raises, the blocks stay and the id is refused from then on.
  `EscalationInv` counts exactly those sequences (`raised`) and says that nothing else stays.
- A prompt of one token has nothing to map, and prefill_and_map finds out after the source has done its work: map()
  raises when it reshapes an empty tensor (`kv/transfer.py:249`), before add_request could refuse the empty prefix.
- load validates the outer dimensions of a map only (`kv/transfer.py:167`): factors that do not fit each
  other are accepted, and every map() raises.
- In shutdown the join of the prefill worker may time out; the sentinel then overtakes its payloads
  (`workers/disaggregated.py:156-157`). And the prefill process may end while payloads
  it sent are queued, whose memory goes with it (`:105`).

## What is not modelled

- Configuration, the loading of models, HTTP routing, Prometheus metrics and the dashboard: data
  classes, I/O and formatting. `src/bench/` and the tests, which only call what is modelled.
- Numbers: weights are constant operators and all arithmetic is exact; rounding, dtypes and devices are left
  out, as are the refusal of sliding-window models and the statistics the engines keep.
- The single-query Triton kernel: only tests call it, and it is the loop of the batched one.
- What capture leaves in slot 0 of the KV tensors, with which windows are padded: a slot the mask
  excludes is taken to have no effect, whatever it holds.
- Hash collisions in the prefix cache.
- Layer maps with a weight and factors at once, of which load would check the first and map() use the second: a weight
  is "None when the map is stored as low-rank factors instead" (`kv/transfer.py:91-92`).
- The target's queues and pool in Escalation: they are those of Scheduler, where an imported prefix is
  checked with chunks, priorities and exhaustion (`Import`).
- Preparing and serialising tensors in the transports; connecting a socket.

## Plan

The order of the models followed the weight of what can go wrong: allocator, scheduler,
prefix cache, server, speculative decoding, disaggregation, transports, then the tensor code
below them and escalation. What comes next:

1. Models: a composition of Server with Scheduler itself on one request each, and of Escalation with Scheduler as its target.
2. Proofs: `FirstTokenExact` for a target on the dense attention, where no tiles are involved.
