------------------------------ MODULE Scheduler ------------------------------
(***************************************************************************)
(* The continuous-batching engine, dispec/sched/scheduler.py, on top of    *)
(* the block allocator.  step() is cut into micro-steps that each hold at  *)
(* most one allocator operation, so that what an exception leaves behind   *)
(* is visible; pc says where in step() the engine is.                      *)
(*                                                                         *)
(* Abstracted: a token is its request and its position.  kv[b][o] is the   *)
(* token whose keys and values are in offset o of block b (paged_cache.py, *)
(* model_runner.py); whether a sampled token is the end-of-sequence token  *)
(* is nondeterministic.                                                    *)
(***************************************************************************)
EXTENDS BlockManager, ModelRunner, Selection

CONSTANTS
  MaxBatchTokens,  \* max_batch_tokens
  ChunkSize,       \* chunk_size
  PromptLens, MaxNews, Priorities, PrefixLens,  \* what a request may ask for
  NoToken

ASSUME RequestIds == Seqs \subseteq Nat
ASSUME BudgetAssumption == MaxBatchTokens \in Nat \ {0} /\ ChunkSize \in Nat \ {0}
\* Prompts are not empty: an empty one would be sampled from the row before its own.
ASSUME RequestAssumption ==
  /\ PromptLens \subseteq Nat \ {0} /\ MaxNews \subseteq Nat /\ PrefixLens \subseteq Nat
  /\ Priorities \subseteq Int
\* The engine counts the tokens of a prompt one chunk at a time.
ASSUME ChunkCounts == \A n \in PromptLens : 0..n \subseteq TokenCounts

VARIABLES
  pc,          \* where in step()
  req,         \* the immutable fields of Request
  state,       \* Request.state, "absent" before add_request
  prefix,      \* tokens covered by Request.prefix_kv, 0 for None
  prefillPos,  \* Request.prefill_pos
  outLen,      \* len(Request.output_ids)
  waiting, prefilling, running, finished,  \* the queues of the engine
  todo,        \* what the current loop of step() has left to visit
  batch,       \* batch, seq_meta and sampled, one record per entry
  rows,        \* token_ids, positions and write_slots, one record per row
  lastIdx,     \* last_idx, counted from 1
  budget,      \* budget
  kv           \* PagedKVCache.key and .value

reqVars == <<req, state, prefix, prefillPos, outLen>>
queueVars == <<waiting, prefilling, running, finished>>
stepVars == <<todo, batch, rows, lastIdx, budget>>
schedVars == <<pc, reqVars, queueVars, stepVars, kv>>
vars == <<bmVars, schedVars>>

-----------------------------------------------------------------------------
HasWork == waiting # <<>> \/ prefilling # <<>> \/ running # <<>>

NoRequest == [plen |-> 0, maxNew |-> 0, prio |-> 0]

Tag(r, pos) == [req |-> r, pos |-> pos]

\* The cache after the tokens of W, records with req, pos and slot, are written.
Stored(W) ==
  [b \in Blocks |-> [o \in 0..(BlockSize - 1) |->
     LET hits == {w \in W : w.slot = <<b, o>>}
     IN  IF hits = {} THEN kv[b][o] ELSE LET w == CHOOSE w \in hits : TRUE IN Tag(w.req, w.pos)]]

RowsOf(r, ids, first, n) ==
  [i \in 1..n |-> [req |-> r, pos |-> first + i - 1, slot |-> Slot(ids, first + i - 1)]]

\* Mutant: last_idx is extended for every chunk, sampled or not.
AddToBatchSamplesAll(r, ids, first, n, sampled) ==
  /\ rows' = rows \o RowsOf(r, ids, first, n)
  /\ batch' = Append(batch, [req |-> r, q |-> n, ctx |-> first + n, sampled |-> sampled])
  /\ lastIdx' = Append(lastIdx, Len(rows) + n)
  /\ budget' = budget - n

\* The batch grows by n tokens of r, from position first; its last row is
\* sampled when the request is to emit a token.
AddToBatch(r, ids, first, n, sampled) ==
  /\ rows' = rows \o RowsOf(r, ids, first, n)
  /\ batch' = Append(batch, [req |-> r, q |-> n, ctx |-> first + n, sampled |-> sampled])
  /\ lastIdx' = IF sampled THEN Append(lastIdx, Len(rows) + n) ELSE lastIdx
  /\ budget' = budget - n

\* Highest priority first, then oldest.
AdmitBefore(r, q) == req[r].prio > req[q].prio \/ (req[r].prio = req[q].prio /\ r < q)

\* Mutant: the waiting queue is served in arrival order.
SortedByArrival(queue) == {queue}

\* What sort() may make of a queue: its requests, each before those it goes before.
Sorted(queue) ==
  {s \in Bijection(DOMAIN queue, Range(queue)) :
     \A i, j \in DOMAIN queue : i < j => AdmitBefore(s[i], s[j])}

ChunkOf(r) == Min({req[r].plen - prefillPos[r], ChunkSize, budget})

\* The requests of the batch that emit a token, in the order of the batch.
SampleBatch == Selected(batch, {i \in DOMAIN batch : batch[i].sampled})

\* Mutant: one token too many.
DoneWithLate(r, len, eos) == len > req[r].maxNew \/ eos

DoneWith(r, len, eos) == len >= req[r].maxNew \/ eos

\* Lines 199-200: the loops end; an empty batch ends the step.
LeaveLoops ==
  /\ pc' = IF batch = <<>> THEN "idle" ELSE "forward"
  /\ todo' = <<>> /\ budget' = 0
  /\ UNCHANGED <<batch, rows, lastIdx>>

DropBatch == batch' = <<>> /\ rows' = <<>> /\ lastIdx' = <<>>

-----------------------------------------------------------------------------
\* add_request, called between two steps.  Ids are handed out in order.
AddRequest(r) ==
  /\ pc = "idle"
  /\ state[r] = "absent" /\ \A q \in Seqs : q < r => state[q] # "absent"
  /\ \E plen \in PromptLens, maxNew \in MaxNews, prio \in Priorities :
       \E k \in {0} \cup {n \in PrefixLens : 0 < n /\ n < plen} :
         /\ req' = [req EXCEPT ![r] = [plen |-> plen, maxNew |-> maxNew, prio |-> prio]]
         /\ prefix' = [prefix EXCEPT ![r] = k]
  /\ state' = [state EXCEPT ![r] = "WAITING"]
  /\ waiting' = Append(waiting, r)
  /\ UNCHANGED <<pc, prefillPos, outLen, prefilling, running, finished, stepVars, kv, bmVars>>

\* Lines 120-127.
StartStep ==
  /\ pc = "idle" /\ HasWork
  /\ pc' = "decode"
  /\ todo' = running
  /\ batch' = <<>> /\ rows' = <<>> /\ lastIdx' = <<>>
  /\ budget' = MaxBatchTokens
  /\ UNCHANGED <<reqVars, queueVars, kv, bmVars>>

\* One iteration of the decode loop, lines 132-147.
Decode ==
  /\ pc = "decode" /\ todo # <<>> /\ budget >= 1
  /\ LET r == Head(todo)
     IN  /\ AppendToken(r)
         /\ AddToBatch(r, blockIds'[r], numTokens[r], 1, TRUE)
  /\ todo' = Tail(todo)
  /\ UNCHANGED <<pc, reqVars, queueVars, kv>>

\* append_token raises OutOfBlocksError out of step(): nothing catches it.
DecodeRaises ==
  /\ pc = "decode" /\ todo # <<>> /\ budget >= 1
  /\ AppendFails(Head(todo))
  /\ pc' = "raised"
  /\ UNCHANGED <<reqVars, queueVars, stepVars, kv, bmVars>>

\* Lines 152-154.
QueuePrefills ==
  /\ pc = "decode" /\ (todo = <<>> \/ budget < 1)
  /\ pc' = "prefill"
  /\ waiting' \in Sorted(waiting)
  /\ todo' = prefilling \o waiting'
  /\ UNCHANGED <<reqVars, prefilling, running, finished, batch, rows, lastIdx, budget, kv, bmVars>>

\* Lines 159-163, a waiting request gets its blocks or ends the loop.
Admit ==
  /\ pc = "prefill" /\ todo # <<>> /\ budget >= 1
  /\ LET r == Head(todo)
     IN  state[r] = "WAITING" /\ Allocate(r, req[r].plen, <<>>)
  /\ pc' = "import"
  /\ UNCHANGED <<reqVars, queueVars, stepVars, kv>>

AdmitFails ==
  /\ pc = "prefill" /\ todo # <<>> /\ budget >= 1
  /\ LET r == Head(todo)
     IN  state[r] = "WAITING" /\ AllocateFails(req[r].plen, <<>>)
  /\ LeaveLoops
  /\ UNCHANGED <<reqVars, queueVars, kv, bmVars>>

\* Lines 164-173: the prefix KV, if any, is written and prefill resumes behind it.
Import ==
  /\ pc = "import"
  /\ LET r == Head(todo)
     IN  /\ SetNumTokens(r, prefix[r])
         /\ kv' = Stored({RowsOf(r, blockIds[r], 0, prefix[r])[i] : i \in 1..prefix[r]})
         /\ prefillPos' = [prefillPos EXCEPT ![r] = prefix[r]]
         /\ prefix' = [prefix EXCEPT ![r] = 0]
         /\ state' = [state EXCEPT ![r] = "PREFILLING"]
         /\ waiting' = RemoveFirst(waiting, r)
         /\ prefilling' = Append(prefilling, r)
  /\ pc' = "prefill"
  /\ UNCHANGED <<req, outLen, running, finished, stepVars>>

\* Lines 174-197: a request advances by one chunk.
Chunk ==
  /\ pc = "prefill" /\ todo # <<>> /\ budget >= 1
  /\ LET r == Head(todo)
         n == ChunkOf(r)
         whole == prefillPos[r] + n >= req[r].plen
     IN  /\ state[r] = "PREFILLING"
         /\ AddToBatch(r, blockIds[r], prefillPos[r], n, whole)
         /\ SetNumTokens(r, prefillPos[r] + n)
         /\ prefillPos' = [prefillPos EXCEPT ![r] = @ + n]
         /\ IF whole
            THEN /\ state' = [state EXCEPT ![r] = "RUNNING"]
                 /\ prefilling' = RemoveFirst(prefilling, r)
                 /\ running' = Append(running, r)
            ELSE UNCHANGED <<state, prefilling, running>>
  /\ todo' = Tail(todo)
  /\ UNCHANGED <<pc, req, prefix, outLen, waiting, finished, kv>>

EndPrefill ==
  /\ pc = "prefill" /\ (todo = <<>> \/ budget < 1)
  /\ LeaveLoops
  /\ UNCHANGED <<reqVars, queueVars, kv, bmVars>>

\* Lines 203-211: the forward pass writes every row's KV, then reads.
Forward ==
  /\ pc = "forward"
  /\ kv' = Stored(Range(rows))
  /\ IF lastIdx = <<>> THEN pc' = "idle" /\ DropBatch
                       ELSE pc' = "sample" /\ UNCHANGED <<batch, rows, lastIdx>>
  /\ UNCHANGED <<reqVars, queueVars, todo, budget, bmVars>>

\* Lines 213-228: one token for every sampled request.
Sample ==
  /\ pc = "sample"
  /\ \E eos \in SUBSET {SampleBatch[i].req : i \in DOMAIN SampleBatch} :
       LET emitting == {SampleBatch[i].req : i \in DOMAIN SampleBatch}
           done == {r \in emitting : DoneWith(r, outLen[r] + 1, r \in eos)}
       IN  /\ outLen' = [r \in Seqs |-> IF r \in emitting THEN outLen[r] + 1 ELSE outLen[r]]
           /\ state' = [r \in Seqs |-> IF r \in done THEN "FINISHED" ELSE state[r]]
           /\ todo' = Selected([i \in DOMAIN SampleBatch |-> SampleBatch[i].req],
                               {i \in DOMAIN SampleBatch : SampleBatch[i].req \in done})
           /\ pc' = IF done = {} THEN "idle" ELSE "retire"
  /\ DropBatch
  /\ UNCHANGED <<req, prefix, prefillPos, queueVars, budget, kv, bmVars>>

\* Mutant: the blocks of a finished request are not freed.
RetireKeepsBlocks ==
  /\ pc = "retire"
  /\ LET r == Head(todo)
     IN  /\ running' = RemoveFirst(running, r)
         /\ finished' = Append(finished, r)
  /\ todo' = Tail(todo)
  /\ pc' = IF Len(todo) = 1 THEN "idle" ELSE "retire"
  /\ UNCHANGED <<reqVars, waiting, prefilling, batch, rows, lastIdx, budget, kv, bmVars>>

\* Mutant: the table is deleted without returning its blocks.
RetireDeletesTable ==
  /\ pc = "retire"
  /\ LET r == Head(todo)
     IN  /\ running' = RemoveFirst(running, r)
         /\ finished' = Append(finished, r)
         /\ live' = live \ {r}
         /\ blockIds' = [blockIds EXCEPT ![r] = <<>>]
         /\ numTokens' = [numTokens EXCEPT ![r] = 0]
  /\ todo' = Tail(todo)
  /\ pc' = IF Len(todo) = 1 THEN "idle" ELSE "retire"
  /\ UNCHANGED <<reqVars, waiting, prefilling, batch, rows, lastIdx, budget, kv,
                 free, refCount, pins>>

\* Lines 229-232, one finished request.
Retire ==
  /\ pc = "retire"
  /\ LET r == Head(todo)
     IN  /\ running' = RemoveFirst(running, r)
         /\ finished' = Append(finished, r)
         /\ Free(r)
  /\ todo' = Tail(todo)
  /\ pc' = IF Len(todo) = 1 THEN "idle" ELSE "retire"
  /\ UNCHANGED <<reqVars, waiting, prefilling, batch, rows, lastIdx, budget, kv>>

-----------------------------------------------------------------------------
Init ==
  /\ BMInit
  /\ pc = "idle"
  /\ req = [r \in Seqs |-> NoRequest]
  /\ state = [r \in Seqs |-> "absent"]
  /\ prefix = [r \in Seqs |-> 0]
  /\ prefillPos = [r \in Seqs |-> 0]
  /\ outLen = [r \in Seqs |-> 0]
  /\ waiting = <<>> /\ prefilling = <<>> /\ running = <<>> /\ finished = <<>>
  /\ todo = <<>> /\ batch = <<>> /\ rows = <<>> /\ lastIdx = <<>> /\ budget = 0
  /\ kv = [b \in Blocks |-> [o \in 0..(BlockSize - 1) |-> NoToken]]

Step ==
  \/ StartStep \/ Decode \/ DecodeRaises \/ QueuePrefills
  \/ Admit \/ AdmitFails \/ Import \/ Chunk \/ EndPrefill
  \/ Forward \/ Sample \/ Retire

Next == Step \/ \E r \in Seqs : AddRequest(r)

Spec == Init /\ [][Next]_vars

\* run_until_done and the server's loop call step() as long as there is work.
FairSpec == Spec /\ WF_vars(Step)

-----------------------------------------------------------------------------
\* Properties.

Added == {r \in Seqs : state[r] # "absent"}

SchedTypeOK ==
  /\ BMTypeOK
  /\ pc \in {"idle", "decode", "prefill", "import", "forward", "sample", "retire", "raised"}
  /\ state \in [Seqs -> {"absent", "WAITING", "PREFILLING", "RUNNING", "FINISHED"}]
  /\ prefix \in [Seqs -> Nat] /\ prefillPos \in [Seqs -> Nat] /\ outLen \in [Seqs -> Nat]
  /\ \A q \in {waiting, prefilling, running, finished, todo} : q \in Seq(Seqs)
  /\ lastIdx \in Seq(Nat) /\ budget \in 0..MaxBatchTokens
  /\ \A b \in Blocks : \A o \in 0..(BlockSize - 1) :
       kv[b][o] = NoToken \/ (kv[b][o].req \in Seqs /\ kv[b][o].pos \in Nat)

\* Every request is in exactly one queue, once, and its state says which; a
\* request that finished stays in running until step() retires it.
QueuesMatchStates ==
  /\ IsInjective(waiting \o prefilling \o running \o finished)
  /\ \A r \in Added :
       /\ state[r] = "WAITING" <=> r \in Range(waiting)
       /\ state[r] = "PREFILLING" <=> r \in Range(prefilling)
       /\ state[r] = "RUNNING" => r \in Range(running)
       /\ state[r] = "FINISHED" => r \in Range(finished) \/ (pc = "retire" /\ r \in Range(todo))

\* Exactly the requests being served own blocks: a finished request keeps none,
\* a waiting one has none yet.
TablesMatchQueues ==
  live = Range(prefilling) \cup Range(running) \cup (IF pc = "import" THEN {Head(todo)} ELSE {})

\* No block is in the tables of two requests.
RequestsIsolated ==
  \A r, q \in live : r # q => TableBlocks(r) \cap TableBlocks(q) = {}

\* seq_meta: the entries of the batch as the model runner sees them.
Metas ==
  [i \in DOMAIN batch |-> SeqMeta(ContextSlots(blockIds[batch[i].req], batch[i].ctx), batch[i].q)]

\* What every row of a forward pass attends to, once the rows are written, is its
\* own request's tokens up to itself, each once and in order, whichever backend
\* runs, whatever else is in the batch, and whatever the slots held before.
AttendsOwnContext ==
  pc = "forward" =>
    LET stored == Stored(Range(rows))
        read == [slot \in (Blocks \X (0..(BlockSize - 1))) \cup {ZeroSlot} |->
                   IF slot = ZeroSlot THEN NoToken ELSE stored[slot[1]][slot[2]]]
        proj == [i \in DOMAIN rows |-> Tag(rows[i].req, rows[i].pos)]
    IN  \A i \in DOMAIN batch : \A j \in 1..batch[i].q : \A triton \in BOOLEAN :
          RowContext(Metas, triton, i, j, proj, read)
            = [c \in 1..(batch[i].ctx - batch[i].q + j) |-> Tag(batch[i].req, c - 1)]

\* The i-th sampled logits row is the last row of the i-th sampled request
\* (README.md:49, "No cross-sequence leakage"): last_idx, batch and sampled agree.
NoCrossSequenceLeakage ==
  pc = "sample" =>
    /\ Len(lastIdx) = Len(SampleBatch)
    /\ \A i \in DOMAIN lastIdx :
         /\ lastIdx[i] \in DOMAIN rows
         /\ rows[lastIdx[i]].req = SampleBatch[i].req
         /\ rows[lastIdx[i]].pos = SampleBatch[i].ctx - 1

\* The forward pass gets at most max_batch_tokens rows (lines 9-10).
BatchWithinBudget == Len(rows) <= MaxBatchTokens

\* The running requests always fit in one batch, so that the decode loop never
\* breaks for lack of budget and no running request misses a step.
RunningFitsBatch == Len(running) <= MaxBatchTokens

\* Between two steps the table of a request counts its prefilled tokens, or its
\* prompt and every output token but the last, which is stored when it is fed.
StoredLength ==
  pc = "idle" =>
    /\ \A r \in Range(running) : numTokens[r] = req[r].plen + outLen[r] - 1 /\ outLen[r] >= 1
    /\ \A r \in Range(prefilling) : numTokens[r] = prefillPos[r] /\ prefillPos[r] < req[r].plen

\* What every part of step() relies on: the queues, states and tables of the
\* requests agree, their blocks are apart, and a batch holds all running ones.
SchedInv ==
  /\ SchedTypeOK /\ QueuesMatchStates /\ TablesMatchQueues /\ RequestsIsolated
  /\ StoredLength /\ RunningFitsBatch /\ BatchWithinBudget

\* A request leaves the waiting queue only when no request that should go first
\* is waiting: a large request that does not fit is not overtaken.
AdmittedInOrder ==
  [][\A r \in Seqs : state[r] = "WAITING" /\ state'[r] # "WAITING"
        => \A q \in Range(waiting) \ {r} : AdmitBefore(r, q)]_vars

\* The engine uses the allocator as its clients must, so what is proved of the
\* allocator holds here.
UsesAllocator == BMSpec

\* The engine keeps the promise of Engine: rounds of tokens in which every request
\* that is emitting takes part, at least one token and at most max(1, max_new_tokens)
\* for each, and every request done in the end unless step() raised.
Phase(r) ==
  CASE state[r] = "absent" -> "absent"
    [] state[r] = "FINISHED" -> "done"
    [] state[r] = "RUNNING" /\ outLen[r] > 0 -> "emitting"
    [] OTHER -> "queued"

Promise == INSTANCE Engine WITH
  Requests <- Seqs,
  Limits <- {Max({1, n}) : n \in MaxNews},
  phase <- [r \in Seqs |-> Phase(r)],
  limit <- [r \in Seqs |-> IF state[r] = "absent" THEN 0 ELSE Max({1, req[r].maxNew})],
  outs <- outLen,
  failed <- pc = "raised"

KeepsPromise == Promise!Spec

\* Every request added, whatever its priority and whatever competes with it for
\* blocks and for the batch, is finished, unless step() raised.
EveryRequestFinishes ==
  \A r \in Seqs : state[r] = "WAITING" ~> (state[r] = "FINISHED" \/ pc = "raised")

\* "Raised when the block pool is exhausted (the scheduler must preempt)"
\* (block_manager.py:19): the exception does not get out of step().
NeverRaises == pc # "raised"
=============================================================================
