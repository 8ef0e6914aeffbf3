------------------------------ MODULE LLMEngine ------------------------------
(***************************************************************************)
(* Single-sequence generation with prefix caching, LLMEngine.generate of   *)
(* dispec/engine/engine.py, cut where the allocator is called.  Between    *)
(* two calls the owner of the cache may evict.                             *)
(*                                                                         *)
(* Abstracted: the KV of a token is the token prefix it was computed from, *)
(* its own token included; kv[b][o] is what offset o of block b holds.     *)
(* What a row attends to is what ModelRunner and CudaGraph say.            *)
(* Prompts are not empty: an empty one raises at the first logits row.     *)
(***************************************************************************)
EXTENDS PrefixCache, CudaGraph

CONSTANTS
  Tokens, Eos,
  Prompts,     \* the prompts a caller may pass
  MaxNews,     \* the values of max_new_tokens
  NoToken

ASSUME PromptAssumption == \A p \in Prompts : p \in Seq(Tokens) /\ p # <<>> /\ Len(p) \in TokenCounts
ASSUME CallsAreNumbered == Cardinality(Seqs) \in Nat /\ Seqs = 0..(Cardinality(Seqs) - 1)
\* The cache holds one reference to each of its blocks.
ASSUME PinAssumption == MaxPins >= 1

VARIABLES
  pc,      \* where in generate()
  seq,     \* seq_id, the number of the call
  prompt, maxNew, out,
  start,   \* tokens already cached
  todo,    \* keys evict, or block numbers insert, has left to visit
  kv

callVars == <<pc, seq, prompt, maxNew, out, start, todo>>
vars == <<bmVars, cacheVars, callVars, kv, mask>>

-----------------------------------------------------------------------------
Context == prompt \o out

\* What a slot holds; the padding slot never holds a token of this context.
ReadKV ==
  [slot \in (Blocks \X (0..(BlockSize - 1))) \cup {ZeroSlot} |->
     IF slot = ZeroSlot THEN NoToken ELSE kv[slot[1]][slot[2]]]

\* The cache after positions first .. last - 1 of tokens are written.
Written(ids, tokens, first, last) ==
  [b \in Blocks |-> [o \in 0..(BlockSize - 1) |->
     LET hits == {p \in first..(last - 1) : Slot(ids, p) = <<b, o>>}
     IN  IF hits = {} THEN kv[b][o] ELSE SubSeq(tokens, 1, Max(hits) + 1)]]

\* The cache after a forward over these positions raised between two layers: their
\* slots hold the KV of no token.
Spoilt(ids, first, last) ==
  [b \in Blocks |-> [o \in 0..(BlockSize - 1) |->
     IF \E p \in first..(last - 1) : Slot(ids, p) = <<b, o>> THEN NoToken ELSE kv[b][o]]]

\* The matched blocks, short of the last token of the prompt (lines 57-60).
Reuse(p) == SubSeq(Matched(p), 1, Min({Len(Matched(p)), (Len(p) - 1) \div BlockSize}))

-----------------------------------------------------------------------------
\* Lines 46-62 up to the table; the call fails when allocate does.
Generate(p, m) ==
  /\ pc = "idle" /\ seq \in Seqs
  /\ Match(p)
  /\ Allocate(seq, Len(p), Reuse(p))
  /\ pc' = "prefill"
  /\ prompt' = p /\ maxNew' = m /\ out' = <<>>
  /\ start' = Len(Reuse(p)) * BlockSize
  /\ UNCHANGED <<seq, todo, kv, mask>>

GenerateFails(p) ==
  /\ pc = "idle" /\ seq \in Seqs
  /\ Match(p)
  /\ AllocateFails(Len(p), Reuse(p))
  /\ seq' = seq + 1
  /\ UNCHANGED <<pc, prompt, maxNew, out, start, todo, kv, bmVars, mask>>

\* Lines 64-75: the rest of the prompt is written and the blocks are offered
\* to the cache.
Prefill ==
  /\ pc = "prefill"
  /\ kv' = Written(blockIds[seq], prompt, start, Len(prompt))
  /\ SetNumTokens(seq, Len(prompt))
  /\ StartInsert
  /\ todo' = [i \in 1..FullBlocks(prompt) |-> i]
  /\ pc' = "insert"
  /\ UNCHANGED <<seq, prompt, maxNew, out, start, mask>>

\* The forward of the prefill raises, before or after it wrote.
PrefillRaises ==
  /\ pc = "prefill" /\ pc' = "finally"
  /\ kv' \in {kv, Spoilt(blockIds[seq], start, Len(prompt))}
  /\ UNCHANGED <<seq, prompt, maxNew, out, start, todo, bmVars, cacheVars, mask>>

InsertBlock ==
  /\ pc = "insert" /\ todo # <<>>
  /\ Insert(Key(prompt, Head(todo)), blockIds[seq][Head(todo)])
  /\ todo' = Tail(todo)
  /\ UNCHANGED <<pc, seq, prompt, maxNew, out, start, kv, mask>>

\* Lines 76-81 and 96-98: a token, and the loop test.
Sample ==
  /\ pc = "sample" \/ (pc = "insert" /\ todo = <<>>)
  /\ \E t \in Tokens :
       /\ out' = Append(out, t)
       /\ pc' = IF Len(out) + 1 < maxNew /\ t # Eos THEN "decode" ELSE "finally"
  /\ UNCHANGED <<seq, prompt, maxNew, start, todo, kv, bmVars, cacheVars, mask>>

\* The logits or the sampling raise; what was inserted stays in the cache.
SampleRaises ==
  /\ pc = "sample" \/ (pc = "insert" /\ todo = <<>>)
  /\ pc' = "finally"
  /\ UNCHANGED <<seq, prompt, maxNew, out, start, todo, kv, bmVars, cacheVars, mask>>

\* Mutant: the new token is written to the slot of the last stored one.
DecodeOverwrites ==
  /\ pc = "decode"
  /\ AppendToken(seq)
  /\ LET slot == Slot(blockIds'[seq], numTokens[seq] - 1)
     IN  kv' = [kv EXCEPT ![slot[1]][slot[2]] = Context]
  /\ DecodeStep(ContextSlots(blockIds'[seq], numTokens'[seq]))
  /\ pc' = "sample"
  /\ UNCHANGED <<seq, prompt, maxNew, out, start, todo, cacheVars>>

\* Lines 82-95: the token is fed at position cur and stored in the slot that
\* append_token returned.
Decode ==
  /\ pc = "decode"
  /\ AppendToken(seq)
  /\ LET slot == Slot(blockIds'[seq], numTokens[seq])
     IN  kv' = [kv EXCEPT ![slot[1]][slot[2]] = Context]
  /\ DecodeStep(ContextSlots(blockIds'[seq], numTokens'[seq]))
  /\ pc' = "sample"
  /\ UNCHANGED <<seq, prompt, maxNew, out, start, todo, cacheVars>>

\* append_token finds no block.
DecodeRaises ==
  /\ pc = "decode"
  /\ AppendFails(seq)
  /\ pc' = "finally"
  /\ UNCHANGED <<seq, prompt, maxNew, out, start, todo, kv, bmVars, cacheVars, mask>>

\* The forward or the replay raises, after append_token counted the token.
StepRaises ==
  /\ pc = "decode" /\ pc' = "finally"
  /\ AppendToken(seq)
  /\ kv' \in {kv, Spoilt(blockIds'[seq], numTokens[seq], numTokens'[seq])}
  /\ \/ DecodeStep(ContextSlots(blockIds'[seq], numTokens'[seq]))
     \/ UNCHANGED mask
  /\ UNCHANGED <<seq, prompt, maxNew, out, start, todo, cacheVars>>

\* Mutant: the sequence is not freed.
FinallyKeeps ==
  /\ pc = "finally"
  /\ seq' = seq + 1 /\ pc' = "idle"
  /\ UNCHANGED <<prompt, maxNew, out, start, todo, kv, bmVars, cacheVars, mask>>

Finally ==
  /\ pc = "finally"
  /\ Free(seq)
  /\ seq' = seq + 1 /\ pc' = "idle"
  /\ UNCHANGED <<prompt, maxNew, out, start, todo, kv, cacheVars, mask>>

\* PrefixCache.evict, called from outside between two calls of generate.
StartEvict(n) ==
  /\ pc = "idle" /\ nodes # <<>>
  /\ todo' = SetToSeq(Victims(n))
  /\ pc' = "evict"
  /\ UNCHANGED <<seq, prompt, maxNew, out, start, kv, bmVars, cacheVars, mask>>

EvictBlock ==
  /\ pc = "evict" /\ todo # <<>>
  /\ Evict(Head(todo))
  /\ todo' = Tail(todo)
  /\ pc' = IF Len(todo) = 1 THEN "idle" ELSE "evict"
  /\ UNCHANGED <<seq, prompt, maxNew, out, start, kv, mask>>

-----------------------------------------------------------------------------
Init ==
  /\ BMInit /\ CacheInit /\ GraphInit
  /\ pc = "idle" /\ seq = 0
  /\ prompt = <<>> /\ maxNew = 0 /\ out = <<>> /\ start = 0 /\ todo = <<>>
  /\ kv = [b \in Blocks |-> [o \in 0..(BlockSize - 1) |-> NoToken]]

Next ==
  \/ \E p \in Prompts, m \in MaxNews : Generate(p, m)
  \/ \E p \in Prompts : GenerateFails(p)
  \/ Prefill \/ PrefillRaises \/ InsertBlock \/ Sample \/ SampleRaises
  \/ Decode \/ DecodeRaises \/ StepRaises \/ Finally
  \/ \E n \in 1..Len(nodes) : StartEvict(n)
  \/ EvictBlock

Spec == Init /\ [][Next]_vars

-----------------------------------------------------------------------------
\* Properties.

CacheTypeOK ==
  /\ BMTypeOK
  /\ pc \in {"idle", "prefill", "insert", "sample", "decode", "finally", "evict"}
  /\ seq \in 0..Cardinality(Seqs)
  /\ prompt \in Prompts \cup {<<>>} /\ out \in Seq(Tokens)
  /\ \A i \in DOMAIN nodes : nodes[i].blk \in Blocks /\ nodes[i].used \in 1..clock
  /\ \A b \in Blocks, o \in 0..(BlockSize - 1) : kv[b][o] \in Seq(Tokens) \cup {NoToken}
  /\ \A mc \in Buckets : mask[mc] \subseteq 1..mc

\* The cache holds one reference to each block it names, no other block is
\* pinned, and no block serves two prefixes (insert pins, evict releases).
CachePinsItsBlocks ==
  \A b \in Blocks : pins[b] = Cardinality({i \in DOMAIN nodes : nodes[i].blk = b}) /\ pins[b] <= 1

\* The last prompt token is always forwarded, or there would be no logits for
\* the first token (line 58), and the tokens skipped are those adopted; then cur,
\* the position a token is embedded at, is the position append_token stores it at
\* (lines 80-95 count both separately).
PositionsAgree ==
  /\ pc = "prefill" => start < Len(prompt) /\ start <= TableCapacity(seq)
  /\ pc = "decode" => numTokens[seq] = Len(prompt) + Len(out) - 1

\* What the calls rely on: the pins of the cache are exact and the engine's own
\* counts agree with the table.
CacheInv == CacheTypeOK /\ CachePinsItsBlocks /\ PositionsAgree

\* A cached block holds the KV of the prefix it is keyed by, whatever was
\* generated, evicted and cached again since: nobody writes to it.
CachedBlocksKeepTheirKV ==
  \A i \in DOMAIN nodes : \A o \in 0..(BlockSize - 1) :
    LET node == nodes[i]
    IN  kv[node.blk][o] = SubSeq(node.key, 1, Len(node.key) - BlockSize + o + 1)

\* What every row of a forward pass attends to is the KV of this call's own
\* context up to that row, adopted blocks included: in the prefill with either
\* attention backend, in a decode step with either backend or a replayed graph.
AttendsOwnContext ==
  LET expected(n) == [c \in 1..n |-> SubSeq(Context, 1, c)]
      slots == ContextSlots(blockIds[seq], numTokens[seq])
      asBatch(q) == <<SeqMeta(slots, q)>>
  IN  /\ pc = "insert" /\ Len(todo) = FullBlocks(prompt) =>
           \A triton \in BOOLEAN : \A j \in 1..(Len(prompt) - start) :
             LET proj == [i \in 1..(Len(prompt) - start) |-> SubSeq(prompt, 1, start + i)]
             IN  RowContext(asBatch(Len(proj)), triton, 1, j, proj, ReadKV) = expected(start + j)
      /\ pc = "sample" =>
           /\ \A triton \in BOOLEAN :
                RowContext(asBatch(1), triton, 1, 1, <<Context>>, ReadKV) = expected(Len(Context))
           /\ CanHandle(Len(Context)) => ReplayContext(slots, ReadKV) = expected(Len(Context))

\* Between two calls only the cache holds blocks, however the last call ended.
CallsLeaveNothing == pc = "idle" => live = {} /\ free = Blocks \ CachedBlocks

\* The engine and its cache use the allocator as its clients must.
UsesAllocator == BMSpec
==============================================================================
