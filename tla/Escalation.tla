------------------------------ MODULE Escalation ------------------------------
(***************************************************************************)
(* Escalation serving, dispec/workers/escalation.py: a prompt is prefilled *)
(* on the source model, the KV of all but its last token is mapped into    *)
(* the target's layout, and the target is given the prompt with that KV,   *)
(* so that it forwards the last token only.                                *)
(*                                                                         *)
(* The source's pool is that of BlockManager, its KV and the target's are  *)
(* numbers computed by Transformer and KVTransfer.  The target is the part *)
(* of the scheduler that admits a batch and computes the first token of    *)
(* every request in it; its queues, budget and pool are those of Scheduler *)
(* and left out, a request gets blocks of its own by its place in the      *)
(* batch and is done after one token.                                      *)
(***************************************************************************)
EXTENDS BlockManager, DenseModel

CONSTANTS
  SourceModel,
  Pairs,       \* what map() is used with: records [files, variant, residual, useResidual, target]
  Prompts,
  MaxCalls,    \* bound: calls of prefill_and_map
  MaxBatch,    \* bound: requests the target admits in a step
  TableWidth   \* bound: blocks of the target per request

ASSUME EscalationAssumption ==
  /\ Prompts \subseteq Seq(Nat) /\ <<>> \notin Prompts
  /\ MaxCalls \in Nat /\ MaxBatch \in Nat \ {0} /\ TableWidth \in Nat \ {0}
  /\ \A prompt \in Prompts : Len(prompt) \in TokenCounts /\ BlocksNeeded(Len(prompt)) <= TableWidth

ASSUME PairsAssumption ==
  /\ SourceModel.layers \in Nat \ {0}
  /\ \A pr \in Pairs :
       /\ {pr.target.layers, pr.target.kvHeads, pr.target.headDim} \subseteq Nat \ {0}
       /\ {pr.files.keys, pr.files.values} \subseteq Seq(LayerMaps)
       /\ {pr.files.keyResiduals, pr.files.valueResiduals} \subseteq Seq(Residuals)
       /\ pr.residual \in BOOLEAN /\ pr.useResidual \in BOOLEAN

\* A head of a model: its dimensions are rotated in pairs.
HeadOf(model) == [1..model.headDim -> Int]

\* The projections of the source return heads of the dimensions of its config.
ASSUME WeightsAssumption ==
  /\ {SourceModel.kvHeads, SourceModel.headDim, SourceModel.groups} \subseteq Nat \ {0}
  /\ SourceModel.headDim % 2 = 0 /\ SourceModel.theta \in Nat
  /\ \A p \in Prompts : \A l \in 1..SourceModel.layers, t \in 1..Len(p) :
       LET x == DenseRun(SourceModel, p, <<>>, 0)[l - 1].x[t]
       IN  /\ Query(SourceModel, l, x) \in [1..(SourceModel.kvHeads * SourceModel.groups) -> HeadOf(SourceModel)]
           /\ {KeyOf(SourceModel, l, x), ValueOf(SourceModel, l, x)}
                \subseteq [1..SourceModel.kvHeads -> HeadOf(SourceModel)]

VARIABLES
  pair,
  kvMap,     \* the map in use once loaded
  pc,        \* "load", "idle", "forward", "map", "mapped", "step" or "refused"
  flat,      \* the batch being forwarded, on either side: [rows, metas, x, layer]
  sid, prompt,   \* arguments of the call
  mapped,    \* what the call returned
  calls,
  skv,       \* the source's cache tensors
  raised,    \* ghost: sequences whose forward raised
  waiting,   \* the target's queue: records [prompt, prefix], prefix <<>> for None
  tkv,       \* the target's cache tensors
  answers,   \* what the last step of the target computed: [prompt, prefix, hidden]
  refKV, refHidden   \* ghost: what the prompts are to arrive with and to lead to

sourceVars == <<bmVars, skv, sid, prompt, mapped, calls, raised>>
targetVars == <<waiting, tkv, answers>>
loaded == <<pair, kvMap, refKV, refHidden>>
escalationVars == <<sourceVars, targetVars, loaded, pc, flat>>

-----------------------------------------------------------------------------
Target == pair.target

\* KV tensors as they are allocated, zero in every slot.
ZeroCache(slots, model) ==
  LET zero == [h \in 1..model.kvHeads |-> [d \in 1..model.headDim |-> 0]]
  IN  [s \in slots |-> [l \in 1..model.layers |-> [k |-> zero, v |-> zero]]]

\* The rows of a prompt from position first on.
Rows(tokens, slots, first) ==
  [i \in 1..(Len(tokens) - first) |->
     [tok |-> tokens[first + i], pos |-> first + i - 1, slot |-> slots[first + i]]]

\* export_contiguous: keys or values, by layer and token.
Exported(cache, slots, model, part) ==
  [l \in 1..model.layers |-> [t \in DOMAIN slots |-> cache[slots[t]][l][part]]]

-----------------------------------------------------------------------------
\* Reference: what a prompt is to arrive with and to lead to, by DenseModel.

\* Whether a map is that of a model to itself and changes nothing, whichever GEMMs
\* and attention backend the two sides use.
IdentityMap ==
  LET plain(model) == [model EXCEPT !.fused = FALSE, !.triton = FALSE]
  IN  /\ plain(Target) = plain(SourceModel)
      /\ \A maps \in {kvMap.keys, kvMap.values} : \A l \in DOMAIN maps :
           /\ maps[l].source = <<l - 1>> /\ maps[l].right = <<>> /\ maps[l].residual = <<>>
           /\ \A i \in DOMAIN maps[l].left : maps[l].bias[i] = 0
                /\ \A j \in DOMAIN maps[l].left[i] : maps[l].left[i][j] = IF i = j THEN 1 ELSE 0

SourceRun == [p \in Prompts |-> Dense(SourceModel, p, <<>>, 0)]

\* The KV a prompt is to arrive with, by maps that can be applied.
ReferenceKV(maps) ==
  LET row(m, residuals, l, content, t) ==
        ReferenceRow(m, IF pair.residual /\ pair.useResidual THEN residuals[l] ELSE <<>>, SourceModel, content, t)
      key(l, p, t) == row(maps.keys[l], pair.files.keyResiduals, l, SourceRun[p].content, t)
      value(l, p, t) == row(maps.values[l], pair.files.valueResiduals, l, SourceRun[p].values, t)
      table(t) == RopeTable(Target, t - 1)
  IN  [p \in Prompts |->
        [k |-> [l \in 1..Target.layers |-> [t \in 1..(Len(p) - 1) |->
                  [h \in 1..Target.kvHeads |-> ApplyRope(key(l, p, t)[h], table(t))]]],
         v |-> [l \in 1..Target.layers |-> [t \in 1..(Len(p) - 1) |-> value(l, p, t)]]]]

\* The hidden state of the last token of a prompt, after a plain prefill and after
\* a run over that token alone.
ReferenceHidden(kv) ==
  [p \in Prompts |->
     [plain |-> Dense(Target, p, <<>>, 0).x[Len(p)],
      resumed |-> IF kv = <<>> THEN <<>> ELSE Dense(Target, p, kv[p], Len(p) - 1).x[Len(p)]]]

-----------------------------------------------------------------------------
\* A forward, layer by layer.

Started(model, rows, metas) ==
  [rows |-> rows, metas |-> metas, x |-> Embeddings(model, rows), layer |-> 0]

NextLayer(model, cache) == Layer(model, flat.layer + 1, flat.x, flat.rows, flat.metas, cache)

Advanced(model, cache) == [flat EXCEPT !.x = NextLayer(model, cache).x, !.layer = @ + 1]

-----------------------------------------------------------------------------
\* The source side.

\* CrossModelKVMap.load.
LoadMap ==
  LET maps == Loaded(pair.files, pair.residual)
  IN  /\ pc = "load"
      /\ IF \/ LoadRaises(pair.files, pair.variant, pair.residual)
            \/ ~Accepts(maps, SourceModel, Target)
         THEN pc' = "refused" /\ UNCHANGED <<kvMap, refKV, refHidden>>
         ELSE /\ pc' = "idle" /\ kvMap' = maps
              /\ refKV' = IF MapRaises(maps, 1, pair.useResidual) THEN <<>> ELSE ReferenceKV(maps)
              /\ refHidden' = ReferenceHidden(refKV')
      /\ UNCHANGED <<sourceVars, targetVars, pair, flat>>

\* prefill_and_map up to the forward.  The allocation raises when the id is in use
\* or the pool too small.
Call(s, p) ==
  /\ pc = "idle" /\ calls < MaxCalls
  /\ IF s \in live \/ AllocateFails(Len(p), <<>>)
     THEN UNCHANGED <<bmVars, pc, sid, prompt, flat>>
     ELSE /\ Allocate(s, Len(p), <<>>)
          /\ pc' = "forward" /\ sid' = s /\ prompt' = p
          /\ LET slots == ContextSlots(blockIds'[s], Len(p))
             IN  flat' = Started(SourceModel, Rows(p, slots, 0), <<SeqMeta(slots, Len(p))>>)
  /\ calls' = calls + 1
  /\ UNCHANGED <<skv, mapped, raised, targetVars, loaded>>

ForwardSource ==
  /\ pc = "forward"
  /\ skv' = NextLayer(SourceModel, skv).cache
  /\ IF flat.layer + 1 < SourceModel.layers
     THEN flat' = Advanced(SourceModel, skv) /\ UNCHANGED pc
     ELSE flat' = <<>> /\ pc' = "map"
  /\ UNCHANGED <<bmVars, sid, prompt, mapped, calls, raised, targetVars, loaded>>

\* The device runs out of memory, before or after the write of a layer.  The
\* forward is outside the try: nothing frees the sequence.
ForwardRaises ==
  /\ pc = "forward" /\ pc' = "idle"
  /\ skv' \in {skv, NextLayer(SourceModel, skv).cache}
  /\ raised' = raised \cup {sid}
  /\ flat' = <<>>
  /\ UNCHANGED <<bmVars, sid, prompt, mapped, calls, targetVars, loaded>>

\* Mutant: the last token is transferred with the others.
MapWholePrompt ==
  LET slots == ContextSlots(blockIds[sid], Len(prompt))
  IN  MapKV(kvMap, Exported(skv, slots, SourceModel, "k"), Exported(skv, slots, SourceModel, "v"),
            SourceModel, Target, pair.useResidual)

\* map_prefix.
MapPrefix ==
  LET slots == ContextSlots(blockIds[sid], Len(prompt) - 1)
  IN  MapKV(kvMap, Exported(skv, slots, SourceModel, "k"), Exported(skv, slots, SourceModel, "v"),
            SourceModel, Target, pair.useResidual)

MapAndFree ==
  /\ pc = "map" /\ ~MapRaises(kvMap, Len(prompt) - 1, pair.useResidual)
  /\ pc' = "mapped" /\ mapped' = MapPrefix
  /\ Free(sid)
  /\ UNCHANGED <<skv, sid, prompt, calls, raised, targetVars, loaded, flat>>

\* Mutant: the sequence is freed when the map returns only.
MapRaisesAndKeeps ==
  /\ pc = "map" /\ pc' = "idle"
  /\ UNCHANGED <<sourceVars, targetVars, loaded, flat>>

\* The map raises, by its shapes or for want of memory; the sequence is freed.
MapRaisesAndFrees ==
  /\ pc = "map" /\ pc' = "idle"
  /\ Free(sid)
  /\ UNCHANGED <<skv, sid, prompt, mapped, calls, raised, targetVars, loaded, flat>>

-----------------------------------------------------------------------------
\* The target side.

\* _check_prefix_kv.
AdmissiblePrefix(kv, promptLen) ==
  /\ \A part \in {kv.k, kv.v} :
       /\ Len(part) = Target.layers
       /\ \A l \in DOMAIN part : Len(part[l]) = Len(kv.k[1])
       /\ \A l \in DOMAIN part : \A t \in DOMAIN part[l] :
            Len(part[l][t]) = Target.kvHeads
              /\ \A h \in DOMAIN part[l][t] : Len(part[l][t][h]) = Target.headDim
  /\ Len(kv.k[1]) > 0 /\ Len(kv.k[1]) < promptLen

\* escalate: add_request raises or queues the request.
Escalate ==
  /\ pc = "mapped" /\ pc' = "idle"
  /\ waiting' = IF AdmissiblePrefix(mapped, Len(prompt))
                THEN Append(waiting, [prompt |-> prompt, prefix |-> mapped]) ELSE waiting
  /\ mapped' = <<>>
  /\ UNCHANGED <<bmVars, skv, sid, prompt, calls, raised, tkv, answers, loaded, flat>>

\* The target is given a prompt of its own, without KV.
AddRequest(p) ==
  /\ pc = "idle" /\ calls < MaxCalls
  /\ waiting' = Append(waiting, [prompt |-> p, prefix |-> <<>>])
  /\ calls' = calls + 1
  /\ UNCHANGED <<bmVars, skv, sid, prompt, mapped, raised, tkv, answers, loaded, pc, flat>>

\* The blocks of the i-th request of a batch; those of the pool's end go first.
TargetTable(i) == [j \in 1..TableWidth |-> (MaxBatch - i + 1) * TableWidth - j]

\* The batch: the head of the queue.
Batch == SubSeq(waiting, 1, Min({Len(waiting), MaxBatch}))

BatchSlots(i) == ContextSlots(TargetTable(i), Len(Batch[i].prompt))

\* Prompt tokens that need no prefill.
Start(request) == IF request.prefix = <<>> THEN 0 ELSE Len(request.prefix.k[1])

\* A step of the target: the batch is admitted and its prefixes are imported
\* (scheduler.py:155-198).
Admit ==
  /\ pc = "idle" /\ waiting # <<>> /\ pc' = "step"
  /\ tkv' = [s \in DOMAIN tkv |->
       LET hits == {it \in {<<i, t>> : i \in DOMAIN Batch, t \in 1..(TableWidth * BlockSize)} :
                      it[2] <= Start(Batch[it[1]]) /\ BatchSlots(it[1])[it[2]] = s}
       IN  IF hits = {} THEN tkv[s]
           ELSE LET it == CHOOSE h \in hits : TRUE
                    kv == Batch[it[1]].prefix
                IN  [l \in DOMAIN kv.k |-> [k |-> kv.k[l][it[2]], v |-> kv.v[l][it[2]]]]]
  /\ flat' = Started(Target,
       FlattenSeq([i \in DOMAIN Batch |-> Rows(Batch[i].prompt, BatchSlots(i), Start(Batch[i]))]),
       [i \in DOMAIN Batch |-> SeqMeta(BatchSlots(i), Len(Batch[i].prompt) - Start(Batch[i]))])
  /\ UNCHANGED <<sourceVars, waiting, answers, loaded>>

\* What is left of the prompts is forwarded in one batch; the first token of each
\* is computed from its last row.
ForwardTarget ==
  /\ pc = "step"
  /\ tkv' = NextLayer(Target, tkv).cache
  /\ IF flat.layer + 1 < Target.layers
     THEN flat' = Advanced(Target, tkv) /\ UNCHANGED <<waiting, answers, pc>>
     ELSE LET x == NextLayer(Target, tkv).x
          IN  /\ answers' = [i \in DOMAIN Batch |->
                   Batch[i] @@ [hidden |-> x[RowStart(flat.metas, i + 1)]]]
              /\ waiting' = SubSeq(waiting, Len(Batch) + 1, Len(waiting))
              /\ flat' = <<>> /\ pc' = "idle"
  /\ UNCHANGED <<sourceVars, loaded>>

-----------------------------------------------------------------------------
Init ==
  /\ BMInit
  /\ pair \in Pairs
  /\ pc = "load" /\ kvMap = <<>> /\ mapped = <<>> /\ calls = 0 /\ raised = {}
  /\ sid = CHOOSE s \in Seqs : TRUE
  /\ prompt = CHOOSE p \in Prompts : TRUE
  /\ skv = ZeroCache(Blocks \X (0..(BlockSize - 1)), SourceModel)
  /\ waiting = <<>> /\ answers = <<>> /\ flat = <<>>
  /\ refKV = <<>> /\ refHidden = <<>>
  /\ tkv = ZeroCache((0..(MaxBatch * TableWidth - 1)) \X (0..(BlockSize - 1)), Target)

Next ==
  \/ LoadMap
  \/ \E s \in Seqs, p \in Prompts : Call(s, p)
  \/ ForwardSource \/ ForwardRaises
  \/ MapAndFree \/ MapRaisesAndFrees
  \/ Escalate
  \/ \E p \in Prompts : AddRequest(p)
  \/ Admit \/ ForwardTarget

Spec == Init /\ [][Next]_escalationVars

-----------------------------------------------------------------------------
\* Properties.

\* Between two calls every block of the source is free, except those of the
\* sequences whose forward raised; no call leaves anything else behind
\* (escalation.py:59-69).
EscalationInv ==
  /\ BMTypeOK /\ pc \in {"load", "idle", "forward", "map", "mapped", "step", "refused"}
  /\ live = raised \cup (IF pc \in {"forward", "map"} THEN {sid} ELSE {})
  /\ free = Blocks \ UNION {TableBlocks(s) : s \in live}

\* A map that passes validation yields KV that add_request takes, for every prompt
\* it can be applied to: load's checks and those of _check_prefix_kv agree.
MappedIsAdmissible == pc = "mapped" => AdmissiblePrefix(mapped, Len(prompt))

\* What arrives at the target is the map of the prompt's own content: rotated as
\* the target would, whichever blocks the source had it in, whatever they held
\* before (transfer.py:256-283, escalation.py:43-47).
TransferExact ==
  /\ pc = "mapped" => mapped = refKV[prompt]
  /\ \A i \in DOMAIN waiting :
       waiting[i].prefix # <<>> => waiting[i].prefix = refKV[waiting[i].prompt]

\* The token after the prompt is computed from that KV and the last token alone,
\* in any batch, on either backend; without KV, or with an identity map between a
\* model and itself, as by a plain prefill (tests/test_kv_transfer.py:11-13).
FirstTokenExact ==
  \A i \in DOMAIN answers :
    LET ref == refHidden[answers[i].prompt]
    IN  /\ answers[i].hidden = IF answers[i].prefix = <<>> THEN ref.plain ELSE ref.resumed
        /\ IdentityMap => answers[i].hidden = ref.plain
===============================================================================
