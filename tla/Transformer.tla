----------------------------- MODULE Transformer -----------------------------
(***************************************************************************)
(* ModelRunner.forward of dispec/engine/model_runner.py with numbers, one  *)
(* layer at a time: a flat batch and a paged cache.                        *)
(*                                                                         *)
(* A model is a config of KVTransfer with groups (query heads per KV head) *)
(* and the flags fused and triton.  The weight modules of the model are    *)
(* CONSTANT operators: the embedding, the projections with their norms,    *)
(* and the rest of a layer, Mix.  A row is [tok, pos, slot];               *)
(* cache[slot][l] is [k, v], by heads.                                     *)
(***************************************************************************)
EXTENDS ModelRunner, PagedAttention, KVTransfer

CONSTANTS
  Embed(_, _),        \* model, token
  Query(_, _, _),     \* model, layer, hidden: the query heads before rotation
  KeyOf(_, _, _), ValueOf(_, _, _),
  Mix(_, _, _, _)     \* model, layer, hidden, attention output by heads

FirstSlot == <<0, 0>>

\* One GEMM for q, k and v, split by their sizes, or one for each.
Projected(model, l, x) ==
  LET q == Query(model, l, x)
      k == KeyOf(model, l, x)
      v == ValueOf(model, l, x)
      qkv == FlattenSeq(q) \o FlattenSeq(k) \o FlattenSeq(v)
      qSize == model.kvHeads * model.groups * model.headDim
      kvSize == KVDim(model)
      part(first, n) == Heads(SubSeq(qkv, first + 1, first + n), model.headDim)
  IN  IF model.fused
      THEN [q |-> part(0, qSize), k |-> part(qSize, kvSize), v |-> part(qSize + kvSize, kvSize)]
      ELSE [q |-> q, k |-> k, v |-> v]

\* Queries and keys get the rotation of their position, values none.
Embedded(model, p, pos) ==
  LET rotate(heads) == [h \in DOMAIN heads |-> ApplyRope(heads[h], RopeTable(model, pos))]
  IN  [q |-> rotate(p.q), k |-> rotate(p.k), v |-> p.v]

\* PagedKVCache.write, one layer.
WriteLayer(cache, l, rows, proj) ==
  [s \in DOMAIN cache |->
     LET hits == {i \in DOMAIN rows : rows[i].slot = s}
     IN  IF hits = {} THEN cache[s]
         ELSE LET p == proj[CHOOSE i \in hits : TRUE] IN [cache[s] EXCEPT ![l] = [k |-> p.k, v |-> p.v]]]

\* A query head attends with the KV head of its group, on the kernel or by SDPA.
Attend(model, q, context, batched) ==
  [h \in DOMAIN q |->
     LET kvHead == (h - 1) \div model.groups + 1
         keys == [c \in DOMAIN context |-> context[c].k[kvHead]]
         values == [c \in DOMAIN context |-> context[c].v[kvHead]]
     IN  IF batched THEN PagedDecode(q[h], keys, values) ELSE Sdpa(q[h], keys, values)]

\* The attention output of every row, by sequence and by row of the sequence.
AttentionRows(model, l, metas, proj, cache) ==
  LET read == [s \in DOMAIN cache \cup {ZeroSlot} |-> cache[IF s = ZeroSlot THEN FirstSlot ELSE s][l]]
      row(i, j) == Attend(model, proj[RowStart(metas, i) + j].q,
                          RowContext(metas, model.triton, i, j, proj, read),
                          BatchedDecode(metas, model.triton))
  IN  FlattenSeq([i \in DOMAIN metas |-> [j \in 1..metas[i].q |-> row(i, j)]])

\* The rows of a batch before the first layer, and one layer over them: their
\* hidden states and the cache.
Embeddings(model, rows) == [i \in DOMAIN rows |-> Embed(model, rows[i].tok)]

Layer(model, l, x, rows, metas, cache) ==
  LET proj == [i \in DOMAIN rows |-> Embedded(model, Projected(model, l, x[i]), rows[i].pos)]
      written == WriteLayer(cache, l, rows, proj)
      out == AttentionRows(model, l, metas, proj, written)
  IN  [x |-> [i \in DOMAIN rows |-> Mix(model, l, x[i], out[i])], cache |-> written]
==============================================================================
