------------------------------ MODULE KVTransfer ------------------------------
(***************************************************************************)
(* Turning one model's keys and values into another's,                     *)
(* dispec/kv/transfer.py: the rotary embedding is stripped from the source *)
(* keys, the selected source layers are concatenated into a design row, a  *)
(* linear map with an optional residual is applied, and the target's       *)
(* embedding is put on the result.                                         *)
(*                                                                         *)
(* A model config is a record [layers, kvHeads, headDim, vocab, theta];    *)
(* contiguous KV is kv[layer][token][head][dim], layers and tokens counted *)
(* from 1, source layers of a map from 0.  A map of one layer is a record  *)
(* [source, left, right, bias, residual]: right is <<>> when the weight is *)
(* one matrix, the residual is <<>> or <<down, downBias, up>>, the latter  *)
(* two as stored by Linear, one row per output.                            *)
(*                                                                         *)
(* Abstracted: numbers are integers, an angle is a number of quarter       *)
(* turns, so a rotation is exact; dtypes, devices and file formats are     *)
(* left out.                                                               *)
(***************************************************************************)
EXTENDS Integers, SequencesExt

CONSTANT Gelu(_)   \* the activation of the residual

-----------------------------------------------------------------------------
\* Rotary embeddings.

\* rope_tables: cos and sin at a position, by the model's own frequency.
RopeTable(config, pos) ==
  LET turns == (config.theta * pos) % 4
  IN  [cos |-> <<1, 0, -1, 0>>[turns + 1], sin |-> <<0, 1, 0, -1>>[turns + 1]]

RotateHalf(x) ==
  LET half == Len(x) \div 2
  IN  [d \in DOMAIN x |-> IF d <= half THEN -x[d + half] ELSE x[d - half]]

ApplyRope(x, table) == [d \in DOMAIN x |-> x[d] * table.cos + RotateHalf(x)[d] * table.sin]

StripRope(x, table) == [d \in DOMAIN x |-> x[d] * table.cos - RotateHalf(x)[d] * table.sin]

-----------------------------------------------------------------------------
\* The map of one layer.

Matrices == {m \in Seq(Seq(Int)) : m # <<>> /\ \A i \in DOMAIN m : Len(m[i]) = Len(m[1])}

\* LayerMap, before it is given a residual.
LayerMaps ==
  [source : Seq(Int), left : Matrices, right : Matrices \cup {<<>>}, bias : Seq(Int), residual : {<<>>}]

\* LayerMap.residual
Residuals == Matrices \X Seq(Int) \X Matrices

\* x @ matrix
Times(x, matrix) ==
  [j \in DOMAIN matrix[1] |-> SumFunction([i \in DOMAIN x |-> x[i] * matrix[i][j]])]

\* linear(x, weight)
Linear(x, weight) == [j \in DOMAIN weight |-> SumFunction([i \in DOMAIN x |-> x[i] * weight[j][i]])]

Plus(x, y) == [i \in DOMAIN x |-> x[i] + y[i]]

\* LayerMap.apply
Mapped(m, x, useResidual) ==
  LET xw == IF m.right = <<>> THEN Times(x, m.left) ELSE Times(Times(x, m.left), m.right)
      y == Plus(xw, m.bias)
      hidden == Plus(Linear(x, m.residual[1]), m.residual[2])
  IN  IF useResidual /\ m.residual # <<>>
      THEN Plus(y, Linear([i \in DOMAIN hidden |-> Gelu(hidden[i])], m.residual[3])) ELSE y

\* Mutant: the heads are concatenated before the layers.
DesignRowByHead(kv, m, t) ==
  FlattenSeq([h \in DOMAIN kv[1][t] |-> FlattenSeq([i \in DOMAIN m.source |-> kv[m.source[i] + 1][t][h]])])

\* The design row of a token: its source layers, then heads, then dimensions.
DesignRow(kv, m, t) == FlattenSeq([i \in DOMAIN m.source |-> FlattenSeq(kv[m.source[i] + 1][t])])

\* A row cut into heads.
Heads(row, dim) == [h \in 1..(Len(row) \div dim) |-> SubSeq(row, (h - 1) * dim + 1, h * dim)]

\* _apply, before the rotation of the keys.
Applied(kv, maps, config, useResidual) ==
  [l \in DOMAIN maps |-> [t \in DOMAIN kv[1] |->
     Heads(Mapped(maps[l], DesignRow(kv, maps[l], t), useResidual), config.headDim)]]

\* The keys of contiguous KV without their rotation, and with it.
Stripped(k, config) ==
  [l \in DOMAIN k |-> [t \in DOMAIN k[l] |-> [h \in DOMAIN k[l][t] |->
     StripRope(k[l][t][h], RopeTable(config, t - 1))]]]

Restored(k, config) ==
  [l \in DOMAIN k |-> [t \in DOMAIN k[l] |-> [h \in DOMAIN k[l][t] |->
     ApplyRope(k[l][t][h], RopeTable(config, t - 1))]]]

\* CrossModelKVMap.map
MapKV(kvMap, k, v, src, tgt, useResidual) ==
  [k |-> Restored(Applied(Stripped(k, src), kvMap.keys, tgt, useResidual), tgt),
   v |-> Applied(v, kvMap.values, tgt, useResidual)]

\* Whether the matrices of a layer map can be multiplied: the inner dimensions of
\* its factors and of its residual, which validation does not look at.
InnerFits(m, useResidual) ==
  /\ m.right # <<>> => Len(m.left[1]) = Len(m.right)
  /\ useResidual /\ m.residual # <<>> =>
       Len(m.residual[1]) = Len(m.residual[2]) /\ Len(m.residual[2]) = Len(m.residual[3][1])

\* map() raises: no design row can be made of an empty prefix, or a product fails.
MapRaises(kvMap, tokens, useResidual) ==
  \/ tokens = 0
  \/ \E maps \in {kvMap.keys, kvMap.values} : \E l \in DOMAIN maps : ~InnerFits(maps[l], useResidual)

-----------------------------------------------------------------------------
\* Validation.

KVDim(config) == config.kvHeads * config.headDim

SourceLayersExist(m, src) == \A i \in DOMAIN m.source : m.source[i] \in 0..(src.layers - 1)

\* The outer dimensions of a layer map; nothing looks at the inner ones.
ShapeFits(m, config) ==
  LET design == Len(m.source) * KVDim(config)
      outer == IF m.right = <<>> THEN m.left ELSE m.right
  IN  /\ Len(m.left) = design /\ Len(outer[1]) = KVDim(config) /\ Len(m.bias) = KVDim(config)
      /\ m.residual # <<>> =>
           Len(m.residual[1][1]) = design /\ Len(m.residual[3]) = KVDim(config)

\* _check accepts the map.
Accepts(kvMap, src, tgt) ==
  /\ src.kvHeads = tgt.kvHeads /\ src.headDim = tgt.headDim /\ src.vocab = tgt.vocab
  /\ \A maps \in {kvMap.keys, kvMap.values} :
       /\ Len(maps) = tgt.layers
       /\ \A l \in DOMAIN maps : SourceLayersExist(maps[l], src) /\ ShapeFits(maps[l], tgt)

-----------------------------------------------------------------------------
\* Loading.

\* Every layer map gets the residual trained for it.
WithResiduals(maps, residuals) == [l \in DOMAIN maps |-> [maps[l] EXCEPT !.residual = residuals[l]]]

\* load(): files is [variants, keys, values, keyResiduals, valueResiduals], what the
\* directories hold.  It raises when the variant is not there or a layer has no residual.
LoadRaises(files, variant, withResidual) ==
  \/ variant \notin files.variants
  \/ withResidual /\ ( Len(files.keyResiduals) < Len(files.keys)
                      \/ Len(files.valueResiduals) < Len(files.values))

Loaded(files, withResidual) ==
  IF withResidual
  THEN [keys |-> WithResiduals(files.keys, files.keyResiduals),
        values |-> WithResiduals(files.values, files.valueResiduals)]
  ELSE [keys |-> files.keys, values |-> files.values]
===============================================================================
