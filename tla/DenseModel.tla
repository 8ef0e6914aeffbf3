----------------------------- MODULE DenseModel -----------------------------
(***************************************************************************)
(* What a forward and a map are to compute, said without pages, batches,   *)
(* kernels, fused products or factors: a model run token by token over     *)
(* plain sequences, and a layer map as one affine function of the content  *)
(* of a token.  Nothing here models code; Escalation compares with it.     *)
(***************************************************************************)
EXTENDS Transformer

\* One layer over what the layers before it made, for the tokens from position
\* first + 1 on.  The rotated keys and the values of the first ones are given.
DenseLayer(model, tokens, given, first, l, prev) ==
  LET new == (first + 1)..Len(tokens)
      rope(head, t) == ApplyRope(head, RopeTable(model, t - 1))
      content == [t \in new |-> KeyOf(model, l, prev.x[t])]
      values == [t \in new |-> ValueOf(model, l, prev.x[t])]
      key(t, h) == IF t \in new THEN rope(content[t][h], t) ELSE given.k[l][t][h]
      value(t, h) == IF t \in new THEN values[t][h] ELSE given.v[l][t][h]
      out(t) ==
        LET q == Query(model, l, prev.x[t])
        IN  [h \in DOMAIN q |->
               LET kv == (h - 1) \div model.groups + 1
               IN  Sdpa(rope(q[h], t), [u \in 1..t |-> key(u, kv)], [u \in 1..t |-> value(u, kv)])]
  IN  [x |-> [t \in new |-> Mix(model, l, prev.x[t], out(t))],
       content |-> Append(prev.content, content), values |-> Append(prev.values, values)]

\* A model over tokens, layer by layer: hidden states by token, content keys and
\* values by layer and token.
DenseRun(model, tokens, given, first) ==
  LET run[l \in 0..model.layers] ==
        IF l = 0
        THEN [x |-> [t \in (first + 1)..Len(tokens) |-> Embed(model, tokens[t])],
              content |-> <<>>, values |-> <<>>]
        ELSE DenseLayer(model, tokens, given, first, l, run[l - 1])
  IN  run

Dense(model, tokens, given, first) == DenseRun(model, tokens, given, first)[model.layers]

\* The content of a token in the source layers of a map, by layer, head, dimension.
ContentRow(m, config, content, t) ==
  LET width == KVDim(config)
  IN  [n \in 1..(Len(m.source) * width) |->
         LET layer == m.source[(n - 1) \div width + 1] + 1
             head == (((n - 1) % width) \div config.headDim) + 1
         IN  content[layer][t][head][((n - 1) % config.headDim) + 1]]

\* The entry of the matrix a map multiplies by, its factors multiplied out.
WeightAt(m, n, j) ==
  IF m.right = <<>> THEN m.left[n][j]
  ELSE SumFunction([r \in DOMAIN m.right |-> m.left[n][r] * m.right[r][j]])

\* What the residual adds in dimension j.
CorrectionAt(residual, x, j) ==
  LET hidden == [r \in DOMAIN residual[1] |->
                   Gelu(residual[2][r] + SumFunction([n \in DOMAIN x |-> residual[1][r][n] * x[n]]))]
  IN  IF residual = <<>> THEN 0
      ELSE SumFunction([r \in DOMAIN hidden |-> hidden[r] * residual[3][j][r]])

\* What a layer map makes of the content of a token.
ReferenceRow(m, residual, config, content, t) ==
  LET x == ContentRow(m, config, content, t)
  IN  [h \in 1..config.kvHeads |-> [d \in 1..config.headDim |->
         LET j == (h - 1) * config.headDim + d
         IN  m.bias[j] + SumFunction([n \in DOMAIN x |-> x[n] * WeightAt(m, n, j)])
                       + CorrectionAt(residual, x, j)]]
==============================================================================
