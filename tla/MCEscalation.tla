---------------------------- MODULE MCEscalation ----------------------------
(* Escalation with small models and maps, for TLC. *)
EXTENDS Escalation

Symmetry == Permutations(Blocks)

-----------------------------------------------------------------------------
\* Models: two KV heads of two dimensions, each for two query heads.  The modules
\* tell apart layers, heads, dimensions, tokens and models.

ModelOf(layers, theta, fused, triton) ==
  [layers |-> layers, kvHeads |-> 2, headDim |-> 2, groups |-> 2, vocab |-> 5, theta |-> theta,
   fused |-> fused, triton |-> triton]

Small == ModelOf(2, 1, FALSE, FALSE)

MCEmbed(m, tok) == (tok + m.theta) % 5
MCQuery(m, l, x) == [h \in 1..4 |-> [d \in 1..2 |-> ((x * h + l + d) % 3) - 1]]
MCKey(m, l, x) == [h \in 1..2 |-> [d \in 1..2 |-> ((x + h * d + 2 * l) % 3) - 1]]
MCValue(m, l, x) == [h \in 1..2 |-> [d \in 1..2 |-> (x * d + h + l) % 4]]
MCMix(m, l, x, out) == (x + SumFunction([h \in DOMAIN out |-> h * out[h][1] + 2 * out[h][2]])) % 5
MCGelu(x) == IF x < 0 THEN 0 ELSE x

-----------------------------------------------------------------------------
\* Map files.

Matrix(rows, cols, At(_, _)) == [i \in 1..rows |-> [j \in 1..cols |-> At(i, j)]]

Identity(l) ==
  [source |-> <<l - 1>>, left |-> Matrix(4, 4, LAMBDA i, j : IF i = j THEN 1 ELSE 0), right |-> <<>>,
   bias |-> <<0, 0, 0, 0>>, residual |-> <<>>]

\* Both source layers, the second first, through rank factors.
Factored(rank, inner) ==
  [source |-> <<1, 0>>, left |-> Matrix(8, rank, LAMBDA i, j : IF (i + j) % 4 = 0 THEN 1 ELSE 0),
   right |-> Matrix(inner, 4, LAMBDA i, j : IF i = j \/ i + 2 = j THEN 1 ELSE 0),
   bias |-> <<1, 0, -1, 0>>, residual |-> <<>>]

\* A source layer of its own, which may not exist.
Permuted(layer) ==
  [source |-> <<layer>>, left |-> Matrix(4, 4, LAMBDA i, j : IF i + j = 5 THEN 1 ELSE 0),
   right |-> <<>>, bias |-> <<0, 1, 0, 0>>, residual |-> <<>>]

Residual(l) == <<Matrix(1, 8, LAMBDA i, j : IF j = l THEN 1 ELSE 0), <<l>>, Matrix(4, 1, LAMBDA i, j : i % 2)>>

\* The bias of the hidden layer is too long: validation does not see it.
Misfit(l) == [Residual(l) EXCEPT ![2] = <<l, l>>]

Files(keys, values, residuals) ==
  [variants |-> {"ridge"}, keys |-> keys, values |-> values,
   keyResiduals |-> residuals, valueResiduals |-> residuals]

PairOf(files, variant, residual, target) ==
  [files |-> files, variant |-> variant, residual |-> residual, useResidual |-> TRUE, target |-> target]

IdentityFiles == Files([l \in 1..2 |-> Identity(l)], [l \in 1..2 |-> Identity(l)], <<>>)
CrossFiles(residuals) == Files([l \in 1..2 |-> Factored(2, 2)], [l \in 1..2 |-> Factored(3, 3)], residuals)
ShortFiles(layer) == Files(<<Permuted(layer)>>, <<Permuted(1)>>, <<>>)

MCPairs ==
  { PairOf(IdentityFiles, "ridge", FALSE, ModelOf(2, 1, TRUE, FALSE)),
    PairOf(IdentityFiles, "ridge", FALSE, ModelOf(2, 1, FALSE, TRUE)),
    PairOf(CrossFiles([l \in 1..2 |-> Residual(l)]), "ridge", TRUE, ModelOf(2, 3, FALSE, TRUE)),
    PairOf(ShortFiles(1), "ridge", FALSE, ModelOf(1, 3, TRUE, FALSE)),
    \* loaded with residuals that could not be applied, and used without them
    [PairOf(CrossFiles([l \in 1..2 |-> Misfit(l)]), "ridge", TRUE, ModelOf(2, 3, FALSE, FALSE))
       EXCEPT !.useResidual = FALSE],
    \* the factors of the keys do not fit each other: accepted, and map raises
    PairOf(Files([l \in 1..2 |-> Factored(2, 3)], [l \in 1..2 |-> Factored(2, 2)], <<>>), "ridge", FALSE,
           ModelOf(2, 3, FALSE, FALSE)),
    \* refused: a source layer that does not exist, other heads, a missing variant,
    \* a layer without a residual
    PairOf(ShortFiles(2), "ridge", FALSE, ModelOf(1, 3, TRUE, FALSE)),
    PairOf(IdentityFiles, "ridge", FALSE, [Small EXCEPT !.kvHeads = 1]),
    PairOf(IdentityFiles, "lasso", FALSE, Small),
    PairOf(CrossFiles(<<Residual(1)>>), "ridge", TRUE, ModelOf(2, 3, FALSE, FALSE)) }

MCPrompts == {<<1>>, <<1, 2>>, <<2, 1, 1>>, <<1, 2, 2>>}
=============================================================================
