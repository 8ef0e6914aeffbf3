---------------------------- MODULE PagedAttention ----------------------------
(***************************************************************************)
(* Attention over a list of keys and values, for one query head: as the    *)
(* softmax of all scores (scaled_dot_product_attention) and as the Triton  *)
(* kernel of dispec/engine/triton_attn.py computes it, tile by tile with a *)
(* running maximum and no score vector.                                    *)
(*                                                                         *)
(* Abstracted: numbers are integers, e is 2 and a weight is a whole number *)
(* of units of 2^-Precision, exact as long as the scores of a context span *)
(* at most Precision; the factor scale is part of the query.               *)
(***************************************************************************)
EXTENDS Integers, SequencesExt

CONSTANTS
  TileSize,    \* BLOCK_N
  Precision

ASSUME TileAssumption == TileSize \in Nat \ {0} /\ Precision \in Nat

Dot(a, b) == SumFunction([d \in DOMAIN a |-> a[d] * b[d]])

\* 2^x in units, for x <= 0; nothing is left of a weight below the last unit.
Exp(x) == IF x < -Precision THEN 0 ELSE 2^(Precision + x)

\* amount * 2^x, for x <= 0.
Shrunk(amount, x) == IF x < -Precision THEN 0 ELSE amount \div 2^(-x)

NegInf == -1000   \* below any score

-----------------------------------------------------------------------------
\* The weighted mean of the values, with weights softmax(scores).
Softmax(scores, values) ==
  LET top == Max(Range(scores))
      w == [c \in DOMAIN scores |-> Exp(scores[c] - top)]
  IN  [d \in DOMAIN values[1] |-> SumFunction([c \in DOMAIN w |-> w[c] * values[c][d]]) \div SumFunction(w)]

Sdpa(query, keys, values) == Softmax([c \in DOMAIN keys |-> Dot(query, keys[c])], values)

-----------------------------------------------------------------------------
\* The lanes of a tile of the context, and their scores: those beyond the context
\* are masked out.
Lanes(start) == start..(start + TileSize - 1)

Scores(query, keys, start) ==
  [c \in Lanes(start) |-> IF c <= Len(keys) THEN Dot(query, keys[c]) ELSE NegInf]

\* Mutant: what was accumulated is not rescaled when the maximum moves.
TileNoRescale(s, scores, column) ==
  LET m == Max({s.m} \cup Range(scores))
      w == [c \in DOMAIN scores |-> Exp(scores[c] - m)]
  IN  [m |-> m, l |-> s.l + SumFunction(w),
       acc |-> s.acc + SumFunction([c \in DOMAIN w |-> IF c <= Len(column) THEN w[c] * column[c] ELSE 0])]

\* One iteration of the loop, for one dimension of the values: what was accumulated
\* under the old maximum m is rescaled to the new one.
Tile(s, scores, column) ==
  LET m == Max({s.m} \cup Range(scores))
      w == [c \in DOMAIN scores |-> Exp(scores[c] - m)]
      value(c) == IF c <= Len(column) THEN column[c] ELSE 0
  IN  [m |-> m,
       l |-> Shrunk(s.l, s.m - m) + SumFunction(w),
       acc |-> Shrunk(s.acc, s.m - m) + SumFunction([c \in DOMAIN w |-> w[c] * value(c)])]

\* The kernel, for the keys and values its row of the slot table leads to.
PagedDecode(query, keys, values) ==
  LET tiles == (Len(keys) + TileSize - 1) \div TileSize
      run(column) ==
        LET after[t \in 0..tiles] ==
              IF t = 0 THEN [m |-> NegInf, l |-> 0, acc |-> 0]
              ELSE Tile(after[t - 1], Scores(query, keys, (t - 1) * TileSize + 1), column)
        IN  after[tiles]
      mean(s) == s.acc \div s.l
  IN  [d \in DOMAIN query |-> mean(run([c \in DOMAIN values |-> values[c][d]]))]
==============================================================================
