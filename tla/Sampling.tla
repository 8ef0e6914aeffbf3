------------------------------- MODULE Sampling -------------------------------
(***************************************************************************)
(* From logits to the distribution tokens are drawn from,                  *)
(* dispec/sampling.py: greedy, or temperature, then top-k, then top-p.     *)
(*                                                                         *)
(* Abstracted: e is 2 and the inverse of the temperature is a natural      *)
(* number, 0 for greedy, so that the softmax of logits is a weight per     *)
(* token over the sum of the weights; -inf is a weight of 0.  top_p is     *)
(* params.topP / TopPUnit.  Which of equal logits comes first in a sort or *)
(* an argmax is left open.                                                 *)
(***************************************************************************)
EXTENDS Integers, SequencesExt

CONSTANT TopPUnit   \* 1.0

ASSUME TopPUnitAssumption == TopPUnit \in Nat \ {0}

Total(w) == SumFunction(w)

Support(w) == {t \in DOMAIN w : w[t] > 0}

Greedy(params) == params.sharpness = 0

Argmax(logits) == {t \in DOMAIN logits : \A u \in DOMAIN logits : logits[u] <= logits[t]}

Keep(w, kept) == [t \in DOMAIN w |-> IF t \in kept THEN w[t] ELSE 0]

\* The k-th largest weight and all that equal it survive.
TopK(w, k) ==
  LET rank(t) == Cardinality({u \in DOMAIN w : w[u] > w[t]})
  IN  IF k = 0 THEN w ELSE Keep(w, {t \in DOMAIN w : rank(t) < Min({k, Cardinality(DOMAIN w)})})

\* The descending orders of the tokens a sort may return.
Sorted(w) == {order \in SetToSeqs(DOMAIN w) : \A i \in 1..(Len(order) - 1) : w[order[i]] >= w[order[i + 1]]}

\* Mutant: the token that crosses top_p is removed as well.
TopPExcludesCrossing(w, topP, order) ==
  LET cum(i) == SumFunction([j \in 1..i |-> w[order[j]]])
      keep == {i \in DOMAIN order : i = 1 \/ cum(i) * TopPUnit <= topP * Total(w)}
  IN  IF topP < TopPUnit THEN Keep(w, {order[i] : i \in keep}) ELSE w

\* A token goes when what precedes it exceeds top_p; the first one stays.
TopP(w, topP, order) ==
  LET before(i) == SumFunction([j \in 1..(i - 1) |-> w[order[j]]])
      keep == {i \in DOMAIN order : i = 1 \/ before(i) * TopPUnit <= topP * Total(w)}
  IN  IF topP < TopPUnit THEN Keep(w, {order[i] : i \in keep}) ELSE w

\* Softmax of the logits over the temperature.
Weights(logits, params) == [t \in DOMAIN logits |-> 2^(logits[t] * params.sharpness)]

\* The distributions logits_to_probs may return.
LogitsToProbs(logits, params) ==
  IF Greedy(params)
  THEN {[t \in DOMAIN logits |-> IF t = best THEN 1 ELSE 0] : best \in Argmax(logits)}
  ELSE LET w == TopK(Weights(logits, params), params.topK)
       IN  {TopP(w, params.topP, order) : order \in Sorted(w)}
===============================================================================
