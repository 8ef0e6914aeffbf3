------------------------------ MODULE Rejection ------------------------------
(***************************************************************************)
(* The acceptance test of speculative decoding, rejection_sample of        *)
(* dispec/spec/rejection.py, on the distributions that Sampling makes of   *)
(* the logits of draft and target: drafted tokens are accepted or the      *)
(* first rejected one is replaced by a correction; when all are accepted a *)
(* bonus token follows.                                                    *)
(*                                                                         *)
(* Abstracted: a probability is a weight over the sum of its row, with the *)
(* two rows of a position brought to the same sum, and a random draw is a  *)
(* choice among the outcomes of positive probability.                      *)
(***************************************************************************)
EXTENDS Sampling

CONSTANTS
  Vocab,
  Rows,     \* the logits a model may compute for a position
  Params    \* the sampling parameters: [sharpness, topK, topP]

\* A row has a logit for every token.
ASSUME RowsAssumption ==
  /\ IsFiniteSet(Vocab) /\ Vocab # {}
  /\ Rows \subseteq [Vocab -> Nat] /\ Params \subseteq [sharpness : Nat, topK : Nat, topP : Nat]

\* Powers of two are positive and in the order of their exponents.
ASSUME ExpAssumption ==
  \A row \in Rows, pr \in Params :
    /\ Weights(row, pr) \in [Vocab -> Nat \ {0}]
    /\ ~Greedy(pr) =>
         \A t, u \in Vocab : Weights(row, pr)[t] <= Weights(row, pr)[u] <=> row[t] <= row[u]

VARIABLES
  params,
  logits,    \* of the target at each position
  draft,     \* draft_tokens
  q, p,      \* the distributions of draft and target at each position
  bonus,     \* p_bonus
  out,       \* output tokens so far
  accepted   \* num_draft_accepted, -1 before the return

inputs == <<params, logits, draft, q, p, bonus>>
rejectionVars == <<inputs, out, accepted>>

\* The row w over the sum Total(w) * Total(v).
Scaled(w, v) == [t \in Vocab |-> w[t] * Total(v)]

\* The units of q[t] that are accepted: q[t] * min(1, p[t] / q[t]).
AcceptUnits(w, v, t) == IF w[t] <= 0 THEN w[t] ELSE Min({w[t], v[t]})

\* Mutant: the correction is drawn from the target distribution itself.
CorrectionFromTarget(w, v) == v

\* normalize((p - q)+), or p when nothing is left.
Correction(w, v) ==
  LET resid == [t \in Vocab |-> Max({0, v[t] - w[t]})]
  IN  IF SumFunction(resid) > 0 THEN resid ELSE v

-----------------------------------------------------------------------------
Position == Len(out) + 1

Testing == accepted = -1 /\ Position <= Len(draft)

\* Mutant: the test reads the target's distribution one position ahead.
AcceptNextRow ==
  /\ Testing
  /\ AcceptUnits(q[Position], (Append(p, bonus))[Position + 1], draft[Position]) > 0
  /\ out' = Append(out, draft[Position])
  /\ UNCHANGED accepted

\* Lines 39-46.
Accept ==
  /\ Testing
  /\ AcceptUnits(q[Position], p[Position], draft[Position]) > 0
  /\ out' = Append(out, draft[Position])
  /\ UNCHANGED accepted

\* Lines 47-52.
Correct ==
  /\ Testing
  /\ AcceptUnits(q[Position], p[Position], draft[Position]) < q[Position][draft[Position]]
  /\ \E t \in Support(Correction(q[Position], p[Position])) : out' = Append(out, t)
  /\ accepted' = Len(out)

\* Lines 53-54.
Bonus ==
  /\ accepted = -1 /\ Position > Len(draft)
  /\ \E t \in Support(bonus) : out' = Append(out, t)
  /\ accepted' = Len(draft)

\* What may come out of a model for a position: its logits and their distribution.
Computed ==
  [pr \in Params |-> UNION {{[logits |-> row, probs |-> w] : w \in LogitsToProbs(row, pr)} : row \in Rows}]

\* A call with K drafted tokens, each drawn from its distribution.  Both models
\* sample with the parameters of the request.
InitWith(K) ==
  /\ params \in Params
  /\ \E drafts \in [1..K -> Computed[params]], targets \in [1..(K + 1) -> Computed[params]] :
       /\ logits = [i \in 1..(K + 1) |-> targets[i].logits]
       /\ q = [i \in 1..K |-> Scaled(drafts[i].probs, targets[i].probs)]
       /\ p = [i \in 1..K |-> Scaled(targets[i].probs, drafts[i].probs)]
       /\ bonus = targets[K + 1].probs
  /\ draft \in {d \in [1..K -> Vocab] : \A i \in 1..K : q[i][d[i]] > 0}
  /\ out = <<>> /\ accepted = -1

Tested == Accept \/ Correct \/ Bonus

Next == Tested /\ UNCHANGED inputs

-----------------------------------------------------------------------------
\* Properties.

\* A token leaves position i with the probability the target gives it, whatever
\* the draft proposes: what is accepted of t, plus what is rejected in all times
\* the share of t in the correction, is p[t].
Lossless ==
  \A i \in DOMAIN draft : \A t \in Vocab :
    LET correction == Correction(q[i], p[i])
        units == [u \in Vocab |-> AcceptUnits(q[i], p[i], u)]
    IN  units[t] * SumFunction(correction) + (Total(q[i]) - SumFunction(units)) * correction[t]
          = p[i][t] * SumFunction(correction)

\* Every token of the output is one the target can emit at its position.
TargetCanEmit == \A i \in DOMAIN out : (Append(p, bonus))[i][out[i]] > 0

\* Whether the tokens kept of a row of logits are the most likely ones that top-k
\* and top-p ask for: those that are kept are more likely than the others, without
\* any one of them top_p is not exceeded by the rest above it, and together they
\* exceed it or nothing is left to add.  A greedy row keeps one token of the highest
\* logit.
Nucleus(kept, row, pr) ==
  LET w == Weights(row, pr)
      ranked == {t \in Vocab : pr.topK = 0 \/ Cardinality({u \in Vocab : row[u] > row[t]}) < pr.topK}
      mass(S) == SumFunction([t \in S |-> w[t]])
      limit == pr.topP * mass(ranked)
  IN  IF Greedy(pr) THEN \E best \in Argmax(row) : kept = {best}
      ELSE /\ kept # {} /\ kept \subseteq ranked
           /\ \A t \in kept, u \in Vocab \ kept : row[u] <= row[t]
           /\ Cardinality(kept) > 1 => \E t \in kept : mass(kept \ {t}) * TopPUnit <= limit
           /\ mass(kept) * TopPUnit > limit \/ kept = ranked

\* A token can be drawn, from the target at any position, exactly if it is in the
\* nucleus of the logits there (sampling.py:31-45).
KeptIsNucleus ==
  \A i \in DOMAIN logits : Nucleus(Support((Append(p, bonus))[i]), logits[i], params)
==============================================================================
