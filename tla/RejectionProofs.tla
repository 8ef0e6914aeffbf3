---------------------------- MODULE RejectionProofs ----------------------------
(***************************************************************************)
(* Rejection sampling draws from the target's distribution, and that       *)
(* distribution is the nucleus of its logits, for any vocabulary, rows of  *)
(* both models, sampling parameters and number of drafted tokens.          *)
(***************************************************************************)
EXTENDS Rejection, ListLemmas

\* A distribution: the weight of every token.
Weighting == [Vocab -> Nat]

LEMMA Products == \A a, b \in Nat : a * b \in Nat
OBVIOUS

\* Cutting a row off keeps it a row of weights.
LEMMA KeepTypes == ASSUME NEW w \in Weighting, NEW kept PROVE Keep(w, kept) \in Weighting
BY DEF Keep, Weighting

\* Whatever the parameters, the sampling distribution is a row of weights.
LEMMA ProbsTypes ==
  ASSUME NEW row \in Rows, NEW pr \in Params, NEW w \in LogitsToProbs(row, pr)
  PROVE  w \in Weighting
<1>1. Weights(row, pr) \in Weighting /\ DOMAIN row = Vocab
  <2>1. Weights(row, pr) \in Weighting
    BY ExpAssumption DEF Weighting
  <2>2. DOMAIN Weights(row, pr) = DOMAIN row
    BY DEF Weights
  <2> QED BY <2>1, <2>2 DEF Weighting
<1>2. CASE Greedy(pr)
  BY <1>1, <1>2 DEF LogitsToProbs, Weighting
<1>3. CASE ~Greedy(pr)
  <2>1. TopK(Weights(row, pr), pr.topK) \in Weighting
    BY <1>1, KeepTypes DEF TopK
  <2>2. PICK order : w = TopP(TopK(Weights(row, pr), pr.topK), pr.topP, order)
    BY <1>3 DEF LogitsToProbs
  <2> QED BY <2>1, <2>2, KeepTypes DEF TopP
<1> QED BY <1>2, <1>3

\* Two rows brought to a common sum.
LEMMA ScaledRows ==
  ASSUME NEW w \in Weighting, NEW v \in Weighting
  PROVE  /\ Scaled(w, v) \in Weighting /\ Total(Scaled(w, v)) = Total(w) * Total(v)
         /\ Total(w) \in Nat /\ Total(v) \in Nat
<1>1. Total(w) \in Nat /\ Total(v) \in Nat
  BY RowsAssumption, SumOfNats DEF Total, Weighting
<1>2. Scaled(w, v) = [t \in Vocab |-> w[t] * Total(v)]
  BY DEF Scaled
<1>3. Scaled(w, v) \in [Vocab -> Nat] /\ SumFunction(Scaled(w, v)) = SumFunction(w) * Total(v)
  BY <1>1, <1>2, RowsAssumption, SumOfProducts DEF Weighting
<1> QED BY <1>1, <1>3 DEF Total, Weighting

\* What is accepted of a token, and what is missing of it: together its weight.
LEMMA UnitsAndRest ==
  ASSUME NEW w \in Weighting, NEW v \in Weighting, NEW t \in Vocab
  PROVE  /\ AcceptUnits(w, v, t) = IF w[t] <= v[t] THEN w[t] ELSE v[t]
         /\ Max({0, v[t] - w[t]}) = IF w[t] <= v[t] THEN v[t] - w[t] ELSE 0
<1>1. PICK a \in Nat, b \in Nat : a = w[t] /\ b = v[t]
  BY DEF Weighting
<1>2. Min({a, b}) = IF a <= b THEN a ELSE b
  <2>1. \E x \in {a, b} : \A y \in {a, b} : x <= y
    <3>1. CASE a <= b
      BY <3>1
    <3>2. CASE ~(a <= b)
      BY <3>2
    <3> QED BY <3>1, <3>2
  <2>2. Min({a, b}) \in {a, b} /\ \A y \in {a, b} : Min({a, b}) <= y
    BY <2>1, Zenon DEF Min
  <2> QED BY <2>2
<1>3. PICK d \in Int : d = b - a
  <2>1. b - a \in Int
    OBVIOUS
  <2> QED BY <2>1
<1>4. Max({0, d}) = IF d >= 0 THEN d ELSE 0
  <2>1. \E x \in {0, d} : \A y \in {0, d} : x >= y
    <3>1. CASE d >= 0
      BY <3>1
    <3>2. CASE ~(d >= 0)
      BY <3>2
    <3> QED BY <3>1, <3>2
  <2>2. Max({0, d}) \in {0, d} /\ \A y \in {0, d} : Max({0, d}) >= y
    BY <2>1, Zenon DEF Max
  <2> QED BY <2>2
<1>5. AcceptUnits(w, v, t) = IF a <= b THEN a ELSE b
  BY <1>1, <1>2 DEF AcceptUnits
<1>6. Max({0, v[t] - w[t]}) = IF a <= b THEN b - a ELSE 0
  BY <1>1, <1>3, <1>4
<1> QED BY <1>1, <1>5, <1>6
-----------------------------------------------------------------------------
\* What leaves a position is distributed as the target's row of it: what is accepted
\* of a token, plus its share of the correction in what is rejected in all.
LEMMA ResidualMakesUp ==
  ASSUME NEW w \in Weighting, NEW v \in Weighting, Total(w) = Total(v), NEW t \in Vocab
  PROVE  LET correction == Correction(w, v)
             units == [u \in Vocab |-> AcceptUnits(w, v, u)]
         IN  units[t] * SumFunction(correction) + (Total(w) - SumFunction(units)) * correction[t]
               = v[t] * SumFunction(correction)
<1> DEFINE units == [u \in Vocab |-> AcceptUnits(w, v, u)]
           resid == [u \in Vocab |-> Max({0, v[u] - w[u]})]
<1>1. ASSUME NEW u \in Vocab
      PROVE  units[u] \in Nat /\ resid[u] \in Nat /\ v[u] \in Nat /\ v[u] = units[u] + resid[u]
  <2>1. units[u] = AcceptUnits(w, v, u) /\ resid[u] = Max({0, v[u] - w[u]})
    OBVIOUS
  <2>2. /\ AcceptUnits(w, v, u) = IF w[u] <= v[u] THEN w[u] ELSE v[u]
        /\ Max({0, v[u] - w[u]}) = IF w[u] <= v[u] THEN v[u] - w[u] ELSE 0
    BY UnitsAndRest
  <2> HIDE DEF units, resid
  <2>3. PICK a \in Nat, b \in Nat : a = w[u] /\ b = v[u]
    BY DEF Weighting
  <2>4. units[u] = (IF a <= b THEN a ELSE b) /\ resid[u] = (IF a <= b THEN b - a ELSE 0)
    BY <2>1, <2>2, <2>3
  <2> QED BY <2>3, <2>4
<1>2. units \in Weighting /\ resid \in Weighting
  <2>1. units = [u \in Vocab |-> units[u]] /\ resid = [u \in Vocab |-> resid[u]]
    OBVIOUS
  <2> HIDE DEF units, resid
  <2> QED BY <1>1, <2>1 DEF Weighting
<1>3. Correction(w, v) = IF SumFunction(resid) > 0 THEN resid ELSE v
  BY DEF Correction
<1> HIDE DEF units, resid
<1>4. PICK U \in Nat, R \in Nat, P \in Nat : U = SumFunction(units) /\ R = SumFunction(resid) /\ P = SumFunction(v)
  BY <1>2, RowsAssumption, SumOfNats DEF Weighting
<1>5. P = U + R
  <2>1. \A u \in Vocab : v[u] = units[u] + resid[u]
    BY <1>1
  <2>2. units \in [Vocab -> Int] /\ resid \in [Vocab -> Int] /\ v \in [Vocab -> Int]
    BY <1>2 DEF Weighting
  <2>3. SumFunction(v) = SumFunction(units) + SumFunction(resid)
    BY <2>1, <2>2, RowsAssumption, SumOfSums
  <2> QED BY <1>4, <2>3
<1>6. Total(w) = P
  BY <1>4 DEF Total
<1>7. PICK a \in Nat, b \in Nat, c \in Nat : a = units[t] /\ b = resid[t] /\ c = v[t] /\ c = a + b
  BY <1>1
<1>8. CASE R > 0
  <2>1. Correction(w, v) = resid
    BY <1>3, <1>4, <1>8
  <2>2. P - U = R
    BY <1>5
  <2>3. a * R + R * b = (a + b) * R
    OBVIOUS
  <2>4. a * R + (P - U) * b = c * R
    BY <1>7, <2>2, <2>3
  <2>5. units[t] * SumFunction(resid) + (Total(w) - SumFunction(units)) * resid[t] = v[t] * SumFunction(resid)
    BY <1>4, <1>6, <1>7, <2>4
  <2> QED BY <2>1, <2>5 DEF units
<1>9. CASE ~(R > 0)
  <2>1. Correction(w, v) = v
    BY <1>3, <1>4, <1>9
  <2>2. R = 0
    BY <1>9
  <2>3. b = 0
    BY <1>2, <1>4, <1>7, <2>2, RowsAssumption, SumOfNats DEF Weighting
  <2>4. P - U = 0 /\ a = c
    BY <1>5, <1>7, <2>2, <2>3
  <2>5. a * P + (P - U) * c = c * P
    BY <2>4
  <2>6. units[t] * SumFunction(v) + (Total(w) - SumFunction(units)) * v[t] = v[t] * SumFunction(v)
    BY <1>4, <1>6, <1>7, <2>5
  <2> QED BY <2>1, <2>6 DEF units
<1> QED BY <1>8, <1>9

\* What comes out of a position the target can emit there.
LEMMA OutcomesPossible ==
  ASSUME NEW w \in Weighting, NEW v \in Weighting, NEW t
  PROVE  /\ t \in Vocab /\ AcceptUnits(w, v, t) > 0 => v[t] > 0
         /\ t \in Support(Correction(w, v)) => t \in Vocab /\ v[t] > 0
<1>1. ASSUME t \in Vocab, AcceptUnits(w, v, t) > 0 PROVE v[t] > 0
  <2>1. AcceptUnits(w, v, t) = IF w[t] <= v[t] THEN w[t] ELSE v[t]
    BY <1>1, UnitsAndRest
  <2>2. w[t] \in Nat /\ v[t] \in Nat
    BY <1>1 DEF Weighting
  <2> QED BY <1>1, <2>1, <2>2
<1>2. ASSUME t \in Support(Correction(w, v)) PROVE t \in Vocab /\ v[t] > 0
  <2>1. CASE Correction(w, v) = v
    BY <1>2, <2>1 DEF Support, Weighting
  <2>2. CASE Correction(w, v) = [u \in Vocab |-> Max({0, v[u] - w[u]})]
    <3>1. t \in Vocab /\ Max({0, v[t] - w[t]}) > 0
      BY <1>2, <2>2 DEF Support
    <3>2. Max({0, v[t] - w[t]}) = IF w[t] <= v[t] THEN v[t] - w[t] ELSE 0
      BY <3>1, UnitsAndRest
    <3>3. w[t] \in Nat /\ v[t] \in Nat
      BY <3>1 DEF Weighting
    <3> QED BY <3>1, <3>2, <3>3
  <2> QED BY <2>1, <2>2 DEF Correction
<1> QED BY <1>1, <1>2

-----------------------------------------------------------------------------
\* The nucleus of a row.

\* What top-k asks for.
Ranked(row, pr) == {t \in Vocab : pr.topK = 0 \/ Cardinality({u \in Vocab : row[u] > row[t]}) < pr.topK}

\* A finite set that is not empty has an element of the greatest value.
LEMMA BestExists ==
  ASSUME NEW S, IsFiniteSet(S), S # {}, NEW f \in [S -> Nat]
  PROVE  \E x \in S : \A y \in S : f[y] <= f[x]
<1> DEFINE G == {s \in SUBSET S : s # {} => \E x \in s : \A y \in s : f[y] <= f[x]}
<1>1. {} \in G
  OBVIOUS
<1>2. ASSUME NEW s \in SUBSET S, s # {}, s \ {Chosen(s)} \in G PROVE s \in G
  <2>1. PICK c \in s : c = Chosen(s)
    BY <1>2, ChosenIn
  <2>2. CASE s \ {c} = {}
    <3>1. \A y \in s : f[y] <= f[c]
      BY <2>2
    <3> QED BY <3>1
  <2>3. CASE s \ {c} # {}
    <3>1. PICK x \in s \ {c} : \A y \in s \ {c} : f[y] <= f[x]
      BY <1>2, <2>1, <2>3
    <3>2. CASE f[c] <= f[x]
      BY <3>1, <3>2
    <3>3. CASE ~(f[c] <= f[x])
      <4>1. \A y \in s : f[y] <= f[c]
        BY <3>1, <3>3
      <4> QED BY <4>1
    <3> QED BY <3>2, <3>3
  <2> QED BY <2>2, <2>3
<1> HIDE DEF G
<1>3. SUBSET S \subseteq G
  BY <1>1, <1>2, FoldInduction
<1> QED BY <1>3 DEF G

\* The parameters and rows.
LEMMA RowTypes ==
  ASSUME NEW row \in Rows, NEW pr \in Params
  PROVE  /\ row \in [Vocab -> Nat] /\ pr.topK \in Nat /\ pr.topP \in Nat /\ TopPUnit \in Nat \ {0}
         /\ Weights(row, pr) \in [Vocab -> Nat \ {0}]
BY RowsAssumption, ExpAssumption, TopPUnitAssumption

\* Counting the tokens before one.
LEMMA RankCount ==
  ASSUME NEW row \in [Vocab -> Nat], NEW t \in Vocab
  PROVE  /\ Cardinality({u \in Vocab : row[u] > row[t]}) \in Nat
         /\ Cardinality({u \in Vocab : row[u] > row[t]}) < Cardinality(Vocab)
         /\ \A u \in Vocab : row[t] <= row[u] =>
              Cardinality({v \in Vocab : row[v] > row[u]}) <= Cardinality({v \in Vocab : row[v] > row[t]})
<1> DEFINE above(u) == {v \in Vocab : row[v] > row[u]}
<1>1. \A u \in Vocab : IsFiniteSet(above(u)) /\ Cardinality(above(u)) \in Nat /\ Cardinality(above(u)) <= Cardinality(Vocab)
  BY RowsAssumption, FS_Subset, FS_CardinalityType
<1>2. Cardinality(above(t)) # Cardinality(Vocab)
  <2>1. t \notin above(t)
    OBVIOUS
  <2> HIDE DEF above
  <2>2. above(t) \in SUBSET Vocab
    BY DEF above
  <2> QED BY <2>1, <2>2, RowsAssumption, FS_Subset
<1>3. ASSUME NEW u \in Vocab, row[t] <= row[u] PROVE Cardinality(above(u)) <= Cardinality(above(t))
  <2>1. above(u) \in SUBSET above(t)
    BY <1>3
  <2> HIDE DEF above
  <2> QED BY <1>1, <2>1, FS_Subset
<1>4. Cardinality(Vocab) \in Nat
  BY RowsAssumption, FS_CardinalityType
<1>5. Cardinality(above(t)) \in Nat /\ Cardinality(above(t)) < Cardinality(Vocab)
  <2> HIDE DEF above
  <2> QED BY <1>1, <1>2, <1>4
<1> QED BY <1>3, <1>5

\* What top-k asks for: a best token at least, and no token without those before it.
LEMMA RankedProperties ==
  ASSUME NEW row \in Rows, NEW pr \in Params
  PROVE  /\ Ranked(row, pr) # {} /\ Ranked(row, pr) \subseteq Vocab
         /\ \A t \in Ranked(row, pr), u \in Vocab \ Ranked(row, pr) : row[u] <= row[t]
<1>1. row \in [Vocab -> Nat] /\ pr.topK \in Nat
  BY RowTypes
<1>2. PICK best \in Vocab : \A t \in Vocab : row[t] <= row[best]
  BY <1>1, RowsAssumption, BestExists
<1>3. best \in Ranked(row, pr)
  <2>1. {u \in Vocab : row[u] > row[best]} = {}
    BY <1>1, <1>2
  <2>2. Cardinality({u \in Vocab : row[u] > row[best]}) = 0
    BY <2>1, FS_EmptySet
  <2> QED BY <1>1, <2>2 DEF Ranked
<1>4. ASSUME NEW t \in Ranked(row, pr), NEW u \in Vocab \ Ranked(row, pr) PROVE row[u] <= row[t]
  <2>1. t \in Vocab /\ row[t] \in Nat /\ row[u] \in Nat
    BY <1>1 DEF Ranked
  <2>2. SUFFICES ASSUME row[t] <= row[u] PROVE FALSE
    BY <2>1
  <2>3. Cardinality({v \in Vocab : row[v] > row[u]}) <= Cardinality({v \in Vocab : row[v] > row[t]})
    BY <1>1, <2>1, <2>2, RankCount
  <2>4. Cardinality({v \in Vocab : row[v] > row[u]}) \in Nat /\ Cardinality({v \in Vocab : row[v] > row[t]}) \in Nat
    BY <1>1, <2>1, RankCount
  <2>5. pr.topK # 0 /\ ~(Cardinality({v \in Vocab : row[v] > row[u]}) < pr.topK)
    BY DEF Ranked
  <2>6. Cardinality({v \in Vocab : row[v] > row[t]}) < pr.topK
    BY <2>5 DEF Ranked
  <2> QED BY <1>1, <2>3, <2>4, <2>5, <2>6
<1> QED BY <1>3, <1>4 DEF Ranked

\* top-k keeps the weights of the tokens it asks for.
LEMMA TopKKeepsRanked ==
  ASSUME NEW row \in Rows, NEW pr \in Params, ~Greedy(pr), NEW w, w = TopK(Weights(row, pr), pr.topK)
  PROVE  w = [t \in Vocab |-> IF t \in Ranked(row, pr) THEN Weights(row, pr)[t] ELSE 0]
<1> DEFINE W == Weights(row, pr)
           rank(t) == Cardinality({u \in Vocab : W[u] > W[t]})
           count(t) == Cardinality({u \in Vocab : row[u] > row[t]})
           n == Cardinality(Vocab)
<1>1. row \in [Vocab -> Nat] /\ pr.topK \in Nat /\ W \in [Vocab -> Nat \ {0}] /\ n \in Nat
  BY RowTypes, RowsAssumption, FS_CardinalityType
<1>2. \A t, u \in Vocab : W[t] <= W[u] <=> row[t] <= row[u]
  BY ExpAssumption
<1> HIDE DEF W
<1>3. ASSUME NEW t \in Vocab PROVE {u \in Vocab : W[u] > W[t]} = {u \in Vocab : row[u] > row[t]}
  <2>1. \A u \in Vocab : W[u] > W[t] <=> row[u] > row[t]
    BY <1>1, <1>2
  <2> QED BY <2>1
<1>4. ASSUME NEW t \in Vocab PROVE rank(t) = count(t)
  BY <1>3
<1>5. ASSUME NEW t \in Vocab PROVE count(t) \in Nat /\ count(t) < n
  BY <1>1, RankCount
<1>6. CASE pr.topK = 0
  <2>1. w = W
    BY <1>6 DEF TopK, W
  <2>2. Ranked(row, pr) = Vocab
    BY <1>6 DEF Ranked
  <2>3. w = [t \in Vocab |-> IF t \in Ranked(row, pr) THEN W[t] ELSE 0]
    BY <1>1, <2>1, <2>2
  <2> QED BY <2>3 DEF W
<1>7. CASE pr.topK # 0
  <2> DEFINE cut == Min({pr.topK, n})
  <2>1. cut = IF pr.topK <= n THEN pr.topK ELSE n
    <3>0. PICK a \in Nat, b \in Nat : a = pr.topK /\ b = n
      BY <1>1
    <3>1. \E x \in {a, b} : \A y \in {a, b} : x <= y
      <4>1. CASE a <= b
        BY <4>1
      <4>2. CASE ~(a <= b)
        BY <4>2
      <4> QED BY <4>1, <4>2
    <3>2. Min({a, b}) \in {a, b} /\ \A y \in {a, b} : Min({a, b}) <= y
      BY <3>1, Zenon DEF Min
    <3>3. Min({a, b}) = IF a <= b THEN a ELSE b
      BY <3>2
    <3> QED BY <3>0, <3>3
  <2>2. DOMAIN W = Vocab
    BY <1>1
  <2>3. w = Keep(W, {t \in Vocab : rank(t) < cut})
    BY <1>7, <2>2 DEF TopK, W
  <2> HIDE DEF cut
  <2>4. \A t \in Vocab : t \in Ranked(row, pr) <=> count(t) < pr.topK
    BY <1>7 DEF Ranked
  <2>5. \A t \in Vocab : rank(t) < cut <=> count(t) < pr.topK
    <3> TAKE t \in Vocab
    <3>1. rank(t) = count(t) /\ count(t) \in Nat /\ count(t) < n
      BY <1>4, <1>5
    <3> HIDE DEF rank, count, n
    <3> QED BY <1>1, <2>1, <3>1
  <2> HIDE DEF rank, count, n
  <2>6. w = [t \in Vocab |-> IF t \in Ranked(row, pr) THEN W[t] ELSE 0]
    BY <2>2, <2>3, <2>4, <2>5 DEF Keep
  <2> QED BY <2>6 DEF W
<1> QED BY <1>6, <1>7

\* A list of as many distinct elements as a set has covers it.
LEMMA InjectionCovers ==
  ASSUME NEW S, IsFiniteSet(S), NEW n \in Nat, Cardinality(S) = n, NEW f \in Injection(1..n, S)
  PROVE  \A x \in S : \E i \in 1..n : f[i] = x
<1>1. IsFiniteSet(1..n) /\ Cardinality(1..n) = n
  <2>1. Cardinality(1..n) = IF 1 > n THEN 0 ELSE n - 1 + 1
    BY FS_Interval
  <2> QED BY <2>1, FS_Interval
<1>2. f \in Surjection(1..n, S)
  BY <1>1, FS_Injection
<1> QED BY <1>2 DEF Surjection

\* A descending order has every token, and no token before a heavier one.
LEMMA SortedProperties ==
  ASSUME NEW w \in [Vocab -> Nat], NEW order \in Sorted(w), NEW n, n = Cardinality(Vocab)
  PROVE  /\ n \in Nat /\ order \in [1..n -> Vocab] /\ \A i, j \in 1..n : i # j => order[i] # order[j]
         /\ \A t \in Vocab : \E i \in 1..n : order[i] = t
         /\ \A i, j \in 1..n : i <= j => w[order[j]] <= w[order[i]]
<1>1. n \in Nat /\ order \in [1..n -> Vocab] /\ \A i, j \in 1..n : i # j => order[i] # order[j]
  <2>1. n \in Nat /\ DOMAIN w = Vocab
    BY RowsAssumption, FS_CardinalityType
  <2>2. order \in SetToSeqs(Vocab)
    BY <2>1 DEF Sorted
  <2> QED BY <2>1, <2>2 DEF SetToSeqs
<1>2. \A t \in Vocab : \E i \in 1..n : order[i] = t
  <2>1. order \in Injection(1..n, Vocab)
    BY <1>1 DEF Injection, IsInjective
  <2>2. n \in Nat /\ Cardinality(Vocab) = n /\ IsFiniteSet(Vocab)
    BY <1>1, RowsAssumption
  <2> QED BY <2>1, <2>2, InjectionCovers
<1>3. \A i \in 1..(n - 1) : w[order[i + 1]] <= w[order[i]]
  <2>1. Len(order) = n
    <3>1. order \in Seq(Vocab)
      BY <1>1
    <3> QED BY <1>1, <3>1, LenProperties
  <2>2. \A i \in 1..(n - 1) : w[order[i]] >= w[order[i + 1]]
    BY <2>1 DEF Sorted
  <2>3. \A i \in 1..(n - 1) : w[order[i]] \in Nat /\ w[order[i + 1]] \in Nat
    <3>1. \A i \in 1..(n - 1) : i \in 1..n /\ i + 1 \in 1..n
      BY <1>1
    <3>2. \A i \in 1..n : order[i] \in Vocab
      BY <1>1
    <3> QED BY <3>1, <3>2
  <2> QED BY <2>2, <2>3
<1>4. ASSUME NEW i \in 1..n PROVE \A j \in 1..n : i <= j => w[order[j]] <= w[order[i]]
  <2> DEFINE N == {d \in Nat : i + d <= n => w[order[i + d]] <= w[order[i]]}
  <2>1. \A j \in 1..n : w[order[j]] \in Nat
    <3>1. \A j \in 1..n : order[j] \in Vocab
      BY <1>1
    <3> QED BY <3>1
  <2>2. 0 \in N
    <3>1. i + 0 = i
      OBVIOUS
    <3> QED BY <2>1, <3>1
  <2>3. ASSUME NEW d \in Nat, d \in N PROVE d + 1 \in N
    <3> SUFFICES ASSUME i + (d + 1) <= n PROVE w[order[i + (d + 1)]] <= w[order[i]]
      OBVIOUS
    <3>1. i + d \in 1..(n - 1) /\ i + d <= n /\ i + (d + 1) = (i + d) + 1
      BY <1>1
    <3>2. w[order[(i + d) + 1]] <= w[order[i + d]] /\ w[order[i + d]] <= w[order[i]]
      BY <1>3, <2>3, <3>1
    <3>3. w[order[(i + d) + 1]] \in Nat /\ w[order[i + d]] \in Nat /\ w[order[i]] \in Nat
      <4>1. (i + d) + 1 \in 1..n /\ i + d \in 1..n
        BY <1>1, <3>1
      <4> QED BY <2>1, <4>1
    <3> QED BY <3>1, <3>2, <3>3
  <2> HIDE DEF N
  <2>4. Nat \subseteq N
    BY <2>2, <2>3, NatSetInduction
  <2>5. ASSUME NEW j \in 1..n, i <= j PROVE w[order[j]] <= w[order[i]]
    <3>1. j - i \in Nat /\ i + (j - i) = j /\ j <= n
      BY <1>1, <2>5
    <3>2. j - i \in N
      BY <2>4, <3>1
    <3> QED BY <3>1, <3>2 DEF N
  <2> QED BY <2>5
<1> QED BY <1>1, <1>2, <1>4

\* The positions top-p keeps.
Positions(w, topP, order, n) ==
  {i \in 1..n : i = 1 \/ SumFunction([j \in 1..(i - 1) |-> w[order[j]]]) * TopPUnit <= topP * Total(w)}

\* Below one, top-p keeps the tokens at those positions.
LEMMA TopPSupport ==
  ASSUME NEW w \in [Vocab -> Nat], NEW order \in Sorted(w), NEW n, n = Cardinality(Vocab), NEW topP, topP < TopPUnit
  PROVE  Support(TopP(w, topP, order)) = {order[i] : i \in {k \in Positions(w, topP, order, n) : w[order[k]] > 0}}
<1>1. n \in Nat /\ order \in [1..n -> Vocab]
  BY SortedProperties
<1> DEFINE keep == Positions(w, topP, order, n)
<1>2. DOMAIN order = 1..n /\ DOMAIN w = Vocab
  BY <1>1
<1>3. TopP(w, topP, order) = Keep(w, {order[i] : i \in keep})
  BY <1>2 DEF TopP, Positions
<1>4. \A i \in keep : order[i] \in Vocab
  BY <1>1 DEF Positions
<1> HIDE DEF keep
<1>5. Support(Keep(w, {order[i] : i \in keep})) = {t \in Vocab : t \in {order[i] : i \in keep} /\ w[t] > 0}
  BY <1>2 DEF Keep, Support
<1>6. {t \in Vocab : t \in {order[i] : i \in keep} /\ w[t] > 0} = {order[i] : i \in {k \in keep : w[order[k]] > 0}}
  BY <1>4
<1> QED BY <1>3, <1>5, <1>6 DEF keep

\* The nucleus, in terms of the weights that top-k leaves.
LEMMA NucleusOfWeights ==
  ASSUME NEW row \in Rows, NEW pr \in Params, ~Greedy(pr), NEW w \in [Vocab -> Nat], NEW kept,
         w = [t \in Vocab |-> IF t \in Ranked(row, pr) THEN Weights(row, pr)[t] ELSE 0],
         NEW g, Masses(w, Vocab, g),
         kept # {}, kept \subseteq Ranked(row, pr),
         \A t \in kept, u \in Ranked(row, pr) \ kept : w[u] <= w[t],
         Cardinality(kept) > 1 => \E t \in kept : g[kept \ {t}] * TopPUnit <= pr.topP * g[Vocab],
         g[kept] * TopPUnit > pr.topP * g[Vocab] \/ kept = Ranked(row, pr)
  PROVE  Nucleus(kept, row, pr)
<1> DEFINE ranked == Ranked(row, pr)
           W == Weights(row, pr)
           mass(S) == SumFunction([t \in S |-> W[t]])
<1>1. ranked # {} /\ ranked \subseteq Vocab /\ \A t \in ranked, u \in Vocab \ ranked : row[u] <= row[t]
  BY RankedProperties
<1>2. ASSUME NEW S \in SUBSET ranked PROVE mass(S) = g[S]
  <2>1. S \in SUBSET Vocab
    BY <1>1
  <2>2. SumFunction([t \in S |-> w[t]]) = g[S]
    BY <2>1 DEF Masses
  <2>3. [t \in S |-> w[t]] = [t \in S |-> W[t]]
    BY <2>1
  <2> QED BY <2>2, <2>3
<1>3. g[ranked] = g[Vocab]
  <2>1. ranked \in SUBSET Vocab /\ \A t \in Vocab \ ranked : w[t] = 0
    BY <1>1
  <2> HIDE DEF ranked
  <2> QED BY <2>1, RowsAssumption, MassOfMore
<1>4. mass(ranked) = g[Vocab]
  BY <1>2, <1>3
<1>5. \A t \in kept, u \in Vocab \ kept : row[u] <= row[t]
  <2> TAKE t \in kept, u \in Vocab \ kept
  <2>1. CASE u \notin ranked
    BY <1>1, <2>1
  <2>2. CASE u \in ranked
    <3>1. t \in ranked /\ t \in Vocab /\ u \in Vocab /\ w[u] <= w[t]
      BY <1>1, <2>2
    <3>2. W[u] <= W[t]
      BY <2>2, <3>1
    <3> QED BY <3>1, <3>2, ExpAssumption
  <2> QED BY <2>1, <2>2
<1>6. Cardinality(kept) > 1 => \E t \in kept : mass(kept \ {t}) * TopPUnit <= pr.topP * mass(ranked)
  <2>1. \A t \in kept : mass(kept \ {t}) = g[kept \ {t}]
    <3>1. \A t \in kept : kept \ {t} \in SUBSET ranked
      OBVIOUS
    <3> HIDE DEF mass
    <3> QED BY <1>2, <3>1
  <2> HIDE DEF mass
  <2> QED BY <1>4, <2>1
<1>7. mass(kept) * TopPUnit > pr.topP * mass(ranked) \/ kept = ranked
  <2>1. mass(kept) = g[kept]
    BY <1>2
  <2> HIDE DEF mass
  <2> QED BY <1>4, <2>1
<1> HIDE DEF mass
<1>8. Nucleus(kept, row, pr) =
        (/\ kept # {} /\ kept \subseteq ranked
         /\ \A t \in kept, u \in Vocab \ kept : row[u] <= row[t]
         /\ Cardinality(kept) > 1 => \E t \in kept : mass(kept \ {t}) * TopPUnit <= pr.topP * mass(ranked)
         /\ mass(kept) * TopPUnit > pr.topP * mass(ranked) \/ kept = ranked)
  BY Zenon DEF Nucleus, mass, Ranked
<1> QED BY <1>5, <1>6, <1>7, <1>8

\* Without top-p everything top-k asks for is kept.
LEMMA NucleusWithoutTopP ==
  ASSUME NEW row \in Rows, NEW pr \in Params, ~Greedy(pr), pr.topP >= TopPUnit,
         NEW w \in [Vocab -> Nat],
         w = [t \in Vocab |-> IF t \in Ranked(row, pr) THEN Weights(row, pr)[t] ELSE 0]
  PROVE  Nucleus(Support(w), row, pr)
<1>1. Support(w) = Ranked(row, pr)
  <2>1. \A t \in Vocab : Weights(row, pr)[t] \in Nat \ {0}
    BY RowTypes
  <2>2. Ranked(row, pr) \subseteq Vocab
    BY RankedProperties
  <2> QED BY <2>1, <2>2 DEF Support
<1>2. PICK g : Masses(w, Vocab, g)
  BY RowsAssumption, MassesExist
<1> DEFINE ranked == Ranked(row, pr)
<1>3. ranked # {} /\ ranked \subseteq Vocab
  BY RankedProperties
<1> HIDE DEF ranked
<1>4. \E t \in ranked : g[ranked \ {t}] * TopPUnit <= pr.topP * g[Vocab]
  <2>1. PICK t \in ranked : TRUE
    BY <1>3
  <2>2. ranked \ {t} \in SUBSET Vocab /\ Vocab \in SUBSET Vocab
    BY <1>3
  <2>3. g[ranked \ {t}] \in Nat /\ g[Vocab] \in Nat /\ g[ranked \ {t}] <= g[Vocab]
    BY <1>2, <2>2, RowsAssumption, MassOfMore
  <2>4. PICK a \in Nat, b \in Nat, c \in Nat, d \in Nat :
          a = g[ranked \ {t}] /\ b = g[Vocab] /\ c = TopPUnit /\ d = pr.topP
    BY <2>3, RowTypes
  <2>5. a <= b /\ c <= d
    BY <2>3, <2>4
  <2>6. a * c <= d * b
    <3>1. a * c <= b * c
      BY <2>5
    <3>2. b * c <= b * d
      BY <2>5
    <3>3. b * d = d * b /\ a * c \in Nat /\ b * c \in Nat /\ b * d \in Nat
      OBVIOUS
    <3> QED BY <3>1, <3>2, <3>3
  <2> QED BY <2>4, <2>6
<1> QED BY <1>1, <1>2, <1>3, <1>4, NucleusOfWeights DEF ranked

\* With top-p the heaviest tokens are kept up to the one that crosses it.
LEMMA NucleusWithTopP ==
  ASSUME NEW row \in Rows, NEW pr \in Params, ~Greedy(pr), pr.topP < TopPUnit,
         NEW w \in [Vocab -> Nat], NEW order \in Sorted(w),
         w = [t \in Vocab |-> IF t \in Ranked(row, pr) THEN Weights(row, pr)[t] ELSE 0]
  PROVE  Nucleus(Support(TopP(w, pr.topP, order)), row, pr)
<1> DEFINE n == Cardinality(Vocab)
           keep == Positions(w, pr.topP, order, n)
           kept == {order[i] : i \in {k \in keep : w[order[k]] > 0}}
           A(i) == {order[j] : j \in 1..i}
           ranked == Ranked(row, pr)
<1>1. PICK g : Masses(w, Vocab, g)
  BY RowsAssumption, MassesExist
<1>2. /\ n \in Nat /\ order \in [1..n -> Vocab] /\ \A i, j \in 1..n : i # j => order[i] # order[j]
      /\ \A t \in Vocab : \E i \in 1..n : order[i] = t
      /\ \A i, j \in 1..n : i <= j => w[order[j]] <= w[order[i]]
  BY SortedProperties
<1>3. Support(TopP(w, pr.topP, order)) = kept
  BY TopPSupport
<1>4. ranked # {} /\ ranked \subseteq Vocab
  BY RankedProperties
<1>5. \A t \in Vocab : w[t] \in Nat /\ (w[t] > 0 <=> t \in ranked)
  <2>1. \A t \in Vocab : Weights(row, pr)[t] \in Nat \ {0}
    BY RowTypes
  <2> QED BY <2>1
<1>6. pr.topP \in Nat /\ TopPUnit \in Nat
  BY RowTypes
<1> HIDE DEF n, ranked
\* A position is kept if what precedes it does not exceed the limit.
<1>7. \A i \in 0..n : A(i) \in SUBSET Vocab /\ g[A(i)] \in Nat
  <2>1. \A i \in 0..n : A(i) \in SUBSET Vocab
    <3>1. \A i \in 0..n : \A j \in 1..i : j \in 1..n
      BY <1>2
    <3> QED BY <1>2, <3>1
  <2> HIDE DEF A
  <2> QED BY <1>1, <2>1 DEF Masses
<1>8. \A i \in 1..n : i \in keep <=> i = 1 \/ g[A(i - 1)] * TopPUnit <= pr.topP * g[Vocab]
  <2>1. \A i \in 0..n : SumFunction([j \in 1..i |-> w[order[j]]]) = g[A(i)]
    <3>1. n \in Nat /\ order \in [1..n -> Vocab] /\ \A i, j \in 1..n : i # j => order[i] # order[j]
      BY <1>2
    <3>2. PrefixMasses(w, n, order, g)
      BY <1>1, <3>1, MassOfPrefix
    <3> QED BY <3>2 DEF PrefixMasses
  <2>2. Total(w) = g[Vocab]
    <3>1. SumFunction([t \in Vocab |-> w[t]]) = g[Vocab]
      BY <1>1 DEF Masses
    <3>2. w = [t \in Vocab |-> w[t]]
      OBVIOUS
    <3> QED BY <3>1, <3>2 DEF Total
  <2>3. ASSUME NEW i \in 1..n PROVE SumFunction([j \in 1..(i - 1) |-> w[order[j]]]) = g[A(i - 1)]
    <3>1. i - 1 \in 0..n
      BY <1>2
    <3> HIDE DEF A
    <3> QED BY <2>1, <3>1
  <2> HIDE DEF A
  <2> QED BY <2>2, <2>3 DEF Positions
<1>9. \A i \in keep : i \in 1..n
  BY DEF Positions
<1> HIDE DEF keep
<1>10. kept \in SUBSET Vocab /\ kept \subseteq ranked
  <2>1. \A i \in keep : order[i] \in Vocab
    BY <1>2, <1>9
  <2> QED BY <1>5, <2>1
<1>11. \A i \in 1..n, j \in 1..n : j <= i => g[A(j - 1)] <= g[A(i - 1)]
  <2> TAKE i \in 1..n, j \in 1..n
  <2>1. SUFFICES ASSUME j <= i PROVE g[A(j - 1)] <= g[A(i - 1)]
    OBVIOUS
  <2>2. i - 1 \in 0..n /\ A(j - 1) \in SUBSET A(i - 1)
    <3>1. \A k \in 1..(j - 1) : k \in 1..(i - 1)
      BY <1>2, <2>1
    <3> QED BY <1>2, <3>1
  <2>3. A(i - 1) \in SUBSET Vocab
    <3> HIDE DEF A
    <3> QED BY <1>7, <2>2
  <2> HIDE DEF A
  <2> QED BY <1>1, <2>2, <2>3, RowsAssumption, MassOfMore
<1>12. g[Vocab] \in Nat
  BY <1>1 DEF Masses
\* What stands before a kept position is kept as well.
<1>13. \A i \in keep, j \in 1..n : j <= i => j \in keep
  <2> TAKE i \in keep, j \in 1..n
  <2>1. SUFFICES ASSUME j <= i, j # 1 PROVE j \in keep
    BY <1>8
  <2>2. i \in 1..n /\ i # 1
    BY <1>2, <1>9, <2>1
  <2>3. i - 1 \in 0..n /\ j - 1 \in 0..n
    BY <1>2, <2>2
  <2> HIDE DEF A
  <2>4. PICK a \in Nat, b \in Nat, u \in Nat, l \in Nat :
          a = g[A(j - 1)] /\ b = g[A(i - 1)] /\ u = TopPUnit /\ l = pr.topP * g[Vocab]
    <3>1. pr.topP * g[Vocab] \in Nat
      BY <1>6, <1>12
    <3> QED BY <1>7, <1>6, <2>3, <3>1
  <2>5. a <= b /\ b * u <= l
    BY <1>8, <1>11, <2>1, <2>2, <2>4
  <2>6. a * u <= b * u /\ a * u \in Nat /\ b * u \in Nat
    BY <2>5
  <2>7. a * u <= l
    BY <2>5, <2>6
  <2> QED BY <1>8, <2>4, <2>7
<1>14. kept # {}
  <2>1. PICK t \in Vocab : t \in ranked
    BY <1>4
  <2>2. PICK j \in 1..n : order[j] = t
    BY <1>2
  <2>3. 1 \in 1..n /\ 1 <= j
    BY <1>2
  <2>4. w[order[j]] <= w[order[1]] /\ order[1] \in Vocab
    BY <1>2, <2>3
  <2>5. w[order[1]] > 0
    BY <1>5, <2>1, <2>2, <2>4
  <2>6. 1 \in keep
    BY <1>8, <2>3
  <2> QED BY <2>5, <2>6
<1>15. \A t \in kept, u \in ranked \ kept : w[u] <= w[t]
  <2> TAKE t \in kept, u \in ranked \ kept
  <2>1. PICK i \in keep : t = order[i] /\ w[order[i]] > 0
    OBVIOUS
  <2>2. PICK j \in 1..n : order[j] = u
    BY <1>2, <1>4
  <2>3. j \notin keep
    BY <1>4, <1>5, <2>2
  <2>4. i \in 1..n /\ i <= j
    BY <1>2, <1>9, <1>13, <2>3
  <2> QED BY <1>2, <2>1, <2>2, <2>4
<1>16. Cardinality(kept) > 1 => \E t \in kept : g[kept \ {t}] * TopPUnit <= pr.topP * g[Vocab]
  <2> SUFFICES ASSUME Cardinality(kept) > 1 PROVE \E t \in kept : g[kept \ {t}] * TopPUnit <= pr.topP * g[Vocab]
    OBVIOUS
  <2> DEFINE K == {k \in keep : w[order[k]] > 0}
  <2>1. PICK m \in K : \A k \in K : k <= m
    <3>1. K \in SUBSET (0..n) /\ K # {}
      BY <1>2, <1>9, <1>14
    <3> HIDE DEF K
    <3> QED BY <1>2, <3>1, GreatestOfSet
  <2>2. m \in keep /\ m \in 1..n /\ order[m] \in kept
    BY <1>9
  <2>3. m # 1
    <3> SUFFICES ASSUME m = 1 PROVE FALSE
      OBVIOUS
    <3>1. \A k \in K : k = 1
      BY <1>2, <1>9, <2>1
    <3>2. kept = {order[1]}
      BY <2>2, <3>1
    <3> HIDE DEF kept
    <3>3. Cardinality(kept) = 1
      BY <3>2, FS_Singleton
    <3> QED BY <3>3
  <2>4. kept \ {order[m]} \in SUBSET A(m - 1)
    <3>1. ASSUME NEW k \in K, order[k] # order[m] PROVE k \in 1..(m - 1)
      <4>1. k <= m /\ k # m /\ k \in 1..n
        BY <1>9, <2>1, <3>1
      <4> QED BY <1>2, <2>2, <4>1
    <3> QED BY <3>1
  <2>5. m - 1 \in 0..n
    BY <1>2, <2>2
  <2>6. g[A(m - 1)] * TopPUnit <= pr.topP * g[Vocab]
    BY <1>8, <2>2, <2>3
  <2> HIDE DEF A, kept
  <2>7. /\ g[kept \ {order[m]}] \in Nat /\ g[A(m - 1)] \in Nat
        /\ g[kept \ {order[m]}] <= g[A(m - 1)]
    <3>1. A(m - 1) \in SUBSET Vocab
      BY <1>7, <2>5
    <3> QED BY <1>1, <2>4, <3>1, RowsAssumption, MassOfMore
  <2>8. PICK a \in Nat, b \in Nat, u \in Nat, l \in Nat :
          a = g[kept \ {order[m]}] /\ b = g[A(m - 1)] /\ u = TopPUnit /\ l = pr.topP * g[Vocab]
    <3>1. pr.topP * g[Vocab] \in Nat
      BY <1>6, <1>12
    <3> QED BY <1>6, <2>7, <3>1
  <2>9. a <= b /\ b * u <= l
    BY <2>6, <2>7, <2>8
  <2>10. a * u <= b * u /\ a * u \in Nat /\ b * u \in Nat
    BY <2>9
  <2>11. a * u <= l
    BY <2>9, <2>10
  <2> QED BY <2>2, <2>8, <2>11
<1>17. g[kept] * TopPUnit > pr.topP * g[Vocab] \/ kept = ranked
  <2> SUFFICES ASSUME kept # ranked PROVE g[kept] * TopPUnit > pr.topP * g[Vocab]
    OBVIOUS
  <2> DEFINE L == {k \in 1..n : order[k] \in ranked \ kept}
  <2>1. PICK j \in L : \A k \in L : j <= k
    <3>1. PICK u \in ranked \ kept : TRUE
      BY <1>10
    <3>2. \E k \in 1..n : order[k] = u
      BY <1>2, <1>4
    <3>3. L # {} /\ L \in SUBSET Nat
      BY <3>2
    <3> HIDE DEF L
    <3> QED BY <3>3, LeastOfSet
  <2>2. order[j] \in Vocab /\ w[order[j]] > 0 /\ j \notin keep /\ j \in 1..n
    BY <1>4, <1>5, <2>1
  <2>3. A(j - 1) \in SUBSET kept
    <3>1. ASSUME NEW k \in 1..(j - 1) PROVE order[k] \in kept
      <4>1. k \in 1..n /\ k <= j /\ ~(j <= k)
        BY <1>2, <2>2
      <4>2. w[order[j]] <= w[order[k]] /\ order[k] \in Vocab
        BY <1>2, <2>2, <4>1
      <4>3. order[k] \in ranked
        BY <1>5, <2>2, <4>2
      <4> QED BY <2>1, <4>1, <4>3
    <3> HIDE DEF kept
    <3> QED BY <3>1
  <2>4. ~(j = 1 \/ g[A(j - 1)] * TopPUnit <= pr.topP * g[Vocab])
    BY <1>8, <2>2
  <2> HIDE DEF A, kept
  <2>5. g[A(j - 1)] \in Nat /\ g[kept] \in Nat /\ g[A(j - 1)] <= g[kept]
    BY <1>1, <1>10, <2>3, RowsAssumption, MassOfMore
  <2>6. PICK a \in Nat, b \in Nat, u \in Nat, l \in Nat :
          a = g[A(j - 1)] /\ b = g[kept] /\ u = TopPUnit /\ l = pr.topP * g[Vocab]
    <3>1. pr.topP * g[Vocab] \in Nat
      BY <1>6, <1>12
    <3> QED BY <1>6, <2>5, <3>1
  <2>7. a <= b /\ ~(a * u <= l)
    BY <2>4, <2>5, <2>6
  <2>8. a * u <= b * u /\ a * u \in Nat /\ b * u \in Nat
    BY <2>7
  <2>9. b * u > l
    BY <2>7, <2>8
  <2> QED BY <2>6, <2>9
<1> HIDE DEF kept
<1>18. Nucleus(kept, row, pr)
  BY <1>1, <1>10, <1>14, <1>15, <1>16, <1>17, NucleusOfWeights DEF ranked
<1> QED BY <1>3, <1>18

\* A greedy row keeps its best token.
LEMMA NucleusWhenGreedy ==
  ASSUME NEW row \in Rows, NEW pr \in Params, Greedy(pr), NEW d \in LogitsToProbs(row, pr)
  PROVE  Nucleus(Support(d), row, pr)
<1>1. row \in [Vocab -> Nat]
  BY RowTypes
<1>2. PICK best \in Argmax(row) : d = [t \in DOMAIN row |-> IF t = best THEN 1 ELSE 0]
  BY DEF LogitsToProbs
<1>3. best \in Vocab
  BY <1>1 DEF Argmax
<1>4. Support(d) = {best}
  BY <1>1, <1>2, <1>3 DEF Support
<1>5. \E b \in Argmax(row) : Support(d) = {b}
  BY <1>4
<1> QED BY <1>5, Zenon DEF Nucleus

\* Whatever the parameters, the tokens that can be drawn are the nucleus.
LEMMA ProbsAreNucleus ==
  ASSUME NEW row \in Rows, NEW pr \in Params, NEW d \in LogitsToProbs(row, pr)
  PROVE  Nucleus(Support(d), row, pr)
<1>1. CASE Greedy(pr)
  BY <1>1, NucleusWhenGreedy
<1>2. CASE ~Greedy(pr)
  <2> DEFINE w == TopK(Weights(row, pr), pr.topK)
  <2>1. PICK order \in Sorted(w) : d = TopP(w, pr.topP, order)
    BY <1>2 DEF LogitsToProbs
  <2>2. w = [t \in Vocab |-> IF t \in Ranked(row, pr) THEN Weights(row, pr)[t] ELSE 0]
    BY <1>2, TopKKeepsRanked
  <2>3. \A t \in Vocab : Weights(row, pr)[t] \in Nat
    BY RowTypes
  <2> HIDE DEF w
  <2>4. w \in [Vocab -> Nat]
    BY <2>2, <2>3
  <2>5. pr.topP \in Nat /\ TopPUnit \in Nat
    BY RowTypes
  <2>6. CASE pr.topP < TopPUnit
    BY <1>2, <2>1, <2>2, <2>4, <2>6, NucleusWithTopP
  <2>7. CASE ~(pr.topP < TopPUnit)
    <3>1. d = w
      BY <2>1, <2>7 DEF TopP
    <3>2. pr.topP >= TopPUnit
      BY <2>5, <2>7
    <3> QED BY <1>2, <2>2, <2>4, <3>1, <3>2, NucleusWithoutTopP
  <2> QED BY <2>6, <2>7
<1> QED BY <1>1, <1>2

\* The nucleus is never empty.
LEMMA NucleusNonempty == ASSUME NEW kept, NEW row, NEW pr, Nucleus(kept, row, pr) PROVE kept # {}
<1>1. CASE Greedy(pr)
  <2>1. \E best \in Argmax(row) : kept = {best}
    BY <1>1, Zenon DEF Nucleus
  <2> QED BY <2>1
<1>2. CASE ~Greedy(pr)
  BY <1>2, Zenon DEF Nucleus
<1> QED BY <1>1, <1>2

-----------------------------------------------------------------------------
\* The rows of K drafted tokens: weights, in both models of the same sum.
RowsMatch(K) ==
  /\ q \in [1..K -> Weighting] /\ p \in [1..K -> Weighting] /\ bonus \in Weighting
  /\ draft \in [1..K -> Vocab] /\ Len(draft) = K
  /\ \A i \in 1..K : Total(q[i]) = Total(p[i])

\* So far every token of the output is one the target can emit.
OutputPossible(K) ==
  /\ out \in Seq(Vocab) /\ Len(out) <= K + 1 /\ (accepted = -1 => Len(out) <= K)
  /\ \A i \in 1..Len(out) : IF i <= K THEN p[i][out[i]] > 0 ELSE bonus[out[i]] > 0

\* What the target can emit at a position is the nucleus of its logits there.
RowsKept(K) ==
  /\ logits \in [1..(K + 1) -> Rows]
  /\ \A i \in 1..K : Nucleus(Support(p[i]), logits[i], params)
  /\ Nucleus(Support(bonus), logits[K + 1], params)

RejectionIInv(K) == RowsMatch(K) /\ RowsKept(K) /\ OutputPossible(K)

\* Bringing two rows to a common sum leaves what can be drawn, unless the other row
\* has nothing.
LEMMA SupportOfScaled ==
  ASSUME NEW w \in Weighting, NEW v \in Weighting, Support(v) # {}
  PROVE  Support(Scaled(w, v)) = Support(w)
<1>1. Total(v) \in Nat /\ Total(v) > 0
  <2>1. Total(v) \in Nat /\ (Total(v) = 0 <=> \A t \in Vocab : v[t] = 0)
    BY RowsAssumption, SumOfNats DEF Total, Weighting
  <2>2. PICK t \in Vocab : v[t] > 0
    BY DEF Support, Weighting
  <2>3. v[t] # 0
    BY <2>2
  <2> QED BY <2>1, <2>3
<1>2. \A t \in Vocab : w[t] * Total(v) > 0 <=> w[t] > 0
  <2> TAKE t \in Vocab
  <2>1. PICK a \in Nat, b \in Nat : a = w[t] /\ b = Total(v) /\ b > 0
    BY <1>1 DEF Weighting
  <2>2. a * b > 0 <=> a > 0
    <3>1. CASE a = 0
      BY <3>1
    <3>2. CASE a >= 1
      <4>1. a * b >= 1 * b
        BY <3>2
      <4>2. a * b \in Nat
        OBVIOUS
      <4> QED BY <2>1, <3>2, <4>1, <4>2
    <3> QED BY <3>1, <3>2
  <2> QED BY <2>1, <2>2
<1>3. DOMAIN w = Vocab /\ Scaled(w, v) = [t \in Vocab |-> w[t] * Total(v)]
  BY DEF Scaled, Weighting
<1> QED BY <1>2, <1>3 DEF Support

LEMMA RejectionInit == ASSUME NEW K \in Nat, InitWith(K) PROVE RejectionIInv(K)
<1>1. PICK drafts \in [1..K -> Computed[params]], targets \in [1..(K + 1) -> Computed[params]] :
       /\ logits = [i \in 1..(K + 1) |-> targets[i].logits]
       /\ q = [i \in 1..K |-> Scaled(drafts[i].probs, targets[i].probs)]
       /\ p = [i \in 1..K |-> Scaled(targets[i].probs, drafts[i].probs)]
       /\ bonus = targets[K + 1].probs
  BY DEF InitWith
<1>2. \A c \in Computed[params] :
        /\ c.probs \in Weighting /\ c.logits \in Rows
        /\ Nucleus(Support(c.probs), c.logits, params) /\ Support(c.probs) # {}
  <2>1. params \in Params
    BY DEF InitWith
  <2>2. Computed[params] = UNION {{[logits |-> row, probs |-> w] : w \in LogitsToProbs(row, params)} : row \in Rows}
    BY <2>1 DEF Computed
  <2> TAKE c \in Computed[params]
  <2>3. PICK row \in Rows : \E w \in LogitsToProbs(row, params) : c = [logits |-> row, probs |-> w]
    BY <2>2
  <2>4. PICK w \in LogitsToProbs(row, params) : c = [logits |-> row, probs |-> w]
    BY <2>3
  <2>5. Nucleus(Support(w), row, params)
    BY <2>1, ProbsAreNucleus
  <2>6. Support(w) # {}
    BY <2>5, NucleusNonempty
  <2> QED BY <2>1, <2>4, <2>5, <2>6, ProbsTypes
<1>3. \A i \in 1..K : drafts[i].probs \in Weighting /\ targets[i].probs \in Weighting
  <2>1. \A i \in 1..K : i \in 1..(K + 1)
    OBVIOUS
  <2> QED BY <1>2, <2>1
<1>4. bonus \in Weighting
  <2>1. K + 1 \in 1..(K + 1)
    OBVIOUS
  <2> QED BY <1>1, <1>2, <2>1
<1>5. ASSUME NEW i \in 1..K PROVE q[i] \in Weighting /\ p[i] \in Weighting /\ Total(q[i]) = Total(p[i])
  <2>1. PICK w \in Weighting, v \in Weighting : w = drafts[i].probs /\ v = targets[i].probs
    BY <1>3
  <2>2. q[i] = Scaled(w, v) /\ p[i] = Scaled(v, w)
    BY <1>1, <2>1
  <2>3. /\ Scaled(w, v) \in Weighting /\ Total(Scaled(w, v)) = Total(w) * Total(v)
        /\ Scaled(v, w) \in Weighting /\ Total(Scaled(v, w)) = Total(v) * Total(w)
        /\ Total(w) \in Nat /\ Total(v) \in Nat
    BY ScaledRows
  <2>4. Total(w) * Total(v) = Total(v) * Total(w)
    BY <2>3
  <2> QED BY <2>2, <2>3, <2>4
<1>6. q \in [1..K -> Weighting] /\ p \in [1..K -> Weighting]
  BY <1>1, <1>5
<1>7. draft \in [1..K -> Vocab] /\ Len(draft) = K
  BY DEF InitWith
<1>8. RowsMatch(K)
  BY <1>4, <1>5, <1>6, <1>7 DEF RowsMatch
<1>9. OutputPossible(K)
  <2>1. out \in Seq(Vocab) /\ Len(out) = 0
    BY EmptySeq DEF InitWith
  <2> QED BY <2>1 DEF OutputPossible
<1>10. RowsKept(K)
  <2>1. \A i \in 1..(K + 1) : logits[i] = targets[i].logits /\ targets[i] \in Computed[params]
    BY <1>1
  <2>2. logits \in [1..(K + 1) -> Rows]
    BY <1>1, <1>2
  <2>3. ASSUME NEW i \in 1..K PROVE Nucleus(Support(p[i]), logits[i], params)
    <3>1. i \in 1..(K + 1) /\ drafts[i] \in Computed[params]
      OBVIOUS
    <3>2. PICK w \in Weighting, v \in Weighting : w = drafts[i].probs /\ v = targets[i].probs
      BY <1>3
    <3>3. p[i] = Scaled(v, w) /\ Support(w) # {}
      BY <1>1, <1>2, <3>1, <3>2
    <3>4. Support(p[i]) = Support(v)
      BY <3>3, SupportOfScaled
    <3>5. Nucleus(Support(v), logits[i], params)
      BY <1>2, <2>1, <3>1, <3>2
    <3> QED BY <3>4, <3>5
  <2>4. Nucleus(Support(bonus), logits[K + 1], params)
    <3>1. K + 1 \in 1..(K + 1)
      OBVIOUS
    <3> QED BY <1>1, <1>2, <2>1, <3>1
  <2> QED BY <2>2, <2>3, <2>4 DEF RowsKept
<1> QED BY <1>8, <1>9, <1>10 DEF RejectionIInv

\* A token the target can emit at the next position may follow the output.
LEMMA OutputGrows ==
  ASSUME NEW K \in Nat, OutputPossible(K), UNCHANGED inputs, Len(out) <= K, NEW t \in Vocab,
         IF Len(out) < K THEN p[Len(out) + 1][t] > 0 ELSE bonus[t] > 0,
         out' = Append(out, t), accepted' = -1 => Len(out) < K
  PROVE  OutputPossible(K)'
<1>1. out \in Seq(Vocab) /\ Len(out) \in Nat
  BY LenProperties DEF OutputPossible
<1>2. /\ out' \in Seq(Vocab) /\ Len(out') = Len(out) + 1
      /\ \A i \in 1..Len(out) : out'[i] = out[i]
      /\ out'[Len(out) + 1] = t
  BY <1>1, AppendProperties
<1>3. p' = p /\ bonus' = bonus
  BY DEF inputs
<1>4. ASSUME NEW i \in 1..Len(out') PROVE IF i <= K THEN p[i][out'[i]] > 0 ELSE bonus[out'[i]] > 0
  <2>1. CASE i \in 1..Len(out)
    BY <1>2, <2>1 DEF OutputPossible
  <2>2. CASE i = Len(out) + 1
    BY <1>1, <1>2, <2>2
  <2> QED BY <1>1, <1>2, <2>1, <2>2
<1> QED BY <1>1, <1>2, <1>3, <1>4 DEF OutputPossible

LEMMA RejectionStep == ASSUME NEW K \in Nat, RejectionIInv(K), [Next]_rejectionVars PROVE RejectionIInv(K)'
<1>1. UNCHANGED inputs
  BY DEF Next, rejectionVars
<1>2. RowsMatch(K) /\ RowsKept(K) /\ OutputPossible(K)
  BY DEF RejectionIInv
<1>3. RowsMatch(K)' /\ RowsKept(K)'
  BY <1>1, <1>2 DEF RowsMatch, RowsKept, inputs
<1>4. out \in Seq(Vocab) /\ Len(out) \in Nat /\ Len(draft) = K
  BY <1>2, LenProperties DEF OutputPossible, RowsMatch
<1>5. ASSUME Testing PROVE /\ Len(out) < K /\ Position \in 1..K /\ Position = Len(out) + 1
                           /\ q[Position] \in Weighting /\ p[Position] \in Weighting /\ draft[Position] \in Vocab
  BY <1>2, <1>4, <1>5 DEF Testing, Position, RowsMatch
<1>6. CASE Accept
  <2>1. Testing /\ out' = Append(out, draft[Position]) /\ AcceptUnits(q[Position], p[Position], draft[Position]) > 0
    BY <1>6 DEF Accept
  <2>2. p[Position][draft[Position]] > 0
    BY <1>5, <2>1, OutcomesPossible
  <2> QED BY <1>1, <1>2, <1>3, <1>4, <1>5, <2>1, <2>2, OutputGrows DEF RejectionIInv
<1>7. CASE Correct
  <2>1. Testing /\ accepted' = Len(out)
    BY <1>7 DEF Correct
  <2>2. PICK t \in Support(Correction(q[Position], p[Position])) : out' = Append(out, t)
    BY <1>7 DEF Correct
  <2>3. t \in Vocab /\ p[Position][t] > 0
    BY <1>5, <2>1, OutcomesPossible
  <2>4. accepted' # -1
    BY <1>4, <2>1
  <2> QED BY <1>1, <1>2, <1>3, <1>4, <1>5, <2>1, <2>2, <2>3, <2>4, OutputGrows DEF RejectionIInv
<1>8. CASE Bonus
  <2>1. accepted = -1 /\ Position > Len(draft) /\ accepted' = Len(draft)
    BY <1>8 DEF Bonus
  <2>2. PICK t \in Support(bonus) : out' = Append(out, t)
    BY <1>8 DEF Bonus
  <2>3. t \in Vocab /\ bonus[t] > 0
    BY <1>2 DEF RowsMatch, Weighting, Support
  <2>4. accepted' # -1 /\ Len(out) <= K /\ ~(Len(out) < K)
    BY <1>2, <1>4, <2>1 DEF Position, OutputPossible
  <2> QED BY <1>1, <1>2, <1>3, <1>4, <2>2, <2>3, <2>4, OutputGrows DEF RejectionIInv
<1>9. CASE UNCHANGED rejectionVars
  BY <1>2, <1>3, <1>9 DEF rejectionVars, inputs, OutputPossible, RejectionIInv
<1> QED BY <1>6, <1>7, <1>8, <1>9 DEF Next, Tested

\* The rows of the positions and the one of the bonus, as a list.
LEMMA RowOfPosition ==
  ASSUME NEW K \in Nat, RowsMatch(K), NEW i \in 1..(K + 1)
  PROVE  (Append(p, bonus))[i] = IF i <= K THEN p[i] ELSE bonus
<1>1. p \in Seq(Weighting) /\ Len(p) = K /\ bonus \in Weighting
  BY DEF RowsMatch
<1>2. /\ \A j \in 1..Len(p) : Append(p, bonus)[j] = p[j]
      /\ Append(p, bonus)[Len(p) + 1] = bonus
  BY <1>1, AppendProperties
<1> QED BY <1>1, <1>2

LEMMA RejectionFollows == ASSUME NEW K \in Nat, RejectionIInv(K) PROVE Lossless /\ TargetCanEmit /\ KeptIsNucleus
<1>1. RowsMatch(K) /\ RowsKept(K) /\ OutputPossible(K)
  BY DEF RejectionIInv
<1>2. Lossless
  <2>1. DOMAIN draft = 1..K
    BY <1>1 DEF RowsMatch
  <2>2. ASSUME NEW i \in 1..K, NEW t \in Vocab
        PROVE  LET correction == Correction(q[i], p[i])
                   units == [u \in Vocab |-> AcceptUnits(q[i], p[i], u)]
               IN  units[t] * SumFunction(correction) + (Total(q[i]) - SumFunction(units)) * correction[t]
                     = p[i][t] * SumFunction(correction)
    <3>1. q[i] \in Weighting /\ p[i] \in Weighting /\ Total(q[i]) = Total(p[i])
      BY <1>1 DEF RowsMatch
    <3> QED BY <3>1, ResidualMakesUp
  <2> QED BY <2>1, <2>2 DEF Lossless
<1>3. TargetCanEmit
  <2>1. DOMAIN out = 1..Len(out) /\ Len(out) \in Nat /\ Len(out) <= K + 1
    BY <1>1, LenProperties DEF OutputPossible
  <2>2. ASSUME NEW i \in 1..Len(out) PROVE (Append(p, bonus))[i][out[i]] > 0
    <3>1. i \in 1..(K + 1)
      BY <2>1
    <3>2. (Append(p, bonus))[i] = IF i <= K THEN p[i] ELSE bonus
      BY <1>1, <3>1, RowOfPosition
    <3> QED BY <1>1, <3>2 DEF OutputPossible
  <2> QED BY <2>1, <2>2 DEF TargetCanEmit
<1>4. KeptIsNucleus
  <2>1. DOMAIN logits = 1..(K + 1)
    BY <1>1 DEF RowsKept
  <2>2. ASSUME NEW i \in 1..(K + 1) PROVE Nucleus(Support((Append(p, bonus))[i]), logits[i], params)
    <3>1. (Append(p, bonus))[i] = IF i <= K THEN p[i] ELSE bonus
      BY <1>1, RowOfPosition
    <3>2. i \in 1..K \/ (i = K + 1 /\ ~(i <= K))
      OBVIOUS
    <3>3. CASE i \in 1..K
      BY <1>1, <3>1, <3>3 DEF RowsKept
    <3>4. CASE i = K + 1 /\ ~(i <= K)
      BY <1>1, <3>1, <3>4 DEF RowsKept
    <3> QED BY <3>2, <3>3, <3>4
  <2> QED BY <2>1, <2>2 DEF KeptIsNucleus
<1> QED BY <1>2, <1>3, <1>4

\* Rejection sampling is exact: for any two models, vocabulary and parameters, what
\* leaves a position has the distribution of the target there, whatever the draft
\* proposes (rejection.py:33-54).
THEOREM RejectionIsLossless ==
  ASSUME NEW K \in Nat PROVE InitWith(K) /\ [][Next]_rejectionVars => []Lossless
<1>1. InitWith(K) => RejectionIInv(K)
  BY RejectionInit
<1>2. RejectionIInv(K) /\ [Next]_rejectionVars => RejectionIInv(K)'
  BY RejectionStep
<1>3. RejectionIInv(K) => Lossless
  BY RejectionFollows
<1> QED BY <1>1, <1>2, <1>3, PTL

\* And every token it returns, accepted, corrected or bonus, is one the target can
\* emit at its position (rejection.py:39-54).
THEOREM RejectionEmitsPossible ==
  ASSUME NEW K \in Nat PROVE InitWith(K) /\ [][Next]_rejectionVars => []TargetCanEmit
<1>1. InitWith(K) => RejectionIInv(K)
  BY RejectionInit
<1>2. RejectionIInv(K) /\ [Next]_rejectionVars => RejectionIInv(K)'
  BY RejectionStep
<1>3. RejectionIInv(K) => TargetCanEmit
  BY RejectionFollows
<1> QED BY <1>1, <1>2, <1>3, PTL

\* And what it can emit there is the nucleus that the request's temperature, top-k and
\* top-p ask for: the most likely tokens, cut where the code says they are cut
\* (sampling.py:31-45).
THEOREM SamplesFromNucleus ==
  ASSUME NEW K \in Nat PROVE InitWith(K) /\ [][Next]_rejectionVars => []KeptIsNucleus
<1>1. InitWith(K) => RejectionIInv(K)
  BY RejectionInit
<1>2. RejectionIInv(K) /\ [Next]_rejectionVars => RejectionIInv(K)'
  BY RejectionStep
<1>3. RejectionIInv(K) => KeptIsNucleus
  BY RejectionFollows
<1> QED BY <1>1, <1>2, <1>3, PTL
===============================================================================
