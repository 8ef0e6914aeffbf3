----------------------------- MODULE ListLemmas -----------------------------
(***************************************************************************)
(* What the operators on lists that the models share return: selections,   *)
(* lists without repetition, the rows of a flat batch, prefixes and joins  *)
(* of lists, and sums over the elements of a finite set.                   *)
(***************************************************************************)
EXTENDS Integers, ModelRunner, Selection, FiniteSetTheorems, SequenceTheorems, TLAPS

\* Induction over the natural numbers, for a set.
LEMMA NatSetInduction ==
  ASSUME NEW S, 0 \in S, \A n \in Nat : n \in S => n + 1 \in S
  PROVE  Nat \subseteq S
<1> SUFFICES ASSUME NEW n \in Nat, n \notin S PROVE FALSE
  OBVIOUS
<1> DEFINE T == {m \in 0..n : m \in S}
           f == [m \in T |-> m + 1]
<1>1. IsFiniteSet(T)
  <2>1. IsFiniteSet(0..n)
    BY FS_Interval
  <2> QED BY <2>1, FS_Subset
<1>2. \A m \in T : m + 1 \in T
  <2> TAKE m \in T
  <2>1. m # n /\ m \in 0..n /\ m \in S
    OBVIOUS
  <2> QED BY <2>1
<1>3. f \in Injection(T, T)
  BY <1>2 DEF Injection, IsInjective
<1>4. f \in Surjection(T, T)
  BY <1>1, <1>3, FS_Injection
<1>5. 0 \in T
  OBVIOUS
<1>6. PICK m \in T : f[m] = 0
  BY <1>4, <1>5 DEF Surjection
<1> QED BY <1>6

-----------------------------------------------------------------------------
\* A running sum: sum[0] = 0 and sum[k] = sum[k - 1] + q[k].
IsSum(D, q, sum) == sum = [k \in D |-> IF k = 0 THEN 0 ELSE sum[k - 1] + q[k]]

\* There is a running sum up to every n.
LEMMA SumUpTo ==
  ASSUME NEW q
  PROVE  \A n \in Nat : \E sum : IsSum(0..n, q, sum)
<1> DEFINE S == {n \in Nat : \E sum : IsSum(0..n, q, sum)}
<1>1. 0 \in S
  <2>1. IsSum(0..0, q, [k \in 0..0 |-> 0])
    BY DEF IsSum
  <2> QED BY <2>1
<1>2. \A n \in Nat : n \in S => n + 1 \in S
  <2> SUFFICES ASSUME NEW n \in Nat, NEW sum, IsSum(0..n, q, sum)
               PROVE  \E longer : IsSum(0..(n + 1), q, longer)
    OBVIOUS
  <2> DEFINE longer == [k \in 0..(n + 1) |-> IF k = n + 1 THEN sum[n] + q[n + 1] ELSE sum[k]]
  <2>1. \A k \in 0..n : sum[k] = IF k = 0 THEN 0 ELSE sum[k - 1] + q[k]
    BY DEF IsSum
  <2>2. \A k \in 0..(n + 1) : longer[k] = IF k = 0 THEN 0 ELSE longer[k - 1] + q[k]
    <3> TAKE k \in 0..(n + 1)
    <3>1. CASE k = 0
      BY <3>1, <2>1
    <3>2. CASE k = n + 1
      <4>1. longer[k] = sum[n] + q[n + 1] /\ longer[k - 1] = sum[n]
        BY <3>2
      <4> QED BY <3>2, <4>1
    <3>3. CASE k \in 1..n
      <4>1. longer[k] = sum[k] /\ longer[k - 1] = sum[k - 1]
        BY <3>3
      <4> QED BY <3>3, <4>1, <2>1
    <3> QED BY <3>1, <3>2, <3>3
  <2>3. IsSum(0..(n + 1), q, longer)
    <3> HIDE DEF longer
    <3>1. longer = [k \in 0..(n + 1) |-> longer[k]]
      BY DEF longer
    <3> QED BY <2>2, <3>1 DEF IsSum
  <2> QED BY <2>3
<1> HIDE DEF S
<1>3. Nat \subseteq S
  BY <1>1, <1>2, NatSetInduction
<1> QED BY <1>3 DEF S

\* It agrees with any longer one.
LEMMA SumsAgree ==
  ASSUME NEW q, NEW n \in Nat, NEW m \in Nat, n <= m, NEW f, NEW g, IsSum(0..n, q, f), IsSum(0..m, q, g)
  PROVE  \A k \in 0..n : f[k] = g[k]
<1> DEFINE S == {k \in Nat : k \in 0..n => f[k] = g[k]}
<1>1. /\ \A k \in 0..n : f[k] = IF k = 0 THEN 0 ELSE f[k - 1] + q[k]
      /\ \A k \in 0..n : g[k] = IF k = 0 THEN 0 ELSE g[k - 1] + q[k]
  <2>1. 0..n \subseteq 0..m
    OBVIOUS
  <2> QED BY <2>1 DEF IsSum
<1>2. 0 \in S
  BY <1>1
<1>3. \A k \in Nat : k \in S => k + 1 \in S
  <2> SUFFICES ASSUME NEW k \in Nat, k \in S, k + 1 \in 0..n PROVE f[k + 1] = g[k + 1]
    OBVIOUS
  <2>1. f[k + 1] = f[k] + q[k + 1] /\ g[k + 1] = g[k] + q[k + 1] /\ f[k] = g[k]
    BY <1>1
  <2> QED BY <2>1
<1> HIDE DEF S
<1>4. Nat \subseteq S
  BY <1>2, <1>3, NatSetInduction
<1> QED BY <1>4 DEF S

\* A running sum over all of Nat, the function a recursive definition names.
LEMMA RunningSum ==
  ASSUME NEW q
  PROVE  \E sum : IsSum(Nat, q, sum)
<1> DEFINE upTo(n) == CHOOSE sum : IsSum(0..n, q, sum)
           sum == [n \in Nat |-> upTo(n)[n]]
<1>1. \A n \in Nat : IsSum(0..n, q, upTo(n))
  BY SumUpTo
<1> HIDE DEF upTo
<1>2. \A n \in Nat : sum[n] = IF n = 0 THEN 0 ELSE sum[n - 1] + q[n]
  <2> TAKE n \in Nat
  <2>1. upTo(n)[n] = IF n = 0 THEN 0 ELSE upTo(n)[n - 1] + q[n]
    BY <1>1 DEF IsSum
  <2>2. ASSUME n # 0 PROVE upTo(n)[n - 1] = upTo(n - 1)[n - 1]
    <3>1. n - 1 \in Nat /\ n - 1 <= n /\ n - 1 \in 0..(n - 1)
      BY <2>2
    <3>2. IsSum(0..(n - 1), q, upTo(n - 1)) /\ IsSum(0..n, q, upTo(n))
      BY <3>1, <1>1
    <3> QED BY <3>1, <3>2, SumsAgree
  <2> QED BY <2>1, <2>2
<1>3. IsSum(Nat, q, sum)
  <2> HIDE DEF sum
  <2>1. sum = [n \in Nat |-> sum[n]]
    BY DEF sum
  <2> QED BY <1>2, <2>1 DEF IsSum
<1> QED BY <1>3

-----------------------------------------------------------------------------
\* The number of elements of a finite set of indices that come before each of them
\* runs through 0, 1, ..., so that the k-th element exists and is unique.
LEMMA Ranks ==
  ASSUME NEW I \in SUBSET Nat, IsFiniteSet(I)
  PROVE  /\ Cardinality(I) \in Nat
         /\ [i \in I |-> Before(I, i) + 1] \in Bijection(I, 1..Cardinality(I))
         /\ \A i, j \in I : i < j => Before(I, i) < Before(I, j)
<1> DEFINE rank == [i \in I |-> Before(I, i) + 1]
           first(i) == {j \in I : j < i}
<1>0. \A i \in I : i \in Nat
  OBVIOUS
<1>1. Cardinality(I) \in Nat
  BY FS_CardinalityType
<1>2. \A i \in I : IsFiniteSet(first(i)) /\ Before(I, i) \in Nat /\ Before(I, i) = Cardinality(first(i))
  <2> TAKE i \in I
  <2>1. IsFiniteSet(first(i))
    BY FS_Subset
  <2> QED BY <2>1, FS_CardinalityType DEF Before
<1>3. \A i \in I : Before(I, i) < Cardinality(I)
  <2> TAKE i \in I
  <2>1. first(i) \subseteq I \ {i} /\ IsFiniteSet(I \ {i}) /\ Cardinality(I \ {i}) = Cardinality(I) - 1
    BY FS_RemoveElement
  <2>2. Cardinality(first(i)) <= Cardinality(I \ {i})
    BY <2>1, FS_Subset
  <2> HIDE DEF first
  <2> QED BY <1>1, <1>2, <2>1, <2>2
<1>4. \A i, j \in I : i < j => Before(I, i) < Before(I, j)
  <2> SUFFICES ASSUME NEW i \in I, NEW j \in I, i < j PROVE Before(I, i) < Before(I, j)
    OBVIOUS
  <2>0. i \in Nat /\ j \in Nat
    BY <1>0
  <2>1. i \notin first(i) /\ first(i) \cup {i} \subseteq first(j)
    <3>1. \A k \in first(i) : k \in first(j)
      BY <1>0, <2>0
    <3>2. i \in first(j) /\ i \notin first(i)
      BY <2>0
    <3> QED BY <3>1, <3>2
  <2> HIDE DEF first
  <2>2. Cardinality(first(i) \cup {i}) = Cardinality(first(i)) + 1
    BY <1>2, <2>1, FS_AddElement
  <2>3. Cardinality(first(i) \cup {i}) <= Cardinality(first(j))
    BY <1>2, <2>1, FS_Subset
  <2> QED BY <1>2, <2>2, <2>3
<1>a. \A i \in I : Before(I, i) \in Nat
  BY <1>2
<1>5. rank \in Injection(I, 1..Cardinality(I))
  <2>1. rank \in [I -> 1..Cardinality(I)]
    BY <1>1, <1>a, <1>3
  <2>2. \A i, j \in I : rank[i] = rank[j] => i = j
    <3> SUFFICES ASSUME NEW i \in I, NEW j \in I, i # j PROVE rank[i] # rank[j]
      OBVIOUS
    <3>1. i < j \/ j < i
      BY <1>0
    <3> QED BY <1>a, <1>4, <3>1
  <2> QED BY <2>1, <2>2 DEF Injection, IsInjective
<1>6. Cardinality(1..Cardinality(I)) = Cardinality(I) /\ IsFiniteSet(1..Cardinality(I))
  BY <1>1, FS_Interval
<1>7. rank \in Surjection(I, 1..Cardinality(I))
  BY <1>5, <1>6, FS_Injection
<1> QED BY <1>1, <1>4, <1>5, <1>7 DEF Bijection

\* The k-th selected element is the one with k - 1 selected indices before its own.
LEMMA SelectedProperties ==
  ASSUME NEW s, NEW I \in SUBSET Nat, IsFiniteSet(I)
  PROVE  /\ Cardinality(I) \in Nat /\ DOMAIN Selected(s, I) = 1..Cardinality(I)
         /\ \A i \in I : /\ Before(I, i) + 1 \in 1..Cardinality(I)
                         /\ Selected(s, I)[Before(I, i) + 1] = s[i]
         /\ \A k \in 1..Cardinality(I) : \E i \in I : Before(I, i) = k - 1 /\ Selected(s, I)[k] = s[i]
<1> DEFINE n == Cardinality(I)
           nth(k) == CHOOSE i \in I : Before(I, i) = k - 1
           rank == [i \in I |-> Before(I, i) + 1]
<1>1. n \in Nat /\ rank \in Bijection(I, 1..n)
  BY Ranks
<1>2. \A i \in I : rank[i] \in 1..n /\ rank[i] = Before(I, i) + 1
  BY <1>1 DEF Bijection, Injection
<1>3. \A i, j \in I : rank[i] = rank[j] => i = j
  BY <1>1 DEF Bijection, Injection, IsInjective
<1>4. \A i \in I : Before(I, i) \in Nat
  <2> TAKE i \in I
  <2>1. IsFiniteSet({j \in I : j < i})
    BY FS_Subset
  <2> QED BY <2>1, FS_CardinalityType DEF Before
<1>5. \A k \in 1..n : nth(k) \in I /\ Before(I, nth(k)) = k - 1
  <2> TAKE k \in 1..n
  <2>1. PICK i \in I : rank[i] = k
    BY <1>1 DEF Bijection, Surjection
  <2>2. Before(I, i) = k - 1
    BY <1>2, <1>4, <2>1
  <2> QED BY <2>2
<1>6. \A k \in 1..n : Selected(s, I)[k] = s[nth(k)]
  BY DEF Selected
<1>7. DOMAIN Selected(s, I) = 1..n
  BY DEF Selected
<1>8. ASSUME NEW i \in I PROVE Before(I, i) + 1 \in 1..n /\ Selected(s, I)[Before(I, i) + 1] = s[i]
  <2> DEFINE k == Before(I, i) + 1
  <2>1. k \in 1..n
    BY <1>2
  <2> HIDE DEF nth
  <2>2. Before(I, nth(k)) = Before(I, i)
    BY <1>4, <1>5, <2>1
  <2>3. nth(k) = i
    BY <1>2, <1>3, <1>5, <2>1, <2>2
  <2> QED BY <1>6, <2>1, <2>3
<1> HIDE DEF nth
<1> QED BY <1>1, <1>5, <1>6, <1>7, <1>8

\* A function on 1..n with values in T is a list of length n.
LEMMA ListFromFunction ==
  ASSUME NEW T, NEW n \in Nat, NEW f \in [1..n -> T]
  PROVE  f \in Seq(T) /\ Len(f) = n
<1>1. f \in Seq(T)
  OBVIOUS
<1>2. DOMAIN f = 1..Len(f) /\ Len(f) \in Nat /\ DOMAIN f = 1..n
  BY <1>1, LenProperties
<1> QED BY <1>1, <1>2

\* A list of elements of S is one of elements of a larger set.
LEMMA ListOfMore ==
  ASSUME NEW S, NEW T, S \subseteq T, NEW s \in Seq(S)
  PROVE  s \in Seq(T)
<1>1. Len(s) \in Nat /\ s \in [1..Len(s) -> S]
  BY LenProperties
<1>2. s \in [1..Len(s) -> T]
  BY <1>1
<1> QED BY <1>1, <1>2, ListFromFunction

\* A list of numbers has a greatest one.
LEMMA GreatestOfList ==
  ASSUME NEW len \in Nat \ {0}, NEW f, \A i \in 1..len : f[i] \in Nat
  PROVE  \E k \in 1..len : \A i \in 1..len : f[i] <= f[k]
<1> DEFINE best(m) == m + 1 <= len => \E k \in 1..(m + 1) : \A i \in 1..(m + 1) : f[i] <= f[k]
           S == {m \in Nat : best(m)}
<1>1. 0 \in S
  <2>1. 1..(0 + 1) = {1}
    OBVIOUS
  <2>2. 1 \in 1..len
    OBVIOUS
  <2> QED BY <2>1, <2>2
<1>2. ASSUME NEW m \in Nat, m \in S PROVE m + 1 \in S
  <2>1. SUFFICES ASSUME m + 1 + 1 <= len
                 PROVE  \E k \in 1..(m + 1 + 1) : \A i \in 1..(m + 1 + 1) : f[i] <= f[k]
    OBVIOUS
  <2>2. PICK k \in 1..(m + 1) : \A i \in 1..(m + 1) : f[i] <= f[k]
    BY <1>2, <2>1
  <2>3. \A i \in 1..(m + 1 + 1) : i \in 1..len /\ (i \in 1..(m + 1) \/ i = m + 1 + 1)
    BY <2>1
  <2>4. k \in 1..(m + 1 + 1) /\ m + 1 + 1 \in 1..(m + 1 + 1) /\ f[k] \in Nat /\ f[m + 1 + 1] \in Nat
    BY <2>1, <2>3
  <2>5. CASE f[m + 1 + 1] <= f[k]
    BY <2>2, <2>3, <2>4, <2>5
  <2>6. CASE f[k] <= f[m + 1 + 1]
    <3>1. \A i \in 1..(m + 1 + 1) : f[i] \in Nat
      BY <2>3
    <3>2. \A i \in 1..(m + 1 + 1) : f[i] <= f[m + 1 + 1]
      BY <2>2, <2>3, <2>4, <2>6, <3>1
    <3> QED BY <2>4, <3>2
  <2> QED BY <2>4, <2>5, <2>6
<1>3. len - 1 \in S
  <2>1. Nat \subseteq S
    <3> HIDE DEF S
    <3> QED BY <1>1, <1>2, NatSetInduction
  <2>2. len - 1 \in Nat
    OBVIOUS
  <2> QED BY <2>1, <2>2
<1> QED BY <1>3

\* A selection is a list of the elements at its indices.
LEMMA SelectedList ==
  ASSUME NEW T, NEW s, NEW I \in SUBSET Nat, IsFiniteSet(I), \A i \in I : s[i] \in T
  PROVE  /\ Selected(s, I) \in Seq(T) /\ Len(Selected(s, I)) = Cardinality(I)
         /\ \A i \in I : s[i] \in Range(Selected(s, I))
         /\ \A x \in Range(Selected(s, I)) : \E i \in I : x = s[i]
         /\ (\A i, j \in I : s[i] = s[j] => i = j) => IsInjective(Selected(s, I))
<1> DEFINE c == Cardinality(I)
           u == Selected(s, I)
<1>1. /\ c \in Nat /\ DOMAIN u = 1..c
      /\ \A i \in I : Before(I, i) + 1 \in 1..c /\ u[Before(I, i) + 1] = s[i]
      /\ \A k \in 1..c : \E i \in I : Before(I, i) = k - 1 /\ u[k] = s[i]
  BY SelectedProperties
<1>2. u \in [1..c -> T]
  <2>1. u = [k \in 1..c |-> u[k]]
    BY DEF Selected
  <2>2. \A k \in 1..c : u[k] \in T
    BY <1>1
  <2> HIDE DEF u, c
  <2> QED BY <2>1, <2>2
<1> HIDE DEF u, c
<1>3. u \in Seq(T) /\ Len(u) = c
  BY <1>1, <1>2, ListFromFunction
<1>4. (\A i \in I : s[i] \in Range(u)) /\ \A x \in Range(u) : \E i \in I : x = s[i]
  <2>1. \A k \in 1..c : \E i \in I : u[k] = s[i]
    BY <1>1
  <2>2. \A i \in I : \E k \in 1..c : u[k] = s[i]
    BY <1>1
  <2>3. Range(u) = {u[k] : k \in 1..c}
    BY <1>1 DEF Range
  <2> QED BY <2>1, <2>2, <2>3
<1>5. ASSUME \A i, j \in I : s[i] = s[j] => i = j, NEW k \in 1..c, NEW m \in 1..c, u[k] = u[m] PROVE k = m
  <2>1. PICK i \in I : Before(I, i) = k - 1 /\ u[k] = s[i]
    BY <1>1
  <2>2. PICK j \in I : Before(I, j) = m - 1 /\ u[m] = s[j]
    BY <1>1
  <2>3. i = j
    BY <1>5, <2>1, <2>2
  <2>4. k - 1 = m - 1
    BY <2>1, <2>2, <2>3
  <2> QED BY <1>1, <2>4
<1> QED BY <1>1, <1>3, <1>4, <1>5 DEF IsInjective, u, c

\* An index behind all others is the last one, and does not change what comes before them.
LEMMA LastIndex ==
  ASSUME NEW n \in Nat, NEW I \in SUBSET (1..n)
  PROVE  /\ IsFiniteSet(I) /\ Cardinality(I) \in Nat
         /\ IsFiniteSet(I \cup {n + 1}) /\ Cardinality(I \cup {n + 1}) = Cardinality(I) + 1
         /\ Before(I \cup {n + 1}, n + 1) = Cardinality(I)
         /\ \A i \in I : Before(I \cup {n + 1}, i) = Before(I, i)
<1>1. IsFiniteSet(I)
  <2>1. IsFiniteSet(1..n)
    BY FS_Interval
  <2> QED BY <2>1, FS_Subset
<1>2. \A i \in I : i \in Nat /\ i < n + 1 /\ ~(n + 1 < i)
  OBVIOUS
<1>3. n + 1 \notin I /\ ~(n + 1 < n + 1)
  BY <1>2
<1>4. {j \in I \cup {n + 1} : j < n + 1} = I
  <2>1. \A j \in I \cup {n + 1} : j < n + 1 <=> j \in I
    BY <1>2, <1>3
  <2> QED BY <2>1
<1>5. ASSUME NEW i \in I PROVE {j \in I \cup {n + 1} : j < i} = {j \in I : j < i}
  <2>1. ~(n + 1 < i)
    BY <1>2
  <2> QED BY <2>1
<1> QED BY <1>1, <1>3, <1>4, <1>5, FS_AddElement, FS_CardinalityType DEF Before

\* list.remove(e) on a list that has e once: the others stay, in their order.
LEMMA RemoveFirstProperties ==
  ASSUME NEW T, NEW s \in Seq(T), IsInjective(s), NEW e \in Range(s)
  PROVE  /\ RemoveFirst(s, e) \in Seq(T)
         /\ Len(RemoveFirst(s, e)) = Len(s) - 1
         /\ IsInjective(RemoveFirst(s, e))
         /\ Range(RemoveFirst(s, e)) = Range(s) \ {e}
<1> DEFINE n == Len(s)
           r == RemoveFirst(s, e)
<1>1. n \in Nat /\ DOMAIN s = 1..n /\ \A i \in 1..n : s[i] \in T
  OBVIOUS
<1>2. PICK i \in 1..n : s[i] = e
  BY <1>1 DEF Range
<1>3. {j \in 1..n : s[j] = e} = {i}
  BY <1>1, <1>2 DEF IsInjective
<1>4. SelectInSeq(s, LAMBDA v : v = e) = i
  BY <1>1, <1>2, <1>3 DEF SelectInSeq, Min
<1>5. r = SubSeq(s, 1, i - 1) \o SubSeq(s, i + 1, n)
  BY <1>2, <1>4 DEF RemoveFirst, RemoveAt
<1> HIDE DEF r
<1>6. /\ r \in Seq(T) /\ Len(r) = n - 1
      /\ \A k \in 1..(n - 1) : r[k] = IF k < i THEN s[k] ELSE s[k + 1]
  <2> DEFINE h == SubSeq(s, 1, i - 1)
             g == SubSeq(s, i + 1, n)
  <2>1. h \in Seq(T) /\ Len(h) = i - 1 /\ \A k \in 1..(i - 1) : h[k] = s[k]
    BY <1>1, <1>2
  <2>2. g \in Seq(T) /\ Len(g) = n - i /\ \A k \in 1..(n - i) : g[k] = s[i + k]
    <3>1. /\ g \in Seq(T) /\ Len(g) = IF i + 1 <= n THEN n - (i + 1) + 1 ELSE 0
          /\ \A k \in 1..Len(g) : g[k] = s[(i + 1) + k - 1]
      BY <1>1, <1>2, SubSeqProperties
    <3>2. (IF i + 1 <= n THEN n - (i + 1) + 1 ELSE 0) = n - i
      <4>1. n \in Nat /\ i \in Nat /\ i <= n
        BY <1>1, <1>2
      <4> HIDE DEF n
      <4> QED BY <4>1
    <3> QED BY <3>1, <3>2
  <2>r. r = h \o g
    BY <1>5
  <2> HIDE DEF h, g
  <2>3. /\ h \o g \in Seq(T) /\ Len(h \o g) = Len(h) + Len(g)
        /\ \A k \in 1..(Len(h) + Len(g)) : (h \o g)[k] = IF k <= Len(h) THEN h[k] ELSE g[k - Len(h)]
    BY <2>1, <2>2, ConcatProperties
  <2>4. r = h \o g /\ Len(r) = n - 1
    BY <1>1, <1>2, <2>r, <2>1, <2>2, <2>3
  <2>5. ASSUME NEW k \in 1..(n - 1) PROVE r[k] = IF k < i THEN s[k] ELSE s[k + 1]
    <3>1. CASE k < i
      BY <1>1, <1>2, <2>1, <2>2, <2>3, <2>4, <3>1
    <3>2. CASE ~(k < i)
      <4>1. k - (i - 1) \in 1..(n - i) /\ i + (k - (i - 1)) = k + 1 /\ ~(k <= i - 1)
        BY <1>1, <1>2, <3>2
      <4>2. g[k - (i - 1)] = s[k + 1]
        BY <2>2, <4>1
      <4> QED BY <1>1, <1>2, <2>1, <2>2, <2>3, <2>4, <3>2, <4>1, <4>2
    <3> QED BY <3>1, <3>2
  <2> QED BY <2>3, <2>4, <2>5
<1>7. DOMAIN r = 1..(n - 1)
  BY <1>6
<1>8. IsInjective(r)
  <2> SUFFICES ASSUME NEW j \in 1..(n - 1), NEW k \in 1..(n - 1), r[j] = r[k] PROVE j = k
    BY <1>7 DEF IsInjective
  <2>1. \A x, y \in 1..n : s[x] = s[y] => x = y
    BY <1>1 DEF IsInjective
  <2> QED BY <1>1, <1>2, <1>6, <2>1
<1>9. \A k \in 1..(n - 1) : r[k] \in Range(s) \ {e}
  <2> TAKE k \in 1..(n - 1)
  <2>1. \E j \in 1..n : j # i /\ r[k] = s[j]
    <3>1. k \in 1..n /\ k + 1 \in 1..n
      BY <1>1
    <3> QED BY <1>1, <1>2, <1>6, <3>1
  <2> QED BY <1>1, <1>2, <2>1 DEF Range, IsInjective
<1>10. \A x \in Range(s) \ {e} : \E k \in 1..(n - 1) : r[k] = x
  <2> TAKE x \in Range(s) \ {e}
  <2>1. PICK j \in 1..n : s[j] = x
    BY <1>1 DEF Range
  <2>2. j # i
    BY <1>2, <2>1
  <2>3. CASE j < i
    <3>1. j \in 1..(n - 1) /\ r[j] = s[j]
      BY <1>2, <1>6, <2>3
    <3> QED BY <2>1, <3>1
  <2>4. CASE j > i
    <3>1. j - 1 \in 1..(n - 1) /\ ~(j - 1 < i) /\ (j - 1) + 1 = j
      BY <1>1, <1>2, <2>4
    <3>2. r[j - 1] = s[j]
      BY <1>6, <3>1
    <3> QED BY <2>1, <3>1, <3>2
  <2> QED BY <2>2, <2>3, <2>4
<1>11. Range(r) = Range(s) \ {e}
  BY <1>7, <1>9, <1>10 DEF Range
<1> QED BY <1>6, <1>8, <1>11 DEF r

\* Appending a new element keeps a list without repetition.
LEMMA AppendDistinct ==
  ASSUME NEW T, NEW s \in Seq(T), NEW e \in T
  PROVE  /\ Append(s, e) \in Seq(T) /\ Len(Append(s, e)) = Len(s) + 1
         /\ Range(Append(s, e)) = Range(s) \cup {e}
         /\ IsInjective(s) /\ e \notin Range(s) => IsInjective(Append(s, e))
<1> DEFINE n == Len(s)
           app == Append(s, e)
<1>1. /\ n \in Nat /\ DOMAIN s = 1..n /\ app \in Seq(T) /\ Len(app) = n + 1 /\ DOMAIN app = 1..(n + 1)
      /\ app[n + 1] = e /\ \A i \in 1..n : app[i] = s[i]
  OBVIOUS
<1> HIDE DEF app
<1>2. Range(app) = Range(s) \cup {e}
  <2>1. \A i \in 1..(n + 1) : app[i] \in Range(s) \cup {e}
    BY <1>1 DEF Range
  <2>2. \A x \in Range(s) \cup {e} : \E i \in 1..(n + 1) : app[i] = x
    BY <1>1 DEF Range
  <2> QED BY <1>1, <2>1, <2>2 DEF Range
<1>3. ASSUME IsInjective(s), e \notin Range(s) PROVE IsInjective(app)
  BY <1>1, <1>3 DEF IsInjective, Range
<1>4. app \in Seq(T) /\ Len(app) = Len(s) + 1
  BY <1>1
<1>5. IsInjective(s) /\ e \notin Range(s) => IsInjective(app)
  BY <1>3
<1> QED
  <2>1. app = Append(s, e)
    BY DEF app
  <2> QED BY <1>2, <1>4, <1>5, <2>1

\* Two lists without repetition and without a common element make one.
LEMMA ConcatDisjoint ==
  ASSUME NEW T, NEW s \in Seq(T), NEW t \in Seq(T)
  PROVE  /\ s \o t \in Seq(T) /\ Range(s \o t) = Range(s) \cup Range(t)
         /\ IsInjective(s) /\ IsInjective(t) /\ Range(s) \cap Range(t) = {} => IsInjective(s \o t)
<1> DEFINE n == Len(s)
           m == Len(t)
           c == s \o t
<1>1. /\ n \in Nat /\ m \in Nat /\ DOMAIN s = 1..n /\ DOMAIN t = 1..m
      /\ c \in Seq(T) /\ Len(c) = n + m /\ DOMAIN c = 1..(n + m)
      /\ \A i \in 1..(n + m) : c[i] = IF i <= n THEN s[i] ELSE t[i - n]
  OBVIOUS
<1> HIDE DEF c
<1>2. Range(c) = Range(s) \cup Range(t)
  <2>1. \A i \in 1..(n + m) : c[i] \in Range(s) \cup Range(t)
    <3> TAKE i \in 1..(n + m)
    <3>1. IF i <= n THEN i \in 1..n ELSE i - n \in 1..m
      BY <1>1
    <3> QED BY <1>1, <3>1 DEF Range
  <2>2. \A x \in Range(s) : \E i \in 1..(n + m) : c[i] = x
    BY <1>1 DEF Range
  <2>3. \A x \in Range(t) : \E i \in 1..(n + m) : c[i] = x
    <3> TAKE x \in Range(t)
    <3>1. PICK j \in 1..m : t[j] = x
      BY <1>1 DEF Range
    <3>2. n + j \in 1..(n + m) /\ ~(n + j <= n) /\ (n + j) - n = j
      BY <1>1
    <3> QED BY <1>1, <3>1, <3>2
  <2>4. Range(c) = {c[i] : i \in 1..(n + m)}
    BY <1>1 DEF Range
  <2> QED BY <2>1, <2>2, <2>3, <2>4
<1>3. ASSUME IsInjective(s), IsInjective(t), Range(s) \cap Range(t) = {} PROVE IsInjective(c)
  <2> SUFFICES ASSUME NEW i \in 1..(n + m), NEW j \in 1..(n + m), c[i] = c[j] PROVE i = j
    BY <1>1 DEF IsInjective
  <2>1. \A k \in 1..n : s[k] \in Range(s)
    BY <1>1 DEF Range
  <2>2. \A k \in 1..m : t[k] \in Range(t)
    BY <1>1 DEF Range
  <2>3. CASE i <= n /\ j <= n
    BY <1>1, <1>3, <2>3 DEF IsInjective
  <2>4. CASE i > n /\ j > n
    <3>1. i - n \in 1..m /\ j - n \in 1..m /\ t[i - n] = t[j - n]
      BY <1>1, <2>4
    <3>2. i - n = j - n
      BY <1>1, <1>3, <3>1 DEF IsInjective
    <3> QED BY <1>1, <3>2
  <2>5. CASE i <= n /\ j > n
    BY <1>1, <1>3, <2>1, <2>2, <2>5
  <2>6. CASE i > n /\ j <= n
    BY <1>1, <1>3, <2>1, <2>2, <2>6
  <2> QED BY <1>1, <2>3, <2>4, <2>5, <2>6
<1> QED BY <1>1, <1>2, <1>3 DEF c

\* The head of a list without repetition is not in its tail.
LEMMA HeadAndTail ==
  ASSUME NEW T, NEW s \in Seq(T), s # <<>>
  PROVE  /\ Head(s) \in T /\ Head(s) = s[1] /\ Tail(s) \in Seq(T) /\ Len(Tail(s)) = Len(s) - 1
         /\ \A i \in 1..(Len(s) - 1) : Tail(s)[i] = s[i + 1]
         /\ Range(s) = {Head(s)} \cup Range(Tail(s))
         /\ IsInjective(s) => IsInjective(Tail(s)) /\ Range(Tail(s)) = Range(s) \ {Head(s)}
<1> DEFINE n == Len(s)
           t == Tail(s)
<1>1. /\ n \in Nat /\ n >= 1 /\ DOMAIN s = 1..n /\ Head(s) = s[1] /\ s[1] \in T
      /\ t \in Seq(T) /\ Len(t) = n - 1 /\ DOMAIN t = 1..(n - 1)
      /\ \A i \in 1..(n - 1) : t[i] = s[i + 1] /\ i + 1 \in 1..n
  OBVIOUS
<1> HIDE DEF t
<1>2. \A i \in 2..n : i - 1 \in 1..(n - 1) /\ s[i] = t[i - 1]
  <2> TAKE i \in 2..n
  <2>1. i - 1 \in 1..(n - 1) /\ (i - 1) + 1 = i
    BY <1>1
  <2> QED BY <1>1, <2>1
<1>3. Range(s) = {s[1]} \cup Range(t)
  <2>1. \A i \in 1..n : s[i] \in {s[1]} \cup Range(t)
    BY <1>1, <1>2 DEF Range
  <2>2. s[1] \in Range(s) /\ \A i \in 1..(n - 1) : t[i] \in Range(s)
    BY <1>1 DEF Range
  <2> QED BY <1>1, <2>1, <2>2 DEF Range
<1>4. ASSUME IsInjective(s) PROVE IsInjective(t) /\ s[1] \notin Range(t)
  <2>1. \A i \in 1..(n - 1) : t[i] # s[1]
    <3> TAKE i \in 1..(n - 1)
    <3>1. i + 1 \in 1..n /\ 1 \in 1..n /\ i + 1 # 1
      BY <1>1
    <3> QED BY <1>1, <1>4, <3>1 DEF IsInjective
  <2>2. \A i, j \in 1..(n - 1) : t[i] = t[j] => i = j
    <3> SUFFICES ASSUME NEW i \in 1..(n - 1), NEW j \in 1..(n - 1), t[i] = t[j] PROVE i = j
      OBVIOUS
    <3>1. i + 1 = j + 1
      BY <1>1, <1>4 DEF IsInjective
    <3> QED BY <3>1
  <2> QED BY <1>1, <2>1, <2>2 DEF IsInjective, Range
<1> QED BY <1>1, <1>3, <1>4 DEF t

-----------------------------------------------------------------------------
\* The rows of a flat batch.

\* Every sequence of a batch starts where the one before it ends.
LEMMA RowStartNext ==
  ASSUME NEW metas
  PROVE  /\ RowStart(metas, 1) = 0
         /\ \A k \in Nat \ {0} : RowStart(metas, k + 1) = RowStart(metas, k) + metas[k].q
<1> DEFINE q == [k \in Nat |-> metas[k].q]
           rule(f) == f = [k \in Nat |-> IF k = 0 THEN 0 ELSE f[k - 1] + metas[k].q]
           offset == CHOOSE f : rule(f)
<1>1. PICK sum : IsSum(Nat, q, sum)
  BY RunningSum
<1>2. rule(sum)
  <2>1. \A k \in Nat : q[k] = metas[k].q
    OBVIOUS
  <2> HIDE DEF q
  <2> QED BY <1>1, <2>1 DEF IsSum
<1>3. rule(offset)
  BY <1>2
<1>4. \A i : RowStart(metas, i) = offset[i - 1]
  BY DEF RowStart
<1> HIDE DEF offset
<1>5. \A k \in Nat : offset[k] = IF k = 0 THEN 0 ELSE offset[k - 1] + metas[k].q
  BY <1>3
<1>6. RowStart(metas, 1) = 0
  BY <1>4, <1>5
<1>7. ASSUME NEW k \in Nat \ {0} PROVE RowStart(metas, k + 1) = RowStart(metas, k) + metas[k].q
  <2>1. k \in Nat /\ k # 0 /\ (k + 1) - 1 = k
    OBVIOUS
  <2>2. offset[k] = offset[k - 1] + metas[k].q
    BY <1>5, <2>1
  <2>3. RowStart(metas, k + 1) = offset[k] /\ RowStart(metas, k) = offset[k - 1]
    BY <1>4, <2>1
  <2> QED BY <2>2, <2>3
<1> QED BY <1>6, <1>7

\* The start is a number of rows, and depends on the sequences before only.
LEMMA RowStartAgrees ==
  ASSUME NEW metas, NEW others, NEW n \in Nat,
         \A k \in 1..n : metas[k].q \in Nat /\ others[k].q = metas[k].q
  PROVE  \A i \in 1..(n + 1) : RowStart(metas, i) \in Nat /\ RowStart(others, i) = RowStart(metas, i)
<1> DEFINE same(i) == RowStart(metas, i) \in Nat /\ RowStart(others, i) = RowStart(metas, i)
           S == {k \in Nat : k <= n => same(k + 1)}
<1>1. 0 \in S
  <2>1. RowStart(metas, 1) = 0 /\ RowStart(others, 1) = 0
    BY RowStartNext
  <2> QED BY <2>1
<1>2. ASSUME NEW k \in Nat, k \in S PROVE k + 1 \in S
  <2> SUFFICES ASSUME k + 1 <= n PROVE same((k + 1) + 1)
    OBVIOUS
  <2>1. same(k + 1)
    BY <1>2
  <2>2. k + 1 \in 1..n /\ k + 1 \in Nat \ {0}
    OBVIOUS
  <2>3. /\ RowStart(metas, (k + 1) + 1) = RowStart(metas, k + 1) + metas[k + 1].q
        /\ RowStart(others, (k + 1) + 1) = RowStart(others, k + 1) + others[k + 1].q
    BY <2>2, RowStartNext
  <2> QED BY <2>1, <2>2, <2>3
<1> HIDE DEF S
<1>3. Nat \subseteq S
  BY <1>1, <1>2, NatSetInduction
<1>4. ASSUME NEW i \in 1..(n + 1) PROVE same(i)
  <2>1. i - 1 \in Nat /\ i - 1 <= n /\ (i - 1) + 1 = i
    OBVIOUS
  <2>2. i - 1 \in S
    BY <1>3, <2>1
  <2>3. same((i - 1) + 1)
    BY <2>1, <2>2 DEF S
  <2> QED BY <2>1, <2>3
<1> QED BY <1>4
-----------------------------------------------------------------------------
\* Prefixes.

\* The first m elements of a list.
LEMMA PrefixProperties ==
  ASSUME NEW T, NEW s \in Seq(T), NEW m \in 0..Len(s)
  PROVE  /\ SubSeq(s, 1, m) \in Seq(T) /\ Len(SubSeq(s, 1, m)) = m
         /\ \A i \in 1..m : SubSeq(s, 1, m)[i] = s[i]
<1>1. Len(s) \in Nat /\ \A i \in 1..Len(s) : s[i] \in T
  BY LenProperties
<1>2. m \in Int /\ m <= Len(s) /\ m >= 0
  BY <1>1
<1>3. \A i \in 1..m : s[i] \in T
  BY <1>1, <1>2
<1>4. /\ SubSeq(s, 1, m) \in Seq(T) /\ Len(SubSeq(s, 1, m)) = IF 1 <= m THEN m - 1 + 1 ELSE 0
      /\ \A i \in 1..(m - 1 + 1) : SubSeq(s, 1, m)[i] = s[1 + i - 1]
  BY <1>2, <1>3, SubSeqProperties
<1> DEFINE t == SubSeq(s, 1, m)
<1> HIDE DEF t
<1>5. \A i \in 1..m : t[i] = s[i]
  BY <1>2, <1>4 DEF t
<1> QED BY <1>2, <1>4, <1>5 DEF t

\* A prefix of a prefix is a prefix.
LEMMA PrefixOfPrefix ==
  ASSUME NEW T, NEW s \in Seq(T), NEW m \in 0..Len(s), NEW k \in 0..m
  PROVE  SubSeq(SubSeq(s, 1, m), 1, k) = SubSeq(s, 1, k)
<1>1. Len(s) \in Nat
  BY LenProperties
<1>2. k \in 0..Len(s) /\ k \in 0..m /\ m \in Nat /\ k \in Nat
  BY <1>1
<1> DEFINE t == SubSeq(s, 1, m)
           u == SubSeq(t, 1, k)
           v == SubSeq(s, 1, k)
<1>3. t \in Seq(T) /\ Len(t) = m /\ \A i \in 1..m : t[i] = s[i]
  BY PrefixProperties
<1> HIDE DEF t
<1>4. u \in Seq(T) /\ Len(u) = k /\ \A i \in 1..k : u[i] = t[i]
  BY <1>2, <1>3, PrefixProperties
<1>5. v \in Seq(T) /\ Len(v) = k /\ \A i \in 1..k : v[i] = s[i]
  BY <1>2, PrefixProperties
<1> HIDE DEF u, v
<1>6. u = v
  BY <1>2, <1>3, <1>4, <1>5, SeqEqual
<1> QED BY <1>6 DEF t, u, v

\* The whole list is its longest prefix, and appending leaves the prefixes as they are.
LEMMA PrefixOfAppend ==
  ASSUME NEW T, NEW s \in Seq(T), NEW x \in T
  PROVE  /\ SubSeq(s, 1, Len(s)) = s
         /\ \A m \in 0..Len(s) : SubSeq(Append(s, x), 1, m) = SubSeq(s, 1, m)
<1>1. Len(s) \in Nat /\ Len(s) \in 0..Len(s)
  BY LenProperties
<1>2. SubSeq(s, 1, Len(s)) = s
  <2> DEFINE t == SubSeq(s, 1, Len(s))
  <2>1. t \in Seq(T) /\ Len(t) = Len(s) /\ \A i \in 1..Len(s) : t[i] = s[i]
    BY <1>1, PrefixProperties
  <2> HIDE DEF t
  <2>2. t = s
    BY <2>1, SeqEqual
  <2> QED BY <2>2 DEF t
<1>3. ASSUME NEW m \in 0..Len(s) PROVE SubSeq(Append(s, x), 1, m) = SubSeq(s, 1, m)
  <2> DEFINE longer == Append(s, x)
             u == SubSeq(longer, 1, m)
             v == SubSeq(s, 1, m)
  <2>1. longer \in Seq(T) /\ Len(longer) = Len(s) + 1 /\ \A i \in 1..Len(s) : longer[i] = s[i]
    BY AppendProperties
  <2> HIDE DEF longer
  <2>2. m \in 0..Len(longer) /\ m \in Nat /\ m <= Len(s)
    BY <1>1, <2>1
  <2>3. u \in Seq(T) /\ Len(u) = m /\ \A i \in 1..m : u[i] = longer[i]
    BY <2>1, <2>2, PrefixProperties
  <2>4. v \in Seq(T) /\ Len(v) = m /\ \A i \in 1..m : v[i] = s[i]
    BY PrefixProperties
  <2> HIDE DEF u, v
  <2>5. \A i \in 1..m : u[i] = v[i]
    BY <1>1, <2>1, <2>2, <2>3, <2>4
  <2>6. u = v
    BY <2>3, <2>4, <2>5, SeqEqual
  <2> QED BY <2>6 DEF longer, u, v
<1> QED BY <1>2, <1>3

\* A set of numbers up to n that is not empty has a greatest one.
LEMMA GreatestOfSet ==
  ASSUME NEW n \in Nat, NEW S \in SUBSET (0..n), S # {}
  PROVE  \E x \in S : \A y \in S : y <= x
<1> DEFINE f == [i \in 1..(n + 1) |-> IF i - 1 \in S THEN i ELSE 0]
           top == n + 1
<1>1. \A i \in 1..top : f[i] \in Nat
  OBVIOUS
<1>2. top \in Nat \ {0}
  OBVIOUS
<1> HIDE DEF f
<1>3. PICK k \in 1..top : \A i \in 1..top : f[i] <= f[k]
  BY <1>1, <1>2, GreatestOfList
<1>4. PICK z \in S : TRUE
  OBVIOUS
<1>5. z + 1 \in 1..top /\ f[z + 1] >= 1
  BY DEF f
<1>6. f[k] >= 1 /\ f[k] \in Nat
  BY <1>1, <1>3, <1>5
<1>7. k - 1 \in S /\ f[k] = k
  BY <1>6 DEF f
<1>8. ASSUME NEW y \in S PROVE y <= k - 1
  <2>1. y + 1 \in 1..top /\ f[y + 1] = y + 1
    BY DEF f
  <2>2. f[y + 1] <= f[k]
    BY <1>3, <2>1
  <2>3. y \in Nat /\ k \in Nat
    OBVIOUS
  <2> QED BY <1>7, <2>1, <2>2, <2>3
<1> QED BY <1>7, <1>8

\* A set of numbers that is not empty has a least one.
LEMMA LeastOfSet ==
  ASSUME NEW S \in SUBSET Nat, S # {}
  PROVE  \E x \in S : \A y \in S : x <= y
<1> SUFFICES ASSUME ~ \E x \in S : \A y \in S : x <= y PROVE FALSE
  OBVIOUS
<1> DEFINE below == {m \in Nat : \A y \in S : m <= y}
<1>1. 0 \in below
  OBVIOUS
<1>2. ASSUME NEW m \in Nat, m \in below PROVE m + 1 \in below
  <2>1. m \notin S
    BY <1>2
  <2>2. \A y \in S : m <= y /\ y # m /\ y \in Nat
    BY <1>2, <2>1
  <2> QED BY <2>2
<1> HIDE DEF below
<1>3. Nat \subseteq below
  BY <1>1, <1>2, NatSetInduction
<1>4. PICK z \in S : TRUE
  OBVIOUS
<1>5. z + 1 \in below /\ z \in Nat
  BY <1>3
<1> QED BY <1>5 DEF below

\* A list of distinct elements of a finite set.
LEMMA SetToSeqProperties ==
  ASSUME NEW S, IsFiniteSet(S)
  PROVE  SetToSeq(S) \in Seq(S) /\ IsInjective(SetToSeq(S))
<1> DEFINE n == Cardinality(S)
<1>1. n \in Nat /\ ExistsBijection(1..n, S)
  BY FS_CardinalityType
<1>2. PICK f \in Bijection(1..n, S) : TRUE
  BY <1>1 DEF ExistsBijection
<1>3. f \in [1..n -> S] /\ IsInjective(f)
  BY <1>2 DEF Bijection, Injection, IsInjective
<1> DEFINE list == SetToSeq(S)
<1>4. list \in [1..n -> S] /\ IsInjective(list)
  BY <1>3 DEF SetToSeq
<1> HIDE DEF n, list
<1>5. list \in Seq(S)
  BY <1>1, <1>4, ListFromFunction
<1> QED BY <1>4, <1>5 DEF list

\* It has all of them.
LEMMA SetToSeqCovers ==
  ASSUME NEW S, IsFiniteSet(S)
  PROVE  \A x \in S : \E j \in DOMAIN SetToSeq(S) : SetToSeq(S)[j] = x
<1> DEFINE n == Cardinality(S)
           list == SetToSeq(S)
<1>1. n \in Nat /\ ExistsBijection(1..n, S)
  BY FS_CardinalityType
<1>2. PICK f \in Bijection(1..n, S) : TRUE
  BY <1>1 DEF ExistsBijection
<1>3. f \in [1..n -> S] /\ IsInjective(f)
  BY <1>2 DEF Bijection, Injection, IsInjective
<1>4. list \in [1..n -> S] /\ IsInjective(list)
  BY <1>3 DEF SetToSeq
<1> HIDE DEF list
<1>5. list \in Injection(1..n, S)
  BY <1>4 DEF Injection, IsInjective
<1>6. Cardinality(1..n) = n
  <2> HIDE DEF n
  <2>1. Cardinality(1..n) = IF 1 > n THEN 0 ELSE n - 1 + 1
    BY <1>1, FS_Interval
  <2> QED BY <1>1, <2>1
<1>7. list \in Surjection(1..n, S)
  BY <1>5, <1>6, FS_Injection
<1>8. \A x \in S : \E j \in 1..n : list[j] = x
  BY <1>7 DEF Surjection
<1> QED BY <1>4, <1>8 DEF list

\* The first m elements of a list given element by element.
LEMMA ListPrefix ==
  ASSUME NEW k \in Nat, NEW f, f = [c \in 1..k |-> f[c]], NEW m \in 0..k
  PROVE  Len(f) = k /\ SubSeq(f, 1, m) = [c \in 1..m |-> f[c]]
<1> DEFINE T == {f[c] : c \in 1..k}
           part == SubSeq(f, 1, m)
<1>1. f \in Seq(T) /\ Len(f) = k
  <2>1. f \in [1..k -> T]
    <3> DEFINE g == [c \in 1..k |-> f[c]]
    <3>1. g \in [1..k -> T]
      OBVIOUS
    <3> HIDE DEF T
    <3> QED BY <3>1
  <2> HIDE DEF T
  <2> QED BY <2>1, ListFromFunction
<1> HIDE DEF T
<1>2. part \in Seq(T) /\ Len(part) = m /\ \A c \in 1..m : part[c] = f[c]
  BY <1>1, PrefixProperties
<1> HIDE DEF part
<1>3. part = [c \in 1..m |-> part[c]]
  BY <1>2, LenProperties
<1> QED BY <1>1, <1>2, <1>3 DEF part

\* Selecting the first n indices.
LEMMA SelectedPrefix ==
  ASSUME NEW s, NEW n \in Nat
  PROVE  Selected(s, 1..n) = [k \in 1..n |-> s[k]]
<1> DEFINE I == 1..n
           u == Selected(s, I)
<1>1. IsFiniteSet(I) /\ Cardinality(I) = n /\ I \in SUBSET Nat
  BY FS_Interval
<1>2. ASSUME NEW i \in I PROVE Before(I, i) = i - 1
  <2>1. {j \in I : j < i} = 1..(i - 1)
    OBVIOUS
  <2>2. Cardinality(1..(i - 1)) = i - 1
    <3>1. 1 \in Int /\ i - 1 \in Int /\ (1 > i - 1 => i - 1 = 0)
      OBVIOUS
    <3>2. Cardinality(1..(i - 1)) = IF 1 > i - 1 THEN 0 ELSE (i - 1) - 1 + 1
      BY <3>1, FS_Interval
    <3> QED BY <3>1, <3>2
  <2> QED BY <2>1, <2>2 DEF Before
<1>3. DOMAIN u = 1..n /\ \A k \in 1..n : \E i \in I : Before(I, i) = k - 1 /\ u[k] = s[i]
  <2> HIDE DEF I
  <2>1. /\ DOMAIN Selected(s, I) = 1..Cardinality(I)
        /\ \A k \in 1..Cardinality(I) : \E i \in I : Before(I, i) = k - 1 /\ Selected(s, I)[k] = s[i]
    BY <1>1, SelectedProperties
  <2> QED BY <1>1, <2>1
<1>4. \A k \in 1..n : u[k] = s[k]
  BY <1>2, <1>3
<1>5. u = [k \in DOMAIN u |-> u[k]]
  BY DEF Selected
<1> HIDE DEF u
<1> QED BY <1>3, <1>4, <1>5 DEF u, I

\* The indices of a list appended to one of length n.
Behind(n, J) == {n + j : j \in J}

\* There are as many of them, whatever stands before.
LEMMA BehindCount ==
  ASSUME NEW n \in Nat, NEW I \in SUBSET (1..n), NEW J \in SUBSET (Nat \ {0}), IsFiniteSet(J)
  PROVE  /\ IsFiniteSet(I \cup Behind(n, J)) /\ Cardinality(I) \in Nat /\ Cardinality(J) \in Nat
         /\ Cardinality(I \cup Behind(n, J)) = Cardinality(I) + Cardinality(J)
<1> DEFINE shift == [j \in J |-> n + j]
           back == Behind(n, J)
<1>1. IsFiniteSet(I) /\ Cardinality(I) \in Nat
  <2>1. IsFiniteSet(1..n)
    BY FS_Interval
  <2> QED BY <2>1, FS_Subset, FS_CardinalityType
<1>2. IsFiniteSet(back) /\ Cardinality(back) = Cardinality(J)
  <2>1. shift \in Bijection(J, back)
    <3>1. shift \in [J -> back]
      BY DEF Behind
    <3>2. \A a, b \in J : shift[a] = shift[b] => a = b
      OBVIOUS
    <3>3. \A y \in back : \E j \in J : shift[j] = y
      BY DEF Behind
    <3> QED BY <3>1, <3>2, <3>3 DEF Bijection, Injection, Surjection, IsInjective
  <2>2. ExistsBijection(J, back)
    BY <2>1 DEF ExistsBijection
  <2> QED BY <2>2, FS_Bijection
<1>3. I \cap back = {}
  BY DEF Behind
<1>4. Cardinality(J) \in Nat
  BY FS_CardinalityType
<1> HIDE DEF back
<1>5. IsFiniteSet(I \cup back) /\ Cardinality(I \cup back) = Cardinality(I) + Cardinality(back) - Cardinality(I \cap back)
  BY <1>1, <1>2, FS_Union
<1>6. Cardinality(I \cap back) = 0
  BY <1>3, FS_EmptySet
<1> QED BY <1>1, <1>2, <1>4, <1>5, <1>6 DEF back

\* Selecting from two lists joined is joining what is selected from each.
SelectsApart(s, t, I, J) ==
  Selected(s \o t, I \cup Behind(Len(s), J)) = Selected(s, I) \o Selected(t, J)

\* So it is for any two lists and any of their indices.
LEMMA SelectedConcat ==
  ASSUME NEW T, NEW s \in Seq(T), NEW t \in Seq(T), NEW I \in SUBSET (1..Len(s)), NEW J \in SUBSET (1..Len(t))
  PROVE  Selected(s, I) \in Seq(T) /\ Selected(t, J) \in Seq(T) /\ SelectsApart(s, t, I, J)
<1> DEFINE n == Len(s)
           m == Len(t)
           K == I \cup Behind(n, J)
           u == Selected(s, I)
           v == Selected(t, J)
           w == Selected(s \o t, K)
           a == Cardinality(I)
           b == Cardinality(J)
<1>1. /\ n \in Nat /\ m \in Nat /\ IsFiniteSet(I) /\ IsFiniteSet(J)
      /\ (\A i \in 1..n : s[i] \in T /\ (s \o t)[i] = s[i])
      /\ (\A j \in 1..m : t[j] \in T /\ (s \o t)[n + j] = t[j])
  <2>1. n \in Nat /\ m \in Nat /\ (\A i \in 1..n : s[i] \in T) /\ (\A j \in 1..m : t[j] \in T)
    BY LenProperties
  <2>2. IsFiniteSet(1..n) /\ IsFiniteSet(1..m)
    BY <2>1, FS_Interval
  <2>3. IsFiniteSet(I) /\ IsFiniteSet(J)
    BY <2>2, FS_Subset
  <2>4. \A i \in 1..(n + m) : (s \o t)[i] = IF i <= n THEN s[i] ELSE t[i - n]
    BY ConcatProperties
  <2>5. \A j \in 1..m : n + j \in 1..(n + m) /\ ~(n + j <= n) /\ n + j - n = j
    BY <2>1
  <2> QED BY <2>1, <2>3, <2>4, <2>5
<1> HIDE DEF n, m
<1>2. /\ I \in SUBSET (1..n) /\ J \in SUBSET (1..m) /\ I \in SUBSET Nat /\ J \in SUBSET (Nat \ {0})
      /\ \A i \in I : i \in Nat /\ i <= n
      /\ \A j \in J : j \in Nat /\ j >= 1
  BY <1>1 DEF n, m
<1>3. IsFiniteSet(K) /\ Cardinality(K) = a + b /\ a \in Nat /\ b \in Nat /\ K \in SUBSET Nat
  <2>1. IsFiniteSet(K) /\ Cardinality(K) = a + b /\ a \in Nat /\ b \in Nat
    BY <1>1, <1>2, BehindCount
  <2>2. \A j \in J : n + j \in Nat
    BY <1>1, <1>2
  <2>3. K \in SUBSET Nat
    BY <1>2, <2>2 DEF Behind
  <2> QED BY <2>1, <2>3
<1>4. ASSUME NEW i \in I PROVE i \in K /\ Before(K, i) = Before(I, i)
  <2>1. {k \in K : k < i} = {k \in I : k < i}
    BY <1>1, <1>2 DEF Behind
  <2> QED BY <2>1 DEF Before
<1>5. ASSUME NEW j \in J PROVE n + j \in K /\ Before(K, n + j) = a + Before(J, j)
  <2> DEFINE L == {l \in J : l < j}
  <2>1. {k \in K : k < n + j} = I \cup Behind(n, L)
    <3>1. \A i \in I : i < n + j
      BY <1>1, <1>2
    <3>2. \A l \in J : n + l < n + j <=> l < j
      BY <1>1, <1>2
    <3> QED BY <3>1, <3>2 DEF Behind
  <2>2. L \in SUBSET (Nat \ {0}) /\ IsFiniteSet(L)
    BY <1>1, <1>2, FS_Subset
  <2>3. Cardinality(I \cup Behind(n, L)) = a + Cardinality(L)
    <3> HIDE DEF L
    <3> QED BY <1>1, <1>2, <2>2, BehindCount
  <2>4. n + j \in K
    BY DEF Behind
  <2> QED BY <2>1, <2>3, <2>4 DEF Before
<1>6. /\ DOMAIN u = 1..a /\ u \in Seq(T) /\ Len(u) = a
      /\ \A k \in 1..a : \E i \in I : Before(I, i) = k - 1 /\ u[k] = s[i]
  <2>1. \A i \in I : s[i] \in T
    BY <1>1, <1>2
  <2>2. u \in Seq(T) /\ Len(u) = Cardinality(I)
    BY <1>1, <1>2, <2>1, SelectedList
  <2>3. DOMAIN u = 1..Cardinality(I) /\ \A k \in 1..Cardinality(I) : \E i \in I : Before(I, i) = k - 1 /\ u[k] = s[i]
    BY <1>1, <1>2, SelectedProperties
  <2> QED BY <2>2, <2>3
<1>7. /\ DOMAIN v = 1..b /\ v \in Seq(T) /\ Len(v) = b
      /\ \A k \in 1..b : \E j \in J : Before(J, j) = k - 1 /\ v[k] = t[j]
  <2>1. \A j \in J : t[j] \in T
    BY <1>1, <1>2
  <2>2. J \in SUBSET Nat
    BY <1>2
  <2>3. v \in Seq(T) /\ Len(v) = Cardinality(J)
    BY <1>1, <2>1, <2>2, SelectedList
  <2>4. DOMAIN v = 1..Cardinality(J) /\ \A k \in 1..Cardinality(J) : \E j \in J : Before(J, j) = k - 1 /\ v[k] = t[j]
    BY <1>1, <2>2, SelectedProperties
  <2> QED BY <2>3, <2>4
<1>8. /\ DOMAIN w = 1..(a + b) /\ w \in Seq(T) /\ Len(w) = a + b
      /\ \A k \in K : w[Before(K, k) + 1] = (s \o t)[k]
  <2>1. \A k \in K : (s \o t)[k] \in T
    BY <1>1, <1>2 DEF Behind
  <2>2. K \in SUBSET Nat
    BY <1>3
  <2> HIDE DEF K
  <2>3. DOMAIN w = 1..Cardinality(K) /\ \A k \in K : w[Before(K, k) + 1] = (s \o t)[k]
    BY <1>3, <2>2, SelectedProperties
  <2>4. w \in Seq(T) /\ Len(w) = Cardinality(K)
    <3> DEFINE st == s \o t
    <3>1. \A k \in K : st[k] \in T
      BY <2>1
    <3> HIDE DEF st
    <3>2. Selected(st, K) \in Seq(T) /\ Len(Selected(st, K)) = Cardinality(K)
      BY <1>3, <2>2, <3>1, SelectedList
    <3> QED BY <3>2 DEF st
  <2> QED BY <1>3, <2>3, <2>4
<1> HIDE DEF K, u, v, w, a, b
<1>9. \A k \in 1..a : w[k] = u[k]
  <2> TAKE k \in 1..a
  <2>1. PICK i \in I : Before(I, i) = k - 1 /\ u[k] = s[i]
    BY <1>6
  <2>2. Before(K, i) + 1 = k /\ i \in K
    BY <1>3, <1>4, <2>1
  <2>3. w[k] = (s \o t)[i]
    BY <1>8, <2>2
  <2> QED BY <1>1, <1>2, <2>1, <2>3
<1>10. \A k \in 1..b : w[a + k] = v[k]
  <2> TAKE k \in 1..b
  <2>1. PICK j \in J : Before(J, j) = k - 1 /\ v[k] = t[j]
    BY <1>7
  <2>2. Before(K, n + j) + 1 = a + k /\ n + j \in K
    BY <1>3, <1>5, <2>1
  <2>3. w[a + k] = (s \o t)[n + j]
    BY <1>8, <2>2
  <2> QED BY <1>1, <1>2, <2>1, <2>3
<1>11. w = u \o v
  <2>1. /\ u \o v \in Seq(T) /\ Len(u \o v) = a + b
        /\ \A k \in 1..(a + b) : (u \o v)[k] = IF k <= a THEN u[k] ELSE v[k - a]
    <3>1. u \in Seq(T) /\ v \in Seq(T) /\ Len(u) = a /\ Len(v) = b
      BY <1>6, <1>7
    <3>2. /\ u \o v \in Seq(T) /\ Len(u \o v) = Len(u) + Len(v)
          /\ \A k \in 1..(Len(u) + Len(v)) : (u \o v)[k] = IF k <= Len(u) THEN u[k] ELSE v[k - Len(u)]
      BY <3>1, ConcatProperties
    <3> QED BY <3>1, <3>2
  <2>2. \A k \in 1..(a + b) : w[k] = (u \o v)[k]
    <3> TAKE k \in 1..(a + b)
    <3>1. CASE k <= a
      BY <1>3, <1>9, <2>1, <3>1
    <3>2. CASE ~(k <= a)
      <4>1. PICK l \in 1..b : l = k - a
        BY <1>3, <3>2
      <4>2. w[a + l] = v[l] /\ a + l = k
        BY <1>3, <1>10, <4>1
      <4> QED BY <2>1, <3>2, <4>1, <4>2
    <3> QED BY <3>1, <3>2
  <2> QED BY <1>8, <2>1, <2>2, SeqEqual
<1> QED BY <1>6, <1>7, <1>11 DEF u, v, w, K, n, SelectsApart

-----------------------------------------------------------------------------
\* Joining is associative.
Regroups(x, y, z) == (x \o y) \o z = x \o (y \o z)

\* So it is for any lists.
LEMMA Joined ==
  ASSUME NEW T, NEW x \in Seq(T), NEW y \in Seq(T), NEW z \in Seq(T)
  PROVE  x \o y \in Seq(T) /\ Regroups(x, y, z)
<1>1. x \o y \in Seq(T)
  BY ConcatProperties
<1>2. (x \o y) \o z = x \o (y \o z)
  BY ConcatAssociative
<1> QED BY <1>1, <1>2 DEF Regroups

\* The lists ss[1], ss[2], ... joined one after the other, up to the n-th.
IsJoin(n, ss, join) == join = [i \in 1..n |-> IF i = 1 THEN ss[i] ELSE join[i - 1] \o ss[i]]

\* There is such a function for every n.
LEMMA JoinUpTo ==
  ASSUME NEW ss
  PROVE  \A n \in Nat : \E join : IsJoin(n, ss, join)
<1> DEFINE S == {n \in Nat : \E join : IsJoin(n, ss, join)}
<1>1. 0 \in S
  <2> DEFINE none == [i \in 1..0 |-> ss[i]]
  <2>1. none = [i \in 1..0 |-> IF i = 1 THEN ss[i] ELSE none[i - 1] \o ss[i]]
    OBVIOUS
  <2> HIDE DEF none
  <2>2. IsJoin(0, ss, none)
    BY <2>1 DEF IsJoin
  <2> QED BY <2>2
<1>2. ASSUME NEW n \in Nat, n \in S PROVE n + 1 \in S
  <2>1. PICK join : IsJoin(n, ss, join)
    BY <1>2
  <2> DEFINE longer == [i \in 1..(n + 1) |-> IF i = 1 THEN ss[i] ELSE IF i = n + 1 THEN join[n] \o ss[n + 1] ELSE join[i]]
  <2>2. \A i \in 1..n : join[i] = IF i = 1 THEN ss[i] ELSE join[i - 1] \o ss[i]
    BY <2>1 DEF IsJoin
  <2>3. ASSUME NEW i \in 1..(n + 1) PROVE longer[i] = IF i = 1 THEN ss[i] ELSE longer[i - 1] \o ss[i]
    <3>1. CASE i = 1
      BY <3>1
    <3>2. CASE i # 1 /\ i = n + 1
      <4>0. n \in 1..n /\ i - 1 = n /\ n \in 1..(n + 1) /\ n # n + 1
        BY <3>2
      <4>1. longer[i] = join[n] \o ss[n + 1]
        BY <3>2
      <4>2. longer[n] = IF n = 1 THEN ss[n] ELSE join[n]
        BY <4>0
      <4>3. longer[n] = join[n]
        BY <2>2, <4>0, <4>2
      <4> QED BY <3>2, <4>0, <4>1, <4>3
    <3>3. CASE i # 1 /\ i # n + 1
      <4>1. i \in 1..n /\ i - 1 \in 1..n /\ i - 1 \in 1..(n + 1) /\ i - 1 # n + 1
        BY <3>3
      <4>2. longer[i] = join[i] /\ longer[i - 1] = IF i - 1 = 1 THEN ss[i - 1] ELSE join[i - 1]
        BY <3>3, <4>1
      <4>3. longer[i - 1] = join[i - 1]
        BY <2>2, <4>1, <4>2
      <4>4. join[i] = join[i - 1] \o ss[i]
        BY <2>2, <3>3, <4>1
      <4> QED BY <3>3, <4>2, <4>3, <4>4
    <3> QED BY <3>1, <3>2, <3>3
  <2>4. longer = [i \in 1..(n + 1) |-> longer[i]]
    OBVIOUS
  <2> HIDE DEF longer
  <2>5. longer = [i \in 1..(n + 1) |-> IF i = 1 THEN ss[i] ELSE longer[i - 1] \o ss[i]]
    BY <2>3, <2>4
  <2>6. IsJoin(n + 1, ss, longer)
    BY <2>5 DEF IsJoin
  <2> QED BY <2>6
<1> HIDE DEF S
<1>3. Nat \subseteq S
  BY <1>1, <1>2, NatSetInduction
<1> QED BY <1>3 DEF S

\* FlattenSeq is the last value of it.
LEMMA FlattenIsJoin ==
  ASSUME NEW ss, Len(ss) \in Nat \ {0}
  PROVE  \E join : IsJoin(Len(ss), ss, join) /\ FlattenSeq(ss) = join[Len(ss)]
<1> DEFINE n == Len(ss)
           rule(f) == f = [i \in 1..n |-> IF i = 1 THEN ss[i] ELSE f[i - 1] \o ss[i]]
           flatten == CHOOSE f : rule(f)
<1>1. \E f : rule(f)
  <2>1. PICK f : IsJoin(n, ss, f)
    BY JoinUpTo
  <2>2. rule(f)
    BY <2>1 DEF IsJoin
  <2> QED BY <2>2
<1>2. rule(flatten)
  BY <1>1
<1>3. FlattenSeq(ss) = flatten[n]
  BY DEF FlattenSeq
<1> HIDE DEF flatten
<1>4. IsJoin(n, ss, flatten)
  BY <1>2 DEF IsJoin
<1> QED BY <1>3, <1>4

\* Joining a list of lists: with one more at the end.
FlattensAt(ss, x) == FlattenSeq(Append(ss, x)) = FlattenSeq(ss) \o x

\* The empty list of lists joins to the empty list, and a list appended to it comes last.
LEMMA FlattenAppend ==
  ASSUME NEW T, NEW ss \in Seq(Seq(T)), NEW x \in Seq(T)
  PROVE  /\ FlattenSeq(<<>>) = <<>> /\ FlattenSeq(ss) \in Seq(T) /\ FlattenSeq(Append(ss, x)) \in Seq(T)
         /\ FlattensAt(ss, x)
<1> DEFINE n == Len(ss)
           more == Append(ss, x)
<1>0. FlattenSeq(<<>>) = <<>> /\ (ss = <<>> => FlattenSeq(ss) = <<>>)
  BY DEF FlattenSeq
<1>1. /\ n \in Nat /\ Len(more) = n + 1 /\ more[n + 1] = x
      /\ \A i \in 1..n : more[i] = ss[i] /\ ss[i] \in Seq(T)
  BY AppendProperties, LenProperties
<1> HIDE DEF n, more
<1>2. PICK g : IsJoin(n + 1, more, g) /\ FlattenSeq(more) = g[n + 1]
  <2>1. Len(more) \in Nat \ {0}
    BY <1>1
  <2> QED BY <1>1, <2>1, FlattenIsJoin
<1>3. \A i \in 1..(n + 1) : g[i] = IF i = 1 THEN more[i] ELSE g[i - 1] \o more[i]
  BY <1>2 DEF IsJoin
<1>4. CASE n = 0
  <2>1. ss = <<>>
    BY <1>4, EmptySeq DEF n
  <2>2. g[1] = x
    BY <1>1, <1>3, <1>4
  <2>3. FlattenSeq(more) = x /\ <<>> \o x = x
    BY <1>2, <1>4, <2>2, ConcatEmptySeq
  <2>4. FlattenSeq(ss) = <<>>
    BY <1>0, <2>1
  <2>5. <<>> \in Seq(T)
    OBVIOUS
  <2> QED BY <1>0, <2>3, <2>4, <2>5 DEF FlattensAt, more
<1>5. CASE n # 0
  <2>1. n \in Nat \ {0} /\ n = Len(ss)
    BY <1>1, <1>5 DEF n
  <2>2. PICK f : IsJoin(n, ss, f) /\ FlattenSeq(ss) = f[n]
    BY <2>1, FlattenIsJoin
  <2>3. \A i \in 1..n : f[i] = IF i = 1 THEN ss[i] ELSE f[i - 1] \o ss[i]
    BY <2>2 DEF IsJoin
  <2> DEFINE same(k) == k + 1 <= n => f[k + 1] \in Seq(T) /\ g[k + 1] = f[k + 1]
             S == {k \in Nat : same(k)}
  <2>4. 0 \in S
    <3>1. f[1] = ss[1] /\ g[1] = more[1] /\ more[1] = ss[1] /\ ss[1] \in Seq(T)
      BY <1>1, <1>3, <2>1, <2>3
    <3> QED BY <3>1
  <2>5. ASSUME NEW k \in Nat, k \in S PROVE k + 1 \in S
    <3> SUFFICES ASSUME k + 1 + 1 <= n PROVE f[k + 1 + 1] \in Seq(T) /\ g[k + 1 + 1] = f[k + 1 + 1]
      OBVIOUS
    <3>1. PICK i \in 1..n : i = k + 1 + 1
      BY <1>1
    <3>2. i # 1 /\ i - 1 = k + 1 /\ k + 1 <= n /\ i \in 1..(n + 1)
      BY <1>1, <3>1
    <3>3. f[i - 1] \in Seq(T) /\ g[i - 1] = f[i - 1]
      BY <2>5, <3>2
    <3>4. f[i] = f[i - 1] \o ss[i]
      BY <2>3, <3>2
    <3>5. g[i] = g[i - 1] \o more[i] /\ more[i] = ss[i] /\ ss[i] \in Seq(T)
      BY <1>1, <1>3, <3>2
    <3>6. f[i - 1] \o ss[i] \in Seq(T)
      BY <3>3, <3>5, ConcatProperties
    <3> QED BY <3>1, <3>3, <3>4, <3>5, <3>6
  <2> HIDE DEF S
  <2>6. Nat \subseteq S
    BY <2>4, <2>5, NatSetInduction
  <2>7. f[n] \in Seq(T) /\ g[n] = f[n]
    <3>1. n - 1 \in S /\ n - 1 + 1 = n
      BY <2>1, <2>6
    <3> QED BY <3>1 DEF S
  <2>8. g[n + 1] = g[n] \o x
    <3>1. n + 1 \in 1..(n + 1) /\ n + 1 # 1 /\ (n + 1) - 1 = n
      BY <2>1
    <3>2. g[n + 1] = g[(n + 1) - 1] \o more[n + 1]
      BY <1>3, <3>1
    <3> QED BY <1>1, <3>1, <3>2
  <2>9. FlattenSeq(more) = FlattenSeq(ss) \o x /\ FlattenSeq(ss) \in Seq(T)
    BY <1>2, <2>2, <2>7, <2>8
  <2>10. FlattenSeq(ss) \o x \in Seq(T)
    BY <2>9, ConcatProperties
  <2> QED BY <1>0, <2>9, <2>10 DEF FlattensAt, more
<1> QED BY <1>4, <1>5

\* Joining the lists of two lists.
FlattensBoth(s, t) == FlattenSeq(s \o t) = FlattenSeq(s) \o FlattenSeq(t)

\* Joining the lists of two lists is joining what each of them joins to.
LEMMA FlattenConcat ==
  ASSUME NEW T, NEW s \in Seq(Seq(T)), NEW t \in Seq(Seq(T))
  PROVE  FlattenSeq(s) \in Seq(T) /\ FlattenSeq(t) \in Seq(T) /\ FlattensBoth(s, t)
<1> DEFINE L == Seq(T)
           holds(m) == \A q \in Seq(L) : Len(q) = m => FlattenSeq(q) \in Seq(T) /\ FlattensBoth(s, q)
           S == {m \in Nat : holds(m)}
<1>0. <<>> \in Seq(T) /\ FlattenSeq(<<>>) = <<>> /\ FlattenSeq(s) \in Seq(T)
  <2>1. <<>> \in Seq(T)
    OBVIOUS
  <2> QED BY <2>1, FlattenAppend
<1>1. 0 \in S
  <2> SUFFICES ASSUME NEW q \in Seq(L), Len(q) = 0 PROVE FlattenSeq(q) \in Seq(T) /\ FlattensBoth(s, q)
    OBVIOUS
  <2>1. q = <<>>
    BY EmptySeq
  <2>2. s \o <<>> = s /\ FlattenSeq(s) \o <<>> = FlattenSeq(s)
    BY <1>0, ConcatEmptySeq
  <2> QED BY <1>0, <2>1, <2>2 DEF FlattensBoth
<1>2. ASSUME NEW m \in Nat, m \in S PROVE m + 1 \in S
  <2> SUFFICES ASSUME NEW q \in Seq(L), Len(q) = m + 1 PROVE FlattenSeq(q) \in Seq(T) /\ FlattensBoth(s, q)
    OBVIOUS
  <2> DEFINE p == SubSeq(q, 1, m)
             x == q[m + 1]
             sp == s \o p
  <2>1. p \in Seq(L) /\ Len(p) = m /\ x \in L /\ q = Append(p, x) /\ \A i \in 1..m : p[i] = q[i]
    <3>1. m \in 0..Len(q) /\ m + 1 \in 1..Len(q)
      OBVIOUS
    <3>2. p \in Seq(L) /\ Len(p) = m /\ \A i \in 1..m : p[i] = q[i]
      BY <3>1, PrefixProperties
    <3>3. x \in L
      BY <3>1, LenProperties
    <3> HIDE DEF p, x
    <3>4. /\ Append(p, x) \in Seq(L) /\ Len(Append(p, x)) = m + 1
          /\ \A i \in 1..m : Append(p, x)[i] = p[i]
          /\ Append(p, x)[m + 1] = x
      BY <3>2, <3>3, AppendProperties
    <3>5. \A i \in 1..(m + 1) : q[i] = Append(p, x)[i]
      <4> TAKE i \in 1..(m + 1)
      <4>1. i \in 1..m \/ i = m + 1
        OBVIOUS
      <4> QED BY <3>2, <3>4, <4>1 DEF x
    <3>6. q = Append(p, x)
      BY <3>4, <3>5, SeqEqual
    <3> QED BY <3>2, <3>3, <3>6
  <2> HIDE DEF p, x
  <2>2. FlattenSeq(p) \in Seq(T) /\ FlattensBoth(s, p)
    BY <1>2, <2>1
  <2>3. FlattensAt(p, x) /\ FlattenSeq(Append(p, x)) \in Seq(T)
    BY <2>1, FlattenAppend
  <2>4. sp \in Seq(L) /\ s \o Append(p, x) = Append(sp, x)
    <3> DEFINE one == <<x>>
    <3>1. one \in Seq(L) /\ sp \in Seq(L) /\ Append(p, x) = p \o one
      BY <2>1, AppendIsConcat, Joined
    <3>2. Append(sp, x) = sp \o one
      BY <2>1, <3>1, AppendIsConcat
    <3> HIDE DEF one, sp
    <3>3. Regroups(s, p, one)
      BY <2>1, <3>1, Joined
    <3> QED BY <3>1, <3>2, <3>3 DEF Regroups, sp
  <2> HIDE DEF sp
  <2>5. FlattensAt(sp, x)
    BY <2>1, <2>4, FlattenAppend
  <2> DEFINE fs == FlattenSeq(s)
             fp == FlattenSeq(p)
  <2>6. fs \in Seq(T) /\ fp \in Seq(T) /\ x \in Seq(T)
    BY <1>0, <2>1, <2>2
  <2>7. FlattenSeq(s \o q) = (fs \o fp) \o x
    BY <2>1, <2>2, <2>4, <2>5 DEF FlattensAt, FlattensBoth, sp
  <2>8. FlattenSeq(q) = fp \o x
    BY <2>1, <2>3 DEF FlattensAt
  <2> HIDE DEF fs, fp
  <2>9. Regroups(fs, fp, x)
    BY <2>6, Joined
  <2> QED BY <2>1, <2>3, <2>7, <2>8, <2>9 DEF Regroups, FlattensBoth, fs
<1> HIDE DEF S
<1>3. Nat \subseteq S
  BY <1>1, <1>2, NatSetInduction
<1>4. Len(t) \in S
  BY <1>3, LenProperties
<1>5. holds(Len(t))
  BY <1>4 DEF S
<1> QED BY <1>0, <1>5

\* Two lists joined to a third are joined to it one after the other, wherever the
\* first of them is cut off.
Shifts(p, w, x, y) == (p \o (w \o x)) \o y = (p \o w) \o (x \o y)

\* So are any lists.
LEMMA JoinedShift ==
  ASSUME NEW T, NEW p \in Seq(T), NEW w \in Seq(T), NEW x \in Seq(T), NEW y \in Seq(T)
  PROVE  Shifts(p, w, x, y)
<1> DEFINE wx == w \o x
           xy == x \o y
           pw == p \o w
<1>1. wx \in Seq(T) /\ xy \in Seq(T) /\ pw \in Seq(T)
  BY Joined
<1>2. pw \o x = p \o wx
  BY Joined DEF Regroups
<1> HIDE DEF wx, xy, pw
<1>3. Regroups(pw, x, y)
  BY <1>1, Joined
<1> QED BY <1>2, <1>3 DEF wx, xy, pw, Regroups, Shifts

\* Cutting a list in two.
LEMMA Halves ==
  ASSUME NEW T, NEW s \in Seq(T), NEW n \in 0..Len(s)
  PROVE  /\ SubSeq(s, 1, n) \in Seq(T) /\ SubSeq(s, n + 1, Len(s)) \in Seq(T)
         /\ Len(SubSeq(s, 1, n)) = n /\ Len(SubSeq(s, n + 1, Len(s))) = Len(s) - n
         /\ s = SubSeq(s, 1, n) \o SubSeq(s, n + 1, Len(s))
<1> DEFINE h == SubSeq(s, 1, n)
           t == SubSeq(s, n + 1, Len(s))
           len == Len(s)
<1>0. len \in Nat /\ n \in Nat /\ n <= len
  BY LenProperties
<1>1. h \in Seq(T) /\ Len(h) = n /\ \A i \in 1..n : h[i] = s[i]
  BY PrefixProperties
<1>2. t \in Seq(T) /\ Len(t) = len - n /\ \A i \in 1..(len - n) : t[i] = s[n + i]
  <2> DEFINE lo == n + 1
  <2>1. lo \in 1..(len + 1) /\ len \in (lo - 1)..len
    BY <1>0
  <2>2. lo - 1 = n /\ len - lo + 1 = len - n
    BY <1>0
  <2> HIDE DEF lo
  <2>3. /\ SubSeq(s, lo, len) \in Seq(T) /\ Len(SubSeq(s, lo, len)) = len - lo + 1
        /\ \A i \in 1..(len - lo + 1) : SubSeq(s, lo, len)[i] = s[lo + i - 1]
    BY <2>1, SubSeqProperties
  <2>4. \A i \in 1..(len - n) : lo + i - 1 = n + i
    BY <1>0 DEF lo
  <2> QED BY <2>2, <2>3, <2>4 DEF lo
<1> HIDE DEF h, t, len
<1>3. h \o t \in Seq(T) /\ Len(h \o t) = len /\ \A i \in 1..len : (h \o t)[i] = IF i <= n THEN h[i] ELSE t[i - n]
  <2>1. /\ h \o t \in Seq(T) /\ Len(h \o t) = Len(h) + Len(t)
        /\ \A i \in 1..(Len(h) + Len(t)) : (h \o t)[i] = IF i <= Len(h) THEN h[i] ELSE t[i - Len(h)]
    BY <1>1, <1>2, ConcatProperties
  <2>2. Len(h) + Len(t) = len
    BY <1>0, <1>1, <1>2
  <2> QED BY <1>1, <2>1, <2>2
<1>4. ASSUME NEW i \in 1..len PROVE (h \o t)[i] = s[i]
  <2>1. CASE i <= n
    BY <1>0, <1>1, <1>3, <2>1
  <2>2. CASE ~(i <= n)
    <3>1. PICK j \in 1..(len - n) : j = i - n
      BY <1>0, <2>2
    <3>2. t[j] = s[n + j] /\ n + j = i
      BY <1>0, <1>2, <3>1
    <3> QED BY <1>3, <2>2, <3>1, <3>2
  <2> QED BY <2>1, <2>2
<1>5. s = h \o t
  BY <1>3, <1>4, SeqEqual DEF len
<1> QED BY <1>0, <1>1, <1>2, <1>5 DEF h, t, len

\* Lists of equal length in front of others that join to the same are the same.
LEMMA SameFront ==
  ASSUME NEW T, NEW x \in Seq(T), NEW y \in Seq(T), NEW u \in Seq(T), NEW v \in Seq(T),
         Len(x) = Len(y), x \o u = y \o v
  PROVE  x = y
<1>1. Len(x) \in Nat /\ Len(u) \in Nat
  BY LenProperties
<1>2. \A i \in 1..(Len(x) + Len(u)) : (x \o u)[i] = IF i <= Len(x) THEN x[i] ELSE u[i - Len(x)]
  BY ConcatProperties
<1>3. \A i \in 1..(Len(y) + Len(v)) : (y \o v)[i] = IF i <= Len(y) THEN y[i] ELSE v[i - Len(y)]
  BY ConcatProperties
<1>4. Len(x \o u) = Len(x) + Len(u) /\ Len(y \o v) = Len(y) + Len(v)
  BY ConcatProperties
<1>5. ASSUME NEW i \in 1..Len(x) PROVE x[i] = y[i]
  <2>1. i \in 1..(Len(x) + Len(u)) /\ i <= Len(x)
    BY <1>1
  <2>2. i \in 1..(Len(y) + Len(v))
    BY <1>4, <2>1
  <2>3. (x \o u)[i] = x[i]
    BY <1>2, <2>1
  <2>4. (y \o v)[i] = y[i]
    BY <1>3, <2>1, <2>2
  <2> QED BY <2>3, <2>4
<1> QED BY <1>5, SeqEqual
-----------------------------------------------------------------------------
\* Sums over the elements of a finite set, taken away one at a time as SumFunction
\* does.
Chosen(s) == CHOOSE x \in s : TRUE

IsFold(D, f, g) == g = [s \in D |-> IF s = {} THEN 0 ELSE f[Chosen(s)] + g[s \ {Chosen(s)}]]

LEMMA ChosenIn == ASSUME NEW s, s # {} PROVE Chosen(s) \in s
BY DEF Chosen

\* What holds of the empty set, and of a set if it holds of what is left when the
\* chosen element is taken away, holds of all of them.
LEMMA FoldInduction ==
  ASSUME NEW S, IsFiniteSet(S), NEW G, {} \in G,
         \A s \in SUBSET S : s # {} /\ s \ {Chosen(s)} \in G => s \in G
  PROVE  SUBSET S \subseteq G
<1>1. ASSUME NEW n \in Nat, \A s \in SUBSET S : Cardinality(s) = n => s \in G,
             NEW s \in SUBSET S, Cardinality(s) = n + 1
      PROVE  s \in G
  <2>1. IsFiniteSet(s) /\ s # {}
    BY <1>1, FS_Subset, FS_EmptySet
  <2>2. Chosen(s) \in s
    BY <2>1, ChosenIn
  <2>3. s \ {Chosen(s)} \in SUBSET S /\ Cardinality(s \ {Chosen(s)}) = (n + 1) - 1
    BY <1>1, <2>1, <2>2, FS_RemoveElement
  <2>4. s \ {Chosen(s)} \in G
    BY <1>1, <2>3
  <2> QED BY <2>1, <2>4
<1> DEFINE N == {n \in Nat : \A s \in SUBSET S : Cardinality(s) = n => s \in G}
<1>2. \A s \in SUBSET S : IsFiniteSet(s) /\ Cardinality(s) \in Nat
  BY FS_Subset, FS_CardinalityType
<1>3. 0 \in N
  BY <1>2, FS_EmptySet
<1>4. \A n \in Nat : n \in N => n + 1 \in N
  BY <1>1
<1> HIDE DEF N
<1>5. Nat \subseteq N
  BY <1>3, <1>4, NatSetInduction
<1>6. \A s \in SUBSET S : s \in G
  BY <1>2, <1>5 DEF N
<1> QED BY <1>6

\* Such a fold exists.
LEMMA FoldExists ==
  ASSUME NEW S, IsFiniteSet(S), NEW f
  PROVE  \E g : IsFold(SUBSET S, f, g)
<1> DEFINE D(n) == {s \in SUBSET S : Cardinality(s) <= n}
           N == {n \in Nat : \E g : IsFold(D(n), f, g)}
<1>1. \A s \in SUBSET S : IsFiniteSet(s) /\ Cardinality(s) \in Nat /\ Cardinality(s) <= Cardinality(S)
  BY FS_Subset, FS_CardinalityType
<1>2. 0 \in N
  <2>1. \A s \in D(0) : s = {}
    BY <1>1, FS_EmptySet
  <2>2. IsFold(D(0), f, [s \in D(0) |-> 0])
    BY <2>1 DEF IsFold
  <2> QED BY <2>2
<1>3. \A n \in Nat : n \in N => n + 1 \in N
  <2> SUFFICES ASSUME NEW n \in Nat, n \in N PROVE n + 1 \in N
    OBVIOUS
  <2>0. PICK g : IsFold(D(n), f, g)
    OBVIOUS
  <2> DEFINE h == [s \in D(n + 1) |-> IF s \in D(n) THEN g[s] ELSE f[Chosen(s)] + g[s \ {Chosen(s)}]]
  <2>1. \A s \in D(n) : g[s] = IF s = {} THEN 0 ELSE f[Chosen(s)] + g[s \ {Chosen(s)}]
    BY <2>0 DEF IsFold
  <2>2. {} \in D(n)
    BY FS_EmptySet
  <2>3. ASSUME NEW s \in D(n + 1), s # {} PROVE s \ {Chosen(s)} \in D(n) /\ s \ {Chosen(s)} \in D(n + 1)
    <3>1. Chosen(s) \in s
      BY <2>3, ChosenIn
    <3>2. s \in SUBSET S /\ Cardinality(s) <= n + 1 /\ IsFiniteSet(s) /\ Cardinality(s) \in Nat
      BY <1>1
    <3>3. Cardinality(s \ {Chosen(s)}) = Cardinality(s) - 1
      BY <3>1, <3>2, FS_RemoveElement
    <3>4. Cardinality(s \ {Chosen(s)}) <= n /\ Cardinality(s \ {Chosen(s)}) <= n + 1
      BY <3>2, <3>3
    <3> QED BY <3>2, <3>4
  <2>4. \A s \in D(n + 1) : h[s] = IF s = {} THEN 0 ELSE f[Chosen(s)] + h[s \ {Chosen(s)}]
    <3> TAKE s \in D(n + 1)
    <3>1. CASE s = {}
      BY <2>1, <2>2, <3>1
    <3>2. CASE s # {}
      <4>1. h[s \ {Chosen(s)}] = g[s \ {Chosen(s)}]
        BY <2>3, <3>2
      <4>2. h[s] = f[Chosen(s)] + g[s \ {Chosen(s)}]
        BY <2>1, <3>2
      <4> QED BY <3>2, <4>1, <4>2
    <3> QED BY <3>1, <3>2
  <2>5. h = [s \in D(n + 1) |-> h[s]]
    OBVIOUS
  <2> HIDE DEF h
  <2>6. IsFold(D(n + 1), f, h)
    BY <2>4, <2>5 DEF IsFold
  <2> QED BY <2>6
<1> HIDE DEF N
<1>4. Nat \subseteq N
  BY <1>2, <1>3, NatSetInduction
<1>5. Cardinality(S) \in Nat
  BY FS_CardinalityType
<1>6. \E g : IsFold(D(Cardinality(S)), f, g)
  BY <1>4, <1>5 DEF N
<1>7. D(Cardinality(S)) = SUBSET S
  BY <1>1
<1> QED BY <1>6, <1>7

Sums(f, S, g) ==
  /\ SumFunction(f) = g[S] /\ g[{}] = 0
  /\ \A s \in SUBSET S : s # {} => /\ Chosen(s) \in s /\ s \ {Chosen(s)} \in SUBSET S
                                   /\ g[s] = f[Chosen(s)] + g[s \ {Chosen(s)}]

\* The sum of a function is the last value of its fold.
LEMMA SumIsFold ==
  ASSUME NEW S, IsFiniteSet(S), NEW f, DOMAIN f = S
  PROVE  \E g : Sums(f, S, g)
<1> DEFINE g == CHOOSE h : IsFold(SUBSET S, f, h)
<1>1. SumFunction(f) = g[S]
  BY DEF SumFunction, SumFunctionOnSet, FoldFunctionOnSet, MapThenFoldSet, IsFold, Chosen
<1>2. IsFold(SUBSET S, f, g)
  BY FoldExists
<1> HIDE DEF g
<1>3. \A s \in SUBSET S : g[s] = IF s = {} THEN 0 ELSE f[Chosen(s)] + g[s \ {Chosen(s)}]
  BY <1>2 DEF IsFold
<1>4. \A s \in SUBSET S : s # {} => /\ Chosen(s) \in s /\ s \ {Chosen(s)} \in SUBSET S
                                              /\ g[s] = f[Chosen(s)] + g[s \ {Chosen(s)}]
  BY <1>3, ChosenIn
<1>5. g[{}] = 0
  BY <1>3
<1> QED BY <1>1, <1>4, <1>5 DEF Sums

\* Sums of natural numbers are natural numbers, and zero if all of them are.
LEMMA SumOfNats ==
  ASSUME NEW S, IsFiniteSet(S), NEW f \in [S -> Nat]
  PROVE  /\ SumFunction(f) \in Nat
         /\ SumFunction(f) = 0 <=> \A x \in S : f[x] = 0
<1>1. PICK g : Sums(f, S, g)
  BY SumIsFold
<1> USE DEF Sums
<1> DEFINE G == {s \in SUBSET S : g[s] \in Nat /\ (g[s] = 0 <=> \A x \in s : f[x] = 0)}
<1>2. {} \in G
  BY <1>1
<1>3. ASSUME NEW s \in SUBSET S, s # {}, s \ {Chosen(s)} \in G PROVE s \in G
  <2>1. PICK c \in s : c = Chosen(s)
    BY <1>1, <1>3
  <2>2. PICK a \in Nat, b \in Nat : a = f[c] /\ b = g[s \ {c}] /\ g[s] = a + b
    BY <1>1, <1>3, <2>1
  <2>3. b = 0 <=> \A x \in s \ {c} : f[x] = 0
    BY <1>3, <2>1, <2>2
  <2>4. a + b = 0 <=> a = 0 /\ b = 0
    OBVIOUS
  <2>5. (\A x \in s : f[x] = 0) <=> f[c] = 0 /\ \A x \in s \ {c} : f[x] = 0
    OBVIOUS
  <2>6. g[s] \in Nat /\ (g[s] = 0 <=> \A x \in s : f[x] = 0)
    BY <2>2, <2>3, <2>4, <2>5
  <2> QED BY <2>6
<1> HIDE DEF G
<1>4. SUBSET S \subseteq G
  BY <1>2, <1>3, FoldInduction
<1> QED BY <1>1, <1>4 DEF G

\* Sums add up.
LEMMA SumOfSums ==
  ASSUME NEW S, IsFiniteSet(S), NEW f \in [S -> Int], NEW h \in [S -> Int], NEW k \in [S -> Int],
         \A x \in S : k[x] = f[x] + h[x]
  PROVE  SumFunction(f) \in Int /\ SumFunction(h) \in Int /\ SumFunction(k) = SumFunction(f) + SumFunction(h)
<1>1. PICK g : Sums(f, S, g)
  BY SumIsFold
<1>2. PICK i : Sums(h, S, i)
  BY SumIsFold
<1>3. PICK j : Sums(k, S, j)
  BY SumIsFold
<1> USE DEF Sums
<1> DEFINE G == {s \in SUBSET S : g[s] \in Int /\ i[s] \in Int /\ j[s] = g[s] + i[s]}
<1>4. {} \in G
  BY <1>1, <1>2, <1>3
<1>5. ASSUME NEW s \in SUBSET S, s # {}, s \ {Chosen(s)} \in G PROVE s \in G
  <2>1. PICK c \in s : c = Chosen(s)
    BY <1>1, <1>5
  <2>2. PICK a \in Int, b \in Int : a = f[c] /\ b = g[s \ {c}] /\ g[s] = a + b
    BY <1>1, <1>5, <2>1
  <2>3. PICK d \in Int, e \in Int : d = h[c] /\ e = i[s \ {c}] /\ i[s] = d + e
    BY <1>2, <1>5, <2>1
  <2>4. j[s] = (a + d) + (b + e)
    BY <1>3, <1>5, <2>1, <2>2, <2>3
  <2> QED BY <2>2, <2>3, <2>4
<1> HIDE DEF G
<1>6. SUBSET S \subseteq G
  BY <1>4, <1>5, FoldInduction
<1> QED BY <1>1, <1>2, <1>3, <1>6 DEF G

\* A factor comes out of a sum.
LEMMA SumOfProducts ==
  ASSUME NEW S, IsFiniteSet(S), NEW f \in [S -> Nat], NEW n \in Nat, NEW k, k = [x \in S |-> f[x] * n]
  PROVE  k \in [S -> Nat] /\ SumFunction(k) = SumFunction(f) * n
<1>0. \A a, b \in Nat : a * b \in Nat
  OBVIOUS
<1>00. k \in [S -> Nat]
  BY <1>0
<1>1. PICK g : Sums(f, S, g)
  BY SumIsFold
<1>2. PICK i : Sums(k, S, i)
  BY SumIsFold
<1> USE DEF Sums
<1> DEFINE G == {s \in SUBSET S : g[s] \in Nat /\ i[s] = g[s] * n}
<1>3. {} \in G
  BY <1>1, <1>2
<1>4. ASSUME NEW s \in SUBSET S, s # {}, s \ {Chosen(s)} \in G PROVE s \in G
  <2>1. PICK c \in s : c = Chosen(s)
    BY <1>1, <1>4
  <2>2. PICK a \in Nat, b \in Nat : a = f[c] /\ b = g[s \ {c}] /\ g[s] = a + b
    BY <1>1, <1>4, <2>1
  <2>3. k[c] = a * n /\ i[s \ {c}] = b * n
    BY <1>4, <2>1, <2>2
  <2>4. i[s] = a * n + b * n
    BY <1>2, <1>4, <2>1, <2>3
  <2>5. a * n + b * n = (a + b) * n
    OBVIOUS
  <2> QED BY <2>2, <2>4, <2>5
<1> HIDE DEF G
<1>5. SUBSET S \subseteq G
  BY <1>3, <1>4, FoldInduction
<1> QED BY <1>00, <1>1, <1>2, <1>5 DEF G

\* What the elements of a subset of S add up to, for every subset.
Masses(f, S, g) ==
  /\ g[{}] = 0
  /\ \A s \in SUBSET S : g[s] \in Nat /\ SumFunction([x \in s |-> f[x]]) = g[s]
  /\ \A s \in SUBSET S : \A x \in s : g[s] = f[x] + g[s \ {x}]

\* The order in which elements are taken away does not matter.
LEMMA MassesExist ==
  ASSUME NEW S, IsFiniteSet(S), NEW f \in [S -> Nat]
  PROVE  \E g : Masses(f, S, g)
<1>1. PICK g : Sums(f, S, g)
  BY SumIsFold
<1>2. /\ g[{}] = 0
      /\ \A s \in SUBSET S : s # {} => /\ Chosen(s) \in s /\ s \ {Chosen(s)} \in SUBSET S
                                       /\ g[s] = f[Chosen(s)] + g[s \ {Chosen(s)}]
  BY <1>1 DEF Sums
<1>3. \A s \in SUBSET S : g[s] \in Nat
  <2> DEFINE G == {s \in SUBSET S : g[s] \in Nat}
  <2>1. {} \in G
    BY <1>2
  <2>2. ASSUME NEW s \in SUBSET S, s # {}, s \ {Chosen(s)} \in G PROVE s \in G
    <3>1. PICK c \in S : c = Chosen(s)
      BY <1>2, <2>2
    <3>2. f[c] \in Nat /\ g[s \ {c}] \in Nat /\ g[s] = f[c] + g[s \ {c}]
      BY <1>2, <2>2, <3>1
    <3>3. g[s] \in Nat
      BY <3>2
    <3> QED BY <3>3
  <2> HIDE DEF G
  <2>3. SUBSET S \subseteq G
    BY <2>1, <2>2, FoldInduction
  <2> QED BY <2>3 DEF G
<1>4. \A s \in SUBSET S : \A x \in s : g[s] = f[x] + g[s \ {x}]
  <2> DEFINE N == {n \in Nat : \A s \in SUBSET S : Cardinality(s) = n => \A x \in s : g[s] = f[x] + g[s \ {x}]}
  <2>0. \A s \in SUBSET S : IsFiniteSet(s) /\ Cardinality(s) \in Nat
    BY FS_Subset, FS_CardinalityType
  <2>1. 0 \in N
    <3>1. \A s \in SUBSET S : Cardinality(s) = 0 => s = {}
      BY <2>0, FS_EmptySet
    <3> QED BY <3>1
  <2>2. ASSUME NEW n \in Nat, n \in N PROVE n + 1 \in N
    <3>1. ASSUME NEW s \in SUBSET S, Cardinality(s) = n + 1, NEW x \in s PROVE g[s] = f[x] + g[s \ {x}]
      <4>1. PICK c \in s : c = Chosen(s) /\ g[s] = f[c] + g[s \ {c}]
        BY <1>2
      <4>2. CASE x = c
        BY <4>1, <4>2
      <4>3. CASE x # c
        <5>1. \A y \in s : Cardinality(s \ {y}) = n
          <6>1. \A y \in s : Cardinality(s \ {y}) = Cardinality(s) - 1
            BY <2>0, FS_RemoveElement
          <6> QED BY <3>1, <6>1
        <5>2. g[s \ {c}] = f[x] + g[(s \ {c}) \ {x}]
          BY <2>2, <4>3, <5>1
        <5>3. g[s \ {x}] = f[c] + g[(s \ {x}) \ {c}]
          BY <2>2, <4>3, <5>1
        <5>4. PICK r \in Nat : r = g[(s \ {c}) \ {x}]
          BY <1>3
        <5>5. (s \ {x}) \ {c} = (s \ {c}) \ {x}
          OBVIOUS
        <5>6. PICK a \in Nat, b \in Nat : a = f[c] /\ b = f[x]
          OBVIOUS
        <5>7. g[s] = a + (b + r) /\ g[s \ {x}] = a + r
          BY <4>1, <5>2, <5>3, <5>4, <5>5, <5>6
        <5>8. a + (b + r) = b + (a + r)
          OBVIOUS
        <5> QED BY <5>6, <5>7, <5>8
      <4> QED BY <4>2, <4>3
    <3> QED BY <3>1
  <2> HIDE DEF N
  <2>3. Nat \subseteq N
    BY <2>1, <2>2, NatSetInduction
  <2> QED BY <2>0, <2>3 DEF N
<1>5. ASSUME NEW s \in SUBSET S PROVE SumFunction([x \in s |-> f[x]]) = g[s]
  <2>1. IsFiniteSet(s)
    BY FS_Subset
  <2>2. PICK h : Sums([x \in s |-> f[x]], s, h)
    <3>1. DOMAIN [x \in s |-> f[x]] = s
      OBVIOUS
    <3> QED BY <2>1, <3>1, SumIsFold
  <2>3. /\ SumFunction([x \in s |-> f[x]]) = h[s] /\ h[{}] = 0
        /\ \A u \in SUBSET s : u # {} => /\ Chosen(u) \in u /\ h[u] = f[Chosen(u)] + h[u \ {Chosen(u)}]
    BY <2>2 DEF Sums
  <2> DEFINE G == {u \in SUBSET s : h[u] = g[u]}
  <2>4. {} \in G
    BY <1>2, <2>3
  <2>5. ASSUME NEW u \in SUBSET s, u # {}, u \ {Chosen(u)} \in G PROVE u \in G
    <3>1. h[u] = f[Chosen(u)] + h[u \ {Chosen(u)}]
      BY <2>3, <2>5
    <3>2. g[u] = f[Chosen(u)] + g[u \ {Chosen(u)}]
      BY <1>2, <2>5
    <3>3. h[u \ {Chosen(u)}] = g[u \ {Chosen(u)}]
      BY <2>5
    <3> QED BY <3>1, <3>2, <3>3
  <2> HIDE DEF G
  <2>6. SUBSET s \subseteq G
    BY <2>1, <2>4, <2>5, FoldInduction
  <2> QED BY <2>3, <2>6 DEF G
<1> QED BY <1>2, <1>3, <1>4, <1>5 DEF Masses

\* More elements weigh no less, and the same if what they add is nothing.
LEMMA MassOfMore ==
  ASSUME NEW S, IsFiniteSet(S), NEW f \in [S -> Nat], NEW g, Masses(f, S, g),
         NEW u \in SUBSET S, NEW s \in SUBSET u
  PROVE  g[s] \in Nat /\ g[u] \in Nat /\ g[s] <= g[u] /\ ((\A x \in u \ s : f[x] = 0) => g[s] = g[u])
<1> DEFINE r == u \ s
           G == {v \in SUBSET r : g[s] <= g[s \cup v] /\ ((\A x \in v : f[x] = 0) => g[s] = g[s \cup v])}
<1>0. s \in SUBSET S /\ \A v \in SUBSET r : s \cup v \in SUBSET S
  OBVIOUS
<1>1. {} \in G
  <2>1. s \cup {} = s /\ g[s] \in Nat
    BY <1>0 DEF Masses
  <2> QED BY <2>1
<1>2. ASSUME NEW v \in SUBSET r, v # {}, v \ {Chosen(v)} \in G PROVE v \in G
  <2>1. PICK c \in v : c = Chosen(v)
    BY <1>2, ChosenIn
  <2>2. (s \cup v) \ {c} = s \cup (v \ {c}) /\ c \in s \cup v /\ c \in S
    OBVIOUS
  <2>3. g[s \cup v] = f[c] + g[s \cup (v \ {c})]
    BY <1>0, <2>2 DEF Masses
  <2>4. PICK a \in Nat, b \in Nat, d \in Nat : a = f[c] /\ b = g[s \cup (v \ {c})] /\ d = g[s]
    <3>1. v \ {c} \in SUBSET r
      OBVIOUS
    <3> QED BY <1>0, <2>2, <3>1 DEF Masses
  <2>5. d <= b /\ ((\A x \in v \ {c} : f[x] = 0) => d = b)
    BY <1>2, <2>1, <2>4
  <2>6. g[s \cup v] = a + b
    BY <2>3, <2>4
  <2>7. d <= a + b /\ ((\A x \in v : f[x] = 0) => d = a + b)
    <3>1. (\A x \in v : f[x] = 0) => a = 0 /\ \A x \in v \ {c} : f[x] = 0
      BY <2>4
    <3> QED BY <2>5, <3>1
  <2> QED BY <2>4, <2>6, <2>7
<1> HIDE DEF G
<1>3. r \in SUBSET r /\ IsFiniteSet(r)
  BY FS_Subset
<1>4. SUBSET r \subseteq G
  BY <1>1, <1>2, <1>3, FoldInduction
<1>5. r \in G /\ s \cup r = u
  BY <1>3, <1>4
<1> QED BY <1>0, <1>5 DEF G, Masses

\* What the first i of n elements add up to.
PrefixMasses(f, n, order, g) ==
  \A i \in 0..n : SumFunction([j \in 1..i |-> f[order[j]]]) = g[{order[j] : j \in 1..i}]

\* In a list without repetition they weigh what the set of them weighs.
LEMMA MassOfPrefix ==
  ASSUME NEW S, NEW f \in [S -> Nat], NEW g, Masses(f, S, g),
         NEW n \in Nat, NEW order \in [1..n -> S], \A i, j \in 1..n : i # j => order[i] # order[j]
  PROVE  PrefixMasses(f, n, order, g)
<1> DEFINE list == [j \in 1..n |-> f[order[j]]]
           A(i) == {order[j] : j \in 1..i}
<1>1. PICK h : Masses(list, 1..n, h)
  <2>1. list \in [1..n -> Nat] /\ IsFiniteSet(1..n)
    BY FS_Interval
  <2> QED BY <2>1, MassesExist
<1>2. ASSUME NEW i \in 0..n PROVE SumFunction([j \in 1..i |-> f[order[j]]]) = h[1..i]
  <2>1. 1..i \in SUBSET (1..n)
    OBVIOUS
  <2>2. [j \in 1..i |-> list[j]] = [j \in 1..i |-> f[order[j]]]
    BY <2>1
  <2> HIDE DEF list
  <2>3. SumFunction([j \in 1..i |-> list[j]]) = h[1..i]
    BY <1>1, <2>1 DEF Masses
  <2> QED BY <2>2, <2>3
<1> DEFINE N == {i \in Nat : i <= n => h[1..i] = g[A(i)]}
<1>3. 0 \in N
  <2>1. 1..0 = {} /\ A(0) = {}
    OBVIOUS
  <2>2. h[{}] = 0 /\ g[{}] = 0
    BY <1>1 DEF Masses
  <2> QED BY <2>1, <2>2
<1>4. ASSUME NEW i \in Nat, i \in N PROVE i + 1 \in N
  <2> SUFFICES ASSUME i + 1 <= n PROVE h[1..(i + 1)] = g[A(i + 1)]
    OBVIOUS
  <2>1. i + 1 \in 1..(i + 1) /\ 1..(i + 1) \in SUBSET (1..n) /\ (1..(i + 1)) \ {i + 1} = 1..i
    OBVIOUS
  <2>2. h[1..(i + 1)] = list[i + 1] + h[1..i]
    <3> HIDE DEF list
    <3>1. \A x \in 1..(i + 1) : h[1..(i + 1)] = list[x] + h[(1..(i + 1)) \ {x}]
      BY <1>1, <2>1 DEF Masses
    <3> QED BY <2>1, <3>1
  <2>3. order[i + 1] \in A(i + 1) /\ A(i + 1) \in SUBSET S
    BY <2>1
  <2>4. A(i + 1) \ {order[i + 1]} = A(i)
    <3>1. \A j \in 1..i : j \in 1..n /\ j # i + 1 /\ j \in 1..(i + 1)
      OBVIOUS
    <3>2. \A j \in 1..i : order[j] # order[i + 1]
      BY <2>1, <3>1
    <3>3. \A j \in 1..(i + 1) : j # i + 1 => j \in 1..i
      OBVIOUS
    <3> QED BY <3>1, <3>2, <3>3
  <2> HIDE DEF A
  <2>5. g[A(i + 1)] = f[order[i + 1]] + g[A(i)]
    <3>1. \A s \in SUBSET S : \A x \in s : g[s] = f[x] + g[s \ {x}]
      BY DEF Masses
    <3>2. \A x \in A(i + 1) : g[A(i + 1)] = f[x] + g[A(i + 1) \ {x}]
      BY <2>3, <3>1
    <3> QED BY <2>3, <2>4, <3>2
  <2>6. list[i + 1] = f[order[i + 1]]
    BY <2>1
  <2>7. h[1..i] = g[A(i)]
    BY <1>4
  <2> QED BY <2>2, <2>5, <2>6, <2>7
<1> HIDE DEF N
<1>5. Nat \subseteq N
  BY <1>3, <1>4, NatSetInduction
<1>6. ASSUME NEW i \in 0..n PROVE h[1..i] = g[A(i)]
  <2>1. i \in Nat /\ i <= n /\ i \in N
    BY <1>5
  <2> QED BY <2>1 DEF N
<1> QED BY <1>2, <1>6 DEF PrefixMasses

-----------------------------------------------------------------------------
\* Division.
LEMMA DivMod ==
  ASSUME NEW d \in Nat \ {0}, NEW a \in Nat
  PROVE  a \div d \in Nat /\ a % d \in 0..(d - 1) /\ a = d * (a \div d) + (a % d)
<1>1. a \div d \in Nat
  OBVIOUS
<1>2. a % d \in 0..(d - 1)
  OBVIOUS
<1>3. a = d * (a \div d) + (a % d)
  OBVIOUS
<1> QED BY <1>1, <1>2, <1>3

\* Quotient and remainder are the only ones.
LEMMA DivModUnique ==
  ASSUME NEW d \in Nat \ {0}, NEW q \in Nat, NEW r \in 0..(d - 1)
  PROVE  (d * q + r) \div d = q /\ (d * q + r) % d = r
OBVIOUS

\* The quotient of less than k times d.
LEMMA DivBelow ==
  ASSUME NEW d \in Nat \ {0}, NEW k \in Nat, NEW a \in Nat, a < k * d
  PROVE  a \div d \in 0..(k - 1)
OBVIOUS

\* A remainder by a multiple has the same remainder.
LEMMA ModOfMultiple ==
  ASSUME NEW b \in Nat \ {0}, NEW d \in Nat \ {0}, NEW a \in Nat
  PROVE  (a % (b * d)) % d = a % d
<1>1. PICK w \in Nat \ {0} : w = b * d
  <2>1. b * d \in Nat /\ b * d # 0
    OBVIOUS
  <2> QED BY <2>1
<1>2. PICK q \in Nat, r \in 0..(w - 1) : a = w * q + r /\ r = a % w
  BY DivMod
<1>3. PICK p \in Nat, s \in 0..(d - 1) : r = d * p + s /\ s = r % d
  <2>1. r \in Nat
    OBVIOUS
  <2> QED BY <2>1, DivMod
<1>4. a = d * (b * q + p) + s /\ b * q + p \in Nat
  <2>1. PICK m \in Nat : m = b * q
    OBVIOUS
  <2>2. w * q = d * m
    BY <1>1, <2>1
  <2>3. d * (m + p) = d * m + d * p
    OBVIOUS
  <2>4. PICK x \in Nat, y \in Nat, z \in Nat : x = d * m /\ y = d * p /\ z = d * (m + p)
    OBVIOUS
  <2>5. a = x + r /\ r = y + s /\ z = x + y
    BY <1>2, <1>3, <2>2, <2>3, <2>4
  <2>6. a = z + s
    BY <2>5
  <2> QED BY <2>1, <2>4, <2>6
<1>5. a % d = s
  BY <1>4, DivModUnique
<1> QED BY <1>1, <1>2, <1>3, <1>5

-----------------------------------------------------------------------------
\* Every value of a function on S times n.
Multiples(S, f, n) == [x \in S |-> f[x] * n]

\* A factor comes out of a sum of integers.
LEMMA SumOfMultiples ==
  ASSUME NEW S, IsFiniteSet(S), NEW f \in [S -> Int], NEW n \in Int
  PROVE  /\ Multiples(S, f, n) \in [S -> Int] /\ SumFunction(f) \in Int
         /\ SumFunction(Multiples(S, f, n)) = SumFunction(f) * n
<1> DEFINE k == Multiples(S, f, n)
<1>0. \A a, b \in Int : a * b \in Int
  OBVIOUS
<1>00. k \in [S -> Int] /\ k = [x \in S |-> f[x] * n]
  BY <1>0 DEF Multiples
<1> HIDE DEF k
<1>1. PICK g : Sums(f, S, g)
  BY SumIsFold
<1>2. PICK i : Sums(k, S, i)
  BY <1>00, SumIsFold
<1> USE DEF Sums
<1> DEFINE G == {s \in SUBSET S : g[s] \in Int /\ i[s] = g[s] * n}
<1>3. {} \in G
  BY <1>1, <1>2
<1>4. ASSUME NEW s \in SUBSET S, s # {}, s \ {Chosen(s)} \in G PROVE s \in G
  <2>1. PICK c \in s : c = Chosen(s)
    BY <1>1, <1>4
  <2>2. PICK a \in Int, b \in Int : a = f[c] /\ b = g[s \ {c}] /\ g[s] = a + b
    BY <1>1, <1>4, <2>1
  <2>3. k[c] = a * n /\ i[s \ {c}] = b * n
    BY <1>00, <1>4, <2>1, <2>2
  <2>4. i[s] = a * n + b * n
    BY <1>2, <1>4, <2>1, <2>3
  <2>5. a * n + b * n = (a + b) * n
    OBVIOUS
  <2> QED BY <2>2, <2>4, <2>5
<1> HIDE DEF G
<1>5. SUBSET S \subseteq G
  BY <1>3, <1>4, FoldInduction
<1> QED BY <1>00, <1>1, <1>2, <1>5 DEF G, k

LEMMA SumOfInts ==
  ASSUME NEW S, IsFiniteSet(S), NEW f \in [S -> Int]
  PROVE  SumFunction(f) \in Int
<1>1. 0 \in Int
  OBVIOUS
<1> QED BY <1>1, SumOfMultiples

\* A sum of nothing but zeros.
LEMMA SumOfZeros ==
  ASSUME NEW S, IsFiniteSet(S), NEW f, f = [x \in S |-> 0]
  PROVE  SumFunction(f) = 0
<1>1. f \in [S -> Nat]
  OBVIOUS
<1> QED BY <1>1, SumOfNats

\* What the rows of a table add up to, and what its columns do.
RowSums(S, T, f) == [s \in S |-> SumFunction([t \in T |-> f[s][t]])]

ColumnSums(S, T, f) == [t \in T |-> SumFunction([s \in S |-> f[s][t]])]

\* Adding up a table by rows or by columns gives the same.
LEMMA SumExchange ==
  ASSUME NEW S, IsFiniteSet(S), NEW T, IsFiniteSet(T), NEW f \in [S -> [T -> Int]]
  PROVE  /\ RowSums(S, T, f) \in [S -> Int] /\ ColumnSums(S, T, f) \in [T -> Int]
         /\ SumFunction(RowSums(S, T, f)) = SumFunction(ColumnSums(S, T, f))
<1> DEFINE col(t) == [s \in S |-> f[s][t]]
           K == [t \in T |-> CHOOSE g : Sums(col(t), S, g)]
           rows == RowSums(S, T, f)
           part(u) == [t \in T |-> K[t][u]]
<1>1. ASSUME NEW t \in T PROVE col(t) \in [S -> Int] /\ Sums(col(t), S, K[t])
  <2>1. col(t) \in [S -> Int] /\ DOMAIN col(t) = S
    OBVIOUS
  <2> HIDE DEF col
  <2>2. \E g : Sums(col(t), S, g)
    BY <2>1, SumIsFold
  <2> QED BY <2>1, <2>2
<1> HIDE DEF K
<1>2. \A t \in T : K[t][{}] = 0 /\ SumFunction(col(t)) = K[t][S]
  <2> HIDE DEF col
  <2> QED BY <1>1 DEF Sums
<1>3. \A u \in SUBSET S : u # {} =>
        /\ Chosen(u) \in u
        /\ \A t \in T : K[t][u] = f[Chosen(u)][t] + K[t][u \ {Chosen(u)}]
  <2> TAKE u \in SUBSET S
  <2> SUFFICES ASSUME u # {} PROVE Chosen(u) \in u /\ \A t \in T : K[t][u] = f[Chosen(u)][t] + K[t][u \ {Chosen(u)}]
    OBVIOUS
  <2>1. Chosen(u) \in u
    BY ChosenIn
  <2>2. ASSUME NEW t \in T PROVE K[t][u] = f[Chosen(u)][t] + K[t][u \ {Chosen(u)}]
    <3>1. K[t][u] = col(t)[Chosen(u)] + K[t][u \ {Chosen(u)}]
      <4> HIDE DEF col
      <4> QED BY <1>1 DEF Sums
    <3> QED BY <2>1, <3>1
  <2> QED BY <2>1, <2>2
<1>4. ASSUME NEW s \in S PROVE rows[s] = SumFunction([t \in T |-> f[s][t]]) /\ SumFunction([t \in T |-> f[s][t]]) \in Int
  <2>1. rows[s] = SumFunction([t \in T |-> f[s][t]])
    BY DEF RowSums
  <2>2. [t \in T |-> f[s][t]] \in [T -> Int]
    OBVIOUS
  <2>3. SumFunction([t \in T |-> f[s][t]]) \in Int
    BY <2>2, SumOfInts
  <2> QED BY <2>1, <2>3
<1>5. rows \in [S -> Int]
  <2>1. rows = [s \in S |-> rows[s]]
    BY DEF RowSums
  <2> HIDE DEF rows
  <2> QED BY <1>4, <2>1
<1> HIDE DEF rows
<1>6. PICK h : Sums(rows, S, h)
  <2>1. DOMAIN rows = S
    BY <1>5
  <2> QED BY <2>1, SumIsFold
<1>7. h[{}] = 0 /\ SumFunction(rows) = h[S]
      /\ \A u \in SUBSET S : u # {} => h[u] = rows[Chosen(u)] + h[u \ {Chosen(u)}]
  BY <1>6 DEF Sums
<1> DEFINE G == {u \in SUBSET S : part(u) \in [T -> Int] /\ h[u] = SumFunction(part(u))}
<1>8. {} \in G
  <2>1. part({}) = [t \in T |-> 0]
    BY <1>2
  <2>2. SumFunction(part({})) = 0
    BY <2>1, SumOfZeros
  <2> QED BY <1>7, <2>1, <2>2
<1>9. ASSUME NEW u \in SUBSET S, u # {}, u \ {Chosen(u)} \in G PROVE u \in G
  <2>1. PICK c \in u : c = Chosen(u)
    BY <1>3, <1>9
  <2> DEFINE row == [t \in T |-> f[c][t]]
             rest == part(u \ {c})
  <2>2. rest \in [T -> Int] /\ h[u \ {c}] = SumFunction(rest)
    BY <1>9, <2>1
  <2>3. row \in [T -> Int]
    OBVIOUS
  <2>4. \A t \in T : part(u)[t] = row[t] + rest[t]
    BY <1>3, <1>9, <2>1
  <2>5. part(u) = [t \in T |-> part(u)[t]]
    OBVIOUS
  <2>6. rows[c] = SumFunction(row)
    BY <1>4
  <2> HIDE DEF row, rest, part
  <2>7. part(u) \in [T -> Int]
    BY <2>2, <2>3, <2>4, <2>5
  <2>8. SumFunction(part(u)) = SumFunction(row) + SumFunction(rest)
    BY <2>2, <2>3, <2>4, <2>7, SumOfSums
  <2>9. h[u] = SumFunction(part(u))
    BY <1>7, <1>9, <2>1, <2>2, <2>6, <2>8
  <2> QED BY <2>7, <2>9
<1> HIDE DEF G
<1>10. S \in G
  BY <1>8, <1>9, FoldInduction
<1>11. part(S) = ColumnSums(S, T, f)
  BY <1>2 DEF ColumnSums
<1> QED BY <1>5, <1>7, <1>10, <1>11 DEF G, rows

-----------------------------------------------------------------------------
\* The n-th entry of lists of w entries each, joined.
EntryOf(ss, w, n) == ss[((n - 1) \div w) + 1][((n - 1) % w) + 1]

\* k lists of w entries each are joined row by row.
JoinedByRow(ss, k, w) == FlattenSeq(ss) = [n \in 1..(k * w) |-> EntryOf(ss, w, n)]

\* So they are, whatever they are lists of.
LEMMA FlattenUniform ==
  ASSUME NEW T, NEW k \in Nat \ {0}, NEW w \in Nat \ {0}, NEW ss, ss = [i \in 1..k |-> ss[i]],
         \A i \in 1..k : ss[i] \in [1..w -> T]
  PROVE  JoinedByRow(ss, k, w)
<1> DEFINE U == {ss[i] : i \in 1..k}
<1>1. Len(ss) = k
  <2>1. ss \in [1..k -> U]
    OBVIOUS
  <2> HIDE DEF U
  <2> QED BY <2>1, ListFromFunction
<1>2. PICK join : IsJoin(k, ss, join) /\ FlattenSeq(ss) = join[k]
  BY <1>1, FlattenIsJoin
<1>3. \A i \in 1..k : join[i] = IF i = 1 THEN ss[i] ELSE join[i - 1] \o ss[i]
  BY <1>2 DEF IsJoin
<1> DEFINE rows(i) == [n \in 1..(i * w) |-> EntryOf(ss, w, n)]
           S == {i \in Nat : i + 1 \in 1..k => join[i + 1] = rows(i + 1)}
<1>4. ASSUME NEW i \in 0..(k - 1), NEW c \in 1..w PROVE EntryOf(ss, w, (i * w) + c) = ss[i + 1][c]
  <2>1. c - 1 \in 0..(w - 1) /\ i \in Nat
    OBVIOUS
  <2>2. (w * i + (c - 1)) \div w = i /\ (w * i + (c - 1)) % w = c - 1
    BY <2>1, DivModUnique
  <2>3. ((i * w) + c) - 1 = w * i + (c - 1)
    <3>1. \A a, b \in Nat : a * b \in Nat /\ a * b = b * a
      OBVIOUS
    <3>2. PICK m \in Nat : m = w * i
      BY <2>1, <3>1
    <3>3. i * w = m
      BY <2>1, <3>1, <3>2
    <3>4. (m + c) - 1 = m + (c - 1)
      OBVIOUS
    <3> QED BY <3>2, <3>3, <3>4, Zenon
  <2>4. (((i * w) + c) - 1) \div w = i /\ (((i * w) + c) - 1) % w = c - 1
    BY <2>2, <2>3, Zenon
  <2>5. (c - 1) + 1 = c
    OBVIOUS
  <2> QED BY <2>4, <2>5, Zenon DEF EntryOf
<1>5. 0 \in S
  <2>1. join[1] = ss[1] /\ ss[1] \in [1..w -> T]
    BY <1>3
  <2>2. \A c \in 1..w : EntryOf(ss, w, c) = ss[1][c]
    <3> TAKE c \in 1..w
    <3>1. 0 \in 0..(k - 1) /\ 0 * w = 0 /\ 0 + c = c /\ 0 + 1 = 1
      OBVIOUS
    <3> QED BY <1>4, <3>1
  <2>3. 1 * w = w
    OBVIOUS
  <2>4. join[1] = rows(1)
    BY <2>1, <2>2, <2>3
  <2> QED BY <2>4
<1>6. ASSUME NEW i \in Nat, i \in S PROVE i + 1 \in S
  <2> SUFFICES ASSUME (i + 1) + 1 \in 1..k PROVE join[(i + 1) + 1] = rows((i + 1) + 1)
    OBVIOUS
  <2> DEFINE j == i + 1
             m == j * w
             r == ss[j + 1]
  <2>1. j \in Nat /\ j \in 1..k /\ j + 1 \in 1..k /\ j \in 0..(k - 1)
    OBVIOUS
  <2>2. join[j] = rows(j) /\ join[j + 1] = rows(j) \o r
    <3>1. join[j] = rows(j)
      BY <1>6, <2>1
    <3>2. join[j + 1] = join[j] \o r
      <4>1. (j + 1) - 1 = j /\ j + 1 # 1
        BY <2>1
      <4> HIDE DEF j
      <4> QED BY <1>3, <2>1, <4>1
    <3> QED BY <3>1, <3>2
  <2>3. m \in Nat /\ (j + 1) * w = m + w
    <3>1. \A a, b \in Nat : a * b \in Nat /\ (a + 1) * b = a * b + b
      OBVIOUS
    <3> QED BY <2>1, <3>1
  <2>4. \A n \in 1..m : EntryOf(ss, w, n) \in T
    <3> TAKE n \in 1..m
    <3>0. n - 1 \in Nat /\ n - 1 < j * w
      BY <2>3
    <3>1. ((n - 1) \div w) \in 0..(j - 1)
      BY <2>1, <3>0, DivBelow
    <3>2. ((n - 1) % w) \in 0..(w - 1)
      BY <3>0, DivMod
    <3>3. \A a \in 0..(j - 1), b \in 0..(w - 1) : a + 1 \in 1..k /\ b + 1 \in 1..w
      BY <2>1
    <3>4. ((n - 1) \div w) + 1 \in 1..k /\ ((n - 1) % w) + 1 \in 1..w
      BY <3>1, <3>2, <3>3
    <3> QED BY <3>4 DEF EntryOf
  <2>5. rows(j) \in [1..m -> T] /\ r \in [1..w -> T]
    BY <2>1, <2>4
  <2>6. \A c \in 1..w : EntryOf(ss, w, m + c) = r[c]
    BY <1>4, <2>1
  <2> HIDE DEF rows, j, m, r
  <2>7. rows(j) \in Seq(T) /\ Len(rows(j)) = m /\ r \in Seq(T) /\ Len(r) = w
    BY <2>3, <2>5, ListFromFunction
  <2>8. /\ rows(j) \o r \in Seq(T) /\ Len(rows(j) \o r) = m + w
        /\ \A n \in 1..(m + w) : (rows(j) \o r)[n] = IF n <= m THEN rows(j)[n] ELSE r[n - m]
    BY <2>7, ConcatProperties
  <2>9. rows(j) \o r = [n \in 1..(m + w) |-> (rows(j) \o r)[n]]
    BY <2>8, LenProperties
  <2>10. \A n \in 1..(m + w) : (rows(j) \o r)[n] = EntryOf(ss, w, n)
    <3> TAKE n \in 1..(m + w)
    <3>1. CASE n <= m
      BY <2>3, <2>8, <3>1 DEF rows, m
    <3>2. CASE ~(n <= m)
      <4>1. n - m \in 1..w /\ m + (n - m) = n
        BY <2>3, <3>2
      <4> QED BY <2>6, <2>8, <3>2, <4>1
    <3> QED BY <3>1, <3>2
  <2>11. rows(j) \o r = rows(j + 1)
    BY <2>3, <2>9, <2>10 DEF rows
  <2> QED BY <2>2, <2>11 DEF j
<1> HIDE DEF S
<1>7. Nat \subseteq S
  BY <1>5, <1>6, NatSetInduction
<1>8. join[k] = rows(k)
  <2>1. k - 1 \in S /\ (k - 1) + 1 = k /\ k \in 1..k
    BY <1>7
  <2> HIDE DEF rows
  <2> QED BY <2>1 DEF S
<1> QED BY <1>2, <1>8 DEF JoinedByRow

\* Any one list is joined to itself.
LEMMA FlattenOne == ASSUME NEW x PROVE FlattenSeq(<<x>>) = x
<1>1. Len(<<x>>) = 1
  OBVIOUS
<1>2. PICK join : IsJoin(Len(<<x>>), <<x>>, join) /\ FlattenSeq(<<x>>) = join[Len(<<x>>)]
  <2>1. Len(<<x>>) \in Nat \ {0}
    BY <1>1
  <2> QED BY <2>1, FlattenIsJoin
<1>3. join[1] = <<x>>[1]
  BY <1>1, <1>2 DEF IsJoin
<1> QED BY <1>1, <1>2, <1>3

\* The n-th entry of lists of h rows of w entries each.
InnerEntry(g, h, w, n) ==
  g[((n - 1) \div (h * w)) + 1][(((n - 1) % (h * w)) \div w) + 1][((n - 1) % w) + 1]

\* Such lists are joined list by list, and row by row.
JoinedTwice(g, k, h, w) ==
  FlattenSeq([i \in 1..k |-> FlattenSeq(g[i])]) = [n \in 1..(k * (h * w)) |-> InnerEntry(g, h, w, n)]

\* So they are, whatever they are lists of.
LEMMA FlattenTwice ==
  ASSUME NEW T, NEW k \in Nat \ {0}, NEW h \in Nat \ {0}, NEW w \in Nat \ {0},
         NEW g, \A i \in 1..k : g[i] \in [1..h -> [1..w -> T]]
  PROVE  /\ JoinedTwice(g, k, h, w)
         /\ \A n \in 1..(k * (h * w)) : InnerEntry(g, h, w, n) \in T
<1>1. PICK v \in Nat \ {0} : v = h * w
  <2>1. h * w \in Nat /\ h * w # 0
    OBVIOUS
  <2> QED BY <2>1
<1> DEFINE ss == [i \in 1..k |-> FlattenSeq(g[i])]
<1>2. ASSUME NEW i \in 1..k
      PROVE  /\ ss[i] = [n \in 1..v |-> EntryOf(g[i], w, n)]
             /\ \A n \in 1..v : /\ EntryOf(g[i], w, n) \in T
                                /\ ((n - 1) \div w) + 1 \in 1..h /\ ((n - 1) % w) + 1 \in 1..w
  <2> DEFINE x == g[i]
  <2>1. x \in [1..h -> [1..w -> T]]
    OBVIOUS
  <2>2. x = [j \in 1..h |-> x[j]] /\ \A j \in 1..h : x[j] \in [1..w -> T]
    BY <2>1
  <2> HIDE DEF x
  <2>3. JoinedByRow(x, h, w)
    BY <2>2, FlattenUniform
  <2>4. ASSUME NEW n \in 1..v
        PROVE  /\ EntryOf(x, w, n) \in T
               /\ ((n - 1) \div w) + 1 \in 1..h /\ ((n - 1) % w) + 1 \in 1..w
    <3>1. n - 1 \in Nat /\ n - 1 < v
      OBVIOUS
    <3>2. ((n - 1) \div w) \in 0..(h - 1)
      BY <1>1, <3>1, DivBelow
    <3>3. ((n - 1) % w) \in 0..(w - 1)
      BY <3>1, DivMod
    <3>4. \A a \in 0..(h - 1), b \in 0..(w - 1) : a + 1 \in 1..h /\ b + 1 \in 1..w
      OBVIOUS
    <3>5. ((n - 1) \div w) + 1 \in 1..h /\ ((n - 1) % w) + 1 \in 1..w
      BY <3>2, <3>3, <3>4
    <3> QED BY <2>1, <3>5 DEF EntryOf
  <2>5. ss[i] = FlattenSeq(x)
    BY DEF x
  <2> HIDE DEF ss
  <2>6. ss[i] = [n \in 1..v |-> EntryOf(x, w, n)]
    BY <1>1, <2>3, <2>5 DEF JoinedByRow
  <2> QED BY <2>4, <2>6 DEF x
<1>3. ss = [i \in 1..k |-> ss[i]]
  OBVIOUS
<1> HIDE DEF ss
<1>4. \A i \in 1..k : ss[i] \in [1..v -> T]
  BY <1>2
<1>5. JoinedByRow(ss, k, v)
  BY <1>3, <1>4, FlattenUniform
<1>6. ASSUME NEW n \in 1..(k * v)
      PROVE  EntryOf(ss, v, n) = InnerEntry(g, h, w, n) /\ InnerEntry(g, h, w, n) \in T
  <2>1. n - 1 \in Nat /\ n - 1 < k * v
    OBVIOUS
  <2>2. PICK a \in 0..(k - 1) : a = (n - 1) \div v
    BY <2>1, DivBelow
  <2>3. PICK r \in 0..(v - 1) : r = (n - 1) % v
    BY <2>1, DivMod
  <2>4. a + 1 \in 1..k /\ r + 1 \in 1..v /\ (r + 1) - 1 = r
    OBVIOUS
  <2>5. EntryOf(ss, v, n) = ss[a + 1][r + 1]
    BY <2>2, <2>3 DEF EntryOf
  <2>6. ss[a + 1][r + 1] = EntryOf(g[a + 1], w, r + 1) /\ EntryOf(g[a + 1], w, r + 1) \in T
    BY <1>2, <2>4
  <2>7. EntryOf(g[a + 1], w, r + 1) = g[a + 1][(r \div w) + 1][(r % w) + 1]
    BY <2>4, Zenon DEF EntryOf
  <2>8. r % w = (n - 1) % w
    <3>1. ((n - 1) % (h * w)) % w = (n - 1) % w
      BY <2>1, ModOfMultiple
    <3> QED BY <1>1, <2>3, <3>1
  <2>9. InnerEntry(g, h, w, n) = g[a + 1][(r \div w) + 1][((n - 1) % w) + 1]
    BY <1>1, <2>2, <2>3, Zenon DEF InnerEntry
  <2> QED BY <2>5, <2>6, <2>7, <2>8, <2>9
<1>7. k * v = k * (h * w)
  BY <1>1
<1>8. FlattenSeq(ss) = [n \in 1..(k * (h * w)) |-> InnerEntry(g, h, w, n)]
  BY <1>5, <1>6, <1>7 DEF JoinedByRow
<1> QED BY <1>6, <1>7, <1>8 DEF ss, JoinedTwice
===============================================================================
