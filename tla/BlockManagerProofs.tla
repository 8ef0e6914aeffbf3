------------------------- MODULE BlockManagerProofs -------------------------
(***************************************************************************)
(* Proofs about BlockManager, for every pool, block size and set of        *)
(* sequences.                                                              *)
(***************************************************************************)
EXTENDS BlockManager, FiniteSetTheorems, SequenceTheorems, TLAPS

USE BlockSizeAssumption, TokenCountsAssumption, MaxPinsAssumption

-----------------------------------------------------------------------------
\* Arithmetic of blocks.

\* A table of blocks_needed(n) blocks has room for n tokens (line 50).
LEMMA BlocksCover ==
  ASSUME NEW n \in Nat
  PROVE  /\ BlocksNeeded(n) \in Nat
         /\ n <= BlocksNeeded(n) * BlockSize
BY DEF BlocksNeeded

\* A position that does not start a block leaves room behind it (line 102).
LEMMA RoomInLastBlock ==
  ASSUME NEW k \in Nat, NEW n \in Nat, n <= k * BlockSize, n % BlockSize # 0
  PROVE  n + 1 <= k * BlockSize
<1>1. k * BlockSize % BlockSize = 0
  OBVIOUS
<1> QED BY <1>1

\* Fewer tokens need no more blocks.
LEMMA BlocksMonotone ==
  ASSUME NEW k \in Nat, NEW n \in Nat, n <= k * BlockSize
  PROVE  BlocksNeeded(n) <= k
BY DEF BlocksNeeded
\* The block that holds a position of a table is in the table.
LEMMA PositionInTable ==
  ASSUME NEW k \in Nat, NEW p \in Nat, p < k * BlockSize
  PROVE  (p \div BlockSize) + 1 \in 1..k
OBVIOUS

-----------------------------------------------------------------------------
\* Lists of blocks and reference counts.

\* The range of a list of blocks, position by position.
LEMMA RangeOfList ==
  ASSUME NEW l \in Seq(Blocks)
  PROVE  /\ Range(l) \subseteq Blocks
         /\ \A i \in 1..Len(l) : l[i] \in Range(l)
         /\ \A b \in Range(l) : \E i \in 1..Len(l) : l[i] = b
         /\ DOMAIN l = 1..Len(l)
BY LenProperties, RangeEquality, RangeOfSeq

\* Appending fresh blocks to a list without repetition leaves it so.
LEMMA ConcatInjective ==
  ASSUME NEW h \in Seq(Blocks), NEW t \in Seq(Blocks),
         IsInjective(h), IsInjective(t), Range(h) \cap Range(t) = {}
  PROVE  IsInjective(h \o t)
<1> DEFINE l == h \o t
<1>1. /\ l \in Seq(Blocks) /\ Len(l) = Len(h) + Len(t)
      /\ \A i \in 1..Len(l) : l[i] = IF i <= Len(h) THEN h[i] ELSE t[i - Len(h)]
  BY ConcatProperties
<1>2. Len(h) \in Nat /\ Len(t) \in Nat /\ DOMAIN l = 1..Len(l)
  BY <1>1, LenProperties
<1>3. SUFFICES ASSUME NEW i \in 1..Len(l), NEW j \in 1..Len(l), l[i] = l[j]
               PROVE  i = j
  BY <1>2 DEF IsInjective
<1>4. CASE i <= Len(h) /\ j <= Len(h)
  BY <1>1, <1>2, <1>3, <1>4, RangeOfList DEF IsInjective
<1>5. CASE i > Len(h) /\ j > Len(h)
  <2>1. t[i - Len(h)] = t[j - Len(h)]
    BY <1>1, <1>2, <1>3, <1>5
  <2>2. i - Len(h) \in 1..Len(t) /\ j - Len(h) \in 1..Len(t)
    BY <1>1, <1>2, <1>5
  <2>3. i - Len(h) = j - Len(h)
    BY <2>1, <2>2, RangeOfList DEF IsInjective
  <2> QED BY <2>3, <1>2
<1>6. CASE i <= Len(h) /\ j > Len(h)
  BY <1>1, <1>2, <1>3, <1>6, RangeOfList
<1>7. CASE i > Len(h) /\ j <= Len(h)
  BY <1>1, <1>2, <1>3, <1>7, RangeOfList
<1> QED BY <1>2, <1>4, <1>5, <1>6, <1>7

\* The set of holders of a block is finite, and grows or shrinks by one.
LEMMA HoldersFinite ==
  ASSUME BMTypeOK, NEW b \in Blocks
  PROVE  IsFiniteSet(Holders(b)) /\ Cardinality(Holders(b)) \in Nat
BY FS_Subset, FS_CardinalityType DEF BMTypeOK, Holders

\* Counting a new holder: a sequence that joins a finite set of holders adds one.
LEMMA OneMore ==
  ASSUME NEW H, IsFiniteSet(H), NEW s, s \notin H
  PROVE  Cardinality(H \cup {s}) = Cardinality(H) + 1
BY FS_AddElement

\* Counting a leaving holder: a sequence that leaves its set of holders takes one away.
LEMMA OneLess ==
  ASSUME NEW H, IsFiniteSet(H), NEW s, s \in H
  PROVE  Cardinality(H \ {s}) = Cardinality(H) - 1
BY FS_RemoveElement

\* A free block is in no table and is not pinned.
LEMMA FreeUnused ==
  ASSUME BMInv, NEW b \in free
  PROVE  b \in Blocks /\ refCount[b] = 0 /\ Holders(b) = {} /\ pins[b] = 0
<1>1. b \in Blocks /\ refCount[b] = 0
  BY DEF BMInv, BMTypeOK, Partition
<1>2. IsFiniteSet(Holders(b)) /\ Cardinality(Holders(b)) \in Nat /\ pins[b] \in Nat
  BY <1>1, HoldersFinite DEF BMInv, BMTypeOK
<1>3. Cardinality(Holders(b)) = 0 /\ pins[b] = 0
  BY <1>1, <1>2 DEF BMInv, RefExact
<1> QED BY <1>1, <1>2, <1>3, FS_EmptySet

\* A block some table lists is not free.
LEMMA ListedNotFree ==
  ASSUME BMInv, NEW s \in live
  PROVE  TableBlocks(s) \cap free = {}
BY FreeUnused DEF Holders

\* The table of s becomes head followed by n blocks, the set F, that were free,
\* and the blocks of shared gain a reference.
Extended(s, head, shared, n, F) ==
  /\ blockIds' \in [Seqs -> Seq(Blocks)]
  /\ \A t \in Seqs \ {s} : blockIds'[t] = blockIds[t]
  /\ Range(blockIds'[s]) = Range(head) \cup F
  /\ Len(blockIds'[s]) = Len(head) + n
  /\ \A i \in 1..Len(head) : blockIds'[s][i] = head[i]
  /\ IsInjective(blockIds'[s])
  /\ free' = free \ F
  /\ refCount' \in [Blocks -> Nat]
  /\ \A b \in Blocks : refCount'[b] = IF b \in F THEN 1
                                     ELSE IF b \in shared THEN refCount[b] + 1
                                     ELSE refCount[b]

\* What Extend does: the table of s becomes head followed by blocks that were free.
LEMMA ExtendEffect ==
  ASSUME BMInv, NEW s \in Seqs, NEW head \in Seq(Blocks), NEW shared, NEW n \in Nat,
         IsInjective(head), Range(head) \cap free = {},
         Extend(s, head, shared, n)
  PROVE  \E F \in SUBSET free  : Extended(s, head, shared, n, F)
<1>1. PICK fresh \in FreshLists(n) :
        /\ blockIds' = [blockIds EXCEPT ![s] = head \o fresh]
        /\ refCount' = [b \in Blocks |-> IF b \in Range(fresh) THEN 1 ELSE BumpRefs(shared)[b]]
        /\ free' = free \ Range(fresh)
  BY DEF Extend
<1>2. fresh \in [1..n -> free] /\ IsInjective(fresh)
  BY <1>1 DEF FreshLists, Injection
<1>3. /\ free \subseteq Blocks /\ blockIds \in [Seqs -> Seq(Blocks)]
  BY DEF BMInv, BMTypeOK
<1>4. fresh \in Seq(Blocks) /\ Len(fresh) = n /\ Range(fresh) \subseteq free
  <2>1. fresh \in [1..n -> Blocks]
    BY <1>2, <1>3
  <2>2. fresh \in Seq(Blocks) /\ Len(fresh) = n
    BY <2>1
  <2>3. \A i \in 1..n : fresh[i] \in free
    BY <1>2
  <2>4. Range(fresh) = {fresh[i] : i \in 1..n}
    BY <2>2, RangeEquality
  <2> QED BY <2>2, <2>3, <2>4
<1>5. /\ head \o fresh \in Seq(Blocks)
      /\ Len(head \o fresh) = Len(head) + n
      /\ \A i \in 1..Len(head) : (head \o fresh)[i] = head[i]
      /\ Range(head \o fresh) = Range(head) \cup Range(fresh)
      /\ IsInjective(head \o fresh)
  <2>1. /\ head \o fresh \in Seq(Blocks)
        /\ Len(head \o fresh) = Len(head) + Len(fresh)
        /\ \A i \in 1..(Len(head) + Len(fresh)) :
             (head \o fresh)[i] = IF i <= Len(head) THEN head[i] ELSE fresh[i - Len(head)]
    BY <1>4, ConcatProperties
  <2>2. Len(head) \in Nat
    BY LenProperties
  <2>3. \A i \in 1..Len(head) : (head \o fresh)[i] = head[i]
    BY <1>4, <2>1, <2>2
  <2>4. Range(head \o fresh) = Range(head) \cup Range(fresh)
    BY <1>4, RangeConcatenation
  <2>5. Range(head) \cap Range(fresh) = {}
    BY <1>4
  <2>6. IsInjective(head \o fresh)
    BY <1>2, <1>4, <2>5, ConcatInjective
  <2> QED BY <1>4, <2>1, <2>3, <2>4, <2>6
<1>6. /\ blockIds'[s] = head \o fresh
      /\ \A t \in Seqs \ {s} : blockIds'[t] = blockIds[t]
      /\ blockIds' \in [Seqs -> Seq(Blocks)]
  BY <1>1, <1>3, <1>5
<1>7. \A b \in Blocks : refCount'[b] = IF b \in Range(fresh) THEN 1
                                       ELSE IF b \in shared THEN refCount[b] + 1
                                       ELSE refCount[b]
  BY <1>1 DEF BumpRefs
<1>8. refCount' \in [Blocks -> Nat]
  <2>1. \A b \in Blocks : refCount[b] \in Nat
    BY DEF BMInv, BMTypeOK
  <2>2. \A b \in Blocks : refCount'[b] \in Nat
    BY <1>7, <2>1
  <2> QED BY <1>1, <2>2
<1>9. Range(fresh) \in SUBSET free /\ free' = free \ Range(fresh)
  BY <1>1, <1>4
<1>10. Extended(s, head, shared, n, Range(fresh))
  BY <1>4, <1>5, <1>6, <1>7, <1>8, <1>9 DEF Extended
<1> QED BY <1>9, <1>10
-----------------------------------------------------------------------------
\* Two kinds of step cover most operations: a table that becomes longer
\* (allocate, append_token, reserve) and one that becomes shorter (truncate, free).

\* A sequence that starts or grows preserves the invariant, if it takes one
\* reference on each block it adopts and did not list before.
LEMMA ExtendInv ==
  ASSUME BMInv, NEW s \in Seqs, NEW head \in Seq(Blocks), NEW shared, NEW n \in Nat,
         NEW k \in Nat,
         IsInjective(head), Range(head) \cap free = {}, TableBlocks(s) \subseteq Range(head),
         shared = Range(head) \ TableBlocks(s),
         Extend(s, head, shared, n),
         live' = live \cup {s}, UNCHANGED pins,
         numTokens' = [numTokens EXCEPT ![s] = k], k <= (Len(head) + n) * BlockSize
  PROVE  BMInv'
<1>1. PICK F \in SUBSET free  : Extended(s, head, shared, n, F)
  BY ExtendEffect
<1>2. /\ BMTypeOK
      /\ F \subseteq Blocks
      /\ \A b \in F : refCount[b] = 0 /\ Holders(b) = {} /\ pins[b] = 0
      /\ Range(head) \subseteq Blocks \ free
  BY FreeUnused, RangeOfList DEF BMInv, BMTypeOK
<1>4. BMTypeOK'
  <2>2. live' \in SUBSET Seqs /\ IsFiniteSet(live')
    BY <1>2, FS_AddElement DEF BMTypeOK
  <2>3. numTokens' \in [Seqs -> Nat]
    BY <1>2 DEF BMTypeOK
  <2>4. \A t \in Seqs \ live' : blockIds'[t] = <<>> /\ numTokens'[t] = 0
    BY <1>1, <1>2 DEF Extended, BMTypeOK
  <2> QED BY <1>1, <1>2, <2>2, <2>3, <2>4 DEF Extended, BMTypeOK
<1>5. Partition'
  <2>1. \A b \in Blocks : refCount[b] \in Nat /\ (b \in free <=> refCount[b] = 0)
    BY DEF BMInv, BMTypeOK, Partition
  <2>2. \A b \in Blocks : b \in free' <=> b \in free /\ b \notin F
    BY <1>1 DEF Extended
  <2>3. \A b \in Blocks : refCount'[b] = IF b \in F THEN 1
                                         ELSE IF b \in shared THEN refCount[b] + 1
                                         ELSE refCount[b]
    BY <1>1 DEF Extended
  <2>4. \A b \in shared : b \notin free
    BY <1>2
  <2>5. \A b \in Blocks : b \in free' <=> refCount'[b] = 0
    BY <1>2, <2>1, <2>2, <2>3, <2>4
  <2> QED BY <1>4, <2>5 DEF Partition, BMTypeOK
<1>6. RefExact'
  <2>1. SUFFICES ASSUME NEW b \in Blocks
                 PROVE  refCount'[b] = Cardinality(Holders(b)') + pins[b]
    BY DEF RefExact
  <2>2. IsFiniteSet(Holders(b)) /\ Cardinality(Holders(b)) \in Nat /\ pins[b] \in Nat
    BY HoldersFinite DEF BMInv, BMTypeOK
  <2>3. refCount[b] = Cardinality(Holders(b)) + pins[b]
    BY DEF BMInv, RefExact
  <2>4. CASE b \in shared \cup F
    <3>1. Holders(b)' = Holders(b) \cup {s} /\ s \notin Holders(b)
      <4>1. b \in Range(blockIds'[s])
        BY <1>1, <2>4 DEF Extended
      <4>2. s \notin Holders(b)
        BY <1>2, <2>4 DEF Holders
      <4>3. \A t \in live \ {s} : blockIds'[t] = blockIds[t]
        BY <1>1, <1>2 DEF Extended, BMTypeOK
      <4> QED BY <4>1, <4>2, <4>3 DEF Holders, TableBlocks
    <3>2. Cardinality(Holders(b)') = Cardinality(Holders(b)) + 1
      BY <3>1, <2>2, OneMore
    <3>3. CASE b \in F
      <4>1. refCount'[b] = 1 /\ refCount[b] = 0
        BY <3>3, <1>2, <1>1 DEF Extended
      <4> QED BY <4>1, <3>2, <2>2, <2>3
    <3>4. CASE b \notin F
      <4>1. refCount'[b] = refCount[b] + 1 /\ refCount[b] \in Nat
        BY <3>4, <1>1, <1>2, <2>4 DEF Extended, BMTypeOK
      <4> QED BY <4>1, <3>2, <2>2, <2>3
    <3> QED BY <3>3, <3>4
  <2>5. CASE b \notin shared \cup F
    <3>1. b \in Range(head) \cup F <=> b \in TableBlocks(s)
      BY <2>5
    <3>2. TableBlocks(s) # {} => s \in live
      BY <1>2 DEF BMTypeOK, TableBlocks, Range
    <3>3. Holders(b)' = Holders(b)
      BY <1>1, <1>2, <3>1, <3>2 DEF Extended, Holders, TableBlocks, BMTypeOK
    <3> QED BY <3>3, <1>1, <2>3, <2>5 DEF Extended
  <2> QED BY <2>4, <2>5
<1>7. TableInjective'
  BY <1>1 DEF Extended, BMInv, TableInjective
<1>8. Capacity'
  <2>1. SUFFICES ASSUME NEW t \in live' PROVE numTokens'[t] <= Len(blockIds'[t]) * BlockSize
    BY DEF Capacity, TableCapacity
  <2>2. CASE t = s
    <3>1. numTokens'[t] = k /\ Len(blockIds'[t]) = Len(head) + n
      BY <1>1, <1>2, <2>2 DEF Extended, BMTypeOK
    <3> QED BY <3>1
  <2>3. CASE t # s
    <3>1. t \in live /\ t \in Seqs
      BY <1>2, <2>3 DEF BMTypeOK
    <3>2. numTokens'[t] = numTokens[t] /\ blockIds'[t] = blockIds[t]
      BY <1>1, <1>2, <2>3, <3>1 DEF Extended, BMTypeOK
    <3> QED BY <3>1, <3>2 DEF BMInv, Capacity, TableCapacity
  <2> QED BY <2>2, <2>3
<1> QED BY <1>4, <1>5, <1>6, <1>7, <1>8 DEF BMInv

\* A sequence that shrinks or ends preserves the invariant, if it gives up one
\* reference on each block it no longer lists.
LEMMA ShrinkInv ==
  ASSUME BMInv, NEW s \in live, NEW kept \in Seq(Blocks), NEW D, NEW k \in Nat,
         IsInjective(kept), Range(kept) = TableBlocks(s) \ D, D \subseteq TableBlocks(s),
         DropRefs(D), UNCHANGED pins,
         blockIds' = [blockIds EXCEPT ![s] = kept],
         numTokens' = [numTokens EXCEPT ![s] = k], k <= Len(kept) * BlockSize,
         \/ live' = live
         \/ live' = live \ {s} /\ kept = <<>> /\ k = 0
  PROVE  BMInv'
<1>1. /\ BMTypeOK /\ s \in Seqs
      /\ TableBlocks(s) \subseteq Blocks
      /\ \A b \in D : b \in Blocks /\ s \in Holders(b)
  BY RangeOfList DEF BMInv, BMTypeOK, Holders, TableBlocks
<1>2. \A b \in Blocks : refCount'[b] = IF b \in D THEN refCount[b] - 1 ELSE refCount[b]
  BY DEF DropRefs
<1>3. /\ blockIds'[s] = kept
      /\ \A t \in Seqs \ {s} : blockIds'[t] = blockIds[t]
      /\ blockIds' \in [Seqs -> Seq(Blocks)]
  BY <1>1 DEF BMTypeOK
<1>4. \A b \in D : refCount[b] >= 1
  <2>1. SUFFICES ASSUME NEW b \in D PROVE refCount[b] >= 1
    OBVIOUS
  <2>2. Cardinality(Holders(b)) # 0
    BY <1>1, HoldersFinite, FS_EmptySet
  <2> QED BY <1>1, <2>2, HoldersFinite DEF BMInv, BMTypeOK, RefExact
<1>5. BMTypeOK'
  <2>1. refCount' \in [Blocks -> Nat]
    <3>1. \A b \in Blocks : refCount[b] \in Nat
      BY <1>1 DEF BMTypeOK
    <3>2. \A b \in Blocks : refCount'[b] \in Nat
      BY <1>2, <1>4, <3>1
    <3> QED BY <3>2 DEF DropRefs
  <2>2. live' \in SUBSET Seqs /\ IsFiniteSet(live')
    BY <1>1, FS_RemoveElement DEF BMTypeOK
  <2>3. free' \in SUBSET Blocks
    BY <1>1 DEF DropRefs, BMTypeOK
  <2>4. numTokens' \in [Seqs -> Nat]
    BY <1>1 DEF BMTypeOK
  <2>5. \A t \in Seqs \ live' : blockIds'[t] = <<>> /\ numTokens'[t] = 0
    BY <1>1, <1>3 DEF BMTypeOK
  <2> QED BY <1>1, <1>3, <2>1, <2>2, <2>3, <2>4, <2>5 DEF BMTypeOK
<1>6. Partition'
  <2>1. \A b \in Blocks : refCount[b] \in Nat /\ (b \in free <=> refCount[b] = 0)
    BY DEF BMInv, BMTypeOK, Partition
  <2>2. \A b \in Blocks : b \in free' <=> b \in free \/ (b \in D /\ refCount[b] = 1)
    BY DEF DropRefs
  <2>3. \A b \in Blocks : b \in free' <=> refCount'[b] = 0
    BY <1>2, <1>4, <2>1, <2>2
  <2> QED BY <1>5, <2>3 DEF Partition, BMTypeOK
<1>7. RefExact'
  <2>1. SUFFICES ASSUME NEW b \in Blocks
                 PROVE  refCount'[b] = Cardinality(Holders(b)') + pins[b]
    BY DEF RefExact
  <2>2. IsFiniteSet(Holders(b)) /\ Cardinality(Holders(b)) \in Nat /\ pins[b] \in Nat
    BY HoldersFinite DEF BMInv, BMTypeOK
  <2>3. refCount[b] = Cardinality(Holders(b)) + pins[b]
    BY DEF BMInv, RefExact
  <2>4. CASE b \in D
    <3>1. Holders(b)' = Holders(b) \ {s} /\ s \in Holders(b)
      BY <1>1, <1>3, <2>4 DEF Holders, TableBlocks, BMTypeOK
    <3>2. Cardinality(Holders(b)') = Cardinality(Holders(b)) - 1
      BY <3>1, <2>2, OneLess
    <3> QED BY <3>2, <1>2, <2>2, <2>3, <2>4
  <2>5. CASE b \notin D
    <3>1. b \in Range(kept) <=> b \in TableBlocks(s)
      BY <2>5
    <3>2. kept = <<>> => Range(kept) = {}
      BY DEF Range
    <3>3. Holders(b)' = Holders(b)
      BY <1>1, <1>3, <3>1, <3>2 DEF Holders, TableBlocks, BMTypeOK
    <3> QED BY <3>3, <1>2, <2>3, <2>5
  <2> QED BY <2>4, <2>5
<1>8. TableInjective'
  BY <1>3 DEF BMInv, TableInjective
<1>9. Capacity'
  BY <1>1, <1>3 DEF BMInv, BMTypeOK, Capacity, TableCapacity
<1> QED BY <1>5, <1>6, <1>7, <1>8, <1>9 DEF BMInv
-----------------------------------------------------------------------------
\* The operations preserve the invariant.

\* A list of blocks a client may pass for reuse: distinct, pinned, hence not free.
LEMMA ReuseProperties ==
  ASSUME BMInv, NEW n \in TokenCounts, NEW reuse \in ReuseLists(n)
  PROVE  /\ reuse \in Seq(Blocks) /\ IsInjective(reuse) /\ Range(reuse) \cap free = {}
         /\ n \in Nat /\ NewBlocks(n, reuse) \in Nat
         /\ n <= (Len(reuse) + NewBlocks(n, reuse)) * BlockSize
<1>1. PICK k \in Nat : reuse \in Injection(1..k, {b \in Blocks : pins[b] > 0})
  <2>1. n \div BlockSize \in Nat
    BY DEF ReuseLists
  <2>2. PICK k \in 0..(n \div BlockSize) : reuse \in Injection(1..k, {b \in Blocks : pins[b] > 0})
    BY DEF ReuseLists
  <2>3. k \in Nat
    BY <2>1
  <2> QED BY <2>2, <2>3
<1>2. /\ reuse \in Seq(Blocks) /\ Len(reuse) = k /\ IsInjective(reuse)
      /\ \A b \in Range(reuse) : pins[b] > 0
  <2>1. reuse \in [1..k -> Blocks] /\ IsInjective(reuse)
    BY <1>1 DEF Injection
  <2>2. reuse \in Seq(Blocks) /\ Len(reuse) = k
    BY <2>1
  <2>3. \A i \in 1..k : pins[reuse[i]] > 0
    BY <1>1 DEF Injection
  <2> QED BY <2>1, <2>2, <2>3, RangeEquality
<1>3. Range(reuse) \cap free = {}
  BY <1>2, FreeUnused
<1>4. n \in Nat /\ NewBlocks(n, reuse) \in Nat
      /\ n <= (Len(reuse) + NewBlocks(n, reuse)) * BlockSize
  <2>1. n \in Nat /\ BlocksNeeded(n) \in Nat /\ n <= BlocksNeeded(n) * BlockSize
    BY BlocksCover
  <2>2. NewBlocks(n, reuse) \in Nat /\ BlocksNeeded(n) <= Len(reuse) + NewBlocks(n, reuse)
    BY <1>2, <2>1 DEF NewBlocks
  <2> QED BY <1>2, <2>1, <2>2
<1> QED BY <1>2, <1>3, <1>4

\* allocate: adopted blocks gain a reference, the others come off the free list.
LEMMA AllocateInv ==
  ASSUME BMInv, NEW s \in Seqs, NEW n \in TokenCounts, NEW reuse \in ReuseLists(n),
         Allocate(s, n, reuse)
  PROVE  BMInv'
<1>1. s \notin live /\ blockIds[s] = <<>> /\ TableBlocks(s) = {}
  BY DEF Allocate, BMInv, BMTypeOK, TableBlocks, Range
<1>2. /\ Extend(s, reuse, Range(reuse), NewBlocks(n, reuse))
      /\ live' = live \cup {s} /\ UNCHANGED pins
      /\ numTokens' = [numTokens EXCEPT ![s] = n]
  BY DEF Allocate
<1>3. TableBlocks(s) \subseteq Range(reuse) /\ Range(reuse) = Range(reuse) \ TableBlocks(s)
  BY <1>1
<1> QED BY <1>2, <1>3, ReuseProperties, ExtendInv

\* append_token and reserve: a live table grows by free blocks.
LEMMA GrowInv ==
  ASSUME BMInv, NEW s \in live, NEW n \in Nat, NEW k \in Nat,
         Extend(s, blockIds[s], {}, n), UNCHANGED <<live, pins>>,
         numTokens' = [numTokens EXCEPT ![s] = k], k <= (Len(blockIds[s]) + n) * BlockSize
  PROVE  BMInv'
<1>1. s \in Seqs /\ blockIds[s] \in Seq(Blocks) /\ IsInjective(blockIds[s])
  BY DEF BMInv, BMTypeOK, TableInjective
<1>2. Range(blockIds[s]) \cap free = {} /\ TableBlocks(s) \subseteq Range(blockIds[s])
  BY ListedNotFree DEF TableBlocks
<1>3. {} = Range(blockIds[s]) \ TableBlocks(s) /\ live' = live \cup {s}
  BY DEF TableBlocks
<1> QED BY <1>1, <1>2, <1>3, ExtendInv

\* append_token preserves the invariant: it extends the table exactly when the position has no slot.
LEMMA AppendTokenInv ==
  ASSUME BMInv, NEW s \in Seqs, AppendToken(s)
  PROVE  BMInv'
<1> DEFINE n == IF AppendNeedsBlock(s) THEN 1 ELSE 0
<1>1. /\ s \in live /\ Extend(s, blockIds[s], {}, n) /\ UNCHANGED <<live, pins>>
      /\ numTokens' = [numTokens EXCEPT ![s] = numTokens[s] + 1]
  BY DEF AppendToken
<1>2. /\ numTokens[s] \in Nat /\ Len(blockIds[s]) \in Nat
      /\ numTokens[s] <= Len(blockIds[s]) * BlockSize
  BY <1>1 DEF BMInv, BMTypeOK, Capacity, TableCapacity
<1>3. numTokens[s] + 1 <= (Len(blockIds[s]) + n) * BlockSize
  <2>1. CASE AppendNeedsBlock(s)
    <3>1. n = 1
      BY <2>1
    <3>2. numTokens[s] + 1 <= Len(blockIds[s]) * BlockSize + BlockSize
      BY <1>2
    <3>3. (Len(blockIds[s]) + 1) * BlockSize = Len(blockIds[s]) * BlockSize + BlockSize
      BY <1>2
    <3> HIDE DEF n
    <3> QED BY <3>1, <3>2, <3>3
  <2>2. CASE ~AppendNeedsBlock(s)
    <3>1. n = 0
      BY <2>2
    <3>2. numTokens[s] + 1 <= Len(blockIds[s]) * BlockSize
      BY <1>2, <2>2, RoomInLastBlock DEF AppendNeedsBlock
    <3> HIDE DEF n
    <3>3. Len(blockIds[s]) + n = Len(blockIds[s])
      BY <1>2, <3>1
    <3> QED BY <3>2, <3>3
  <2> QED BY <2>1, <2>2
<1>4. n \in Nat /\ numTokens[s] + 1 \in Nat
  BY <1>2
<1> QED
  <2> HIDE DEF n
  <2> QED BY <1>1, <1>3, <1>4, GrowInv

\* reserve preserves the invariant: it extends the table to the announced length.
LEMMA ReserveInv ==
  ASSUME BMInv, NEW s \in Seqs, NEW n \in TokenCounts, Reserve(s, n)
  PROVE  BMInv'
<1>1. /\ s \in live /\ Extend(s, blockIds[s], {}, MissingBlocks(s, n))
      /\ UNCHANGED <<live, numTokens, pins>>
  BY DEF Reserve
<1>2. /\ numTokens[s] \in Nat /\ Len(blockIds[s]) \in Nat
      /\ numTokens[s] <= Len(blockIds[s]) * BlockSize
  BY <1>1 DEF BMInv, BMTypeOK, Capacity, TableCapacity
<1>3. MissingBlocks(s, n) \in Nat
  <2> DEFINE have == TableCapacity(s) - numTokens[s]
  <2>1. have \in Nat /\ n \in Nat
    BY <1>2 DEF TableCapacity
  <2>2. CASE n > have
    <3>1. n - have \in Nat
      BY <2>1, <2>2
    <3>2. BlocksNeeded(n - have) \in Nat
      BY <3>1, BlocksCover
    <3> QED BY <2>2, <3>2 DEF MissingBlocks
  <2>3. CASE ~(n > have)
    BY <2>3 DEF MissingBlocks
  <2> QED BY <2>2, <2>3
<1>4. numTokens' = [numTokens EXCEPT ![s] = numTokens[s]]
  BY <1>1 DEF BMInv, BMTypeOK
<1>5. numTokens[s] <= (Len(blockIds[s]) + MissingBlocks(s, n)) * BlockSize
  BY <1>2, <1>3
<1> QED BY <1>1, <1>2, <1>3, <1>4, <1>5, GrowInv

\* fork: the child lists what its parent lists, one more reference on each block.
LEMMA ForkInv ==
  ASSUME BMInv, NEW p \in Seqs, NEW c \in Seqs, c \notin live, Fork(p, c)
  PROVE  BMInv'
<1>1. /\ p \in live /\ live' = live \cup {c}
      /\ refCount' = BumpRefs(TableBlocks(p))
      /\ blockIds' = [blockIds EXCEPT ![c] = blockIds[p]]
      /\ numTokens' = [numTokens EXCEPT ![c] = numTokens[p]]
      /\ UNCHANGED <<free, pins>>
  BY DEF Fork
<1>2. BMTypeOK /\ \A b \in TableBlocks(p) : b \in Blocks /\ b \notin free
  BY <1>1, ListedNotFree, RangeOfList DEF BMInv, BMTypeOK, TableBlocks
<1>3. \A b \in Blocks : refCount'[b] = IF b \in TableBlocks(p) THEN refCount[b] + 1
                                       ELSE refCount[b]
  BY <1>1 DEF BumpRefs
<1>4. /\ blockIds'[c] = blockIds[p] /\ numTokens'[c] = numTokens[p]
      /\ \A t \in Seqs \ {c} : blockIds'[t] = blockIds[t] /\ numTokens'[t] = numTokens[t]
      /\ blockIds' \in [Seqs -> Seq(Blocks)] /\ numTokens' \in [Seqs -> Nat]
  BY <1>1, <1>2 DEF BMTypeOK
<1>5. \A b \in Blocks : refCount[b] \in Nat /\ (b \in free <=> refCount[b] = 0)
  BY DEF BMInv, BMTypeOK, Partition
<1>6. BMTypeOK'
  <2>1. refCount' \in [Blocks -> Nat]
    <3>1. \A b \in Blocks : refCount'[b] \in Nat
      BY <1>3, <1>5
    <3> QED BY <1>1, <3>1 DEF BumpRefs
  <2>2. live' \in SUBSET Seqs /\ IsFiniteSet(live')
    BY <1>1, <1>2, FS_AddElement DEF BMTypeOK
  <2>3. \A t \in Seqs \ live' : blockIds'[t] = <<>> /\ numTokens'[t] = 0
    BY <1>1, <1>2, <1>4 DEF BMTypeOK
  <2> QED BY <1>1, <1>2, <1>4, <2>1, <2>2, <2>3 DEF BMTypeOK
<1>7. Partition'
  <2>1. \A b \in Blocks : b \in free <=> refCount'[b] = 0
    BY <1>2, <1>3, <1>5
  <2> QED BY <1>1, <1>2, <2>1 DEF Partition, BMTypeOK
<1>8. RefExact'
  <2>1. SUFFICES ASSUME NEW b \in Blocks
                 PROVE  refCount'[b] = Cardinality(Holders(b)') + pins[b]
    BY <1>1 DEF RefExact
  <2>2. /\ IsFiniteSet(Holders(b)) /\ Cardinality(Holders(b)) \in Nat /\ pins[b] \in Nat
        /\ refCount[b] = Cardinality(Holders(b)) + pins[b]
    BY HoldersFinite DEF BMInv, BMTypeOK, RefExact
  <2>3. CASE b \in TableBlocks(p)
    <3>1. Holders(b)' = Holders(b) \cup {c} /\ c \notin Holders(b)
      BY <1>1, <1>2, <1>4, <2>3 DEF Holders, TableBlocks, BMTypeOK
    <3>2. Cardinality(Holders(b)') = Cardinality(Holders(b)) + 1
      BY <3>1, <2>2, OneMore
    <3> QED BY <1>3, <1>5, <2>2, <2>3, <3>2
  <2>4. CASE b \notin TableBlocks(p)
    <3>1. Holders(b)' = Holders(b)
      BY <1>1, <1>2, <1>4, <2>4 DEF Holders, TableBlocks, BMTypeOK
    <3> QED BY <1>3, <2>2, <2>4, <3>1
  <2> QED BY <2>3, <2>4
<1>9. TableInjective'
  BY <1>1, <1>2, <1>4 DEF BMInv, BMTypeOK, TableInjective
<1>10. Capacity'
  BY <1>1, <1>2, <1>4 DEF BMInv, BMTypeOK, Capacity, TableCapacity
<1> QED BY <1>6, <1>7, <1>8, <1>9, <1>10 DEF BMInv

\* truncate keeps the head of the table that the remaining tokens need.
LEMMA TruncateHead ==
  ASSUME BMInv, NEW s \in Seqs, NEW n \in TokenCounts, n <= numTokens[s], Truncate(s, n)
  PROVE  /\ s \in live /\ Len(blockIds[s]) \in Nat
         /\ BlocksNeeded(n) \in Nat /\ BlocksNeeded(n) <= Len(blockIds[s])
         /\ n \in Nat /\ n <= BlocksNeeded(n) * BlockSize
         /\ blockIds' = [blockIds EXCEPT ![s] = SubSeq(@, 1, BlocksNeeded(n))]
         /\ blockIds'[s] \in Seq(Blocks) /\ Len(blockIds'[s]) = BlocksNeeded(n)
         /\ \A i \in 1..BlocksNeeded(n) : blockIds'[s][i] = blockIds[s][i]
         /\ Range(blockIds'[s]) = {blockIds[s][i] : i \in 1..BlocksNeeded(n)}
         /\ Range(blockIds'[s]) \subseteq TableBlocks(s)
<1> DEFINE ids == blockIds[s]  keep == BlocksNeeded(n)  kept == SubSeq(ids, 1, keep)
<1>1. /\ s \in live /\ blockIds' = [blockIds EXCEPT ![s] = SubSeq(@, 1, BlocksNeeded(n))]
      /\ blockIds'[s] = kept
  BY DEF Truncate, BMInv, BMTypeOK
<1>2. /\ ids \in Seq(Blocks) /\ Len(ids) \in Nat /\ n \in Nat
      /\ numTokens[s] \in Nat /\ numTokens[s] <= Len(ids) * BlockSize
  BY <1>1 DEF BMInv, BMTypeOK, Capacity, TableCapacity
<1>3. keep \in Nat /\ keep <= Len(ids) /\ n <= keep * BlockSize
  <2>1. n <= Len(ids) * BlockSize
    BY <1>2
  <2> QED BY <1>2, <2>1, BlocksCover, BlocksMonotone
<1> HIDE DEF ids, keep
<1>4. /\ kept \in Seq(Blocks) /\ Len(kept) = keep
      /\ \A i \in 1..keep : kept[i] = ids[i]
  <2>1. \A i \in 1..Len(ids) : ids[i] \in Blocks
    BY <1>2, ElementOfSeq
  <2> QED BY <1>2, <1>3, <2>1, SubSeqProperties
<1> HIDE DEF kept
<1>5. Range(kept) = {ids[i] : i \in 1..keep}
  <2>1. Range(kept) = {kept[i] : i \in 1..keep}
    BY <1>4, RangeEquality
  <2> QED BY <1>4, <2>1
<1>6. TableBlocks(s) = {ids[i] : i \in 1..Len(ids)}
  BY <1>2, RangeEquality DEF TableBlocks, ids
<1>7. Range(kept) \subseteq TableBlocks(s)
  BY <1>2, <1>3, <1>5, <1>6
<1> QED BY <1>1, <1>2, <1>3, <1>4, <1>5, <1>7 DEF ids, keep

\* truncate: each block behind the head loses a reference.
LEMMA TruncateInv ==
  ASSUME BMInv, NEW s \in Seqs, NEW n \in TokenCounts, n <= numTokens[s], Truncate(s, n)
  PROVE  BMInv'
<1> DEFINE ids == blockIds[s]
           keep == BlocksNeeded(n)
           kept == blockIds'[s]
           D == {ids[i] : i \in (keep + 1)..Len(ids)}
<1>1. /\ DropRefs(D) /\ UNCHANGED <<live, pins>>
      /\ numTokens' = [numTokens EXCEPT ![s] = n]
  BY DEF Truncate
<1>2. /\ s \in live /\ Len(ids) \in Nat /\ keep \in Nat /\ keep <= Len(ids)
      /\ n \in Nat /\ n <= keep * BlockSize
      /\ kept \in Seq(Blocks) /\ Len(kept) = keep
      /\ \A i \in 1..keep : kept[i] = ids[i]
      /\ Range(kept) = {ids[i] : i \in 1..keep}
  BY TruncateHead
<1>3. blockIds' = [blockIds EXCEPT ![s] = kept]
  BY TruncateHead DEF BMInv, BMTypeOK
<1>4. /\ ids \in Seq(Blocks)
      /\ \A i, j \in 1..Len(ids) : ids[i] = ids[j] => i = j
  BY LenProperties DEF BMInv, BMTypeOK, TableInjective, IsInjective
<1>5. TableBlocks(s) = {ids[i] : i \in 1..Len(ids)}
  BY <1>4, RangeEquality DEF TableBlocks
<1> HIDE DEF ids, keep, kept
<1>6. IsInjective(kept)
  BY <1>2, <1>4, LenProperties DEF IsInjective
<1>7. Range(kept) = TableBlocks(s) \ D /\ D \subseteq TableBlocks(s)
  BY <1>2, <1>4, <1>5
<1> HIDE DEF D
<1> QED BY <1>1, <1>2, <1>3, <1>6, <1>7, ShrinkInv

\* free preserves the invariant: every block of the table loses the reference of its sequence.
LEMMA FreeInv ==
  ASSUME BMInv, NEW s \in Seqs, Free(s)
  PROVE  BMInv'
<1>1. /\ s \in live /\ DropRefs(TableBlocks(s)) /\ live' = live \ {s} /\ UNCHANGED pins
      /\ blockIds' = [blockIds EXCEPT ![s] = <<>>]
      /\ numTokens' = [numTokens EXCEPT ![s] = 0]
  BY DEF Free
<1>2. << >> \in Seq(Blocks) /\ IsInjective(<< >>) /\ Range(<< >>) = {} /\ Len(<< >>) = 0
  BY DEF IsInjective, Range
<1>3. Range(<< >>) = TableBlocks(s) \ TableBlocks(s) /\ 0 <= Len(<< >>) * BlockSize
  BY <1>2
<1> QED BY <1>1, <1>2, <1>3, ShrinkInv

\* add_ref and release: only the explicit references and their count change.
LEMMA AddRefInv ==
  ASSUME BMInv, NEW b \in HeldBlocks, AddRef(b)
  PROVE  BMInv'
<1>1. /\ b \in Blocks /\ refCount[b] > 0
      /\ refCount' = [refCount EXCEPT ![b] = @ + 1] /\ pins' = [pins EXCEPT ![b] = @ + 1]
      /\ UNCHANGED <<free, live, blockIds, numTokens>>
  BY DEF AddRef, BumpRefs, HeldBlocks, BMInv, BMTypeOK
<1>2. \A x \in Blocks : /\ refCount'[x] = IF x = b THEN refCount[x] + 1 ELSE refCount[x]
                        /\ pins'[x] = IF x = b THEN pins[x] + 1 ELSE pins[x]
                        /\ refCount[x] \in Nat /\ pins[x] \in Nat
                        /\ Cardinality(Holders(x)) \in Nat
  BY <1>1, HoldersFinite DEF BMInv, BMTypeOK
<1>3. BMTypeOK'
  BY <1>1 DEF BMInv, BMTypeOK
<1>4. Partition'
  BY <1>1, <1>2 DEF BMInv, Partition
<1>5. RefExact'
  <2>1. \A x \in Blocks : Holders(x)' = Holders(x)
    BY <1>1 DEF Holders, TableBlocks
  <2> QED BY <1>2, <2>1 DEF BMInv, RefExact
<1> QED BY <1>1, <1>3, <1>4, <1>5 DEF BMInv, TableInjective, Capacity, TableCapacity

\* release_block preserves the invariant when the releasing holder had pinned the block.
LEMMA ReleaseInv ==
  ASSUME BMInv, NEW b \in Blocks, pins[b] > 0, Release(b)
  PROVE  BMInv'
<1>1. /\ refCount' = [x \in Blocks |-> IF x \in {b} THEN refCount[x] - 1 ELSE refCount[x]]
      /\ free' = free \cup {x \in {b} : refCount[x] = 1}
      /\ pins' = [pins EXCEPT ![b] = @ - 1]
      /\ UNCHANGED <<live, blockIds, numTokens>>
  BY DEF Release, DropRefs
<1>2. \A x \in Blocks : /\ refCount[x] \in Nat /\ pins[x] \in Nat
                        /\ Cardinality(Holders(x)) \in Nat
                        /\ refCount[x] = Cardinality(Holders(x)) + pins[x]
                        /\ (x \in free <=> refCount[x] = 0)
  BY HoldersFinite DEF BMInv, BMTypeOK, RefExact, Partition
<1>3. \A x \in Blocks : /\ refCount'[x] = IF x = b THEN refCount[x] - 1 ELSE refCount[x]
                        /\ pins'[x] = IF x = b THEN pins[x] - 1 ELSE pins[x]
                        /\ x \in free' <=> x \in free \/ (x = b /\ refCount[x] = 1)
  BY <1>1 DEF BMInv, BMTypeOK
<1>4. refCount[b] >= 1
  BY <1>2
<1>5. BMTypeOK'
  <2>1. \A x \in Blocks : refCount'[x] \in Nat /\ pins'[x] \in Nat
    BY <1>2, <1>3, <1>4
  <2>2. refCount' \in [Blocks -> Nat] /\ pins' \in [Blocks -> Nat]
    BY <1>1, <2>1 DEF BMInv, BMTypeOK
  <2> QED BY <1>1, <2>2 DEF BMInv, BMTypeOK
<1>6. Partition'
  <2>1. \A x \in Blocks : x \in free' <=> refCount'[x] = 0
    BY <1>2, <1>3, <1>4
  <2> QED BY <1>5, <2>1 DEF Partition, BMTypeOK
<1>7. RefExact'
  <2>1. \A x \in Blocks : Holders(x)' = Holders(x)
    BY <1>1 DEF Holders, TableBlocks
  <2> QED BY <1>2, <1>3, <2>1 DEF RefExact
<1> QED BY <1>1, <1>5, <1>6, <1>7 DEF BMInv, TableInjective, Capacity, TableCapacity

\* The num_tokens assignment that follows a reserve preserves the invariant.
LEMMA SetNumTokensInv ==
  ASSUME BMInv, NEW s \in Seqs, NEW n \in TokenCounts, s \in live, n <= TableCapacity(s),
         SetNumTokens(s, n)
  PROVE  BMInv'
<1>1. /\ numTokens' = [numTokens EXCEPT ![s] = n]
      /\ UNCHANGED <<free, refCount, live, blockIds, pins>>
  BY DEF SetNumTokens
<1>2. BMTypeOK'
  BY <1>1 DEF BMInv, BMTypeOK
<1>3. Capacity'
  BY <1>1 DEF BMInv, BMTypeOK, Capacity, TableCapacity
<1>4. Partition' /\ RefExact' /\ TableInjective'
  BY <1>1 DEF BMInv, Partition, RefExact, Holders, TableBlocks, TableInjective
<1> QED BY <1>2, <1>3, <1>4 DEF BMInv
-----------------------------------------------------------------------------
\* The theorems.

\* The initial pool satisfies the invariant: every block free, nothing listed.
LEMMA InitInv == BMInit => BMInv
<1> SUFFICES ASSUME BMInit PROVE BMInv
  OBVIOUS
<1>1. BMTypeOK
  BY FS_EmptySet DEF BMInit, BMTypeOK
<1>2. \A b \in Blocks : Holders(b) = {}
  BY DEF BMInit, Holders
<1>3. RefExact
  BY <1>2, FS_EmptySet DEF BMInit, RefExact
<1>4. TableInjective
  BY DEF BMInit, TableInjective, IsInjective
<1> QED BY <1>1, <1>3, <1>4 DEF BMInit, BMInv, Partition, Capacity

\* Every operation preserves the invariant.
LEMMA NextInv == BMInv /\ [BMNext]_bmVars => BMInv'
<1> SUFFICES ASSUME BMInv, [BMNext]_bmVars PROVE BMInv'
  OBVIOUS
<1>1. CASE \E s \in Seqs, n \in TokenCounts : \E reuse \in ReuseLists(n) : Allocate(s, n, reuse)
  BY <1>1, AllocateInv
<1>2. CASE \E b \in HeldBlocks : pins[b] < MaxPins /\ AddRef(b)
  BY <1>2, AddRefInv
<1>3. CASE \E b \in Blocks : pins[b] > 0 /\ Release(b)
  BY <1>3, ReleaseInv
<1>4. CASE \E s \in Seqs : AppendToken(s)
  BY <1>4, AppendTokenInv
<1>5. CASE \E s \in Seqs, n \in TokenCounts : Reserve(s, n)
  BY <1>5, ReserveInv
<1>6. CASE \E s, c \in Seqs : c \notin live /\ Fork(s, c)
  BY <1>6, ForkInv
<1>7. CASE \E s \in Seqs, n \in TokenCounts : n <= numTokens[s] /\ Truncate(s, n)
  BY <1>7, TruncateInv
<1>8. CASE \E s \in Seqs : Free(s)
  BY <1>8, FreeInv
<1>9. CASE \E s \in Seqs, n \in TokenCounts :
             s \in live /\ n <= TableCapacity(s) /\ SetNumTokens(s, n)
  BY <1>9, SetNumTokensInv
<1>10. CASE UNCHANGED bmVars
  BY <1>10 DEF bmVars, BMInv, BMTypeOK, Partition, RefExact, Holders, TableBlocks,
               TableInjective, Capacity, TableCapacity
<1> QED BY <1>1, <1>2, <1>3, <1>4, <1>5, <1>6, <1>7, <1>8, <1>9, <1>10 DEF BMNext

\* For every pool, block size and number of sequences: types hold, free blocks are
\* exactly the unreferenced ones, counts are exact, tables list no block twice and
\* have room for their tokens.
THEOREM AllocatorSafe == BMSpec => []BMInv
BY InitInv, NextInv, PTL DEF BMSpec

\* A block on the free list is listed by no table and pinned by nobody, and every
\* other block is held: none is handed out twice, none is lost.
THEOREM ReferencesExact == BMSpec => [](Partition /\ RefExact)
<1>1. BMInv => Partition /\ RefExact
  BY DEF BMInv
<1> QED BY <1>1, AllocatorSafe, PTL

\* Without holders and pins every count is 0.
LEMMA WholePool == BMInv => NoLeak
<1>1. SUFFICES ASSUME BMInv, live = {}, \A b \in Blocks : pins[b] = 0
               PROVE  free = Blocks
  BY DEF NoLeak
<1>2. \A b \in Blocks : Holders(b) = {}
  BY <1>1 DEF Holders
<1>3. \A b \in Blocks : refCount[b] = 0
  BY <1>1, <1>2, FS_EmptySet DEF BMInv, RefExact
<1> QED BY <1>1, <1>3 DEF BMInv, BMTypeOK, Partition

\* When the last sequence is freed and the last pin released the pool is whole.
THEOREM NothingLeaks == BMSpec => []NoLeak
BY WholePool, AllocatorSafe, PTL
-----------------------------------------------------------------------------
\* What a step does to the table of a sequence that stays live: the common head
\* is kept, and what is added was free.
TableKept(t) ==
  /\ \A i \in 1..Len(blockIds[t]) : i <= Len(blockIds'[t]) => blockIds'[t][i] = blockIds[t][i]
  /\ Range(blockIds'[t]) \ TableBlocks(t) \subseteq free

\* A step that extends one table keeps every live table's stored slots.
LEMMA GrowKeeps ==
  ASSUME BMInv, NEW s \in live, NEW n \in Nat, Extend(s, blockIds[s], {}, n), NEW t \in live
  PROVE  TableKept(t)
<1>1. s \in Seqs /\ blockIds[s] \in Seq(Blocks) /\ IsInjective(blockIds[s])
      /\ Range(blockIds[s]) \cap free = {}
  BY ListedNotFree DEF BMInv, BMTypeOK, TableInjective, TableBlocks
<1>2. PICK F \in SUBSET free : Extended(s, blockIds[s], {}, n, F)
  BY <1>1, ExtendEffect
<1>3. CASE t = s
  BY <1>2, <1>3 DEF Extended, TableKept, TableBlocks
<1>4. CASE t # s
  <2>1. blockIds'[t] = blockIds[t]
    BY <1>2, <1>4 DEF Extended, BMInv, BMTypeOK
  <2> QED BY <2>1 DEF TableKept, TableBlocks
<1> QED BY <1>3, <1>4

\* The growing operations extend the table by some number of free blocks.
LEMMA AppendExtends ==
  ASSUME NEW s \in Seqs, AppendToken(s)
  PROVE  s \in live /\ \E n \in Nat : Extend(s, blockIds[s], {}, n)
BY DEF AppendToken

\* reserve is an extension of the table by some number of blocks.
LEMMA ReserveExtends ==
  ASSUME BMInv, NEW s \in Seqs, NEW m \in TokenCounts, Reserve(s, m)
  PROVE  s \in live /\ \E n \in Nat : Extend(s, blockIds[s], {}, n)
<1>1. s \in live /\ Extend(s, blockIds[s], {}, MissingBlocks(s, m))
  BY DEF Reserve
<1>2. TableCapacity(s) - numTokens[s] \in Nat
  BY <1>1 DEF BMInv, BMTypeOK, Capacity, TableCapacity
<1>3. MissingBlocks(s, m) \in Nat
  <2>1. CASE m > TableCapacity(s) - numTokens[s]
    <3>1. m - (TableCapacity(s) - numTokens[s]) \in Nat
      BY <1>2, <2>1
    <3> QED BY <2>1, <3>1, BlocksCover DEF MissingBlocks
  <2>2. CASE ~(m > TableCapacity(s) - numTokens[s])
    BY <2>2 DEF MissingBlocks
  <2> QED BY <2>1, <2>2
<1> QED BY <1>1, <1>3

\* truncate keeps the slots of the tokens it leaves in its own table, and every other table.
LEMMA TruncateKeeps ==
  ASSUME BMInv, NEW s \in Seqs, NEW n \in TokenCounts, n <= numTokens[s], Truncate(s, n),
         NEW t \in live
  PROVE  TableKept(t)
<1>1. CASE t # s
  <2>1. blockIds'[t] = blockIds[t]
    BY <1>1, TruncateHead DEF BMInv, BMTypeOK
  <2> QED BY <2>1 DEF TableKept, TableBlocks
<1>2. CASE t = s
  BY <1>2, TruncateHead DEF TableKept
<1> QED BY <1>1, <1>2

\* No step of the allocator moves a stored token or takes a block already in use.
LEMMA StepKeepsTables ==
  ASSUME BMInv, [BMNext]_bmVars, NEW t \in live, t \in live'
  PROVE  TableKept(t)
<1>0. t \in Seqs /\ blockIds \in [Seqs -> Seq(Blocks)]
  BY DEF BMInv, BMTypeOK
<1>a. ASSUME blockIds'[t] = blockIds[t] PROVE TableKept(t)
  BY <1>a DEF TableKept, TableBlocks
<1>1. CASE \E s \in Seqs, n \in TokenCounts : \E reuse \in ReuseLists(n) : Allocate(s, n, reuse)
  <2>1. PICK s \in Seqs, n \in TokenCounts : \E reuse \in ReuseLists(n) : Allocate(s, n, reuse)
    BY <1>1
  <2>2. s # t /\ \E l : blockIds' = [blockIds EXCEPT ![s] = l]
    BY <2>1 DEF Allocate, Extend
  <2> QED BY <1>0, <1>a, <2>2
<1>2. CASE \E b \in HeldBlocks : pins[b] < MaxPins /\ AddRef(b)
  BY <1>2, <1>a DEF AddRef
<1>3. CASE \E b \in Blocks : pins[b] > 0 /\ Release(b)
  BY <1>3, <1>a DEF Release
<1>4. CASE \E s \in Seqs : AppendToken(s)
  BY <1>4, AppendExtends, GrowKeeps
<1>5. CASE \E s \in Seqs, n \in TokenCounts : Reserve(s, n)
  BY <1>5, ReserveExtends, GrowKeeps
<1>6. CASE \E s, c \in Seqs : c \notin live /\ Fork(s, c)
  BY <1>6, <1>0, <1>a DEF Fork
<1>7. CASE \E s \in Seqs, n \in TokenCounts : n <= numTokens[s] /\ Truncate(s, n)
  BY <1>7, TruncateKeeps
<1>8. CASE \E s \in Seqs : Free(s)
  <2>1. PICK s \in Seqs : Free(s)
    BY <1>8
  <2>2. s # t /\ blockIds' = [blockIds EXCEPT ![s] = <<>>]
    BY <2>1 DEF Free, BMInv, BMTypeOK
  <2> QED BY <1>0, <1>a, <2>2
<1>9. CASE \E s \in Seqs, n \in TokenCounts :
             s \in live /\ n <= TableCapacity(s) /\ SetNumTokens(s, n)
  BY <1>9, <1>a DEF SetNumTokens
<1>10. CASE UNCHANGED bmVars
  BY <1>10, <1>a DEF bmVars
<1> QED BY <1>1, <1>2, <1>3, <1>4, <1>5, <1>6, <1>7, <1>8, <1>9, <1>10 DEF BMNext
-----------------------------------------------------------------------------
\* A stored token keeps its slot across every operation on any sequence.
THEOREM SlotsFixed == BMSpec => StoredSlotsFixed
<1> DEFINE P == \A s \in live \cap live' : \A p \in 0..(TableCapacity(s) - 1) :
                  p < numTokens[s] /\ p < numTokens'[s]
                    => Slot(blockIds'[s], p) = Slot(blockIds[s], p)
<1>1. ASSUME BMInv, BMInv', [BMNext]_bmVars PROVE P
  <2>1. SUFFICES ASSUME NEW s \in live, s \in live', NEW p \in 0..(TableCapacity(s) - 1),
                        p < numTokens[s], p < numTokens'[s]
                 PROVE  Slot(blockIds'[s], p) = Slot(blockIds[s], p)
    OBVIOUS
  <2> DEFINE i == (p \div BlockSize) + 1
  <2>2. TableKept(s)
    BY <1>1, <2>1, StepKeepsTables
  <2>3. /\ Len(blockIds[s]) \in Nat /\ Len(blockIds'[s]) \in Nat
        /\ numTokens[s] \in Nat /\ numTokens'[s] \in Nat
        /\ numTokens[s] <= Len(blockIds[s]) * BlockSize
        /\ numTokens'[s] <= Len(blockIds'[s]) * BlockSize
    BY <1>1, <2>1 DEF BMInv, BMTypeOK, Capacity, TableCapacity
  <2>4. p \in Nat /\ p < Len(blockIds[s]) * BlockSize /\ p < Len(blockIds'[s]) * BlockSize
    BY <2>1, <2>3 DEF TableCapacity
  <2>5. i \in 1..Len(blockIds[s]) /\ i <= Len(blockIds'[s])
    <3>1. i \in 1..Len(blockIds[s])
      BY <2>3, <2>4, PositionInTable
    <3>2. i \in 1..Len(blockIds'[s])
      BY <2>3, <2>4, PositionInTable
    <3> QED BY <3>1, <3>2
  <2> HIDE DEF i
  <2>6. blockIds'[s][i] = blockIds[s][i]
    BY <2>2, <2>5 DEF TableKept
  <2> QED BY <2>6 DEF Slot, i
<1>2. BMInv /\ BMInv' /\ [BMNext]_bmVars => [P]_bmVars
  BY <1>1
<1>3. BMSpec => [][P]_bmVars
  BY <1>2, AllocatorSafe, PTL DEF BMSpec
<1> QED BY <1>3 DEF StoredSlotsFixed

\* A live sequence grows only by blocks nobody held.
THEOREM GrowthTakesUnusedBlocks == BMSpec => GrowsByUnusedBlocks
<1> DEFINE P == \A s \in live \cap live' : \A b \in Range(blockIds'[s]) \ TableBlocks(s) :
                  Holders(b) = {} /\ pins[b] = 0
<1>1. BMInv /\ [BMNext]_bmVars => P
  <2>1. SUFFICES ASSUME BMInv, [BMNext]_bmVars, NEW s \in live, s \in live',
                        NEW b \in Range(blockIds'[s]) \ TableBlocks(s)
                 PROVE  Holders(b) = {} /\ pins[b] = 0
    OBVIOUS
  <2>2. b \in free
    BY <2>1, StepKeepsTables DEF TableKept
  <2> QED BY <2>1, <2>2, FreeUnused
<1>2. BMSpec => [][P]_bmVars
  BY <1>1, AllocatorSafe, PTL DEF BMSpec
<1> QED BY <1>2 DEF GrowsByUnusedBlocks
-----------------------------------------------------------------------------
\* The allocator implements the pool that reclaims what nobody holds.

\* The set of blocks each sequence lists, as the pool sees it.
Held == [s \in Seqs |-> TableBlocks(s)]

Reclaimed == free = Pool!Unheld(Held, pins)

\* Under the invariant the free list is the pool's set of unheld blocks.
LEMMA FreeIsUnheld == BMInv => Reclaimed
<1> SUFFICES ASSUME BMInv PROVE Reclaimed
  OBVIOUS
<1>1. \A b \in Blocks : Holders(b) = {} <=> \A s \in Seqs : b \notin TableBlocks(s)
  <2>1. \A s \in Seqs \ live : TableBlocks(s) = {}
    BY DEF BMInv, BMTypeOK, TableBlocks, Range
  <2>2. live \subseteq Seqs
    BY DEF BMInv, BMTypeOK
  <2> QED BY <2>1, <2>2 DEF Holders
<1>2. \A b \in Blocks : b \in free <=> Holders(b) = {} /\ pins[b] = 0
  <2>1. SUFFICES ASSUME NEW b \in Blocks PROVE b \in free <=> Holders(b) = {} /\ pins[b] = 0
    OBVIOUS
  <2>2. Holders(b) = {} /\ pins[b] = 0 => refCount[b] = 0
    BY FS_EmptySet DEF BMInv, RefExact
  <2> QED BY <2>2, FreeUnused DEF BMInv, Partition
<1>3. free \subseteq Blocks
  BY DEF BMInv, BMTypeOK
<1> QED BY <1>1, <1>2, <1>3 DEF Reclaimed, Held, Pool!Unheld

\* The same fact in the state after a step.
LEMMA ReclaimStep == BMInv' => Reclaimed'
BY FreeIsUnheld, PTL

\* The pool's view of a table that changes for one sequence only.
LEMMA HeldExcept ==
  ASSUME BMTypeOK, NEW s \in Seqs, \A t \in Seqs \ {s} : blockIds'[t] = blockIds[t]
  PROVE  Held' = [Held EXCEPT ![s] = Range(blockIds'[s])]
BY DEF Held, TableBlocks

\* A step that leaves the tables alone leaves the pool's view of them alone.
LEMMA HeldSame ==
  ASSUME UNCHANGED blockIds
  PROVE  Held' = Held
BY DEF Held, TableBlocks

\* A growing table is a Grow step of the pool.
LEMMA GrowRefines ==
  ASSUME BMInv, BMInv', NEW s \in live, NEW n \in Nat, Extend(s, blockIds[s], {}, n),
         UNCHANGED <<live, pins>>
  PROVE  Pool!Next
<1>1. s \in Seqs /\ blockIds[s] \in Seq(Blocks) /\ IsInjective(blockIds[s])
      /\ Range(blockIds[s]) \cap free = {} /\ BMTypeOK
  BY ListedNotFree DEF BMInv, BMTypeOK, TableInjective, TableBlocks
<1>2. PICK F \in SUBSET free : Extended(s, blockIds[s], {}, n, F)
  BY <1>1, ExtendEffect
<1>3. Held' = [Held EXCEPT ![s] = @ \cup F]
  BY <1>1, <1>2, HeldExcept DEF Extended, Held, TableBlocks
<1>4. Pool!Grow(s, F)
  BY <1>3, ReclaimStep DEF Pool!Grow, Pool!Reclaim, Reclaimed, Held
<1> QED BY <1>1, <1>4 DEF Pool!Next

\* allocate is a Start step: the adopted blocks are held, the others available.
LEMMA AllocateRefines ==
  ASSUME BMInv, BMInv', NEW s \in Seqs, NEW n \in TokenCounts, NEW reuse \in ReuseLists(n),
         Allocate(s, n, reuse)
  PROVE  Pool!Next
<1>1. /\ s \notin live /\ live' = live \cup {s} /\ UNCHANGED pins
      /\ Extend(s, reuse, Range(reuse), NewBlocks(n, reuse))
  BY DEF Allocate
<1>2. PICK F \in SUBSET free : Extended(s, reuse, Range(reuse), NewBlocks(n, reuse), F)
  BY <1>1, ReuseProperties, ExtendEffect
<1>3. Held' = [Held EXCEPT ![s] = Range(reuse) \cup F]
  BY <1>2, HeldExcept DEF Extended, BMInv
<1>4. Range(reuse) \in SUBSET Blocks /\ Range(reuse) \cap free = {}
  BY ReuseProperties, RangeOfSeq
<1>5. Pool!Start(s, Range(reuse), F)
  BY <1>1, <1>3, <1>4, ReclaimStep DEF Pool!Start, Pool!Reclaim, Reclaimed, Held
<1> QED BY <1>4, <1>5 DEF Pool!Next

\* fork is a Start step that shares the parent's blocks and takes no other.
LEMMA ForkRefines ==
  ASSUME BMInv, BMInv', NEW p \in Seqs, NEW c \in Seqs, c \notin live, Fork(p, c)
  PROVE  Pool!Next
<1>1. /\ p \in live /\ live' = live \cup {c} /\ UNCHANGED pins
      /\ blockIds' = [blockIds EXCEPT ![c] = blockIds[p]]
  BY DEF Fork
<1>2. TableBlocks(p) \in SUBSET Blocks /\ TableBlocks(p) \cap free = {}
  BY <1>1, ListedNotFree, RangeOfSeq DEF BMInv, BMTypeOK, TableBlocks
<1>3. Held' = [Held EXCEPT ![c] = TableBlocks(p) \cup {}]
  <2>1. /\ blockIds'[c] = blockIds[p]
        /\ \A t \in Seqs \ {c} : blockIds'[t] = blockIds[t]
    BY <1>1 DEF BMInv, BMTypeOK
  <2> QED BY <2>1, HeldExcept DEF BMInv, TableBlocks
<1>4. Pool!Start(c, TableBlocks(p), {})
  BY <1>1, <1>2, <1>3, ReclaimStep DEF Pool!Start, Pool!Reclaim, Reclaimed, Held
<1>5. {} \in SUBSET free
  OBVIOUS
<1> QED BY <1>2, <1>4, <1>5 DEF Pool!Next

\* truncate is a Shrink step of the pool.
LEMMA TruncateRefines ==
  ASSUME BMInv, BMInv', NEW s \in Seqs, NEW n \in TokenCounts, n <= numTokens[s], Truncate(s, n)
  PROVE  Pool!Next
<1> DEFINE kept == Range(blockIds'[s])
<1>1. /\ s \in live /\ UNCHANGED <<live, pins>>
      /\ \A t \in Seqs \ {s} : blockIds'[t] = blockIds[t]
  BY DEF Truncate, BMInv, BMTypeOK
<1>2. kept \subseteq TableBlocks(s)
  BY TruncateHead
<1>3. Held' = [Held EXCEPT ![s] = kept]
  BY <1>1, HeldExcept DEF BMInv
<1> HIDE DEF kept
<1>4. Pool!Shrink(s, kept)
  BY <1>1, <1>2, <1>3, ReclaimStep DEF Pool!Shrink, Pool!Reclaim, Reclaimed, Held
<1>5. kept \in SUBSET Held[s]
  BY <1>2 DEF Held
<1> QED BY <1>4, <1>5 DEF Pool!Next, Held

\* free is a Drop step of the pool.
LEMMA FreeRefines ==
  ASSUME BMInv, BMInv', NEW s \in Seqs, Free(s)
  PROVE  Pool!Next
<1>1. /\ s \in live /\ live' = live \ {s} /\ UNCHANGED pins
      /\ \A t \in Seqs \ {s} : blockIds'[t] = blockIds[t]
      /\ blockIds'[s] = <<>>
  BY DEF Free, BMInv, BMTypeOK
<1>2. Range(blockIds'[s]) = {}
  BY <1>1 DEF Range
<1>3. Held' = [Held EXCEPT ![s] = {}]
  BY <1>1, <1>2, HeldExcept DEF BMInv
<1>4. Pool!End(s)
  BY <1>1, <1>3, ReclaimStep DEF Pool!End, Pool!Reclaim, Reclaimed, Held
<1> QED BY <1>4 DEF Pool!Next

\* add_ref is a Pin step, release an Unpin step.
LEMMA AddRefRefines ==
  ASSUME BMInv, BMInv', NEW b \in HeldBlocks, AddRef(b)
  PROVE  Pool!Next
<1>1. b \in Blocks /\ b \notin free
  BY DEF HeldBlocks, BMInv, Partition
<1>2. pins' = [pins EXCEPT ![b] = @ + 1] /\ UNCHANGED <<live, blockIds>>
  BY DEF AddRef
<1>3. Held' = Held
  BY <1>2, HeldSame
<1>4. Pool!Pin(b)
  BY <1>1, <1>2, <1>3, ReclaimStep DEF Pool!Pin, Pool!Reclaim, Reclaimed, Held
<1> QED BY <1>1, <1>4 DEF Pool!Next

\* release_block is an Unpin step of the pool.
LEMMA ReleaseRefines ==
  ASSUME BMInv, BMInv', NEW b \in Blocks, pins[b] > 0, Release(b)
  PROVE  Pool!Next
<1>1. pins' = [pins EXCEPT ![b] = @ - 1] /\ UNCHANGED <<live, blockIds>>
  BY DEF Release
<1>2. Held' = Held
  BY <1>1, HeldSame
<1>3. Pool!Unpin(b)
  BY <1>1, <1>2, ReclaimStep DEF Pool!Unpin, Pool!Reclaim, Reclaimed, Held
<1> QED BY <1>3 DEF Pool!Next

\* Every step of the allocator is a step of the pool or leaves it as it was.
LEMMA StepRefines == BMInv /\ BMInv' /\ [BMNext]_bmVars => [Pool!Next]_(Pool!poolVars)
<1> SUFFICES ASSUME BMInv, BMInv', [BMNext]_bmVars
             PROVE  Pool!Next \/ UNCHANGED Pool!poolVars
  OBVIOUS
<1>1. CASE \E s \in Seqs, n \in TokenCounts : \E reuse \in ReuseLists(n) : Allocate(s, n, reuse)
  BY <1>1, AllocateRefines
<1>2. CASE \E b \in HeldBlocks : pins[b] < MaxPins /\ AddRef(b)
  BY <1>2, AddRefRefines
<1>3. CASE \E b \in Blocks : pins[b] > 0 /\ Release(b)
  BY <1>3, ReleaseRefines
<1>4. CASE \E s \in Seqs : AppendToken(s)
  <2>1. PICK s \in Seqs : AppendToken(s)
    BY <1>4
  <2>2. UNCHANGED <<live, pins>>
    BY <2>1 DEF AppendToken
  <2> QED BY <2>1, <2>2, AppendExtends, GrowRefines
<1>5. CASE \E s \in Seqs, n \in TokenCounts : Reserve(s, n)
  <2>1. PICK s \in Seqs, n \in TokenCounts : Reserve(s, n)
    BY <1>5
  <2>2. UNCHANGED <<live, pins>>
    BY <2>1 DEF Reserve
  <2> QED BY <2>1, <2>2, ReserveExtends, GrowRefines
<1>6. CASE \E s, c \in Seqs : c \notin live /\ Fork(s, c)
  BY <1>6, ForkRefines
<1>7. CASE \E s \in Seqs, n \in TokenCounts : n <= numTokens[s] /\ Truncate(s, n)
  BY <1>7, TruncateRefines
<1>8. CASE \E s \in Seqs : Free(s)
  BY <1>8, FreeRefines
<1>9. CASE UNCHANGED <<free, live, blockIds, pins>>
  <2>1. Held' = Held
    BY <1>9, HeldSame
  <2> QED BY <1>9, <2>1 DEF Pool!poolVars, Held
<1>10. CASE \E s \in Seqs, n \in TokenCounts :
             s \in live /\ n <= TableCapacity(s) /\ SetNumTokens(s, n)
  BY <1>9, <1>10 DEF SetNumTokens
<1>11. CASE UNCHANGED bmVars
  BY <1>9, <1>11 DEF bmVars
<1> QED BY <1>1, <1>2, <1>3, <1>4, <1>5, <1>6, <1>7, <1>8, <1>10, <1>11 DEF BMNext

\* Reference counting is exact garbage collection: the allocator behaves as a pool
\* whose available blocks are, after every operation, those nobody holds.
THEOREM AllocatorRefinesPool == BMSpec => ImplementsPool
<1>1. BMInit => Pool!Init
  BY DEF BMInit, Pool!Init, TableBlocks, Range
<1>2. BMInv /\ BMInv' /\ [BMNext]_bmVars => [Pool!Next]_(Pool!poolVars)
  BY StepRefines
<1>3. BMSpec => Pool!Spec
  BY <1>1, <1>2, AllocatorSafe, PTL DEF BMSpec, Pool!Spec
<1> QED BY <1>3 DEF ImplementsPool
-----------------------------------------------------------------------------
\* What a client may rely on: each operation is a step of the allocator, keeps its
\* invariant, and leaves the tables of the other sequences alone.

\* An allocation without reused blocks is one of the allocator's own.
LEMMA EmptyReuse == ASSUME NEW n \in Nat PROVE <<>> \in ReuseLists(n)
<1> DEFINE pinned == {b \in Blocks : pins[b] > 0}
<1>1. 0 \in 0..(n \div BlockSize)
  BY BlockSizeAssumption
<1>2. <<>> \in Injection(1..0, pinned)
  BY DEF Injection, IsInjective
<1> QED BY <1>1, <1>2 DEF ReuseLists

TableSame(t) == blockIds'[t] = blockIds[t] /\ numTokens'[t] = numTokens[t]

\* allocate makes a table that holds n tokens of the blocks to reuse and of free ones.
LEMMA AllocateForClient ==
  ASSUME BMInv, NEW s \in Seqs, NEW n \in TokenCounts, NEW reuse \in ReuseLists(n),
         Allocate(s, n, reuse)
  PROVE  /\ BMInv' /\ BMNext
         /\ s \notin live /\ live' = live \cup {s} /\ UNCHANGED pins
         /\ \A t \in live : TableSame(t)
         /\ numTokens'[s] = n /\ n <= Len(blockIds'[s]) * BlockSize
         /\ Len(reuse) <= Len(blockIds'[s]) /\ \A i \in 1..Len(reuse) : blockIds'[s][i] = reuse[i]
         /\ Range(blockIds'[s]) \ Range(reuse) \subseteq free
<1>1. BMInv' /\ BMNext
  BY AllocateInv DEF BMNext
<1>2. /\ s \notin live /\ live' = live \cup {s} /\ UNCHANGED pins
      /\ numTokens' = [numTokens EXCEPT ![s] = n]
      /\ Extend(s, reuse, Range(reuse), NewBlocks(n, reuse))
  BY DEF Allocate
<1>3. reuse \in Seq(Blocks) /\ IsInjective(reuse) /\ Range(reuse) \cap free = {} /\ NewBlocks(n, reuse) \in Nat
  BY ReuseProperties
<1>4. PICK F \in SUBSET free : Extended(s, reuse, Range(reuse), NewBlocks(n, reuse), F)
  BY <1>2, <1>3, ExtendEffect
<1>5. \A t \in live : t \in Seqs /\ t # s
  BY <1>2 DEF BMInv, BMTypeOK
<1>6. \A t \in live : TableSame(t)
  BY <1>2, <1>4, <1>5 DEF Extended, TableSame, BMInv, BMTypeOK
<1>7. numTokens'[s] = n
  BY <1>2 DEF BMInv, BMTypeOK
<1>8. n <= Len(blockIds'[s]) * BlockSize
  BY <1>1, <1>2, <1>7 DEF BMInv, Capacity, TableCapacity
<1>9. Len(reuse) \in Nat
  BY <1>3
<1> QED BY <1>1, <1>2, <1>3, <1>4, <1>6, <1>7, <1>8, <1>9 DEF Extended

\* append_token counts one more token, in a table whose blocks stay where they are.
LEMMA AppendForClient ==
  ASSUME BMInv, NEW s \in Seqs, AppendToken(s)
  PROVE  /\ BMInv' /\ BMNext
         /\ s \in live /\ live' = live /\ UNCHANGED pins
         /\ \A t \in live \ {s} : TableSame(t)
         /\ numTokens'[s] = numTokens[s] + 1
         /\ Len(blockIds[s]) <= Len(blockIds'[s])
         /\ \A i \in 1..Len(blockIds[s]) : blockIds'[s][i] = blockIds[s][i]
         /\ Range(blockIds'[s]) \ TableBlocks(s) \subseteq free
<1>1. BMInv' /\ BMNext
  BY AppendTokenInv DEF BMNext
<1> DEFINE n == IF AppendNeedsBlock(s) THEN 1 ELSE 0
<1>2. /\ s \in live /\ live' = live /\ UNCHANGED pins /\ n \in Nat
      /\ numTokens' = [numTokens EXCEPT ![s] = @ + 1]
      /\ Extend(s, blockIds[s], {}, n)
  BY DEF AppendToken
<1> HIDE DEF n
<1>3. blockIds[s] \in Seq(Blocks) /\ IsInjective(blockIds[s]) /\ Range(blockIds[s]) \cap free = {}
  BY <1>2, ListedNotFree DEF BMInv, BMTypeOK, TableInjective, TableBlocks
<1>4. PICK F \in SUBSET free : Extended(s, blockIds[s], {}, n, F)
  BY <1>2, <1>3, ExtendEffect
<1>5. Len(blockIds[s]) \in Nat /\ Len(blockIds'[s]) = Len(blockIds[s]) + n
  BY <1>3, <1>4 DEF Extended
<1>6. \A t \in live \ {s} : TableSame(t)
  BY <1>2, <1>4 DEF Extended, TableSame, BMInv, BMTypeOK
<1>7. numTokens'[s] = numTokens[s] + 1
  BY <1>2 DEF BMInv, BMTypeOK
<1> QED BY <1>1, <1>2, <1>4, <1>5, <1>6, <1>7 DEF Extended, TableBlocks

\* A client sets the count of a table within what the table holds.
LEMMA CountForClient ==
  ASSUME BMInv, NEW s \in Seqs, NEW n \in TokenCounts, n <= TableCapacity(s), SetNumTokens(s, n)
  PROVE  /\ BMInv' /\ BMNext
         /\ s \in live /\ UNCHANGED <<live, blockIds, pins, free>>
         /\ \A t \in live \ {s} : TableSame(t)
         /\ numTokens'[s] = n
<1>1. s \in live /\ UNCHANGED <<live, blockIds, pins, free>> /\ numTokens' = [numTokens EXCEPT ![s] = n]
  BY DEF SetNumTokens
<1>2. BMInv' /\ BMNext
  BY <1>1, SetNumTokensInv DEF BMNext
<1> QED BY <1>1, <1>2 DEF TableSame, BMInv, BMTypeOK

\* free takes the table of one sequence away.
LEMMA FreeForClient ==
  ASSUME BMInv, NEW s \in Seqs, Free(s)
  PROVE  /\ BMInv' /\ BMNext
         /\ s \in live /\ live' = live \ {s} /\ UNCHANGED pins
         /\ \A t \in live' : TableSame(t)
<1>1. BMInv' /\ BMNext
  BY FreeInv DEF BMNext
<1>2. /\ s \in live /\ live' = live \ {s} /\ UNCHANGED pins
      /\ blockIds' = [blockIds EXCEPT ![s] = <<>>] /\ numTokens' = [numTokens EXCEPT ![s] = 0]
  BY DEF Free
<1> QED BY <1>1, <1>2 DEF TableSame, BMInv, BMTypeOK

\* A forward pass: a table that grows by what n more tokens miss, and counts up to
\* as many, keeps its blocks (speculative.py:70-80).
LEMMA ForwardForClient ==
  ASSUME BMInv, NEW s \in live, NEW n \in Nat, NEW k \in Nat, k <= numTokens[s] + n,
         Extend(s, blockIds[s], {}, MissingBlocks(s, n)), UNCHANGED <<live, pins>>,
         numTokens' = [numTokens EXCEPT ![s] = k]
  PROVE  /\ BMInv' /\ numTokens'[s] = k
         /\ Len(blockIds[s]) <= Len(blockIds'[s])
         /\ \A i \in 1..Len(blockIds[s]) : blockIds'[s][i] = blockIds[s][i]
<1> DEFINE have == TableCapacity(s) - numTokens[s]
           more == MissingBlocks(s, n)
<1>1. /\ s \in Seqs /\ blockIds[s] \in Seq(Blocks) /\ IsInjective(blockIds[s])
      /\ numTokens[s] \in Nat /\ Len(blockIds[s]) \in Nat /\ have \in Nat
      /\ numTokens[s] + have = Len(blockIds[s]) * BlockSize
  BY LenProperties DEF BMInv, BMTypeOK, TableInjective, Capacity, TableCapacity
<1>2. more \in Nat /\ n <= have + more * BlockSize
  <2>1. CASE n > have
    <3>1. PICK m \in Nat : m = n - have
      BY <1>1, <2>1
    <3>2. BlocksNeeded(m) \in Nat /\ m <= BlocksNeeded(m) * BlockSize
      BY BlocksCover
    <3>3. more = BlocksNeeded(m)
      BY <2>1, <3>1 DEF MissingBlocks
    <3> HIDE DEF have, more
    <3> QED BY <1>1, <3>1, <3>2, <3>3
  <2>2. CASE ~(n > have)
    <3>1. more = 0
      BY <2>2 DEF MissingBlocks
    <3> HIDE DEF have, more
    <3> QED BY <1>1, <2>2, <3>1
  <2> QED BY <2>1, <2>2
<1> HIDE DEF have, more
<1>3. k <= (Len(blockIds[s]) + more) * BlockSize
  BY <1>1, <1>2
<1>4. Extend(s, blockIds[s], {}, more)
  BY DEF more
<1>5. BMInv'
  BY <1>2, <1>3, <1>4, GrowInv
<1>6. Range(blockIds[s]) \cap free = {}
  BY ListedNotFree DEF TableBlocks
<1>7. PICK F \in SUBSET free : Extended(s, blockIds[s], {}, more, F)
  BY <1>1, <1>2, <1>4, <1>6, ExtendEffect
<1>8. numTokens'[s] = k
  BY <1>1 DEF BMInv, BMTypeOK
<1> QED BY <1>1, <1>2, <1>5, <1>7, <1>8 DEF Extended

\* truncate leaves the head of the table that the remaining tokens need.
LEMMA TruncateForClient ==
  ASSUME BMInv, NEW s \in Seqs, NEW n \in TokenCounts, n <= numTokens[s], Truncate(s, n)
  PROVE  /\ BMInv' /\ s \in live /\ live' = live /\ UNCHANGED pins
         /\ numTokens'[s] = n /\ Len(blockIds'[s]) <= Len(blockIds[s])
         /\ \A i \in 1..Len(blockIds'[s]) : blockIds'[s][i] = blockIds[s][i]
<1>1. BMInv' /\ s \in live /\ live' = live /\ UNCHANGED pins
  BY TruncateInv DEF Truncate
<1>2. numTokens'[s] = n
  BY DEF Truncate, BMInv, BMTypeOK
<1> QED BY <1>1, <1>2, TruncateHead

\* An allocation that was made had the blocks it took.
LEMMA AllocationFits ==
  ASSUME BMInv, IsFiniteSet(Blocks), NEW s \in Seqs, NEW n \in Nat, Allocate(s, n, <<>>)
  PROVE  NewBlocks(n, <<>>) <= Cardinality(free)
<1> DEFINE m == NewBlocks(n, <<>>)
<1>1. m \in Nat
  <2>1. BlocksNeeded(n) \in Nat /\ Len(<<>>) = 0
    BY BlocksCover
  <2> QED BY <2>1 DEF NewBlocks
<1>2. PICK fresh \in FreshLists(m) : TRUE
  BY DEF Allocate, Extend
<1> HIDE DEF m
<1>3. fresh \in Injection(1..m, free)
  BY <1>2 DEF FreshLists
<1>4. IsFiniteSet(free)
  BY FS_Subset DEF BMInv, BMTypeOK
<1>5. Cardinality(1..m) = m
  BY <1>1, FS_Interval
<1>6. Cardinality(1..m) <= Cardinality(free)
  BY <1>3, <1>4, FS_Injection
<1> QED BY <1>5, <1>6 DEF m

\* The slot of a position that the table holds: inside one of its blocks.
LEMMA SlotInTable ==
  ASSUME BMInv, NEW s \in live, NEW p \in Nat, p < TableCapacity(s)
  PROVE  /\ (p \div BlockSize) + 1 \in 1..Len(blockIds[s])
         /\ Slot(blockIds[s], p) = <<blockIds[s][(p \div BlockSize) + 1], p % BlockSize>>
         /\ blockIds[s][(p \div BlockSize) + 1] \in TableBlocks(s)
         /\ TableBlocks(s) \subseteq Blocks /\ p % BlockSize \in 0..(BlockSize - 1)
<1>1. blockIds[s] \in Seq(Blocks)
  BY DEF BMInv, BMTypeOK
<1>2. Len(blockIds[s]) \in Nat /\ p < Len(blockIds[s]) * BlockSize
  BY <1>1 DEF TableCapacity
<1>3. (p \div BlockSize) + 1 \in 1..Len(blockIds[s])
  BY <1>2, PositionInTable
<1>4. p % BlockSize \in 0..(BlockSize - 1)
  OBVIOUS
<1> QED BY <1>1, <1>3, <1>4, RangeOfList DEF Slot, TableBlocks

\* The slot of a position of a list of blocks.
LEMMA SlotOfList ==
  ASSUME NEW ids \in Seq(Blocks), NEW p \in Nat, p < Len(ids) * BlockSize
  PROVE  /\ (p \div BlockSize) + 1 \in 1..Len(ids) /\ ids[(p \div BlockSize) + 1] \in Blocks
         /\ Slot(ids, p) = <<ids[(p \div BlockSize) + 1], p % BlockSize>>
         /\ Slot(ids, p)[1] = ids[(p \div BlockSize) + 1] /\ Slot(ids, p)[2] = p % BlockSize
         /\ p % BlockSize \in 0..(BlockSize - 1)
<1>1. Len(ids) \in Nat /\ \A i \in 1..Len(ids) : ids[i] \in Blocks
  BY LenProperties
<1>2. (p \div BlockSize) + 1 \in 1..Len(ids)
  BY <1>1, PositionInTable
<1>3. p % BlockSize \in 0..(BlockSize - 1)
  OBVIOUS
<1> DEFINE i == (p \div BlockSize) + 1
           o == p % BlockSize
<1>4. Slot(ids, p) = <<ids[i], o>>
  BY DEF Slot
<1> HIDE DEF i, o
<1>5. Slot(ids, p)[1] = ids[i] /\ Slot(ids, p)[2] = o
  BY <1>4
<1> QED BY <1>1, <1>2, <1>3, <1>4, <1>5 DEF i, o

\* Two positions of a list without repetition never share a slot.
LEMMA SlotsOfList ==
  ASSUME NEW ids \in Seq(Blocks), IsInjective(ids), NEW p \in Nat, NEW q \in Nat,
         p < Len(ids) * BlockSize, q < Len(ids) * BlockSize, Slot(ids, p) = Slot(ids, q)
  PROVE  p = q
<1> DEFINE i == (p \div BlockSize) + 1
           j == (q \div BlockSize) + 1
<1>1. i \in 1..Len(ids) /\ j \in 1..Len(ids) /\ ids[i] = ids[j] /\ (p % BlockSize) = (q % BlockSize)
  <2>1. i \in 1..Len(ids) /\ Slot(ids, p)[1] = ids[i] /\ Slot(ids, p)[2] = p % BlockSize
    BY SlotOfList
  <2>2. j \in 1..Len(ids) /\ Slot(ids, q)[1] = ids[j] /\ Slot(ids, q)[2] = q % BlockSize
    BY SlotOfList
  <2> HIDE DEF i, j
  <2> QED BY <2>1, <2>2
<1>2. DOMAIN ids = 1..Len(ids)
  BY LenProperties
<1>3. i = j
  BY <1>1, <1>2 DEF IsInjective
<1>4. p = (p \div BlockSize) * BlockSize + (p % BlockSize) /\ q = (q \div BlockSize) * BlockSize + (q % BlockSize)
  OBVIOUS
<1>5. p \div BlockSize = q \div BlockSize
  <2>1. p \div BlockSize \in Nat /\ q \div BlockSize \in Nat
    OBVIOUS
  <2> QED BY <1>3, <2>1
<1> QED BY <1>1, <1>4, <1>5

\* Two positions of one table never share a slot.
LEMMA SlotsDiffer ==
  ASSUME BMInv, NEW s \in live, NEW p \in Nat, NEW q \in Nat, p < TableCapacity(s), q < TableCapacity(s),
         Slot(blockIds[s], p) = Slot(blockIds[s], q)
  PROVE  p = q
<1>1. blockIds[s] \in Seq(Blocks) /\ IsInjective(blockIds[s])
  BY DEF BMInv, BMTypeOK, TableInjective
<1> QED BY <1>1, SlotsOfList DEF TableCapacity

\* A position is counted from the start of its block.
LEMMA PositionInBlock ==
  ASSUME NEW p \in Nat, NEW i, i = (p \div BlockSize) + 1
  PROVE  /\ i \in Nat /\ i * BlockSize \in Nat /\ i * BlockSize - BlockSize + (p % BlockSize) + 1 = p + 1
         /\ p + 1 <= i * BlockSize
<1> DEFINE d == p \div BlockSize
           o == p % BlockSize
<1>1. d \in Nat /\ o \in 0..(BlockSize - 1) /\ p = d * BlockSize + o
  OBVIOUS
<1> HIDE DEF d, o
<1>2. i = d + 1 /\ d * BlockSize \in Nat
  BY <1>1 DEF d
<1>3. i * BlockSize = d * BlockSize + BlockSize
  BY <1>1, <1>2
<1> QED BY <1>1, <1>2, <1>3 DEF o

\* The offset-th position of the i-th block.
LEMMA BlockOfPosition ==
  ASSUME NEW i \in Nat \ {0}, NEW o \in 0..(BlockSize - 1), NEW p, p = i * BlockSize - BlockSize + o
  PROVE  p \in Nat /\ (p \div BlockSize) + 1 = i /\ p % BlockSize = o /\ p + 1 <= i * BlockSize
<1>1. PICK d \in Nat : i = d + 1
  <2>1. i - 1 \in Nat /\ i = (i - 1) + 1
    OBVIOUS
  <2> QED BY <2>1
<1>2. i * BlockSize = d * BlockSize + BlockSize /\ d * BlockSize \in Nat
  BY <1>1
<1>3. p = d * BlockSize + o /\ p \in Nat
  BY <1>2
<1>4. (p \div BlockSize) = d /\ (p % BlockSize) = o
  BY <1>3
<1> QED BY <1>1, <1>2, <1>3, <1>4
=============================================================================
