--------------------------- MODULE SpeculativeProofs ---------------------------
(***************************************************************************)
(* What speculative decoding keeps, for any two models, prompts, limits,   *)
(* number of proposals and block pools: both caches follow the confirmed   *)
(* tokens, every proposal is tested with the distributions of its own      *)
(* position, a call leaves nothing in the pools, and the output is one the *)
(* target could have decoded alone.                                        *)
(***************************************************************************)
EXTENDS Speculative, ListLemmas

\* The proofs about the allocator, for the pool of the target and for that of the
\* draft.
TB == INSTANCE BlockManagerProofs WITH
  Seqs <- Calls, Blocks <- TgtBlocks, MaxPins <- 0, TokenCounts <- Nat,
  free <- tFree, refCount <- tRef, live <- tLive, blockIds <- tIds, numTokens <- tNum,
  pins <- [b \in TgtBlocks |-> 0]

DB == INSTANCE BlockManagerProofs WITH
  Seqs <- Calls, Blocks <- DrfBlocks, MaxPins <- 0, TokenCounts <- Nat,
  free <- dFree, refCount <- dRef, live <- dLive, blockIds <- dIds, numTokens <- dNum,
  pins <- [b \in DrfBlocks |-> 0]

\* The allocator's own assumptions hold for both pools.
LEMMA TgtAssumptions == TB!BlockSizeAssumption /\ TB!TokenCountsAssumption /\ TB!MaxPinsAssumption
BY PoolsAssumption DEF TB!BlockSizeAssumption, TB!TokenCountsAssumption, TB!MaxPinsAssumption

LEMMA DrfAssumptions == DB!BlockSizeAssumption /\ DB!TokenCountsAssumption /\ DB!MaxPinsAssumption
BY PoolsAssumption DEF DB!BlockSizeAssumption, DB!TokenCountsAssumption, DB!MaxPinsAssumption

-----------------------------------------------------------------------------
\* The pool of the target is the one the proofs are about: the sets and lists are.
LEMMA TgtSets ==
  /\ \A S : TB!Cardinality(S) = Tgt!Cardinality(S) /\ TB!IsFiniteSet(S) = Tgt!IsFiniteSet(S)
  /\ \A S : TB!Cardinality(S) = Cardinality(S) /\ TB!IsFiniteSet(S) = IsFiniteSet(S)
  /\ \A f : TB!Range(f) = Tgt!Range(f) /\ TB!IsInjective(f) = Tgt!IsInjective(f)
  /\ \A f : TB!Range(f) = Range(f) /\ TB!IsInjective(f) = IsInjective(f)
  /\ \A S, T : TB!Injection(S, T) = Tgt!Injection(S, T)
BY DEF TB!Cardinality, Tgt!Cardinality, Cardinality, TB!IsFiniteSet, Tgt!IsFiniteSet, IsFiniteSet,
       TB!Range, Tgt!Range, Range, TB!IsInjective, Tgt!IsInjective, IsInjective, TB!Injection, Tgt!Injection

\* Their invariants are the same.
LEMMA TgtInv == (Tgt!BMInv <=> TB!BMInv) /\ (Tgt!BMInv' <=> TB!BMInv')
<1>1. Tgt!BMInv <=> TB!BMInv
  BY TgtSets DEF TB!BMInv, Tgt!BMInv, TB!BMTypeOK, Tgt!BMTypeOK, TB!Partition, Tgt!Partition,
    TB!RefExact, Tgt!RefExact, TB!TableInjective, Tgt!TableInjective, TB!Capacity, Tgt!Capacity,
    TB!Holders, Tgt!Holders, TB!TableBlocks, Tgt!TableBlocks, TB!TableCapacity, Tgt!TableCapacity
<1>2. Tgt!BMInv' <=> TB!BMInv'
  BY TgtSets DEF TB!BMInv, Tgt!BMInv, TB!BMTypeOK, Tgt!BMTypeOK, TB!Partition, Tgt!Partition,
    TB!RefExact, Tgt!RefExact, TB!TableInjective, Tgt!TableInjective, TB!Capacity, Tgt!Capacity,
    TB!Holders, Tgt!Holders, TB!TableBlocks, Tgt!TableBlocks, TB!TableCapacity, Tgt!TableCapacity
<1> QED BY <1>1, <1>2

\* So are the operations.
LEMMA TgtOperations ==
  /\ \A s, n, reuse : Tgt!Allocate(s, n, reuse) <=> TB!Allocate(s, n, reuse)
  /\ \A s, n : Tgt!Truncate(s, n) <=> TB!Truncate(s, n)
  /\ \A s : Tgt!Free(s) <=> TB!Free(s)
  /\ \A s, h, shared, n : Tgt!Extend(s, h, shared, n) <=> TB!Extend(s, h, shared, n)
  /\ \A s, n : Tgt!MissingBlocks(s, n) = TB!MissingBlocks(s, n)
  /\ \A n, reuse : Tgt!NewBlocks(n, reuse) = TB!NewBlocks(n, reuse)
<1>1. \A D : Tgt!DropRefs(D) <=> TB!DropRefs(D)
  BY DEF Tgt!DropRefs, TB!DropRefs
<1>2. \A D : Tgt!BumpRefs(D) = TB!BumpRefs(D)
  BY DEF Tgt!BumpRefs, TB!BumpRefs
<1>3. \A n : Tgt!FreshLists(n) = TB!FreshLists(n)
  BY TgtSets DEF Tgt!FreshLists, TB!FreshLists
<1>4. \A s, h, shared, n : Tgt!Extend(s, h, shared, n) <=> TB!Extend(s, h, shared, n)
  <2> TAKE s, h, shared, n
  <2>1. \A l : Tgt!Range(l) = TB!Range(l)
    BY TgtSets
  <2> QED BY <1>2, <1>3, <2>1, Zenon DEF Tgt!Extend, TB!Extend
<1>5. \A n : Tgt!BlocksNeeded(n) = TB!BlocksNeeded(n)
  BY DEF Tgt!BlocksNeeded, TB!BlocksNeeded
<1>6. \A n, reuse : Tgt!NewBlocks(n, reuse) = TB!NewBlocks(n, reuse)
  BY <1>5 DEF Tgt!NewBlocks, TB!NewBlocks
<1>7. \A s : Tgt!TableCapacity(s) = TB!TableCapacity(s) /\ Tgt!TableBlocks(s) = TB!TableBlocks(s)
  BY TgtSets DEF Tgt!TableCapacity, TB!TableCapacity, Tgt!TableBlocks, TB!TableBlocks
<1>8. \A s, n : Tgt!MissingBlocks(s, n) = TB!MissingBlocks(s, n)
  BY <1>5, <1>7 DEF Tgt!MissingBlocks, TB!MissingBlocks
<1>9. \A s : Tgt!Free(s) <=> TB!Free(s)
  BY <1>1, <1>7, Zenon DEF Tgt!Free, TB!Free
<1>10. \A s, n : Tgt!Truncate(s, n) <=> TB!Truncate(s, n)
  <2> TAKE s, n
  <2> QED BY <1>1, <1>5, Zenon DEF Tgt!Truncate, TB!Truncate
<1>11. \A s, n, reuse : Tgt!Allocate(s, n, reuse) <=> TB!Allocate(s, n, reuse)
  <2> TAKE s, n, reuse
  <2>1. Tgt!Range(reuse) = TB!Range(reuse)
    BY TgtSets
  <2> QED BY <1>4, <1>6, <2>1, Zenon DEF Tgt!Allocate, TB!Allocate
<1> QED BY <1>4, <1>6, <1>8, <1>9, <1>10, <1>11

\* The table of a sequence: distinct blocks with room for what is counted.
TgtTableOK(ids, n) ==
  /\ ids \in Seq(TgtBlocks) /\ IsInjective(ids)
  /\ n \in Nat /\ n <= Len(ids) * BlockSize

\* Every table is one, now and after a step that keeps the invariant.
LEMMA TgtTables ==
  /\ Tgt!BMInv => \A s \in tLive : s \in Calls /\ TgtTableOK(tIds[s], tNum[s])
  /\ Tgt!BMInv' => \A s \in tLive' : s \in Calls /\ TgtTableOK(tIds'[s], tNum'[s])
<1>1. \A f : Tgt!IsInjective(f) = IsInjective(f)
  BY TgtSets
<1> QED BY <1>1 DEF TgtTableOK, Tgt!BMInv, Tgt!BMTypeOK, Tgt!TableInjective, Tgt!Capacity, Tgt!TableCapacity

\* A forward pass keeps the blocks of the table, for any tokens that lead past what it counts.
LEMMA TgtForwards ==
  ASSUME Tgt!BMInv, seq \in tLive, NEW toks \in Seq(Tokens), NEW start \in Nat,
         tNum[seq] <= start + Len(toks), TgtForward(toks, start)
  PROVE  /\ Tgt!BMInv' /\ UNCHANGED tLive /\ tNum'[seq] = start + Len(toks)
         /\ Len(tIds[seq]) <= Len(tIds'[seq])
         /\ \A i \in 1..Len(tIds[seq]) : tIds'[seq][i] = tIds[seq][i]
         /\ tKV' = Stored(tKV, tIds'[seq], toks, start)
<1> DEFINE k == start + Len(toks)
           n == start + Len(toks) - tNum[seq]
<1>1. tNum[seq] \in Nat
  BY TgtTables DEF TgtTableOK
<1>2. k \in Nat /\ n \in Nat /\ k <= tNum[seq] + n
  BY <1>1, LenProperties
<1>3. /\ tNum' = [tNum EXCEPT ![seq] = k] /\ UNCHANGED tLive
      /\ tKV' = Stored(tKV, tIds'[seq], toks, start)
  BY DEF TgtForward
<1>4. Tgt!Extend(seq, tIds[seq], {}, Tgt!MissingBlocks(seq, n))
  BY DEF TgtForward, TgtMissing, Tgt!Extend
<1> HIDE DEF k, n
<1>5. TB!Extend(seq, tIds[seq], {}, TB!MissingBlocks(seq, n)) /\ TB!BMInv
  BY <1>4, TgtOperations, TgtInv
<1>6. UNCHANGED [b \in TgtBlocks |-> 0]
  OBVIOUS
<1>7. /\ TB!BMInv' /\ tNum'[seq] = k
      /\ Len(tIds[seq]) <= Len(tIds'[seq])
      /\ \A i \in 1..Len(tIds[seq]) : tIds'[seq][i] = tIds[seq][i]
  BY <1>2, <1>3, <1>5, <1>6, TgtAssumptions, TB!ForwardForClient
<1> QED BY <1>3, <1>7, TgtInv DEF k

\* A rollback keeps the head of the table.
LEMMA TgtTruncates ==
  ASSUME Tgt!BMInv, seq \in Calls, NEW n \in Nat, n <= tNum[seq], Tgt!Truncate(seq, n)
  PROVE  /\ Tgt!BMInv' /\ UNCHANGED tLive /\ tNum'[seq] = n
         /\ Len(tIds'[seq]) <= Len(tIds[seq])
         /\ \A i \in 1..Len(tIds'[seq]) : tIds'[seq][i] = tIds[seq][i]
<1>1. TB!Truncate(seq, n) /\ TB!BMInv
  BY TgtOperations, TgtInv
<1>2. /\ TB!BMInv' /\ UNCHANGED tLive /\ tNum'[seq] = n
      /\ Len(tIds'[seq]) <= Len(tIds[seq])
      /\ \A i \in 1..Len(tIds'[seq]) : tIds'[seq][i] = tIds[seq][i]
  BY <1>1, TgtAssumptions, TB!TruncateForClient
<1> QED BY <1>2, TgtInv

\* An allocation made had the blocks, and counts the tokens it is made for.
LEMMA TgtAllocates ==
  ASSUME Tgt!BMInv, seq \in Calls, NEW n \in Nat, Tgt!Allocate(seq, n, <<>>)
  PROVE  /\ Tgt!BMInv' /\ tLive' = tLive \cup {seq} /\ tNum'[seq] = n
         /\ Tgt!NewBlocks(n, <<>>) <= Cardinality(tFree)
<1>1. TB!Allocate(seq, n, <<>>) /\ TB!BMInv
  BY TgtOperations, TgtInv
<1>2. <<>> \in TB!ReuseLists(n)
  BY TgtAssumptions, TB!EmptyReuse
<1>3. TB!BMInv' /\ tLive' = tLive \cup {seq} /\ tNum'[seq] = n
  BY <1>1, <1>2, TgtAssumptions, TB!AllocateForClient
<1>4. TB!IsFiniteSet(TgtBlocks)
  BY PoolsAssumption, TgtSets
<1>5. TB!NewBlocks(n, <<>>) <= TB!Cardinality(tFree)
  BY <1>1, <1>4, TgtAssumptions, TB!AllocationFits
<1>6. TB!Cardinality(tFree) = Cardinality(tFree)
  BY TgtSets
<1> QED BY <1>3, <1>5, <1>6, TgtInv, TgtOperations

\* The table of a call that ends is taken away.
LEMMA TgtFrees ==
  ASSUME Tgt!BMInv, seq \in Calls, Tgt!Free(seq)
  PROVE  Tgt!BMInv' /\ tLive' = tLive \ {seq}
<1>1. TB!Free(seq) /\ TB!BMInv
  BY TgtOperations, TgtInv
<1>2. TB!BMInv' /\ tLive' = tLive \ {seq}
  BY <1>1, TgtAssumptions, TB!FreeForClient
<1> QED BY <1>2, TgtInv

\* A pool nobody touches keeps its invariant.
LEMMA TgtRests == ASSUME Tgt!BMInv, UNCHANGED tPool PROVE Tgt!BMInv'
<1>1. [TB!BMNext]_(TB!bmVars) /\ TB!BMInv
  BY TgtInv DEF tPool, TB!bmVars
<1>2. TB!BMInv'
  BY <1>1, TgtAssumptions, TB!NextInv
<1> QED BY <1>2, TgtInv

\* It is empty before anything is allocated, and whole when nobody has a table.
LEMMA TgtWhole ==
  /\ Tgt!BMInit => Tgt!BMInv
  /\ Tgt!BMInv /\ tLive = {} => tFree = TgtBlocks
<1>1. Tgt!BMInit => TB!BMInit
  BY DEF Tgt!BMInit, TB!BMInit
<1>2. TB!BMInit => TB!BMInv
  BY TgtAssumptions, TB!InitInv
<1>3. TB!BMInv => TB!NoLeak
  BY TgtAssumptions, TB!WholePool
<1>4. \A b \in TgtBlocks : [c \in TgtBlocks |-> 0][b] = 0
  OBVIOUS
<1> QED BY <1>1, <1>2, <1>3, <1>4, TgtInv DEF TB!NoLeak

-----------------------------------------------------------------------------
\* The pool of the draft is the one the proofs are about: the sets and lists are.
LEMMA DrfSets ==
  /\ \A S : DB!Cardinality(S) = Drf!Cardinality(S) /\ DB!IsFiniteSet(S) = Drf!IsFiniteSet(S)
  /\ \A S : DB!Cardinality(S) = Cardinality(S) /\ DB!IsFiniteSet(S) = IsFiniteSet(S)
  /\ \A f : DB!Range(f) = Drf!Range(f) /\ DB!IsInjective(f) = Drf!IsInjective(f)
  /\ \A f : DB!Range(f) = Range(f) /\ DB!IsInjective(f) = IsInjective(f)
  /\ \A S, T : DB!Injection(S, T) = Drf!Injection(S, T)
BY DEF DB!Cardinality, Drf!Cardinality, Cardinality, DB!IsFiniteSet, Drf!IsFiniteSet, IsFiniteSet,
       DB!Range, Drf!Range, Range, DB!IsInjective, Drf!IsInjective, IsInjective, DB!Injection, Drf!Injection

\* Their invariants are the same.
LEMMA DrfInv == (Drf!BMInv <=> DB!BMInv) /\ (Drf!BMInv' <=> DB!BMInv')
<1>1. Drf!BMInv <=> DB!BMInv
  BY DrfSets DEF DB!BMInv, Drf!BMInv, DB!BMTypeOK, Drf!BMTypeOK, DB!Partition, Drf!Partition,
    DB!RefExact, Drf!RefExact, DB!TableInjective, Drf!TableInjective, DB!Capacity, Drf!Capacity,
    DB!Holders, Drf!Holders, DB!TableBlocks, Drf!TableBlocks, DB!TableCapacity, Drf!TableCapacity
<1>2. Drf!BMInv' <=> DB!BMInv'
  BY DrfSets DEF DB!BMInv, Drf!BMInv, DB!BMTypeOK, Drf!BMTypeOK, DB!Partition, Drf!Partition,
    DB!RefExact, Drf!RefExact, DB!TableInjective, Drf!TableInjective, DB!Capacity, Drf!Capacity,
    DB!Holders, Drf!Holders, DB!TableBlocks, Drf!TableBlocks, DB!TableCapacity, Drf!TableCapacity
<1> QED BY <1>1, <1>2

\* So are the operations.
LEMMA DrfOperations ==
  /\ \A s, n, reuse : Drf!Allocate(s, n, reuse) <=> DB!Allocate(s, n, reuse)
  /\ \A s, n : Drf!Truncate(s, n) <=> DB!Truncate(s, n)
  /\ \A s : Drf!Free(s) <=> DB!Free(s)
  /\ \A s, h, shared, n : Drf!Extend(s, h, shared, n) <=> DB!Extend(s, h, shared, n)
  /\ \A s, n : Drf!MissingBlocks(s, n) = DB!MissingBlocks(s, n)
  /\ \A n, reuse : Drf!NewBlocks(n, reuse) = DB!NewBlocks(n, reuse)
<1>1. \A D : Drf!DropRefs(D) <=> DB!DropRefs(D)
  BY DEF Drf!DropRefs, DB!DropRefs
<1>2. \A D : Drf!BumpRefs(D) = DB!BumpRefs(D)
  BY DEF Drf!BumpRefs, DB!BumpRefs
<1>3. \A n : Drf!FreshLists(n) = DB!FreshLists(n)
  BY DrfSets DEF Drf!FreshLists, DB!FreshLists
<1>4. \A s, h, shared, n : Drf!Extend(s, h, shared, n) <=> DB!Extend(s, h, shared, n)
  <2> TAKE s, h, shared, n
  <2>1. \A l : Drf!Range(l) = DB!Range(l)
    BY DrfSets
  <2> QED BY <1>2, <1>3, <2>1, Zenon DEF Drf!Extend, DB!Extend
<1>5. \A n : Drf!BlocksNeeded(n) = DB!BlocksNeeded(n)
  BY DEF Drf!BlocksNeeded, DB!BlocksNeeded
<1>6. \A n, reuse : Drf!NewBlocks(n, reuse) = DB!NewBlocks(n, reuse)
  BY <1>5 DEF Drf!NewBlocks, DB!NewBlocks
<1>7. \A s : Drf!TableCapacity(s) = DB!TableCapacity(s) /\ Drf!TableBlocks(s) = DB!TableBlocks(s)
  BY DrfSets DEF Drf!TableCapacity, DB!TableCapacity, Drf!TableBlocks, DB!TableBlocks
<1>8. \A s, n : Drf!MissingBlocks(s, n) = DB!MissingBlocks(s, n)
  BY <1>5, <1>7 DEF Drf!MissingBlocks, DB!MissingBlocks
<1>9. \A s : Drf!Free(s) <=> DB!Free(s)
  BY <1>1, <1>7, Zenon DEF Drf!Free, DB!Free
<1>10. \A s, n : Drf!Truncate(s, n) <=> DB!Truncate(s, n)
  <2> TAKE s, n
  <2> QED BY <1>1, <1>5, Zenon DEF Drf!Truncate, DB!Truncate
<1>11. \A s, n, reuse : Drf!Allocate(s, n, reuse) <=> DB!Allocate(s, n, reuse)
  <2> TAKE s, n, reuse
  <2>1. Drf!Range(reuse) = DB!Range(reuse)
    BY DrfSets
  <2> QED BY <1>4, <1>6, <2>1, Zenon DEF Drf!Allocate, DB!Allocate
<1> QED BY <1>4, <1>6, <1>8, <1>9, <1>10, <1>11

\* The table of a sequence: distinct blocks with room for what is counted.
DrfTableOK(ids, n) ==
  /\ ids \in Seq(DrfBlocks) /\ IsInjective(ids)
  /\ n \in Nat /\ n <= Len(ids) * BlockSize

\* Every table is one, now and after a step that keeps the invariant.
LEMMA DrfTables ==
  /\ Drf!BMInv => \A s \in dLive : s \in Calls /\ DrfTableOK(dIds[s], dNum[s])
  /\ Drf!BMInv' => \A s \in dLive' : s \in Calls /\ DrfTableOK(dIds'[s], dNum'[s])
<1>1. \A f : Drf!IsInjective(f) = IsInjective(f)
  BY DrfSets
<1> QED BY <1>1 DEF DrfTableOK, Drf!BMInv, Drf!BMTypeOK, Drf!TableInjective, Drf!Capacity, Drf!TableCapacity

\* A forward pass keeps the blocks of the table, for any tokens that lead past what it counts.
LEMMA DrfForwards ==
  ASSUME Drf!BMInv, seq \in dLive, NEW toks \in Seq(Tokens), NEW start \in Nat,
         dNum[seq] <= start + Len(toks), DrfForward(toks, start)
  PROVE  /\ Drf!BMInv' /\ UNCHANGED dLive /\ dNum'[seq] = start + Len(toks)
         /\ Len(dIds[seq]) <= Len(dIds'[seq])
         /\ \A i \in 1..Len(dIds[seq]) : dIds'[seq][i] = dIds[seq][i]
         /\ dKV' = Stored(dKV, dIds'[seq], toks, start)
<1> DEFINE k == start + Len(toks)
           n == start + Len(toks) - dNum[seq]
<1>1. dNum[seq] \in Nat
  BY DrfTables DEF DrfTableOK
<1>2. k \in Nat /\ n \in Nat /\ k <= dNum[seq] + n
  BY <1>1, LenProperties
<1>3. /\ dNum' = [dNum EXCEPT ![seq] = k] /\ UNCHANGED dLive
      /\ dKV' = Stored(dKV, dIds'[seq], toks, start)
  BY DEF DrfForward
<1>4. Drf!Extend(seq, dIds[seq], {}, Drf!MissingBlocks(seq, n))
  BY DEF DrfForward, DrfMissing, Drf!Extend
<1> HIDE DEF k, n
<1>5. DB!Extend(seq, dIds[seq], {}, DB!MissingBlocks(seq, n)) /\ DB!BMInv
  BY <1>4, DrfOperations, DrfInv
<1>6. UNCHANGED [b \in DrfBlocks |-> 0]
  OBVIOUS
<1>7. /\ DB!BMInv' /\ dNum'[seq] = k
      /\ Len(dIds[seq]) <= Len(dIds'[seq])
      /\ \A i \in 1..Len(dIds[seq]) : dIds'[seq][i] = dIds[seq][i]
  BY <1>2, <1>3, <1>5, <1>6, DrfAssumptions, DB!ForwardForClient
<1> QED BY <1>3, <1>7, DrfInv DEF k

\* A rollback keeps the head of the table.
LEMMA DrfTruncates ==
  ASSUME Drf!BMInv, seq \in Calls, NEW n \in Nat, n <= dNum[seq], Drf!Truncate(seq, n)
  PROVE  /\ Drf!BMInv' /\ UNCHANGED dLive /\ dNum'[seq] = n
         /\ Len(dIds'[seq]) <= Len(dIds[seq])
         /\ \A i \in 1..Len(dIds'[seq]) : dIds'[seq][i] = dIds[seq][i]
<1>1. DB!Truncate(seq, n) /\ DB!BMInv
  BY DrfOperations, DrfInv
<1>2. /\ DB!BMInv' /\ UNCHANGED dLive /\ dNum'[seq] = n
      /\ Len(dIds'[seq]) <= Len(dIds[seq])
      /\ \A i \in 1..Len(dIds'[seq]) : dIds'[seq][i] = dIds[seq][i]
  BY <1>1, DrfAssumptions, DB!TruncateForClient
<1> QED BY <1>2, DrfInv

\* An allocation made had the blocks, and counts the tokens it is made for.
LEMMA DrfAllocates ==
  ASSUME Drf!BMInv, seq \in Calls, NEW n \in Nat, Drf!Allocate(seq, n, <<>>)
  PROVE  /\ Drf!BMInv' /\ dLive' = dLive \cup {seq} /\ dNum'[seq] = n
         /\ Drf!NewBlocks(n, <<>>) <= Cardinality(dFree)
<1>1. DB!Allocate(seq, n, <<>>) /\ DB!BMInv
  BY DrfOperations, DrfInv
<1>2. <<>> \in DB!ReuseLists(n)
  BY DrfAssumptions, DB!EmptyReuse
<1>3. DB!BMInv' /\ dLive' = dLive \cup {seq} /\ dNum'[seq] = n
  BY <1>1, <1>2, DrfAssumptions, DB!AllocateForClient
<1>4. DB!IsFiniteSet(DrfBlocks)
  BY PoolsAssumption, DrfSets
<1>5. DB!NewBlocks(n, <<>>) <= DB!Cardinality(dFree)
  BY <1>1, <1>4, DrfAssumptions, DB!AllocationFits
<1>6. DB!Cardinality(dFree) = Cardinality(dFree)
  BY DrfSets
<1> QED BY <1>3, <1>5, <1>6, DrfInv, DrfOperations

\* The table of a call that ends is taken away.
LEMMA DrfFrees ==
  ASSUME Drf!BMInv, seq \in Calls, Drf!Free(seq)
  PROVE  Drf!BMInv' /\ dLive' = dLive \ {seq}
<1>1. DB!Free(seq) /\ DB!BMInv
  BY DrfOperations, DrfInv
<1>2. DB!BMInv' /\ dLive' = dLive \ {seq}
  BY <1>1, DrfAssumptions, DB!FreeForClient
<1> QED BY <1>2, DrfInv

\* A pool nobody touches keeps its invariant.
LEMMA DrfRests == ASSUME Drf!BMInv, UNCHANGED dPool PROVE Drf!BMInv'
<1>1. [DB!BMNext]_(DB!bmVars) /\ DB!BMInv
  BY DrfInv DEF dPool, DB!bmVars
<1>2. DB!BMInv'
  BY <1>1, DrfAssumptions, DB!NextInv
<1> QED BY <1>2, DrfInv

\* It is empty before anything is allocated, and whole when nobody has a table.
LEMMA DrfWhole ==
  /\ Drf!BMInit => Drf!BMInv
  /\ Drf!BMInv /\ dLive = {} => dFree = DrfBlocks
<1>1. Drf!BMInit => DB!BMInit
  BY DEF Drf!BMInit, DB!BMInit
<1>2. DB!BMInit => DB!BMInv
  BY DrfAssumptions, DB!InitInv
<1>3. DB!BMInv => DB!NoLeak
  BY DrfAssumptions, DB!WholePool
<1>4. \A b \in DrfBlocks : [c \in DrfBlocks |-> 0][b] = 0
  OBVIOUS
<1> QED BY <1>1, <1>2, <1>3, <1>4, DrfInv DEF DB!NoLeak

-----------------------------------------------------------------------------
\* The list s without what follows its first n elements, and joined to what
\* comes before it.
LEMMA JoinProperties ==
  ASSUME NEW T, NEW x \in Seq(T), NEW s \in Seq(T)
  PROVE  /\ x \o s \in Seq(T) /\ Len(x \o s) = Len(x) + Len(s)
         /\ Len(x) \in Nat /\ Len(s) \in Nat
         /\ \A i \in 1..Len(x) : (x \o s)[i] = x[i]
         /\ \A i \in 1..Len(s) : (x \o s)[Len(x) + i] = s[i]
<1>1. /\ x \o s \in Seq(T) /\ Len(x \o s) = Len(x) + Len(s)
      /\ \A i \in 1..Len(x) + Len(s) : (x \o s)[i] = IF i <= Len(x) THEN x[i] ELSE s[i - Len(x)]
  BY ConcatProperties
<1>2. Len(x) \in Nat /\ Len(s) \in Nat
  BY LenProperties
<1>3. ASSUME NEW i \in 1..Len(s) PROVE (x \o s)[Len(x) + i] = s[i]
  <2>1. Len(x) + i \in 1..Len(x) + Len(s) /\ ~(Len(x) + i <= Len(x)) /\ (Len(x) + i) - Len(x) = i
    BY <1>2
  <2> QED BY <1>1, <2>1
<1> QED BY <1>1, <1>2, <1>3

\* Both ends of a cut in a joined list.
LEMMA CutJoin ==
  ASSUME NEW T, NEW x \in Seq(T), NEW s \in Seq(T)
  PROVE  /\ \A n \in 0..Len(x) : SubSeq(x \o s, 1, n) = SubSeq(x, 1, n)
         /\ \A n \in 0..Len(s) : SubSeq(x \o s, 1, Len(x) + n) = x \o SubSeq(s, 1, n)
<1>1. /\ x \o s \in Seq(T) /\ Len(x \o s) = Len(x) + Len(s) /\ Len(x) \in Nat /\ Len(s) \in Nat
      /\ \A i \in 1..Len(x) : (x \o s)[i] = x[i]
      /\ \A i \in 1..Len(s) : (x \o s)[Len(x) + i] = s[i]
  BY JoinProperties
<1>2. \A n \in 0..Len(x \o s) : /\ SubSeq(x \o s, 1, n) \in Seq(T) /\ Len(SubSeq(x \o s, 1, n)) = n
                                /\ \A i \in 1..n : SubSeq(x \o s, 1, n)[i] = (x \o s)[i]
  BY <1>1, PrefixProperties
<1>3. ASSUME NEW n \in 0..Len(x) PROVE SubSeq(x \o s, 1, n) = SubSeq(x, 1, n)
  <2>1. /\ SubSeq(x, 1, n) \in Seq(T) /\ Len(SubSeq(x, 1, n)) = n
        /\ \A i \in 1..n : SubSeq(x, 1, n)[i] = x[i]
    BY PrefixProperties
  <2>2. n \in 0..Len(x \o s) /\ \A i \in 1..n : i \in 1..Len(x)
    BY <1>1
  <2>3. \A i \in 1..n : SubSeq(x \o s, 1, n)[i] = SubSeq(x, 1, n)[i]
    BY <1>1, <1>2, <2>1, <2>2
  <2> QED BY <1>2, <2>1, <2>2, <2>3, SeqEqual
<1>4. ASSUME NEW n \in 0..Len(s) PROVE SubSeq(x \o s, 1, Len(x) + n) = x \o SubSeq(s, 1, n)
  <2>1. PICK h \in Seq(T) : h = SubSeq(s, 1, n) /\ Len(h) = n /\ \A i \in 1..n : h[i] = s[i]
    BY PrefixProperties
  <2>2. /\ x \o h \in Seq(T) /\ Len(x \o h) = Len(x) + n
        /\ \A i \in 1..Len(x) : (x \o h)[i] = x[i]
        /\ \A i \in 1..n : (x \o h)[Len(x) + i] = h[i]
    <3>1. /\ x \o h \in Seq(T) /\ Len(x \o h) = Len(x) + Len(h)
          /\ \A i \in 1..Len(x) : (x \o h)[i] = x[i]
          /\ \A i \in 1..Len(h) : (x \o h)[Len(x) + i] = h[i]
      BY JoinProperties
    <3> QED BY <2>1, <3>1
  <2>3. PICK m \in 0..Len(x \o s) : m = Len(x) + n
    BY <1>1
  <2>4. ASSUME NEW i \in 1..m PROVE SubSeq(x \o s, 1, m)[i] = (x \o h)[i]
    <3>1. SubSeq(x \o s, 1, m)[i] = (x \o s)[i]
      BY <1>2
    <3>2. CASE i <= Len(x)
      BY <1>1, <2>2, <3>1, <3>2
    <3>3. CASE ~(i <= Len(x))
      <4>1. PICK j \in 1..n : i = Len(x) + j
        <5>1. i - Len(x) \in 1..n /\ i = Len(x) + (i - Len(x))
          BY <1>1, <2>3, <3>3
        <5> QED BY <5>1
      <4>2. j \in 1..Len(s)
        BY <1>1
      <4> QED BY <1>1, <2>1, <2>2, <3>1, <4>1, <4>2
    <3> QED BY <3>2, <3>3
  <2>5. SubSeq(x \o s, 1, m) = x \o h
    BY <1>2, <2>2, <2>3, <2>4, SeqEqual
  <2> QED BY <2>1, <2>3, <2>5
<1> QED BY <1>3, <1>4

\* A list grows by one element at a time.
LEMMA GrowPrefix ==
  ASSUME NEW T, NEW x \in Seq(T), NEW s \in Seq(T), NEW n \in 1..Len(s)
  PROVE  /\ (x \o SubSeq(s, 1, n - 1)) \o <<s[n]>> = x \o SubSeq(s, 1, n)
         /\ SubSeq(s, 1, n - 1) \o <<s[n]>> = SubSeq(s, 1, n)
<1>1. Len(s) \in Nat /\ n - 1 \in 0..Len(s) /\ n \in 0..Len(s)
  BY LenProperties
<1>2. SubSeq(s, 1, n - 1) \in Seq(T) /\ s[n] \in T
  BY <1>1, PrefixProperties, ElementOfSeq
<1>3. SubSeq(s, 1, n) = SubSeq(s, 1, n - 1) \o <<s[n]>>
  <2>1. 1 \in 1..Len(s) /\ n \in 1..Len(s)
    BY <1>1
  <2> QED BY <2>1, SubSeqRecursiveSecond
<1>4. <<s[n]>> \in Seq(T)
  BY <1>2
<1>5. Regroups(x, SubSeq(s, 1, n - 1), <<s[n]>>)
  BY <1>2, <1>4, Joined
<1> QED BY <1>3, <1>5 DEF Regroups

-----------------------------------------------------------------------------
\* A cache has a slot at every offset of every block.
Shaped(kv, B) == DOMAIN kv = B /\ \A b \in B : DOMAIN kv[b] = 0..(BlockSize - 1)

\* The first n positions of a table have slots of their own in the cache.
Apart(kv, ids, n) ==
  \A p \in 0..(n - 1) :
    /\ Tgt!Slot(ids, p)[1] \in DOMAIN kv /\ Tgt!Slot(ids, p)[2] \in DOMAIN kv[Tgt!Slot(ids, p)[1]]
    /\ Tgt!Slot(ids, p) = <<Tgt!Slot(ids, p)[1], Tgt!Slot(ids, p)[2]>>
    /\ \A r \in 0..(n - 1) : Tgt!Slot(ids, r) = Tgt!Slot(ids, p) => r = p

\* The cache holds the context, and only it: its tokens are all that is counted.
Cached(kv, ids, num, context) == num = Len(context) /\ Holds(kv, ids, context, Len(context))

\* The slots of a block table are apart, in either pool.
LEMMA SlotsApart ==
  ASSUME NEW kv, NEW ids, NEW n
  PROVE  /\ Shaped(kv, TgtBlocks) /\ TgtTableOK(ids, n) => Apart(kv, ids, n)
         /\ Shaped(kv, DrfBlocks) /\ DrfTableOK(ids, n) => Apart(kv, ids, n)
<1>1. ASSUME Shaped(kv, TgtBlocks), TgtTableOK(ids, n) PROVE Apart(kv, ids, n)
  <2>1. /\ ids \in Seq(TgtBlocks) /\ TB!IsInjective(ids)
        /\ n \in Nat /\ n <= Len(ids) * BlockSize /\ Len(ids) * BlockSize \in Nat
    BY <1>1, TgtSets, LenProperties, PoolsAssumption DEF TgtTableOK
  <2>2. \A p \in 0..(n - 1) : p \in Nat /\ p < Len(ids) * BlockSize
    BY <2>1
  <2>3. \A p : TB!Slot(ids, p) = Tgt!Slot(ids, p)
    BY DEF TB!Slot, Tgt!Slot
  <2>4. ASSUME NEW p \in 0..(n - 1)
        PROVE  /\ Tgt!Slot(ids, p)[1] \in TgtBlocks /\ Tgt!Slot(ids, p)[2] \in 0..(BlockSize - 1)
               /\ Tgt!Slot(ids, p) = <<Tgt!Slot(ids, p)[1], Tgt!Slot(ids, p)[2]>>
    BY <2>1, <2>2, <2>3, TgtAssumptions, TB!SlotOfList
  <2>5. ASSUME NEW p \in 0..(n - 1), NEW r \in 0..(n - 1), Tgt!Slot(ids, r) = Tgt!Slot(ids, p) PROVE r = p
    BY <2>1, <2>2, <2>3, <2>5, TgtAssumptions, TB!SlotsOfList
  <2> QED BY <1>1, <2>4, <2>5 DEF Apart, Shaped
<1>2. ASSUME Shaped(kv, DrfBlocks), DrfTableOK(ids, n) PROVE Apart(kv, ids, n)
  <2>1. /\ ids \in Seq(DrfBlocks) /\ DB!IsInjective(ids)
        /\ n \in Nat /\ n <= Len(ids) * BlockSize /\ Len(ids) * BlockSize \in Nat
    BY <1>2, DrfSets, LenProperties, PoolsAssumption DEF DrfTableOK
  <2>2. \A p \in 0..(n - 1) : p \in Nat /\ p < Len(ids) * BlockSize
    BY <2>1
  <2>3. \A p : DB!Slot(ids, p) = Tgt!Slot(ids, p)
    BY DEF DB!Slot, Tgt!Slot
  <2>4. ASSUME NEW p \in 0..(n - 1)
        PROVE  /\ Tgt!Slot(ids, p)[1] \in DrfBlocks /\ Tgt!Slot(ids, p)[2] \in 0..(BlockSize - 1)
               /\ Tgt!Slot(ids, p) = <<Tgt!Slot(ids, p)[1], Tgt!Slot(ids, p)[2]>>
    BY <2>1, <2>2, <2>3, DrfAssumptions, DB!SlotOfList
  <2>5. ASSUME NEW p \in 0..(n - 1), NEW r \in 0..(n - 1), Tgt!Slot(ids, r) = Tgt!Slot(ids, p) PROVE r = p
    BY <2>1, <2>2, <2>3, <2>5, DrfAssumptions, DB!SlotsOfList
  <2> QED BY <1>2, <2>4, <2>5 DEF Apart, Shaped
<1> QED BY <1>1, <1>2

\* The slots of a table that keeps its head stay where they are.
LEMMA SlotsStay ==
  ASSUME NEW B, NEW ids \in Seq(B), NEW later, NEW n \in Nat, n <= Len(ids) * BlockSize,
         \A i \in 1..Len(ids) : later[i] = ids[i]
  PROVE  \A p \in 0..(n - 1) : Tgt!Slot(later, p) = Tgt!Slot(ids, p)
<1> SUFFICES ASSUME NEW p \in 0..(n - 1) PROVE Tgt!Slot(later, p) = Tgt!Slot(ids, p)
  OBVIOUS
<1>1. Len(ids) \in Nat /\ p \in Nat /\ p < Len(ids) * BlockSize
  <2>1. Len(ids) \in Nat /\ Len(ids) * BlockSize \in Nat
    BY LenProperties, PoolsAssumption
  <2> QED BY <2>1
<1>2. (p \div BlockSize) + 1 \in 1..Len(ids)
  BY <1>1, TgtAssumptions, TB!PositionInTable
<1> QED BY <1>2 DEF Tgt!Slot

\* The row of a token is computed from the context up to it.
LEMMA RowReads ==
  ASSUME NEW kv, NEW ids, NEW c \in Seq(Tokens), NEW toks \in Seq(Tokens), Holds(kv, ids, c, Len(c))
  PROVE  \A j \in 0..Len(toks) : Row(kv, ids, toks, Len(c), j) = c \o SubSeq(toks, 1, j)
<1> SUFFICES ASSUME NEW j \in 0..Len(toks) PROVE Row(kv, ids, toks, Len(c), j) = c \o SubSeq(toks, 1, j)
  OBVIOUS
<1>1. Len(c) \in Nat
  BY LenProperties
<1>2. CASE c = <<>>
  <2>1. Len(c) = 0
    BY <1>2
  <2> QED BY <1>2, <2>1 DEF Row
<1>3. CASE c # <<>>
  <2>1. Len(c) # 0 /\ Len(c) - 1 \in 0..(Len(c) - 1) /\ (Len(c) - 1) + 1 = Len(c)
    BY <1>1, <1>3, EmptySeq
  <2>2. kv[Tgt!Slot(ids, Len(c) - 1)[1]][Tgt!Slot(ids, Len(c) - 1)[2]] = SubSeq(c, 1, Len(c))
    BY <2>1 DEF Holds
  <2>3. SubSeq(c, 1, Len(c)) = c
    BY SubSeqFull
  <2> QED BY <2>1, <2>2, <2>3 DEF Row
<1> QED BY <1>2, <1>3

\* What a forward pass stores: the slots of its tokens get their contexts, those
\* of the tokens before them keep theirs.
LEMMA StoredCaches ==
  ASSUME NEW kv, NEW ids, NEW c \in Seq(Tokens), NEW toks \in Seq(Tokens),
         Holds(kv, ids, c, Len(c)), Apart(kv, ids, Len(c \o toks))
  PROVE  Holds(Stored(kv, ids, toks, Len(c)), ids, c \o toks, Len(c \o toks))
<1> DEFINE new == Stored(kv, ids, toks, Len(c))
           hits(b, o) == {j \in 1..Len(toks) : Tgt!Slot(ids, Len(c) + j - 1) = <<b, o>>}
<1>1. /\ c \o toks \in Seq(Tokens) /\ Len(c \o toks) = Len(c) + Len(toks)
      /\ Len(c) \in Nat /\ Len(toks) \in Nat
  BY JoinProperties
<1> SUFFICES ASSUME NEW p \in 0..(Len(c) + Len(toks) - 1), NEW b, NEW o, b = Tgt!Slot(ids, p)[1], o = Tgt!Slot(ids, p)[2]
             PROVE  new[b][o] = SubSeq(c \o toks, 1, p + 1)
  BY <1>1 DEF Holds
<1>2. /\ b \in DOMAIN kv /\ o \in DOMAIN kv[b] /\ Tgt!Slot(ids, p) = <<b, o>>
      /\ \A r \in 0..(Len(c) + Len(toks) - 1) : Tgt!Slot(ids, r) = <<b, o>> => r = p
  BY <1>1 DEF Apart
<1>3. new[b][o] = IF hits(b, o) = {} THEN kv[b][o] ELSE Row(kv, ids, toks, Len(c), Max(hits(b, o)))
  BY <1>2 DEF Stored
<1>4. \A j \in hits(b, o) : j \in 1..Len(toks) /\ Len(c) + j - 1 = p
  <2> TAKE j \in hits(b, o)
  <2>1. j \in 1..Len(toks) /\ Tgt!Slot(ids, Len(c) + j - 1) = <<b, o>>
    OBVIOUS
  <2>2. Len(c) + j - 1 \in 0..(Len(c) + Len(toks) - 1)
    BY <1>1, <2>1
  <2> QED BY <1>2, <2>1, <2>2
<1>5. CASE p < Len(c)
  <2>1. hits(b, o) = {}
    BY <1>1, <1>4, <1>5
  <2>2. kv[b][o] = SubSeq(c, 1, p + 1)
    <3>1. p \in 0..(Len(c) - 1)
      BY <1>1, <1>5
    <3>2. kv[Tgt!Slot(ids, p)[1]][Tgt!Slot(ids, p)[2]] = SubSeq(c, 1, p + 1)
      BY <3>1 DEF Holds
    <3> QED BY <3>2
  <2>3. p + 1 \in 0..Len(c)
    BY <1>1, <1>5
  <2>4. SubSeq(c \o toks, 1, p + 1) = SubSeq(c, 1, p + 1)
    BY <2>3, CutJoin
  <2> HIDE DEF new, hits
  <2> QED BY <1>3, <2>1, <2>2, <2>4
<1>6. CASE ~(p < Len(c))
  <2>1. PICK j \in 1..Len(toks) : Len(c) + j - 1 = p /\ p + 1 = Len(c) + j
    <3>1. p + 1 - Len(c) \in 1..Len(toks) /\ Len(c) + (p + 1 - Len(c)) - 1 = p
      BY <1>1, <1>6
    <3>2. p + 1 = Len(c) + (p + 1 - Len(c))
      BY <1>1
    <3> QED BY <3>1, <3>2
  <2>2. hits(b, o) = {j}
    <3>1. j \in hits(b, o)
      BY <1>2, <2>1
    <3>2. \A i \in hits(b, o) : i = j
      BY <1>1, <1>4, <2>1
    <3> QED BY <3>1, <3>2
  <2>3. Max({j}) = j
    BY DEF Max
  <2>4. new[b][o] = Row(kv, ids, toks, Len(c), j)
    <3> HIDE DEF new, hits
    <3> QED BY <1>3, <2>2, <2>3
  <2>5. Row(kv, ids, toks, Len(c), j) = c \o SubSeq(toks, 1, j)
    BY RowReads
  <2>6. SubSeq(c \o toks, 1, Len(c) + j) = c \o SubSeq(toks, 1, j)
    BY CutJoin
  <2> HIDE DEF new
  <2> QED BY <2>1, <2>4, <2>5, <2>6
<1> QED BY <1>5, <1>6

\* The cache keeps its shape.
LEMMA StoredShape ==
  ASSUME NEW kv, NEW B, NEW ids, NEW toks, NEW start, Shaped(kv, B)
  PROVE  Shaped(Stored(kv, ids, toks, start), B)
BY DEF Shaped, Stored

\* What is held is held in a table with the same slots, and of less of the context.
LEMMA HoldsLess ==
  ASSUME NEW kv, NEW ids, NEW later, NEW c \in Seq(Tokens), NEW s \in Seq(Tokens),
         Holds(kv, ids, c \o s, Len(c \o s)),
         \A p \in 0..(Len(c) - 1) : Tgt!Slot(later, p) = Tgt!Slot(ids, p)
  PROVE  Holds(kv, later, c, Len(c))
<1>1. Len(c \o s) = Len(c) + Len(s) /\ Len(c) \in Nat /\ Len(s) \in Nat
  BY JoinProperties
<1> SUFFICES ASSUME NEW p \in 0..(Len(c) - 1)
             PROVE  kv[Tgt!Slot(later, p)[1]][Tgt!Slot(later, p)[2]] = SubSeq(c, 1, p + 1)
  BY DEF Holds
<1>2. p \in 0..(Len(c \o s) - 1) /\ p + 1 \in 0..Len(c)
  BY <1>1
<1>3. kv[Tgt!Slot(ids, p)[1]][Tgt!Slot(ids, p)[2]] = SubSeq(c \o s, 1, p + 1)
  BY <1>2 DEF Holds
<1>4. SubSeq(c \o s, 1, p + 1) = SubSeq(c, 1, p + 1)
  BY <1>2, CutJoin
<1> QED BY <1>3, <1>4

\* A forward pass of the target model that follows what is cached leaves the
\* tokens cached after it, and computes each row from the context up to its token.
LEMMA TgtFeeds ==
  ASSUME Tgt!BMInv, seq \in tLive, Shaped(tKV, TgtBlocks),
         NEW c \in Seq(Tokens), NEW toks \in Seq(Tokens),
         Len(c) <= tNum[seq], tNum[seq] <= Len(c) + Len(toks),
         Holds(tKV, tIds[seq], c, Len(c)), NEW start, start = Len(c), TgtForward(toks, start)
  PROVE  /\ Tgt!BMInv' /\ UNCHANGED tLive /\ Shaped(tKV', TgtBlocks)
         /\ Cached(tKV', tIds'[seq], tNum'[seq], c \o toks)
         /\ \A j \in 0..Len(toks) : TgtRow(toks, start, j) = c \o SubSeq(toks, 1, j)
<1>1. Len(c \o toks) = Len(c) + Len(toks) /\ Len(c) \in Nat /\ Len(toks) \in Nat /\ c \o toks \in Seq(Tokens)
  BY JoinProperties
<1>2. /\ Tgt!BMInv' /\ UNCHANGED tLive /\ tNum'[seq] = Len(c) + Len(toks)
      /\ \A i \in 1..Len(tIds[seq]) : tIds'[seq][i] = tIds[seq][i]
      /\ tKV' = Stored(tKV, tIds'[seq], toks, Len(c))
  BY <1>1, TgtForwards
<1>3. TgtTableOK(tIds[seq], tNum[seq])
  BY TgtTables
<1>4. TgtTableOK(tIds'[seq], tNum'[seq])
  BY <1>2, TgtTables
<1> DEFINE ids == tIds[seq]
           later == tIds'[seq]
<1>5. Apart(tKV, later, Len(c \o toks))
  <2>1. tNum'[seq] = Len(c \o toks)
    BY <1>1, <1>2
  <2> QED BY <1>4, <2>1, SlotsApart
<1>6. \A p \in 0..(Len(c) - 1) : Tgt!Slot(later, p) = Tgt!Slot(ids, p)
  <2>1. ids \in Seq(TgtBlocks) /\ tNum[seq] \in Nat /\ tNum[seq] <= Len(ids) * BlockSize
    BY <1>3 DEF TgtTableOK
  <2>2. Len(c) <= Len(ids) * BlockSize
    <3>1. Len(ids) * BlockSize \in Nat
      BY <2>1, LenProperties, PoolsAssumption
    <3> QED BY <1>1, <2>1, <3>1
  <2>3. \A i \in 1..Len(ids) : later[i] = ids[i]
    BY <1>2
  <2> HIDE DEF ids, later
  <2> QED BY <1>1, <2>1, <2>2, <2>3, SlotsStay
<1>7. Holds(tKV, later, c, Len(c))
  <2> HIDE DEF later
  <2> QED BY <1>6 DEF Holds
<1>8. Holds(tKV', later, c \o toks, Len(c \o toks))
  <2> HIDE DEF later
  <2>1. Holds(Stored(tKV, later, toks, Len(c)), later, c \o toks, Len(c \o toks))
    BY <1>5, <1>7, StoredCaches
  <2> QED BY <1>2, <2>1 DEF later
<1>9. Shaped(tKV', TgtBlocks)
  BY <1>2, StoredShape
<1>10. \A j \in 0..Len(toks) : TgtRow(toks, start, j) = c \o SubSeq(toks, 1, j)
  BY RowReads DEF TgtRow
<1>11. Cached(tKV', later, tNum'[seq], c \o toks)
  BY <1>1, <1>2, <1>8 DEF Cached
<1> QED BY <1>2, <1>9, <1>10, <1>11

\* A rollback leaves the context cached that it goes back to.
LEMMA TgtRollsBack ==
  ASSUME Tgt!BMInv, seq \in Calls, NEW c \in Seq(Tokens), NEW s \in Seq(Tokens),
         Cached(tKV, tIds[seq], tNum[seq], c \o s), Tgt!Truncate(seq, Len(c)), seq \in tLive, UNCHANGED tKV
  PROVE  /\ Tgt!BMInv' /\ UNCHANGED tLive
         /\ Cached(tKV', tIds'[seq], tNum'[seq], c)
<1>1. Len(c \o s) = Len(c) + Len(s) /\ Len(c) \in Nat /\ Len(s) \in Nat
  BY JoinProperties
<1>2. tNum[seq] = Len(c) + Len(s) /\ Holds(tKV, tIds[seq], c \o s, Len(c \o s))
  BY <1>1 DEF Cached
<1>3. /\ Tgt!BMInv' /\ UNCHANGED tLive /\ tNum'[seq] = Len(c)
      /\ \A i \in 1..Len(tIds'[seq]) : tIds'[seq][i] = tIds[seq][i]
  BY <1>1, <1>2, TgtTruncates
<1> DEFINE ids == tIds[seq]
           later == tIds'[seq]
<1>4. TgtTableOK(later, Len(c))
  BY <1>3, TgtTables
<1>5. later \in Seq(TgtBlocks) /\ Len(c) <= Len(later) * BlockSize
  BY <1>4 DEF TgtTableOK
<1>6. \A i \in 1..Len(later) : ids[i] = later[i]
  BY <1>3
<1>7. \A p \in 0..(Len(c) - 1) : Tgt!Slot(ids, p) = Tgt!Slot(later, p)
  <2> HIDE DEF ids, later
  <2> QED BY <1>1, <1>5, <1>6, SlotsStay
<1>8. Holds(tKV, later, c, Len(c))
  <2> HIDE DEF later
  <2> QED BY <1>2, <1>7, HoldsLess
<1> QED BY <1>3, <1>8 DEF Cached

\* A forward pass of the draft model that follows what is cached leaves the
\* tokens cached after it, and computes each row from the context up to its token.
LEMMA DrfFeeds ==
  ASSUME Drf!BMInv, seq \in dLive, Shaped(dKV, DrfBlocks),
         NEW c \in Seq(Tokens), NEW toks \in Seq(Tokens),
         Len(c) <= dNum[seq], dNum[seq] <= Len(c) + Len(toks),
         Holds(dKV, dIds[seq], c, Len(c)), NEW start, start = Len(c), DrfForward(toks, start)
  PROVE  /\ Drf!BMInv' /\ UNCHANGED dLive /\ Shaped(dKV', DrfBlocks)
         /\ Cached(dKV', dIds'[seq], dNum'[seq], c \o toks)
         /\ \A j \in 0..Len(toks) : DrfRow(toks, start, j) = c \o SubSeq(toks, 1, j)
<1>1. Len(c \o toks) = Len(c) + Len(toks) /\ Len(c) \in Nat /\ Len(toks) \in Nat /\ c \o toks \in Seq(Tokens)
  BY JoinProperties
<1>2. /\ Drf!BMInv' /\ UNCHANGED dLive /\ dNum'[seq] = Len(c) + Len(toks)
      /\ \A i \in 1..Len(dIds[seq]) : dIds'[seq][i] = dIds[seq][i]
      /\ dKV' = Stored(dKV, dIds'[seq], toks, Len(c))
  BY <1>1, DrfForwards
<1>3. DrfTableOK(dIds[seq], dNum[seq])
  BY DrfTables
<1>4. DrfTableOK(dIds'[seq], dNum'[seq])
  BY <1>2, DrfTables
<1> DEFINE ids == dIds[seq]
           later == dIds'[seq]
<1>5. Apart(dKV, later, Len(c \o toks))
  <2>1. dNum'[seq] = Len(c \o toks)
    BY <1>1, <1>2
  <2> QED BY <1>4, <2>1, SlotsApart
<1>6. \A p \in 0..(Len(c) - 1) : Tgt!Slot(later, p) = Tgt!Slot(ids, p)
  <2>1. ids \in Seq(DrfBlocks) /\ dNum[seq] \in Nat /\ dNum[seq] <= Len(ids) * BlockSize
    BY <1>3 DEF DrfTableOK
  <2>2. Len(c) <= Len(ids) * BlockSize
    <3>1. Len(ids) * BlockSize \in Nat
      BY <2>1, LenProperties, PoolsAssumption
    <3> QED BY <1>1, <2>1, <3>1
  <2>3. \A i \in 1..Len(ids) : later[i] = ids[i]
    BY <1>2
  <2> HIDE DEF ids, later
  <2> QED BY <1>1, <2>1, <2>2, <2>3, SlotsStay
<1>7. Holds(dKV, later, c, Len(c))
  <2> HIDE DEF later
  <2> QED BY <1>6 DEF Holds
<1>8. Holds(dKV', later, c \o toks, Len(c \o toks))
  <2> HIDE DEF later
  <2>1. Holds(Stored(dKV, later, toks, Len(c)), later, c \o toks, Len(c \o toks))
    BY <1>5, <1>7, StoredCaches
  <2> QED BY <1>2, <2>1 DEF later
<1>9. Shaped(dKV', DrfBlocks)
  BY <1>2, StoredShape
<1>10. \A j \in 0..Len(toks) : DrfRow(toks, start, j) = c \o SubSeq(toks, 1, j)
  BY RowReads DEF DrfRow
<1>11. Cached(dKV', later, dNum'[seq], c \o toks)
  BY <1>1, <1>2, <1>8 DEF Cached
<1> QED BY <1>2, <1>9, <1>10, <1>11

\* A rollback leaves the context cached that it goes back to.
LEMMA DrfRollsBack ==
  ASSUME Drf!BMInv, seq \in Calls, NEW c \in Seq(Tokens), NEW s \in Seq(Tokens),
         Cached(dKV, dIds[seq], dNum[seq], c \o s), Drf!Truncate(seq, Len(c)), seq \in dLive, UNCHANGED dKV
  PROVE  /\ Drf!BMInv' /\ UNCHANGED dLive
         /\ Cached(dKV', dIds'[seq], dNum'[seq], c)
<1>1. Len(c \o s) = Len(c) + Len(s) /\ Len(c) \in Nat /\ Len(s) \in Nat
  BY JoinProperties
<1>2. dNum[seq] = Len(c) + Len(s) /\ Holds(dKV, dIds[seq], c \o s, Len(c \o s))
  BY <1>1 DEF Cached
<1>3. /\ Drf!BMInv' /\ UNCHANGED dLive /\ dNum'[seq] = Len(c)
      /\ \A i \in 1..Len(dIds'[seq]) : dIds'[seq][i] = dIds[seq][i]
  BY <1>1, <1>2, DrfTruncates
<1> DEFINE ids == dIds[seq]
           later == dIds'[seq]
<1>4. DrfTableOK(later, Len(c))
  BY <1>3, DrfTables
<1>5. later \in Seq(DrfBlocks) /\ Len(c) <= Len(later) * BlockSize
  BY <1>4 DEF DrfTableOK
<1>6. \A i \in 1..Len(later) : ids[i] = later[i]
  BY <1>3
<1>7. \A p \in 0..(Len(c) - 1) : Tgt!Slot(ids, p) = Tgt!Slot(later, p)
  <2> HIDE DEF ids, later
  <2> QED BY <1>1, <1>5, <1>6, SlotsStay
<1>8. Holds(dKV, later, c, Len(c))
  <2> HIDE DEF later
  <2> QED BY <1>2, <1>7, HoldsLess
<1> QED BY <1>3, <1>8 DEF Cached

-----------------------------------------------------------------------------
\* The inductive invariant: both pools and their caches, and at every step of
\* generate what the caches hold and what the round has come to.
TgtSide ==
  /\ Tgt!BMInv /\ Shaped(tKV, TgtBlocks)
  /\ tLive = IF pc \in {"idle", "freeD"} THEN {} ELSE {seq}
  /\ pc \notin {"idle", "freeD"} => tNum[seq] <= Len(prompt) + maxNew + K

DrfSide ==
  /\ Drf!BMInv /\ Shaped(dKV, DrfBlocks)
  /\ dLive = IF pc \in {"idle", "allocate"} THEN {} ELSE {seq}
  /\ pc \notin {"idle", "allocate"} => dNum[seq] <= Len(prompt) + maxNew + K

Locals ==
  /\ seq \in Nat /\ prompt \in Prompts \cup {<<>>}
  /\ out \in Seq(Tokens) /\ draft \in Seq(Tokens) /\ emitted \in Seq(Tokens) /\ todo \in Seq(Tokens)
  /\ Len(draft) <= K /\ accepted \in -1..K /\ Len(qStack) <= K
  /\ pc # "idle" => seq \in Calls /\ prompt \in Prompts /\ maxNew \in MaxNews

TgtAt(c) == Cached(tKV, tIds[seq], tNum[seq], c)

DrfAt(c) == Cached(dKV, dIds[seq], dNum[seq], c)

\* The call goes on: nothing was raised, the limit and the end are not reached.
Deciding == ~raised /\ ~Alone!Complete

\* The context of the i-th drafted token, and of all of them.
Reached(i) == Context \o SubSeq(draft, 1, i - 1)

OwnContexts == [i \in 1..Len(draft) |-> Reached(i)]

\* The target could emit the tokens of a list one after the other.
CanEmit(l) == \A i \in 1..Len(l) : l[i] \in Rej!Support(Target(Context \o SubSeq(l, 1, i - 1)))

AtAllocate ==
  out = <<>> /\ ~raised /\ tNum[seq] = Len(prompt) /\ ~Drf!AllocateFails(Len(prompt), <<>>)

AtPrefillT == out = <<>> /\ ~raised /\ tNum[seq] = Len(prompt) /\ dNum[seq] = Len(prompt)

AtPrefillD == out = <<>> /\ ~raised /\ TgtAt(prompt) /\ pNext = prompt /\ dNum[seq] = Len(prompt)

AtDraft ==
  /\ Deciding /\ Len(draft) < K
  /\ TgtAt(Context) /\ pNext = Context /\ DrfAt(Reached(Len(draft))) /\ qNext = Context
  /\ draft # <<>> => qStack = OwnContexts

Drafted == Deciding /\ Len(draft) = K

AtVerify == Drafted /\ TgtAt(Context) /\ pNext = Context /\ DrfAt(Reached(K)) /\ qStack = OwnContexts

AtReject ==
  /\ Drafted /\ TgtAt(Context \o draft) /\ DrfAt(Reached(K)) /\ tgtStart = Len(Context)
  /\ qStack = OwnContexts /\ pStack = OwnContexts /\ pBonus = Context \o draft
  /\ accepted = -1 /\ Len(emitted) <= K /\ emitted = SubSeq(draft, 1, Len(emitted)) /\ CanEmit(emitted)

Judged ==
  /\ Drafted /\ accepted \in 0..K /\ Len(emitted) = accepted + 1
  /\ SubSeq(emitted, 1, accepted) = SubSeq(draft, 1, accepted) /\ CanEmit(emitted)

AtRollT == Judged /\ TgtAt(Context \o draft) /\ DrfAt(Reached(K)) /\ tgtStart = Len(Context)

AtFixT == Judged /\ TgtAt(Reached(accepted + 1)) /\ DrfAt(Reached(K)) /\ tgtStart = Len(Context)

AtRollD == Judged /\ TgtAt(Context \o emitted) /\ pNext = Context \o emitted /\ DrfAt(Reached(K))

AtFixD ==
  /\ Judged /\ TgtAt(Context \o emitted) /\ pNext = Context \o emitted
  /\ DrfAt(Reached(IF accepted <= K - 1 THEN accepted + 1 ELSE K))

AtEmit ==
  /\ Deciding /\ todo # <<>> /\ CanEmit(todo)
  /\ TgtAt(Context \o todo) /\ pNext = Context \o todo
  /\ DrfAt(Context \o todo) /\ qNext = Context \o todo

AtFinally == raised \/ Alone!Complete

AtStep ==
  /\ pc = "allocate" => AtAllocate
  /\ pc = "prefillT" => AtPrefillT
  /\ pc = "prefillD" => AtPrefillD
  /\ pc = "draft" => AtDraft
  /\ pc = "verify" => AtVerify
  /\ pc = "reject" => AtReject
  /\ pc = "rollT" => AtRollT
  /\ pc = "fixT" => AtFixT
  /\ pc = "rollD" => AtRollD
  /\ pc = "fixD" => AtFixD
  /\ pc = "emit" => AtEmit
  /\ pc = "finally" => AtFinally

SpecIInv == TgtSide /\ DrfSide /\ Locals /\ AtStep

-----------------------------------------------------------------------------
\* A side a step leaves alone stays as it is.
LEMMA TgtSideRests ==
  ASSUME TgtSide, UNCHANGED <<tPool, tKV, callVars>>,
         pc' \in {"idle", "freeD"} <=> pc \in {"idle", "freeD"}
  PROVE  TgtSide'
<1>1. UNCHANGED tPool /\ Tgt!BMInv
  BY DEF TgtSide
<1>2. Tgt!BMInv'
  BY <1>1, TgtRests
<1>3. UNCHANGED <<tLive, tNum, tKV, seq, prompt, maxNew>>
  BY DEF tPool, callVars
<1> QED BY <1>2, <1>3 DEF TgtSide, Shaped

LEMMA DrfSideRests ==
  ASSUME DrfSide, UNCHANGED <<dPool, dKV, callVars>>,
         pc' \in {"idle", "allocate"} <=> pc \in {"idle", "allocate"}
  PROVE  DrfSide'
<1>1. UNCHANGED dPool /\ Drf!BMInv
  BY DEF DrfSide
<1>2. Drf!BMInv'
  BY <1>1, DrfRests
<1>3. UNCHANGED <<dLive, dNum, dKV, seq, prompt, maxNew>>
  BY DEF dPool, callVars
<1> QED BY <1>2, <1>3 DEF DrfSide, Shaped

\* What a cache holds stays when neither its table nor its slots change.
LEMMA TgtAtRests ==
  ASSUME UNCHANGED <<tPool, tKV, seq>>, NEW c, TgtAt(c)
  PROVE  Cached(tKV', tIds'[seq'], tNum'[seq'], c)
BY DEF TgtAt, tPool

LEMMA DrfAtRests ==
  ASSUME UNCHANGED <<dPool, dKV, seq>>, NEW c, DrfAt(c)
  PROVE  Cached(dKV', dIds'[seq'], dNum'[seq'], c)
BY DEF DrfAt, dPool

\* A call that runs: its sequence, its types, and the bounds the caches keep to.
LEMMA Running ==
  ASSUME SpecIInv, pc # "idle"
  PROVE  /\ seq \in Calls /\ seq \in Nat /\ prompt \in Prompts /\ prompt \in Seq(Tokens) /\ prompt # <<>>
         /\ maxNew \in MaxNews /\ maxNew \in Nat /\ K \in Nat \ {0}
         /\ out \in Seq(Tokens) /\ draft \in Seq(Tokens) /\ emitted \in Seq(Tokens) /\ todo \in Seq(Tokens)
         /\ Context \in Seq(Tokens) /\ Len(Context) = Len(prompt) + Len(out)
         /\ Len(prompt) \in Nat /\ Len(out) \in Nat
         /\ pc \notin {"idle", "freeD"} => seq \in tLive
         /\ pc \notin {"idle", "allocate"} => seq \in dLive
<1>1. prompt \in Prompts /\ maxNew \in MaxNews /\ seq \in Calls /\ seq \in Nat
      /\ out \in Seq(Tokens) /\ draft \in Seq(Tokens) /\ emitted \in Seq(Tokens) /\ todo \in Seq(Tokens)
  BY DEF SpecIInv, Locals
<1>2. prompt \in Seq(Tokens) /\ prompt # <<>> /\ maxNew \in Nat /\ K \in Nat \ {0}
  BY <1>1, SpecAssumption
<1>3. prompt \o out \in Seq(Tokens) /\ Len(prompt \o out) = Len(prompt) + Len(out) /\ Len(prompt) \in Nat /\ Len(out) \in Nat
  BY <1>1, <1>2, JoinProperties
<1>4. /\ pc \notin {"idle", "freeD"} => seq \in tLive
      /\ pc \notin {"idle", "allocate"} => seq \in dLive
  BY DEF SpecIInv, TgtSide, DrfSide
<1> QED BY <1>1, <1>2, <1>3, <1>4 DEF Context

\* The models give a weight to every token after any context a call comes to.
LEMMA WeightsGiven ==
  ASSUME SpecIInv, pc # "idle", NEW g \in Seq(Tokens), Len(g) <= maxNew + K
  PROVE  Target(prompt \o g) \in [Tokens -> Nat] /\ Draft(prompt \o g) \in [Tokens -> Nat]
<1>1. prompt \in Prompts /\ maxNew \in MaxNews /\ maxNew \in Nat /\ K \in Nat
  BY Running
<1>2. Len(g) \in 0..(maxNew + K) /\ g \in [1..Len(g) -> Tokens]
  BY <1>1, LenProperties
<1>3. g \in SeqOf(Tokens, maxNew + K)
  BY <1>2 DEF SeqOf
<1> QED BY <1>1, <1>3, ModelsAssumption

-----------------------------------------------------------------------------
\* The allocations and the end of a call.
LEMMA InitIInv == Init => SpecIInv
<1> SUFFICES ASSUME Init PROVE SpecIInv
  OBVIOUS
<1>1. Tgt!BMInv /\ Drf!BMInv
  BY TgtWhole, DrfWhole DEF Init
<1>2. tLive = {} /\ dLive = {}
  BY DEF Init, Tgt!BMInit, Drf!BMInit
<1>3. Shaped(tKV, TgtBlocks) /\ Shaped(dKV, DrfBlocks)
  BY DEF Init, Shaped
<1>4. TgtSide /\ DrfSide
  BY <1>1, <1>2, <1>3 DEF Init, TgtSide, DrfSide
<1>5. Locals
  BY SpecAssumption DEF Init, Locals
<1>6. AtStep
  BY DEF Init, AtStep
<1> QED BY <1>4, <1>5, <1>6 DEF SpecIInv

\* With nobody's table in them both pools are whole, and a prompt that has its
\* blocks in one has them in the other.
LEMMA EquallyFull ==
  ASSUME SpecIInv, pc = "idle"
  PROVE  /\ tFree = TgtBlocks /\ dFree = DrfBlocks
         /\ \A n \in Nat : Tgt!NewBlocks(n, <<>>) <= Cardinality(tFree) => ~Drf!AllocateFails(n, <<>>)
<1>1. Tgt!BMInv /\ Drf!BMInv /\ tLive = {} /\ dLive = {}
  BY DEF SpecIInv, TgtSide, DrfSide
<1>2. tFree = TgtBlocks /\ dFree = DrfBlocks
  BY <1>1, TgtWhole, DrfWhole
<1>3. ASSUME NEW n \in Nat, Tgt!NewBlocks(n, <<>>) <= Cardinality(tFree) PROVE ~Drf!AllocateFails(n, <<>>)
  <2>1. Tgt!NewBlocks(n, <<>>) = Drf!NewBlocks(n, <<>>)
    BY DEF Tgt!NewBlocks, Drf!NewBlocks, Tgt!BlocksNeeded, Drf!BlocksNeeded
  <2>2. Drf!Cardinality(dFree) = Cardinality(dFree)
    BY DrfSets
  <2>3. Drf!NewBlocks(n, <<>>) \in Nat
    <3>1. DB!BlocksNeeded(n) \in Nat /\ Len(<<>>) = 0
      BY DrfAssumptions, DB!BlocksCover
    <3>2. DB!NewBlocks(n, <<>>) \in Nat
      BY <3>1 DEF DB!NewBlocks
    <3> QED BY <3>2, DrfOperations
  <2>4. Cardinality(DrfBlocks) \in Nat
    BY FS_CardinalityType, PoolsAssumption
  <2>5. ~(Drf!NewBlocks(n, <<>>) > Drf!Cardinality(dFree))
    BY <1>2, <1>3, <2>1, <2>2, <2>3, <2>4, PoolsAssumption
  <2> QED BY <2>5 DEF Drf!AllocateFails
<1> QED BY <1>2, <1>3

LEMMA AllocateTargetInv ==
  ASSUME SpecIInv, NEW c \in Prompts, NEW m \in MaxNews, AllocateTarget(c, m) PROVE SpecIInv'
<1>1. /\ pc = "idle" /\ seq \in Calls /\ pc' = "allocate" /\ prompt' = c /\ maxNew' = m
      /\ out' = <<>> /\ raised' = FALSE /\ seq' = seq
      /\ UNCHANGED <<dPool, tKV, dKV, roundVars>> /\ Tgt!Allocate(seq, Len(c), <<>>)
  BY DEF AllocateTarget
<1>2. c \in Seq(Tokens) /\ Len(c) \in Nat /\ m \in Nat /\ K \in Nat \ {0}
  <2>1. c \in Seq(Tokens) /\ m \in Nat /\ K \in Nat \ {0}
    BY SpecAssumption
  <2> QED BY <2>1, LenProperties
<1>3. Tgt!BMInv /\ Drf!BMInv /\ tLive = {} /\ dLive = {} /\ Shaped(tKV, TgtBlocks) /\ Shaped(dKV, DrfBlocks)
  BY <1>1 DEF SpecIInv, TgtSide, DrfSide
<1>4. /\ Tgt!BMInv' /\ tLive' = {seq} /\ tNum'[seq] = Len(c)
      /\ Tgt!NewBlocks(Len(c), <<>>) <= Cardinality(tFree)
  BY <1>1, <1>2, <1>3, TgtAllocates
<1>5. Drf!BMInv' /\ dLive' = {}
  <2>1. Drf!BMInv'
    BY <1>1, <1>3, DrfRests
  <2> QED BY <1>1, <1>3, <2>1 DEF dPool
<1>6. ~Drf!AllocateFails(Len(c), <<>>)'
  <2>1. ~Drf!AllocateFails(Len(c), <<>>)
    BY <1>1, <1>2, <1>4, EquallyFull
  <2> QED BY <1>1, <2>1 DEF Drf!AllocateFails, Drf!NewBlocks, Drf!BlocksNeeded, dPool
<1>7. TgtSide' /\ DrfSide'
  BY <1>1, <1>2, <1>3, <1>4, <1>5 DEF TgtSide, DrfSide, Shaped
<1>8. Locals'
  BY <1>1 DEF SpecIInv, Locals, roundVars
<1>9. AtAllocate'
  BY <1>1, <1>4, <1>6 DEF AtAllocate, Drf!AllocateFails, Drf!NewBlocks, Drf!BlocksNeeded
<1> QED BY <1>1, <1>7, <1>8, <1>9 DEF SpecIInv, AtStep

LEMMA AllocateRaisesInv == ASSUME SpecIInv, NEW c \in Prompts, AllocateRaises(c) PROVE SpecIInv'
<1>1. /\ pc = "idle" /\ pc' = "idle" /\ seq' = seq + 1
      /\ UNCHANGED <<tPool, dPool, tKV, dKV, prompt, out, roundVars>>
  BY DEF AllocateRaises
<1>2. Tgt!BMInv /\ Drf!BMInv /\ tLive = {} /\ dLive = {} /\ Shaped(tKV, TgtBlocks) /\ Shaped(dKV, DrfBlocks)
  BY <1>1 DEF SpecIInv, TgtSide, DrfSide
<1>3. Tgt!BMInv' /\ Drf!BMInv'
  BY <1>1, <1>2, TgtRests, DrfRests
<1>4. TgtSide' /\ DrfSide'
  BY <1>1, <1>2, <1>3 DEF TgtSide, DrfSide, Shaped, tPool, dPool
<1>5. Locals'
  BY <1>1 DEF SpecIInv, Locals, roundVars
<1> QED BY <1>1, <1>4, <1>5 DEF SpecIInv, AtStep

LEMMA AllocateDraftInv == ASSUME SpecIInv, AllocateDraft PROVE SpecIInv'
<1>1. /\ pc = "allocate" /\ pc' = "prefillT" /\ Drf!Allocate(seq, Len(prompt), <<>>)
      /\ UNCHANGED <<callVars, raised, out, tPool, tKV, dKV, roundVars>>
  BY DEF AllocateDraft
<1>2. seq \in Calls /\ Len(prompt) \in Nat /\ maxNew \in Nat /\ K \in Nat
  BY <1>1, Running
<1>3. Drf!BMInv /\ dLive = {} /\ Shaped(dKV, DrfBlocks) /\ TgtSide /\ AtAllocate
  BY <1>1 DEF SpecIInv, DrfSide, AtStep
<1>4. Drf!BMInv' /\ dLive' = {seq} /\ dNum'[seq] = Len(prompt)
  BY <1>1, <1>2, <1>3, DrfAllocates
<1>5. TgtSide'
  BY <1>1, <1>3, TgtSideRests
<1>6. DrfSide'
  BY <1>1, <1>2, <1>3, <1>4 DEF DrfSide, Shaped, callVars
<1>7. Locals'
  BY <1>1 DEF SpecIInv, Locals, roundVars, callVars
<1>8. AtPrefillT'
  BY <1>1, <1>3, <1>4 DEF AtPrefillT, AtAllocate, callVars, tPool
<1> QED BY <1>1, <1>5, <1>6, <1>7, <1>8 DEF SpecIInv, AtStep

LEMMA FreeTargetInv == ASSUME SpecIInv, FreeTarget PROVE SpecIInv'
<1>1. /\ pc = "finally" /\ pc' = "freeD" /\ Tgt!Free(seq)
      /\ UNCHANGED <<callVars, raised, out, dPool, tKV, dKV, roundVars>>
  BY DEF FreeTarget
<1>2. seq \in Calls /\ Tgt!BMInv /\ tLive = {seq} /\ Shaped(tKV, TgtBlocks) /\ DrfSide
  BY <1>1, Running DEF SpecIInv, TgtSide
<1>3. Tgt!BMInv' /\ tLive' = {}
  BY <1>1, <1>2, TgtFrees
<1>4. TgtSide' /\ DrfSide'
  <2>1. TgtSide'
    BY <1>1, <1>2, <1>3 DEF TgtSide, Shaped
  <2>2. DrfSide'
    BY <1>1, <1>2, DrfSideRests
  <2> QED BY <2>1, <2>2
<1>5. Locals'
  BY <1>1 DEF SpecIInv, Locals, roundVars, callVars
<1> QED BY <1>1, <1>4, <1>5 DEF SpecIInv, AtStep

LEMMA FreeDraftInv == ASSUME SpecIInv, FreeDraft PROVE SpecIInv'
<1>1. /\ pc = "freeD" /\ pc' = "idle" /\ Drf!Free(seq) /\ seq' = seq + 1 /\ ForgetLocals
      /\ UNCHANGED <<prompt, out, tPool, tKV, dKV>>
  BY DEF FreeDraft
<1>2. /\ seq \in Calls /\ Drf!BMInv /\ dLive = {seq} /\ Shaped(dKV, DrfBlocks)
      /\ Tgt!BMInv /\ tLive = {} /\ Shaped(tKV, TgtBlocks)
  BY <1>1, Running DEF SpecIInv, TgtSide, DrfSide
<1>3. Drf!BMInv' /\ dLive' = {}
  BY <1>1, <1>2, DrfFrees
<1>4. TgtSide'
  <2>1. Tgt!BMInv'
    BY <1>1, <1>2, TgtRests
  <2> QED BY <1>1, <1>2, <2>1 DEF TgtSide, Shaped, tPool
<1>5. DrfSide'
  BY <1>1, <1>2, <1>3 DEF DrfSide, Shaped
<1>6. Locals'
  BY <1>1, SpecAssumption DEF SpecIInv, Locals, ForgetLocals
<1> QED BY <1>1, <1>4, <1>5, <1>6 DEF SpecIInv, AtStep

\* A forward pass that raises leaves everything as it was.
LEMMA RaisesInv == ASSUME SpecIInv, TargetRaises \/ DraftRaises PROVE SpecIInv'
<1>1. /\ pc \in {"verify", "fixT", "fixD", "draft"} /\ pc' = "finally" /\ raised' = TRUE
      /\ UNCHANGED <<callVars, out, tPool, dPool, tKV, dKV, roundVars>>
  BY DEF TargetRaises, DraftRaises
<1>2. TgtSide' /\ DrfSide'
  <2>1. TgtSide /\ DrfSide
    BY DEF SpecIInv
  <2>2. TgtSide'
    BY <1>1, <2>1, TgtSideRests
  <2>3. DrfSide'
    BY <1>1, <2>1, DrfSideRests
  <2> QED BY <2>2, <2>3
<1>3. Locals'
  BY <1>1 DEF SpecIInv, Locals, roundVars, callVars
<1>4. AtFinally'
  BY <1>1 DEF AtFinally
<1> QED BY <1>1, <1>2, <1>3, <1>4 DEF SpecIInv, AtStep

-----------------------------------------------------------------------------
\* The prompt is computed into both caches.
LEMMA PrefillTargetInv == ASSUME SpecIInv, PrefillTarget PROVE SpecIInv'
<1>1. /\ pc = "prefillT" /\ pc' = "prefillD" /\ TgtForward(prompt, 0)
      /\ pNext' = TgtRow(prompt, 0, Len(prompt))
      /\ UNCHANGED <<callVars, raised, out, dPool, dKV, qNext, roundVars>>
  BY DEF PrefillTarget
<1>2. /\ seq \in tLive /\ prompt \in Seq(Tokens) /\ Len(prompt) \in Nat /\ maxNew \in Nat /\ K \in Nat
  BY <1>1, Running
<1>3. Tgt!BMInv /\ tLive = {seq} /\ Shaped(tKV, TgtBlocks) /\ DrfSide /\ AtPrefillT
  BY <1>1 DEF SpecIInv, TgtSide, AtStep
<1>4. /\ Tgt!BMInv' /\ UNCHANGED tLive /\ Shaped(tKV', TgtBlocks)
      /\ Cached(tKV', tIds'[seq], tNum'[seq], prompt) /\ pNext' = prompt
  <2>1. PICK c \in Seq(Tokens) : c = <<>> /\ Len(c) = 0
    BY EmptySeq
  <2>2. Holds(tKV, tIds[seq], c, Len(c)) /\ tNum[seq] = Len(prompt)
    BY <1>3, <2>1 DEF Holds, AtPrefillT
  <2>3. /\ Tgt!BMInv' /\ UNCHANGED tLive /\ Shaped(tKV', TgtBlocks)
        /\ Cached(tKV', tIds'[seq], tNum'[seq], c \o prompt)
        /\ \A j \in 0..Len(prompt) : TgtRow(prompt, 0, j) = c \o SubSeq(prompt, 1, j)
    <3>1. Len(c) <= tNum[seq] /\ tNum[seq] <= Len(c) + Len(prompt) /\ 0 = Len(c)
      BY <1>2, <2>1, <2>2
    <3>2. TgtForward(prompt, 0)
      BY <1>1
    <3>3. Tgt!BMInv /\ seq \in tLive /\ Shaped(tKV, TgtBlocks) /\ prompt \in Seq(Tokens)
      BY <1>2, <1>3
    <3> QED BY <2>2, <3>1, <3>2, <3>3, TgtFeeds
  <2>4. c \o prompt = prompt /\ SubSeq(prompt, 1, Len(prompt)) = prompt
    BY <1>2, <2>1, ConcatEmptySeq, SubSeqFull
  <2>5. TgtRow(prompt, 0, Len(prompt)) = c \o SubSeq(prompt, 1, Len(prompt))
    BY <1>2, <2>3
  <2>6. pNext' = prompt
    BY <1>1, <2>4, <2>5
  <2> QED BY <2>3, <2>4, <2>6
<1>5. tNum'[seq] = Len(prompt)
  BY <1>4 DEF Cached
<1>6. TgtSide'
  BY <1>1, <1>2, <1>3, <1>4, <1>5 DEF TgtSide, callVars
<1>7. DrfSide'
  BY <1>1, <1>3, DrfSideRests
<1>8. Locals'
  BY <1>1 DEF SpecIInv, Locals, roundVars, callVars
<1>9. AtPrefillD'
  BY <1>1, <1>3, <1>4 DEF AtPrefillT, AtPrefillD, TgtAt, callVars, dPool
<1> QED BY <1>1, <1>6, <1>7, <1>8, <1>9 DEF SpecIInv, AtStep

LEMMA PrefillDraftInv == ASSUME SpecIInv, PrefillDraft PROVE SpecIInv'
<1>1. /\ pc = "prefillD" /\ pc' = (IF maxNew > 0 THEN "draft" ELSE "finally") /\ DrfForward(prompt, 0)
      /\ qNext' = DrfRow(prompt, 0, Len(prompt)) /\ draft' = <<>>
      /\ UNCHANGED <<callVars, raised, out, tPool, tKV, pNext, qStack, pStack, pBonus, emitted, accepted, tgtStart, todo>>
  BY DEF PrefillDraft
<1>2. /\ seq \in dLive /\ prompt \in Seq(Tokens) /\ Len(prompt) \in Nat /\ maxNew \in Nat /\ K \in Nat \ {0}
  BY <1>1, Running
<1>3. Drf!BMInv /\ dLive = {seq} /\ Shaped(dKV, DrfBlocks) /\ TgtSide /\ AtPrefillD
  BY <1>1 DEF SpecIInv, DrfSide, AtStep
<1>4. /\ Drf!BMInv' /\ UNCHANGED dLive /\ Shaped(dKV', DrfBlocks)
      /\ Cached(dKV', dIds'[seq], dNum'[seq], prompt) /\ qNext' = prompt
  <2>1. PICK c \in Seq(Tokens) : c = <<>> /\ Len(c) = 0
    BY EmptySeq
  <2>2. Holds(dKV, dIds[seq], c, Len(c)) /\ dNum[seq] = Len(prompt)
    BY <1>3, <2>1 DEF Holds, AtPrefillD
  <2>3. /\ Drf!BMInv' /\ UNCHANGED dLive /\ Shaped(dKV', DrfBlocks)
        /\ Cached(dKV', dIds'[seq], dNum'[seq], c \o prompt)
        /\ \A j \in 0..Len(prompt) : DrfRow(prompt, 0, j) = c \o SubSeq(prompt, 1, j)
    <3>1. Len(c) <= dNum[seq] /\ dNum[seq] <= Len(c) + Len(prompt) /\ 0 = Len(c)
      BY <1>2, <2>1, <2>2
    <3>2. DrfForward(prompt, 0)
      BY <1>1
    <3>3. Drf!BMInv /\ seq \in dLive /\ Shaped(dKV, DrfBlocks) /\ prompt \in Seq(Tokens)
      BY <1>2, <1>3
    <3> QED BY <2>2, <3>1, <3>2, <3>3, DrfFeeds
  <2>4. c \o prompt = prompt /\ SubSeq(prompt, 1, Len(prompt)) = prompt
    BY <1>2, <2>1, ConcatEmptySeq, SubSeqFull
  <2>5. DrfRow(prompt, 0, Len(prompt)) = c \o SubSeq(prompt, 1, Len(prompt))
    BY <1>2, <2>3
  <2>6. qNext' = prompt
    BY <1>1, <2>4, <2>5
  <2> QED BY <2>3, <2>4, <2>6
<1>5. dNum'[seq] = Len(prompt)
  BY <1>4 DEF Cached
<1>6. DrfSide'
  BY <1>1, <1>2, <1>3, <1>4, <1>5 DEF DrfSide, callVars
<1>7. TgtSide'
  <2>1. pc' \in {"idle", "freeD"} <=> pc \in {"idle", "freeD"}
    BY <1>1
  <2> QED BY <1>1, <1>3, <2>1, TgtSideRests
<1>8. Locals'
  BY <1>1, <1>2 DEF SpecIInv, Locals, callVars
<1>9. CASE maxNew > 0
  <2>1. /\ Context' = prompt /\ Reached(Len(draft))' = prompt /\ Len(draft') = 0 /\ Len(out') = 0
    <3>1. out' = <<>> /\ prompt' = prompt /\ Len(draft') = 0
      BY <1>1, <1>3 DEF AtPrefillD, callVars
    <3>2. Context' = prompt
      BY <1>2, <3>1, ConcatEmptySeq DEF Context
    <3>3. SubSeq(draft', 1, 0 - 1) = <<>>
      BY SubSeqEmpty
    <3>4. Reached(Len(draft))' = Context' \o SubSeq(draft', 1, Len(draft') - 1)
      BY DEF Reached
    <3> QED BY <1>2, <3>1, <3>2, <3>3, <3>4, ConcatEmptySeq
  <2>2. TgtAt(Context)' /\ pNext' = Context'
    BY <1>1, <1>3, <2>1 DEF AtPrefillD, TgtAt, callVars, tPool
  <2>3. DrfAt(Reached(Len(draft)))'
    BY <1>1, <1>4, <2>1 DEF DrfAt, callVars
  <2>4. Deciding'
    BY <1>1, <1>2, <1>3, <1>9, <2>1 DEF Deciding, AtPrefillD, Alone!Complete, callVars
  <2>5. AtDraft'
    BY <1>1, <1>2, <1>4, <2>1, <2>2, <2>3, <2>4 DEF AtDraft
  <2> QED BY <1>1, <1>6, <1>7, <1>8, <1>9, <2>5 DEF SpecIInv, AtStep
<1>10. CASE ~(maxNew > 0)
  <2>1. AtFinally'
    <3>1. Len(out') >= maxNew'
      BY <1>1, <1>2, <1>3, <1>10 DEF AtPrefillD, callVars
    <3> QED BY <3>1 DEF AtFinally, Alone!Complete
  <2> QED BY <1>1, <1>6, <1>7, <1>8, <1>10, <2>1 DEF SpecIInv, AtStep
<1> QED BY <1>9, <1>10

-----------------------------------------------------------------------------
\* Proposals and their verification.
LEMMA ContextWeights ==
  ASSUME SpecIInv, pc # "idle", Deciding, NEW l \in Seq(Tokens), Len(l) <= K
  PROVE  /\ Target(Context \o l) \in [Tokens -> Nat] /\ Draft(Context \o l) \in [Tokens -> Nat]
         /\ Len(out) < maxNew
<1>1. /\ prompt \in Seq(Tokens) /\ out \in Seq(Tokens) /\ Len(out) \in Nat /\ maxNew \in Nat /\ K \in Nat
  BY Running
<1>2. Len(out) < maxNew
  BY <1>1 DEF Deciding, Alone!Complete
<1>3. out \o l \in Seq(Tokens) /\ Len(out \o l) = Len(out) + Len(l) /\ Len(l) \in Nat
  BY <1>1, JoinProperties
<1>4. Regroups(prompt, out, l)
  BY <1>1, Joined
<1>5. Context \o l = prompt \o (out \o l)
  BY <1>4 DEF Regroups, Context
<1>6. Len(out \o l) <= maxNew + K
  BY <1>1, <1>2, <1>3
<1>7. Target(prompt \o (out \o l)) \in [Tokens -> Nat] /\ Draft(prompt \o (out \o l)) \in [Tokens -> Nat]
  BY <1>3, <1>6, WeightsGiven
<1> QED BY <1>2, <1>5, <1>7

\* The context of a drafted token does not change by what is drafted after it.
LEMMA OneMore ==
  ASSUME NEW c \in Seq(Tokens), NEW d \in Seq(Tokens), NEW t \in Tokens
  PROVE  /\ Append(d, t) \in Seq(Tokens) /\ Len(Append(d, t)) = Len(d) + 1 /\ Len(d) \in Nat
         /\ c \o SubSeq(Append(d, t), 1, Len(d)) = c \o d
         /\ Append([i \in 1..Len(d) |-> c \o SubSeq(d, 1, i - 1)], c \o d)
              = [i \in 1..(Len(d) + 1) |-> c \o SubSeq(Append(d, t), 1, i - 1)]
         /\ Len([i \in 1..(Len(d) + 1) |-> c \o SubSeq(Append(d, t), 1, i - 1)]) = Len(d) + 1
<1> DEFINE n == Len(d)
           more == Append(d, t)
           old == [i \in 1..n |-> c \o SubSeq(d, 1, i - 1)]
           new == [i \in 1..(n + 1) |-> c \o SubSeq(more, 1, i - 1)]
<1>1. more \in Seq(Tokens) /\ Len(more) = n + 1 /\ n \in Nat
  BY LenProperties
<1>2. \A m \in 0..n : SubSeq(more, 1, m) = SubSeq(d, 1, m)
  BY PrefixOfAppend
<1>3. SubSeq(d, 1, n) = d
  BY SubSeqFull
<1>4. \A m \in 0..n : c \o SubSeq(d, 1, m) \in Seq(Tokens)
  <2> TAKE m \in 0..n
  <2>1. SubSeq(d, 1, m) \in Seq(Tokens)
    BY PrefixProperties
  <2> QED BY <2>1, JoinProperties
<1>5. \A i \in 1..(n + 1) : i - 1 \in 0..n
  BY <1>1
<1>6. old \in [1..n -> Seq(Tokens)]
  BY <1>1, <1>4
<1>7. new \in [1..(n + 1) -> Seq(Tokens)]
  <2> HIDE DEF more, n
  <2> QED BY <1>2, <1>4, <1>5
<1> HIDE DEF more, n, old, new
<1>8. old \in Seq(Seq(Tokens)) /\ Len(old) = n
  BY <1>1, <1>6, ListFromFunction
<1>9. new \in Seq(Seq(Tokens)) /\ Len(new) = n + 1
  <2>1. n + 1 \in Nat
    BY <1>1
  <2> QED BY <1>7, <2>1, ListFromFunction
<1>10. c \o d \in Seq(Tokens)
  BY JoinProperties
<1> DEFINE app == Append(old, c \o d)
<1>11. app \in Seq(Seq(Tokens)) /\ Len(app) = n + 1 /\ \A i \in 1..(n + 1) : app[i] = IF i = n + 1 THEN c \o d ELSE old[i]
  BY <1>1, <1>8, <1>10
<1>12. ASSUME NEW i \in 1..(n + 1) PROVE app[i] = new[i]
  <2>1. new[i] = c \o SubSeq(d, 1, i - 1)
    <3>1. new[i] = c \o SubSeq(more, 1, i - 1)
      BY DEF new
    <3> QED BY <1>2, <1>5, <3>1
  <2>2. CASE i = n + 1
    <3>1. i - 1 = n
      BY <1>1, <2>2
    <3> QED BY <1>3, <1>11, <2>1, <2>2, <3>1
  <2>3. CASE i # n + 1
    <3>1. i \in 1..n
      BY <1>1, <2>3
    <3>2. old[i] = c \o SubSeq(d, 1, i - 1)
      BY <3>1 DEF old
    <3> HIDE DEF app
    <3> QED BY <1>11, <2>1, <2>3, <3>2
  <2> QED BY <2>2, <2>3
<1> HIDE DEF app
<1>13. app = new
  BY <1>9, <1>11, <1>12, SeqEqual
<1>14. n \in 0..n
  BY <1>1
<1>15. c \o SubSeq(more, 1, n) = c \o d
  BY <1>2, <1>3, <1>14
<1> QED BY <1>1, <1>9, <1>13, <1>15 DEF more, n, old, new, app

\* A token proposed after the context and what is drafted already.
LEMMA ProposesOne ==
  ASSUME SpecIInv, pc = "draft", AtDraft, UNCHANGED <<prompt, out>>, Proposes(Context \o draft)
  PROVE  /\ draft' \in Seq(Tokens) /\ Len(draft') = Len(draft) + 1 /\ Len(draft) \in Nat /\ Context' = Context
         /\ Reached(Len(draft))' = Context \o draft
         /\ OwnContexts' = Append(OwnContexts, Context \o draft)
         /\ Len(OwnContexts') = Len(draft) + 1
<1>1. Context \in Seq(Tokens) /\ draft \in Seq(Tokens) /\ Deciding /\ Len(draft) <= K
  BY Running DEF AtDraft, SpecIInv, Locals
<1>2. PICK t \in Rej!Support(Draft(Context \o draft)) : draft' = Append(draft, t)
  BY DEF Proposes
<1>3. t \in Tokens
  <2>1. Draft(Context \o draft) \in [Tokens -> Nat]
    BY <1>1, ContextWeights
  <2> QED BY <1>2, <2>1 DEF Rej!Support
<1>4. Context' = Context
  BY DEF Context
<1>5. PICK c \in Seq(Tokens), d \in Seq(Tokens) : c = Context /\ d = draft
  BY <1>1
<1>6. /\ Append(d, t) \in Seq(Tokens) /\ Len(Append(d, t)) = Len(d) + 1 /\ Len(d) \in Nat
      /\ c \o SubSeq(Append(d, t), 1, Len(d)) = c \o d
      /\ Append([i \in 1..Len(d) |-> c \o SubSeq(d, 1, i - 1)], c \o d)
           = [i \in 1..(Len(d) + 1) |-> c \o SubSeq(Append(d, t), 1, i - 1)]
      /\ Len([i \in 1..(Len(d) + 1) |-> c \o SubSeq(Append(d, t), 1, i - 1)]) = Len(d) + 1
  BY <1>3, OneMore
<1>7. draft' = Append(d, t) /\ Len(draft') = Len(d) + 1 /\ Len(draft') - 1 = Len(d)
  BY <1>2, <1>5, <1>6
<1>8. Reached(Len(draft))' = c \o d
  <2>1. Reached(Len(draft))' = Context' \o SubSeq(draft', 1, Len(draft') - 1)
    BY DEF Reached
  <2> QED BY <1>4, <1>5, <1>6, <1>7, <2>1
<1>9. OwnContexts' = [i \in 1..(Len(d) + 1) |-> c \o SubSeq(Append(d, t), 1, i - 1)]
  BY <1>4, <1>5, <1>7 DEF OwnContexts, Reached
<1>10. OwnContexts = [i \in 1..Len(d) |-> c \o SubSeq(d, 1, i - 1)]
  BY <1>5 DEF OwnContexts, Reached
<1> QED BY <1>4, <1>5, <1>6, <1>7, <1>8, <1>9, <1>10

\* One proposal more: on to the next one, or to the verification.
LEMMA ProposedInv ==
  ASSUME SpecIInv, pc = "draft", AtDraft, Proposes(Context \o draft),
         qStack' = Append(OwnContexts, Context \o draft),
         pc' = IF Len(draft) + 1 = K THEN "verify" ELSE "draft",
         Cached(dKV', dIds'[seq], dNum'[seq], Context \o draft), DrfSide',
         UNCHANGED <<callVars, raised, out, tPool, tKV, pNext, qNext,
                     pStack, pBonus, emitted, accepted, tgtStart, todo>>
  PROVE  SpecIInv'
<1>1. /\ draft' \in Seq(Tokens) /\ Len(draft') = Len(draft) + 1 /\ Len(draft) \in Nat /\ Context' = Context
      /\ Reached(Len(draft))' = Context \o draft
      /\ OwnContexts' = Append(OwnContexts, Context \o draft)
      /\ Len(OwnContexts') = Len(draft) + 1
  BY ProposesOne DEF callVars
<1>2. K \in Nat \ {0} /\ Len(draft) < K /\ Len(draft') <= K
  BY <1>1, SpecAssumption DEF AtDraft
<1>3. qStack' = OwnContexts' /\ Len(qStack') <= K
  BY <1>1, <1>2
<1>4. TgtSide'
  <2>1. TgtSide /\ (pc' \in {"idle", "freeD"} <=> pc \in {"idle", "freeD"})
    BY DEF SpecIInv
  <2> QED BY <2>1, TgtSideRests
<1>5. Locals'
  BY <1>1, <1>2, <1>3 DEF SpecIInv, Locals, callVars
<1>6. Deciding' /\ pNext' = Context' /\ qNext' = Context'
  BY <1>1 DEF AtDraft, Deciding, Alone!Complete, callVars
<1>7. TgtAt(Context)' /\ DrfAt(Reached(Len(draft)))'
  BY <1>1 DEF AtDraft, TgtAt, DrfAt, tPool, callVars
<1>8. CASE Len(draft) + 1 = K
  <2>1. pc' = "verify" /\ Len(draft') = K
    BY <1>1, <1>8
  <2>2. DrfAt(Reached(K))'
    BY <1>7, <2>1, SpecAssumption DEF DrfAt, Reached
  <2>3. AtVerify'
    BY <1>3, <1>6, <1>7, <2>1, <2>2 DEF AtVerify, Drafted
  <2> QED BY <1>4, <1>5, <2>1, <2>3 DEF SpecIInv, AtStep
<1>9. CASE Len(draft) + 1 # K
  <2>1. pc' = "draft" /\ Len(draft') < K
    BY <1>1, <1>2, <1>9
  <2>2. AtDraft'
    BY <1>3, <1>6, <1>7, <2>1 DEF AtDraft
  <2> QED BY <1>4, <1>5, <2>1, <2>2 DEF SpecIInv, AtStep
<1> QED BY <1>8, <1>9

LEMMA DraftFirstInv == ASSUME SpecIInv, DraftFirst PROVE SpecIInv'
<1>1. /\ pc = "draft" /\ draft = <<>> /\ qStack' = <<qNext>> /\ Proposes(qNext)
      /\ pc' = (IF K = 1 THEN "verify" ELSE "draft")
      /\ UNCHANGED <<callVars, raised, out, tPool, dPool, tKV, dKV, pNext, qNext,
                     pStack, pBonus, emitted, accepted, tgtStart, todo>>
  BY DEF DraftFirst
<1>2. AtDraft /\ DrfSide /\ Context \in Seq(Tokens) /\ K \in Nat
  BY <1>1, Running DEF SpecIInv, AtStep
<1>3. Context \o draft = Context /\ Len(draft) = 0
  BY <1>1, <1>2, ConcatEmptySeq
<1>4. Proposes(Context \o draft)
  BY <1>1, <1>2, <1>3 DEF AtDraft
<1>5. qStack' = Append(OwnContexts, Context \o draft)
  <2>1. OwnContexts = <<>>
    <3>1. OwnContexts \in [1..0 -> {}]
      BY <1>3 DEF OwnContexts
    <3>2. OwnContexts \in Seq({}) /\ Len(OwnContexts) = 0
      BY <3>1, ListFromFunction
    <3> QED BY <3>2, EmptySeq
  <2>2. qStack' = <<Context>>
    BY <1>1, <1>2 DEF AtDraft
  <2> QED BY <1>3, <2>1, <2>2
<1>6. Cached(dKV', dIds'[seq], dNum'[seq], Context \o draft)
  <2>1. Reached(Len(draft)) = Context
    <3>1. SubSeq(draft, 1, Len(draft) - 1) = <<>>
      BY <1>3, SubSeqEmpty
    <3> QED BY <1>2, <3>1, ConcatEmptySeq DEF Reached
  <2>2. Cached(dKV, dIds[seq], dNum[seq], Context)
    BY <1>2, <2>1 DEF AtDraft, DrfAt
  <2> QED BY <1>1, <1>3, <2>2 DEF dPool
<1>7. DrfSide'
  <2>1. pc' \in {"idle", "allocate"} <=> pc \in {"idle", "allocate"}
    BY <1>1
  <2> QED BY <1>1, <1>2, <2>1, DrfSideRests
<1>8. pc' = IF Len(draft) + 1 = K THEN "verify" ELSE "draft"
  BY <1>1, <1>2, <1>3
<1> QED BY <1>1, <1>2, <1>4, <1>5, <1>6, <1>7, <1>8, ProposedInv

LEMMA DraftMoreInv == ASSUME SpecIInv, DraftMore PROVE SpecIInv'
<1> DEFINE row == DrfRow(<<Last(draft)>>, dNum[seq], 1)
<1>1. /\ pc = "draft" /\ draft # <<>> /\ qStack' = Append(qStack, row) /\ Proposes(row)
      /\ DrfForward(<<Last(draft)>>, dNum[seq])
      /\ pc' = (IF Len(draft) + 1 = K THEN "verify" ELSE "draft")
      /\ UNCHANGED <<callVars, raised, out, tPool, tKV, pNext, qNext,
                     pStack, pBonus, emitted, accepted, tgtStart, todo>>
  BY DEF DraftMore
<1>2. AtDraft /\ Context \in Seq(Tokens) /\ draft \in Seq(Tokens) /\ K \in Nat /\ seq \in dLive
      /\ Len(Context) = Len(prompt) + Len(out) /\ Len(prompt) \in Nat /\ Len(out) \in Nat /\ maxNew \in Nat
  BY <1>1, Running DEF SpecIInv, AtStep
<1>3. PICK n \in 1..Len(draft) : n = Len(draft) /\ Last(draft) = draft[n] /\ n \in Nat \ {0}
  <2>1. Len(draft) \in Nat \ {0}
    BY <1>1, <1>2, EmptySeq
  <2> QED BY <2>1 DEF Last
<1>4. PICK c \in Seq(Tokens), toks \in Seq(Tokens) :
        c = Reached(n) /\ toks = <<Last(draft)>> /\ c \o toks = Context \o draft /\ Len(toks) = 1 /\ SubSeq(toks, 1, 1) = toks
  <2>1. SubSeq(draft, 1, n - 1) \in Seq(Tokens) /\ draft[n] \in Tokens
    BY <1>2, <1>3, PrefixProperties, ElementOfSeq
  <2>2. Reached(n) \in Seq(Tokens) /\ <<Last(draft)>> \in Seq(Tokens)
    BY <1>2, <1>3, <2>1, JoinProperties DEF Reached
  <2>3. (Context \o SubSeq(draft, 1, n - 1)) \o <<draft[n]>> = Context \o SubSeq(draft, 1, n)
    BY <1>2, GrowPrefix
  <2>4. SubSeq(draft, 1, n) = draft
    BY <1>2, <1>3, SubSeqFull
  <2>5. Len(<<Last(draft)>>) = 1
    OBVIOUS
  <2>6. SubSeq(<<Last(draft)>>, 1, 1) = <<Last(draft)>>
    BY <2>2, <2>5, SubSeqFull
  <2> QED BY <1>3, <2>2, <2>3, <2>4, <2>5, <2>6 DEF Reached
<1>5. Drf!BMInv /\ Shaped(dKV, DrfBlocks) /\ dLive = {seq}
  BY <1>1 DEF SpecIInv, DrfSide
<1>6. dNum[seq] = Len(c) /\ Holds(dKV, dIds[seq], c, Len(c)) /\ Len(c) \in Nat
  BY <1>2, <1>3, <1>4, LenProperties DEF AtDraft, DrfAt, Cached
<1>7. /\ Drf!BMInv' /\ UNCHANGED dLive /\ Shaped(dKV', DrfBlocks)
      /\ Cached(dKV', dIds'[seq], dNum'[seq], c \o toks)
      /\ \A j \in 0..Len(toks) : DrfRow(toks, dNum[seq], j) = c \o SubSeq(toks, 1, j)
  <2>1. Len(c) <= dNum[seq] /\ dNum[seq] <= Len(c) + Len(toks) /\ dNum[seq] = Len(c)
    BY <1>4, <1>6
  <2>2. DrfForward(toks, dNum[seq])
    BY <1>1, <1>4
  <2>3. Drf!BMInv /\ seq \in dLive /\ Shaped(dKV, DrfBlocks) /\ Holds(dKV, dIds[seq], c, Len(c))
    BY <1>2, <1>5, <1>6
  <2> QED BY <2>1, <2>2, <2>3, DrfFeeds
<1>8. row = Context \o draft
  <2>1. DrfRow(toks, dNum[seq], 1) = c \o SubSeq(toks, 1, 1)
    BY <1>4, <1>7
  <2> QED BY <1>4, <2>1
<1> HIDE DEF row
<1>9. qStack = OwnContexts
  BY <1>1, <1>2 DEF AtDraft
<1>10. DrfSide'
  <2>1. dNum'[seq] = Len(Context) + n /\ n < K /\ Len(out) < maxNew
    <3>1. dNum'[seq] = Len(Context \o draft)
      BY <1>4, <1>7 DEF Cached
    <3>2. Len(Context \o draft) = Len(Context) + Len(draft)
      BY <1>2, JoinProperties
    <3>3. Len(out) < maxNew
      BY <1>2 DEF AtDraft, Deciding, Alone!Complete
    <3> QED BY <1>2, <1>3, <3>1, <3>2, <3>3 DEF AtDraft
  <2>2. dNum'[seq] <= Len(prompt) + maxNew + K
    BY <1>2, <1>3, <2>1
  <2>3. pc' \notin {"idle", "allocate"}
    BY <1>1
  <2> QED BY <1>1, <1>5, <1>7, <2>2, <2>3 DEF DrfSide, callVars
<1>11. Cached(dKV', dIds'[seq], dNum'[seq], Context \o draft) /\ Proposes(Context \o draft)
       /\ qStack' = Append(OwnContexts, Context \o draft)
  BY <1>1, <1>4, <1>7, <1>8, <1>9
<1> QED BY <1>1, <1>2, <1>10, <1>11, ProposedInv

\* Within a round the context stays, and so does what was drafted.
LEMMA RoundRests ==
  ASSUME UNCHANGED <<callVars, raised, out, draft>>
  PROVE  /\ Context' = Context /\ OwnContexts' = OwnContexts /\ Deciding' = Deciding /\ Drafted' = Drafted
         /\ seq' = seq /\ prompt' = prompt /\ maxNew' = maxNew
<1>1. Context' = Context
  BY DEF Context, callVars
<1>2. OwnContexts' = OwnContexts
  BY <1>1 DEF OwnContexts, Reached
<1>3. Deciding' = Deciding
  BY DEF Deciding, Alone!Complete, callVars
<1>4. Drafted' = Drafted
  BY <1>3 DEF Drafted
<1> QED BY <1>1, <1>2, <1>3, <1>4 DEF callVars

\* The contexts of the drafted tokens: as many as there are tokens.
LEMMA OwnContextsList ==
  ASSUME SpecIInv, pc # "idle"
  PROVE  /\ OwnContexts \in Seq(Seq(Tokens)) /\ Len(OwnContexts) = Len(draft) /\ Len(draft) \in Nat
         /\ DOMAIN OwnContexts = 1..Len(draft)
         /\ \A i \in 1..Len(draft) : OwnContexts[i] = Context \o SubSeq(draft, 1, i - 1)
<1>1. Context \in Seq(Tokens) /\ draft \in Seq(Tokens) /\ Len(draft) \in Nat
  BY Running, LenProperties
<1>2. ASSUME NEW i \in 1..Len(draft) PROVE Reached(i) \in Seq(Tokens)
  <2>1. i - 1 \in 0..Len(draft)
    BY <1>1
  <2>2. SubSeq(draft, 1, i - 1) \in Seq(Tokens)
    BY <1>1, <2>1, PrefixProperties
  <2> QED BY <1>1, <2>2, JoinProperties DEF Reached
<1>3. OwnContexts \in [1..Len(draft) -> Seq(Tokens)]
  BY <1>2 DEF OwnContexts
<1>4. OwnContexts \in Seq(Seq(Tokens)) /\ Len(OwnContexts) = Len(draft)
  BY <1>1, <1>3, ListFromFunction
<1>5. /\ DOMAIN OwnContexts = 1..Len(draft)
      /\ \A i \in 1..Len(draft) : OwnContexts[i] = Context \o SubSeq(draft, 1, i - 1)
  BY DEF OwnContexts, Reached
<1> QED BY <1>1, <1>4, <1>5

\* The rows of the verification, behind the carried distribution, belong to the
\* contexts of the drafted tokens.
LEMMA RowsOfDraft ==
  ASSUME NEW c \in Seq(Tokens), NEW d \in Seq(Tokens), NEW n \in Nat \ {0}, n = Len(d)
  PROVE  <<c>> \o [j \in 1..(n - 1) |-> c \o SubSeq(d, 1, j)] = [i \in 1..n |-> c \o SubSeq(d, 1, i - 1)]
<1> DEFINE rows == [j \in 1..(n - 1) |-> c \o SubSeq(d, 1, j)]
           own == [i \in 1..n |-> c \o SubSeq(d, 1, i - 1)]
<1>1. \A j \in 0..n : c \o SubSeq(d, 1, j) \in Seq(Tokens)
  <2> TAKE j \in 0..n
  <2>1. SubSeq(d, 1, j) \in Seq(Tokens)
    BY PrefixProperties
  <2> QED BY <2>1, JoinProperties
<1>2. n - 1 \in Nat /\ rows \in [1..(n - 1) -> Seq(Tokens)] /\ own \in [1..n -> Seq(Tokens)]
  <2>1. \A j \in 1..(n - 1) : j \in 0..n
    OBVIOUS
  <2>2. \A i \in 1..n : i - 1 \in 0..n
    OBVIOUS
  <2> QED BY <1>1, <2>1, <2>2
<1>3. \A j \in 1..(n - 1) : rows[j] = c \o SubSeq(d, 1, j)
  OBVIOUS
<1>4. \A i \in 1..n : own[i] = c \o SubSeq(d, 1, i - 1)
  OBVIOUS
<1> HIDE DEF rows, own
<1>5. rows \in Seq(Seq(Tokens)) /\ Len(rows) = n - 1
  BY <1>2, ListFromFunction
<1>6. own \in Seq(Seq(Tokens)) /\ Len(own) = n
  BY <1>2, ListFromFunction
<1>7. PICK first \in Seq(Seq(Tokens)) : first = <<c>> /\ Len(first) = 1 /\ first[1] = c
  <2>1. <<c>> \in Seq(Seq(Tokens)) /\ Len(<<c>>) = 1 /\ <<c>>[1] = c
    OBVIOUS
  <2> QED BY <2>1
<1>8. /\ first \o rows \in Seq(Seq(Tokens)) /\ Len(first \o rows) = n
      /\ \A i \in 1..1 : (first \o rows)[i] = first[i]
      /\ \A i \in 1..(n - 1) : (first \o rows)[1 + i] = rows[i]
  <2>1. PICK r \in Seq(Seq(Tokens)) : r = rows /\ Len(r) = n - 1
    BY <1>5
  <2>2. /\ first \o r \in Seq(Seq(Tokens)) /\ Len(first \o r) = Len(first) + Len(r)
        /\ \A i \in 1..Len(first) : (first \o r)[i] = first[i]
        /\ \A i \in 1..Len(r) : (first \o r)[Len(first) + i] = r[i]
    BY JoinProperties
  <2> QED BY <1>7, <2>1, <2>2
<1>9. ASSUME NEW i \in 1..n PROVE (first \o rows)[i] = own[i]
  <2>1. CASE i = 1
    <3>1. (first \o rows)[i] = c
      BY <1>7, <1>8, <2>1
    <3>2. SubSeq(d, 1, i - 1) = <<>>
      BY <2>1, SubSeqEmpty
    <3>3. c \o <<>> = c
      BY ConcatEmptySeq
    <3> QED BY <1>4, <3>1, <3>2, <3>3
  <2>2. CASE i # 1
    <3>1. PICK j \in 1..(n - 1) : j = i - 1 /\ i = 1 + j
      <4>1. i - 1 \in 1..(n - 1) /\ i = 1 + (i - 1)
        BY <2>2
      <4> QED BY <4>1
    <3> QED BY <1>3, <1>4, <1>8, <3>1
  <2> QED BY <2>1, <2>2
<1>10. first \o rows = own
  BY <1>6, <1>8, <1>9, SeqEqual
<1> QED BY <1>7, <1>10 DEF rows, own

LEMMA VerifyInv == ASSUME SpecIInv, Verify PROVE SpecIInv'
<1>1. /\ pc = "verify" /\ pc' = "reject" /\ tgtStart' = tNum[seq] /\ TgtForward(draft, tNum[seq])
      /\ pStack' = <<pNext>> \o [j \in 1..(K - 1) |-> TgtRow(draft, tNum[seq], j)]
      /\ pBonus' = TgtRow(draft, tNum[seq], K)
      /\ emitted' = <<>> /\ accepted' = -1
      /\ UNCHANGED <<callVars, raised, out, dPool, dKV, pNext, qNext, draft, qStack, todo>>
  BY DEF Verify
<1>2. AtVerify /\ DrfSide /\ Context \in Seq(Tokens) /\ draft \in Seq(Tokens) /\ K \in Nat \ {0} /\ seq \in tLive
      /\ Len(Context) = Len(prompt) + Len(out) /\ Len(prompt) \in Nat /\ Len(out) \in Nat /\ maxNew \in Nat
  BY <1>1, Running DEF SpecIInv, AtStep
<1>3. PICK c \in Seq(Tokens), d \in Seq(Tokens) : c = Context /\ d = draft /\ Len(d) = K
  BY <1>2 DEF AtVerify, Drafted
<1>4. /\ Tgt!BMInv /\ Shaped(tKV, TgtBlocks) /\ tLive = {seq}
      /\ tNum[seq] = Len(c) /\ Holds(tKV, tIds[seq], c, Len(c)) /\ Len(c) \in Nat
  BY <1>1, <1>2, <1>3, LenProperties DEF SpecIInv, TgtSide, AtVerify, TgtAt, Cached
<1>5. /\ Tgt!BMInv' /\ UNCHANGED tLive /\ Shaped(tKV', TgtBlocks)
      /\ Cached(tKV', tIds'[seq], tNum'[seq], c \o d)
      /\ \A j \in 0..Len(d) : TgtRow(d, tNum[seq], j) = c \o SubSeq(d, 1, j)
  <2>1. Len(c) <= tNum[seq] /\ tNum[seq] <= Len(c) + Len(d) /\ tNum[seq] = Len(c)
    BY <1>2, <1>3, <1>4
  <2>2. TgtForward(d, tNum[seq])
    BY <1>1, <1>3
  <2>3. Tgt!BMInv /\ seq \in tLive /\ Shaped(tKV, TgtBlocks) /\ Holds(tKV, tIds[seq], c, Len(c))
    BY <1>2, <1>4
  <2> QED BY <2>1, <2>2, <2>3, TgtFeeds
<1>6. \A j \in 0..K : TgtRow(draft, tNum[seq], j) = c \o SubSeq(d, 1, j)
  BY <1>3, <1>5
<1>7. pBonus' = Context \o draft
  <2>1. SubSeq(d, 1, K) = d
    BY <1>3, SubSeqFull
  <2>2. pBonus' = c \o SubSeq(d, 1, K)
    BY <1>1, <1>2, <1>6
  <2> QED BY <1>3, <2>1, <2>2
<1>8. pStack' = OwnContexts
  <2>1. [j \in 1..(K - 1) |-> TgtRow(draft, tNum[seq], j)] = [j \in 1..(K - 1) |-> c \o SubSeq(d, 1, j)]
    BY <1>2, <1>6
  <2>2. pNext = c
    BY <1>2, <1>3 DEF AtVerify
  <2>3. <<c>> \o [j \in 1..(K - 1) |-> c \o SubSeq(d, 1, j)] = [i \in 1..K |-> c \o SubSeq(d, 1, i - 1)]
    BY <1>2, <1>3, RowsOfDraft
  <2>4. OwnContexts = [i \in 1..K |-> c \o SubSeq(d, 1, i - 1)]
    BY <1>3 DEF OwnContexts, Reached
  <2> QED BY <1>1, <2>1, <2>2, <2>3, <2>4
<1>9. Context' = Context /\ OwnContexts' = OwnContexts /\ Drafted' = Drafted /\ UNCHANGED <<seq, prompt, maxNew>>
  BY <1>1, RoundRests
<1>10. TgtSide'
  <2>1. tNum'[seq] = Len(Context) + K /\ Len(out) < maxNew
    <3>1. tNum'[seq] = Len(c \o d)
      BY <1>5 DEF Cached
    <3>2. Len(c \o d) = Len(c) + Len(d)
      BY JoinProperties
    <3>3. Len(out) < maxNew
      BY <1>2 DEF AtVerify, Drafted, Deciding, Alone!Complete
    <3> QED BY <1>3, <3>1, <3>2, <3>3
  <2>2. tNum'[seq] <= Len(prompt) + maxNew + K
    BY <1>2, <2>1
  <2> QED BY <1>1, <1>4, <1>5, <1>9, <2>2 DEF TgtSide
<1>11. DrfSide'
  BY <1>1, <1>2, DrfSideRests
<1>12. Locals'
  BY <1>1, <1>2 DEF SpecIInv, Locals, callVars
<1>13. AtReject'
  <2>1. TgtAt(Context \o draft)'
    BY <1>1, <1>3, <1>5, <1>9 DEF TgtAt
  <2>2. DrfAt(Reached(K))'
    BY <1>1, <1>2, <1>9 DEF AtVerify, DrfAt, Reached, dPool
  <2>3. tgtStart' = Len(Context')
    BY <1>1, <1>3, <1>4, <1>9
  <2>4. CanEmit(emitted)' /\ Len(emitted') = 0 /\ Len(emitted') <= K
    BY <1>1, <1>2 DEF CanEmit
  <2>5. emitted' = SubSeq(draft', 1, Len(emitted'))
    <3>1. SubSeq(draft', 1, 0) = <<>>
      BY SubSeqEmpty
    <3> QED BY <1>1, <2>4, <3>1
  <2> QED BY <1>1, <1>2, <1>7, <1>8, <1>9, <2>1, <2>2, <2>3, <2>4, <2>5 DEF AtReject, AtVerify
<1> QED BY <1>1, <1>10, <1>11, <1>12, <1>13 DEF SpecIInv, AtStep

-----------------------------------------------------------------------------
\* The rejection test, the rollbacks and the resynchronisation.
\* What is accepted, and what replaces a rejected token, the target can emit.
LEMMA OutcomesPossible ==
  ASSUME NEW w \in [Tokens -> Nat], NEW v \in [Tokens -> Nat], NEW t
  PROVE  /\ t \in Tokens /\ Rej!AcceptUnits(w, v, t) > 0 => t \in Rej!Support(v)
         /\ t \in Rej!Support(Rej!Correction(w, v)) => t \in Rej!Support(v)
<1>1. ASSUME t \in Tokens, Rej!AcceptUnits(w, v, t) > 0 PROVE t \in Rej!Support(v)
  <2>1. w[t] \in Nat /\ v[t] \in Nat
    BY <1>1
  <2>2. ~(w[t] <= 0)
    <3>1. w[t] <= 0 => Rej!AcceptUnits(w, v, t) = w[t]
      BY DEF Rej!AcceptUnits
    <3> QED BY <1>1, <2>1, <3>1
  <2>3. Rej!AcceptUnits(w, v, t) = Rej!Min({w[t], v[t]})
    BY <2>2 DEF Rej!AcceptUnits
  <2>4. Rej!Min({w[t], v[t]}) <= v[t]
    <3>1. \E x \in {w[t], v[t]} : \A y \in {w[t], v[t]} : x <= y
      BY <2>1
    <3> QED BY <3>1 DEF Rej!Min
  <2>5. Rej!Min({w[t], v[t]}) \in {w[t], v[t]}
    <3>1. \E x \in {w[t], v[t]} : \A y \in {w[t], v[t]} : x <= y
      BY <2>1
    <3> QED BY <3>1 DEF Rej!Min
  <2>6. v[t] > 0
    BY <1>1, <2>1, <2>3, <2>4, <2>5
  <2> QED BY <1>1, <2>6 DEF Rej!Support
<1>2. ASSUME t \in Rej!Support(Rej!Correction(w, v)) PROVE t \in Rej!Support(v)
  <2> DEFINE resid == [u \in Tokens |-> Rej!Max({0, v[u] - w[u]})]
  <2>1. Rej!Correction(w, v) = resid \/ Rej!Correction(w, v) = v
    BY DEF Rej!Correction
  <2>2. CASE Rej!Correction(w, v) = resid
    <3>1. t \in Tokens /\ resid[t] > 0
      BY <1>2, <2>2 DEF Rej!Support
    <3>2. w[t] \in Nat /\ v[t] \in Nat
      BY <3>1
    <3>3. Rej!Max({0, v[t] - w[t]}) > 0
      BY <3>1
    <3>4. \E x \in {0, v[t] - w[t]} : \A y \in {0, v[t] - w[t]} : x >= y
      BY <3>2
    <3>5. Rej!Max({0, v[t] - w[t]}) \in {0, v[t] - w[t]}
      BY <3>4 DEF Rej!Max
    <3>6. v[t] > 0
      BY <3>2, <3>3, <3>5
    <3> QED BY <3>1, <3>6 DEF Rej!Support
  <2>3. CASE Rej!Correction(w, v) = v
    BY <1>2, <2>3
  <2> QED BY <2>1, <2>2, <2>3
<1> QED BY <1>1, <1>2

\* A list the target could emit grows by a token it could emit next.
LEMMA CanEmitMore ==
  ASSUME NEW l \in Seq(Tokens), NEW t \in Tokens, CanEmit(l), t \in Rej!Support(Target(Context \o l))
  PROVE  CanEmit(Append(l, t)) /\ Append(l, t) \in Seq(Tokens) /\ Len(Append(l, t)) = Len(l) + 1
         /\ SubSeq(Append(l, t), 1, Len(l)) = l
<1>1. /\ Append(l, t) \in Seq(Tokens) /\ Len(Append(l, t)) = Len(l) + 1 /\ Len(l) \in Nat
      /\ \A i \in 1..Len(l) : Append(l, t)[i] = l[i]
      /\ Append(l, t)[Len(l) + 1] = t
  BY AppendProperties, LenProperties
<1>2. \A m \in 0..Len(l) : SubSeq(Append(l, t), 1, m) = SubSeq(l, 1, m)
  BY PrefixOfAppend
<1>3. SubSeq(l, 1, Len(l)) = l
  BY SubSeqFull
<1>4. SubSeq(Append(l, t), 1, Len(l)) = l
  BY <1>1, <1>2, <1>3
<1>5. ASSUME NEW i \in 1..(Len(l) + 1)
      PROVE  Append(l, t)[i] \in Rej!Support(Target(Context \o SubSeq(Append(l, t), 1, i - 1)))
  <2>1. CASE i = Len(l) + 1
    <3>1. i - 1 = Len(l)
      BY <1>1, <2>1
    <3>2. SubSeq(Append(l, t), 1, i - 1) = l /\ Append(l, t)[i] = t
      BY <1>1, <1>4, <2>1, <3>1
    <3> QED BY <3>2
  <2>2. CASE i # Len(l) + 1
    <3>1. i \in 1..Len(l) /\ i - 1 \in 0..Len(l)
      BY <1>1, <2>2
    <3>2. l[i] \in Rej!Support(Target(Context \o SubSeq(l, 1, i - 1)))
      BY <3>1 DEF CanEmit
    <3>3. SubSeq(Append(l, t), 1, i - 1) = SubSeq(l, 1, i - 1) /\ Append(l, t)[i] = l[i]
      BY <1>1, <1>2, <3>1
    <3> QED BY <3>2, <3>3
  <2> QED BY <2>1, <2>2
<1> QED BY <1>1, <1>4, <1>5 DEF CanEmit

\* The position under test: its token and the two distributions it is tested with.
LEMMA UnderTest ==
  ASSUME SpecIInv, pc = "reject", Len(emitted) + 1 <= Len(draft)
  PROVE  LET i == Len(emitted) + 1
             w == Draft(Context \o emitted)
             v == Target(Context \o emitted)
         IN  /\ i \in 1..Len(draft) /\ i <= K /\ draft[i] \in Tokens
             /\ SubSeq(draft, 1, i) = Append(emitted, draft[i])
             /\ w \in [Tokens -> Nat] /\ v \in [Tokens -> Nat]
             /\ [j \in DOMAIN qStack |-> Draft(qStack[j])][i] = w
             /\ [j \in DOMAIN pStack |-> Target(pStack[j])][i] = v
<1> DEFINE i == Len(emitted) + 1
<1>1. /\ AtReject /\ draft \in Seq(Tokens) /\ emitted \in Seq(Tokens) /\ Context \in Seq(Tokens) /\ K \in Nat \ {0}
  BY Running DEF SpecIInv, AtStep
<1>2. Len(emitted) \in Nat /\ Len(draft) = K /\ Len(emitted) <= K
  BY <1>1, LenProperties DEF AtReject, Drafted
<1>3. i \in 1..Len(draft) /\ i - 1 = Len(emitted) /\ i <= K
  BY <1>1, <1>2
<1>4. emitted = SubSeq(draft, 1, i - 1)
  BY <1>1, <1>3 DEF AtReject
<1> HIDE DEF i
<1>5. draft[i] \in Tokens
  BY <1>1, <1>3, ElementOfSeq
<1>6. SubSeq(draft, 1, i) = Append(emitted, draft[i])
  <2>1. SubSeq(draft, 1, i - 1) \o <<draft[i]>> = SubSeq(draft, 1, i)
    BY <1>1, <1>3, GrowPrefix
  <2>2. Append(emitted, draft[i]) = emitted \o <<draft[i]>>
    BY <1>1, <1>5, AppendIsConcat
  <2> QED BY <1>4, <2>1, <2>2
<1>7. DOMAIN OwnContexts = 1..Len(draft) /\ OwnContexts[i] = Context \o emitted
  BY <1>3, <1>4, OwnContextsList
<1>8. qStack = OwnContexts /\ pStack = OwnContexts /\ Deciding
  BY <1>1 DEF AtReject, Drafted
<1>9. Draft(Context \o emitted) \in [Tokens -> Nat] /\ Target(Context \o emitted) \in [Tokens -> Nat]
  BY <1>1, <1>2, <1>8, ContextWeights
<1>10. /\ [j \in DOMAIN qStack |-> Draft(qStack[j])][i] = Draft(Context \o emitted)
       /\ [j \in DOMAIN pStack |-> Target(pStack[j])][i] = Target(Context \o emitted)
  BY <1>3, <1>7, <1>8
<1> QED BY <1>3, <1>5, <1>6, <1>9, <1>10 DEF i

LEMMA RejectInv == ASSUME SpecIInv, Reject PROVE SpecIInv'
<1>1. /\ pc = "reject" /\ (Rej!Accept \/ Rej!Correct \/ Rej!Bonus)
      /\ pc' = (IF accepted' = -1 THEN "reject" ELSE "rollT")
      /\ UNCHANGED <<callVars, raised, out, tPool, dPool, tKV, dKV, pNext, qNext,
                     draft, qStack, pStack, pBonus, tgtStart, todo>>
  BY DEF Reject, Rej!Tested
<1>2. /\ AtReject /\ TgtSide /\ DrfSide /\ Context \in Seq(Tokens) /\ draft \in Seq(Tokens)
      /\ emitted \in Seq(Tokens) /\ K \in Nat \ {0}
  BY <1>1, Running DEF SpecIInv, AtStep
<1>3. /\ Len(draft) = K /\ Len(emitted) \in Nat /\ Len(emitted) <= K /\ CanEmit(emitted) /\ accepted = -1
      /\ emitted = SubSeq(draft, 1, Len(emitted)) /\ Deciding
  BY <1>2, LenProperties DEF AtReject, Drafted
<1>4. Context' = Context /\ OwnContexts' = OwnContexts /\ Drafted' = Drafted /\ UNCHANGED <<seq, prompt, maxNew>>
  BY <1>1, RoundRests
<1>5. TgtSide' /\ DrfSide'
  <2>1. (pc' \in {"idle", "freeD"} <=> pc \in {"idle", "freeD"}) /\ (pc' \in {"idle", "allocate"} <=> pc \in {"idle", "allocate"})
    BY <1>1
  <2>2. TgtSide'
    BY <1>1, <1>2, <2>1, TgtSideRests
  <2>3. DrfSide'
    BY <1>1, <1>2, <2>1, DrfSideRests
  <2> QED BY <2>2, <2>3
<1>6. /\ TgtAt(Context \o draft)' /\ DrfAt(Reached(K))' /\ tgtStart' = Len(Context')
  BY <1>1, <1>2, <1>4 DEF AtReject, TgtAt, DrfAt, Reached, tPool, dPool
<1> DEFINE i == Len(emitted) + 1
           w == Draft(Context \o emitted)
           v == Target(Context \o emitted)
<1>7. ASSUME NEW t \in Tokens, t \in Rej!Support(v), emitted' = Append(emitted, t)
      PROVE  /\ emitted' \in Seq(Tokens) /\ Len(emitted') = Len(emitted) + 1 /\ CanEmit(emitted)'
             /\ SubSeq(emitted', 1, Len(emitted)) = emitted
  <2>1. /\ CanEmit(Append(emitted, t)) /\ Append(emitted, t) \in Seq(Tokens)
        /\ Len(Append(emitted, t)) = Len(emitted) + 1 /\ SubSeq(Append(emitted, t), 1, Len(emitted)) = emitted
    BY <1>2, <1>3, <1>7, CanEmitMore
  <2> QED BY <1>4, <1>7, <2>1 DEF CanEmit
<1>8. CASE Rej!Accept
  <2>1. /\ i <= Len(draft) /\ emitted' = Append(emitted, draft[i]) /\ accepted' = -1
        /\ Rej!AcceptUnits([j \in DOMAIN qStack |-> Draft(qStack[j])][i], [j \in DOMAIN pStack |-> Target(pStack[j])][i], draft[i]) > 0
    BY <1>3, <1>8 DEF Rej!Accept, Rej!Testing, Rej!Position
  <2>2. /\ i \in 1..Len(draft) /\ i <= K /\ draft[i] \in Tokens
        /\ SubSeq(draft, 1, i) = Append(emitted, draft[i])
        /\ w \in [Tokens -> Nat] /\ v \in [Tokens -> Nat]
        /\ [j \in DOMAIN qStack |-> Draft(qStack[j])][i] = w
        /\ [j \in DOMAIN pStack |-> Target(pStack[j])][i] = v
    BY <1>1, <2>1, UnderTest
  <2> HIDE DEF w, v
  <2>3. draft[i] \in Rej!Support(v)
    BY <2>1, <2>2, OutcomesPossible
  <2>4. /\ emitted' \in Seq(Tokens) /\ Len(emitted') = i /\ CanEmit(emitted)'
    BY <1>7, <2>1, <2>2, <2>3
  <2>5. emitted' = SubSeq(draft', 1, Len(emitted'))
    BY <1>1, <2>1, <2>2, <2>4
  <2>6. Locals'
    BY <1>1, <1>2, <2>1, <2>4 DEF SpecIInv, Locals, callVars
  <2>7. AtReject'
    BY <1>1, <1>2, <1>4, <1>6, <2>1, <2>2, <2>4, <2>5 DEF AtReject
  <2> QED BY <1>1, <1>5, <2>1, <2>6, <2>7 DEF SpecIInv, AtStep
<1>9. ASSUME NEW t \in Tokens, t \in Rej!Support(v), emitted' = Append(emitted, t), accepted' = Len(emitted)
      PROVE  SpecIInv'
  <2>1. /\ emitted' \in Seq(Tokens) /\ Len(emitted') = Len(emitted) + 1 /\ CanEmit(emitted)'
        /\ SubSeq(emitted', 1, Len(emitted)) = emitted
    BY <1>7, <1>9
  <2>2. accepted' \in 0..K /\ pc' = "rollT"
    BY <1>1, <1>2, <1>3, <1>9
  <2>3. Locals'
    BY <1>1, <1>2, <2>1, <2>2 DEF SpecIInv, Locals, callVars
  <2>4. Judged'
    <3>1. SubSeq(emitted', 1, accepted') = SubSeq(draft', 1, accepted')
      BY <1>1, <1>3, <1>9, <2>1
    <3>2. Drafted'
      BY <1>2, <1>4 DEF AtReject
    <3> QED BY <1>9, <2>1, <2>2, <3>1, <3>2 DEF Judged
  <2>5. AtRollT'
    BY <1>6, <2>4 DEF AtRollT
  <2> QED BY <1>5, <2>2, <2>3, <2>5 DEF SpecIInv, AtStep
<1>10. CASE Rej!Correct
  <2>1. /\ i <= Len(draft) /\ accepted' = Len(emitted)
        /\ \E t \in Rej!Support(Rej!Correction([j \in DOMAIN qStack |-> Draft(qStack[j])][i], [j \in DOMAIN pStack |-> Target(pStack[j])][i])) :
             emitted' = Append(emitted, t)
    BY <1>10 DEF Rej!Correct, Rej!Testing, Rej!Position
  <2>2. /\ w \in [Tokens -> Nat] /\ v \in [Tokens -> Nat]
        /\ [j \in DOMAIN qStack |-> Draft(qStack[j])][i] = w
        /\ [j \in DOMAIN pStack |-> Target(pStack[j])][i] = v
    BY <1>1, <2>1, UnderTest
  <2> HIDE DEF w, v, i
  <2>3. PICK t \in Rej!Support(Rej!Correction(w, v)) : emitted' = Append(emitted, t)
    BY <2>1, <2>2
  <2>4. t \in Rej!Support(v)
    BY <2>2, <2>3, OutcomesPossible
  <2>5. t \in Tokens
    BY <2>2, <2>4 DEF Rej!Support
  <2> QED BY <1>9, <2>1, <2>3, <2>4, <2>5
<1>11. CASE Rej!Bonus
  <2>1. /\ i > Len(draft) /\ accepted' = Len(draft)
        /\ \E t \in Rej!Support(Target(pBonus)) : emitted' = Append(emitted, t)
    BY <1>11 DEF Rej!Bonus, Rej!Position
  <2>2. Len(emitted) = K /\ accepted' = Len(emitted)
    <3>1. Len(emitted) + 1 > K /\ K \in Nat
      BY <1>2, <1>3, <2>1
    <3>a. Len(emitted) \in Nat /\ Len(emitted) <= K
      BY <1>3
    <3>2. Len(emitted) = K
      BY <3>1, <3>a
    <3> QED BY <1>3, <2>1, <3>2
  <2>3. emitted = draft
    BY <1>2, <1>3, <2>2, SubSeqFull
  <2>4. Target(pBonus) = v
    BY <1>2, <2>3 DEF AtReject
  <2>5. v \in [Tokens -> Nat]
    BY <1>1, <1>2, <1>3, ContextWeights
  <2> HIDE DEF v, i
  <2>6. PICK t \in Rej!Support(v) : emitted' = Append(emitted, t)
    BY <2>1, <2>4
  <2>7. t \in Tokens
    BY <2>5, <2>6 DEF Rej!Support
  <2> QED BY <1>9, <2>2, <2>6, <2>7
<1> QED BY <1>1, <1>8, <1>10, <1>11

\* What the verdict says of the emitted tokens: the accepted ones, and one more.
LEMMA Verdict ==
  ASSUME SpecIInv, Judged, pc # "idle"
  PROVE  /\ accepted \in 0..K /\ K \in Nat \ {0} /\ Len(draft) = K /\ Len(emitted) = accepted + 1
         /\ Last(emitted) \in Tokens /\ Last(emitted) = emitted[accepted + 1]
         /\ SubSeq(draft, 1, accepted) \in Seq(Tokens) /\ Len(SubSeq(draft, 1, accepted)) = accepted
         /\ Reached(accepted + 1) = Context \o SubSeq(draft, 1, accepted)
         /\ Reached(accepted + 1) \in Seq(Tokens) /\ Len(Reached(accepted + 1)) = Len(Context) + accepted
         /\ Reached(accepted + 1) \o <<Last(emitted)>> = Context \o emitted
         /\ Context \o emitted \in Seq(Tokens) /\ Len(Context \o emitted) = Len(Context) + accepted + 1
         /\ Len(out) < maxNew
<1>1. /\ draft \in Seq(Tokens) /\ emitted \in Seq(Tokens) /\ Context \in Seq(Tokens) /\ K \in Nat \ {0}
      /\ Len(out) \in Nat /\ maxNew \in Nat
  BY Running
<1>2. accepted \in 0..K /\ Len(draft) = K /\ Len(emitted) = accepted + 1
      /\ SubSeq(emitted, 1, accepted) = SubSeq(draft, 1, accepted) /\ Len(out) < maxNew
  BY <1>1 DEF Judged, Drafted, Deciding, Alone!Complete
<1>3. PICK n \in 1..Len(emitted) : n = accepted + 1 /\ n - 1 = accepted /\ Last(emitted) = emitted[n]
  <2>1. accepted + 1 \in 1..Len(emitted) /\ (accepted + 1) - 1 = accepted
    BY <1>1, <1>2
  <2> QED BY <1>2, <2>1 DEF Last
<1>4. Last(emitted) \in Tokens
  BY <1>1, <1>3, ElementOfSeq
<1>5. SubSeq(draft, 1, accepted) \in Seq(Tokens) /\ Len(SubSeq(draft, 1, accepted)) = accepted
  BY <1>1, <1>2, PrefixProperties
<1>6. Reached(accepted + 1) = Context \o SubSeq(draft, 1, accepted)
  <2>1. (accepted + 1) - 1 = accepted
    BY <1>1, <1>2
  <2> QED BY <2>1 DEF Reached
<1>7. Reached(accepted + 1) \in Seq(Tokens) /\ Len(Reached(accepted + 1)) = Len(Context) + accepted
  <2>1. PICK d \in Seq(Tokens) : d = SubSeq(draft, 1, accepted) /\ Len(d) = accepted
    BY <1>5
  <2>2. Context \o d \in Seq(Tokens) /\ Len(Context \o d) = Len(Context) + Len(d)
    BY <1>1, JoinProperties
  <2> QED BY <1>6, <2>1, <2>2
<1>8. Reached(accepted + 1) \o <<Last(emitted)>> = Context \o emitted
  <2>1. (Context \o SubSeq(emitted, 1, n - 1)) \o <<emitted[n]>> = Context \o SubSeq(emitted, 1, n)
    BY <1>1, GrowPrefix
  <2>2. SubSeq(emitted, 1, n) = emitted
    BY <1>1, <1>2, <1>3, SubSeqFull
  <2> QED BY <1>2, <1>3, <1>6, <2>1, <2>2
<1>9. Context \o emitted \in Seq(Tokens) /\ Len(Context \o emitted) = Len(Context) + accepted + 1
  <2>1. Context \o emitted \in Seq(Tokens) /\ Len(Context \o emitted) = Len(Context) + Len(emitted) /\ Len(Context) \in Nat
    BY <1>1, JoinProperties
  <2> QED BY <1>1, <1>2, <2>1
<1> QED BY <1>1, <1>2, <1>3, <1>4, <1>5, <1>6, <1>7, <1>8, <1>9

\* It stays what it is while the caches are brought in step.
LEMMA JudgedRests ==
  ASSUME Judged, UNCHANGED <<callVars, raised, out, draft, emitted, accepted>>
  PROVE  Judged'
<1>1. Context' = Context /\ Drafted' = Drafted
  BY RoundRests
<1> QED BY <1>1 DEF Judged, CanEmit

LEMMA RollTargetInv == ASSUME SpecIInv, RollTarget PROVE SpecIInv'
<1>1. /\ pc = "rollT" /\ pc' = "fixT" /\ Tgt!Truncate(seq, tgtStart + accepted)
      /\ UNCHANGED <<callVars, raised, out, dPool, tKV, dKV, roundVars>>
  BY DEF RollTarget
<1>2. /\ AtRollT /\ Judged /\ DrfSide /\ Context \in Seq(Tokens) /\ draft \in Seq(Tokens) /\ seq \in tLive /\ seq \in Calls
      /\ Len(Context) = Len(prompt) + Len(out) /\ Len(prompt) \in Nat /\ Len(out) \in Nat /\ maxNew \in Nat
  BY <1>1, Running DEF SpecIInv, AtStep, AtRollT
<1>3. /\ accepted \in 0..K /\ K \in Nat \ {0} /\ Len(draft) = K /\ Len(out) < maxNew
      /\ Reached(accepted + 1) = Context \o SubSeq(draft, 1, accepted)
      /\ Reached(accepted + 1) \in Seq(Tokens) /\ Len(Reached(accepted + 1)) = Len(Context) + accepted
  BY <1>1, <1>2, Verdict
<1>4. PICK c \in Seq(Tokens), s \in Seq(Tokens) : c = Reached(accepted + 1) /\ c \o s = Context \o draft
  <2>1. /\ SubSeq(draft, 1, accepted) \in Seq(Tokens) /\ SubSeq(draft, accepted + 1, Len(draft)) \in Seq(Tokens)
        /\ draft = SubSeq(draft, 1, accepted) \o SubSeq(draft, accepted + 1, Len(draft))
    BY <1>2, <1>3, Halves
  <2>2. Regroups(Context, SubSeq(draft, 1, accepted), SubSeq(draft, accepted + 1, Len(draft)))
    BY <1>2, <2>1, Joined
  <2>3. Reached(accepted + 1) \o SubSeq(draft, accepted + 1, Len(draft)) = Context \o draft
    BY <1>3, <2>1, <2>2 DEF Regroups
  <2> QED BY <1>3, <2>1, <2>3
<1>5. Tgt!BMInv /\ Shaped(tKV, TgtBlocks) /\ tLive = {seq} /\ Cached(tKV, tIds[seq], tNum[seq], c \o s)
  BY <1>1, <1>2, <1>4 DEF SpecIInv, TgtSide, AtRollT, TgtAt
<1>6. Len(c) = tgtStart + accepted
  BY <1>2, <1>3, <1>4 DEF AtRollT
<1>7. /\ Tgt!BMInv' /\ UNCHANGED tLive /\ Cached(tKV', tIds'[seq], tNum'[seq], c)
  <2>1. Tgt!Truncate(seq, Len(c))
    BY <1>1, <1>6
  <2>2. UNCHANGED tKV
    BY <1>1
  <2> QED BY <1>2, <1>5, <2>1, <2>2, TgtRollsBack
<1>8. Context' = Context /\ UNCHANGED <<seq, prompt, maxNew, draft, accepted>> /\ Judged'
  <2>1. UNCHANGED <<callVars, raised, out, draft, emitted, accepted>>
    BY <1>1 DEF roundVars
  <2>2. Context' = Context /\ UNCHANGED <<seq, prompt, maxNew>>
    BY <2>1, RoundRests
  <2>3. Judged'
    BY <1>2, <2>1, JudgedRests
  <2> QED BY <2>1, <2>2, <2>3
<1>9. TgtSide'
  <2>1. tNum'[seq] = Len(Context) + accepted
    BY <1>3, <1>4, <1>7 DEF Cached
  <2>2. tNum'[seq] <= Len(prompt) + maxNew + K
    BY <1>2, <1>3, <2>1
  <2> QED BY <1>1, <1>5, <1>7, <1>8, <2>2 DEF TgtSide, Shaped
<1>10. DrfSide'
  BY <1>1, <1>2, DrfSideRests
<1>11. Locals'
  BY <1>1 DEF SpecIInv, Locals, callVars, roundVars
<1>12. AtFixT'
  <2>1. TgtAt(Reached(accepted + 1))'
    BY <1>4, <1>7, <1>8 DEF TgtAt, Reached
  <2>2. DrfAt(Reached(K))' /\ tgtStart' = Len(Context')
    BY <1>1, <1>2, <1>8 DEF AtRollT, DrfAt, Reached, dPool, roundVars
  <2> QED BY <1>8, <2>1, <2>2 DEF AtFixT
<1> QED BY <1>1, <1>9, <1>10, <1>11, <1>12 DEF SpecIInv, AtStep

LEMMA FixTargetInv == ASSUME SpecIInv, FixTarget PROVE SpecIInv'
<1>1. /\ pc = "fixT" /\ pc' = "rollD" /\ TgtForward(<<Last(emitted)>>, tgtStart + accepted)
      /\ pNext' = TgtRow(<<Last(emitted)>>, tgtStart + accepted, 1)
      /\ UNCHANGED <<callVars, raised, out, dPool, dKV, qNext, roundVars>>
  BY DEF FixTarget
<1>2. /\ AtFixT /\ Judged /\ DrfSide /\ Context \in Seq(Tokens) /\ seq \in tLive
      /\ Len(Context) = Len(prompt) + Len(out) /\ Len(prompt) \in Nat /\ Len(out) \in Nat /\ maxNew \in Nat
  BY <1>1, Running DEF SpecIInv, AtStep, AtFixT
<1>3. /\ accepted \in 0..K /\ K \in Nat \ {0} /\ Len(out) < maxNew /\ Last(emitted) \in Tokens
      /\ Reached(accepted + 1) \in Seq(Tokens) /\ Len(Reached(accepted + 1)) = Len(Context) + accepted
      /\ Reached(accepted + 1) \o <<Last(emitted)>> = Context \o emitted
      /\ Len(Context \o emitted) = Len(Context) + accepted + 1
  BY <1>1, <1>2, Verdict
<1>4. PICK c \in Seq(Tokens), toks \in Seq(Tokens) :
        /\ c = Reached(accepted + 1) /\ toks = <<Last(emitted)>> /\ Len(toks) = 1 /\ SubSeq(toks, 1, 1) = toks
        /\ c \o toks = Context \o emitted
  <2>1. <<Last(emitted)>> \in Seq(Tokens) /\ Len(<<Last(emitted)>>) = 1
    BY <1>3
  <2>2. SubSeq(<<Last(emitted)>>, 1, 1) = <<Last(emitted)>>
    BY <2>1, SubSeqFull
  <2> QED BY <1>3, <2>1, <2>2
<1>5. /\ Tgt!BMInv /\ Shaped(tKV, TgtBlocks) /\ tLive = {seq}
      /\ tNum[seq] = Len(c) /\ Holds(tKV, tIds[seq], c, Len(c)) /\ Len(c) \in Nat /\ tgtStart + accepted = Len(c)
  BY <1>1, <1>2, <1>3, <1>4, LenProperties DEF SpecIInv, TgtSide, AtFixT, TgtAt, Cached
<1>6. /\ Tgt!BMInv' /\ UNCHANGED tLive /\ Shaped(tKV', TgtBlocks)
      /\ Cached(tKV', tIds'[seq], tNum'[seq], c \o toks)
      /\ \A j \in 0..Len(toks) : TgtRow(toks, tgtStart + accepted, j) = c \o SubSeq(toks, 1, j)
  <2>1. Len(c) <= tNum[seq] /\ tNum[seq] <= Len(c) + Len(toks) /\ tgtStart + accepted = Len(c)
    BY <1>4, <1>5
  <2>2. TgtForward(toks, tgtStart + accepted)
    BY <1>1, <1>4
  <2>3. Tgt!BMInv /\ seq \in tLive /\ Shaped(tKV, TgtBlocks) /\ Holds(tKV, tIds[seq], c, Len(c))
    BY <1>2, <1>5
  <2> QED BY <2>1, <2>2, <2>3, TgtFeeds
<1>7. pNext' = Context \o emitted
  <2>1. TgtRow(toks, tgtStart + accepted, 1) = c \o SubSeq(toks, 1, 1)
    BY <1>4, <1>6
  <2> QED BY <1>1, <1>4, <2>1
<1>8. Context' = Context /\ UNCHANGED <<seq, prompt, maxNew, draft, emitted>> /\ Judged'
  <2>1. UNCHANGED <<callVars, raised, out, draft, emitted, accepted>>
    BY <1>1 DEF roundVars
  <2>2. Context' = Context /\ UNCHANGED <<seq, prompt, maxNew>>
    BY <2>1, RoundRests
  <2>3. Judged'
    BY <1>2, <2>1, JudgedRests
  <2> QED BY <2>1, <2>2, <2>3
<1>9. TgtSide'
  <2>1. tNum'[seq] = Len(Context) + accepted + 1
    BY <1>3, <1>4, <1>6 DEF Cached
  <2>2. tNum'[seq] <= Len(prompt) + maxNew + K
    BY <1>2, <1>3, <2>1
  <2> QED BY <1>1, <1>5, <1>6, <1>8, <2>2 DEF TgtSide
<1>10. DrfSide'
  BY <1>1, <1>2, DrfSideRests
<1>11. Locals'
  BY <1>1 DEF SpecIInv, Locals, callVars, roundVars
<1>12. AtRollD'
  <2>1. TgtAt(Context \o emitted)'
    BY <1>4, <1>6, <1>8 DEF TgtAt
  <2>2. DrfAt(Reached(K))'
    BY <1>1, <1>2, <1>8 DEF AtFixT, DrfAt, Reached, dPool
  <2> QED BY <1>7, <1>8, <2>1, <2>2 DEF AtRollD
<1> QED BY <1>1, <1>9, <1>10, <1>11, <1>12 DEF SpecIInv, AtStep

\* What the draft has cached goes through the contexts of its proposals.
LEMMA ReachedSplits ==
  ASSUME NEW c \in Seq(Tokens), NEW d \in Seq(Tokens), NEW j \in 1..Len(d), NEW i \in 1..j
  PROVE  /\ c \o SubSeq(d, 1, i - 1) \in Seq(Tokens) /\ Len(c \o SubSeq(d, 1, i - 1)) = Len(c) + (i - 1)
         /\ \E s \in Seq(Tokens) : (c \o SubSeq(d, 1, i - 1)) \o s = c \o SubSeq(d, 1, j - 1)
<1>1. Len(d) \in Nat /\ j - 1 \in 0..Len(d) /\ i - 1 \in 0..(j - 1) /\ i - 1 \in 0..Len(d)
  BY LenProperties
<1>2. PICK h \in Seq(Tokens) : h = SubSeq(d, 1, j - 1) /\ Len(h) = j - 1
  BY <1>1, PrefixProperties
<1>3. SubSeq(h, 1, i - 1) = SubSeq(d, 1, i - 1)
  BY <1>1, <1>2, PrefixOfPrefix
<1>4. PICK x \in Seq(Tokens), s \in Seq(Tokens) : x = SubSeq(h, 1, i - 1) /\ Len(x) = i - 1 /\ h = x \o s
  <2>1. PICK n \in 0..Len(h) : n = i - 1
    BY <1>1, <1>2
  <2>2. /\ SubSeq(h, 1, n) \in Seq(Tokens) /\ SubSeq(h, n + 1, Len(h)) \in Seq(Tokens)
        /\ Len(SubSeq(h, 1, n)) = n /\ h = SubSeq(h, 1, n) \o SubSeq(h, n + 1, Len(h))
    BY Halves
  <2> QED BY <2>1, <2>2
<1>5. c \o x \in Seq(Tokens) /\ Len(c \o x) = Len(c) + Len(x)
  BY JoinProperties
<1>6. Regroups(c, x, s)
  BY Joined
<1>7. (c \o x) \o s = c \o h
  BY <1>4, <1>6 DEF Regroups
<1> QED BY <1>2, <1>3, <1>4, <1>5, <1>7

LEMMA RollDraftInv == ASSUME SpecIInv, RollDraft PROVE SpecIInv'
<1> DEFINE m == IF accepted <= K - 1 THEN accepted ELSE K - 1
           i == IF accepted <= K - 1 THEN accepted + 1 ELSE K
<1>1. /\ pc = "rollD" /\ pc' = "fixD" /\ Drf!Truncate(seq, Len(prompt) + Len(out) + m)
      /\ UNCHANGED <<callVars, raised, out, tPool, tKV, dKV, pNext, qNext, roundVars>>
  BY DEF RollDraft
<1>2. /\ AtRollD /\ Judged /\ TgtSide /\ Context \in Seq(Tokens) /\ draft \in Seq(Tokens) /\ seq \in dLive /\ seq \in Calls
      /\ Len(Context) = Len(prompt) + Len(out) /\ Len(prompt) \in Nat /\ Len(out) \in Nat /\ maxNew \in Nat
  BY <1>1, Running DEF SpecIInv, AtStep, AtRollD
<1>3. accepted \in 0..K /\ K \in Nat \ {0} /\ Len(draft) = K /\ Len(out) < maxNew
  BY <1>1, <1>2, Verdict
<1>4. i \in 1..K /\ K \in 1..Len(draft) /\ i - 1 = m /\ m \in Nat /\ m < K
  BY <1>3
<1>5. DrfAt(Reached(i))' <=> Cached(dKV', dIds'[seq'], dNum'[seq'], Reached(i)')
  BY DEF DrfAt
<1>6. Context' = Context /\ UNCHANGED <<seq, prompt, maxNew, draft, emitted, accepted>> /\ Judged'
  <2>1. UNCHANGED <<callVars, raised, out, draft, emitted, accepted>>
    BY <1>1 DEF roundVars
  <2>2. Context' = Context /\ UNCHANGED <<seq, prompt, maxNew>>
    BY <2>1, RoundRests
  <2>3. Judged'
    BY <1>2, <2>1, JudgedRests
  <2> QED BY <2>1, <2>2, <2>3
<1>7. Reached(i)' = Reached(i)
  BY <1>6 DEF Reached
<1>8. PICK n \in 1..K : n = i
  BY <1>4
<1> HIDE DEF m, i
<1>9. PICK c \in Seq(Tokens), s \in Seq(Tokens) :
        c = Reached(i) /\ c \o s = Reached(K) /\ Len(c) = Len(prompt) + Len(out) + m
  <2>1. /\ Reached(n) \in Seq(Tokens) /\ Len(Reached(n)) = Len(Context) + (n - 1)
        /\ \E s \in Seq(Tokens) : Reached(n) \o s = Reached(K)
    <3>1. PICK x \in Seq(Tokens), d \in Seq(Tokens) : x = Context /\ d = draft
      BY <1>2
    <3>2. PICK j \in 1..Len(d) : j = K
      BY <1>4, <3>1
    <3>3. n \in 1..j
      BY <3>2
    <3>4. /\ x \o SubSeq(d, 1, n - 1) \in Seq(Tokens) /\ Len(x \o SubSeq(d, 1, n - 1)) = Len(x) + (n - 1)
          /\ \E s \in Seq(Tokens) : (x \o SubSeq(d, 1, n - 1)) \o s = x \o SubSeq(d, 1, j - 1)
      BY <3>3, ReachedSplits
    <3> QED BY <3>1, <3>2, <3>4 DEF Reached
  <2>2. Len(Reached(n)) = Len(prompt) + Len(out) + m
    BY <1>2, <1>4, <1>8, <2>1
  <2> QED BY <1>8, <2>1, <2>2
<1>10. Drf!BMInv /\ Shaped(dKV, DrfBlocks) /\ dLive = {seq} /\ Cached(dKV, dIds[seq], dNum[seq], c \o s)
  BY <1>1, <1>2, <1>9 DEF SpecIInv, DrfSide, AtRollD, DrfAt
<1>11. /\ Drf!BMInv' /\ UNCHANGED dLive /\ Cached(dKV', dIds'[seq], dNum'[seq], c)
  <2>1. Drf!Truncate(seq, Len(c))
    BY <1>1, <1>9
  <2>2. UNCHANGED dKV
    BY <1>1
  <2> QED BY <1>2, <1>10, <2>1, <2>2, DrfRollsBack
<1>12. DrfSide'
  <2>1. dNum'[seq] = Len(prompt) + Len(out) + m
    BY <1>9, <1>11 DEF Cached
  <2>2. dNum'[seq] <= Len(prompt) + maxNew + K
    BY <1>2, <1>3, <1>4, <2>1
  <2> QED BY <1>1, <1>6, <1>10, <1>11, <2>2 DEF DrfSide, Shaped
<1>13. TgtSide'
  BY <1>1, <1>2, TgtSideRests
<1>14. Locals'
  BY <1>1 DEF SpecIInv, Locals, callVars, roundVars
<1>15. AtFixD'
  <2>1. DrfAt(Reached(i))'
    BY <1>5, <1>6, <1>7, <1>9, <1>11
  <2>2. TgtAt(Context \o emitted)' /\ pNext' = Context' \o emitted'
    BY <1>1, <1>2, <1>6 DEF AtRollD, TgtAt, tPool
  <2> QED BY <1>6, <2>1, <2>2 DEF AtFixD, i
<1> QED BY <1>1, <1>12, <1>13, <1>14, <1>15 DEF SpecIInv, AtStep

\* Two tokens fed one after the other.
LEMMA JoinedPair == ASSUME NEW T, NEW a \in T, NEW b \in T PROVE <<a>> \o <<b>> = <<a, b>>
<1>1. <<a>> \in Seq(T)
  OBVIOUS
<1>2. Append(<<a>>, b) = <<a>> \o <<b>>
  BY <1>1, AppendIsConcat
<1>3. Append(<<a>>, b) \in Seq(T) /\ Len(Append(<<a>>, b)) = 2 /\ Append(<<a>>, b)[1] = a /\ Append(<<a>>, b)[2] = b
  <2>1. Len(<<a>>) = 1 /\ <<a>>[1] = a /\ 1 \in 1..Len(<<a>>) /\ Len(<<a>>) + 1 = 2
    OBVIOUS
  <2> QED BY <1>1, <2>1, AppendProperties
<1>4. <<a, b>> \in Seq(T) /\ Len(<<a, b>>) = 2 /\ <<a, b>>[1] = a /\ <<a, b>>[2] = b
  OBVIOUS
<1>5. \A i \in 1..2 : Append(<<a>>, b)[i] = <<a, b>>[i]
  <2>1. \A i \in 1..2 : i = 1 \/ i = 2
    OBVIOUS
  <2> QED BY <1>3, <1>4, <2>1
<1>6. Append(<<a>>, b) = <<a, b>>
  BY <1>3, <1>4, <1>5, SeqEqual
<1> QED BY <1>2, <1>6

\* What is fed to the draft brings it to the context of the emitted tokens.
LEMMA ResyncCompletes ==
  ASSUME SpecIInv, pc # "idle", Judged
  PROVE  LET i == IF accepted <= K - 1 THEN accepted + 1 ELSE K
         IN  /\ Reached(i) \in Seq(Tokens) /\ DraftResync \in Seq(Tokens)
             /\ Reached(i) \o DraftResync = Context \o emitted
<1>1. /\ draft \in Seq(Tokens) /\ Context \in Seq(Tokens)
      /\ accepted \in 0..K /\ K \in Nat \ {0} /\ Len(draft) = K /\ Last(emitted) \in Tokens
      /\ Reached(accepted + 1) \in Seq(Tokens)
      /\ Reached(accepted + 1) \o <<Last(emitted)>> = Context \o emitted
  BY Running, Verdict
<1>2. CASE accepted <= K - 1
  <2>1. DraftResync = <<Last(emitted)>> /\ DraftResync \in Seq(Tokens)
    BY <1>1, <1>2 DEF DraftResync
  <2> QED BY <1>1, <1>2, <2>1
<1>3. CASE ~(accepted <= K - 1)
  <2>1. accepted = K /\ K \in 1..Len(draft) /\ (K + 1) - 1 = K
    BY <1>1, <1>3
  <2>2. draft[K] \in Tokens
    BY <1>1, <2>1, ElementOfSeq
  <2>3. PICK a \in Seq(Tokens), b \in Seq(Tokens) :
          a = <<draft[K]>> /\ b = <<Last(emitted)>> /\ a \o b = <<draft[K], Last(emitted)>>
    <3>1. <<draft[K]>> \in Seq(Tokens) /\ <<Last(emitted)>> \in Seq(Tokens)
      BY <1>1, <2>2
    <3>2. <<draft[K]>> \o <<Last(emitted)>> = <<draft[K], Last(emitted)>>
      BY <1>1, <2>2, JoinedPair
    <3> QED BY <3>1, <3>2
  <2>4. DraftResync = a \o b /\ a \o b \in Seq(Tokens)
    <3>1. a \o b \in Seq(Tokens)
      BY JoinProperties
    <3> QED BY <1>3, <2>3, <3>1 DEF DraftResync
  <2>5. PICK c \in Seq(Tokens) : c = Reached(K)
    <3>1. SubSeq(draft, 1, K - 1) \in Seq(Tokens)
      BY <1>1, PrefixProperties
    <3> QED BY <1>1, <3>1, JoinProperties DEF Reached
  <2>6. c \o a = Reached(accepted + 1)
    <3>1. (Context \o SubSeq(draft, 1, K - 1)) \o <<draft[K]>> = Context \o SubSeq(draft, 1, K)
      <4>1. PICK x \in Seq(Tokens), d \in Seq(Tokens) : x = Context /\ d = draft
        BY <1>1
      <4>2. PICK n \in 1..Len(d) : n = K
        BY <2>1, <4>1
      <4>3. (x \o SubSeq(d, 1, n - 1)) \o <<d[n]>> = x \o SubSeq(d, 1, n)
        BY GrowPrefix
      <4> QED BY <4>1, <4>2, <4>3
    <3> QED BY <2>1, <2>3, <2>5, <3>1 DEF Reached
  <2>7. (c \o a) \o b = c \o (a \o b)
    <3>1. Regroups(c, a, b)
      BY Joined
    <3> QED BY <3>1 DEF Regroups
  <2>8. c \o (a \o b) = Context \o emitted
    BY <1>1, <2>3, <2>6, <2>7
  <2> QED BY <1>3, <2>4, <2>5, <2>8
<1> QED BY <1>2, <1>3

LEMMA FixDraftInv == ASSUME SpecIInv, FixDraft PROVE SpecIInv'
<1> DEFINE i == IF accepted <= K - 1 THEN accepted + 1 ELSE K
<1>1. /\ pc = "fixD" /\ pc' = "emit" /\ todo' = emitted /\ DrfForward(DraftResync, dNum[seq])
      /\ qNext' = DrfRow(DraftResync, dNum[seq], Len(DraftResync))
      /\ UNCHANGED <<callVars, raised, out, tPool, tKV, pNext,
                     draft, qStack, pStack, pBonus, emitted, accepted, tgtStart>>
  BY DEF FixDraft
<1>2. /\ AtFixD /\ Judged /\ TgtSide /\ Context \in Seq(Tokens) /\ emitted \in Seq(Tokens) /\ seq \in dLive
      /\ Len(Context) = Len(prompt) + Len(out) /\ Len(prompt) \in Nat /\ Len(out) \in Nat /\ maxNew \in Nat
  BY <1>1, Running DEF SpecIInv, AtStep, AtFixD
<1>3. /\ accepted \in 0..K /\ K \in Nat \ {0} /\ Len(emitted) = accepted + 1 /\ Len(out) < maxNew
      /\ Len(Context \o emitted) = Len(Context) + accepted + 1
  BY <1>1, <1>2, Verdict
<1>4. Reached(i) \in Seq(Tokens) /\ DraftResync \in Seq(Tokens) /\ Reached(i) \o DraftResync = Context \o emitted
  BY <1>1, <1>2, ResyncCompletes
<1>5. DrfAt(Reached(i))
  BY <1>2 DEF AtFixD
<1> HIDE DEF i
<1>6. PICK c \in Seq(Tokens), toks \in Seq(Tokens) :
        c = Reached(i) /\ toks = DraftResync /\ c \o toks = Context \o emitted
  BY <1>4
<1>7. /\ Drf!BMInv /\ Shaped(dKV, DrfBlocks) /\ dLive = {seq}
      /\ dNum[seq] = Len(c) /\ Holds(dKV, dIds[seq], c, Len(c)) /\ Len(c) \in Nat /\ Len(toks) \in Nat
  BY <1>1, <1>5, <1>6, LenProperties DEF SpecIInv, DrfSide, DrfAt, Cached
<1>8. /\ Drf!BMInv' /\ UNCHANGED dLive /\ Shaped(dKV', DrfBlocks)
      /\ Cached(dKV', dIds'[seq], dNum'[seq], c \o toks)
      /\ \A j \in 0..Len(toks) : DrfRow(toks, dNum[seq], j) = c \o SubSeq(toks, 1, j)
  <2>1. Len(c) <= dNum[seq] /\ dNum[seq] <= Len(c) + Len(toks) /\ dNum[seq] = Len(c)
    BY <1>7
  <2>2. DrfForward(toks, dNum[seq])
    BY <1>1, <1>6
  <2>3. Drf!BMInv /\ seq \in dLive /\ Shaped(dKV, DrfBlocks) /\ Holds(dKV, dIds[seq], c, Len(c))
    BY <1>2, <1>7
  <2> QED BY <2>1, <2>2, <2>3, DrfFeeds
<1>9. qNext' = Context \o emitted
  <2>1. DrfRow(toks, dNum[seq], Len(toks)) = c \o SubSeq(toks, 1, Len(toks))
    BY <1>7, <1>8
  <2>2. SubSeq(toks, 1, Len(toks)) = toks
    BY SubSeqFull
  <2> QED BY <1>1, <1>6, <2>1, <2>2
<1>10. Context' = Context /\ UNCHANGED <<seq, prompt, maxNew>> /\ Deciding'
  <2>1. Deciding
    BY <1>2 DEF Judged, Drafted
  <2> QED BY <1>1, <2>1, RoundRests
<1>11. DrfSide'
  <2>1. dNum'[seq] = Len(Context) + accepted + 1
    BY <1>3, <1>6, <1>8 DEF Cached
  <2>2. dNum'[seq] <= Len(prompt) + maxNew + K
    BY <1>2, <1>3, <2>1
  <2> QED BY <1>1, <1>7, <1>8, <1>10, <2>2 DEF DrfSide
<1>12. TgtSide'
  BY <1>1, <1>2, TgtSideRests
<1>13. Locals'
  BY <1>1, <1>2 DEF SpecIInv, Locals, callVars
<1>14. AtEmit'
  <2>1. DrfAt(Context \o todo)'
    BY <1>1, <1>6, <1>8, <1>10 DEF DrfAt
  <2>2. TgtAt(Context \o todo)' /\ pNext' = Context' \o todo'
    BY <1>1, <1>2, <1>10 DEF AtFixD, TgtAt, tPool
  <2>3. CanEmit(todo)'
    BY <1>1, <1>2, <1>10 DEF Judged, CanEmit
  <2>4. todo' # <<>>
    <3>1. Len(emitted) # 0
      BY <1>3
    <3> QED BY <1>1, <3>1, EmptySeq
  <2> QED BY <1>1, <1>9, <1>10, <2>1, <2>2, <2>3, <2>4 DEF AtEmit
<1> QED BY <1>1, <1>11, <1>12, <1>13, <1>14 DEF SpecIInv, AtStep

\* What is cut off a concatenation beyond its first part is cut off the second.
CutsAt(x, s) == \A m \in 0..Len(s) : SubSeq(x \o s, 1, Len(x) + m) = x \o SubSeq(s, 1, m)

LEMMA CutsAtJoin == ASSUME NEW x \in Seq(Tokens), NEW s \in Seq(Tokens) PROVE CutsAt(x, s)
  BY CutJoin DEF CutsAt

\* An emitted token moves from what is to be emitted to the context.
Moved(p, o, l) ==
         /\ Head(l) \in Tokens /\ Head(l) = l[1] /\ Tail(l) \in Seq(Tokens) /\ Len(l) \in Nat \ {0} /\ Len(Tail(l)) = Len(l) - 1
         /\ Append(o, Head(l)) \in Seq(Tokens) /\ Len(Append(o, Head(l))) = Len(o) + 1
         /\ Append(o, Head(l)) # <<>> /\ Last(Append(o, Head(l))) = Head(l)
         /\ \A i \in 1..Len(Tail(l)) : Tail(l)[i] = l[i + 1]
         /\ \A n \in 0..Len(Tail(l)) :
              (p \o Append(o, Head(l))) \o SubSeq(Tail(l), 1, n) = (p \o o) \o SubSeq(l, 1, n + 1)
         /\ (p \o Append(o, Head(l))) \o Tail(l) = (p \o o) \o l

LEMMA EmitMoves ==
  ASSUME NEW p \in Seq(Tokens), NEW o \in Seq(Tokens), NEW l \in Seq(Tokens), l # <<>>
  PROVE  Moved(p, o, l)
<1>1. /\ Head(l) \in Tokens /\ Head(l) = l[1] /\ Tail(l) \in Seq(Tokens) /\ Len(Tail(l)) = Len(l) - 1
      /\ \A i \in 1..(Len(l) - 1) : Tail(l)[i] = l[i + 1]
  BY HeadAndTail
<1>2. Len(l) \in Nat \ {0} /\ Len(o) \in Nat
  BY EmptySeq, LenProperties
<1>3. PICK h \in Tokens, t \in Seq(Tokens) : h = Head(l) /\ t = Tail(l) /\ Len(t) = Len(l) - 1
  BY <1>1
<1>4. /\ Append(o, h) \in Seq(Tokens) /\ Len(Append(o, h)) = Len(o) + 1 /\ Append(o, h) # <<>>
      /\ Append(o, h)[Len(o) + 1] = h /\ Append(o, h) = o \o <<h>>
  BY AppendProperties, AppendIsConcat
<1>5. Last(Append(o, h)) = h
  BY <1>4 DEF Last
<1>6. PICK one \in Seq(Tokens) : one = <<h>> /\ Len(one) = 1
  <2>1. <<h>> \in Seq(Tokens) /\ Len(<<h>>) = 1
    OBVIOUS
  <2> QED BY <2>1
<1>7. l = one \o t
  <2>1. 1 \in 1..Len(l) /\ Len(l) \in 1..Len(l)
    BY <1>2
  <2>2. SubSeq(l, 1, Len(l)) = <<l[1]>> \o SubSeq(l, 1 + 1, Len(l))
    BY <2>1, SubSeqRecursiveFirst
  <2>3. SubSeq(l, 1, Len(l)) = l
    BY SubSeqFull
  <2>4. Tail(l) = SubSeq(l, 2, Len(l))
    BY TailIsSubSeq
  <2> QED BY <1>1, <1>3, <1>6, <2>2, <2>3, <2>4
<1>8. ASSUME NEW s \in Seq(Tokens) PROVE (p \o Append(o, h)) \o s = (p \o o) \o (one \o s)
  <2>1. Regroups(p, o, one) /\ p \o o \in Seq(Tokens)
    BY Joined
  <2>2. p \o Append(o, h) = (p \o o) \o one
    BY <1>4, <1>6, <2>1 DEF Regroups
  <2>3. Regroups(p \o o, one, s)
    BY <2>1, Joined
  <2> QED BY <2>2, <2>3 DEF Regroups
<1>9. ASSUME NEW n \in 0..Len(t) PROVE (p \o Append(o, h)) \o SubSeq(t, 1, n) = (p \o o) \o SubSeq(l, 1, n + 1)
  <2>1. SubSeq(t, 1, n) \in Seq(Tokens)
    BY PrefixProperties
  <2>2. SubSeq(one \o t, 1, Len(one) + n) = one \o SubSeq(t, 1, n)
    <3>1. CutsAt(one, t)
      BY CutsAtJoin
    <3> QED BY <3>1 DEF CutsAt
  <2>3. Len(one) + n = n + 1
    BY <1>6
  <2> QED BY <1>7, <1>8, <2>1, <2>2, <2>3
<1>10. (p \o Append(o, h)) \o t = (p \o o) \o l
  BY <1>7, <1>8
<1> QED BY <1>1, <1>2, <1>3, <1>4, <1>5, <1>9, <1>10 DEF Moved

LEMMA EmitInv == ASSUME SpecIInv, Emit PROVE SpecIInv'
<1> DEFINE h == Head(todo)
<1>1. /\ pc = "emit" /\ out' = Append(out, h) /\ todo' = Tail(todo) /\ draft' = <<>>
      /\ pc' = (IF Ends(h) THEN "finally" ELSE IF Len(todo) = 1 THEN "draft" ELSE "emit")
      /\ UNCHANGED <<callVars, raised, tPool, dPool, tKV, dKV, pNext, qNext,
                     qStack, pStack, pBonus, emitted, accepted, tgtStart>>
  BY DEF Emit
<1>2. /\ AtEmit /\ TgtSide /\ DrfSide /\ Context \in Seq(Tokens) /\ todo \in Seq(Tokens) /\ todo # <<>>
      /\ prompt \in Seq(Tokens) /\ out \in Seq(Tokens) /\ Len(out) \in Nat /\ maxNew \in Nat /\ K \in Nat \ {0}
  BY <1>1, Running DEF SpecIInv, AtStep, AtEmit
<1>3. PICK p \in Seq(Tokens), o \in Seq(Tokens), l \in Seq(Tokens) : p = prompt /\ o = out /\ l = todo /\ l # <<>>
  BY <1>2
<1>4. /\ Head(l) \in Tokens /\ Head(l) = l[1] /\ Tail(l) \in Seq(Tokens) /\ Len(l) \in Nat \ {0} /\ Len(Tail(l)) = Len(l) - 1
      /\ Append(o, Head(l)) \in Seq(Tokens) /\ Len(Append(o, Head(l))) = Len(o) + 1
      /\ Append(o, Head(l)) # <<>> /\ Last(Append(o, Head(l))) = Head(l)
      /\ \A i \in 1..Len(Tail(l)) : Tail(l)[i] = l[i + 1]
      /\ \A n \in 0..Len(Tail(l)) :
           (p \o Append(o, Head(l))) \o SubSeq(Tail(l), 1, n) = (p \o o) \o SubSeq(l, 1, n + 1)
      /\ (p \o Append(o, Head(l))) \o Tail(l) = (p \o o) \o l
  <2>1. l # <<>>
    BY <1>3
  <2>2. Moved(p, o, l)
    BY <2>1, EmitMoves
  <2> QED BY <2>2 DEF Moved
<1>5. /\ Context = p \o o /\ Context' = p \o Append(o, Head(l)) /\ h = Head(l) /\ todo' = Tail(l)
      /\ out' = Append(o, Head(l)) /\ prompt' = prompt /\ maxNew' = maxNew /\ seq' = seq
  BY <1>1, <1>3 DEF Context, callVars
<1>6. Context' \o todo' = Context \o todo
  BY <1>3, <1>4, <1>5
<1>7. TgtSide' /\ DrfSide'
  <2>1. (pc' \in {"idle", "freeD"} <=> pc \in {"idle", "freeD"}) /\ (pc' \in {"idle", "allocate"} <=> pc \in {"idle", "allocate"})
    BY <1>1
  <2>2. TgtSide'
    BY <1>1, <1>2, <2>1, TgtSideRests
  <2>3. DrfSide'
    BY <1>1, <1>2, <2>1, DrfSideRests
  <2> QED BY <2>2, <2>3
<1>8. Locals'
  <2>1. draft' \in Seq(Tokens) /\ Len(draft') = 0
    BY <1>1, EmptySeq
  <2>2. out' \in Seq(Tokens) /\ todo' \in Seq(Tokens)
    BY <1>4, <1>5
  <2> QED BY <1>1, <1>2, <2>1, <2>2 DEF SpecIInv, Locals, callVars
<1>9. CanEmit(todo)'
  <2>1. ASSUME NEW i \in 1..Len(Tail(l))
        PROVE  Tail(l)[i] \in Rej!Support(Target(Context' \o SubSeq(Tail(l), 1, i - 1)))
    <3>1. PICK n \in 0..Len(Tail(l)) : n = i - 1 /\ n + 1 = i /\ i + 1 \in 1..Len(l)
      <4>1. i - 1 \in 0..Len(Tail(l)) /\ (i - 1) + 1 = i /\ i + 1 \in 1..Len(l)
        BY <1>4
      <4> QED BY <4>1
    <3>2. Context' \o SubSeq(Tail(l), 1, n) = Context \o SubSeq(l, 1, n + 1)
      BY <1>4, <1>5
    <3>3. l[i + 1] \in Rej!Support(Target(Context \o SubSeq(l, 1, (i + 1) - 1)))
      BY <1>2, <1>3, <3>1 DEF AtEmit, CanEmit
    <3>4. (i + 1) - 1 = n + 1 /\ Tail(l)[i] = l[i + 1]
      BY <1>4, <3>1
    <3> QED BY <3>1, <3>2, <3>3, <3>4
  <2> QED BY <1>5, <2>1 DEF CanEmit
<1>10. Cached(tKV', tIds'[seq'], tNum'[seq'], Context' \o todo') /\ Cached(dKV', dIds'[seq'], dNum'[seq'], Context' \o todo')
       /\ pNext' = Context' \o todo' /\ qNext' = Context' \o todo'
  BY <1>1, <1>2, <1>5, <1>6 DEF AtEmit, TgtAt, DrfAt, tPool, dPool
<1>11. Alone!Complete' <=> Ends(h)
  <2>1. Alone!Last(out') = h
    <3>1. Alone!Last(out') = out'[Len(out')] /\ Last(out') = out'[Len(out')]
      BY DEF Alone!Last, Last
    <3> QED BY <1>4, <1>5, <3>1
  <2>2. out' # <<>> /\ Len(out') = Len(out) + 1
    BY <1>3, <1>4, <1>5
  <2> QED BY <1>5, <2>1, <2>2 DEF Alone!Complete, Ends
<1> HIDE DEF h
<1>12. CASE Ends(h)
  <2>1. pc' = "finally" /\ AtFinally'
    BY <1>1, <1>11, <1>12 DEF AtFinally
  <2> QED BY <1>7, <1>8, <2>1 DEF SpecIInv, AtStep
<1>13. CASE ~Ends(h)
  <2>1. Deciding'
    BY <1>1, <1>2, <1>11, <1>13 DEF Deciding, AtEmit
  <2>2. CASE Len(todo) = 1
    <3>1. pc' = "draft"
      BY <1>1, <1>13, <2>2
    <3>2. todo' = <<>>
      <4>1. Len(todo') = 0 /\ todo' \in Seq(Tokens)
        BY <1>3, <1>4, <1>5, <2>2
      <4> QED BY <4>1, EmptySeq
    <3>3. Context' \in Seq(Tokens)
      BY <1>4, <1>5, JoinProperties
    <3>4. Context' \o todo' = Context'
      BY <3>2, <3>3, ConcatEmptySeq
    <3>5. Len(draft') = 0
      BY <1>1
    <3>6. Reached(Len(draft))' = Context'
      <4>1. Reached(Len(draft))' = Context' \o SubSeq(draft', 1, 0 - 1)
        BY <3>5 DEF Reached
      <4>2. SubSeq(draft', 1, 0 - 1) = <<>>
        BY SubSeqEmpty
      <4> QED BY <3>3, <4>1, <4>2, ConcatEmptySeq
    <3>7. TgtAt(Context)' /\ DrfAt(Reached(Len(draft)))'
      BY <1>10, <3>4, <3>6 DEF TgtAt, DrfAt
    <3>8. AtDraft'
      BY <1>1, <1>2, <1>10, <2>1, <3>4, <3>5, <3>7 DEF AtDraft
    <3> QED BY <1>7, <1>8, <3>1, <3>8 DEF SpecIInv, AtStep
  <2>3. CASE Len(todo) # 1
    <3>1. pc' = "emit"
      BY <1>1, <1>13, <2>3
    <3>2. todo' # <<>>
      <4>1. Len(todo') # 0
        BY <1>3, <1>4, <1>5, <2>3
      <4> QED BY <4>1, EmptySeq
    <3>3. TgtAt(Context \o todo)' /\ DrfAt(Context \o todo)'
      BY <1>10 DEF TgtAt, DrfAt
    <3>4. AtEmit'
      BY <1>9, <1>10, <2>1, <3>2, <3>3 DEF AtEmit
    <3> QED BY <1>7, <1>8, <3>1, <3>4 DEF SpecIInv, AtStep
  <2> QED BY <2>2, <2>3
<1> QED BY <1>12, <1>13

-----------------------------------------------------------------------------
\* Every step keeps the invariant.
LEMMA NextIInv == ASSUME SpecIInv, Next PROVE SpecIInv'
<1>1. ASSUME NEW c \in Prompts, NEW m \in MaxNews, AllocateTarget(c, m) PROVE SpecIInv'
  BY <1>1, AllocateTargetInv
<1>2. ASSUME NEW c \in Prompts, AllocateRaises(c) PROVE SpecIInv'
  BY <1>2, AllocateRaisesInv
<1>3. CASE AllocateDraft \/ PrefillTarget \/ PrefillDraft
  BY <1>3, AllocateDraftInv, PrefillTargetInv, PrefillDraftInv
<1>4. CASE DraftFirst \/ DraftMore \/ Verify \/ Reject
  BY <1>4, DraftFirstInv, DraftMoreInv, VerifyInv, RejectInv
<1>5. CASE RollTarget \/ FixTarget \/ RollDraft \/ FixDraft \/ Emit
  BY <1>5, RollTargetInv, FixTargetInv, RollDraftInv, FixDraftInv, EmitInv
<1>6. CASE TargetRaises \/ DraftRaises \/ FreeTarget \/ FreeDraft
  BY <1>6, RaisesInv, FreeTargetInv, FreeDraftInv
<1> QED BY <1>1, <1>2, <1>3, <1>4, <1>5, <1>6, Zenon DEF Next

LEMMA StutterIInv == ASSUME SpecIInv, UNCHANGED vars PROVE SpecIInv'
<1>1. /\ UNCHANGED <<tPool, dPool, tKV, dKV, callVars, pc>> /\ TgtSide /\ DrfSide
      /\ UNCHANGED <<seq, prompt, maxNew, raised, out, pNext, qNext, draft, qStack, pStack, pBonus,
                     emitted, accepted, tgtStart, todo>>
  BY DEF SpecIInv, vars, callVars, roundVars
<1>2. TgtSide' /\ DrfSide'
  BY <1>1, TgtSideRests, DrfSideRests
<1>3. Locals'
  BY <1>1 DEF SpecIInv, Locals
<1>4. AtStep'
  <2>1. Context' = Context /\ OwnContexts' = OwnContexts /\ Deciding' = Deciding /\ Drafted' = Drafted
    BY <1>1, RoundRests
  <2>2. \A c : (TgtAt(c) => Cached(tKV', tIds'[seq'], tNum'[seq'], c)) /\ (DrfAt(c) => Cached(dKV', dIds'[seq'], dNum'[seq'], c))
    BY <1>1 DEF TgtAt, DrfAt, tPool, dPool
  <2>3. Judged => Judged'
    BY <1>1, JudgedRests
  <2>4. AtAllocate => AtAllocate'
    BY <1>1 DEF AtAllocate, Drf!AllocateFails, Drf!NewBlocks, Drf!BlocksNeeded, tPool, dPool
  <2>5. (AtPrefillT => AtPrefillT') /\ (AtPrefillD => AtPrefillD')
    BY <1>1, <2>2 DEF AtPrefillT, AtPrefillD, TgtAt, tPool, dPool
  <2>6. AtDraft => AtDraft'
    BY <1>1, <2>1, <2>2 DEF AtDraft, TgtAt, DrfAt, Reached
  <2>7. AtVerify => AtVerify'
    BY <1>1, <2>1, <2>2 DEF AtVerify, TgtAt, DrfAt, Reached
  <2>8. AtReject => AtReject'
    BY <1>1, <2>1, <2>2 DEF AtReject, TgtAt, DrfAt, Reached, CanEmit
  <2>9. AtRollT => AtRollT'
    BY <1>1, <2>1, <2>2, <2>3 DEF AtRollT, TgtAt, DrfAt, Reached
  <2>10. AtFixT => AtFixT'
    BY <1>1, <2>1, <2>2, <2>3 DEF AtFixT, TgtAt, DrfAt, Reached
  <2>11. AtRollD => AtRollD'
    BY <1>1, <2>1, <2>2, <2>3 DEF AtRollD, TgtAt, DrfAt, Reached
  <2>12. AtFixD => AtFixD'
    BY <1>1, <2>1, <2>2, <2>3 DEF AtFixD, TgtAt, DrfAt, Reached
  <2>13. AtEmit => AtEmit'
    BY <1>1, <2>1, <2>2 DEF AtEmit, TgtAt, DrfAt, CanEmit
  <2>14. AtFinally => AtFinally'
    BY <1>1 DEF AtFinally, Alone!Complete
  <2> QED BY <1>1, <2>4, <2>5, <2>6, <2>7, <2>8, <2>9, <2>10, <2>11, <2>12, <2>13, <2>14 DEF SpecIInv, AtStep
<1> QED BY <1>2, <1>3, <1>4 DEF SpecIInv

\* At every step of every call both caches hold what generate takes them to hold.
THEOREM SpeculativeInvariant == Spec => []SpecIInv
<1>1. Init => SpecIInv
  BY InitIInv
<1>2. SpecIInv /\ [Next]_vars => SpecIInv'
  BY NextIInv, StutterIInv
<1> QED BY <1>1, <1>2, PTL DEF Spec

-----------------------------------------------------------------------------
\* What is read off the invariant.

LEMMA SideTypes == ASSUME SpecIInv PROVE Tgt!BMTypeOK /\ Drf!BMTypeOK
BY DEF SpecIInv, TgtSide, DrfSide, Tgt!BMInv, Drf!BMInv

LEMMA LargerOfTwo == ASSUME NEW m \in Int PROVE Max({0, m}) = IF m >= 0 THEN m ELSE 0
<1>1. PICK x \in {0, m} : \A y \in {0, m} : x >= y
  <2>1. CASE m >= 0
    BY <2>1
  <2>2. CASE ~(m >= 0)
    BY <2>2
  <2> QED BY <2>1, <2>2
<1>2. Max({0, m}) \in {0, m} /\ \A y \in {0, m} : Max({0, m}) >= y
  BY <1>1, Zenon DEF Max
<1> QED BY <1>2

\* While it drafts, the draft model's cache is a prefix of the context and the
\* proposals.
LEMMA DraftBehind ==
  ASSUME SpecIInv, pc = "draft"
  PROVE  /\ Len(Reached(Len(draft))) = Len(Context) + Max({0, Len(draft) - 1})
         /\ \A n \in 1..Len(Reached(Len(draft))) :
              SubSeq(Reached(Len(draft)), 1, n) = SubSeq(Context \o draft, 1, n)
<1>1. Context \in Seq(Tokens) /\ draft \in Seq(Tokens)
  BY Running
<1>2. PICK c \in Seq(Tokens), d \in Seq(Tokens) : c = Context /\ d = draft
  BY <1>1
<1>3. Len(c) \in Nat /\ Len(d) \in Nat
  BY LenProperties
<1>4. PICK m \in Int : m = Len(d) - 1
  <2>1. Len(d) - 1 \in Int
    BY <1>3
  <2> QED BY <2>1
<1>5. PICK j \in 0..Len(d) : j = IF m >= 0 THEN m ELSE 0
  BY <1>3, <1>4
<1>6. PICK s \in Seq(Tokens) : s = SubSeq(d, 1, j) /\ Len(s) = j
  BY PrefixProperties
<1>7. SubSeq(d, 1, m) = s
  <2>1. CASE m >= 0
    BY <1>5, <1>6, <2>1
  <2>2. CASE ~(m >= 0)
    <3>1. j = 0 /\ m < 1 /\ 0 < 1
      BY <1>5, <2>2
    <3>2. SubSeq(d, 1, m) = <<>> /\ SubSeq(d, 1, 0) = <<>>
      BY <3>1, SubSeqEmpty
    <3> QED BY <1>6, <3>1, <3>2
  <2> QED BY <2>1, <2>2
<1>8. Reached(Len(draft)) = c \o s
  BY <1>2, <1>4, <1>7 DEF Reached
<1>9. PICK r \in Seq(Tokens) : r = c \o s /\ Len(r) = Len(c) + j
  <2>1. c \o s \in Seq(Tokens) /\ Len(c \o s) = Len(c) + Len(s)
    BY JoinProperties
  <2> QED BY <1>6, <2>1
<1>10. SubSeq(c \o d, 1, Len(c) + j) = r
  <2>1. CutsAt(c, d)
    BY CutsAtJoin
  <2> QED BY <1>6, <1>9, <2>1 DEF CutsAt
<1>11. PICK w \in Seq(Tokens) : w = c \o d /\ Len(w) = Len(c) + Len(d)
  BY JoinProperties
<1>12. PICK k \in 0..Len(w) : k = Len(r) /\ k = Len(c) + j
  <2>1. Len(r) = Len(c) + j /\ Len(w) = Len(c) + Len(d)
    BY <1>9, <1>11
  <2>2. Len(c) + j \in 0..(Len(c) + Len(d))
    BY <1>3
  <2> QED BY <2>1, <2>2
<1>13. ASSUME NEW n \in 1..Len(r) PROVE SubSeq(r, 1, n) = SubSeq(w, 1, n)
  <2>1. n \in 0..k
    BY <1>12
  <2>2. SubSeq(SubSeq(w, 1, k), 1, n) = SubSeq(w, 1, n)
    BY <2>1, PrefixOfPrefix
  <2>3. SubSeq(w, 1, k) = r
    BY <1>10, <1>11, <1>12
  <2> QED BY <2>2, <2>3
<1>14. Max({0, Len(draft) - 1}) = j
  BY <1>2, <1>4, <1>5, LargerOfTwo
<1>15. Reached(Len(draft)) = r /\ Context \o draft = w
  BY <1>2, <1>8, <1>9, <1>11
<1> QED BY <1>2, <1>9, <1>13, <1>14, <1>15

LEMMA InvInStep == SpecIInv => SpecInv
<1> SUFFICES ASSUME SpecIInv PROVE SpecInv
  OBVIOUS
<1>1. SpecTypeOK
  BY SideTypes DEF SpecIInv, Locals, SpecTypeOK
<1>2. TargetInStep
  <2>1. SUFFICES ASSUME pc = "draft"
                 PROVE  /\ tNum[seq] = Len(Context) /\ Holds(tKV, tIds[seq], Context, tNum[seq])
                        /\ pNext = Context
    BY DEF TargetInStep
  <2>2. TgtAt(Context) /\ pNext = Context
    BY <2>1 DEF SpecIInv, AtStep, AtDraft
  <2> QED BY <2>2 DEF TgtAt, Cached
<1>3. DraftInStep
  <2>1. SUFFICES ASSUME pc = "draft"
                 PROVE  /\ dNum[seq] = Len(Context) + Max({0, Len(draft) - 1})
                        /\ Holds(dKV, dIds[seq], Context \o draft, dNum[seq])
                        /\ qNext = Context
    BY DEF DraftInStep
  <2>2. DrfAt(Reached(Len(draft))) /\ qNext = Context
    BY <2>1 DEF SpecIInv, AtStep, AtDraft
  <2>3. PICK r : r = Reached(Len(draft))
    OBVIOUS
  <2>4. dNum[seq] = Len(r) /\ Holds(dKV, dIds[seq], r, Len(r))
    BY <2>2, <2>3 DEF DrfAt, Cached
  <2>5. Context \in Seq(Tokens) /\ draft \in Seq(Tokens)
    BY <2>1, Running
  <2>6. Len(r) = Len(Context) + Max({0, Len(draft) - 1})
    BY <2>1, <2>3, DraftBehind
  <2>7. \A n \in 1..Len(r) : SubSeq(r, 1, n) = SubSeq(Context \o draft, 1, n)
    BY <2>1, <2>3, DraftBehind
  <2>8. Len(r) \in Nat
    <3>1. Len(r) = Len(Context) + Max({0, Len(draft) - 1})
      BY <2>1, <2>3, DraftBehind
    <3>2. Len(Context) \in Nat /\ Len(draft) \in Nat
      BY <2>5, LenProperties
    <3>3. Max({0, Len(draft) - 1}) \in Nat
      <4>1. PICK m \in Int : m = Len(draft) - 1
        BY <3>2
      <4> QED BY <4>1, LargerOfTwo
    <3> QED BY <3>1, <3>2, <3>3
  <2>9. \A pos \in 0..(Len(r) - 1) : SubSeq(r, 1, pos + 1) = SubSeq(Context \o draft, 1, pos + 1)
    <3> TAKE pos \in 0..(Len(r) - 1)
    <3>1. pos + 1 \in 1..Len(r)
      BY <2>8
    <3> QED BY <2>7, <3>1
  <2>10. Holds(dKV, dIds[seq], Context \o draft, Len(r))
    BY <2>4, <2>9 DEF Holds
  <2>11. dNum[seq] = Len(Context) + Max({0, Len(draft) - 1})
    BY <2>1, <2>3, <2>4, DraftBehind
  <2> QED BY <2>2, <2>4, <2>10, <2>11
<1>4. Overshoot
  <2>1. SUFFICES ASSUME NEW s \in tLive
                 PROVE  /\ tNum[s] <= Len(prompt) + maxNew + K
                        /\ s \in dLive => dNum[s] <= Len(prompt) + maxNew + K
    BY DEF Overshoot
  <2>2. pc \notin {"idle", "freeD"} /\ s = seq /\ tNum[seq] <= Len(prompt) + maxNew + K
    BY <2>1 DEF SpecIInv, TgtSide
  <2>3. s \in dLive => pc \notin {"idle", "allocate"} /\ dNum[seq] <= Len(prompt) + maxNew + K
    BY DEF SpecIInv, DrfSide
  <2> QED BY <2>2, <2>3
<1> QED BY <1>1, <1>2, <1>3, <1>4 DEF SpecInv

LEMMA InvTested == SpecIInv => TestedAtOwnPosition
<1> SUFFICES ASSUME SpecIInv, pc = "reject"
             PROVE  /\ \A i \in 1..K : LET before == Context \o SubSeq(draft, 1, i - 1)
                                       IN  qStack[i] = before /\ pStack[i] = before
                    /\ pBonus = Context \o draft
  BY DEF TestedAtOwnPosition
<1>1. Len(draft) = K /\ qStack = OwnContexts /\ pStack = OwnContexts /\ pBonus = Context \o draft
  BY DEF SpecIInv, AtStep, AtReject, Drafted
<1>2. \A i \in 1..Len(draft) : OwnContexts[i] = Context \o SubSeq(draft, 1, i - 1)
  BY OwnContextsList
<1> QED BY <1>1, <1>2

LEMMA InvLeavesNothing == SpecIInv => CallsLeaveNothing
<1> SUFFICES ASSUME SpecIInv PROVE CallsLeaveNothing
  OBVIOUS
<1>1. pc = "idle" => tFree = TgtBlocks /\ dFree = DrfBlocks
  BY EquallyFull
<1>2. pc = "allocate" => ~Drf!AllocateFails(Len(prompt), <<>>)
  BY DEF SpecIInv, AtStep, AtAllocate
<1> QED BY <1>1, <1>2 DEF CallsLeaveNothing

\* At the beginning of every round both caches hold the confirmed tokens and
\* nothing else, and while the draft proposes it is one token behind, however many
\* proposals any earlier round accepted; neither ever exceeds the limit by more
\* than a round (speculative.py:101-149).
THEOREM SpeculativeInStep == Spec => []SpecInv
BY SpeculativeInvariant, InvInStep, PTL

\* Every drafted token is accepted or rejected by the distributions that both
\* models gave after exactly the tokens before it (speculative.py:107-131).
THEOREM SpeculativeTests == Spec => []TestedAtOwnPosition
BY SpeculativeInvariant, InvTested, PTL

\* A call of generate leaves no block behind, whether it returned or raised, and
\* its second allocation, outside the try, never raises (speculative.py:91-160).
THEOREM SpeculativeLeavesNothing == Spec => []CallsLeaveNothing
BY SpeculativeInvariant, InvLeavesNothing, PTL

-----------------------------------------------------------------------------
\* The refinement: what a caller sees of a call is one of the target's own.

\* Where a call stands for its caller.
Seen == CASE pc \in {"freeD", "idle"} /\ prompt # <<>> -> IF raised THEN "failed" ELSE "returned"
          [] pc = "idle" /\ prompt = <<>> -> "idle"
          [] OTHER -> "decoding"

\* Seen is the status of the abstract specification.
LEMMA SeenIsStatus ==
  /\ Alone!Init <=> Seen = "idle" /\ prompt = <<>> /\ maxNew = 0 /\ out = <<>>
  /\ Alone!Start <=> /\ Seen \in {"idle", "returned", "failed"}
                     /\ Seen' = "decoding" /\ out' = <<>> /\ prompt' \in Prompts /\ maxNew' \in MaxNews
  /\ Alone!Return <=> Seen = "decoding" /\ Alone!Complete /\ Seen' = "returned" /\ UNCHANGED <<prompt, maxNew, out>>
  /\ Alone!Fail <=> Seen = "decoding" /\ Seen' = "failed" /\ UNCHANGED <<prompt, maxNew, out>>
  /\ UNCHANGED <<Seen, prompt, maxNew, out>> => UNCHANGED Alone!decodingVars
BY DEF Seen, Alone!Init, Alone!Start, Alone!Return, Alone!Fail, Alone!decodingVars

LEMMA SeenEmits ==
  ASSUME Seen = "decoding", Seen' = "decoding", ~Alone!Complete, UNCHANGED <<prompt, maxNew>>,
         NEW t \in Rej!Support(Target(prompt \o out)), out' = Append(out, t)
  PROVE  Alone!Emit
BY DEF Seen, Alone!Emit

\* A call decodes until it has freed the target's table.
LEMMA SeenValues ==
  /\ pc \notin {"idle", "freeD"} => Seen = "decoding"
  /\ pc \in {"idle", "freeD"} /\ prompt # <<>> => Seen = IF raised THEN "failed" ELSE "returned"
  /\ pc = "idle" /\ prompt = <<>> => Seen = "idle"
BY DEF Seen

LEMMA SeenValuesNext ==
  /\ pc' \notin {"idle", "freeD"} => Seen' = "decoding"
  /\ pc' \in {"idle", "freeD"} /\ prompt' # <<>> => Seen' = IF raised' THEN "failed" ELSE "returned"
  /\ pc' = "idle" /\ prompt' = <<>> => Seen' = "idle"
BY DEF Seen

AloneStep == Alone!Next \/ UNCHANGED Alone!decodingVars

LEMMA SeenRests ==
  ASSUME UNCHANGED <<prompt, maxNew, out>>, UNCHANGED Seen PROVE AloneStep
BY SeenIsStatus DEF AloneStep

\* The first allocation starts a decoding.
LEMMA StartSeen ==
  ASSUME SpecIInv, NEW c \in Prompts, NEW m \in MaxNews, AllocateTarget(c, m) PROVE AloneStep
<1>1. pc = "idle" /\ pc' = "allocate" /\ prompt' = c /\ maxNew' = m /\ out' = <<>>
  BY DEF AllocateTarget
<1>2. Seen \in {"idle", "returned", "failed"}
  BY <1>1, SeenValues
<1>3. Seen' = "decoding"
  BY <1>1, SeenValuesNext
<1>4. Alone!Start
  BY <1>1, <1>2, <1>3, SeenIsStatus
<1> QED BY <1>4 DEF AloneStep, Alone!Next

\* A token is appended that the target could emit after the tokens before it.
LEMMA EmitSeen == ASSUME SpecIInv, Emit PROVE AloneStep
<1>1. pc = "emit" /\ pc' \in {"finally", "draft", "emit"} /\ out' = Append(out, Head(todo)) /\ UNCHANGED callVars
  BY DEF Emit
<1>2. Seen = "decoding" /\ Seen' = "decoding"
  BY <1>1, SeenValues, SeenValuesNext
<1>3. UNCHANGED <<prompt, maxNew>>
  BY <1>1 DEF callVars
<1>4. Deciding /\ todo # <<>> /\ CanEmit(todo)
  BY <1>1 DEF SpecIInv, AtStep, AtEmit
<1>5. todo \in Seq(Tokens) /\ Context \in Seq(Tokens)
  BY <1>1, Running
<1>6. 1 \in 1..Len(todo) /\ Head(todo) = todo[1]
  BY <1>4, <1>5, LenProperties, EmptySeq, HeadAndTail
<1>7. Head(todo) \in Rej!Support(Target(prompt \o out))
  <2>1. todo[1] \in Rej!Support(Target(Context \o SubSeq(todo, 1, 1 - 1)))
    BY <1>4, <1>6 DEF CanEmit
  <2>2. SubSeq(todo, 1, 1 - 1) = <<>>
    BY SubSeqEmpty
  <2>3. Context \o SubSeq(todo, 1, 1 - 1) = Context
    BY <1>5, <2>2, ConcatEmptySeq
  <2> QED BY <1>6, <2>1, <2>3 DEF Context
<1>8. ~Alone!Complete
  BY <1>4 DEF Deciding
<1>9. Alone!Emit
  BY <1>1, <1>2, <1>3, <1>7, <1>8, SeenEmits
<1> QED BY <1>9 DEF AloneStep, Alone!Next

\* With the target's table freed the call has returned, or failed.
LEMMA FreeSeen == ASSUME SpecIInv, FreeTarget PROVE AloneStep
<1>1. pc = "finally" /\ pc' = "freeD" /\ UNCHANGED <<callVars, raised, out>>
  BY DEF FreeTarget
<1>2. UNCHANGED <<prompt, maxNew, out, raised>>
  BY <1>1 DEF callVars
<1>3. prompt # <<>>
  BY <1>1, Running
<1>4. raised \/ Alone!Complete
  BY <1>1 DEF SpecIInv, AtStep, AtFinally
<1>5. Seen = "decoding" /\ Seen' = IF raised THEN "failed" ELSE "returned"
  BY <1>1, <1>2, <1>3, SeenValues, SeenValuesNext
<1>6. CASE raised
  BY <1>2, <1>5, <1>6, SeenIsStatus DEF AloneStep, Alone!Next
<1>7. CASE ~raised
  BY <1>2, <1>4, <1>5, <1>7, SeenIsStatus DEF AloneStep, Alone!Next
<1> QED BY <1>6, <1>7

\* No other step is seen.
LEMMA UnseenSteps ==
  ASSUME SpecIInv,
         \/ \E c \in Prompts : AllocateRaises(c)
         \/ AllocateDraft \/ PrefillTarget \/ PrefillDraft \/ DraftFirst \/ DraftMore \/ Verify \/ Reject
         \/ RollTarget \/ FixTarget \/ RollDraft \/ FixDraft \/ TargetRaises \/ DraftRaises \/ FreeDraft
         \/ UNCHANGED vars
  PROVE  AloneStep
<1>1. ASSUME pc \notin {"idle", "freeD"}, pc' \notin {"idle", "freeD"}, UNCHANGED <<callVars, out>> PROVE AloneStep
  <2>1. UNCHANGED Seen
    BY <1>1, SeenValues, SeenValuesNext
  <2> QED BY <1>1, <2>1, SeenRests DEF callVars
<1>2. CASE AllocateDraft \/ PrefillTarget \/ PrefillDraft \/ DraftFirst \/ DraftMore
  BY <1>1, <1>2 DEF AllocateDraft, PrefillTarget, PrefillDraft, DraftFirst, DraftMore
<1>3. CASE Verify \/ Reject \/ RollTarget \/ FixTarget \/ RollDraft \/ FixDraft
  BY <1>1, <1>3 DEF Verify, Reject, RollTarget, FixTarget, RollDraft, FixDraft
<1>4. CASE TargetRaises \/ DraftRaises
  BY <1>1, <1>4 DEF TargetRaises, DraftRaises
<1>5. CASE \E c \in Prompts : AllocateRaises(c)
  <2>1. UNCHANGED <<pc, raised, prompt, maxNew, out>>
    BY <1>5 DEF AllocateRaises
  <2>2. UNCHANGED Seen
    BY <2>1 DEF Seen
  <2> QED BY <2>1, <2>2, SeenRests
<1>6. CASE FreeDraft
  <2>1. pc = "freeD" /\ pc' = "idle" /\ UNCHANGED <<prompt, maxNew, raised, out>>
    BY <1>6 DEF FreeDraft
  <2>2. prompt # <<>>
    BY <2>1, Running
  <2>3. UNCHANGED Seen
    BY <2>1, <2>2, SeenValues, SeenValuesNext
  <2> QED BY <2>1, <2>3, SeenRests
<1>7. CASE UNCHANGED vars
  <2>1. UNCHANGED <<pc, raised, prompt, maxNew, out>>
    BY <1>7 DEF vars, callVars
  <2>2. UNCHANGED Seen
    BY <2>1 DEF Seen
  <2> QED BY <2>1, <2>2, SeenRests
<1> QED BY <1>2, <1>3, <1>4, <1>5, <1>6, <1>7

LEMMA SpeculativeSimulates == SpecIInv /\ [Next]_vars => [Alone!Next]_(Alone!decodingVars)
<1> SUFFICES ASSUME SpecIInv, [Next]_vars PROVE AloneStep
  BY DEF AloneStep
<1>1. ASSUME NEW c \in Prompts, NEW m \in MaxNews, AllocateTarget(c, m) PROVE AloneStep
  BY <1>1, StartSeen
<1>2. CASE Emit
  BY <1>2, EmitSeen
<1>3. CASE FreeTarget
  BY <1>3, FreeSeen
<1>4. CASE \/ \E c \in Prompts : AllocateRaises(c)
           \/ AllocateDraft \/ PrefillTarget \/ PrefillDraft \/ DraftFirst \/ DraftMore \/ Verify \/ Reject
           \/ RollTarget \/ FixTarget \/ RollDraft \/ FixDraft \/ TargetRaises \/ DraftRaises \/ FreeDraft
           \/ UNCHANGED vars
  BY <1>4, UnseenSteps
<1> QED BY <1>1, <1>2, <1>3, <1>4, Zenon DEF Next

\* Speculation is invisible: whatever the draft proposes, however many proposals
\* are accepted and whichever calls raise, the tokens a caller gets are such as the
\* target could have produced alone, one after the other, and they end at the limit
\* or the end token (speculative.py:79-160).
THEOREM SpeculationIsInvisible == Spec => DecodesAsTarget
<1>1. Init => Alone!Init
  <2>1. ASSUME Init PROVE pc = "idle" /\ prompt = <<>> /\ maxNew = 0 /\ out = <<>>
    BY <2>1 DEF Init
  <2>2. ASSUME Init PROVE Alone!Init
    BY <2>1, <2>2, SeenValues, SeenIsStatus
  <2> QED BY <2>2
<1>2. SpecIInv /\ [Next]_vars => [Alone!Next]_(Alone!decodingVars)
  BY SpeculativeSimulates
<1>3. Spec => []SpecIInv
  BY SpeculativeInvariant
<1> QED BY <1>1, <1>2, <1>3, PTL DEF Spec, DecodesAsTarget, Alone!Spec
===============================================================================
