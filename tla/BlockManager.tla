---------------------------- MODULE BlockManager ----------------------------
(***************************************************************************)
(* The paged KV block allocator, dispec/kv/block_manager.py: a pool of     *)
(* blocks, a reference count per block and a block table per sequence.     *)
(*                                                                         *)
(* Abstracted: the free list is a set.  The code pops its last element;    *)
(* here any free block may be handed out, so the checks and the proofs do  *)
(* not depend on the order of the list.  A reference count of 0 stands for *)
(* a block that is absent from the _ref_count dictionary.                  *)
(***************************************************************************)
EXTENDS Integers, Sequences, FiniteSets, Functions

CONSTANTS
  Seqs,         \* sequence ids the clients use
  Blocks,       \* the physical blocks, range(num_blocks)
  BlockSize,    \* tokens per block
  TokenCounts,  \* token counts a client passes in
  MaxPins       \* bound: explicit references per block (prefix cache)

ASSUME BlockSizeAssumption == BlockSize \in Nat \ {0}
ASSUME TokenCountsAssumption == TokenCounts \subseteq Nat
ASSUME MaxPinsAssumption == MaxPins \in Nat

VARIABLES
  free,       \* _free
  refCount,   \* _ref_count
  live,       \* the keys of _tables
  blockIds,   \* BlockTable.block_ids of every live sequence
  numTokens,  \* BlockTable.num_tokens of every live sequence
  pins        \* ghost: references taken with add_ref and not yet released

bmVars == <<free, refCount, live, blockIds, numTokens, pins>>

-----------------------------------------------------------------------------
\* Helpers.

BlocksNeeded(n) == (n + BlockSize - 1) \div BlockSize

TableBlocks(s) == Range(blockIds[s])

TableCapacity(s) == Len(blockIds[s]) * BlockSize

\* BlockTable.slot, for a table given by its list of blocks.
Slot(ids, pos) == <<ids[(pos \div BlockSize) + 1], pos % BlockSize>>

\* context_slots: where the first n tokens of a table are.
ContextSlots(ids, n) == [c \in 1..n |-> Slot(ids, c - 1)]

Holders(b) == {s \in live : b \in TableBlocks(s)}

\* The lists of n distinct free blocks that n calls of _alloc_block may return.
FreshLists(n) == Injection(1..n, free)

\* refCount after the blocks of D each gain, or lose, one reference.
BumpRefs(D) == [b \in Blocks |-> IF b \in D THEN refCount[b] + 1 ELSE refCount[b]]

DropRefs(D) ==
  /\ refCount' = [b \in Blocks |-> IF b \in D THEN refCount[b] - 1 ELSE refCount[b]]
  /\ free' = free \cup {b \in D : refCount[b] = 1}

\* n fresh blocks become the tail of the table of s; the blocks of shared
\* gain a reference.
Extend(s, head, shared, n) ==
  \E fresh \in FreshLists(n) :
    /\ blockIds' = [blockIds EXCEPT ![s] = head \o fresh]
    /\ refCount' = [b \in Blocks |-> IF b \in Range(fresh) THEN 1 ELSE BumpRefs(shared)[b]]
    /\ free' = free \ Range(fresh)

NewBlocks(n, reuse) ==
  IF BlocksNeeded(n) > Len(reuse) THEN BlocksNeeded(n) - Len(reuse) ELSE 0

MissingBlocks(s, n) ==
  LET have == TableCapacity(s) - numTokens[s]
  IN  IF n > have THEN BlocksNeeded(n - have) ELSE 0

AppendNeedsBlock(s) == numTokens[s] % BlockSize = 0

-----------------------------------------------------------------------------
\* The operations.  An OutOfBlocksError leaves the allocator as it was: the
\* check precedes every assignment (lines 79, 114 and 60).

AllocateFails(n, reuse) == NewBlocks(n, reuse) > Cardinality(free)

Allocate(s, n, reuse) ==
  /\ s \notin live
  /\ Extend(s, reuse, Range(reuse), NewBlocks(n, reuse))
  /\ live' = live \cup {s}
  /\ numTokens' = [numTokens EXCEPT ![s] = n]
  /\ UNCHANGED pins

\* Mutant: the count is set to 1 instead of being incremented.
AddRefSetsOne(b) ==
  /\ refCount' = [refCount EXCEPT ![b] = 1]
  /\ pins' = [pins EXCEPT ![b] = @ + 1]
  /\ UNCHANGED <<free, live, blockIds, numTokens>>

AddRef(b) ==
  /\ refCount' = BumpRefs({b})
  /\ pins' = [pins EXCEPT ![b] = @ + 1]
  /\ UNCHANGED <<free, live, blockIds, numTokens>>

Release(b) ==
  /\ DropRefs({b})
  /\ pins' = [pins EXCEPT ![b] = @ - 1]
  /\ UNCHANGED <<live, blockIds, numTokens>>

AppendFails(s) == AppendNeedsBlock(s) /\ free = {}

AppendToken(s) ==
  /\ s \in live
  /\ Extend(s, blockIds[s], {}, IF AppendNeedsBlock(s) THEN 1 ELSE 0)
  /\ numTokens' = [numTokens EXCEPT ![s] = @ + 1]
  /\ UNCHANGED <<live, pins>>

Reserve(s, n) ==
  /\ s \in live
  /\ Extend(s, blockIds[s], {}, MissingBlocks(s, n))
  /\ UNCHANGED <<live, numTokens, pins>>

\* Mutant: the child's references are not counted.
ForkWithoutBump(parent, child) ==
  /\ parent \in live
  /\ live' = live \cup {child}
  /\ blockIds' = [blockIds EXCEPT ![child] = blockIds[parent]]
  /\ numTokens' = [numTokens EXCEPT ![child] = numTokens[parent]]
  /\ UNCHANGED <<free, refCount, pins>>

Fork(parent, child) ==
  /\ parent \in live
  /\ refCount' = BumpRefs(TableBlocks(parent))
  /\ live' = live \cup {child}
  /\ blockIds' = [blockIds EXCEPT ![child] = blockIds[parent]]
  /\ numTokens' = [numTokens EXCEPT ![child] = numTokens[parent]]
  /\ UNCHANGED <<free, pins>>

\* Mutant: the dropped blocks are forgotten instead of released.
TruncateForgets(s, n) ==
  /\ s \in live
  /\ blockIds' = [blockIds EXCEPT ![s] = SubSeq(@, 1, BlocksNeeded(n))]
  /\ numTokens' = [numTokens EXCEPT ![s] = n]
  /\ UNCHANGED <<free, refCount, live, pins>>

\* Mutant: the last blocks are kept instead of the first.
TruncateKeepsTail(s, n) ==
  LET cut == Len(blockIds[s]) - BlocksNeeded(n)
  IN  /\ s \in live
      /\ DropRefs({blockIds[s][i] : i \in 1..cut})
      /\ blockIds' = [blockIds EXCEPT ![s] = SubSeq(@, cut + 1, Len(@))]
      /\ numTokens' = [numTokens EXCEPT ![s] = n]
      /\ UNCHANGED <<live, pins>>

Truncate(s, n) ==
  LET keep == BlocksNeeded(n)
      dropped == {blockIds[s][i] : i \in (keep + 1)..Len(blockIds[s])}
  IN  /\ s \in live
      /\ DropRefs(dropped)
      /\ blockIds' = [blockIds EXCEPT ![s] = SubSeq(@, 1, keep)]
      /\ numTokens' = [numTokens EXCEPT ![s] = n]
      /\ UNCHANGED <<live, pins>>

Free(s) ==
  /\ s \in live
  /\ DropRefs(TableBlocks(s))
  /\ live' = live \ {s}
  /\ blockIds' = [blockIds EXCEPT ![s] = <<>>]
  /\ numTokens' = [numTokens EXCEPT ![s] = 0]
  /\ UNCHANGED pins

\* The table is handed out by reference and clients assign its num_tokens:
\* engine.py:73, scheduler.py:164, :169 and :185, disaggregated.py:44 and :62,
\* escalation.py and speculative.py:79.
SetNumTokens(s, n) ==
  /\ s \in live
  /\ numTokens' = [numTokens EXCEPT ![s] = n]
  /\ UNCHANGED <<free, refCount, live, blockIds, pins>>

-----------------------------------------------------------------------------
BMInit ==
  /\ free = Blocks
  /\ refCount = [b \in Blocks |-> 0]
  /\ live = {}
  /\ blockIds = [s \in Seqs |-> <<>>]
  /\ numTokens = [s \in Seqs |-> 0]
  /\ pins = [b \in Blocks |-> 0]

\* Blocks some client holds, which are the only ones a client can name.
HeldBlocks == {b \in Blocks : refCount[b] > 0}

\* Leading blocks a client may ask a table for n tokens to adopt: distinct
\* pinned blocks that its tokens fill (PrefixCache.match, engine.py:57-62).
ReuseLists(n) ==
  LET pinned == {b \in Blocks : pins[b] > 0}
  IN  UNION {Injection(1..k, pinned) : k \in 0..(n \div BlockSize)}

\* Every operation with the arguments its clients pass.  Fork gets a fresh
\* child id, Truncate only shortens, SetNumTokens stays within the table, and
\* only a reference that was added is released: these are the callers' side of
\* the interface, the allocator tests none of them.
BMNext ==
  \/ \E s \in Seqs, n \in TokenCounts : \E reuse \in ReuseLists(n) : Allocate(s, n, reuse)
  \/ \E b \in HeldBlocks : pins[b] < MaxPins /\ AddRef(b)
  \/ \E b \in Blocks : pins[b] > 0 /\ Release(b)
  \/ \E s \in Seqs : AppendToken(s)
  \/ \E s \in Seqs, n \in TokenCounts : Reserve(s, n)
  \/ \E s, c \in Seqs : c \notin live /\ Fork(s, c)
  \/ \E s \in Seqs, n \in TokenCounts : n <= numTokens[s] /\ Truncate(s, n)
  \/ \E s \in Seqs : Free(s)
  \/ \E s \in Seqs, n \in TokenCounts : s \in live /\ n <= TableCapacity(s) /\ SetNumTokens(s, n)

BMSpec == BMInit /\ [][BMNext]_bmVars

-----------------------------------------------------------------------------
\* Properties.

\* The variables keep their types and a sequence that is not live has no table.
BMTypeOK ==
  /\ free \in SUBSET Blocks
  /\ refCount \in [Blocks -> Nat]
  /\ live \in SUBSET Seqs /\ IsFiniteSet(live)
  /\ blockIds \in [Seqs -> Seq(Blocks)]
  /\ numTokens \in [Seqs -> Nat]
  /\ pins \in [Blocks -> Nat]
  /\ \A s \in Seqs \ live : blockIds[s] = <<>> /\ numTokens[s] = 0

\* A block is on the free list exactly when nobody references it: none is
\* handed out while in use, none is lost (_alloc_block, release, truncate, free).
Partition == free = {b \in Blocks : refCount[b] = 0}

\* A reference count is the number of tables that list the block plus the
\* references added explicitly, so that the decrement that reaches 0 is the
\* one that ends the last use (lines 82, 90, 93, 123, 136, 149).
RefExact == \A b \in Blocks : refCount[b] = Cardinality(Holders(b)) + pins[b]

\* No table lists a block twice, or two positions would share a slot.
TableInjective == \A s \in Seqs : IsInjective(blockIds[s])

\* Every stored token has a slot inside its table: BlockTable.slot never
\* indexes past block_ids.
Capacity == \A s \in live : numTokens[s] <= TableCapacity(s)

\* The inductive invariant.
BMInv == BMTypeOK /\ Partition /\ RefExact /\ TableInjective /\ Capacity

\* When every sequence is freed and every explicit reference released, the
\* whole pool is free again.
NoLeak == (live = {} /\ \A b \in Blocks : pins[b] = 0) => free = Blocks

\* An operation never moves a token that stays stored: its slot is the same
\* before and after (append_token, reserve and truncate keep the head of the table).
StoredSlotsFixed ==
  [][\A s \in live \cap live' : \A p \in 0..(TableCapacity(s) - 1) :
        p < numTokens[s] /\ p < numTokens'[s]
          => Slot(blockIds'[s], p) = Slot(blockIds[s], p)]_bmVars

\* A sequence that is already live grows only by blocks no table listed and
\* nobody pinned: growth cannot take over another sequence's KV.
GrowsByUnusedBlocks ==
  [][\A s \in live \cap live' : \A b \in Range(blockIds'[s]) \ TableBlocks(s) :
        Holders(b) = {} /\ pins[b] = 0]_bmVars

\* The counting allocator implements the pool that reclaims exactly the blocks
\* nobody holds.
Pool == INSTANCE BlockPool WITH
          holds <- [s \in Seqs |-> TableBlocks(s)], avail <- free

ImplementsPool == Pool!Spec
=============================================================================
