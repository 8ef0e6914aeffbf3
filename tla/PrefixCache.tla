----------------------------- MODULE PrefixCache -----------------------------
(***************************************************************************)
(* Automatic prefix caching, dispec/kv/prefix_cache.py: full KV blocks     *)
(* keyed by all the tokens up to and including them, each pinned in the    *)
(* allocator, matched by later prompts and evicted in LRU order.           *)
(*                                                                         *)
(* Abstracted: the key of a block is the token prefix itself, so the       *)
(* rolling hash is taken to be free of collisions.  nodes is a sequence    *)
(* because a dict keeps insertion order and evict breaks ties by it.  The  *)
(* hit and miss counters are left out.                                     *)
(***************************************************************************)
EXTENDS BlockManager, SequencesExt, Selection

VARIABLES
  nodes,   \* _nodes, in dict order: [key, blk, used]
  clock    \* _clock

cacheVars == <<nodes, clock>>

CacheInit == nodes = <<>> /\ clock = 0

\* _block_hashes: the key of the i-th full block of a token list.
FullBlocks(tokens) == Len(tokens) \div BlockSize

Key(tokens, i) == SubSeq(tokens, 1, i * BlockSize)

Cached == {nodes[i].key : i \in DOMAIN nodes}

NodeOf(key) == nodes[CHOOSE i \in DOMAIN nodes : nodes[i].key = key]

CachedBlocks == {nodes[i].blk : i \in DOMAIN nodes}

Touched(keys, now) ==
  [i \in DOMAIN nodes |-> IF nodes[i].key \in keys THEN [nodes[i] EXCEPT !.used = now] ELSE nodes[i]]

-----------------------------------------------------------------------------
\* The length of the longest run of cached leading blocks.
MatchLength(tokens) ==
  Max({k \in 0..FullBlocks(tokens) : \A i \in 1..k : Key(tokens, i) \in Cached})

\* match returns Matched and touches the nodes of the run.
Matched(tokens) == [i \in 1..MatchLength(tokens) |-> NodeOf(Key(tokens, i)).blk]

Match(tokens) ==
  /\ clock' = clock + 1
  /\ nodes' = Touched({Key(tokens, i) : i \in 1..MatchLength(tokens)}, clock + 1)

StartInsert == clock' = clock + 1 /\ UNCHANGED nodes

\* Mutant: a newly cached block is not pinned.
InsertWithoutPin(key, blk) ==
  /\ IF key \in Cached THEN nodes' = Touched({key}, clock)
                       ELSE nodes' = Append(nodes, [key |-> key, blk |-> blk, used |-> clock])
  /\ UNCHANGED <<clock, bmVars>>

\* Mutant: a block whose key is cached already is pinned again.
InsertPinsAgain(key, blk) ==
  /\ IF key \in Cached THEN nodes' = Touched({key}, clock)
                       ELSE nodes' = Append(nodes, [key |-> key, blk |-> blk, used |-> clock])
  /\ AddRef(blk)
  /\ UNCHANGED clock

\* One iteration of insert, for a full block of the sequence.
Insert(key, blk) ==
  /\ IF key \in Cached
     THEN nodes' = Touched({key}, clock) /\ UNCHANGED bmVars
     ELSE nodes' = Append(nodes, [key |-> key, blk |-> blk, used |-> clock]) /\ AddRef(blk)
  /\ UNCHANGED clock

\* The keys evict(n) takes: least recently used first, then in dict order.
Victims(n) ==
  LET older(i) == {j \in DOMAIN nodes :
                     nodes[j].used < nodes[i].used \/ (nodes[j].used = nodes[i].used /\ j < i)}
  IN  {nodes[i].key : i \in {i \in DOMAIN nodes : Cardinality(older(i)) < n}}

\* One iteration of evict.
Evict(key) ==
  /\ nodes' = Selected(nodes, {i \in DOMAIN nodes : nodes[i].key # key})
  /\ Release(NodeOf(key).blk)
  /\ UNCHANGED clock
==============================================================================
