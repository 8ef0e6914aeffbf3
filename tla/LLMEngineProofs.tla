--------------------------- MODULE LLMEngineProofs ---------------------------
(***************************************************************************)
(* Single-sequence generation with prefix caching, for any prompts, pool,  *)
(* block size and graphs: a cached block is referenced once by the cache   *)
(* and never written to again, and every row attends to its own context.   *)
(***************************************************************************)
EXTENDS LLMEngine, BlockManagerProofs, ListLemmas

Nodes == [key : Seq(Tokens), blk : Blocks, used : Nat]

InCall == pc \in {"prefill", "insert", "sample", "decode", "finally"}

\* What a slot of the current table holds.
Cell(p) == LET s == Slot(blockIds[seq], p) IN kv[s[1]][s[2]]

\* The tokens stored so far, or the number of tokens adopted from the cache.
StoredCount == IF pc = "prefill" THEN start ELSE numTokens[seq]

\* The nodes of the cache.
NodesOK ==
  /\ nodes \in Seq(Nodes) /\ clock \in Nat
  /\ \A i \in DOMAIN nodes : nodes[i].blk \in Blocks /\ nodes[i].used \in 1..clock

\* The types the proof needs beyond CacheTypeOK.
ProofTypes ==
  /\ CacheTypeOK /\ NodesOK
  /\ kv \in [Blocks -> [0..(BlockSize - 1) -> Seq(Tokens) \cup {NoToken}]]
  /\ mask \in [Buckets -> SUBSET Nat]

\* No key is in the dict twice, no block is named twice, and the cache holds one
\* reference to each block it names.
NodesApart ==
  /\ \A i, j \in DOMAIN nodes : nodes[i].key = nodes[j].key \/ nodes[i].blk = nodes[j].blk => i = j
  /\ \A b \in Blocks : pins[b] = IF b \in CachedBlocks THEN 1 ELSE 0

\* Only the sequence of the current call has a table.
Calls ==
  /\ live = IF InCall THEN {seq} ELSE {}
  /\ InCall => seq \in Seqs /\ prompt \in Prompts

\* How far the call is.
Counts ==
  /\ pc \in {"prefill", "insert"} => out = <<>> /\ start \in Nat /\ start < Len(prompt)
  /\ pc = "prefill" => Len(prompt) <= TableCapacity(seq)
  /\ pc \in {"insert", "sample"} => numTokens[seq] = Len(Context)
  /\ pc = "decode" => out # <<>> /\ numTokens[seq] = Len(Context) - 1

\* What is left to visit.
Visits ==
  /\ pc = "insert" => todo \in Seq(1..FullBlocks(prompt)) /\ clock >= 1
  /\ pc = "evict" => todo \in Seq(Cached) /\ IsInjective(todo)

\* A block of the table that is cached is one of the full blocks of the prompt, and
\* is cached for the prefix the prompt has there; before the prompt is stored, it
\* was adopted.
TableCached ==
  InCall => \A i \in DOMAIN blockIds[seq] : \A k \in DOMAIN nodes : nodes[k].blk = blockIds[seq][i] =>
    /\ nodes[k].key = Key(prompt, i) /\ i <= FullBlocks(prompt)
    /\ pc = "prefill" => i * BlockSize <= start

\* The tokens counted so far are stored.
Stocked ==
  pc \in {"prefill", "insert", "sample", "decode"} =>
    \A p \in 0..(StoredCount - 1) : Cell(p) = SubSeq(Context, 1, p + 1)

\* The graph that was replayed attends to the whole context.
Masked ==
  pc = "sample" /\ CanHandle(numTokens[seq]) => mask[SmallestFit(numTokens[seq])] = 1..numTokens[seq]

CallIInv ==
  /\ BMInv /\ ProofTypes /\ NodesApart /\ Calls /\ Counts /\ Visits /\ TableCached
  /\ Stocked /\ Masked /\ CachedBlocksKeepTheirKV

-----------------------------------------------------------------------------
\* The cache.

\* The nodes stay, each with its key and its block.
SameNodes ==
  /\ DOMAIN nodes' = DOMAIN nodes
  /\ \A i \in DOMAIN nodes : nodes'[i].key = nodes[i].key /\ nodes'[i].blk = nodes[i].blk

\* Touching nodes changes only when they were used.
LEMMA TouchKeeps ==
  ASSUME NodesOK, NEW keys, NEW now \in Nat, clock' \in Nat, clock <= clock', 1 <= now, now <= clock',
         nodes' = Touched(keys, now)
  PROVE  NodesOK' /\ SameNodes
<1> DEFINE n == Len(nodes)
<1>1. n \in Nat /\ DOMAIN nodes = 1..n /\ \A i \in 1..n : nodes[i] \in Nodes
  BY LenProperties DEF NodesOK
<1>2. \A i \in 1..n : nodes'[i] = IF nodes[i].key \in keys THEN [nodes[i] EXCEPT !.used = now] ELSE nodes[i]
  BY <1>1 DEF Touched
<1>3. DOMAIN nodes' = 1..n
  BY <1>1 DEF Touched
<1>4. \A i \in 1..n : nodes'[i] \in Nodes /\ nodes'[i].key = nodes[i].key /\ nodes'[i].blk = nodes[i].blk
                      /\ nodes'[i].used \in 1..clock'
  <2> SUFFICES ASSUME NEW i \in 1..n
               PROVE  nodes'[i] \in Nodes /\ nodes'[i].key = nodes[i].key /\ nodes'[i].blk = nodes[i].blk
                      /\ nodes'[i].used \in 1..clock'
    OBVIOUS
  <2>1. PICK node \in Nodes : node = nodes[i]
    BY <1>1
  <2>2. node.used \in 1..clock /\ clock \in Nat
    BY <1>1, <2>1 DEF NodesOK
  <2>3. node.used \in 1..clock' /\ now \in 1..clock'
    BY <2>2
  <2>4. nodes'[i] = node \/ nodes'[i] = [node EXCEPT !.used = now]
    BY <1>2, <2>1
  <2> QED BY <2>1, <2>3, <2>4 DEF Nodes
<1>5. nodes' \in [1..n -> Nodes]
  <2>1. nodes' = [i \in 1..n |-> IF nodes[i].key \in keys THEN [nodes[i] EXCEPT !.used = now] ELSE nodes[i]]
    BY <1>1 DEF Touched
  <2>2. \A i \in 1..n : (IF nodes[i].key \in keys THEN [nodes[i] EXCEPT !.used = now] ELSE nodes[i]) \in Nodes
    BY <1>1 DEF Nodes
  <2> QED BY <2>1, <2>2
<1>6. nodes' \in Seq(Nodes)
  BY <1>1, <1>5, ListFromFunction
<1> QED BY <1>1, <1>3, <1>4, <1>6 DEF NodesOK, SameNodes, Nodes

\* Keys and blocks that stay are cached as they were.
LEMMA SameNodesKeep ==
  ASSUME SameNodes
  PROVE  /\ Cached' = Cached /\ CachedBlocks' = CachedBlocks
         /\ UNCHANGED pins => (NodesApart => NodesApart')
         /\ UNCHANGED kv => (CachedBlocksKeepTheirKV => CachedBlocksKeepTheirKV')
<1>1. Cached' = Cached /\ CachedBlocks' = CachedBlocks
  BY DEF SameNodes, Cached, CachedBlocks
<1>2. UNCHANGED pins => (NodesApart => NodesApart')
  BY <1>1 DEF SameNodes, NodesApart
<1>3. UNCHANGED kv => (CachedBlocksKeepTheirKV => CachedBlocksKeepTheirKV')
  BY DEF SameNodes, CachedBlocksKeepTheirKV
<1> QED BY <1>1, <1>2, <1>3

\* The node of a cached key.
LEMMA NodeOfKey ==
  ASSUME NEW key \in Cached
  PROVE  \E k \in DOMAIN nodes : nodes[k].key = key /\ NodeOf(key) = nodes[k]
BY DEF Cached, NodeOf

\* The full blocks of a prompt, and the tokens in them.
LEMMA KeyLength ==
  ASSUME NEW p \in Seq(Tokens)
  PROVE  /\ FullBlocks(p) \in Nat /\ FullBlocks(p) * BlockSize <= Len(p)
         /\ \A i \in Nat : i * BlockSize <= Len(p) => i <= FullBlocks(p)
         /\ \A i \in 1..FullBlocks(p) : /\ i * BlockSize \in 0..Len(p)
                                        /\ Key(p, i) \in Seq(Tokens) /\ Len(Key(p, i)) = i * BlockSize
<1>1. Len(p) \in Nat
  BY LenProperties
<1>2. FullBlocks(p) \in Nat /\ FullBlocks(p) * BlockSize <= Len(p)
  <2> DEFINE len == Len(p)
  <2>1. FullBlocks(p) = (len \div BlockSize)
    BY DEF FullBlocks
  <2>2. len \in Nat
    BY <1>1
  <2> HIDE DEF len
  <2>3. (len \div BlockSize) \in Nat /\ (len \div BlockSize) * BlockSize <= len
    BY BlockSizeAssumption, <2>2
  <2> QED BY <2>1, <2>3 DEF len
<1>3. ASSUME NEW i \in 1..FullBlocks(p)
      PROVE  /\ i * BlockSize \in 0..Len(p)
             /\ Key(p, i) \in Seq(Tokens) /\ Len(Key(p, i)) = i * BlockSize
  <2> DEFINE full == FullBlocks(p)
             len == Len(p)
  <2>1. full \in Nat /\ full * BlockSize <= len /\ len \in Nat /\ i \in Nat /\ i <= full
    BY <1>1, <1>2
  <2> HIDE DEF full, len
  <2>2. i * BlockSize \in Nat /\ i * BlockSize <= full * BlockSize /\ full * BlockSize \in Nat
    BY BlockSizeAssumption, <2>1
  <2>3. i * BlockSize \in 0..len
    BY <2>1, <2>2
  <2> QED BY <2>3, PrefixProperties DEF Key, len
<1>4. ASSUME NEW i \in Nat, i * BlockSize <= Len(p) PROVE i <= FullBlocks(p)
  <2> DEFINE len == Len(p)
  <2>1. FullBlocks(p) = (len \div BlockSize) /\ len \in Nat /\ i * BlockSize <= len
    BY <1>1, <1>4 DEF FullBlocks
  <2> HIDE DEF len
  <2>2. i <= (len \div BlockSize)
    BY BlockSizeAssumption, <2>1
  <2> QED BY <2>1, <2>2
<1> QED BY <1>2, <1>3, <1>4

\* What match returns: the blocks of the leading run of cached keys.
LEMMA MatchedProperties ==
  ASSUME NodesOK, NEW p \in Seq(Tokens)
  PROVE  /\ MatchLength(p) \in 0..FullBlocks(p) /\ Matched(p) \in Seq(Blocks) /\ Len(Matched(p)) = MatchLength(p)
         /\ \A i \in 1..MatchLength(p) :
              \E k \in DOMAIN nodes : nodes[k].key = Key(p, i) /\ Matched(p)[i] = nodes[k].blk
<1> DEFINE full == FullBlocks(p)
           S == {k \in 0..full : \A i \in 1..k : Key(p, i) \in Cached}
           most == MatchLength(p)
<1>1. full \in Nat
  BY KeyLength
<1>2. MatchLength(p) = CHOOSE x \in S : \A y \in S : x >= y
  BY DEF MatchLength, Max
<1>3. most \in S
  <2>1. 0 \in S
    BY <1>1
  <2>2. S \in SUBSET (0..full)
    OBVIOUS
  <2> HIDE DEF S
  <2>3. \E x \in S : \A y \in S : y <= x
    BY <1>1, <2>1, <2>2, GreatestOfSet
  <2>4. PICK x \in S : \A y \in S : y <= x
    BY <2>3
  <2>5. \A y \in S : x >= y
    BY <1>1, <2>2, <2>4
  <2> QED BY <1>2, <2>5
<1>4. most \in 0..full /\ \A i \in 1..most : Key(p, i) \in Cached
  BY <1>3
<1> HIDE DEF S, full, most
<1>5. \A i \in 1..most : \E k \in DOMAIN nodes : nodes[k].key = Key(p, i) /\ NodeOf(Key(p, i)).blk = nodes[k].blk
  BY <1>4, NodeOfKey
<1>6. \A i \in 1..most : NodeOf(Key(p, i)).blk \in Blocks
  BY <1>5 DEF NodesOK
<1>7. Matched(p) = [i \in 1..most |-> NodeOf(Key(p, i)).blk]
  BY DEF Matched, most
<1>8. Matched(p) \in [1..most -> Blocks] /\ most \in Nat
  BY <1>1, <1>4, <1>6, <1>7
<1>9. Matched(p) \in Seq(Blocks) /\ Len(Matched(p)) = most
  BY <1>8, ListFromFunction
<1> QED BY <1>4, <1>5, <1>7, <1>9 DEF full, most

\* The blocks a call adopts: cached for the prefixes of its prompt, and short of its last token.
LEMMA Adopted ==
  ASSUME NodesOK, NodesApart, NEW p \in Prompts
  PROVE  /\ p \in Seq(Tokens) /\ Len(p) \in TokenCounts
         /\ Reuse(p) \in ReuseLists(Len(p)) /\ Reuse(p) \in Seq(Blocks)
         /\ Len(Reuse(p)) * BlockSize < Len(p) /\ Len(Reuse(p)) <= FullBlocks(p)
         /\ \A i \in 1..Len(Reuse(p)) :
              \E k \in DOMAIN nodes : nodes[k].key = Key(p, i) /\ Reuse(p)[i] = nodes[k].blk
<1> DEFINE most == MatchLength(p)
           len == Len(p)
           full == FullBlocks(p)
           room == (len - 1) \div BlockSize
           m == Min({most, room})
           list == Matched(p)
           reuse == Reuse(p)
           pinned == {b \in Blocks : pins[b] > 0}
<1>1. p \in Seq(Tokens) /\ p # <<>> /\ len \in TokenCounts /\ len \in Nat /\ len >= 1
  <2>1. p \in Seq(Tokens) /\ p # <<>> /\ Len(p) \in TokenCounts
    BY PromptAssumption
  <2>2. Len(p) \in Nat /\ Len(p) # 0
    BY <2>1, EmptySeq, LenProperties
  <2> QED BY <2>1, <2>2
<1>2. /\ most \in 0..full /\ list \in Seq(Blocks) /\ Len(list) = most /\ full \in Nat
      /\ \A i \in 1..most : \E k \in DOMAIN nodes : nodes[k].key = Key(p, i) /\ list[i] = nodes[k].blk
  BY <1>1, MatchedProperties, KeyLength
<1> HIDE DEF most, len, full, list
<1>3. room \in Nat /\ room * BlockSize < len /\ room * BlockSize <= len - 1 /\ room <= (len \div BlockSize)
  <2> DEFINE less == len - 1
  <2>1. less \in Nat /\ len = less + 1
    BY <1>1
  <2> HIDE DEF less
  <2>2. (less \div BlockSize) \in Nat /\ (less \div BlockSize) * BlockSize <= less
    BY BlockSizeAssumption, <2>1
  <2>3. (less \div BlockSize) <= (len \div BlockSize)
    BY BlockSizeAssumption, <2>1
  <2>4. (less \div BlockSize) * BlockSize \in Nat
    BY BlockSizeAssumption, <2>2
  <2>5. room = (less \div BlockSize) /\ len - 1 = less
    BY <2>1 DEF less
  <2> HIDE DEF room
  <2>6. room * BlockSize = (less \div BlockSize) * BlockSize
    BY <2>5
  <2> QED BY <2>1, <2>2, <2>3, <2>4, <2>5, <2>6
<1> HIDE DEF room
<1>4. m \in Nat /\ m <= most /\ m <= room
  <2>1. most \in Nat /\ room \in Nat
    BY <1>2, <1>3
  <2>2. \E x \in {most, room} : \A y \in {most, room} : x <= y
    BY <2>1
  <2>3. m \in {most, room} /\ \A y \in {most, room} : m <= y
    BY <2>2 DEF Min
  <2> QED BY <2>1, <2>3
<1> HIDE DEF m
<1>5. reuse = SubSeq(list, 1, m) /\ m \in 0..Len(list)
  <2>1. reuse = SubSeq(list, 1, m)
    BY <1>2 DEF Reuse, m, room, list, most, len
  <2> QED BY <1>2, <1>4, <2>1
<1> HIDE DEF reuse
<1>6. reuse \in Seq(Blocks) /\ Len(reuse) = m /\ \A i \in 1..m : reuse[i] = list[i]
  BY <1>2, <1>5, PrefixProperties
<1>7. \A i \in 1..m : \E k \in DOMAIN nodes : nodes[k].key = Key(p, i) /\ reuse[i] = nodes[k].blk
  BY <1>2, <1>4, <1>6
<1>8. m * BlockSize < len /\ m <= full /\ m <= (len \div BlockSize)
  <2>1. m * BlockSize <= room * BlockSize /\ m * BlockSize \in Nat /\ room * BlockSize \in Nat
    BY BlockSizeAssumption, <1>3, <1>4
  <2>2. (len \div BlockSize) \in Nat
    BY <1>1, BlockSizeAssumption
  <2> QED BY <1>1, <1>2, <1>3, <1>4, <2>1, <2>2
<1>9. reuse \in Injection(1..m, pinned)
  <2>1. \A i \in 1..m : reuse[i] \in pinned
    BY <1>7 DEF NodesOK, NodesApart, CachedBlocks
  <2>2. ASSUME NEW i \in 1..m, NEW j \in 1..m, reuse[i] = reuse[j] PROVE i = j
    <3>1. PICK k \in DOMAIN nodes : nodes[k].key = Key(p, i) /\ reuse[i] = nodes[k].blk
      BY <1>7
    <3>2. PICK l \in DOMAIN nodes : nodes[l].key = Key(p, j) /\ reuse[j] = nodes[l].blk
      BY <1>7
    <3>3. Key(p, i) = Key(p, j)
      BY <2>2, <3>1, <3>2 DEF NodesApart
    <3>4. i \in 1..full /\ j \in 1..full
      BY <1>2, <1>4, <1>8
    <3>5. Len(Key(p, i)) = i * BlockSize /\ Len(Key(p, j)) = j * BlockSize
      BY <1>1, <3>4, KeyLength DEF full
    <3>6. i * BlockSize = j * BlockSize /\ i \in Nat /\ j \in Nat
      BY <3>3, <3>5
    <3> QED BY BlockSizeAssumption, <3>6
  <2>3. reuse \in [1..m -> pinned]
    <3>1. DOMAIN reuse = 1..m
      BY <1>6, LenProperties
    <3>2. reuse = [i \in 1..m |-> reuse[i]]
      BY <1>6, <3>1
    <3> QED BY <2>1, <3>2
  <2> QED BY <2>2, <2>3 DEF Injection, IsInjective
<1>10. reuse \in ReuseLists(len)
  <2>1. m \in 0..(len \div BlockSize)
    BY <1>1, <1>4, <1>8
  <2> QED BY <1>9, <2>1 DEF ReuseLists
<1> QED BY <1>1, <1>6, <1>7, <1>8, <1>10 DEF reuse, len, full

-----------------------------------------------------------------------------
\* A call.

\* What a call works on.
LEMMA CallTypes ==
  ASSUME CallIInv, InCall
  PROVE  /\ seq \in Seqs /\ seq \in live /\ live = {seq} /\ prompt \in Prompts
         /\ prompt \in Seq(Tokens) /\ Len(prompt) \in TokenCounts /\ Len(prompt) \in Nat
         /\ out \in Seq(Tokens) /\ Len(out) \in Nat
         /\ Context \in Seq(Tokens) /\ Len(Context) = Len(prompt) + Len(out)
         /\ (out = <<>> => Context = prompt /\ Len(out) = 0)
         /\ blockIds[seq] \in Seq(Blocks) /\ IsInjective(blockIds[seq])
         /\ Len(blockIds[seq]) \in Nat /\ TableCapacity(seq) = Len(blockIds[seq]) * BlockSize
         /\ numTokens[seq] \in Nat /\ numTokens[seq] <= TableCapacity(seq) /\ TableCapacity(seq) \in Nat
<1>1. seq \in Seqs /\ live = {seq} /\ prompt \in Prompts
  BY DEF CallIInv, Calls
<1>2. prompt \in Seq(Tokens) /\ Len(prompt) \in TokenCounts /\ Len(prompt) \in Nat
  BY <1>1, PromptAssumption, LenProperties
<1>3. out \in Seq(Tokens) /\ Len(out) \in Nat
  BY LenProperties DEF CallIInv, ProofTypes, CacheTypeOK
<1>4. Context \in Seq(Tokens) /\ Len(Context) = Len(prompt) + Len(out)
  BY <1>2, <1>3, ConcatProperties DEF Context
<1>5. out = <<>> => Context = prompt /\ Len(out) = 0
  BY <1>2, ConcatEmptySeq, EmptySeq DEF Context
<1>6. BMInv /\ BMTypeOK
  BY DEF CallIInv, BMInv
<1>7. blockIds[seq] \in Seq(Blocks) /\ IsInjective(blockIds[seq]) /\ numTokens[seq] \in Nat
  BY <1>1, <1>6 DEF BMInv, BMTypeOK, TableInjective
<1>8. Len(blockIds[seq]) \in Nat /\ TableCapacity(seq) = Len(blockIds[seq]) * BlockSize
  BY <1>7, LenProperties DEF TableCapacity
<1>9. TableCapacity(seq) \in Nat
  BY <1>8, BlockSizeAssumption
<1>10. numTokens[seq] <= TableCapacity(seq)
  BY <1>1, <1>6 DEF BMInv, Capacity
<1> QED BY <1>1, <1>2, <1>3, <1>4, <1>5, <1>7, <1>8, <1>9, <1>10

\* A cached block is not free.
LEMMA CachedNotFree ==
  ASSUME BMInv, NodesOK, NodesApart, NEW k \in DOMAIN nodes
  PROVE  nodes[k].blk \in Blocks /\ nodes[k].blk \notin free /\ pins[nodes[k].blk] = 1
<1>1. nodes[k].blk \in Blocks /\ nodes[k].blk \in CachedBlocks
  BY DEF NodesOK, CachedBlocks
<1>2. pins[nodes[k].blk] = 1
  BY <1>1 DEF NodesApart
<1> QED BY <1>1, <1>2, FreeUnused

\* The tokens of an adopted or offered block, position by position.
LEMMA KeyPrefix ==
  ASSUME NEW p \in Seq(Tokens), NEW i \in 1..FullBlocks(p), NEW o \in 0..(BlockSize - 1), NEW q,
         q = i * BlockSize - BlockSize + o
  PROVE  SubSeq(Key(p, i), 1, Len(Key(p, i)) - BlockSize + o + 1) = SubSeq(p, 1, q + 1)
<1>1. i * BlockSize \in 0..Len(p) /\ Len(Key(p, i)) = i * BlockSize /\ i \in Nat \ {0}
  BY KeyLength
<1>2. q \in Nat /\ q + 1 <= i * BlockSize
  BY <1>1, BlockOfPosition
<1> DEFINE m == i * BlockSize
           k == q + 1
<1>3. m \in 0..Len(p) /\ k \in 0..m
  BY <1>1, <1>2
<1>4. m - BlockSize + o + 1 = k
  BY <1>1, BlockSizeAssumption
<1> HIDE DEF m, k
<1>5. SubSeq(SubSeq(p, 1, m), 1, k) = SubSeq(p, 1, k)
  BY <1>3, PrefixOfPrefix
<1> QED BY <1>1, <1>4, <1>5 DEF Key, m, k

\* generate up to the table: the adopted blocks hold the KV of the prompt.
LEMMA GenerateKeeps ==
  ASSUME CallIInv, NEW p \in Prompts, NEW mx \in MaxNews, Generate(p, mx)
  PROVE  CallIInv' /\ BMNext
<1> DEFINE reuse == Reuse(p)
           m == Len(reuse)
           ids == blockIds'[seq]
<1>1. /\ pc = "idle" /\ seq \in Seqs /\ pc' = "prefill" /\ prompt' = p /\ out' = <<>> /\ start' = m * BlockSize
      /\ UNCHANGED <<seq, todo, kv, mask>> /\ Match(p) /\ Allocate(seq, Len(p), reuse)
  BY DEF Generate
<1>2. BMInv /\ NodesOK /\ NodesApart /\ CachedBlocksKeepTheirKV /\ ProofTypes
  BY DEF CallIInv, ProofTypes
<1>3. /\ p \in Seq(Tokens) /\ Len(p) \in TokenCounts /\ Len(p) \in Nat
      /\ reuse \in ReuseLists(Len(p)) /\ reuse \in Seq(Blocks) /\ m \in Nat /\ DOMAIN reuse = 1..m
      /\ m * BlockSize < Len(p) /\ m <= FullBlocks(p) /\ FullBlocks(p) \in Nat
      /\ \A i \in 1..m : \E k \in DOMAIN nodes : nodes[k].key = Key(p, i) /\ reuse[i] = nodes[k].blk
  BY <1>2, Adopted, LenProperties, KeyLength
<1>4. /\ BMInv' /\ BMNext /\ live' = live \cup {seq} /\ UNCHANGED pins
      /\ Len(p) <= Len(ids) * BlockSize
      /\ m <= Len(ids) /\ \A i \in 1..m : ids[i] = reuse[i]
      /\ Range(ids) \ Range(reuse) \subseteq free
  BY <1>1, <1>2, <1>3, AllocateForClient
<1>5. NodesOK' /\ SameNodes
  <2>1. clock' = clock + 1 /\ nodes' = Touched({Key(p, i) : i \in 1..MatchLength(p)}, clock + 1)
    BY <1>1 DEF Match
  <2>2. clock \in Nat
    BY <1>2 DEF NodesOK
  <2> QED BY <1>2, <2>1, <2>2, TouchKeeps
<1>6. NodesApart' /\ CachedBlocksKeepTheirKV'
  BY <1>1, <1>2, <1>4, <1>5, SameNodesKeep
<1>7. ids \in Seq(Blocks) /\ IsInjective(ids) /\ DOMAIN ids = 1..Len(ids) /\ Len(ids) \in Nat /\ BMTypeOK'
  <2>1. BMTypeOK' /\ ids \in Seq(Blocks) /\ IsInjective(ids)
    BY <1>1, <1>4 DEF BMInv, BMTypeOK, TableInjective
  <2> QED BY <2>1, LenProperties
<1> HIDE DEF reuse, m, ids
<1>8. InCall' /\ seq' = seq /\ ~InCall
  BY <1>1 DEF InCall
<1>9. Calls' /\ Visits' /\ Masked'
  BY <1>1, <1>4, <1>8 DEF CallIInv, Calls, Visits, Masked
<1>10. Counts'
  <2>1. m * BlockSize \in Nat
    BY <1>3, BlockSizeAssumption
  <2>2. TableCapacity(seq)' = Len(ids) * BlockSize
    BY <1>1 DEF TableCapacity, ids
  <2> QED BY <1>1, <1>3, <1>4, <2>1, <2>2 DEF Counts
<1>11. ProofTypes'
  <2>1. out' \in Seq(Tokens) /\ prompt' \in Prompts
    BY <1>1
  <2> QED BY <1>1, <1>2, <1>5, <1>7, <2>1 DEF ProofTypes, CacheTypeOK, NodesOK
<1>12. TableCached'
  <2> SUFFICES ASSUME NEW i \in DOMAIN ids, NEW k \in DOMAIN nodes, nodes[k].blk = ids[i]
               PROVE  nodes[k].key = Key(p, i) /\ i <= FullBlocks(p) /\ i * BlockSize <= m * BlockSize
    BY <1>1, <1>5 DEF TableCached, SameNodes, ids
  <2>1. ids[i] \notin free
    BY <1>2, CachedNotFree
  <2>2. ids[i] \in Range(reuse)
    BY <1>4, <2>1 DEF Range
  <2>3. PICK j \in 1..m : reuse[j] = ids[i]
    BY <1>3, <2>2 DEF Range
  <2>4. i = j
    BY <1>3, <1>4, <1>7, <2>3 DEF IsInjective
  <2>5. PICK l \in DOMAIN nodes : nodes[l].key = Key(p, j) /\ reuse[j] = nodes[l].blk
    BY <1>3
  <2>6. l = k
    BY <1>2, <2>3, <2>5 DEF NodesApart
  <2>7. i <= FullBlocks(p) /\ i * BlockSize <= m * BlockSize
    <3>1. i \in Nat /\ i <= m
      BY <1>3, <2>4
    <3> QED BY <1>3, <3>1, BlockSizeAssumption
  <2> QED BY <2>4, <2>5, <2>6, <2>7
<1>13. Stocked'
  <2> SUFFICES ASSUME NEW q \in 0..(m * BlockSize - 1)
               PROVE  kv[Slot(ids, q)[1]][Slot(ids, q)[2]] = SubSeq(p, 1, q + 1)
    <3>1. Context' = p
      BY <1>1, <1>3, ConcatEmptySeq DEF Context
    <3>2. StoredCount' = m * BlockSize
      BY <1>1 DEF StoredCount
    <3> QED BY <1>1, <3>1, <3>2 DEF Stocked, Cell, ids
  <2>1. m * BlockSize \in Nat /\ q \in Nat /\ q < m * BlockSize
    BY <1>3, BlockSizeAssumption
  <2> DEFINE i == (q \div BlockSize) + 1
             o == q % BlockSize
  <2>2. i \in 1..m
    BY <1>3, <2>1, PositionInTable
  <2>3. q < Len(ids) * BlockSize
    <3>1. m * BlockSize <= Len(ids) * BlockSize /\ Len(ids) * BlockSize \in Nat
      BY <1>3, <1>4, <1>7, BlockSizeAssumption
    <3> QED BY <2>1, <3>1
  <2>4. Slot(ids, q)[1] = ids[i] /\ Slot(ids, q)[2] = o /\ o \in 0..(BlockSize - 1)
    BY <1>7, <2>1, <2>3, SlotOfList
  <2>5. i * BlockSize - BlockSize + o + 1 = q + 1 /\ i * BlockSize \in Nat
    BY <2>1, PositionInBlock
  <2> HIDE DEF i, o
  <2>6. PICK k \in DOMAIN nodes : nodes[k].key = Key(p, i) /\ reuse[i] = nodes[k].blk
    BY <1>3, <2>2
  <2>7. kv[ids[i]][o] = SubSeq(Key(p, i), 1, Len(Key(p, i)) - BlockSize + o + 1)
    BY <1>2, <1>4, <2>2, <2>4, <2>6 DEF CachedBlocksKeepTheirKV
  <2>8. q = i * BlockSize - BlockSize + o
    BY <2>1, <2>4, <2>5, BlockSizeAssumption
  <2>9. i \in 1..FullBlocks(p)
    BY <1>3, <2>2
  <2>10. SubSeq(Key(p, i), 1, Len(Key(p, i)) - BlockSize + o + 1) = SubSeq(p, 1, q + 1)
    BY <1>3, <2>4, <2>8, <2>9, KeyPrefix
  <2> QED BY <2>4, <2>7, <2>10
<1> QED BY <1>4, <1>6, <1>9, <1>10, <1>11, <1>12, <1>13 DEF CallIInv

\* A call that the pool has no room for leaves the cache as match did.
LEMMA GenerateFailsKeeps ==
  ASSUME CallIInv, NEW p \in Prompts, GenerateFails(p)
  PROVE  CallIInv' /\ UNCHANGED bmVars
<1>1. /\ pc = "idle" /\ seq \in Seqs /\ pc' = pc /\ seq' = seq + 1 /\ Match(p)
      /\ UNCHANGED <<prompt, maxNew, out, start, todo, kv, bmVars, mask>>
  BY DEF GenerateFails
<1>2. BMInv /\ NodesOK /\ NodesApart /\ CachedBlocksKeepTheirKV /\ ProofTypes
  BY DEF CallIInv, ProofTypes
<1>3. BMInv' /\ BMTypeOK' /\ UNCHANGED <<live, pins>>
  BY <1>1, <1>2 DEF bmVars, BMInv, BMTypeOK, Partition, RefExact, Holders, TableBlocks, TableInjective, Capacity,
                    TableCapacity
<1>4. NodesOK' /\ SameNodes
  <2>1. clock' = clock + 1 /\ nodes' = Touched({Key(p, i) : i \in 1..MatchLength(p)}, clock + 1)
    BY <1>1 DEF Match
  <2>2. clock \in Nat
    BY <1>2 DEF NodesOK
  <2> QED BY <1>2, <2>1, <2>2, TouchKeeps
<1>5. NodesApart' /\ CachedBlocksKeepTheirKV'
  BY <1>1, <1>2, <1>3, <1>4, SameNodesKeep
<1>6. seq' \in 0..Cardinality(Seqs)
  BY <1>1, CallsAreNumbered
<1>7. ~InCall' /\ ~InCall
  BY <1>1 DEF InCall
<1>8. ProofTypes'
  BY <1>1, <1>2, <1>3, <1>4, <1>6 DEF ProofTypes, CacheTypeOK, NodesOK
<1>9. Calls' /\ Counts' /\ Visits' /\ TableCached' /\ Stocked' /\ Masked'
  BY <1>1, <1>3, <1>7 DEF CallIInv, Calls, Counts, Visits, TableCached, Stocked, Masked
<1> QED BY <1>1, <1>3, <1>5, <1>8, <1>9 DEF CallIInv

\* Writing positions of a table leaves the other positions, and the other blocks, alone.
LEMMA WrittenAt ==
  ASSUME NEW ids \in Seq(Blocks), IsInjective(ids), NEW tokens \in Seq(Tokens), NEW first \in Nat,
         Len(tokens) <= Len(ids) * BlockSize,
         kv \in [Blocks -> [0..(BlockSize - 1) -> Seq(Tokens) \cup {NoToken}]],
         kv' = Written(ids, tokens, first, Len(tokens))
  PROVE  /\ kv' \in [Blocks -> [0..(BlockSize - 1) -> Seq(Tokens) \cup {NoToken}]]
         /\ \A q \in 0..(Len(tokens) - 1) :
              kv'[Slot(ids, q)[1]][Slot(ids, q)[2]]
                = IF first <= q THEN SubSeq(tokens, 1, q + 1) ELSE kv[Slot(ids, q)[1]][Slot(ids, q)[2]]
         /\ \A b \in Blocks : (\A q \in first..(Len(tokens) - 1) : Slot(ids, q)[1] # b) => kv'[b] = kv[b]
<1> DEFINE last == Len(tokens)
           hits(b, o) == {q \in first..(last - 1) : Slot(ids, q) = <<b, o>>}
           T == Seq(Tokens) \cup {NoToken}
           cap == Len(ids) * BlockSize
<1>1. last \in Nat /\ Len(ids) \in Nat /\ cap \in Nat /\ last <= cap
  BY LenProperties, BlockSizeAssumption
<1>2. kv' = [b \in Blocks |-> [o \in 0..(BlockSize - 1) |->
               IF hits(b, o) = {} THEN kv[b][o] ELSE SubSeq(tokens, 1, Max(hits(b, o)) + 1)]]
  BY DEF Written
<1>3. ASSUME NEW b, NEW o, NEW q \in hits(b, o)
      PROVE  Max(hits(b, o)) = q /\ q \in Nat /\ q + 1 \in 0..last /\ q \in first..(last - 1)
  <2>1. q \in first..(last - 1) /\ q \in Nat /\ q < last /\ Slot(ids, q) = <<b, o>>
    BY <1>1
  <2>2. ASSUME NEW x \in hits(b, o) PROVE x = q
    <3>1. x \in Nat /\ x < last /\ Slot(ids, x) = <<b, o>>
      BY <1>1
    <3>2. x < Len(ids) * BlockSize /\ q < Len(ids) * BlockSize
      BY <1>1, <2>1, <3>1
    <3> HIDE DEF hits, last, cap
    <3> QED BY <2>1, <3>1, <3>2, SlotsOfList
  <2>3. hits(b, o) = {q}
    BY <2>2
  <2> HIDE DEF hits
  <2>4. Max({q}) = CHOOSE x \in {q} : \A y \in {q} : x >= y
    BY DEF Max
  <2>5. Max({q}) = q
    BY <2>1, <2>4
  <2> QED BY <1>1, <2>1, <2>3, <2>5
<1> HIDE DEF hits, last
<1>4. ASSUME NEW b \in Blocks, NEW o \in 0..(BlockSize - 1)
      PROVE  (IF hits(b, o) = {} THEN kv[b][o] ELSE SubSeq(tokens, 1, Max(hits(b, o)) + 1)) \in T
  <2>1. CASE hits(b, o) = {}
    BY <2>1
  <2>2. CASE hits(b, o) # {}
    <3>1. PICK q \in hits(b, o) : TRUE
      BY <2>2
    <3>2. Max(hits(b, o)) + 1 \in 0..last
      BY <1>3, <3>1
    <3>3. SubSeq(tokens, 1, Max(hits(b, o)) + 1) \in Seq(Tokens)
      BY <3>2, PrefixProperties DEF last
    <3> QED BY <2>2, <3>3
  <2> QED BY <2>1, <2>2
<1>5. kv' \in [Blocks -> [0..(BlockSize - 1) -> T]]
  BY <1>2, <1>4
<1>6. ASSUME NEW q \in 0..(last - 1)
      PROVE  kv'[Slot(ids, q)[1]][Slot(ids, q)[2]]
               = IF first <= q THEN SubSeq(tokens, 1, q + 1) ELSE kv[Slot(ids, q)[1]][Slot(ids, q)[2]]
  <2> DEFINE b == Slot(ids, q)[1]
             o == Slot(ids, q)[2]
  <2>1. q \in Nat /\ q < last /\ q < cap
    BY <1>1
  <2>2. b \in Blocks /\ o \in 0..(BlockSize - 1) /\ Slot(ids, q) = <<b, o>>
    <3>1. q < Len(ids) * BlockSize
      BY <2>1
    <3> HIDE DEF cap
    <3> QED BY <2>1, <3>1, SlotOfList
  <2> HIDE DEF b, o
  <2>3. kv'[b][o] = IF hits(b, o) = {} THEN kv[b][o] ELSE SubSeq(tokens, 1, Max(hits(b, o)) + 1)
    BY <1>2, <2>2
  <2>4. CASE first <= q
    <3>1. q \in hits(b, o)
      BY <2>1, <2>2, <2>4 DEF hits
    <3>2. Max(hits(b, o)) = q
      BY <1>3, <3>1
    <3> QED BY <2>3, <2>4, <3>1, <3>2 DEF b, o
  <2>5. CASE ~(first <= q)
    <3>1. hits(b, o) = {}
      <4> SUFFICES ASSUME NEW x \in hits(b, o) PROVE FALSE
        OBVIOUS
      <4>1. x \in first..(last - 1) /\ Slot(ids, x) = <<b, o>> /\ x \in Nat /\ x < last
        BY <1>1 DEF hits
      <4>2. x < Len(ids) * BlockSize /\ q < Len(ids) * BlockSize
        BY <1>1, <2>1, <4>1
      <4> HIDE DEF cap
      <4>3. x = q
        BY <2>1, <2>2, <4>1, <4>2, SlotsOfList
      <4> QED BY <2>5, <4>1, <4>3
    <3> QED BY <2>3, <2>5, <3>1 DEF b, o
  <2> QED BY <2>4, <2>5
<1>7. ASSUME NEW b \in Blocks, \A q \in first..(last - 1) : Slot(ids, q)[1] # b PROVE kv'[b] = kv[b]
  <2>1. \A o \in 0..(BlockSize - 1) : hits(b, o) = {}
    <3> SUFFICES ASSUME NEW o \in 0..(BlockSize - 1), NEW x \in hits(b, o) PROVE FALSE
      OBVIOUS
    <3>1. x \in first..(last - 1) /\ Slot(ids, x) = <<b, o>>
      BY DEF hits
    <3>2. Slot(ids, x)[1] = b
      BY <3>1
    <3> QED BY <1>7, <3>1, <3>2
  <2>2. kv'[b] = [o \in 0..(BlockSize - 1) |-> kv[b][o]]
    <3>1. kv'[b] = [o \in 0..(BlockSize - 1) |->
               IF hits(b, o) = {} THEN kv[b][o] ELSE SubSeq(tokens, 1, Max(hits(b, o)) + 1)]
      BY <1>2
    <3> QED BY <2>1, <3>1
  <2> QED BY <2>2
<1> QED BY <1>5, <1>6, <1>7 DEF last

\* A cached block of the table lies before every position that is still to be written.
LEMMA NewPositionsNotCached ==
  ASSUME CallIInv, InCall, NEW k \in DOMAIN nodes, NEW q \in Nat, q < TableCapacity(seq),
         q >= IF pc = "prefill" THEN start ELSE Len(prompt),
         start \in Nat, start <= Len(prompt)
  PROVE  Slot(blockIds[seq], q)[1] # nodes[k].blk
<1> DEFINE ids == blockIds[seq]
           i == (q \div BlockSize) + 1
           end == IF pc = "prefill" THEN start ELSE Len(prompt)
<1>1. ids \in Seq(Blocks) /\ q < Len(ids) * BlockSize /\ prompt \in Seq(Tokens) /\ Len(prompt) \in Nat
  BY CallTypes
<1>2. i \in 1..Len(ids) /\ Slot(ids, q)[1] = ids[i] /\ DOMAIN ids = 1..Len(ids)
  BY <1>1, SlotOfList, LenProperties
<1>3. q + 1 <= i * BlockSize /\ i \in Nat /\ i * BlockSize \in Nat
  BY PositionInBlock
<1>4. end \in Nat /\ q >= end
  BY <1>1
<1> SUFFICES ASSUME ids[i] = nodes[k].blk PROVE FALSE
  BY <1>2
<1>5. i <= FullBlocks(prompt) /\ (pc = "prefill" => i * BlockSize <= start)
  BY <1>2 DEF CallIInv, TableCached
<1>6. i \in 1..FullBlocks(prompt) /\ i * BlockSize \in 0..Len(prompt)
  <2>1. i \in 1..FullBlocks(prompt)
    BY <1>1, <1>2, <1>3, <1>5, KeyLength
  <2> HIDE DEF i
  <2> QED BY <1>1, <2>1, KeyLength
<1>7. i * BlockSize <= end
  <2> HIDE DEF i
  <2> QED BY <1>1, <1>5, <1>6
<1> HIDE DEF i, end
<1> QED BY <1>3, <1>4, <1>7

\* The prefill stores the rest of the prompt.
LEMMA PrefillKeeps ==
  ASSUME CallIInv, Prefill
  PROVE  CallIInv' /\ BMNext
<1> DEFINE ids == blockIds[seq]
           len == Len(prompt)
           full == FullBlocks(prompt)
<1>1. /\ pc = "prefill" /\ pc' = "insert" /\ kv' = Written(ids, prompt, start, len)
      /\ SetNumTokens(seq, len) /\ StartInsert /\ todo' = [i \in 1..full |-> i]
      /\ UNCHANGED <<seq, prompt, maxNew, out, start, mask>>
  BY DEF Prefill
<1>2. BMInv /\ NodesOK /\ NodesApart /\ CachedBlocksKeepTheirKV /\ ProofTypes
  BY DEF CallIInv, ProofTypes
<1>3. InCall /\ InCall'
  BY <1>1 DEF InCall
<1>4. /\ seq \in Seqs /\ prompt \in Seq(Tokens) /\ len \in TokenCounts /\ len \in Nat
      /\ ids \in Seq(Blocks) /\ IsInjective(ids) /\ TableCapacity(seq) = Len(ids) * BlockSize
      /\ TableCapacity(seq) \in Nat
      /\ out = <<>> /\ start \in Nat /\ start < len /\ len <= TableCapacity(seq) /\ Context = prompt
      /\ full \in Nat
  BY <1>1, <1>3, CallTypes, KeyLength DEF CallIInv, Counts
<1>5. BMInv' /\ BMNext /\ UNCHANGED <<live, blockIds, pins>> /\ numTokens'[seq] = len
  BY <1>1, <1>2, <1>4, CountForClient
<1>6. BMTypeOK'
  BY <1>5 DEF BMInv
<1>7. NodesOK' /\ SameNodes /\ clock' \in Nat /\ clock' >= 1 /\ nodes' = nodes
  <2>1. clock' = clock + 1 /\ nodes' = nodes /\ clock \in Nat
    BY <1>1, <1>2 DEF StartInsert, NodesOK
  <2> QED BY <1>2, <2>1 DEF NodesOK, SameNodes
<1>8. NodesApart'
  BY <1>2, <1>5, <1>7, SameNodesKeep
<1>9. /\ kv' \in [Blocks -> [0..(BlockSize - 1) -> Seq(Tokens) \cup {NoToken}]]
      /\ \A q \in 0..(len - 1) :
           kv'[Slot(ids, q)[1]][Slot(ids, q)[2]]
             = IF start <= q THEN SubSeq(prompt, 1, q + 1) ELSE kv[Slot(ids, q)[1]][Slot(ids, q)[2]]
      /\ \A b \in Blocks : (\A q \in start..(len - 1) : Slot(ids, q)[1] # b) => kv'[b] = kv[b]
  BY <1>1, <1>2, <1>4, WrittenAt DEF ProofTypes
<1> HIDE DEF ids, len, full
<1>10. Calls' /\ Masked'
  BY <1>1, <1>3, <1>5 DEF CallIInv, Calls, Masked
<1>11. Counts'
  <2>1. Context' = Context
    BY <1>1 DEF Context
  <2> QED BY <1>1, <1>4, <1>5, <2>1 DEF Counts, len
<1>12. Visits'
  <2>1. todo' \in [1..full -> 1..full]
    BY <1>1
  <2>2. todo' \in Seq(1..full)
    BY <1>4, <2>1, ListFromFunction
  <2> QED BY <1>1, <1>7, <2>2 DEF Visits, FullBlocks, full
<1>13. ProofTypes'
  <2>1. CacheTypeOK'
    <3>1. /\ pc' \in {"idle", "prefill", "insert", "sample", "decode", "finally", "evict"}
          /\ seq' \in 0..Cardinality(Seqs) /\ prompt' \in Prompts \cup {<<>>} /\ out' \in Seq(Tokens)
          /\ \A mc \in Buckets : mask'[mc] \subseteq 1..mc
      BY <1>1, <1>2 DEF ProofTypes, CacheTypeOK
    <3>2. \A b \in Blocks, o \in 0..(BlockSize - 1) : kv'[b][o] \in Seq(Tokens) \cup {NoToken}
      BY <1>9
    <3>3. \A i \in DOMAIN nodes' : nodes'[i].blk \in Blocks /\ nodes'[i].used \in 1..clock'
      BY <1>7 DEF NodesOK
    <3> QED BY <1>6, <3>1, <3>2, <3>3 DEF CacheTypeOK
  <2>2. mask' \in [Buckets -> SUBSET Nat]
    BY <1>1, <1>2 DEF ProofTypes
  <2> QED BY <1>7, <1>9, <2>1, <2>2 DEF ProofTypes
<1>14. TableCached'
  BY <1>1, <1>3, <1>5, <1>7 DEF CallIInv, TableCached
<1>15. CachedBlocksKeepTheirKV'
  <2>1. ASSUME NEW k \in DOMAIN nodes PROVE kv'[nodes[k].blk] = kv[nodes[k].blk]
    <3>1. nodes[k].blk \in Blocks
      BY <1>2, CachedNotFree
    <3>2. ASSUME NEW q \in start..(len - 1) PROVE Slot(ids, q)[1] # nodes[k].blk
      <4>1. q \in Nat /\ q >= start /\ q < TableCapacity(seq)
        BY <1>4
      <4> QED BY <1>1, <1>3, <1>4, <4>1, NewPositionsNotCached DEF ids, len
    <3> QED BY <1>9, <3>1, <3>2
  <2> QED BY <1>2, <1>7, <2>1 DEF CachedBlocksKeepTheirKV
<1>16. Stocked'
  <2> SUFFICES ASSUME NEW q \in 0..(len - 1)
               PROVE  kv'[Slot(ids, q)[1]][Slot(ids, q)[2]] = SubSeq(prompt, 1, q + 1)
    <3>1. Context' = prompt
      BY <1>1, <1>4 DEF Context
    <3>2. StoredCount' = len
      BY <1>1, <1>5 DEF StoredCount
    <3>3. blockIds'[seq'] = ids
      BY <1>1, <1>5 DEF ids
    <3> QED BY <1>1, <3>1, <3>2, <3>3 DEF Stocked, Cell
  <2>1. q \in Nat /\ (q >= start \/ q \in 0..(start - 1))
    BY <1>4
  <2>2. CASE q >= start
    BY <1>4, <1>9, <2>1, <2>2
  <2>3. CASE ~(q >= start)
    <3>1. Cell(q) = SubSeq(Context, 1, q + 1)
      BY <1>1, <2>1, <2>3 DEF CallIInv, Stocked, StoredCount
    <3>2. kv[Slot(ids, q)[1]][Slot(ids, q)[2]] = SubSeq(prompt, 1, q + 1)
      BY <1>4, <3>1 DEF Cell, ids
    <3> QED BY <1>4, <1>9, <2>1, <2>3, <3>2
  <2> QED BY <2>2, <2>3
<1> QED BY <1>5, <1>8, <1>10, <1>11, <1>12, <1>13, <1>14, <1>15, <1>16 DEF CallIInv

\* Offering a block to the cache: one that is new to it is pinned.
LEMMA InsertKeeps ==
  ASSUME CallIInv, InsertBlock
  PROVE  CallIInv' /\ [BMNext]_bmVars
<1> DEFINE ids == blockIds[seq]
           full == FullBlocks(prompt)
<1>1. PICK i \in 1..full : i = Head(todo)
  <2>1. todo \in Seq(1..full) /\ todo # <<>>
    BY DEF InsertBlock, CallIInv, Visits
  <2> QED BY <2>1, HeadAndTail
<1>2. /\ pc = "insert" /\ pc' = "insert" /\ todo' = Tail(todo) /\ todo \in Seq(1..full) /\ todo' \in Seq(1..full)
      /\ UNCHANGED <<seq, prompt, maxNew, out, start, kv, mask>>
      /\ Insert(Key(prompt, i), ids[i])
  <2>1. todo \in Seq(1..full) /\ todo # <<>>
    BY DEF InsertBlock, CallIInv, Visits
  <2> QED BY <1>1, <2>1, HeadAndTail DEF InsertBlock
<1>3. BMInv /\ NodesOK /\ NodesApart /\ CachedBlocksKeepTheirKV /\ ProofTypes
  BY DEF CallIInv, ProofTypes
<1>4. InCall /\ InCall'
  BY <1>2 DEF InCall
<1>5. /\ seq \in Seqs /\ live = {seq} /\ prompt \in Seq(Tokens) /\ Len(prompt) \in Nat
      /\ ids \in Seq(Blocks) /\ IsInjective(ids) /\ Len(ids) \in Nat /\ DOMAIN ids = 1..Len(ids)
      /\ numTokens[seq] = Len(prompt) /\ Len(prompt) <= Len(ids) * BlockSize
      /\ full \in Nat /\ full * BlockSize <= Len(prompt) /\ Context = prompt /\ clock \in Nat /\ clock >= 1
  BY <1>2, <1>3, <1>4, CallTypes, KeyLength, LenProperties DEF CallIInv, Counts, Visits, NodesOK
<1>6. i \in 1..Len(ids) /\ ids[i] \in Blocks /\ i \in Nat \ {0} /\ i * BlockSize <= Len(prompt)
  <2> DEFINE L == Len(ids)
             len == Len(prompt)
  <2>1. full * BlockSize <= len /\ len <= L * BlockSize /\ full \in Nat /\ L \in Nat /\ len \in Nat
    BY <1>5
  <2> HIDE DEF full, L, len
  <2>2. full <= L
    BY <2>1, BlockSizeAssumption
  <2>3. i \in 1..L /\ i \in Nat \ {0} /\ i <= full
    BY <2>1, <2>2
  <2>4. i * BlockSize <= full * BlockSize /\ i * BlockSize \in Nat /\ full * BlockSize \in Nat
    BY <2>1, <2>3, BlockSizeAssumption
  <2>5. i * BlockSize <= len
    BY <2>1, <2>4
  <2>6. ids[i] \in Blocks
    BY <1>5, <2>3 DEF L
  <2> QED BY <2>3, <2>5, <2>6 DEF L, len
<1> HIDE DEF ids, full
<1>7. CASE Key(prompt, i) \in Cached
  <2>1. nodes' = Touched({Key(prompt, i)}, clock) /\ UNCHANGED bmVars /\ clock' = clock
    BY <1>2, <1>7 DEF Insert
  <2>2. BMInv' /\ BMTypeOK' /\ UNCHANGED <<live, pins, blockIds, numTokens>>
    BY <1>3, <2>1 DEF bmVars, BMInv, BMTypeOK, Partition, RefExact, Holders, TableBlocks, TableInjective, Capacity,
                    TableCapacity
  <2>3. NodesOK' /\ SameNodes
    BY <1>3, <1>5, <2>1, TouchKeeps
  <2>4. NodesApart' /\ CachedBlocksKeepTheirKV'
    BY <1>2, <1>3, <2>2, <2>3, SameNodesKeep
  <2>5. ProofTypes'
    BY <1>2, <1>3, <2>2, <2>3 DEF ProofTypes, CacheTypeOK, NodesOK
  <2>6. Calls' /\ Masked' /\ Counts' /\ Visits'
    BY <1>2, <1>4, <1>5, <2>1, <2>2 DEF CallIInv, Calls, Masked, Counts, Visits, Context, full, FullBlocks
  <2>7. TableCached'
    BY <1>2, <1>4, <2>2, <2>3 DEF CallIInv, TableCached, SameNodes
  <2>8. Stocked'
    BY <1>2, <2>2 DEF CallIInv, Stocked, Cell, StoredCount, Context
  <2> QED BY <2>1, <2>2, <2>4, <2>5, <2>6, <2>7, <2>8 DEF CallIInv
<1>8. CASE Key(prompt, i) \notin Cached
  <2> DEFINE blk == ids[i]
             node == [key |-> Key(prompt, i), blk |-> blk, used |-> clock]
             n == Len(nodes)
  <2>1. nodes' = Append(nodes, node) /\ AddRef(blk) /\ clock' = clock
    BY <1>2, <1>8 DEF Insert
  <2>2. n \in Nat /\ DOMAIN nodes = 1..n /\ nodes \in Seq(Nodes)
    BY <1>3, LenProperties DEF NodesOK
  <2>3. node \in Nodes /\ node.key = Key(prompt, i) /\ node.blk = blk /\ node.used = clock
    BY <1>5, <1>6, KeyLength DEF Nodes, full
  <2> HIDE DEF node
  <2>4. nodes' \in Seq(Nodes) /\ Len(nodes') = n + 1 /\ (\A k \in 1..n : nodes'[k] = nodes[k]) /\ nodes'[n + 1] = node
        /\ DOMAIN nodes' = 1..(n + 1)
    BY <2>1, <2>2, <2>3, AppendProperties, LenProperties
  <2>5. \A k \in DOMAIN nodes : nodes[k].blk # blk /\ nodes[k].key # Key(prompt, i)
    <3>1. \A k \in DOMAIN nodes : nodes[k].key # Key(prompt, i)
      BY <1>8 DEF Cached
    <3> QED BY <1>4, <1>5, <1>6, <3>1 DEF CallIInv, TableCached, ids
  <2>6. blk \in HeldBlocks /\ pins[blk] = 0
    <3>1. blk \in TableBlocks(seq) /\ blk \in Blocks
      BY <1>5, <1>6 DEF TableBlocks, ids, Range
    <3>2. blk \notin free
      BY <1>3, <1>5, <3>1, ListedNotFree
    <3>3. refCount[blk] \in Nat /\ refCount[blk] # 0
      BY <1>3, <3>1, <3>2 DEF BMInv, BMTypeOK, Partition
    <3>4. blk \notin CachedBlocks
      BY <2>5 DEF CachedBlocks
    <3> QED BY <1>3, <3>1, <3>3, <3>4 DEF HeldBlocks, NodesApart
  <2>7. BMInv' /\ BMNext
    <3>1. pins[blk] < MaxPins
      BY <2>6, PinAssumption, MaxPinsAssumption
    <3> QED BY <1>3, <2>1, <2>6, <3>1, AddRefInv DEF BMNext
  <2>8. UNCHANGED <<live, blockIds, numTokens>> /\ pins' = [pins EXCEPT ![blk] = @ + 1] /\ BMTypeOK'
    BY <2>1, <2>7 DEF AddRef, BMInv
  <2>9. NodesOK'
    BY <1>3, <1>5, <1>6, <2>1, <2>2, <2>3, <2>4 DEF NodesOK
  <2>10. NodesApart'
    <3>1. ASSUME NEW j \in DOMAIN nodes', NEW k \in DOMAIN nodes',
                 nodes'[j].key = nodes'[k].key \/ nodes'[j].blk = nodes'[k].blk
          PROVE  j = k
      <4>1. (j \in 1..n \/ j = n + 1) /\ (k \in 1..n \/ k = n + 1)
        BY <2>2, <2>4
      <4> QED BY <1>3, <2>2, <2>3, <2>4, <2>5, <3>1, <4>1 DEF NodesApart
    <3>2. CachedBlocks' = CachedBlocks \cup {blk}
      <4>1. \A x \in CachedBlocks' : x \in CachedBlocks \cup {blk}
        <5> SUFFICES ASSUME NEW k \in DOMAIN nodes' PROVE nodes'[k].blk \in CachedBlocks \cup {blk}
          BY DEF CachedBlocks
        <5>1. k \in 1..n \/ k = n + 1
          BY <2>2, <2>4
        <5> QED BY <2>2, <2>3, <2>4, <5>1 DEF CachedBlocks
      <4>2. blk \in CachedBlocks'
        <5>1. n + 1 \in DOMAIN nodes' /\ nodes'[n + 1].blk = blk
          BY <2>2, <2>3, <2>4
        <5> QED BY <5>1 DEF CachedBlocks
      <4>3. \A x \in CachedBlocks : x \in CachedBlocks'
        <5> SUFFICES ASSUME NEW k \in DOMAIN nodes PROVE nodes[k].blk \in CachedBlocks'
          BY DEF CachedBlocks
        <5>1. k \in DOMAIN nodes' /\ nodes'[k].blk = nodes[k].blk
          BY <2>2, <2>4
        <5> QED BY <5>1 DEF CachedBlocks
      <4> QED BY <4>1, <4>2, <4>3
    <3>3. \A b \in Blocks : pins'[b] = IF b \in CachedBlocks' THEN 1 ELSE 0
      <4> SUFFICES ASSUME NEW b \in Blocks PROVE pins'[b] = IF b \in CachedBlocks' THEN 1 ELSE 0
        OBVIOUS
      <4>1. pins \in [Blocks -> Nat]
        BY <1>3 DEF BMInv, BMTypeOK
      <4>2. pins'[b] = IF b = blk THEN pins[b] + 1 ELSE pins[b]
        BY <2>8, <4>1
      <4>3. pins[b] = IF b \in CachedBlocks THEN 1 ELSE 0
        BY <1>3 DEF NodesApart
      <4> QED BY <2>6, <3>2, <4>2, <4>3
    <3> QED BY <3>1, <3>3 DEF NodesApart
  <2>11. ProofTypes'
    BY <1>2, <1>3, <2>8, <2>9 DEF ProofTypes, CacheTypeOK, NodesOK
  <2>12. Calls' /\ Masked' /\ Counts' /\ Visits'
    BY <1>2, <1>4, <1>5, <2>1, <2>8 DEF CallIInv, Calls, Masked, Counts, Visits, Context, full, FullBlocks
  <2>13. TableCached'
    <3> SUFFICES ASSUME NEW j \in DOMAIN ids, NEW k \in DOMAIN nodes', nodes'[k].blk = ids[j]
                 PROVE  nodes'[k].key = Key(prompt, j) /\ j <= full
      BY <1>2, <2>8 DEF TableCached, ids, full, FullBlocks
    <3>1. k \in 1..n \/ k = n + 1
      BY <2>2, <2>4
    <3>2. CASE k \in 1..n
      BY <1>4, <2>2, <2>4, <3>2 DEF CallIInv, TableCached, ids, full
    <3>3. CASE k = n + 1
      <4>1. ids[j] = ids[i]
        BY <2>3, <2>4, <3>3
      <4>2. j = i
        BY <1>5, <1>6, <4>1 DEF IsInjective
      <4> QED BY <1>5, <2>3, <2>4, <3>3, <4>2
    <3> QED BY <3>1, <3>2, <3>3
  <2>14. Stocked'
    BY <1>2, <2>8 DEF CallIInv, Stocked, Cell, StoredCount, Context
  <2>15. CachedBlocksKeepTheirKV'
    <3> SUFFICES ASSUME NEW k \in DOMAIN nodes', NEW o \in 0..(BlockSize - 1)
                 PROVE  kv[nodes'[k].blk][o] = SubSeq(nodes'[k].key, 1, Len(nodes'[k].key) - BlockSize + o + 1)
      BY <1>2 DEF CachedBlocksKeepTheirKV
    <3>1. k \in 1..n \/ k = n + 1
      BY <2>2, <2>4
    <3>2. CASE k \in 1..n
      BY <1>3, <2>2, <2>4, <3>2 DEF CachedBlocksKeepTheirKV
    <3>3. CASE k = n + 1
      <4> DEFINE q == i * BlockSize - BlockSize + o
      <4>1. q \in Nat /\ (q \div BlockSize) + 1 = i /\ q % BlockSize = o /\ q + 1 <= i * BlockSize
        BY <1>6, BlockOfPosition
      <4>2. SubSeq(Key(prompt, i), 1, Len(Key(prompt, i)) - BlockSize + o + 1) = SubSeq(prompt, 1, q + 1)
        BY <1>5, KeyPrefix DEF full
      <4>3. i * BlockSize \in Nat
        BY <1>6, BlockSizeAssumption
      <4> HIDE DEF q
      <4>4. q \in 0..(numTokens[seq] - 1)
        BY <1>5, <1>6, <4>1, <4>3
      <4>5. Cell(q) = SubSeq(prompt, 1, q + 1)
        BY <1>2, <1>5, <4>4 DEF CallIInv, Stocked, StoredCount
      <4>6. q < Len(ids) * BlockSize
        <5>1. Len(ids) * BlockSize \in Nat
          BY <1>5, BlockSizeAssumption
        <5> QED BY <1>5, <1>6, <4>1, <4>3, <5>1
      <4>7. Slot(ids, q)[1] = blk /\ Slot(ids, q)[2] = o
        BY <1>5, <4>1, <4>6, SlotOfList
      <4>8. Cell(q) = kv[blk][o]
        BY <4>7 DEF Cell, ids
      <4> QED BY <2>3, <2>4, <3>3, <4>2, <4>5, <4>8
    <3> QED BY <3>1, <3>2, <3>3
  <2> QED BY <2>7, <2>10, <2>11, <2>12, <2>13, <2>14, <2>15 DEF CallIInv
<1> QED BY <1>7, <1>8

\* A step that changes no table, no node and no count.
LEMMA BlocksStay ==
  ASSUME CallIInv, UNCHANGED bmVars
  PROVE  BMInv' /\ BMTypeOK' /\ UNCHANGED <<live, blockIds, numTokens, pins>>
BY DEF CallIInv, bmVars, BMInv, BMTypeOK, Partition, RefExact, Holders, TableBlocks, TableInjective, Capacity, TableCapacity

\* A sampled token extends the context by one that is not stored.
LEMMA SampleKeeps ==
  ASSUME CallIInv, Sample
  PROVE  CallIInv' /\ UNCHANGED bmVars
<1>1. PICK t \in Tokens : /\ out' = Append(out, t)
                          /\ pc' = IF Len(out) + 1 < maxNew /\ t # Eos THEN "decode" ELSE "finally"
  BY DEF Sample
<1>2. pc \in {"sample", "insert"} /\ UNCHANGED <<seq, prompt, maxNew, start, todo, kv, bmVars, cacheVars, mask>>
  BY DEF Sample
<1>3. BMInv' /\ BMTypeOK' /\ UNCHANGED <<live, blockIds, numTokens, pins>>
  BY <1>2, BlocksStay
<1>4. InCall /\ InCall' /\ pc' \in {"decode", "finally"}
  BY <1>1, <1>2 DEF InCall
<1>5. /\ prompt \in Seq(Tokens) /\ out \in Seq(Tokens) /\ Context \in Seq(Tokens) /\ numTokens[seq] = Len(Context)
      /\ Len(Context) \in Nat /\ Len(prompt) \in Nat /\ Len(out) \in Nat
  BY <1>2, <1>4, CallTypes, LenProperties DEF CallIInv, Counts
<1>6. /\ out' \in Seq(Tokens) /\ out' # <<>> /\ Len(out') = Len(out) + 1 /\ out'[Len(out) + 1] = t
      /\ \A j \in 1..Len(out) : out'[j] = out[j]
  BY <1>1, <1>5, AppendProperties
<1>7. Context' = Append(Context, t) /\ Len(Context') = Len(Context) + 1
  <2> DEFINE u == prompt \o out'
             v == Append(Context, t)
  <2>1. /\ u \in Seq(Tokens) /\ Len(u) = Len(prompt) + Len(out')
        /\ \A j \in 1..(Len(prompt) + Len(out')) : u[j] = IF j <= Len(prompt) THEN prompt[j] ELSE out'[j - Len(prompt)]
    <3>1. PICK longer \in Seq(Tokens) : longer = out'
      BY <1>6
    <3>2. /\ prompt \o longer \in Seq(Tokens) /\ Len(prompt \o longer) = Len(prompt) + Len(longer)
          /\ \A j \in 1..(Len(prompt) + Len(longer)) :
               (prompt \o longer)[j] = IF j <= Len(prompt) THEN prompt[j] ELSE longer[j - Len(prompt)]
      BY <1>5, ConcatProperties
    <3> QED BY <3>1, <3>2
  <2>2. /\ Len(Context) = Len(prompt) + Len(out)
        /\ \A j \in 1..(Len(prompt) + Len(out)) : Context[j] = IF j <= Len(prompt) THEN prompt[j] ELSE out[j - Len(prompt)]
    BY <1>5, ConcatProperties DEF Context
  <2>3. /\ v \in Seq(Tokens) /\ Len(v) = Len(Context) + 1 /\ v[Len(Context) + 1] = t
        /\ \A j \in 1..Len(Context) : v[j] = Context[j]
    BY <1>5, AppendProperties
  <2> HIDE DEF u, v
  <2>4. Len(u) = Len(v)
    BY <1>5, <1>6, <2>1, <2>2, <2>3
  <2>5. ASSUME NEW j \in 1..Len(u) PROVE u[j] = v[j]
    <3>1. j \in Nat /\ j <= Len(prompt) + Len(out) + 1
      BY <1>5, <1>6, <2>1
    <3>2. CASE j <= Len(prompt)
      <4>1. j \in 1..Len(Context) /\ j \in 1..(Len(prompt) + Len(out')) /\ j \in 1..(Len(prompt) + Len(out))
        BY <1>5, <1>6, <2>1, <2>2, <3>1, <3>2
      <4> QED BY <2>1, <2>2, <2>3, <3>2, <4>1
    <3>3. CASE j > Len(prompt) /\ j <= Len(prompt) + Len(out)
      <4>1. /\ j \in 1..Len(Context) /\ j \in 1..(Len(prompt) + Len(out')) /\ j \in 1..(Len(prompt) + Len(out))
            /\ j - Len(prompt) \in 1..Len(out) /\ ~(j <= Len(prompt))
        BY <1>5, <1>6, <2>1, <2>2, <3>1, <3>3
      <4> QED BY <1>6, <2>1, <2>2, <2>3, <4>1
    <3>4. CASE j = Len(prompt) + Len(out) + 1
      <4>1. /\ j = Len(Context) + 1 /\ j \in 1..(Len(prompt) + Len(out'))
            /\ j - Len(prompt) = Len(out) + 1 /\ ~(j <= Len(prompt))
        BY <1>5, <1>6, <2>1, <2>2, <3>1, <3>4
      <4> QED BY <1>6, <2>1, <2>3, <4>1
    <3> QED BY <1>5, <3>1, <3>2, <3>3, <3>4
  <2>6. u = v
    BY <2>1, <2>3, <2>4, <2>5, SeqEqual
  <2>7. Context' = u
    BY <1>2 DEF Context, u
  <2> QED BY <2>3, <2>6, <2>7 DEF v
<1>8. ProofTypes'
  BY <1>2, <1>3, <1>4, <1>6 DEF CallIInv, ProofTypes, CacheTypeOK, NodesOK, cacheVars
<1>9. NodesApart' /\ CachedBlocksKeepTheirKV'
  BY <1>2, <1>3 DEF CallIInv, NodesApart, CachedBlocksKeepTheirKV, CachedBlocks, cacheVars
<1>10. Calls' /\ Visits' /\ Masked'
  BY <1>2, <1>3, <1>4 DEF CallIInv, Calls, Visits, Masked
<1>11. Counts'
  <2>1. numTokens'[seq'] = Len(Context') - 1
    BY <1>2, <1>3, <1>5, <1>7
  <2> QED BY <1>4, <1>6, <2>1 DEF Counts
<1>12. TableCached'
  BY <1>2, <1>3, <1>4 DEF CallIInv, TableCached, cacheVars
<1>13. Stocked'
  <2> SUFFICES ASSUME NEW q \in 0..(numTokens[seq] - 1)
               PROVE  Cell(q) = SubSeq(Context', 1, q + 1)
    BY <1>2, <1>3, <1>4 DEF Stocked, Cell, StoredCount
  <2>1. Cell(q) = SubSeq(Context, 1, q + 1)
    BY <1>2 DEF CallIInv, Stocked, StoredCount
  <2>2. q + 1 \in 0..Len(Context)
    BY <1>5
  <2>3. SubSeq(Append(Context, t), 1, q + 1) = SubSeq(Context, 1, q + 1)
    BY <1>5, <2>2, PrefixOfAppend
  <2> QED BY <1>7, <2>1, <2>3
<1> QED BY <1>2, <1>3, <1>8, <1>9, <1>10, <1>11, <1>12, <1>13 DEF CallIInv

\* The smallest captured window that holds a context.
LEMMA FittingBucket ==
  ASSUME NEW n \in Nat, CanHandle(n)
  PROVE  SmallestFit(n) \in Buckets /\ SmallestFit(n) \in Nat /\ n <= SmallestFit(n)
<1> DEFINE S == {mc \in Buckets : n <= mc}
<1>1. S \in SUBSET Nat /\ S # {}
  BY BucketsArePositive DEF CanHandle
<1>2. \E x \in S : \A y \in S : x <= y
  <2> HIDE DEF S
  <2> QED BY <1>1, LeastOfSet
<1>3. SmallestFit(n) = CHOOSE x \in S : \A y \in S : x <= y
  BY DEF SmallestFit, Min
<1>4. SmallestFit(n) \in S
  BY <1>2, <1>3
<1> QED BY <1>1, <1>4

\* What append_token makes room in: the slot of the next position, in a block that is
\* not cached; no block of the longer table is cached that was not before.
TableStaysCached ==
  /\ \A i \in DOMAIN blockIds'[seq], k \in DOMAIN nodes : nodes[k].blk = blockIds'[seq][i] =>
       nodes[k].key = Key(prompt, i) /\ i <= FullBlocks(prompt)
  /\ \A k \in DOMAIN nodes : nodes[k].blk # Slot(blockIds'[seq], numTokens[seq])[1]

LEMMA RoomOfAppend ==
  ASSUME CallIInv, pc = "decode", AppendToken(seq)
  PROVE  /\ BMInv' /\ BMNext /\ BMTypeOK' /\ live' = live /\ UNCHANGED pins
         /\ numTokens[seq] \in Nat /\ numTokens'[seq] = numTokens[seq] + 1
         /\ Len(ContextSlots(blockIds'[seq], numTokens'[seq])) = numTokens[seq] + 1
         /\ TableStaysCached
<1> DEFINE ids == blockIds[seq]
           new == blockIds'[seq]
           n == numTokens[seq]
           b == Slot(new, n)[1]
           o == Slot(new, n)[2]
           slots == ContextSlots(new, numTokens'[seq])
<1>1. pc = "decode" /\ AppendToken(seq)
  OBVIOUS
<1>3. InCall
  BY DEF InCall
<1>2. BMInv /\ NodesOK /\ NodesApart /\ CachedBlocksKeepTheirKV /\ ProofTypes
  BY DEF CallIInv, ProofTypes
<1>4. /\ seq \in Seqs /\ live = {seq} /\ prompt \in Seq(Tokens) /\ Len(prompt) \in Nat /\ Context \in Seq(Tokens)
      /\ ids \in Seq(Blocks) /\ Len(ids) \in Nat /\ n \in Nat /\ n <= Len(ids) * BlockSize
      /\ n = Len(Context) - 1 /\ Len(Context) = Len(prompt) + Len(out) /\ Len(out) \in Nat /\ out # <<>>
      /\ out \in Seq(Tokens)
  BY <1>1, <1>3, CallTypes DEF CallIInv, Counts
<1>5. /\ BMInv' /\ BMNext /\ live' = live /\ UNCHANGED pins /\ numTokens'[seq] = n + 1
      /\ Len(ids) <= Len(new) /\ (\A i \in 1..Len(ids) : new[i] = ids[i])
      /\ Range(new) \ TableBlocks(seq) \subseteq free
  BY <1>1, <1>2, <1>4, AppendForClient
<1>6. /\ BMTypeOK' /\ new \in Seq(Blocks) /\ IsInjective(new) /\ Len(new) \in Nat /\ DOMAIN new = 1..Len(new)
      /\ n + 1 <= Len(new) * BlockSize
  <2>1. BMTypeOK' /\ new \in Seq(Blocks) /\ IsInjective(new)
    BY <1>4, <1>5 DEF BMInv, BMTypeOK, TableInjective
  <2>2. numTokens'[seq] <= Len(new) * BlockSize
    BY <1>4, <1>5 DEF BMInv, Capacity, TableCapacity
  <2> QED BY <1>5, <2>1, <2>2, LenProperties
<1> DEFINE cap == Len(new) * BlockSize
           oldCap == Len(ids) * BlockSize
<1>7. cap \in Nat /\ oldCap \in Nat /\ oldCap <= cap /\ n < cap
  <2>1. cap \in Nat /\ oldCap \in Nat /\ oldCap <= cap
    BY <1>4, <1>5, <1>6, BlockSizeAssumption
  <2> QED BY <1>4, <1>6, <2>1
<1>8. b \in Blocks /\ o \in 0..(BlockSize - 1) /\ Slot(new, n) = <<b, o>>
      /\ (n \div BlockSize) + 1 \in 1..Len(new) /\ b = new[(n \div BlockSize) + 1]
  <2>1. n < Len(new) * BlockSize
    BY <1>7
  <2>2. /\ (n \div BlockSize) + 1 \in 1..Len(new) /\ new[(n \div BlockSize) + 1] \in Blocks
        /\ Slot(new, n) = <<new[(n \div BlockSize) + 1], n % BlockSize>>
        /\ b = new[(n \div BlockSize) + 1] /\ o = n % BlockSize
        /\ n % BlockSize \in 0..(BlockSize - 1)
    BY <1>4, <1>6, <2>1, SlotOfList
  <2> HIDE DEF b, o, new, n
  <2> QED BY <2>2
<1>10. slots = ContextSlots(new, n + 1) /\ Len(slots) = n + 1
  <2> DEFINE T == {Slot(new, c - 1) : c \in 1..(n + 1)}
             f == [c \in 1..(n + 1) |-> Slot(new, c - 1)]
  <2>1. f \in [1..(n + 1) -> T] /\ n + 1 \in Nat
    BY <1>4
  <2> HIDE DEF T
  <2>2. Len(f) = n + 1
    <3> HIDE DEF f
    <3> QED BY <2>1, ListFromFunction
  <2> QED BY <1>5, <2>2 DEF ContextSlots
<1> HIDE DEF ids, new, n, b, o, slots, cap, oldCap
<1>19. \A i \in DOMAIN new, k \in DOMAIN nodes : nodes[k].blk = new[i] =>
         nodes[k].key = Key(prompt, i) /\ i <= FullBlocks(prompt)
  <2> SUFFICES ASSUME NEW i \in DOMAIN new, NEW k \in DOMAIN nodes, nodes[k].blk = new[i]
               PROVE  nodes[k].key = Key(prompt, i) /\ i <= FullBlocks(prompt)
    OBVIOUS
  <2>1. new[i] \notin free
    BY <1>2, CachedNotFree
  <2>2. new[i] \in TableBlocks(seq)
    BY <1>5, <2>1 DEF Range
  <2>3. PICK j \in DOMAIN ids : ids[j] = new[i]
    BY <2>2 DEF TableBlocks, Range, ids
  <2>4. j \in 1..Len(ids)
    BY <1>4, LenProperties
  <2>5. j = i
    <3>1. j \in 1..Len(new) /\ new[j] = ids[j]
      BY <1>4, <1>5, <1>6, <2>4
    <3> QED BY <1>6, <2>3, <3>1 DEF IsInjective
  <2> QED BY <1>3, <2>3, <2>5 DEF CallIInv, TableCached, ids
<1>20. \A k \in DOMAIN nodes : nodes[k].blk # b
  <2> SUFFICES ASSUME NEW k \in DOMAIN nodes, nodes[k].blk = b PROVE FALSE
    OBVIOUS
  <2> DEFINE i == (n \div BlockSize) + 1
  <2>1. i \in DOMAIN new /\ new[i] = nodes[k].blk
    BY <1>6, <1>8
  <2>2. n + 1 <= i * BlockSize /\ i \in Nat /\ i * BlockSize \in Nat
    BY <1>4, PositionInBlock
  <2> HIDE DEF i
  <2>3. i <= FullBlocks(prompt)
    BY <1>19, <2>1
  <2>4. i \in 1..FullBlocks(prompt)
    BY <1>4, <1>6, <2>1, <2>2, <2>3, KeyLength
  <2>5. i * BlockSize <= Len(prompt)
    BY <1>4, <2>4, KeyLength
  <2>6. Len(out) # 0
    BY <1>4, EmptySeq
  <2> QED BY <1>4, <2>2, <2>5, <2>6
<1>21. TableStaysCached
  BY <1>19, <1>20 DEF TableStaysCached, new, n, b
<1> QED BY <1>4, <1>5, <1>6, <1>10, <1>21 DEF n, new, slots

\* The windows of a decode step, and the mask of the one that is replayed.
LEMMA MaskOfStep ==
  ASSUME ProofTypes, NEW slots, Len(slots) \in Nat, DecodeStep(slots)
  PROVE  /\ mask' \in [Buckets -> SUBSET Nat] /\ (\A mc \in Buckets : mask'[mc] \subseteq 1..mc)
         /\ (CanHandle(Len(slots)) => mask'[SmallestFit(Len(slots))] = 1..Len(slots))
<1> DEFINE n == Len(slots)
<1>1. mask \in [Buckets -> SUBSET Nat] /\ \A mc \in Buckets : mask[mc] \subseteq 1..mc
  BY DEF ProofTypes, CacheTypeOK
<1>2. CASE CanHandle(n)
  <2> DEFINE fit == SmallestFit(n)
  <2>1. mask' = [mask EXCEPT ![fit] = 1..n]
    BY <1>2 DEF DecodeStep, Replay
  <2>2. fit \in Buckets /\ fit \in Nat /\ n <= fit
    BY <1>2, FittingBucket
  <2> HIDE DEF fit, n
  <2>n. n \in Nat
    BY DEF n
  <2>3. 1..n \subseteq 1..fit /\ 1..n \subseteq Nat
    BY <2>n, <2>2
  <2>4. mask'[fit] = 1..n /\ \A mc \in Buckets : mask'[mc] = IF mc = fit THEN 1..n ELSE mask[mc]
    BY <1>1, <2>1, <2>2
  <2>5. mask' \in [Buckets -> SUBSET Nat]
    BY <1>1, <2>1, <2>3
  <2> QED BY <1>1, <2>3, <2>4, <2>5 DEF fit, n
<1>3. CASE ~CanHandle(n)
  BY <1>1, <1>3 DEF DecodeStep
<1> QED BY <1>2, <1>3

\* A decode step stores the last token of the context where append_token made room.
LEMMA DecodeKeeps ==
  ASSUME CallIInv, Decode
  PROVE  CallIInv' /\ BMNext
<1> DEFINE ids == blockIds[seq]
           new == blockIds'[seq]
           n == numTokens[seq]
           b == Slot(new, n)[1]
           o == Slot(new, n)[2]
           slots == ContextSlots(new, numTokens'[seq])
<1>1. /\ pc = "decode" /\ pc' = "sample" /\ AppendToken(seq) /\ kv' = [kv EXCEPT ![b][o] = Context]
      /\ DecodeStep(slots)
      /\ UNCHANGED <<seq, prompt, maxNew, out, start, todo, cacheVars>>
  BY DEF Decode
<1>2. BMInv /\ NodesOK /\ NodesApart /\ CachedBlocksKeepTheirKV /\ ProofTypes
  BY DEF CallIInv, ProofTypes
<1>3. InCall /\ InCall'
  BY <1>1 DEF InCall
<1>4. /\ seq \in Seqs /\ live = {seq} /\ prompt \in Seq(Tokens) /\ Len(prompt) \in Nat /\ Context \in Seq(Tokens)
      /\ ids \in Seq(Blocks) /\ Len(ids) \in Nat /\ n \in Nat /\ n <= Len(ids) * BlockSize
      /\ n = Len(Context) - 1 /\ Len(Context) = Len(prompt) + Len(out) /\ Len(out) \in Nat /\ out # <<>>
      /\ out \in Seq(Tokens)
  BY <1>1, <1>3, CallTypes DEF CallIInv, Counts
<1>5. /\ BMInv' /\ BMNext /\ live' = live /\ UNCHANGED pins /\ numTokens'[seq] = n + 1
      /\ Len(ids) <= Len(new) /\ (\A i \in 1..Len(ids) : new[i] = ids[i])
      /\ Range(new) \ TableBlocks(seq) \subseteq free
  BY <1>1, <1>2, <1>4, AppendForClient
<1>6. /\ BMTypeOK' /\ new \in Seq(Blocks) /\ IsInjective(new) /\ Len(new) \in Nat /\ DOMAIN new = 1..Len(new)
      /\ n + 1 <= Len(new) * BlockSize
  <2>1. BMTypeOK' /\ new \in Seq(Blocks) /\ IsInjective(new)
    BY <1>4, <1>5 DEF BMInv, BMTypeOK, TableInjective
  <2>2. numTokens'[seq] <= Len(new) * BlockSize
    BY <1>4, <1>5 DEF BMInv, Capacity, TableCapacity
  <2> QED BY <1>5, <2>1, <2>2, LenProperties
<1> DEFINE cap == Len(new) * BlockSize
           oldCap == Len(ids) * BlockSize
<1>7. cap \in Nat /\ oldCap \in Nat /\ oldCap <= cap /\ n < cap
  <2>1. cap \in Nat /\ oldCap \in Nat /\ oldCap <= cap
    BY <1>4, <1>5, <1>6, BlockSizeAssumption
  <2> QED BY <1>4, <1>6, <2>1
<1>8. b \in Blocks /\ o \in 0..(BlockSize - 1) /\ Slot(new, n) = <<b, o>>
      /\ (n \div BlockSize) + 1 \in 1..Len(new) /\ b = new[(n \div BlockSize) + 1]
  <2>1. n < Len(new) * BlockSize
    BY <1>7
  <2>2. /\ (n \div BlockSize) + 1 \in 1..Len(new) /\ new[(n \div BlockSize) + 1] \in Blocks
        /\ Slot(new, n) = <<new[(n \div BlockSize) + 1], n % BlockSize>>
        /\ b = new[(n \div BlockSize) + 1] /\ o = n % BlockSize
        /\ n % BlockSize \in 0..(BlockSize - 1)
    BY <1>4, <1>6, <2>1, SlotOfList
  <2> HIDE DEF b, o, new, n
  <2> QED BY <2>2
<1>9. \A q \in 0..(n - 1) : Slot(new, q) = Slot(ids, q) /\ Slot(new, q) # Slot(new, n)
                            /\ Slot(new, q)[1] \in Blocks /\ Slot(new, q)[2] \in 0..(BlockSize - 1)
                            /\ Slot(new, q) = <<Slot(new, q)[1], Slot(new, q)[2]>>
  <2> SUFFICES ASSUME NEW q \in 0..(n - 1)
               PROVE  Slot(new, q) = Slot(ids, q) /\ Slot(new, q) # Slot(new, n)
                      /\ Slot(new, q)[1] \in Blocks /\ Slot(new, q)[2] \in 0..(BlockSize - 1)
                      /\ Slot(new, q) = <<Slot(new, q)[1], Slot(new, q)[2]>>
    OBVIOUS
  <2>1. q \in Nat /\ q < n /\ q < Len(ids) * BlockSize /\ q < Len(new) * BlockSize
    <3>1. q < oldCap /\ q < cap
      BY <1>4, <1>7
    <3> QED BY <1>4, <3>1
  <2>2. (q \div BlockSize) + 1 \in 1..Len(ids) /\ Slot(ids, q) = <<ids[(q \div BlockSize) + 1], q % BlockSize>>
    BY <1>4, <2>1, SlotOfList
  <2>3. /\ Slot(new, q) = <<new[(q \div BlockSize) + 1], q % BlockSize>>
        /\ Slot(new, q)[1] = new[(q \div BlockSize) + 1] /\ Slot(new, q)[2] = q % BlockSize
        /\ new[(q \div BlockSize) + 1] \in Blocks /\ q % BlockSize \in 0..(BlockSize - 1)
    BY <1>6, <2>1, SlotOfList
  <2>4. Slot(new, q) # Slot(new, n)
    <3> SUFFICES ASSUME Slot(new, q) = Slot(new, n) PROVE FALSE
      OBVIOUS
    <3>1. n < Len(new) * BlockSize
      BY <1>7
    <3> HIDE DEF new, n
    <3>2. q = n
      BY <1>4, <1>6, <2>1, <3>1, SlotsOfList
    <3> QED BY <1>4, <2>1, <3>2
  <2>5. new[(q \div BlockSize) + 1] = ids[(q \div BlockSize) + 1]
    BY <1>5, <2>2
  <2> QED BY <2>2, <2>3, <2>4, <2>5
<1>10. slots = ContextSlots(new, n + 1) /\ Len(slots) = n + 1
  <2> DEFINE T == {Slot(new, c - 1) : c \in 1..(n + 1)}
             f == [c \in 1..(n + 1) |-> Slot(new, c - 1)]
  <2>1. f \in [1..(n + 1) -> T] /\ n + 1 \in Nat
    BY <1>4
  <2> HIDE DEF T
  <2>2. Len(f) = n + 1
    <3> HIDE DEF f
    <3> QED BY <2>1, ListFromFunction
  <2> QED BY <1>5, <2>2 DEF ContextSlots
<1> HIDE DEF ids, new, n, b, o, slots, cap, oldCap
<1>11. kv' \in [Blocks -> [0..(BlockSize - 1) -> Seq(Tokens) \cup {NoToken}]]
  BY <1>1, <1>2, <1>4, <1>8 DEF ProofTypes
<1>12. \A x \in Blocks, y \in 0..(BlockSize - 1) : kv'[x][y] = IF x = b /\ y = o THEN Context ELSE kv[x][y]
  BY <1>1, <1>2, <1>8 DEF ProofTypes
<1>13. Context' = Context
  BY <1>1 DEF Context
<1>14. /\ mask' \in [Buckets -> SUBSET Nat] /\ (\A mc \in Buckets : mask'[mc] \subseteq 1..mc)
       /\ (CanHandle(n + 1) => mask'[SmallestFit(n + 1)] = 1..(n + 1))
  <2>1. Len(slots) \in Nat
    BY <1>4, <1>10
  <2> QED BY <1>1, <1>2, <1>10, <2>1, MaskOfStep
<1>15. ProofTypes'
  <2>1. /\ seq' = seq /\ prompt' = prompt /\ out' = out /\ nodes' = nodes /\ clock' = clock
        /\ pc' = "sample"
    BY <1>1 DEF cacheVars
  <2> QED BY <1>2, <1>6, <1>11, <1>14, <2>1 DEF ProofTypes, CacheTypeOK, NodesOK
<1>16. NodesApart' /\ Calls' /\ Visits'
  BY <1>1, <1>2, <1>3, <1>5 DEF CallIInv, NodesApart, CachedBlocks, cacheVars, Calls, Visits
<1>17. Counts'
  BY <1>1, <1>4, <1>5, <1>13 DEF Counts, n
<1>18. Masked'
  BY <1>1, <1>5, <1>14 DEF Masked, CanHandle, SmallestFit, n
<1>19. TableCached'
  <2>1. TableStaysCached
    BY <1>1, RoomOfAppend
  <2> QED BY <1>1, <2>1 DEF TableCached, TableStaysCached, cacheVars
<1>20. \A k \in DOMAIN nodes : nodes[k].blk # b
  BY <1>1, RoomOfAppend DEF TableStaysCached, b, new, n
<1>21. CachedBlocksKeepTheirKV'
  <2>1. \A k \in DOMAIN nodes, y \in 0..(BlockSize - 1) : kv'[nodes[k].blk][y] = kv[nodes[k].blk][y]
    BY <1>2, <1>12, <1>20 DEF NodesOK
  <2> QED BY <1>1, <1>2, <2>1 DEF CachedBlocksKeepTheirKV, cacheVars
<1>22. Stocked'
  <2> SUFFICES ASSUME NEW q \in 0..n
               PROVE  kv'[Slot(new, q)[1]][Slot(new, q)[2]] = SubSeq(Context, 1, q + 1)
    <3>1. StoredCount' = n + 1 /\ blockIds'[seq'] = new
      BY <1>1, <1>5 DEF StoredCount, new
    <3>2. \A q \in 0..(StoredCount' - 1) : q \in 0..n
      BY <1>4, <3>1
    <3>3. \A q \in 0..(StoredCount' - 1) : Cell(q)' = kv'[Slot(new, q)[1]][Slot(new, q)[2]]
      BY <3>1 DEF Cell
    <3>4. \A q \in 0..(StoredCount' - 1) : Cell(q)' = SubSeq(Context', 1, q + 1)
      BY <1>13, <3>2, <3>3
    <3> QED BY <3>4 DEF Stocked
  <2>1. CASE q = n
    <3>1. SubSeq(Context, 1, n + 1) = Context
      <4>1. n + 1 = Len(Context)
        BY <1>4
      <4>2. Context \in Seq(Tokens) /\ Len(Context) \in Nat
        BY <1>4
      <4>3. \E x \in Tokens : TRUE
        <5>1. Len(out) # 0
          BY <1>4, EmptySeq
        <5>2. out[1] \in Tokens
          BY <1>4, <5>1
        <5> QED BY <5>2
      <4> QED BY <4>1, <4>2, <4>3, PrefixOfAppend
    <3> QED BY <1>8, <1>12, <2>1, <3>1 DEF b, o
  <2>2. CASE q # n
    <3>0. n \in Nat
      BY <1>4
    <3>1. q \in 0..(n - 1)
      BY <2>2, <3>0
    <3>2. Cell(q) = SubSeq(Context, 1, q + 1)
      BY <1>1, <3>1 DEF CallIInv, Stocked, StoredCount, n
    <3> DEFINE x == Slot(new, q)[1]
               y == Slot(new, q)[2]
    <3>3. x \in Blocks /\ y \in 0..(BlockSize - 1) /\ <<x, y>> # <<b, o>> /\ Slot(ids, q)[1] = x /\ Slot(ids, q)[2] = y
      BY <1>8, <1>9, <3>1
    <3>4. Cell(q) = kv[x][y]
      BY <3>3 DEF Cell, ids
    <3> HIDE DEF x, y
    <3>5. kv'[x][y] = kv[x][y]
      BY <1>12, <3>3
    <3> QED BY <3>2, <3>4, <3>5 DEF x, y
  <2> QED BY <2>1, <2>2
<1> QED BY <1>5, <1>15, <1>16, <1>17, <1>18, <1>19, <1>21, <1>22 DEF CallIInv

\* A step that finds no free block, or logits or a sampling that raise, leave for the finally clause.
LEMMA RaisesKeep ==
  ASSUME CallIInv, DecodeRaises \/ SampleRaises
  PROVE  CallIInv' /\ UNCHANGED bmVars
<1>1. /\ InCall /\ pc # "prefill" /\ pc' = "finally"
      /\ UNCHANGED <<seq, prompt, maxNew, out, start, todo, kv, bmVars, cacheVars, mask>>
  BY DEF DecodeRaises, SampleRaises, InCall
<1>2. BMInv' /\ BMTypeOK' /\ UNCHANGED <<live, blockIds, numTokens, pins>>
  BY <1>1, BlocksStay
<1>3. ProofTypes'
  BY <1>1, <1>2 DEF CallIInv, ProofTypes, CacheTypeOK, NodesOK, cacheVars
<1>4. NodesApart' /\ CachedBlocksKeepTheirKV'
  BY <1>1, <1>2 DEF CallIInv, NodesApart, CachedBlocksKeepTheirKV, CachedBlocks, cacheVars
<1>5. Calls' /\ Visits' /\ Masked' /\ Counts' /\ TableCached' /\ Stocked'
  BY <1>1, <1>2 DEF CallIInv, Calls, InCall, Visits, Masked, Counts, TableCached, Stocked, cacheVars
<1> QED BY <1>1, <1>2, <1>3, <1>4, <1>5 DEF CallIInv

\* What a forward that raised leaves of the slots it was to write.
LEMMA SpoiltAt ==
  ASSUME kv \in [Blocks -> [0..(BlockSize - 1) -> Seq(Tokens) \cup {NoToken}]],
         NEW ids, NEW first, NEW last, kv' \in {kv, Spoilt(ids, first, last)}
  PROVE  /\ kv' \in [Blocks -> [0..(BlockSize - 1) -> Seq(Tokens) \cup {NoToken}]]
         /\ \A b \in Blocks : (\A q \in first..(last - 1) : Slot(ids, q)[1] # b) => kv'[b] = kv[b]
<1>1. CASE kv' = kv
  BY <1>1
<1>2. CASE kv' = Spoilt(ids, first, last)
  <2>1. kv' \in [Blocks -> [0..(BlockSize - 1) -> Seq(Tokens) \cup {NoToken}]]
    BY <1>2 DEF Spoilt
  <2>2. ASSUME NEW b \in Blocks, \A q \in first..(last - 1) : Slot(ids, q)[1] # b PROVE kv'[b] = kv[b]
    <3>1. \A o : \A q \in first..(last - 1) : Slot(ids, q) # <<b, o>>
      BY <2>2
    <3>2. kv'[b] = [o \in 0..(BlockSize - 1) |-> kv[b][o]]
      BY <1>2, <3>1 DEF Spoilt
    <3> QED BY <3>2
  <2> QED BY <2>1, <2>2
<1> QED BY <1>1, <1>2

\* A prefill that raises spoils no cached block: those it was to write are its own.
LEMMA PrefillRaisesKeeps ==
  ASSUME CallIInv, PrefillRaises
  PROVE  CallIInv' /\ UNCHANGED bmVars
<1> DEFINE ids == blockIds[seq]
           len == Len(prompt)
<1>1. /\ pc = "prefill" /\ pc' = "finally" /\ kv' \in {kv, Spoilt(ids, start, len)}
      /\ UNCHANGED <<seq, prompt, maxNew, out, start, todo, bmVars, cacheVars, mask>>
  BY DEF PrefillRaises
<1>2. BMInv' /\ BMTypeOK' /\ UNCHANGED <<live, blockIds, numTokens, pins>>
  BY <1>1, BlocksStay
<1>3. InCall /\ InCall'
  BY <1>1 DEF InCall
<1>4. /\ len \in Nat /\ start \in Nat /\ start < len /\ len <= TableCapacity(seq) /\ TableCapacity(seq) \in Nat
  BY <1>1, <1>3, CallTypes DEF CallIInv, Counts
<1>5. /\ kv' \in [Blocks -> [0..(BlockSize - 1) -> Seq(Tokens) \cup {NoToken}]]
      /\ \A b \in Blocks : (\A q \in start..(len - 1) : Slot(ids, q)[1] # b) => kv'[b] = kv[b]
  BY <1>1, SpoiltAt DEF CallIInv, ProofTypes
<1> HIDE DEF ids, len
<1>6. ProofTypes'
  BY <1>1, <1>2, <1>5 DEF CallIInv, ProofTypes, CacheTypeOK, NodesOK, cacheVars
<1>7. CachedBlocksKeepTheirKV'
  <2>1. ASSUME NEW k \in DOMAIN nodes PROVE kv'[nodes[k].blk] = kv[nodes[k].blk]
    <3>1. nodes[k].blk \in Blocks
      BY CachedNotFree DEF CallIInv, ProofTypes
    <3>2. ASSUME NEW q \in start..(len - 1) PROVE Slot(ids, q)[1] # nodes[k].blk
      <4>1. q \in Nat /\ q >= start /\ q < TableCapacity(seq)
        BY <1>4
      <4> QED BY <1>1, <1>3, <1>4, <4>1, NewPositionsNotCached DEF ids, len
    <3> QED BY <1>5, <3>1, <3>2
  <2> QED BY <1>1, <2>1 DEF CallIInv, CachedBlocksKeepTheirKV, cacheVars
<1>8. NodesApart' /\ Calls' /\ Visits' /\ Masked' /\ Counts' /\ TableCached' /\ Stocked'
  BY <1>1, <1>2, <1>3 DEF CallIInv, NodesApart, CachedBlocks, Calls, Visits, Masked, Counts, TableCached, Stocked, cacheVars
<1> QED BY <1>1, <1>2, <1>6, <1>7, <1>8 DEF CallIInv

\* So does a decode step that raises in its forward: the block it was to write to is not cached.
LEMMA StepRaisesKeeps ==
  ASSUME CallIInv, StepRaises
  PROVE  CallIInv' /\ BMNext
<1> DEFINE new == blockIds'[seq]
           n == numTokens[seq]
           slots == ContextSlots(new, numTokens'[seq])
<1>1. /\ pc = "decode" /\ pc' = "finally" /\ AppendToken(seq) /\ kv' \in {kv, Spoilt(new, n, numTokens'[seq])}
      /\ DecodeStep(slots) \/ mask' = mask
      /\ UNCHANGED <<seq, prompt, maxNew, out, start, todo, cacheVars>>
  BY DEF StepRaises
<1>2. /\ BMInv' /\ BMNext /\ BMTypeOK' /\ live' = live /\ UNCHANGED pins
      /\ n \in Nat /\ numTokens'[seq] = n + 1 /\ Len(slots) = n + 1 /\ TableStaysCached
  BY <1>1, RoomOfAppend
<1>3. InCall /\ InCall'
  BY <1>1 DEF InCall
<1>4. /\ kv' \in [Blocks -> [0..(BlockSize - 1) -> Seq(Tokens) \cup {NoToken}]]
      /\ \A b \in Blocks : (\A q \in n..(numTokens'[seq] - 1) : Slot(new, q)[1] # b) => kv'[b] = kv[b]
  BY <1>1, SpoiltAt DEF CallIInv, ProofTypes
<1>5. mask' \in [Buckets -> SUBSET Nat] /\ \A mc \in Buckets : mask'[mc] \subseteq 1..mc
  <2>1. CASE DecodeStep(slots)
    <3>1. Len(slots) \in Nat
      BY <1>2
    <3> QED BY <2>1, <3>1, MaskOfStep DEF CallIInv
  <2>2. CASE mask' = mask
    BY <2>2 DEF CallIInv, ProofTypes, CacheTypeOK
  <2> QED BY <1>1, <2>1, <2>2
<1> HIDE DEF new, n, slots
<1>6. \A k \in DOMAIN nodes : kv'[nodes[k].blk] = kv[nodes[k].blk]
  <2> TAKE k \in DOMAIN nodes
  <2>1. nodes[k].blk \in Blocks
    BY CachedNotFree DEF CallIInv, ProofTypes
  <2>2. ASSUME NEW q \in n..(numTokens'[seq] - 1) PROVE Slot(new, q)[1] # nodes[k].blk
    <3>1. q = n
      BY <1>2
    <3> QED BY <1>2, <3>1 DEF TableStaysCached, new, n
  <2> QED BY <1>4, <2>1, <2>2
<1>7. ProofTypes'
  <2>1. /\ seq' = seq /\ prompt' = prompt /\ out' = out /\ nodes' = nodes /\ clock' = clock
        /\ pc' = "finally"
    BY <1>1 DEF cacheVars
  <2> QED BY <1>2, <1>4, <1>5, <2>1 DEF CallIInv, ProofTypes, CacheTypeOK, NodesOK
<1>8. CachedBlocksKeepTheirKV'
  BY <1>1, <1>6 DEF CallIInv, CachedBlocksKeepTheirKV, cacheVars
<1>9. TableCached'
  BY <1>1, <1>2 DEF TableCached, TableStaysCached, cacheVars
<1>10. NodesApart' /\ Calls' /\ Visits' /\ Masked' /\ Counts' /\ Stocked'
  BY <1>1, <1>2, <1>3 DEF CallIInv, NodesApart, CachedBlocks, Calls, Visits, Masked, Counts, Stocked, cacheVars
<1> QED BY <1>2, <1>7, <1>8, <1>9, <1>10 DEF CallIInv

\* The finally clause takes the table away and leaves the cache alone.
LEMMA EndKeeps ==
  ASSUME CallIInv, Finally
  PROVE  CallIInv' /\ BMNext
<1>1. /\ pc = "finally" /\ pc' = "idle" /\ Free(seq) /\ seq' = seq + 1
      /\ UNCHANGED <<prompt, maxNew, out, start, todo, kv, cacheVars, mask>>
  BY DEF Finally
<1>2. BMInv /\ NodesOK /\ NodesApart /\ CachedBlocksKeepTheirKV /\ ProofTypes /\ seq \in Seqs /\ live = {seq}
  BY <1>1, CallTypes DEF CallIInv, ProofTypes, InCall
<1>3. BMInv' /\ BMNext /\ live' = live \ {seq} /\ UNCHANGED pins
  BY <1>1, <1>2, FreeForClient
<1>4. ~InCall' /\ live' = {}
  BY <1>1, <1>2, <1>3 DEF InCall
<1>5. seq' \in 0..Cardinality(Seqs)
  BY <1>1, <1>2, CallsAreNumbered
<1>6. ProofTypes'
  BY <1>1, <1>2, <1>3, <1>5 DEF ProofTypes, CacheTypeOK, NodesOK, cacheVars, BMInv
<1>7. NodesApart' /\ CachedBlocksKeepTheirKV'
  BY <1>1, <1>2, <1>3 DEF NodesApart, CachedBlocksKeepTheirKV, CachedBlocks, cacheVars
<1>8. Calls' /\ Visits' /\ Masked' /\ Counts' /\ TableCached' /\ Stocked'
  BY <1>1, <1>4 DEF Calls, Visits, Masked, Counts, TableCached, Stocked
<1> QED BY <1>3, <1>6, <1>7, <1>8 DEF CallIInv

\* evict makes its list of keys.
LEMMA StartEvictKeeps ==
  ASSUME CallIInv, NEW n \in 1..Len(nodes), StartEvict(n)
  PROVE  CallIInv' /\ UNCHANGED bmVars
<1>1. /\ pc = "idle" /\ pc' = "evict" /\ todo' = SetToSeq(Victims(n))
      /\ UNCHANGED <<seq, prompt, maxNew, out, start, kv, bmVars, cacheVars, mask>>
  BY DEF StartEvict
<1>2. BMInv' /\ BMTypeOK' /\ UNCHANGED <<live, blockIds, numTokens, pins>>
  BY <1>1, BlocksStay
<1>3. ProofTypes'
  BY <1>1, <1>2 DEF CallIInv, ProofTypes, CacheTypeOK, NodesOK, cacheVars
<1>4. NodesApart' /\ CachedBlocksKeepTheirKV'
  BY <1>1, <1>2 DEF CallIInv, NodesApart, CachedBlocksKeepTheirKV, CachedBlocks, cacheVars
<1>5. Calls' /\ Masked' /\ Counts' /\ TableCached' /\ Stocked'
  BY <1>1, <1>2 DEF CallIInv, Calls, InCall, Masked, Counts, TableCached, Stocked, cacheVars
<1>6. Visits'
  <2>1. Victims(n) \subseteq Cached /\ Cached' = Cached
    BY <1>1 DEF Victims, Cached, cacheVars
  <2>2. IsFiniteSet(Victims(n))
    <3>1. nodes \in Seq(Nodes)
      BY DEF CallIInv, ProofTypes, NodesOK
    <3> DEFINE len == Len(nodes)
               keys == {nodes[i].key : i \in 1..len}
    <3>2. len \in Nat /\ DOMAIN nodes = 1..len
      BY <3>1, LenProperties
    <3>3. IsFiniteSet(1..len)
      BY <3>2, FS_Interval
    <3>4. IsFiniteSet(keys)
      <4> DEFINE f == [i \in 1..len |-> nodes[i].key]
      <4>1. f \in Surjection(1..len, keys)
        BY DEF Surjection
      <4> HIDE DEF f, keys
      <4> QED BY <3>3, <4>1, FS_Surjection
    <3>5. Victims(n) \subseteq keys
      BY <2>1, <3>2 DEF Cached
    <3> HIDE DEF keys
    <3> QED BY <3>4, <3>5, FS_Subset
  <2>3. todo' \in Seq(Victims(n)) /\ IsInjective(todo')
    BY <1>1, <2>2, SetToSeqProperties
  <2>4. todo' \in Seq(Cached')
    BY <2>1, <2>3
  <2> QED BY <1>1, <2>3, <2>4 DEF Visits
<1> QED BY <1>1, <1>2, <1>3, <1>4, <1>5, <1>6 DEF CallIInv

\* Evicting a key drops its node and the reference to its block.
LEMMA EvictKeeps ==
  ASSUME CallIInv, EvictBlock
  PROVE  CallIInv' /\ BMNext
<1>1. /\ pc = "evict" /\ pc' \in {"idle", "evict"} /\ todo # <<>> /\ Evict(Head(todo)) /\ todo' = Tail(todo)
      /\ UNCHANGED <<seq, prompt, maxNew, out, start, kv, mask>>
  BY DEF EvictBlock
<1>2. BMInv /\ NodesOK /\ NodesApart /\ CachedBlocksKeepTheirKV /\ ProofTypes /\ live = {}
  BY <1>1 DEF CallIInv, ProofTypes, Calls, InCall
<1>3. /\ todo \in Seq(Cached) /\ IsInjective(todo) /\ Head(todo) \in Cached
      /\ Tail(todo) \in Seq(Cached) /\ IsInjective(Tail(todo)) /\ Range(Tail(todo)) = Range(todo) \ {Head(todo)}
  <2>1. todo \in Seq(Cached) /\ IsInjective(todo)
    BY <1>1 DEF CallIInv, Visits
  <2> QED BY <1>1, <2>1, HeadAndTail
<1> DEFINE key == Head(todo)
           I == {i \in DOMAIN nodes : nodes[i].key # key}
           n == Len(nodes)
<1>4. PICK gone \in DOMAIN nodes : nodes[gone].key = key /\ NodeOf(key) = nodes[gone]
  BY <1>3, NodeOfKey
<1> DEFINE blk == nodes[gone].blk
<1>5. nodes' = Selected(nodes, I) /\ Release(blk) /\ clock' = clock
  BY <1>1, <1>4 DEF Evict
<1>6. n \in Nat /\ DOMAIN nodes = 1..n /\ nodes \in Seq(Nodes) /\ \A i \in 1..n : nodes[i] \in Nodes
  BY <1>2, LenProperties DEF NodesOK
<1>7. I \in SUBSET Nat /\ IsFiniteSet(I) /\ \A i \in I : i \in DOMAIN nodes /\ nodes[i] \in Nodes
  <2>1. I \subseteq 1..n /\ IsFiniteSet(1..n)
    BY <1>6, FS_Interval
  <2> QED BY <1>6, <2>1, FS_Subset
<1>8. \A i \in DOMAIN nodes : i \in I <=> i # gone
  BY <1>2, <1>4 DEF NodesApart
<1> DEFINE c == Cardinality(I)
<1>9. /\ nodes' \in Seq(Nodes) /\ DOMAIN nodes' = 1..c /\ c \in Nat
      /\ \A i \in I : Before(I, i) + 1 \in 1..c /\ nodes'[Before(I, i) + 1] = nodes[i]
      /\ \A k \in 1..c : \E i \in I : Before(I, i) = k - 1 /\ nodes'[k] = nodes[i]
  <2> HIDE DEF I
  <2>1. /\ c \in Nat /\ DOMAIN Selected(nodes, I) = 1..c
        /\ \A i \in I : Before(I, i) + 1 \in 1..c /\ Selected(nodes, I)[Before(I, i) + 1] = nodes[i]
        /\ \A k \in 1..c : \E i \in I : Before(I, i) = k - 1 /\ Selected(nodes, I)[k] = nodes[i]
    BY <1>7, SelectedProperties
  <2>2. Selected(nodes, I) \in Seq(Nodes)
    BY <1>7, SelectedList
  <2> QED BY <1>5, <2>1, <2>2
<1>10. blk \in Blocks /\ pins[blk] = 1 /\ \A k \in DOMAIN nodes : nodes[k].blk \in Blocks
  BY <1>2, CachedNotFree
<1> HIDE DEF key, I, c, blk, n
<1>11. BMInv' /\ BMNext
  <2>1. pins[blk] > 0
    BY <1>10
  <2> QED BY <1>2, <1>5, <1>10, <2>1, ReleaseInv DEF BMNext
<1>12. UNCHANGED <<live, blockIds, numTokens>> /\ pins' = [pins EXCEPT ![blk] = @ - 1] /\ BMTypeOK'
  BY <1>5, <1>11 DEF Release, BMInv
<1>13. \A k \in DOMAIN nodes' : \E i \in DOMAIN nodes : i # gone /\ nodes'[k] = nodes[i]
  BY <1>7, <1>8, <1>9
<1>14. \A i \in DOMAIN nodes : i # gone => \E k \in DOMAIN nodes' : nodes'[k] = nodes[i]
  BY <1>8, <1>9
<1>15. NodesOK'
  BY <1>2, <1>5, <1>9, <1>13 DEF NodesOK
<1>16. NodesApart'
  <2>1. ASSUME NEW j \in DOMAIN nodes', NEW k \in DOMAIN nodes',
               nodes'[j].key = nodes'[k].key \/ nodes'[j].blk = nodes'[k].blk
        PROVE  j = k
    <3>1. PICK x \in I : Before(I, x) = j - 1 /\ nodes'[j] = nodes[x]
      BY <1>9
    <3>2. PICK y \in I : Before(I, y) = k - 1 /\ nodes'[k] = nodes[y]
      BY <1>9
    <3>3. x = y
      BY <1>2, <1>7, <2>1, <3>1, <3>2 DEF NodesApart
    <3>4. j - 1 = k - 1 /\ j \in Nat /\ k \in Nat
      BY <1>9, <3>1, <3>2, <3>3
    <3> QED BY <3>4
  <2>2. \A x \in CachedBlocks' : x \in CachedBlocks /\ x # blk
    <3> SUFFICES ASSUME NEW k \in DOMAIN nodes' PROVE nodes'[k].blk \in CachedBlocks /\ nodes'[k].blk # blk
      BY DEF CachedBlocks
    <3>1. PICK i \in DOMAIN nodes : i # gone /\ nodes'[k] = nodes[i]
      BY <1>13
    <3> QED BY <1>2, <1>4, <3>1 DEF CachedBlocks, NodesApart, blk
  <2>3. \A x \in CachedBlocks : x # blk => x \in CachedBlocks'
    <3> SUFFICES ASSUME NEW i \in DOMAIN nodes, nodes[i].blk # blk PROVE nodes[i].blk \in CachedBlocks'
      BY DEF CachedBlocks
    <3>1. PICK k \in DOMAIN nodes' : nodes'[k] = nodes[i]
      BY <1>14 DEF blk
    <3> QED BY <3>1 DEF CachedBlocks
  <2>4. \A b \in Blocks : pins'[b] = IF b \in CachedBlocks' THEN 1 ELSE 0
    <3> SUFFICES ASSUME NEW b \in Blocks PROVE pins'[b] = IF b \in CachedBlocks' THEN 1 ELSE 0
      OBVIOUS
    <3>1. pins \in [Blocks -> Nat]
      BY <1>2 DEF BMInv, BMTypeOK
    <3>2. pins'[b] = IF b = blk THEN pins[b] - 1 ELSE pins[b]
      BY <1>12, <3>1
    <3>3. pins[b] = IF b \in CachedBlocks THEN 1 ELSE 0
      BY <1>2 DEF NodesApart
    <3> QED BY <1>10, <2>2, <2>3, <3>2, <3>3
  <2> QED BY <2>1, <2>4 DEF NodesApart
<1>17. CachedBlocksKeepTheirKV'
  <2>1. \A k \in DOMAIN nodes' : \E i \in DOMAIN nodes : nodes'[k] = nodes[i]
    BY <1>13
  <2> QED BY <1>1, <1>2, <2>1 DEF CachedBlocksKeepTheirKV
<1>18. ProofTypes'
  BY <1>1, <1>2, <1>12, <1>15 DEF ProofTypes, CacheTypeOK, NodesOK
<1>19. Visits'
  <2>1. todo' \in Seq(Cached) /\ IsInjective(todo') /\ key \notin Range(todo')
    BY <1>1, <1>3 DEF key
  <2>2. ASSUME NEW x \in Range(todo') PROVE x \in Cached'
    <3>1. x \in Cached /\ x # key
      <4>1. x \in Cached
        <5>1. DOMAIN todo' = 1..Len(todo') /\ \A j \in 1..Len(todo') : todo'[j] \in Cached
          BY <2>1, LenProperties
        <5> QED BY <2>2, <5>1 DEF Range
      <4> QED BY <2>1, <2>2, <4>1
    <3>2. PICK i \in DOMAIN nodes : nodes[i].key = x
      BY <3>1 DEF Cached
    <3>3. i # gone
      BY <1>4, <3>1, <3>2
    <3>4. PICK k \in DOMAIN nodes' : nodes'[k] = nodes[i]
      BY <1>14, <3>3
    <3> QED BY <3>2, <3>4 DEF Cached
  <2>3. todo' \in Seq(Cached')
    <3> DEFINE len == Len(todo')
    <3>1. len \in Nat /\ DOMAIN todo' = 1..len /\ todo' = [j \in 1..len |-> todo'[j]]
      BY <2>1, LenProperties
    <3>2. \A j \in 1..len : todo'[j] \in Cached'
      BY <2>2, <3>1 DEF Range
    <3>3. todo' \in [1..len -> Cached']
      BY <3>1, <3>2
    <3> QED BY <3>1, <3>3, ListFromFunction
  <2> QED BY <1>1, <2>1, <2>3 DEF Visits
<1>20. Calls' /\ Masked' /\ Counts' /\ TableCached' /\ Stocked'
  BY <1>1, <1>2, <1>12 DEF Calls, InCall, Masked, Counts, TableCached, Stocked
<1> QED BY <1>11, <1>16, <1>17, <1>18, <1>19, <1>20 DEF CallIInv

\* A step that changes nothing.
LEMMA StutterKeeps ==
  ASSUME CallIInv, UNCHANGED vars
  PROVE  CallIInv' /\ UNCHANGED bmVars
<1>1. UNCHANGED <<bmVars, cacheVars, callVars, kv, mask>>
  BY DEF vars
<1>2. BMInv' /\ BMTypeOK' /\ UNCHANGED <<live, blockIds, numTokens, pins>>
  BY <1>1, BlocksStay
<1>3. ProofTypes'
  BY <1>1, <1>2 DEF CallIInv, ProofTypes, CacheTypeOK, NodesOK, cacheVars, callVars
<1>4. NodesApart' /\ CachedBlocksKeepTheirKV' /\ Cached' = Cached
  BY <1>1, <1>2 DEF CallIInv, NodesApart, CachedBlocksKeepTheirKV, CachedBlocks, Cached, cacheVars
<1>5. Calls' /\ Masked' /\ Counts'
  BY <1>1, <1>2 DEF CallIInv, Calls, InCall, Masked, Counts, callVars, cacheVars, Context, TableCapacity
<1>6. Visits' /\ TableCached'
  BY <1>1, <1>2, <1>4 DEF CallIInv, Visits, TableCached, InCall, callVars, cacheVars
<1>7. Stocked'
  BY <1>1, <1>2 DEF CallIInv, Stocked, Cell, StoredCount, Context, callVars
<1> QED BY <1>1, <1>2, <1>3, <1>4, <1>5, <1>6, <1>7 DEF CallIInv

-----------------------------------------------------------------------------
\* The engine and its cache as a whole.

\* The engine starts in the invariant.
LEMMA InitKeeps == Init => CallIInv
<1> SUFFICES ASSUME Init PROVE CallIInv
  OBVIOUS
<1>1. BMInv /\ BMTypeOK /\ live = {} /\ pins = [b \in Blocks |-> 0]
  BY InitInv DEF Init, BMInv, BMInit
<1>2. nodes = <<>> /\ clock = 0 /\ DOMAIN nodes = {}
  BY DEF Init, CacheInit
<1>3. pc = "idle" /\ ~InCall
  BY DEF Init, InCall
<1>4. NodesOK
  BY <1>2 DEF NodesOK
<1>5. seq \in 0..Cardinality(Seqs) /\ out \in Seq(Tokens) /\ prompt = <<>>
  BY CallsAreNumbered DEF Init
<1>6. kv \in [Blocks -> [0..(BlockSize - 1) -> Seq(Tokens) \cup {NoToken}]]
  BY DEF Init
<1>7. mask \in [Buckets -> SUBSET Nat] /\ \A mc \in Buckets : mask[mc] = {}
  BY DEF Init, GraphInit
<1>8. ProofTypes
  BY <1>1, <1>2, <1>3, <1>4, <1>5, <1>6, <1>7 DEF ProofTypes, CacheTypeOK
<1>9. NodesApart /\ CachedBlocksKeepTheirKV
  BY <1>1, <1>2 DEF NodesApart, CachedBlocksKeepTheirKV, CachedBlocks
<1>10. Calls /\ Counts /\ Visits /\ TableCached /\ Stocked /\ Masked
  BY <1>1, <1>3 DEF Calls, Counts, Visits, TableCached, Stocked, Masked
<1> QED BY <1>1, <1>8, <1>9, <1>10 DEF CallIInv

\* Every step keeps the invariant and is a step of the allocator.
LEMMA StepKeeps ==
  ASSUME CallIInv, [Next]_vars
  PROVE  CallIInv' /\ [BMNext]_bmVars
<1>1. CASE UNCHANGED vars
  BY <1>1, StutterKeeps
<1>2. CASE \E p \in Prompts, m \in MaxNews : Generate(p, m)
  BY <1>2, GenerateKeeps
<1>3. CASE \E p \in Prompts : GenerateFails(p)
  BY <1>3, GenerateFailsKeeps
<1>4. CASE Prefill
  BY <1>4, PrefillKeeps
<1>5. CASE InsertBlock
  BY <1>5, InsertKeeps
<1>6. CASE Sample
  BY <1>6, SampleKeeps
<1>7. CASE Decode
  BY <1>7, DecodeKeeps
<1>8. CASE DecodeRaises \/ SampleRaises
  BY <1>8, RaisesKeep
<1>9. CASE Finally
  BY <1>9, EndKeeps
<1>10. CASE \E n \in 1..Len(nodes) : StartEvict(n)
  BY <1>10, StartEvictKeeps
<1>11. CASE EvictBlock
  BY <1>11, EvictKeeps
<1>12. CASE PrefillRaises
  BY <1>12, PrefillRaisesKeeps
<1>13. CASE StepRaises
  BY <1>13, StepRaisesKeeps
<1> QED BY <1>1, <1>2, <1>3, <1>4, <1>5, <1>6, <1>7, <1>8, <1>9, <1>10, <1>11, <1>12, <1>13 DEF Next

\* The strengthened invariant holds throughout.
THEOREM CallsInductive == Spec => []CallIInv
BY InitKeeps, StepKeeps, PTL DEF Spec

\* The engine and its cache are clients the allocator is made for: match, insert and
\* evict adopt, pin and release blocks that are there, so what is proved of the
\* allocator holds here (generate, lines 46-98).
THEOREM CallsUseAllocator == Spec => UsesAllocator
<1>1. Init => BMInit
  BY DEF Init
<1> QED BY <1>1, CallsInductive, StepKeeps, PTL DEF Spec, UsesAllocator, BMSpec

\* The pins of the cache are exact and the engine's own counts agree with the table.
THEOREM CacheConsistent == Spec => []CacheInv
<1>1. CallIInv => CacheInv
  <2> SUFFICES ASSUME CallIInv PROVE CacheInv
    OBVIOUS
  <2>1. BMInv /\ NodesOK /\ NodesApart /\ CacheTypeOK
    BY DEF CallIInv, ProofTypes
  <2>2. CachePinsItsBlocks
    <3> SUFFICES ASSUME NEW b \in Blocks
                 PROVE  pins[b] = Cardinality({i \in DOMAIN nodes : nodes[i].blk = b}) /\ pins[b] <= 1
      BY DEF CachePinsItsBlocks
    <3> DEFINE named == {i \in DOMAIN nodes : nodes[i].blk = b}
    <3>1. CASE b \in CachedBlocks
      <4>1. PICK k \in DOMAIN nodes : nodes[k].blk = b
        BY <3>1 DEF CachedBlocks
      <4>2. named = {k}
        BY <2>1, <4>1 DEF NodesApart
      <4>3. Cardinality(named) = 1
        BY <4>2, FS_Singleton
      <4> QED BY <2>1, <3>1, <4>3 DEF NodesApart
    <3>2. CASE b \notin CachedBlocks
      <4>1. named = {}
        BY <3>2 DEF CachedBlocks
      <4>2. Cardinality(named) = 0
        BY <4>1, FS_EmptySet
      <4> QED BY <2>1, <3>2, <4>2 DEF NodesApart
    <3> QED BY <3>1, <3>2
  <2>3. PositionsAgree
    <3>1. pc = "prefill" => start < Len(prompt) /\ start <= TableCapacity(seq)
      <4> SUFFICES ASSUME pc = "prefill" PROVE start < Len(prompt) /\ start <= TableCapacity(seq)
        OBVIOUS
      <4>1. start \in Nat /\ start < Len(prompt) /\ Len(prompt) <= TableCapacity(seq)
        BY DEF CallIInv, Counts
      <4>2. Len(prompt) \in Nat /\ TableCapacity(seq) \in Nat
        BY CallTypes DEF InCall
      <4> QED BY <4>1, <4>2
    <3>2. pc = "decode" => numTokens[seq] = Len(prompt) + Len(out) - 1
      BY CallTypes DEF CallIInv, Counts, InCall
    <3> QED BY <3>1, <3>2 DEF PositionsAgree
  <2> QED BY <2>1, <2>2, <2>3 DEF CacheInv
<1> QED BY <1>1, CallsInductive, PTL

\* A cached block is never written to while it is cached: it keeps the KV of the
\* prefix it is keyed by (prefix_cache.py, insert; engine.py, lines 64-95).
THEOREM CachedKVStays == Spec => []CachedBlocksKeepTheirKV
<1>1. CallIInv => CachedBlocksKeepTheirKV
  BY DEF CallIInv
<1> QED BY <1>1, CallsInductive, PTL

\* Between two calls only the cache holds blocks, however the last call ended.
THEOREM CallsRelease == Spec => []CallsLeaveNothing
<1>1. CallIInv => CallsLeaveNothing
  <2> SUFFICES ASSUME CallIInv, pc = "idle" PROVE live = {} /\ free = Blocks \ CachedBlocks
    BY DEF CallsLeaveNothing
  <2>1. BMInv /\ BMTypeOK /\ NodesApart /\ live = {}
    BY DEF CallIInv, Calls, InCall, BMInv
  <2>2. ASSUME NEW b \in Blocks PROVE b \in free <=> b \notin CachedBlocks
    <3>1. Holders(b) = {} /\ Cardinality(Holders(b)) = 0
      BY <2>1, FS_EmptySet DEF Holders
    <3>2. pins[b] = IF b \in CachedBlocks THEN 1 ELSE 0
      BY <2>1 DEF NodesApart
    <3>3. refCount[b] = pins[b]
      BY <2>1, <3>1, <3>2 DEF BMInv, RefExact
    <3> QED BY <2>1, <3>2, <3>3 DEF BMInv, Partition
  <2>3. free \subseteq Blocks
    BY <2>1 DEF BMTypeOK
  <2> QED BY <2>1, <2>2, <2>3
<1> QED BY <1>1, CallsInductive, PTL

-----------------------------------------------------------------------------
\* What a row attends to.

\* The KV of the call's tokens up to the n-th.
Expected(n) == [c \in 1..n |-> SubSeq(Context, 1, c)]

CallSlots == ContextSlots(blockIds[seq], numTokens[seq])

\* Once they are stored, the slots of the context lead to its KV, in order.
LEMMA SlotsLead ==
  ASSUME CallIInv, pc \in {"insert", "sample"}
  PROVE  /\ Len(Context) \in Nat \ {0} /\ numTokens[seq] = Len(Context)
         /\ DOMAIN CallSlots = 1..Len(Context) /\ Len(CallSlots) = Len(Context)
         /\ CallSlots = [c \in 1..Len(Context) |-> CallSlots[c]]
         /\ \A c \in 1..Len(Context) : ReadKV[CallSlots[c]] = SubSeq(Context, 1, c)
<1> DEFINE n == Len(Context)
           ids == blockIds[seq]
<1>1. /\ n \in Nat \ {0} /\ numTokens[seq] = n /\ StoredCount = n
      /\ ids \in Seq(Blocks) /\ n <= Len(ids) * BlockSize /\ Len(ids) * BlockSize \in Nat
  <2>1. InCall
    BY DEF InCall
  <2>2. numTokens[seq] = n /\ StoredCount = n
    BY DEF CallIInv, Counts, StoredCount
  <2>3. n \in Nat /\ n = Len(prompt) + Len(out) /\ Len(prompt) \in Nat /\ Len(out) \in Nat
    BY <2>1, CallTypes, LenProperties
  <2>4. Len(prompt) # 0
    BY <2>1, CallTypes, PromptAssumption, EmptySeq
  <2> QED BY <2>1, <2>2, <2>3, <2>4, CallTypes
<1> HIDE DEF n, ids
<1>2. CallSlots = [c \in 1..n |-> Slot(ids, c - 1)]
  BY <1>1 DEF CallSlots, ContextSlots, ids
<1>3. Len(CallSlots) = n
  <2> DEFINE T == {Slot(ids, c - 1) : c \in 1..n}
  <2>1. CallSlots \in [1..n -> T] /\ n \in Nat
    BY <1>1, <1>2
  <2> HIDE DEF T
  <2> QED BY <2>1, ListFromFunction
<1>4. ASSUME NEW c \in 1..n PROVE ReadKV[CallSlots[c]] = SubSeq(Context, 1, c)
  <2>1. PICK p \in Nat : p = c - 1
    BY <1>1
  <2>2. p \in 0..(n - 1) /\ p < Len(ids) * BlockSize /\ p + 1 = c
    BY <1>1, <2>1
  <2> DEFINE b == ids[(p \div BlockSize) + 1]
             o == p % BlockSize
  <2>3. b \in Blocks /\ o \in 0..(BlockSize - 1) /\ Slot(ids, p) = <<b, o>>
    BY <1>1, <2>2, SlotOfList
  <2>4. CallSlots[c] = Slot(ids, p)
    BY <1>2, <2>1
  <2> HIDE DEF b, o
  <2>5. <<b, o>> # ZeroSlot
    <3>1. Len(<<b, o>>) = 2 /\ Len(<<>>) = 0
      OBVIOUS
    <3> QED BY <3>1 DEF ZeroSlot
  <2>6. ReadKV[<<b, o>>] = kv[b][o]
    BY <2>3, <2>5 DEF ReadKV
  <2>7. Cell(p) = kv[b][o]
    BY <2>3 DEF Cell, ids
  <2>8. Cell(p) = SubSeq(Context, 1, p + 1)
    BY <1>1, <2>2 DEF CallIInv, Stocked
  <2> QED BY <2>2, <2>3, <2>4, <2>6, <2>7, <2>8
<1> QED BY <1>1, <1>2, <1>3, <1>4 DEF n

\* A row of a batch of one sequence, whose q rows are the last of the context.
LEMMA RowIsExpected ==
  ASSUME CallIInv, pc \in {"insert", "sample"}, NEW q \in 1..Len(Context), NEW j \in 1..q, NEW triton \in BOOLEAN,
         NEW proj, proj = [i \in 1..q |-> proj[i]],
         q = Len(Context) => \A i \in 1..q : proj[i] = SubSeq(Context, 1, i)
  PROVE  RowContext(<<SeqMeta(CallSlots, q)>>, triton, 1, j, proj, ReadKV) = Expected(Len(Context) - q + j)
<1> DEFINE n == Len(Context)
           meta == SeqMeta(CallSlots, q)
           metas == <<meta>>
<1>1. /\ n \in Nat \ {0} /\ DOMAIN CallSlots = 1..n /\ Len(CallSlots) = n
      /\ \A c \in 1..n : ReadKV[CallSlots[c]] = SubSeq(Context, 1, c)
  BY SlotsLead
<1>2. /\ metas[1] = meta /\ DOMAIN metas = {1} /\ meta.q = q /\ meta.slots = CallSlots
  BY DEF SeqMeta
<1>3. RowStart(metas, 1) = 0
  <2> HIDE DEF metas
  <2> QED BY RowStartNext
<1> HIDE DEF n, meta, metas
<1>4. Expected(n) = [c \in 1..n |-> ReadKV[CallSlots[c]]]
  BY <1>1 DEF Expected
<1>5. CASE BatchedDecode(metas, triton)
  <2>1. q = 1
    BY <1>2, <1>5 DEF BatchedDecode
  <2>2. n - q + j = n
    BY <1>1, <2>1
  <2>3. ContextLens(metas)[1] = n
    BY <1>1, <1>2 DEF ContextLens
  <2>4. \A c \in 1..n : SlotTable(metas)[1][c] = CallSlots[c]
    <3>1. {Len(metas[i].slots) : i \in DOMAIN metas} = {n}
      BY <1>1, <1>2
    <3>2. Max({n}) = n
      <4>1. \E x \in {n} : \A y \in {n} : x >= y
        BY <1>1
      <4> QED BY <4>1 DEF Max
    <3>3. SlotTable(metas)[1] = [c \in 1..n |-> IF c <= Len(metas[1].slots) THEN metas[1].slots[c] ELSE ZeroSlot]
      BY <1>2, <3>1, <3>2 DEF SlotTable
    <3> QED BY <1>1, <1>2, <3>3
  <2>5. RowContext(metas, triton, 1, j, proj, ReadKV) = [c \in 1..n |-> ReadKV[SlotTable(metas)[1][c]]]
    BY <1>5, <2>3 DEF RowContext
  <2>6. RowContext(metas, triton, 1, j, proj, ReadKV) = Expected(n)
    BY <1>4, <2>4, <2>5
  <2> QED BY <2>2, <2>6 DEF n, metas, meta
<1>6. CASE ~BatchedDecode(metas, triton)
  <2> DEFINE keys == Gathered(metas, 1, proj, ReadKV)
             m == n - q + j
  <2>1. q \in Nat /\ q <= n /\ m \in 0..n
    BY <1>1 DEF n
  <2>2. keys = IF n = q THEN SubSeq(proj, 1, q) ELSE [c \in 1..n |-> ReadKV[CallSlots[c]]]
    <3>1. 0 + 1 = 1 /\ 0 + q = q
      BY <2>1
    <3> QED BY <1>1, <1>2, <1>3, <3>1 DEF Gathered
  <2>3. keys = Expected(n)
    <3>1. CASE n = q
      <4>1. SubSeq(proj, 1, q) = [i \in 1..q |-> proj[i]]
        BY <2>1, ListPrefix
      <4>2. \A i \in 1..q : proj[i] = SubSeq(Context, 1, i)
        BY <3>1 DEF n
      <4> QED BY <2>2, <3>1, <4>1, <4>2 DEF Expected
    <3>2. CASE n # q
      BY <1>4, <2>2, <3>2
    <3> QED BY <3>1, <3>2
  <2>4. RowContext(metas, triton, 1, j, proj, ReadKV) = SubSeq(keys, 1, Len(keys) - q + j)
    BY <1>2, <1>6 DEF RowContext, CausalLowerRight
  <2> HIDE DEF m
  <2>5. Len(Expected(n)) = n /\ SubSeq(Expected(n), 1, m) = [c \in 1..m |-> Expected(n)[c]]
    <3> DEFINE f == Expected(n)
    <3>1. f = [c \in 1..n |-> f[c]] /\ n \in Nat
      BY <1>1 DEF Expected
    <3> HIDE DEF f
    <3>2. Len(f) = n /\ SubSeq(f, 1, m) = [c \in 1..m |-> f[c]]
      BY <2>1, <3>1, ListPrefix
    <3> QED BY <3>2 DEF f
  <2>6. [c \in 1..m |-> Expected(n)[c]] = Expected(m)
    <3>1. 1..m \subseteq 1..n
      BY <1>1, <2>1
    <3> QED BY <3>1 DEF Expected
  <2>7. SubSeq(keys, 1, Len(keys) - q + j) = Expected(m)
    BY <2>3, <2>5, <2>6 DEF m
  <2> QED BY <2>4, <2>7 DEF m, n, metas, meta
<1> QED BY <1>5, <1>6

\* A replayed graph attends to the part of its window that the mask of this replay
\* selects.
LEMMA ReplayIsExpected ==
  ASSUME CallIInv, pc = "sample", CanHandle(Len(Context))
  PROVE  ReplayContext(CallSlots, ReadKV) = Expected(Len(Context))
<1> DEFINE n == Len(Context)
           window == Window(CallSlots)
           fit == SmallestFit(n)
<1>1. /\ n \in Nat /\ numTokens[seq] = n /\ DOMAIN CallSlots = 1..n /\ Len(CallSlots) = n
      /\ \A c \in 1..n : ReadKV[CallSlots[c]] = SubSeq(Context, 1, c)
  BY SlotsLead
<1>2. fit \in Nat /\ n <= fit
  BY <1>1, FittingBucket
<1>3. mask[fit] = 1..n
  BY <1>1 DEF CallIInv, Masked
<1> HIDE DEF n, fit
<1>4. window = [c \in 1..fit |-> IF c <= n THEN CallSlots[c] ELSE ZeroSlot]
  BY <1>1 DEF Window, fit, n
<1>5. DOMAIN window \cap mask[fit] = 1..n /\ \A c \in 1..n : window[c] = CallSlots[c]
  <2>1. 1..n \subseteq 1..fit
    BY <1>1, <1>2
  <2> QED BY <1>1, <1>3, <1>4, <2>1
<1> HIDE DEF window
<1>6. Selected(window, 1..n) = [k \in 1..n |-> window[k]]
  BY <1>1, SelectedPrefix
<1>7. ReplayContext(CallSlots, ReadKV) = [i \in 1..n |-> ReadKV[Selected(window, 1..n)[i]]]
  <2>1. DOMAIN Selected(window, 1..n) = 1..n
    BY <1>6
  <2> QED BY <1>1, <1>5, <2>1 DEF ReplayContext, window, fit, n
<1>8. ReplayContext(CallSlots, ReadKV) = Expected(n)
  BY <1>1, <1>5, <1>6, <1>7 DEF Expected
<1> QED BY <1>8 DEF n

\* In every forward pass of the call, a row attends to the call's own context.
LEMMA OwnContext == CallIInv => AttendsOwnContext
<1> SUFFICES ASSUME CallIInv PROVE AttendsOwnContext
  OBVIOUS
<1>1. ASSUME pc = "insert", NEW triton \in BOOLEAN, NEW j \in 1..(Len(prompt) - start)
      PROVE  LET proj == [i \in 1..(Len(prompt) - start) |-> SubSeq(prompt, 1, start + i)]
             IN  RowContext(<<SeqMeta(CallSlots, Len(proj))>>, triton, 1, j, proj, ReadKV) = Expected(start + j)
  <2> DEFINE q == Len(prompt) - start
             proj == [i \in 1..q |-> SubSeq(prompt, 1, start + i)]
  <2>1. /\ start \in Nat /\ start < Len(prompt) /\ Context = prompt /\ Len(prompt) \in Nat
    BY <1>1, CallTypes DEF CallIInv, Counts, InCall
  <2>2. q \in 1..Len(Context) /\ j \in 1..q /\ Len(Context) - q + j = start + j /\ q \in Nat
    BY <1>1, <2>1
  <2>3. q = Len(Context) => start = 0
    BY <2>1
  <2> HIDE DEF q
  <2>4. proj = [i \in 1..q |-> proj[i]] /\ \A i \in 1..q : proj[i] = SubSeq(prompt, 1, start + i)
    OBVIOUS
  <2>5. q = Len(Context) => \A i \in 1..q : proj[i] = SubSeq(Context, 1, i)
    <3>1. \A i \in 1..q : 0 + i = i
      BY <2>2
    <3> QED BY <2>1, <2>3, <2>4, <3>1
  <2> HIDE DEF proj
  <2>6. Len(proj) = q
    <3>1. q \in 0..q
      BY <2>2
    <3> QED BY <2>2, <2>4, <3>1, ListPrefix
  <2>7. RowContext(<<SeqMeta(CallSlots, q)>>, triton, 1, j, proj, ReadKV) = Expected(start + j)
    BY <1>1, <2>2, <2>4, <2>5, RowIsExpected
  <2> QED BY <2>6, <2>7 DEF proj, q
<1>2. ASSUME pc = "sample", NEW triton \in BOOLEAN
      PROVE  RowContext(<<SeqMeta(CallSlots, 1)>>, triton, 1, 1, <<Context>>, ReadKV) = Expected(Len(Context))
  <2> DEFINE proj == <<Context>>
             one == 1
  <2>1. Len(Context) \in Nat \ {0}
    BY <1>2, SlotsLead
  <2>2. one \in 1..Len(Context) /\ 1 \in 1..one /\ Len(Context) - one + 1 = Len(Context)
    BY <2>1
  <2>3. proj = [i \in 1..one |-> proj[i]] /\ proj[1] = Context /\ 1..one = {1}
    OBVIOUS
  <2>4. one = Len(Context) => \A i \in 1..one : proj[i] = SubSeq(Context, 1, i)
    <3>1. SubSeq(Context, 1, Len(Context)) = Context
      <4>1. Context \in Seq(Tokens)
        BY <1>2, CallTypes DEF InCall
      <4>2. PICK x : x \in Tokens
        <5>1. Context[1] \in Tokens
          BY <2>1, <4>1, LenProperties
        <5> QED BY <5>1
      <4> QED BY <4>1, <4>2, PrefixOfAppend
    <3> QED BY <2>3, <3>1
  <2> HIDE DEF proj, one
  <2>5. RowContext(<<SeqMeta(CallSlots, one)>>, triton, 1, 1, proj, ReadKV) = Expected(Len(Context) - one + 1)
    BY <1>2, <2>2, <2>3, <2>4, RowIsExpected
  <2> QED BY <2>2, <2>5 DEF proj, one
<1>3. pc = "sample" /\ CanHandle(Len(Context)) => ReplayContext(CallSlots, ReadKV) = Expected(Len(Context))
  BY ReplayIsExpected
<1> QED BY <1>1, <1>2, <1>3 DEF AttendsOwnContext, CallSlots, Expected

\* Adopting cached blocks, the attention backend and the replay of a graph change
\* nothing about what a row attends to (engine.py, lines 64-95; model_runner.py).
THEOREM RowsAttendOwnContext == Spec => []AttendsOwnContext
BY CallsInductive, OwnContext, PTL
=============================================================================
