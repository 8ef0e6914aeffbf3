----------------------------- MODULE Speculative -----------------------------
(***************************************************************************)
(* Speculative decoding, SpeculativeEngine.generate of                     *)
(* dispec/spec/speculative.py: a draft model proposes K tokens, the target *)
(* verifies them in one forward pass, the KV of rejected tokens is rolled  *)
(* back in both paged caches and both models are brought in step again.    *)
(*                                                                         *)
(* Abstracted: a distribution is named by the context it was computed      *)
(* from, Target(c) and Draft(c) give its weights; what a cache slot holds  *)
(* is the context up to and including its token, as read from the slots    *)
(* before it.  The statistics are left out.  Prompts are not empty.        *)
(***************************************************************************)
EXTENDS Integers, Sequences, FiniteSets, SequencesExt

CONSTANTS
  Tokens, Eos,
  Target(_), Draft(_),    \* weights of the next token after a context
  Prompts, MaxNews,
  K,                      \* num_speculative_tokens
  Calls,                  \* bound: the calls of generate, 1 .. n
  TgtBlocks, DrfBlocks, BlockSize,
  TokenCounts             \* the counts the allocator is called with

ASSUME SpecAssumption ==
  /\ K \in Nat \ {0} /\ MaxNews \subseteq Nat
  /\ Prompts \subseteq Seq(Tokens) \ {<<>>}
\* Both caches are made with the same number of blocks and block size (lines 57-60).
ASSUME PoolsAssumption ==
  /\ IsFiniteSet(TgtBlocks) /\ IsFiniteSet(DrfBlocks)
  /\ Cardinality(TgtBlocks) = Cardinality(DrfBlocks)
  /\ BlockSize \in Nat \ {0}
\* The models give every token of the common vocabulary a weight, after any
\* context a call comes to (lines 65-69).
ASSUME ModelsAssumption ==
  \A c \in Prompts, m \in MaxNews : \A g \in SeqOf(Tokens, m + K) :
    {Target(c \o g), Draft(c \o g)} \subseteq [Tokens -> Nat]

VARIABLES
  tFree, tRef, tLive, tIds, tNum,   \* tgt_cache.manager
  dFree, dRef, dLive, dIds, dNum,   \* drf_cache.manager
  tKV, dKV,                         \* what the slots of both caches hold
  pc, seq, raised,
  prompt, maxNew, out,
  pNext, qNext,                     \* the carried next-token distributions
  draft, qStack, pStack, pBonus,
  emitted, accepted, tgtStart,
  todo                              \* emitted tokens not yet appended to out

tPool == <<tFree, tRef, tLive, tIds, tNum>>
dPool == <<dFree, dRef, dLive, dIds, dNum>>
callVars == <<seq, prompt, maxNew>>
roundVars == <<draft, qStack, pStack, pBonus, emitted, accepted, tgtStart, todo>>
vars == <<tPool, dPool, tKV, dKV, pc, raised, callVars, out, pNext, qNext, roundVars>>

Tgt == INSTANCE BlockManager WITH
  Seqs <- Calls, Blocks <- TgtBlocks, MaxPins <- 0,
  free <- tFree, refCount <- tRef, live <- tLive, blockIds <- tIds, numTokens <- tNum,
  pins <- [b \in TgtBlocks |-> 0]

Drf == INSTANCE BlockManager WITH
  Seqs <- Calls, Blocks <- DrfBlocks, MaxPins <- 0,
  free <- dFree, refCount <- dRef, live <- dLive, blockIds <- dIds, numTokens <- dNum,
  pins <- [b \in DrfBlocks |-> 0]

Rej == INSTANCE Rejection WITH
  Vocab <- Tokens, Rows <- {}, Params <- {}, TopPUnit <- 1, params <- <<>>, logits <- <<>>,
  out <- emitted, bonus <- Target(pBonus),
  q <- [i \in DOMAIN qStack |-> Draft(qStack[i])], p <- [i \in DOMAIN pStack |-> Target(pStack[i])]

Context == prompt \o out

-----------------------------------------------------------------------------
\* _forward: the context its row j is computed from, and the cache it leaves.
Row(kv, ids, toks, start, j) ==
  LET slot == Tgt!Slot(ids, start - 1)
  IN  (IF start = 0 THEN <<>> ELSE kv[slot[1]][slot[2]]) \o SubSeq(toks, 1, j)

Stored(kv, ids, toks, start) ==
  [b \in DOMAIN kv |-> [o \in DOMAIN kv[b] |->
     LET hits == {j \in 1..Len(toks) : Tgt!Slot(ids, start + j - 1) = <<b, o>>}
     IN  IF hits = {} THEN kv[b][o] ELSE Row(kv, ids, toks, start, Max(hits))]]

TgtMissing(toks, start) == Tgt!MissingBlocks(seq, start + Len(toks) - tNum[seq])

TgtForward(toks, start) ==
  /\ Tgt!Extend(seq, tIds[seq], {}, TgtMissing(toks, start))
  /\ tNum' = [tNum EXCEPT ![seq] = start + Len(toks)]
  /\ tKV' = Stored(tKV, tIds'[seq], toks, start)
  /\ UNCHANGED tLive

TgtRow(toks, start, j) == Row(tKV, tIds[seq], toks, start, j)

DrfMissing(toks, start) == Drf!MissingBlocks(seq, start + Len(toks) - dNum[seq])

DrfForward(toks, start) ==
  /\ Drf!Extend(seq, dIds[seq], {}, DrfMissing(toks, start))
  /\ dNum' = [dNum EXCEPT ![seq] = start + Len(toks)]
  /\ dKV' = Stored(dKV, dIds'[seq], toks, start)
  /\ UNCHANGED dLive

DrfRow(toks, start, j) == Row(dKV, dIds[seq], toks, start, j)

\* Lines 142-146: what the draft model has to be fed after a round.
DraftResync == IF accepted <= K - 1 THEN <<Last(emitted)>> ELSE <<draft[K], Last(emitted)>>

-----------------------------------------------------------------------------
\* Lines 91-96, before the try block.  The second allocation cannot fail when
\* the first one did not: DraftPoolFits.
AllocateTarget(c, m) ==
  /\ pc = "idle" /\ seq \in Calls
  /\ prompt' = c /\ maxNew' = m /\ out' = <<>> /\ raised' = FALSE
  /\ Tgt!Allocate(seq, Len(c), <<>>)
  /\ pc' = "allocate"
  /\ UNCHANGED <<seq, dPool, tKV, dKV, pNext, qNext, roundVars>>

AllocateRaises(c) ==
  /\ pc = "idle" /\ seq \in Calls
  /\ Tgt!AllocateFails(Len(c), <<>>)
  /\ seq' = seq + 1
  /\ UNCHANGED <<pc, raised, prompt, maxNew, out, tPool, dPool, tKV, dKV, pNext, qNext, roundVars>>

AllocateDraft ==
  /\ pc = "allocate"
  /\ Drf!Allocate(seq, Len(prompt), <<>>)
  /\ pc' = "prefillT"
  /\ UNCHANGED <<callVars, raised, out, tPool, tKV, dKV, pNext, qNext, roundVars>>

PrefillTarget ==
  /\ pc = "prefillT"
  /\ TgtForward(prompt, 0)
  /\ pNext' = TgtRow(prompt, 0, Len(prompt))
  /\ pc' = "prefillD"
  /\ UNCHANGED <<callVars, raised, out, dPool, dKV, qNext, roundVars>>

PrefillDraft ==
  /\ pc = "prefillD"
  /\ DrfForward(prompt, 0)
  /\ qNext' = DrfRow(prompt, 0, Len(prompt))
  /\ draft' = <<>> /\ pc' = IF maxNew > 0 THEN "draft" ELSE "finally"
  /\ UNCHANGED <<callVars, raised, out, tPool, tKV, pNext,
                 qStack, pStack, pBonus, emitted, accepted, tgtStart, todo>>

Proposes(context) == \E t \in Rej!Support(Draft(context)) : draft' = Append(draft, t)

\* Lines 107-110.
DraftFirst ==
  /\ pc = "draft" /\ draft = <<>>
  /\ qStack' = <<qNext>> /\ Proposes(qNext)
  /\ pc' = IF K = 1 THEN "verify" ELSE "draft"
  /\ UNCHANGED <<callVars, raised, out, tPool, dPool, tKV, dKV, pNext, qNext,
                 pStack, pBonus, emitted, accepted, tgtStart, todo>>

\* Lines 111-117.
DraftMore ==
  /\ pc = "draft" /\ draft # <<>>
  /\ LET row == DrfRow(<<Last(draft)>>, dNum[seq], 1)
     IN  qStack' = Append(qStack, row) /\ Proposes(row)
  /\ DrfForward(<<Last(draft)>>, dNum[seq])
  /\ pc' = IF Len(draft) + 1 = K THEN "verify" ELSE "draft"
  /\ UNCHANGED <<callVars, raised, out, tPool, tKV, pNext, qNext,
                 pStack, pBonus, emitted, accepted, tgtStart, todo>>

\* Mutant: the row of token j is compared with the distribution after it.
VerifyShifted ==
  /\ pc = "verify"
  /\ tgtStart' = tNum[seq]
  /\ TgtForward(draft, tNum[seq])
  /\ pStack' = [j \in 1..K |-> TgtRow(draft, tNum[seq], j)]
  /\ pBonus' = TgtRow(draft, tNum[seq], K)
  /\ emitted' = <<>> /\ accepted' = -1 /\ pc' = "reject"
  /\ UNCHANGED <<callVars, raised, out, dPool, dKV, pNext, qNext, draft, qStack, todo>>

\* Lines 119-123.
Verify ==
  /\ pc = "verify"
  /\ tgtStart' = tNum[seq]
  /\ TgtForward(draft, tNum[seq])
  /\ pStack' = <<pNext>> \o [j \in 1..(K - 1) |-> TgtRow(draft, tNum[seq], j)]
  /\ pBonus' = TgtRow(draft, tNum[seq], K)
  /\ emitted' = <<>> /\ accepted' = -1 /\ pc' = "reject"
  /\ UNCHANGED <<callVars, raised, out, dPool, dKV, pNext, qNext, draft, qStack, todo>>

\* Lines 126-131.
Reject ==
  /\ pc = "reject"
  /\ Rej!Tested
  /\ pc' = IF accepted' = -1 THEN "reject" ELSE "rollT"
  /\ UNCHANGED <<callVars, raised, out, tPool, dPool, tKV, dKV, pNext, qNext,
                 draft, qStack, pStack, pBonus, tgtStart, todo>>

RollTarget ==
  /\ pc = "rollT"
  /\ Tgt!Truncate(seq, tgtStart + accepted)
  /\ pc' = "fixT"
  /\ UNCHANGED <<callVars, raised, out, dPool, tKV, dKV, pNext, qNext, roundVars>>

\* Lines 136-137.
FixTarget ==
  /\ pc = "fixT"
  /\ TgtForward(<<Last(emitted)>>, tgtStart + accepted)
  /\ pNext' = TgtRow(<<Last(emitted)>>, tgtStart + accepted, 1)
  /\ pc' = "rollD"
  /\ UNCHANGED <<callVars, raised, out, dPool, dKV, qNext, roundVars>>

\* Mutant: the draft keeps the KV of the rejected tokens.
RollDraftNothing ==
  /\ pc = "rollD"
  /\ pc' = "fixD"
  /\ UNCHANGED <<callVars, raised, out, tPool, dPool, tKV, dKV, pNext, qNext, roundVars>>

\* Lines 140-145.
RollDraft ==
  /\ pc = "rollD"
  /\ Drf!Truncate(seq, Len(prompt) + Len(out) + (IF accepted <= K - 1 THEN accepted ELSE K - 1))
  /\ pc' = "fixD"
  /\ UNCHANGED <<callVars, raised, out, tPool, tKV, dKV, pNext, qNext, roundVars>>

\* Lines 147-149.
FixDraft ==
  /\ pc = "fixD"
  /\ DrfForward(DraftResync, dNum[seq])
  /\ qNext' = DrfRow(DraftResync, dNum[seq], Len(DraftResync))
  /\ todo' = emitted /\ pc' = "emit"
  /\ UNCHANGED <<callVars, raised, out, tPool, tKV, pNext,
                 draft, qStack, pStack, pBonus, emitted, accepted, tgtStart>>

\* Mutant: the end token does not end the call inside a round.
EndsAtLimit(t) == Len(out) + 1 >= maxNew

Ends(t) == Len(out) + 1 >= maxNew \/ t = Eos

\* Lines 152-156, one emitted token; the last one leads to the next round.
Emit ==
  /\ pc = "emit"
  /\ out' = Append(out, Head(todo)) /\ todo' = Tail(todo)
  /\ pc' = IF Ends(Head(todo)) THEN "finally" ELSE IF Len(todo) = 1 THEN "draft" ELSE "emit"
  /\ draft' = <<>>
  /\ UNCHANGED <<callVars, raised, tPool, dPool, tKV, dKV, pNext, qNext,
                 qStack, pStack, pBonus, emitted, accepted, tgtStart>>

\* reserve raises OutOfBlocksError in a forward pass; the prompt has its blocks.
TargetRaises ==
  /\ pc \in {"verify", "fixT"}
  /\ LET toks == IF pc = "verify" THEN draft ELSE <<Last(emitted)>>
     IN  TgtMissing(toks, tNum[seq]) > Cardinality(tFree)
  /\ raised' = TRUE /\ pc' = "finally"
  /\ UNCHANGED <<callVars, out, tPool, dPool, tKV, dKV, pNext, qNext, roundVars>>

DraftRaises ==
  /\ pc = "fixD" \/ (pc = "draft" /\ draft # <<>>)
  /\ LET toks == IF pc = "draft" THEN <<Last(draft)>> ELSE DraftResync
     IN  DrfMissing(toks, dNum[seq]) > Cardinality(dFree)
  /\ raised' = TRUE /\ pc' = "finally"
  /\ UNCHANGED <<callVars, out, tPool, dPool, tKV, dKV, pNext, qNext, roundVars>>

FreeTarget ==
  /\ pc = "finally"
  /\ Tgt!Free(seq)
  /\ pc' = "freeD"
  /\ UNCHANGED <<callVars, raised, out, dPool, tKV, dKV, pNext, qNext, roundVars>>

\* The local variables of a call end with it.
ForgetLocals ==
  /\ pNext' = <<>> /\ qNext' = <<>> /\ draft' = <<>> /\ qStack' = <<>> /\ pStack' = <<>>
  /\ pBonus' = <<>> /\ emitted' = <<>> /\ accepted' = -1 /\ tgtStart' = 0 /\ todo' = <<>>

\* Mutant: only the target's table is freed.
FreeDraftForgotten ==
  /\ pc = "freeD"
  /\ seq' = seq + 1 /\ pc' = "idle"
  /\ ForgetLocals
  /\ UNCHANGED <<prompt, maxNew, raised, out, tPool, dPool, tKV, dKV>>

FreeDraft ==
  /\ pc = "freeD"
  /\ Drf!Free(seq)
  /\ seq' = seq + 1 /\ pc' = "idle"
  /\ ForgetLocals
  /\ UNCHANGED <<prompt, maxNew, raised, out, tPool, tKV, dKV>>

-----------------------------------------------------------------------------
Init ==
  /\ Tgt!BMInit /\ Drf!BMInit
  /\ tKV = [b \in TgtBlocks |-> [o \in 0..(BlockSize - 1) |-> <<>>]]
  /\ dKV = [b \in DrfBlocks |-> [o \in 0..(BlockSize - 1) |-> <<>>]]
  /\ pc = "idle" /\ seq = 1 /\ raised = FALSE
  /\ prompt = <<>> /\ maxNew = 0 /\ out = <<>> /\ pNext = <<>> /\ qNext = <<>>
  /\ draft = <<>> /\ qStack = <<>> /\ pStack = <<>> /\ pBonus = <<>>
  /\ emitted = <<>> /\ accepted = -1 /\ tgtStart = 0 /\ todo = <<>>

Next ==
  \/ \E c \in Prompts, m \in MaxNews : AllocateTarget(c, m)
  \/ \E c \in Prompts : AllocateRaises(c)
  \/ AllocateDraft \/ PrefillTarget \/ PrefillDraft
  \/ DraftFirst \/ DraftMore \/ Verify \/ Reject
  \/ RollTarget \/ FixTarget \/ RollDraft \/ FixDraft \/ Emit
  \/ TargetRaises \/ DraftRaises \/ FreeTarget \/ FreeDraft

Spec == Init /\ [][Next]_vars

-----------------------------------------------------------------------------
\* Properties.

SpecTypeOK ==
  /\ Tgt!BMTypeOK /\ Drf!BMTypeOK
  /\ seq \in Nat /\ prompt \in Prompts \cup {<<>>}
  /\ {out, draft, emitted, todo} \subseteq Seq(Tokens)
  /\ Len(draft) <= K /\ accepted \in -1..K /\ Len(qStack) <= K

\* The cache slots of a table hold the first tokens of a context, in order.
Holds(kv, ids, context, n) ==
  \A pos \in 0..(n - 1) :
    LET slot == Tgt!Slot(ids, pos)
    IN  kv[slot[1]][slot[2]] = SubSeq(context, 1, pos + 1)

\* When a round begins the target has cached the confirmed context and nothing
\* else, and carries its distribution: rejected tokens left no trace.
TargetInStep ==
  pc = "draft" =>
    /\ tNum[seq] = Len(Context) /\ Holds(tKV, tIds[seq], Context, tNum[seq])
    /\ pNext = Context

\* The draft model is in step too, and while it drafts, behind its own proposals
\* by one token (line 144: the last one is never fed back).
DraftInStep ==
  pc = "draft" =>
    /\ dNum[seq] = Len(Context) + Max({0, Len(draft) - 1})
    /\ Holds(dKV, dIds[seq], Context \o draft, dNum[seq])
    /\ qNext = Context

\* A sequence never takes more cache than its prompt, its limit and one round
\* of proposals: a pool of that size cannot raise.
Overshoot ==
  \A s \in tLive :
    /\ tNum[s] <= Len(prompt) + maxNew + K
    /\ s \in dLive => dNum[s] <= Len(prompt) + maxNew + K

\* Both caches are in step with the confirmed tokens after every round, however
\* many proposals were accepted, and never further ahead than a round.
SpecInv == SpecTypeOK /\ TargetInStep /\ DraftInStep /\ Overshoot

\* Every drafted token is tested with the two distributions of its own position.
TestedAtOwnPosition ==
  pc = "reject" =>
    /\ \A i \in 1..K : LET before == Context \o SubSeq(draft, 1, i - 1)
                       IN  qStack[i] = before /\ pStack[i] = before
    /\ pBonus = Context \o draft

\* Between two calls both pools are whole, however the last call ended.  Line 96
\* stands outside the try block: were it to raise, the table of line 95 would
\* stay; it does not, because both pools are equally full.
CallsLeaveNothing ==
  /\ pc = "idle" => tFree = TgtBlocks /\ dFree = DrfBlocks
  /\ pc = "allocate" => ~Drf!AllocateFails(Len(prompt), <<>>)

\* Speculation is invisible: the engine decodes as the target alone could have.
Alone == INSTANCE TargetDecoding WITH
  Limits <- MaxNews, Possible <- LAMBDA c : Rej!Support(Target(c)), limit <- maxNew,
  status <- CASE pc \in {"freeD", "idle"} /\ prompt # <<>> -> IF raised THEN "failed" ELSE "returned"
              [] pc = "idle" /\ prompt = <<>> -> "idle"
              [] OTHER -> "decoding"

DecodesAsTarget == Alone!Spec
==============================================================================
