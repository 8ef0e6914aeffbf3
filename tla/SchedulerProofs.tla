--------------------------- MODULE SchedulerProofs ---------------------------
(***************************************************************************)
(* The continuous-batching engine, for any requests, pool, budget, chunk   *)
(* and block size: step() uses the allocator as its clients must, keeps    *)
(* its queues and tables in agreement, and feeds and samples every request *)
(* from its own tokens.                                                    *)
(***************************************************************************)
EXTENDS Scheduler, BlockManagerProofs, ListLemmas

Entries == [req : Seqs, q : Nat, ctx : Nat, sampled : BOOLEAN]
FlatRows == [req : Seqs, pos : Nat, slot : Blocks \X Nat]

InLoops == pc \in {"decode", "prefill", "import"}
HasBatch == pc \in {"decode", "prefill", "import", "forward", "sample"}
Retiring == IF pc = "retire" THEN Range(todo) ELSE {}
InState(s) == {r \in Seqs : state[r] = s}

\* The types the proof needs beyond SchedTypeOK.
ProofTypes ==
  /\ SchedTypeOK
  /\ req \in [Seqs -> [plen : Nat, maxNew : Nat, prio : Int]]
  /\ batch \in Seq(Entries) /\ rows \in Seq(FlatRows)

\* Every queue holds its requests once, and they are those in its state.
Queues ==
  /\ \A q \in {waiting, prefilling, running, finished, todo} : IsInjective(q)
  /\ Range(waiting) = InState("WAITING") /\ Range(prefilling) = InState("PREFILLING")
  /\ Range(running) = InState("RUNNING") \cup Retiring
  /\ Range(finished) = InState("FINISHED") \ Retiring
  /\ Retiring \subseteq InState("FINISHED")

\* How far each request is.
Progress ==
  /\ \A r \in Added : req[r].plen \in PromptLens /\ prefix[r] < req[r].plen
  /\ \A r \in InState("WAITING") \cup InState("PREFILLING") \cup InState("absent") : outLen[r] = 0
  /\ \A r \in InState("WAITING") \cup InState("absent") : prefillPos[r] = 0
  /\ \A r \in InState("PREFILLING") : numTokens[r] = prefillPos[r] /\ prefillPos[r] < req[r].plen
  /\ \A r \in live : state[r] \in {"WAITING", "PREFILLING"} => req[r].plen <= TableCapacity(r)

\* What the loops have left to visit.
Visits ==
  /\ pc = "decode" => Range(todo) \subseteq Range(running)
  /\ pc \in {"prefill", "import"} =>
       /\ Range(todo) \subseteq InState("WAITING") \cup InState("PREFILLING")
       /\ Range(waiting) \subseteq Range(todo)
       /\ \A i, j \in DOMAIN todo :
            i < j /\ state[todo[i]] = "WAITING" /\ state[todo[j]] = "WAITING" => AdmitBefore(todo[i], todo[j])
  /\ pc = "import" => todo # <<>> /\ state[Head(todo)] = "WAITING" /\ budget >= 1
  /\ pc = "retire" => todo # <<>>
  /\ pc = "sample" => lastIdx # <<>>

\* Rows and running requests share the budget.
Budgets ==
  /\ Len(rows) <= MaxBatchTokens /\ Len(running) <= MaxBatchTokens
  /\ InLoops => budget + Len(rows) = MaxBatchTokens
  /\ pc = "decode" => Len(running) = Len(todo) + Len(rows)
  /\ pc \in {"prefill", "import"} => Len(running) <= Len(rows)

Batched == {batch[i].req : i \in DOMAIN batch}
Picks == {i \in DOMAIN batch : batch[i].sampled}
Emitting == {batch[i].req : i \in Picks}

\* The entries of the batch are requests apart; those that emit a token are the
\* running ones.
Entered ==
  HasBatch =>
    /\ \A i, j \in DOMAIN batch : batch[i].req = batch[j].req => i = j
    /\ \A i \in DOMAIN batch :
         /\ state[batch[i].req] = IF batch[i].sampled THEN "RUNNING" ELSE "PREFILLING"
         /\ batch[i].ctx = numTokens[batch[i].req] /\ 1 <= batch[i].q /\ batch[i].q <= batch[i].ctx
    /\ Range(running) = Emitting \cup (IF pc = "decode" THEN Range(todo) ELSE {})
    /\ InLoops => Range(todo) \cap Batched = {}
    /\ pc = "decode" => \A i \in DOMAIN batch : batch[i].sampled

\* The table of a running request counts its prompt and its tokens but the last,
\* which it counts once the request is in the batch.
Lengths ==
  /\ pc \in {"idle", "decode", "retire"} =>
       \A r \in InState("RUNNING") \ (IF pc = "decode" THEN Batched ELSE {}) :
         numTokens[r] = req[r].plen + outLen[r] - 1 /\ outLen[r] >= 1
  /\ HasBatch => \A r \in Emitting : numTokens[r] = req[r].plen + outLen[r]

\* The rows of the i-th entry stand together and are the last q tokens of its context.
RowsLaidOut ==
  HasBatch =>
    /\ Len(rows) = RowStart(batch, Len(batch) + 1)
    /\ \A i \in DOMAIN batch : \A j \in 1..batch[i].q :
         LET r == batch[i].req
             p == batch[i].ctx - batch[i].q + j - 1
         IN  /\ RowStart(batch, i) + j \in DOMAIN rows
             /\ rows[RowStart(batch, i) + j] = [req |-> r, pos |-> p, slot |-> Slot(blockIds[r], p)]

\* Every row is a stored token of a request of the batch, at its slot.
RowsInTables ==
  HasBatch =>
    \A k \in DOMAIN rows :
      /\ rows[k].req \in Batched \cap live /\ rows[k].pos < numTokens[rows[k].req]
      /\ rows[k].slot = Slot(blockIds[rows[k].req], rows[k].pos)

\* last_idx: the last row of every entry that emits a token.
LastRows ==
  HasBatch =>
    /\ Len(lastIdx) = Cardinality(Picks)
    /\ \A i \in Picks : lastIdx[Before(Picks, i) + 1] = RowStart(batch, i + 1)

Importing(r) == pc = "import" /\ r = Head(todo)

Pending(r, p) ==
  /\ pc \in {"decode", "prefill", "import", "forward"}
  /\ \E k \in DOMAIN rows : rows[k].req = r /\ rows[k].pos = p

InCache(r, p) == LET s == Slot(blockIds[r], p) IN kv[s[1]][s[2]] = Tag(r, p)

\* Every token a table counts is in the cache, or is a row that is not written yet.
Stocked ==
  pc # "raised" =>
    \A r \in live : \A p \in 0..(numTokens[r] - 1) :
      Importing(r) \/ Pending(r, p) \/ InCache(r, p)

SchedIInv ==
  /\ BMInv /\ ProofTypes /\ Queues /\ TablesMatchQueues /\ RequestsIsolated /\ Progress /\ Visits
  /\ Budgets /\ Entered /\ Lengths /\ RowsLaidOut /\ RowsInTables /\ LastRows /\ Stocked

-----------------------------------------------------------------------------
\* Slots and what is stored in them.

\* A record with a request, a position its table holds, and the slot of that position.
Slotted(w) ==
  w.req \in live /\ w.pos \in 0..(TableCapacity(w.req) - 1) /\ w.slot = Slot(blockIds[w.req], w.pos)

\* A table holds a number of tokens.
LEMMA CapacityNat ==
  ASSUME BMInv, NEW r \in live
  PROVE  blockIds[r] \in Seq(Blocks) /\ TableCapacity(r) \in Nat
<1>1. blockIds[r] \in Seq(Blocks)
  BY DEF BMInv, BMTypeOK
<1>2. Len(blockIds[r]) \in Nat
  BY <1>1, LenProperties
<1> QED BY <1>1, <1>2, BlockSizeAssumption DEF TableCapacity

\* Positions of live requests have slots of their own.
LEMMA SlotsApart ==
  ASSUME BMInv, RequestsIsolated, NEW r \in live, NEW s \in live,
         NEW p \in 0..(TableCapacity(r) - 1), NEW q \in 0..(TableCapacity(s) - 1),
         Slot(blockIds[r], p) = Slot(blockIds[s], q)
  PROVE  r = s /\ p = q
<1>0. TableCapacity(r) \in Nat /\ TableCapacity(s) \in Nat
  BY CapacityNat
<1>1. p \in Nat /\ p < TableCapacity(r) /\ q \in Nat /\ q < TableCapacity(s)
  BY <1>0
<1> DEFINE b == blockIds[r][(p \div BlockSize) + 1]
           c == blockIds[s][(q \div BlockSize) + 1]
<1>2. b \in TableBlocks(r) /\ Slot(blockIds[r], p) = <<b, p % BlockSize>>
  BY <1>1, SlotInTable
<1>3. c \in TableBlocks(s) /\ Slot(blockIds[s], q) = <<c, q % BlockSize>>
  BY <1>1, SlotInTable
<1>4. b = c
  <2>1. <<b, p % BlockSize>> = <<c, q % BlockSize>>
    BY <1>2, <1>3
  <2> HIDE DEF b, c
  <2> QED BY <2>1
<1>5. r = s
  BY <1>2, <1>3, <1>4 DEF RequestsIsolated
<1> QED BY <1>1, <1>5, SlotsDiffer

\* The slot of a position is a cell of the cache.
LEMMA SlotIsCell ==
  ASSUME BMInv, NEW r \in live, NEW p \in 0..(TableCapacity(r) - 1)
  PROVE  /\ Slot(blockIds[r], p) \in Blocks \X (0..(BlockSize - 1))
         /\ Slot(blockIds[r], p) = <<Slot(blockIds[r], p)[1], Slot(blockIds[r], p)[2]>>
         /\ Slot(blockIds[r], p)[1] \in Blocks /\ Slot(blockIds[r], p)[2] \in 0..(BlockSize - 1)
<1>0. TableCapacity(r) \in Nat
  BY CapacityNat
<1>1. p \in Nat /\ p < TableCapacity(r)
  BY <1>0
<1> DEFINE b == blockIds[r][(p \div BlockSize) + 1]
           o == p % BlockSize
<1>2. b \in Blocks /\ Slot(blockIds[r], p) = <<b, o>> /\ o \in 0..(BlockSize - 1)
  BY <1>1, SlotInTable
<1> HIDE DEF b, o
<1> QED BY <1>2

\* After the records of W are stored, each is where its slot says, and the other
\* positions of the tables hold what they held.
LEMMA StoredAt ==
  ASSUME BMInv, RequestsIsolated, NEW W, \A w \in W : Slotted(w),
         NEW r \in live, NEW p \in 0..(TableCapacity(r) - 1)
  PROVE  Stored(W)[Slot(blockIds[r], p)[1]][Slot(blockIds[r], p)[2]]
           = IF \E w \in W : w.req = r /\ w.pos = p THEN Tag(r, p)
             ELSE kv[Slot(blockIds[r], p)[1]][Slot(blockIds[r], p)[2]]
<1> DEFINE b == Slot(blockIds[r], p)[1]
           o == Slot(blockIds[r], p)[2]
           hits == {w \in W : w.slot = <<b, o>>}
           hit == CHOOSE w \in hits : TRUE
<1>1. b \in Blocks /\ o \in 0..(BlockSize - 1) /\ Slot(blockIds[r], p) = <<b, o>>
  BY SlotIsCell
<1>2. Stored(W)[b][o] = IF hits = {} THEN kv[b][o] ELSE Tag(hit.req, hit.pos)
  BY <1>1 DEF Stored
<1>3. \A w \in W : w \in hits <=> w.req = r /\ w.pos = p
  <2> TAKE w \in W
  <2>1. Slotted(w)
    OBVIOUS
  <2>2. ASSUME w \in hits PROVE w.req = r /\ w.pos = p
    <3>1. Slot(blockIds[w.req], w.pos) = Slot(blockIds[r], p)
      BY <1>1, <2>1, <2>2 DEF Slotted
    <3> QED BY <2>1, <3>1, SlotsApart DEF Slotted
  <2>3. ASSUME w.req = r, w.pos = p PROVE w \in hits
    BY <1>1, <2>1, <2>3 DEF Slotted
  <2> QED BY <2>2, <2>3
<1>4. hits # {} => hit \in hits
  OBVIOUS
<1>5. hits \subseteq W
  OBVIOUS
<1> HIDE DEF hits, hit, b, o
<1>6. CASE hits = {}
  BY <1>2, <1>3, <1>6 DEF b, o
<1>7. CASE hits # {}
  <2>1. hit \in W /\ hit.req = r /\ hit.pos = p
    BY <1>3, <1>4, <1>5, <1>7
  <2> QED BY <1>2, <1>7, <2>1 DEF b, o
<1> QED BY <1>6, <1>7

-----------------------------------------------------------------------------
\* The invariant gives what the runs check.

\* The inductive invariant is stronger than the engine's own.
LEMMA IInvGivesSchedInv == SchedIInv => SchedInv
<1> SUFFICES ASSUME SchedIInv PROVE SchedInv
  OBVIOUS
<1> USE DEF SchedIInv
<1>0. SchedTypeOK /\ waiting \in Seq(Seqs) /\ prefilling \in Seq(Seqs) /\ running \in Seq(Seqs) /\ finished \in Seq(Seqs)
  BY DEF ProofTypes, SchedTypeOK
<1>1. QueuesMatchStates
  <2>1. IsInjective(waiting) /\ IsInjective(prefilling) /\ IsInjective(running) /\ IsInjective(finished)
    BY DEF Queues
  <2>2. /\ Range(waiting) \cap Range(prefilling) = {}
        /\ (Range(waiting) \cup Range(prefilling)) \cap Range(running) = {}
        /\ (Range(waiting) \cup Range(prefilling) \cup Range(running)) \cap Range(finished) = {}
    BY DEF Queues, InState, Retiring
  <2> DEFINE two == waiting \o prefilling
             three == two \o running
  <2>3. two \in Seq(Seqs) /\ Range(two) = Range(waiting) \cup Range(prefilling) /\ IsInjective(two)
    BY <1>0, <2>1, <2>2, ConcatDisjoint
  <2> HIDE DEF two
  <2>4. three \in Seq(Seqs) /\ Range(three) = Range(two) \cup Range(running) /\ IsInjective(three)
    BY <1>0, <2>1, <2>2, <2>3, ConcatDisjoint
  <2> HIDE DEF three
  <2>5. IsInjective(three \o finished)
    BY <1>0, <2>1, <2>2, <2>3, <2>4, ConcatDisjoint
  <2>6. IsInjective(waiting \o prefilling \o running \o finished)
    BY <2>5 DEF two, three
  <2>7. \A r \in Added :
       /\ state[r] = "WAITING" <=> r \in Range(waiting)
       /\ state[r] = "PREFILLING" <=> r \in Range(prefilling)
       /\ state[r] = "RUNNING" => r \in Range(running)
       /\ state[r] = "FINISHED" => r \in Range(finished) \/ (pc = "retire" /\ r \in Range(todo))
    BY DEF Queues, InState, Retiring, Added
  <2> QED BY <2>6, <2>7 DEF QueuesMatchStates
<1>2. StoredLength
  BY DEF StoredLength, Lengths, Queues, Retiring, Progress
<1>3. RunningFitsBatch /\ BatchWithinBudget
  BY DEF RunningFitsBatch, BatchWithinBudget, Budgets
<1> QED BY <1>0, <1>1, <1>2, <1>3 DEF SchedInv

-----------------------------------------------------------------------------
\* What the steps have in common.

\* The invariant as the steps use it: the types of the variables.
LEMMA Types ==
  ASSUME SchedIInv
  PROVE  /\ waiting \in Seq(Seqs) /\ prefilling \in Seq(Seqs) /\ running \in Seq(Seqs)
         /\ finished \in Seq(Seqs) /\ todo \in Seq(Seqs)
         /\ IsInjective(waiting) /\ IsInjective(prefilling) /\ IsInjective(running)
         /\ IsInjective(finished) /\ IsInjective(todo)
         /\ state \in [Seqs -> {"absent", "WAITING", "PREFILLING", "RUNNING", "FINISHED"}]
         /\ prefix \in [Seqs -> Nat] /\ prefillPos \in [Seqs -> Nat] /\ outLen \in [Seqs -> Nat]
         /\ lastIdx \in Seq(Nat) /\ budget \in 0..MaxBatchTokens /\ budget \in Nat
         /\ numTokens \in [Seqs -> Nat] /\ live \subseteq Seqs /\ BMInv /\ BMTypeOK
         /\ batch \in Seq(Entries) /\ rows \in Seq(FlatRows)
         /\ req \in [Seqs -> [plen : Nat, maxNew : Nat, prio : Int]]
<1>1. BMInv /\ ProofTypes /\ SchedTypeOK /\ BMTypeOK /\ Queues
  BY DEF SchedIInv, ProofTypes, BMInv
<1>2. budget \in 0..MaxBatchTokens /\ budget \in Nat
  BY <1>1, BudgetAssumption DEF SchedTypeOK
<1>3. \A q \in {waiting, prefilling, running, finished, todo} : q \in Seq(Seqs) /\ IsInjective(q)
  BY <1>1 DEF SchedTypeOK, Queues
<1>4. live \subseteq Seqs /\ numTokens \in [Seqs -> Nat]
  BY <1>1 DEF BMTypeOK
<1> QED BY <1>1, <1>2, <1>3, <1>4 DEF SchedTypeOK, ProofTypes

\* The requests the queues hold are in the queues' states.
LEMMA QueueStates ==
  ASSUME SchedIInv
  PROVE  /\ \A r \in Range(waiting) : r \in Seqs /\ state[r] = "WAITING"
         /\ \A r \in Seqs : state[r] = "WAITING" => r \in Range(waiting)
         /\ \A r \in Seqs : r \in Range(prefilling) <=> state[r] = "PREFILLING"
         /\ \A r \in Seqs : r \in Range(running) <=> (state[r] = "RUNNING" \/ r \in Retiring)
         /\ \A r \in Seqs : r \in Range(finished) <=> (state[r] = "FINISHED" /\ r \notin Retiring)
         /\ \A r \in Retiring : r \in Seqs /\ state[r] = "FINISHED"
         /\ \A r \in live : /\ r \in Seqs
                           /\ \/ state[r] \in {"PREFILLING", "RUNNING"}
                              \/ r \in Retiring
                              \/ Importing(r)
         /\ \A r \in Seqs : state[r] \in {"PREFILLING", "RUNNING"} \/ r \in Retiring => r \in live
<1>1. /\ Range(waiting) = InState("WAITING") /\ Range(prefilling) = InState("PREFILLING")
      /\ Range(running) = InState("RUNNING") \cup Retiring
      /\ Range(finished) = InState("FINISHED") \ Retiring
      /\ Retiring \subseteq InState("FINISHED")
  BY DEF SchedIInv, Queues
<1>2. live = Range(prefilling) \cup Range(running) \cup (IF pc = "import" THEN {Head(todo)} ELSE {})
  BY DEF SchedIInv, TablesMatchQueues
<1>3. live \subseteq Seqs
  BY Types
<1> QED BY <1>1, <1>2, <1>3 DEF InState, Importing

\* The budget and what it is compared with are numbers.
LEMMA BudgetTypes ==
  ASSUME SchedIInv
  PROVE  /\ budget \in Nat /\ budget <= MaxBatchTokens /\ MaxBatchTokens \in Nat \ {0} /\ ChunkSize \in Nat \ {0}
         /\ Len(rows) \in Nat /\ Len(running) \in Nat /\ Len(todo) \in Nat
BY Types, BudgetAssumption, LenProperties

\* A stored token is inside the table.
LEMMA StoredPosition ==
  ASSUME SchedIInv, NEW r \in live, NEW p \in 0..(numTokens[r] - 1)
  PROVE  p \in 0..(TableCapacity(r) - 1) /\ p \in Nat /\ p < TableCapacity(r)
<1>1. numTokens[r] \in Nat /\ TableCapacity(r) \in Nat
  BY Types, CapacityNat
<1>2. numTokens[r] <= TableCapacity(r)
  BY Types DEF BMInv, Capacity
<1> QED BY <1>1, <1>2

\* The entries of the batch.
LEMMA EntryTypes ==
  ASSUME SchedIInv
  PROVE  /\ Len(batch) \in Nat /\ DOMAIN batch = 1..Len(batch) /\ Batched \subseteq Seqs
         /\ \A i \in DOMAIN batch :
              batch[i].req \in Seqs /\ batch[i].q \in Nat /\ batch[i].ctx \in Nat /\ batch[i].sampled \in BOOLEAN
<1>1. batch \in Seq(Entries)
  BY Types
<1>2. Len(batch) \in Nat /\ DOMAIN batch = 1..Len(batch)
  BY <1>1, LenProperties
<1>3. ASSUME NEW i \in DOMAIN batch
      PROVE  batch[i].req \in Seqs /\ batch[i].q \in Nat /\ batch[i].ctx \in Nat /\ batch[i].sampled \in BOOLEAN
  <2>1. batch[i] \in Entries
    BY <1>1, <1>2, ElementOfSeq
  <2> QED BY <2>1 DEF Entries
<1> QED BY <1>2, <1>3 DEF Batched

\* A step that leaves requests and allocator alone keeps what relates only those.
LEMMA Frame ==
  ASSUME SchedIInv, UNCHANGED <<reqVars, bmVars>>
  PROVE  BMInv' /\ RequestsIsolated' /\ Progress' /\ BMTypeOK'
<1> USE DEF SchedIInv, reqVars, bmVars
<1>1. BMInv'
  BY NextInv
<1>2. RequestsIsolated'
  BY DEF RequestsIsolated, TableBlocks
<1>3. Progress'
  BY DEF Progress, Added, InState, TableCapacity
<1> QED BY <1>1, <1>2, <1>3 DEF BMInv

\* The empty batch.
LEMMA EmptyBatch ==
  ASSUME NEW metas, metas = <<>>
  PROVE  RowStart(metas, Len(metas) + 1) = 0 /\ DOMAIN metas = {} /\ Len(metas) = 0
BY RowStartNext

\* step() begins with an empty batch and the running requests to visit.
LEMMA StartStepKeeps ==
  ASSUME SchedIInv, StartStep
  PROVE  SchedIInv' /\ UNCHANGED bmVars
<1> USE DEF StartStep, queueVars
<1>1. BMInv' /\ RequestsIsolated' /\ Progress' /\ BMTypeOK' /\ UNCHANGED <<reqVars, bmVars>>
  BY Frame
<1>2. ProofTypes'
  <2>1. batch' \in Seq(Entries) /\ rows' \in Seq(FlatRows) /\ lastIdx' \in Seq(Nat) /\ todo' \in Seq(Seqs)
    BY Types
  <2>2. budget' \in 0..MaxBatchTokens
    BY BudgetAssumption
  <2> QED BY <1>1, <2>1, <2>2 DEF SchedIInv, ProofTypes, SchedTypeOK, reqVars
<1>3. Queues'
  BY <1>1 DEF SchedIInv, Queues, InState, Retiring, reqVars
<1>4. TablesMatchQueues'
  BY <1>1 DEF SchedIInv, TablesMatchQueues, bmVars
<1>5. Visits'
  BY DEF Visits
<1>6. Len(running) \in Nat /\ Len(running) <= MaxBatchTokens
  BY Types, LenProperties DEF SchedIInv, Budgets
<1>7. Budgets'
  BY <1>6, BudgetAssumption DEF Budgets, InLoops
<1>8. DOMAIN batch' = {} /\ Picks' = {} /\ Emitting' = {} /\ Batched' = {} /\ DOMAIN rows' = {}
  BY DEF Picks, Emitting, Batched
<1>9. Entered'
  BY <1>8 DEF Entered
<1>10. Lengths'
  BY <1>1, <1>8 DEF SchedIInv, Lengths, InState, reqVars, bmVars
<1>11. RowsLaidOut'
  <2>1. RowStart(<<>>, Len(<<>>) + 1) = 0
    BY EmptyBatch
  <2> QED BY <1>8, <2>1 DEF RowsLaidOut
<1>12. RowsInTables' /\ LastRows'
  BY <1>8, FS_EmptySet DEF RowsInTables, LastRows
<1>13. Stocked'
  BY <1>1 DEF SchedIInv, Stocked, Importing, Pending, InCache, bmVars
<1> QED BY <1>1, <1>2, <1>3, <1>4, <1>5, <1>7, <1>9, <1>10, <1>11, <1>12, <1>13 DEF SchedIInv

\* An exception out of the decode loop leaves everything as it was.
LEMMA DecodeRaisesKeeps ==
  ASSUME SchedIInv, DecodeRaises
  PROVE  SchedIInv' /\ UNCHANGED bmVars
<1> USE DEF DecodeRaises, queueVars, stepVars
<1>1. BMInv' /\ RequestsIsolated' /\ Progress' /\ BMTypeOK' /\ UNCHANGED <<reqVars, bmVars>>
  BY Frame
<1>2. ProofTypes'
  BY <1>1 DEF SchedIInv, ProofTypes, SchedTypeOK, reqVars
<1>3. Queues'
  BY <1>1 DEF SchedIInv, Queues, InState, Retiring, reqVars
<1>4. TablesMatchQueues'
  BY <1>1 DEF SchedIInv, TablesMatchQueues, bmVars
<1>5. Budgets'
  BY DEF SchedIInv, Budgets, InLoops
<1>6. Visits' /\ Entered' /\ Lengths' /\ RowsLaidOut' /\ RowsInTables' /\ LastRows' /\ Stocked'
  BY DEF Visits, Entered, Lengths, RowsLaidOut, RowsInTables, LastRows, Stocked, HasBatch
<1> QED BY <1>1, <1>2, <1>3, <1>4, <1>5, <1>6 DEF SchedIInv

\* The slots of the batch are where they were while the tables are.
LEMMA BatchStays ==
  ASSUME SchedIInv, HasBatch, HasBatch', UNCHANGED <<bmVars, batch, rows, lastIdx>>
  PROVE  /\ RowsLaidOut' /\ RowsInTables' /\ LastRows'
         /\ UNCHANGED <<Picks, Emitting, Batched>>
<1> USE DEF SchedIInv, bmVars
<1>1. UNCHANGED <<Picks, Emitting, Batched>>
  BY DEF Picks, Emitting, Batched
<1>2. RowsLaidOut'
  BY DEF RowsLaidOut
<1>3. RowsInTables'
  BY <1>1 DEF RowsInTables
<1>4. LastRows'
  BY <1>1 DEF LastRows
<1> QED BY <1>1, <1>2, <1>3, <1>4

\* Sorting the waiting queue keeps its requests.
LEMMA SortedProperties ==
  ASSUME NEW q \in Seq(Seqs), IsInjective(q), NEW s \in Sorted(q)
  PROVE  /\ s \in Seq(Seqs) /\ Len(s) = Len(q) /\ Range(s) = Range(q) /\ IsInjective(s)
         /\ \A i, j \in 1..Len(s) : i < j => AdmitBefore(s[i], s[j])
<1>1. DOMAIN q = 1..Len(q) /\ Len(q) \in Nat /\ Range(q) \subseteq Seqs
  BY RangeOfSeq, LenProperties
<1>2. s \in Bijection(1..Len(q), Range(q))
  BY <1>1 DEF Sorted
<1>3. s \in [1..Len(q) -> Range(q)] /\ DOMAIN s = 1..Len(q)
  BY <1>2 DEF Bijection, Surjection, Injection
<1>4. s \in Seq(Seqs) /\ Len(s) = Len(q)
  <2>1. s \in [1..Len(q) -> Seqs]
    BY <1>1, <1>3
  <2> QED BY <1>1, <2>1, ListFromFunction
<1>5. Range(s) = Range(q)
  <2>1. \A t \in Range(q) : \E i \in 1..Len(q) : s[i] = t
    BY <1>2, <1>3 DEF Bijection, Surjection
  <2> QED BY <1>3, <2>1 DEF Range
<1>6. IsInjective(s)
  BY <1>2, <1>3 DEF Bijection, Injection, IsInjective
<1>7. \A i, j \in 1..Len(s) : i < j => AdmitBefore(s[i], s[j])
  BY <1>1, <1>4 DEF Sorted
<1> QED BY <1>4, <1>5, <1>6, <1>7

\* The loop over the prompts visits the partly prefilled requests, then the waiting
\* ones in order.
LEMMA QueuePrefillsKeeps ==
  ASSUME SchedIInv, QueuePrefills
  PROVE  SchedIInv' /\ UNCHANGED bmVars
<1> USE DEF QueuePrefills
<1>1. BMInv' /\ RequestsIsolated' /\ Progress' /\ BMTypeOK' /\ UNCHANGED <<reqVars, bmVars>>
  BY Frame
<1>2. HasBatch /\ HasBatch' /\ InLoops /\ InLoops'
  BY DEF HasBatch, InLoops
<1>3. RowsLaidOut' /\ RowsInTables' /\ LastRows' /\ UNCHANGED <<Picks, Emitting, Batched>>
  BY <1>1, <1>2, BatchStays
<1>4. todo = <<>> /\ Len(running) = Len(rows) /\ Len(running) <= MaxBatchTokens
  <2>1. budget + Len(rows) = MaxBatchTokens /\ Len(running) = Len(todo) + Len(rows) /\ Len(running) <= MaxBatchTokens
    BY <1>2 DEF SchedIInv, Budgets
  <2>2. Len(todo) \in Nat /\ Len(rows) \in Nat /\ budget \in Nat /\ Len(running) \in Nat
    BY Types, LenProperties
  <2>3. Len(todo) = 0
    <3>1. CASE todo = <<>>
      BY <3>1
    <3>2. CASE budget < 1
      BY <2>1, <2>2, <3>2, BudgetAssumption
    <3> QED BY <3>1, <3>2
  <2>4. todo = <<>>
    BY <2>3, Types, EmptySeq
  <2> QED BY <2>1, <2>2, <2>3, <2>4
<1>5. /\ waiting' \in Seq(Seqs) /\ Range(waiting') = Range(waiting) /\ IsInjective(waiting')
      /\ \A i, j \in 1..Len(waiting') : i < j => AdmitBefore(waiting'[i], waiting'[j])
  BY Types, SortedProperties
<1>6. prefilling \in Seq(Seqs) /\ IsInjective(prefilling) /\ Range(prefilling) \cap Range(waiting) = {}
  BY Types, QueueStates
<1>7. todo' \in Seq(Seqs) /\ Range(todo') = Range(prefilling) \cup Range(waiting) /\ IsInjective(todo')
  BY <1>5, <1>6, ConcatDisjoint
<1>8. ProofTypes'
  BY <1>1, <1>5, <1>7 DEF SchedIInv, ProofTypes, SchedTypeOK, reqVars
<1>9. Queues'
  BY <1>1, <1>5, <1>7 DEF SchedIInv, Queues, InState, Retiring, reqVars
<1>10. TablesMatchQueues'
  BY <1>1 DEF SchedIInv, TablesMatchQueues, bmVars
<1>11. Visits'
  <2>1. Range(todo') \subseteq (InState("WAITING") \cup InState("PREFILLING"))'
    BY <1>1, <1>7 DEF SchedIInv, Queues, InState, reqVars
  <2>2. ASSUME NEW i \in DOMAIN todo', NEW j \in DOMAIN todo', i < j,
               state'[todo'[i]] = "WAITING", state'[todo'[j]] = "WAITING"
        PROVE  AdmitBefore(todo[i], todo[j])'
    <3> DEFINE k == Len(prefilling)
               w == waiting'
    <3>1. k \in Nat /\ Len(w) \in Nat /\ DOMAIN (prefilling \o w) = 1..(k + Len(w))
      BY <1>5, <1>6, LenProperties, ConcatProperties
    <3>2. \A x \in 1..k : prefilling[x] \in Range(prefilling)
      BY <1>6, LenProperties, RangeEquality
    <3>3. \A x \in 1..(k + Len(w)) : todo'[x] = IF x <= k THEN prefilling[x] ELSE w[x - k]
      BY <1>5, <1>6, ConcatProperties
    <3>4. i \in 1..(k + Len(w)) /\ j \in 1..(k + Len(w))
      BY <3>1
    <3>5. state[todo'[i]] = "WAITING" /\ state[todo'[j]] = "WAITING"
      BY <1>1, <2>2 DEF reqVars
    <3>6. \A x \in 1..k : state[prefilling[x]] = "PREFILLING"
      BY <3>2, QueueStates, RangeOfSeq, <1>6
    <3> HIDE DEF k, w
    <3>7. i > k /\ j > k
      BY <3>1, <3>3, <3>4, <3>5, <3>6
    <3>8. i - k \in 1..Len(w) /\ j - k \in 1..Len(w) /\ i - k < j - k /\ ~(i <= k) /\ ~(j <= k)
      <4>1. i \in Int /\ j \in Int /\ i < j /\ i <= k + Len(w) /\ j <= k + Len(w)
        BY <2>2, <3>1, <3>4
      <4> QED BY <3>1, <3>7, <4>1
    <3>10. todo'[i] = w[i - k] /\ todo'[j] = w[j - k]
      BY <3>3, <3>4, <3>8
    <3>9. AdmitBefore(todo'[i], todo'[j])
      BY <1>5, <3>8, <3>10 DEF w
    <3> QED BY <1>1, <3>9 DEF AdmitBefore, reqVars
  <2> QED BY <1>1, <1>7, <1>5, <2>1, <2>2 DEF Visits
<1>12. Budgets'
  BY <1>4, Types, LenProperties DEF SchedIInv, Budgets, InLoops
<1>13. Entered'
  <2>0. Range(todo) = {}
    BY <1>4 DEF Range
  <2>1. Range(running) = Emitting /\ \A i \in DOMAIN batch : batch[i].sampled
    BY <1>2, <2>0 DEF SchedIInv, Entered
  <2>2. \A i \in DOMAIN batch : state[batch[i].req] = "RUNNING"
    BY <1>2, <2>1 DEF SchedIInv, Entered
  <2>3. Range(todo') \cap Batched' = {}
    <3>1. \A r \in Range(todo') : r \in Seqs /\ state[r] \in {"WAITING", "PREFILLING"}
      BY <1>6, <1>7, QueueStates, RangeOfSeq
    <3>2. \A r \in Batched : state[r] = "RUNNING"
      BY <2>2 DEF Batched
    <3> QED BY <1>3, <3>1, <3>2
  <2> QED BY <1>1, <1>2, <1>3, <2>1, <2>3 DEF SchedIInv, Entered, reqVars, bmVars
<1>14. Lengths'
  BY <1>1, <1>2, <1>3 DEF SchedIInv, Lengths, reqVars, bmVars
<1>15. Stocked'
  BY <1>1 DEF SchedIInv, Stocked, Importing, Pending, InCache, bmVars
<1> QED BY <1>1, <1>3, <1>8, <1>9, <1>10, <1>11, <1>12, <1>13, <1>14, <1>15 DEF SchedIInv

\* The loops end, and with them the step when the batch is empty.
LEMMA LeaveLoopsKeeps ==
  ASSUME SchedIInv, pc = "prefill", LeaveLoops, UNCHANGED <<reqVars, queueVars, kv, bmVars>>
  PROVE  SchedIInv' /\ UNCHANGED bmVars
<1> USE DEF LeaveLoops, queueVars
<1>1. BMInv' /\ RequestsIsolated' /\ Progress' /\ BMTypeOK'
  BY Frame
<1>2. HasBatch /\ InLoops /\ ~InLoops' /\ pc' \in {"idle", "forward"}
  BY DEF HasBatch, InLoops
<1>3. ProofTypes'
  <2>1. todo' \in Seq(Seqs) /\ budget' \in 0..MaxBatchTokens
    BY BudgetAssumption
  <2> QED BY <1>1, <2>1 DEF SchedIInv, ProofTypes, SchedTypeOK, reqVars
<1>4. Queues'
  <2>1. IsInjective(todo')
    BY DEF IsInjective
  <2> QED BY <2>1 DEF SchedIInv, Queues, InState, Retiring, reqVars
<1>5. TablesMatchQueues'
  BY DEF SchedIInv, TablesMatchQueues, bmVars
<1>6. Visits' /\ Budgets'
  BY <1>2 DEF SchedIInv, Visits, Budgets
<1>7. RowsLaidOut' /\ RowsInTables' /\ LastRows'
  <2>1. CASE HasBatch'
    BY <1>2, <2>1, BatchStays
  <2>2. CASE ~HasBatch'
    BY <2>2 DEF RowsLaidOut, RowsInTables, LastRows
  <2> QED BY <2>1, <2>2
<1>8. UNCHANGED <<Picks, Emitting, Batched>>
  BY DEF Picks, Emitting, Batched
<1>9. Range(running) = Emitting
  BY <1>2 DEF SchedIInv, Entered
<1>10. Entered'
  BY <1>2, <1>8, <1>9 DEF SchedIInv, Entered, reqVars, bmVars
<1>11. pc' = "idle" => InState("RUNNING") = {} /\ DOMAIN rows = {}
  <2>1. SUFFICES ASSUME pc' = "idle" PROVE InState("RUNNING") = {} /\ DOMAIN rows = {}
    OBVIOUS
  <2>2. batch = <<>>
    BY <2>1
  <2>3. Emitting = {}
    BY <2>2 DEF Emitting, Picks
  <2>4. InState("RUNNING") = {}
    BY <1>9, <2>3, QueueStates DEF InState
  <2>5. RowStart(batch, Len(batch) + 1) = 0
    BY <2>2, EmptyBatch
  <2>6. Len(rows) = 0
    BY <1>2, <2>5 DEF SchedIInv, RowsLaidOut
  <2>7. DOMAIN rows = {}
    BY <2>6, Types, LenProperties
  <2> QED BY <2>4, <2>7
<1>12. Lengths'
  BY <1>2, <1>8, <1>11 DEF SchedIInv, Lengths, InState, reqVars, bmVars
<1>13. Stocked'
  BY <1>2, <1>11 DEF SchedIInv, Stocked, Importing, Pending, InCache, bmVars
<1> QED BY <1>1, <1>3, <1>4, <1>5, <1>6, <1>7, <1>10, <1>12, <1>13 DEF SchedIInv

\* An admission that fails ends the loops.
LEMMA AdmitFailsKeeps ==
  ASSUME SchedIInv, AdmitFails
  PROVE  SchedIInv' /\ UNCHANGED bmVars
BY LeaveLoopsKeeps DEF AdmitFails

\* So does the end of the list or of the budget.
LEMMA EndPrefillKeeps ==
  ASSUME SchedIInv, EndPrefill
  PROVE  SchedIInv' /\ UNCHANGED bmVars
BY LeaveLoopsKeeps DEF EndPrefill

\* What is stored is again a cache of tokens.
LEMMA StoredType ==
  ASSUME SchedTypeOK, NEW W, \A w \in W : w.req \in Seqs /\ w.pos \in Nat,
         NEW b \in Blocks, NEW o \in 0..(BlockSize - 1)
  PROVE  \/ Stored(W)[b][o] = NoToken
         \/ Stored(W)[b][o].req \in Seqs /\ Stored(W)[b][o].pos \in Nat
<1> DEFINE hits == {w \in W : w.slot = <<b, o>>}
           hit == CHOOSE w \in hits : TRUE
<1>1. Stored(W)[b][o] = IF hits = {} THEN kv[b][o] ELSE Tag(hit.req, hit.pos)
  BY DEF Stored
<1>2. kv[b][o] = NoToken \/ (kv[b][o].req \in Seqs /\ kv[b][o].pos \in Nat)
  BY DEF SchedTypeOK
<1>3. hits # {} => hit \in W
  OBVIOUS
<1> HIDE DEF hits, hit
<1> QED BY <1>1, <1>2, <1>3 DEF Tag

\* Every row is a record to be stored at a slot of its request.
LEMMA RowsSlotted ==
  ASSUME SchedIInv, HasBatch
  PROVE  /\ \A w \in Range(rows) : Slotted(w) /\ w.req \in Seqs /\ w.pos \in Nat
         /\ \A k \in DOMAIN rows : rows[k] \in Range(rows)
         /\ \A w \in Range(rows) : \E k \in DOMAIN rows : w = rows[k]
<1>1. \A k \in DOMAIN rows : rows[k] \in Range(rows)
  BY DEF Range
<1>2. \A w \in Range(rows) : \E k \in DOMAIN rows : w = rows[k]
  BY DEF Range
<1>3. ASSUME NEW k \in DOMAIN rows
      PROVE  Slotted(rows[k]) /\ rows[k].req \in Seqs /\ rows[k].pos \in Nat
  <2>1. rows[k] \in FlatRows
    BY Types, ElementOfSeq, LenProperties
  <2>2. /\ rows[k].req \in live /\ rows[k].pos < numTokens[rows[k].req]
        /\ rows[k].slot = Slot(blockIds[rows[k].req], rows[k].pos)
    BY DEF SchedIInv, RowsInTables
  <2>3. numTokens[rows[k].req] <= TableCapacity(rows[k].req)
    BY <2>2, Types DEF BMInv, Capacity
  <2>4. rows[k].req \in Seqs /\ rows[k].pos \in Nat
    BY <2>1 DEF FlatRows
  <2>5. numTokens[rows[k].req] \in Nat /\ TableCapacity(rows[k].req) \in Nat
    BY <2>2, <2>4, Types, CapacityNat
  <2>6. rows[k].pos \in 0..(TableCapacity(rows[k].req) - 1)
    BY <2>2, <2>3, <2>4, <2>5
  <2> QED BY <2>2, <2>4, <2>6 DEF Slotted
<1> QED BY <1>1, <1>2, <1>3

\* Once the rows are stored, every token that a table counts is in the cache.
LEMMA ForwardStores ==
  ASSUME SchedIInv, pc = "forward", NEW r \in live, NEW p \in 0..(numTokens[r] - 1)
  PROVE  Stored(Range(rows))[Slot(blockIds[r], p)[1]][Slot(blockIds[r], p)[2]] = Tag(r, p)
<1>1. HasBatch
  BY DEF HasBatch
<1>2. /\ \A w \in Range(rows) : Slotted(w)
      /\ \A k \in DOMAIN rows : rows[k] \in Range(rows)
  BY <1>1, RowsSlotted
<1>3. p \in 0..(TableCapacity(r) - 1)
  BY StoredPosition
<1>4. Stored(Range(rows))[Slot(blockIds[r], p)[1]][Slot(blockIds[r], p)[2]]
         = IF \E w \in Range(rows) : w.req = r /\ w.pos = p THEN Tag(r, p)
           ELSE kv[Slot(blockIds[r], p)[1]][Slot(blockIds[r], p)[2]]
  <2>1. RequestsIsolated /\ BMInv
    BY DEF SchedIInv
  <2> QED BY <1>2, <1>3, <2>1, StoredAt
<1>5. Pending(r, p) \/ InCache(r, p)
  BY DEF SchedIInv, Stocked, Importing
<1>6. CASE Pending(r, p)
  <2>1. \E w \in Range(rows) : w.req = r /\ w.pos = p
    BY <1>2, <1>6 DEF Pending
  <2> QED BY <1>4, <2>1
<1>7. CASE InCache(r, p)
  BY <1>4, <1>7 DEF InCache
<1> QED BY <1>5, <1>6, <1>7

\* The forward pass stores the pending rows and nothing else.
LEMMA ForwardKeeps ==
  ASSUME SchedIInv, Forward
  PROVE  SchedIInv' /\ UNCHANGED bmVars
<1> USE DEF Forward, queueVars
<1>1. BMInv' /\ RequestsIsolated' /\ Progress' /\ BMTypeOK' /\ UNCHANGED <<reqVars, bmVars>>
  BY Frame
<1>2. HasBatch /\ ~InLoops' /\ pc' \in {"idle", "sample"} /\ ~InLoops
  BY DEF HasBatch, InLoops
<1>3. /\ \A w \in Range(rows) : Slotted(w) /\ w.req \in Seqs /\ w.pos \in Nat
      /\ \A k \in DOMAIN rows : rows[k] \in Range(rows)
      /\ \A w \in Range(rows) : \E k \in DOMAIN rows : w = rows[k]
  BY <1>2, RowsSlotted
<1>4. /\ batch' \in Seq(Entries) /\ rows' \in Seq(FlatRows) /\ lastIdx' \in Seq(Nat)
      /\ Len(rows') <= MaxBatchTokens
  <2>1. Len(rows) <= MaxBatchTokens
    BY DEF SchedIInv, Budgets
  <2> QED BY <2>1, Types, BudgetAssumption DEF DropBatch
<1>5. ProofTypes'
  <2>1. \A b \in Blocks : \A o \in 0..(BlockSize - 1) :
          kv'[b][o] = NoToken \/ (kv'[b][o].req \in Seqs /\ kv'[b][o].pos \in Nat)
    <3>1. SchedTypeOK
      BY DEF SchedIInv, ProofTypes
    <3> QED BY <1>3, <3>1, StoredType
  <2> QED BY <1>1, <1>2, <1>4, <2>1 DEF SchedIInv, ProofTypes, SchedTypeOK, reqVars
<1>6. Queues'
  BY <1>1, <1>2 DEF SchedIInv, Queues, InState, Retiring, reqVars
<1>7. TablesMatchQueues'
  BY <1>1, <1>2 DEF SchedIInv, TablesMatchQueues, bmVars
<1>8. Visits' /\ Budgets'
  BY <1>2, <1>4 DEF SchedIInv, Visits, Budgets, InLoops
<1>9. Range(running) = Emitting
  BY <1>2 DEF SchedIInv, Entered
<1>10. ASSUME pc' = "sample" PROVE RowsLaidOut' /\ RowsInTables' /\ LastRows' /\ Entered' /\ Lengths'
  <2>1. UNCHANGED <<batch, rows, lastIdx>> /\ HasBatch'
    BY <1>10 DEF HasBatch
  <2>2. RowsLaidOut' /\ RowsInTables' /\ LastRows' /\ UNCHANGED <<Picks, Emitting, Batched>>
    BY <1>1, <1>2, <2>1, BatchStays
  <2>3. Entered'
    BY <1>1, <1>2, <1>10, <2>1, <2>2, <1>9 DEF SchedIInv, Entered, reqVars, bmVars, InLoops
  <2>4. Lengths'
    BY <1>1, <1>2, <1>10, <2>2 DEF SchedIInv, Lengths, reqVars, bmVars
  <2> QED BY <2>2, <2>3, <2>4
<1>11. ASSUME pc' = "idle" PROVE RowsLaidOut' /\ RowsInTables' /\ LastRows' /\ Entered' /\ Lengths'
  <2>1. ~HasBatch' /\ lastIdx = <<>>
    BY <1>11 DEF HasBatch
  <2>2. Picks = {}
    <3>1. Cardinality(Picks) = 0
      BY <1>2, <2>1 DEF SchedIInv, LastRows
    <3>2. IsFiniteSet(Picks)
      <4>1. Picks \in SUBSET (1..Len(batch)) /\ Len(batch) \in Nat
        BY Types, LenProperties DEF Picks
      <4> QED BY <4>1, LastIndex
    <3> QED BY <3>1, <3>2, FS_EmptySet
  <2>3. Emitting = {}
    BY <2>2 DEF Emitting
  <2>4. InState("RUNNING") = {}
    BY <1>9, <2>3, QueueStates DEF InState
  <2>5. RowsLaidOut' /\ RowsInTables' /\ LastRows' /\ Entered'
    BY <2>1 DEF RowsLaidOut, RowsInTables, LastRows, Entered
  <2>6. Lengths'
    BY <1>1, <2>1, <2>4 DEF Lengths, InState, reqVars
  <2> QED BY <2>5, <2>6
<1>12. Stocked'
  <2>1. SUFFICES ASSUME NEW r \in live, NEW p \in 0..(numTokens[r] - 1)
                 PROVE  InCache(r, p)'
    BY <1>1 DEF Stocked, bmVars
  <2>2. Stored(Range(rows))[Slot(blockIds[r], p)[1]][Slot(blockIds[r], p)[2]] = Tag(r, p)
    BY ForwardStores
  <2>3. Slot(blockIds[r], p)' = Slot(blockIds[r], p)
    BY <1>1 DEF bmVars
  <2> QED BY <2>2, <2>3 DEF InCache
<1> QED BY <1>1, <1>2, <1>5, <1>6, <1>7, <1>8, <1>10, <1>11, <1>12 DEF SchedIInv

\* The request that a loop visits, and those it visits afterwards.
LEMMA Visited ==
  ASSUME SchedIInv, todo # <<>>
  PROVE  /\ \E r \in Seqs : r = Head(todo) /\ r \in Range(todo)
         /\ Tail(todo) \in Seq(Seqs) /\ IsInjective(Tail(todo)) /\ Range(Tail(todo)) = Range(todo) \ {Head(todo)}
         /\ Len(Tail(todo)) = Len(todo) - 1
         /\ \A i \in 1..(Len(todo) - 1) : Tail(todo)[i] = todo[i + 1]
<1>1. todo \in Seq(Seqs) /\ IsInjective(todo)
  BY Types
<1>2. Head(todo) \in Seqs /\ Range(todo) = {Head(todo)} \cup Range(Tail(todo))
  BY <1>1, HeadAndTail
<1> QED BY <1>1, <1>2, HeadAndTail

-----------------------------------------------------------------------------
\* Requests come, are admitted and retired.

\* A new request joins the waiting queue and nothing else.
LEMMA AddRequestKeeps ==
  ASSUME SchedIInv, NEW r \in Seqs, AddRequest(r)
  PROVE  SchedIInv' /\ UNCHANGED bmVars
<1> USE DEF AddRequest, stepVars
<1>0. /\ pc = "idle" /\ pc' = "idle" /\ state[r] = "absent"
      /\ state' = [state EXCEPT ![r] = "WAITING"] /\ waiting' = Append(waiting, r)
      /\ UNCHANGED <<prefillPos, outLen, prefilling, running, finished, todo, batch, rows, lastIdx, budget, kv, bmVars>>
  OBVIOUS
<1>a. PICK plen \in PromptLens, maxNew \in MaxNews, prio \in Priorities :
        \E k \in {0} \cup {n \in PrefixLens : 0 < n /\ n < plen} :
          /\ req' = [req EXCEPT ![r] = [plen |-> plen, maxNew |-> maxNew, prio |-> prio]]
          /\ prefix' = [prefix EXCEPT ![r] = k]
  OBVIOUS
<1>1. PICK k \in {0} \cup {n \in PrefixLens : 0 < n /\ n < plen} :
        /\ req' = [req EXCEPT ![r] = [plen |-> plen, maxNew |-> maxNew, prio |-> prio]]
        /\ prefix' = [prefix EXCEPT ![r] = k]
  BY <1>a
<1>2. plen \in Nat /\ k \in Nat /\ k < plen /\ maxNew \in Nat /\ prio \in Int
  BY RequestAssumption
<1> HIDE DEF AddRequest
<1>3. BMInv' /\ BMTypeOK' /\ RequestsIsolated'
  <2>1. BMInv'
    BY <1>0, NextInv DEF SchedIInv
  <2> QED BY <1>0, <2>1 DEF SchedIInv, BMInv, bmVars, RequestsIsolated, TableBlocks
<1>4. /\ r \notin Range(waiting) /\ r \notin live
      /\ \A q \in live : state[q] # "WAITING" /\ state[q] # "absent"
  BY <1>0, QueueStates DEF Retiring, Importing
<1>5. /\ waiting' \in Seq(Seqs) /\ IsInjective(waiting') /\ Range(waiting') = Range(waiting) \cup {r}
  BY <1>0, <1>4, Types, AppendDistinct
<1>6. \A q \in Seqs : /\ state'[q] = IF q = r THEN "WAITING" ELSE state[q]
                      /\ req'[q] = IF q = r THEN [plen |-> plen, maxNew |-> maxNew, prio |-> prio] ELSE req[q]
                      /\ prefix'[q] = IF q = r THEN k ELSE prefix[q]
  BY <1>0, <1>1, Types
<1>7. ProofTypes'
  <2>1. /\ req' \in [Seqs -> [plen : Nat, maxNew : Nat, prio : Int]] /\ prefix' \in [Seqs -> Nat]
        /\ state' \in [Seqs -> {"absent", "WAITING", "PREFILLING", "RUNNING", "FINISHED"}]
    BY <1>0, <1>1, <1>2, Types
  <2>2. \A q \in {waiting', prefilling', running', finished', todo'} : q \in Seq(Seqs)
    BY <1>0, <1>5, Types
  <2>3. /\ lastIdx' \in Seq(Nat) /\ budget' \in 0..MaxBatchTokens /\ batch' \in Seq(Entries) /\ rows' \in Seq(FlatRows)
        /\ prefillPos' \in [Seqs -> Nat] /\ outLen' \in [Seqs -> Nat] /\ pc' = "idle"
    BY <1>0, Types
  <2>4. \A b \in Blocks : \A o \in 0..(BlockSize - 1) :
          kv'[b][o] = NoToken \/ (kv'[b][o].req \in Seqs /\ kv'[b][o].pos \in Nat)
    BY <1>0 DEF SchedIInv, ProofTypes, SchedTypeOK
  <2> QED BY <1>3, <2>1, <2>2, <2>3, <2>4 DEF ProofTypes, SchedTypeOK
<1>8. Queues'
  <2>1. /\ InState("WAITING")' = InState("WAITING") \cup {r} /\ Retiring' = Retiring
        /\ InState("PREFILLING")' = InState("PREFILLING") /\ InState("RUNNING")' = InState("RUNNING")
        /\ InState("FINISHED")' = InState("FINISHED")
    BY <1>0, <1>6 DEF InState, Retiring
  <2> QED BY <1>0, <1>5, <2>1 DEF SchedIInv, Queues
<1>9. TablesMatchQueues'
  BY <1>0 DEF SchedIInv, TablesMatchQueues, bmVars
<1>10. Progress'
  <2>1. \A q \in Added' : req'[q].plen \in PromptLens /\ prefix'[q] < req'[q].plen
    BY <1>0, <1>2, <1>6 DEF SchedIInv, Progress, Added
  <2>2. /\ \A q \in (InState("WAITING") \cup InState("PREFILLING") \cup InState("absent"))' : outLen'[q] = 0
        /\ \A q \in (InState("WAITING") \cup InState("absent"))' : prefillPos'[q] = 0
    BY <1>0, <1>6 DEF SchedIInv, Progress, InState
  <2>3. \A q \in InState("PREFILLING")' : numTokens'[q] = prefillPos'[q] /\ prefillPos'[q] < req'[q].plen
    BY <1>0, <1>6 DEF SchedIInv, Progress, InState, bmVars
  <2>4. \A q \in live' : state'[q] \in {"WAITING", "PREFILLING"} => req'[q].plen <= TableCapacity(q)'
    BY <1>0, <1>4, <1>6, Types DEF SchedIInv, Progress, TableCapacity, bmVars
  <2> QED BY <2>1, <2>2, <2>3, <2>4 DEF Progress
<1>11. Visits' /\ Budgets' /\ Entered' /\ RowsLaidOut' /\ RowsInTables' /\ LastRows'
  BY <1>0 DEF SchedIInv, Visits, Budgets, Entered, RowsLaidOut, RowsInTables, LastRows, HasBatch, InLoops
<1>12. Lengths'
  BY <1>0, <1>6 DEF SchedIInv, Lengths, HasBatch, InState, bmVars
<1>13. Stocked'
  BY <1>0 DEF SchedIInv, Stocked, Importing, Pending, InCache, bmVars
<1> QED BY <1>0, <1>3, <1>7, <1>8, <1>9, <1>10, <1>11, <1>12, <1>13 DEF SchedIInv

\* A finished request leaves the running queue and gives its table back.
LEMMA RetireKeeps ==
  ASSUME SchedIInv, Retire
  PROVE  SchedIInv' /\ BMNext
<1> DEFINE r == Head(todo)
<1>0. /\ pc = "retire" /\ running' = RemoveFirst(running, r) /\ finished' = Append(finished, r) /\ Free(r)
      /\ todo' = Tail(todo) /\ pc' = (IF Len(todo) = 1 THEN "idle" ELSE "retire")
      /\ UNCHANGED <<req, state, prefix, prefillPos, outLen, waiting, prefilling, batch, rows, lastIdx, budget, kv>>
  BY DEF Retire, reqVars
<1>1. todo # <<>>
  BY <1>0 DEF SchedIInv, Visits
<1>2. /\ r \in Seqs /\ todo' \in Seq(Seqs) /\ IsInjective(todo') /\ Len(todo') = Len(todo) - 1
      /\ Range(todo) = {r} \cup Range(todo') /\ Range(todo') = Range(todo) \ {r}
  BY <1>0, <1>1, Types, HeadAndTail
<1> HIDE DEF r
<1>3. Retiring = Range(todo) /\ r \in Retiring /\ Retiring' = Retiring \ {r}
  <2>1. Len(todo) = 1 => Range(todo') = {}
    <3>1. Len(todo) = 1 => todo' = <<>>
      BY <1>2, EmptySeq
    <3> QED BY <3>1 DEF Range
  <2> QED BY <1>0, <1>2, <2>1 DEF Retiring
<1>4. /\ BMInv' /\ BMNext /\ live' = live \ {r} /\ \A q \in live' : TableSame(q)
  BY <1>0, <1>2, Types, FreeForClient
<1>5. /\ running' \in Seq(Seqs) /\ IsInjective(running') /\ Range(running') = Range(running) \ {r}
      /\ Len(running') = Len(running) - 1
  <2>1. r \in Range(running)
    BY <1>2, <1>3, QueueStates
  <2> QED BY <1>0, <2>1, Types, RemoveFirstProperties
<1>6. /\ finished' \in Seq(Seqs) /\ IsInjective(finished') /\ Range(finished') = Range(finished) \cup {r}
  <2>1. r \notin Range(finished)
    BY <1>2, <1>3, QueueStates
  <2> QED BY <1>0, <1>2, <2>1, Types, AppendDistinct
<1>7. ~HasBatch /\ ~HasBatch' /\ ~InLoops' /\ pc' \in {"idle", "retire"} /\ pc # "raised"
  BY <1>0 DEF HasBatch, InLoops
<1>8. ProofTypes'
  <2>1. BMTypeOK'
    BY <1>4 DEF BMInv
  <2> QED BY <1>0, <1>2, <1>5, <1>6, <1>7, <2>1 DEF SchedIInv, ProofTypes, SchedTypeOK
<1>9. Queues'
  <2>1. \A s : InState(s)' = InState(s)
    BY <1>0 DEF InState
  <2>2. /\ Range(waiting) = InState("WAITING") /\ Range(prefilling) = InState("PREFILLING")
        /\ Range(running) = InState("RUNNING") \cup Retiring
        /\ Range(finished) = InState("FINISHED") \ Retiring
        /\ Retiring \subseteq InState("FINISHED")
    BY DEF SchedIInv, Queues
  <2>3. r \notin InState("RUNNING")
    BY <1>3, <2>2 DEF InState
  <2>4. /\ Range(running') = InState("RUNNING")' \cup Retiring'
        /\ Range(finished') = InState("FINISHED")' \ Retiring'
        /\ Retiring' \subseteq InState("FINISHED")'
    BY <1>3, <1>5, <1>6, <2>1, <2>2, <2>3
  <2>5. \A q \in {waiting', prefilling', running', finished', todo'} : IsInjective(q)
    BY <1>0, <1>2, <1>5, <1>6, Types
  <2> QED BY <1>0, <2>1, <2>2, <2>4, <2>5 DEF Queues
<1>10. TablesMatchQueues'
  <2>1. r \notin Range(prefilling)
    BY <1>2, <1>3, QueueStates
  <2> QED BY <1>0, <1>4, <1>5, <1>7, <2>1 DEF SchedIInv, TablesMatchQueues
<1>11. RequestsIsolated'
  BY <1>4 DEF SchedIInv, RequestsIsolated, TableBlocks, TableSame
<1>12. Progress'
  <2>1. \A q \in InState("PREFILLING") : q \in live'
    BY <1>2, <1>3, <1>4, QueueStates DEF InState
  <2> QED BY <1>0, <1>4, <2>1 DEF SchedIInv, Progress, Added, InState, TableCapacity, TableSame
<1>13. Visits'
  <2>1. pc' = "retire" => todo' # <<>>
    <3>1. Len(todo) \in Nat /\ Len(todo) # 0
      BY <1>1, Types, LenProperties, EmptySeq
    <3>2. CASE Len(todo) = 1
      BY <1>0, <3>2
    <3>3. CASE Len(todo) # 1
      <4>1. Len(todo') # 0
        BY <1>2, <3>1, <3>3
      <4> QED BY <4>1
    <3> QED BY <3>2, <3>3
  <2> QED BY <1>7, <2>1 DEF Visits
<1>14. Budgets'
  <2>1. Len(running) \in Nat /\ Len(running') \in Nat /\ Len(running) <= MaxBatchTokens /\ Len(rows) <= MaxBatchTokens
    BY <1>5, Types, LenProperties DEF SchedIInv, Budgets
  <2> QED BY <1>0, <1>5, <1>7, <2>1, BudgetAssumption DEF Budgets
<1>15. Entered' /\ RowsLaidOut' /\ RowsInTables' /\ LastRows'
  BY <1>7 DEF Entered, RowsLaidOut, RowsInTables, LastRows
<1>16. Lengths'
  <2>1. \A q \in InState("RUNNING") : q \in live'
    BY <1>2, <1>3, <1>4, QueueStates DEF InState
  <2>2. InState("RUNNING")' = InState("RUNNING")
    BY <1>0 DEF InState
  <2> QED BY <1>0, <1>4, <1>7, <2>1, <2>2 DEF SchedIInv, Lengths, TableSame
<1>17. Stocked'
  BY <1>0, <1>4, <1>7 DEF SchedIInv, Stocked, Importing, Pending, InCache, TableSame
<1> QED BY <1>4, <1>8, <1>9, <1>10, <1>11, <1>12, <1>13, <1>14, <1>15, <1>16, <1>17 DEF SchedIInv

\* A waiting request gets a table for its prompt.
LEMMA AdmitKeeps ==
  ASSUME SchedIInv, Admit
  PROVE  SchedIInv' /\ BMNext
<1>1. PICK r \in Seqs : r = Head(todo) /\ r \in Range(todo)
  BY Visited DEF Admit
<1>0. /\ pc = "prefill" /\ todo # <<>> /\ budget >= 1 /\ pc' = "import"
      /\ state[r] = "WAITING" /\ Allocate(r, req[r].plen, <<>>)
      /\ UNCHANGED <<req, state, prefix, prefillPos, outLen, waiting, prefilling, running, finished,
                     todo, batch, rows, lastIdx, budget, kv>>
  BY <1>1 DEF Admit, reqVars, queueVars, stepVars
<1>2. req[r].plen \in PromptLens /\ prefix[r] < req[r].plen /\ prefillPos[r] = 0
  BY <1>0, <1>1 DEF SchedIInv, Progress, Added, InState
<1>3. req[r].plen \in TokenCounts /\ req[r].plen \in Nat
  <2>1. req[r].plen \in Nat
    BY <1>2, RequestAssumption
  <2>2. req[r].plen \in 0..req[r].plen
    BY <2>1
  <2> QED BY <1>2, <2>1, <2>2, ChunkCounts
<1>4. /\ BMInv' /\ BMNext /\ r \notin live /\ live' = live \cup {r} /\ \A q \in live : TableSame(q)
      /\ numTokens'[r] = req[r].plen /\ req[r].plen <= Len(blockIds'[r]) * BlockSize
      /\ Range(blockIds'[r]) \subseteq free
  <2>1. <<>> \in ReuseLists(req[r].plen)
    BY <1>3, EmptyReuse
  <2>2. Range(<<>>) = {}
    BY DEF Range
  <2>3. Range(blockIds'[r]) \ Range(<<>>) \subseteq free
    BY <1>0, <1>1, <1>3, <2>1, Types, AllocateForClient
  <2> QED BY <1>0, <1>1, <1>3, <2>1, <2>2, <2>3, Types, AllocateForClient
<1>5. /\ HasBatch /\ HasBatch' /\ InLoops /\ InLoops' /\ BMTypeOK'
  BY <1>0, <1>4 DEF HasBatch, InLoops, BMInv
<1>6. ProofTypes'
  BY <1>0, <1>5 DEF SchedIInv, ProofTypes, SchedTypeOK
<1>7. Queues'
  BY <1>0 DEF SchedIInv, Queues, InState, Retiring
<1>8. TablesMatchQueues'
  BY <1>0, <1>1, <1>4 DEF SchedIInv, TablesMatchQueues
<1>9. RequestsIsolated'
  <2>1. \A q \in live : TableBlocks(q) \cap free = {}
    BY Types, ListedNotFree
  <2>2. \A q \in live : TableBlocks(q)' = TableBlocks(q)
    BY <1>4 DEF TableBlocks, TableSame
  <2>3. TableBlocks(r)' \subseteq free
    BY <1>4 DEF TableBlocks
  <2> QED BY <1>4, <2>1, <2>2, <2>3 DEF SchedIInv, RequestsIsolated
<1>10. Progress'
  <2>1. \A q \in InState("PREFILLING") : q \in live
    BY QueueStates DEF InState
  <2>2. \A q \in live' : state'[q] \in {"WAITING", "PREFILLING"} => req'[q].plen <= TableCapacity(q)'
    BY <1>0, <1>4 DEF SchedIInv, Progress, TableCapacity, TableSame
  <2> QED BY <1>0, <1>4, <2>1, <2>2 DEF SchedIInv, Progress, Added, InState, TableSame
<1>11. Visits'
  BY <1>0, <1>1 DEF SchedIInv, Visits, InState, AdmitBefore
<1>12. Budgets'
  BY <1>0, <1>5 DEF SchedIInv, Budgets
<1>13. Picks' = Picks /\ Emitting' = Emitting /\ Batched' = Batched
  BY <1>0 DEF Picks, Emitting, Batched
<1>14. \A i \in DOMAIN batch : batch[i].req \in live
  BY <1>5, EntryTypes, QueueStates DEF SchedIInv, Entered
<1>15. Entered'
  BY <1>0, <1>4, <1>5, <1>13, <1>14 DEF SchedIInv, Entered, TableSame
<1>16. Lengths'
  <2>1. Emitting \subseteq live
    BY <1>14 DEF Emitting, Picks
  <2> QED BY <1>0, <1>4, <1>5, <1>13, <2>1 DEF SchedIInv, Lengths, TableSame
<1>17. RowsLaidOut'
  BY <1>0, <1>4, <1>5, <1>14 DEF SchedIInv, RowsLaidOut, TableSame
<1>18. RowsInTables'
  BY <1>0, <1>4, <1>5, <1>13 DEF SchedIInv, RowsInTables, TableSame
<1>19. LastRows'
  BY <1>0, <1>5, <1>13 DEF SchedIInv, LastRows
<1>20. Stocked'
  BY <1>0, <1>1, <1>4 DEF SchedIInv, Stocked, Importing, Pending, InCache, TableSame
<1> QED BY <1>4, <1>6, <1>7, <1>8, <1>9, <1>10, <1>11, <1>12, <1>15, <1>16, <1>17, <1>18, <1>19, <1>20
     DEF SchedIInv

\* An admitted request takes its prefix over and joins those that are being prefilled.
LEMMA ImportKeeps ==
  ASSUME SchedIInv, Import
  PROVE  SchedIInv' /\ BMNext
<1>1. pc = "import" /\ todo # <<>> /\ state[Head(todo)] = "WAITING" /\ budget >= 1
  BY DEF SchedIInv, Visits, Import
<1>2. PICK r \in Seqs : r = Head(todo) /\ r \in Range(todo)
  BY <1>1, Visited
<1> DEFINE k == prefix[r]
           W == {RowsOf(r, blockIds[r], 0, k)[i] : i \in 1..k}
<1>3. /\ pc' = "prefill" /\ SetNumTokens(r, prefix[r]) /\ kv' = Stored(W)
      /\ prefillPos' = [prefillPos EXCEPT ![r] = k] /\ prefix' = [prefix EXCEPT ![r] = 0]
      /\ state' = [state EXCEPT ![r] = "PREFILLING"]
      /\ waiting' = RemoveFirst(waiting, r) /\ prefilling' = Append(prefilling, r)
      /\ UNCHANGED <<req, outLen, running, finished, todo, batch, rows, lastIdx, budget>>
  BY <1>2 DEF Import, stepVars
<1>4. /\ r \in live /\ state[r] = "WAITING" /\ r \in Range(waiting) /\ r \notin Range(prefilling)
      /\ r \notin Range(running)
  <2>1. r \in live
    BY <1>3 DEF SetNumTokens
  <2> QED BY <1>1, <1>2, <2>1, QueueStates DEF Retiring
<1>5. /\ req[r].plen \in PromptLens /\ req[r].plen \in Nat /\ k \in Nat /\ k < req[r].plen
      /\ req[r].plen <= TableCapacity(r) /\ TableCapacity(r) \in Nat /\ outLen[r] = 0
  BY <1>4, Types, CapacityNat, RequestAssumption DEF SchedIInv, Progress, Added, InState
<1>6. k \in TokenCounts /\ k <= TableCapacity(r)
  <2>1. k \in 0..req[r].plen
    BY <1>5
  <2> QED BY <1>5, <2>1, ChunkCounts
<1>7. /\ BMInv' /\ BMNext /\ live' = live /\ blockIds' = blockIds /\ \A q \in live \ {r} : numTokens'[q] = numTokens[q]
      /\ numTokens'[r] = k /\ BMTypeOK'
  <2>1. SetNumTokens(r, k)
    BY <1>3
  <2> HIDE DEF k
  <2>2. /\ BMInv' /\ BMNext /\ UNCHANGED <<live, blockIds, pins, free>>
        /\ \A q \in live \ {r} : TableSame(q)
        /\ numTokens'[r] = k
    BY <1>6, <2>1, Types, CountForClient
  <2> QED BY <2>2 DEF TableSame, BMInv
<1>8. \A w \in W : Slotted(w) /\ w.req = r /\ w.req \in Seqs /\ w.pos \in Nat
  <2> TAKE w \in W
  <2>1. PICK i \in 1..k : w = RowsOf(r, blockIds[r], 0, k)[i]
    OBVIOUS
  <2>2. w = [req |-> r, pos |-> 0 + i - 1, slot |-> Slot(blockIds[r], 0 + i - 1)]
    BY <2>1 DEF RowsOf
  <2>3. 0 + i - 1 \in 0..(TableCapacity(r) - 1) /\ 0 + i - 1 \in Nat
    BY <1>5, <1>6, <2>1
  <2> QED BY <1>4, <2>2, <2>3 DEF Slotted
<1>9. \A p \in 0..(k - 1) : \E w \in W : w.req = r /\ w.pos = p
  <2> TAKE p \in 0..(k - 1)
  <2>1. p + 1 \in 1..k /\ 0 + (p + 1) - 1 = p
    BY <1>5
  <2> DEFINE w == RowsOf(r, blockIds[r], 0, k)[p + 1]
  <2>2. w \in W
    BY <2>1
  <2>3. w.req = r /\ w.pos = p
    BY <2>1 DEF RowsOf
  <2> QED BY <2>2, <2>3
<1> HIDE DEF W
<1>10. HasBatch /\ HasBatch' /\ InLoops /\ InLoops' /\ Retiring = {} /\ Retiring' = {}
  BY <1>1, <1>3 DEF HasBatch, InLoops, Retiring
<1>11. waiting' \in Seq(Seqs) /\ IsInjective(waiting') /\ Range(waiting') = Range(waiting) \ {r}
  BY <1>3, <1>4, Types, RemoveFirstProperties
<1>12. prefilling' \in Seq(Seqs) /\ IsInjective(prefilling') /\ Range(prefilling') = Range(prefilling) \cup {r}
  BY <1>3, <1>4, Types, AppendDistinct
<1>13. \A q \in Seqs : /\ state'[q] = IF q = r THEN "PREFILLING" ELSE state[q]
                       /\ prefix'[q] = IF q = r THEN 0 ELSE prefix[q]
                       /\ prefillPos'[q] = IF q = r THEN k ELSE prefillPos[q]
  BY <1>3, Types
<1>14. ProofTypes'
  <2>1. /\ prefix' \in [Seqs -> Nat] /\ prefillPos' \in [Seqs -> Nat]
        /\ state' \in [Seqs -> {"absent", "WAITING", "PREFILLING", "RUNNING", "FINISHED"}]
    BY <1>3, <1>5, Types
  <2>2. \A q \in {waiting', prefilling', running', finished', todo'} : q \in Seq(Seqs)
    BY <1>3, <1>11, <1>12, Types
  <2>3. /\ lastIdx' \in Seq(Nat) /\ budget' \in 0..MaxBatchTokens /\ batch' \in Seq(Entries) /\ rows' \in Seq(FlatRows)
        /\ outLen' \in [Seqs -> Nat] /\ pc' = "prefill" /\ req' \in [Seqs -> [plen : Nat, maxNew : Nat, prio : Int]]
    BY <1>3, Types
  <2>4. \A b \in Blocks : \A o \in 0..(BlockSize - 1) :
          kv'[b][o] = NoToken \/ (kv'[b][o].req \in Seqs /\ kv'[b][o].pos \in Nat)
    BY <1>3, <1>8, StoredType DEF SchedIInv, ProofTypes
  <2> QED BY <1>7, <2>1, <2>2, <2>3, <2>4 DEF ProofTypes, SchedTypeOK
<1> HIDE DEF k
<1>15. Queues'
  <2>1. /\ InState("WAITING")' = InState("WAITING") \ {r} /\ InState("PREFILLING")' = InState("PREFILLING") \cup {r}
        /\ InState("RUNNING")' = InState("RUNNING") /\ InState("FINISHED")' = InState("FINISHED")
    BY <1>4, <1>13 DEF InState
  <2> QED BY <1>3, <1>10, <1>11, <1>12, <2>1, Types DEF SchedIInv, Queues
<1>16. TablesMatchQueues'
  BY <1>1, <1>2, <1>3, <1>7, <1>12 DEF SchedIInv, TablesMatchQueues
<1>17. RequestsIsolated'
  BY <1>7 DEF SchedIInv, RequestsIsolated, TableBlocks
<1>18. Progress'
  <2>1. \A q \in Added' : req'[q].plen \in PromptLens /\ prefix'[q] < req'[q].plen
    BY <1>3, <1>4, <1>5, <1>13 DEF SchedIInv, Progress, Added
  <2>2. /\ \A q \in (InState("WAITING") \cup InState("PREFILLING") \cup InState("absent"))' : outLen'[q] = 0
        /\ \A q \in (InState("WAITING") \cup InState("absent"))' : prefillPos'[q] = 0
    BY <1>3, <1>5, <1>13 DEF SchedIInv, Progress, InState
  <2>3. \A q \in InState("PREFILLING")' : numTokens'[q] = prefillPos'[q] /\ prefillPos'[q] < req'[q].plen
    <3>1. \A q \in InState("PREFILLING") : q \in live
      BY QueueStates DEF InState
    <3> QED BY <1>3, <1>5, <1>7, <1>13, <3>1 DEF SchedIInv, Progress, InState
  <2>4. \A q \in live' : state'[q] \in {"WAITING", "PREFILLING"} => req'[q].plen <= TableCapacity(q)'
    BY <1>3, <1>5, <1>7, <1>13, Types DEF SchedIInv, Progress, TableCapacity
  <2> QED BY <2>1, <2>2, <2>3, <2>4 DEF Progress
<1>19. Visits'
  <2>1. /\ Range(todo) \subseteq InState("WAITING") \cup InState("PREFILLING")
        /\ Range(waiting) \subseteq Range(todo)
        /\ \A i, j \in DOMAIN todo :
             i < j /\ state[todo[i]] = "WAITING" /\ state[todo[j]] = "WAITING" => AdmitBefore(todo[i], todo[j])
    BY <1>1 DEF SchedIInv, Visits
  <2>2. \A i \in DOMAIN todo : todo[i] \in Seqs
    BY Types, LenProperties, ElementOfSeq
  <2>3. \A i, j \in DOMAIN todo' :
          i < j /\ state'[todo'[i]] = "WAITING" /\ state'[todo'[j]] = "WAITING" => AdmitBefore(todo[i], todo[j])'
    BY <1>3, <1>13, <2>1, <2>2 DEF AdmitBefore
  <2>4. Range(todo') \subseteq (InState("WAITING") \cup InState("PREFILLING"))' /\ Range(waiting') \subseteq Range(todo')
    BY <1>3, <1>11, <1>13, <2>1 DEF InState
  <2> QED BY <1>3, <2>3, <2>4 DEF Visits
<1>20. Budgets'
  BY <1>1, <1>3, <1>10 DEF SchedIInv, Budgets
<1>21. Picks' = Picks /\ Emitting' = Emitting /\ Batched' = Batched
  BY <1>3 DEF Picks, Emitting, Batched
<1>22. \A i \in DOMAIN batch : batch[i].req \in live /\ batch[i].req # r /\ batch[i].req \in Seqs
  <2>1. \A i \in DOMAIN batch : batch[i].req \in live
    BY <1>10, EntryTypes, QueueStates DEF SchedIInv, Entered
  <2>2. \A i \in DOMAIN batch : batch[i].req # r
    BY <1>2, <1>10 DEF SchedIInv, Entered, Batched
  <2> QED BY <2>1, <2>2, Types
<1>23. Entered'
  BY <1>1, <1>3, <1>7, <1>10, <1>13, <1>21, <1>22 DEF SchedIInv, Entered
<1>24. Lengths'
  <2>1. \A q \in Emitting : q \in live /\ q # r
    BY <1>22 DEF Emitting, Picks
  <2> QED BY <1>3, <1>7, <1>10, <1>21, <2>1 DEF SchedIInv, Lengths
<1>25. RowsLaidOut'
  BY <1>3, <1>7, <1>10 DEF SchedIInv, RowsLaidOut
<1>26. RowsInTables'
  <2>1. \A w \in Batched : w # r
    BY <1>22 DEF Batched
  <2> QED BY <1>3, <1>7, <1>10, <1>21, <2>1 DEF SchedIInv, RowsInTables
<1>27. LastRows'
  BY <1>3, <1>10, <1>21 DEF SchedIInv, LastRows
<1>28. Stocked'
  <2>1. SUFFICES ASSUME NEW q \in live, NEW p \in 0..(numTokens'[q] - 1)
                 PROVE  Pending(q, p)' \/ InCache(q, p)'
    BY <1>7 DEF Stocked
  <2>2. Slot(blockIds[q], p)' = Slot(blockIds[q], p)
    BY <1>7
  <2>3. p \in 0..(TableCapacity(q) - 1)
    <3>1. CASE q = r
      BY <1>5, <1>6, <1>7, <3>1
    <3>2. CASE q # r
      BY <1>7, <3>2, StoredPosition
    <3> QED BY <3>1, <3>2
  <2>4. kv'[Slot(blockIds[q], p)[1]][Slot(blockIds[q], p)[2]]
           = IF \E w \in W : w.req = q /\ w.pos = p THEN Tag(q, p)
             ELSE kv[Slot(blockIds[q], p)[1]][Slot(blockIds[q], p)[2]]
    BY <1>3, <1>8, <2>3, StoredAt DEF SchedIInv
  <2>5. CASE q = r
    <3>1. \E w \in W : w.req = q /\ w.pos = p
      BY <1>7, <1>9, <2>5
    <3> QED BY <2>2, <2>4, <3>1 DEF InCache
  <2>6. CASE q # r
    <3>1. Pending(q, p) \/ InCache(q, p)
      BY <1>1, <1>2, <1>7, <2>1, <2>6 DEF SchedIInv, Stocked, Importing
    <3>2. Pending(q, p) => Pending(q, p)'
      BY <1>3 DEF Pending
    <3>3. InCache(q, p) => InCache(q, p)'
      <4>1. ~ \E w \in W : w.req = q /\ w.pos = p
        BY <1>8, <2>6
      <4> QED BY <2>2, <2>4, <4>1 DEF InCache
    <3> QED BY <3>1, <3>2, <3>3
  <2> QED BY <2>5, <2>6
<1> QED BY <1>7, <1>14, <1>15, <1>16, <1>17, <1>18, <1>19, <1>20, <1>23, <1>24, <1>25, <1>26, <1>27, <1>28
     DEF SchedIInv

\* The requests that are sampled are those of the batch that emit a token, each once.
LEMMA SampleBatchIsPicks ==
  ASSUME SchedIInv, HasBatch
  PROVE  /\ IsFiniteSet(Picks) /\ Picks \in SUBSET Nat /\ Picks \subseteq DOMAIN batch
         /\ Cardinality(Picks) \in Nat /\ DOMAIN SampleBatch = 1..Cardinality(Picks)
         /\ Len(SampleBatch) = Cardinality(Picks)
         /\ \A k \in 1..Cardinality(Picks) :
              \E i \in Picks : Before(Picks, i) = k - 1 /\ SampleBatch[k] = batch[i]
         /\ {SampleBatch[k].req : k \in DOMAIN SampleBatch} = Emitting
         /\ \A k, m \in DOMAIN SampleBatch : SampleBatch[k].req = SampleBatch[m].req => k = m
         /\ Emitting \subseteq Seqs
<1>1. Len(batch) \in Nat /\ DOMAIN batch = 1..Len(batch) /\ batch \in Seq(Entries)
  BY EntryTypes, Types
<1>2. Picks \in SUBSET (1..Len(batch)) /\ Picks \in SUBSET Nat /\ Picks \subseteq DOMAIN batch
  BY <1>1 DEF Picks
<1>3. IsFiniteSet(Picks) /\ Cardinality(Picks) \in Nat
  BY <1>1, <1>2, LastIndex
<1>4. SampleBatch = Selected(batch, Picks)
  BY DEF SampleBatch, Picks
<1>5. \A i \in Picks : batch[i] \in Entries
  BY <1>1, <1>2, ElementOfSeq
<1>6. Len(SampleBatch) = Cardinality(Picks)
  BY <1>2, <1>3, <1>4, <1>5, SelectedList
<1>7. /\ DOMAIN SampleBatch = 1..Cardinality(Picks)
      /\ \A i \in Picks : Before(Picks, i) + 1 \in 1..Cardinality(Picks) /\ SampleBatch[Before(Picks, i) + 1] = batch[i]
      /\ \A k \in 1..Cardinality(Picks) : \E i \in Picks : Before(Picks, i) = k - 1 /\ SampleBatch[k] = batch[i]
  BY <1>2, <1>3, <1>4, SelectedProperties
<1> HIDE DEF SampleBatch
<1>8. {SampleBatch[k].req : k \in DOMAIN SampleBatch} = Emitting
  <2>1. \A k \in DOMAIN SampleBatch : \E i \in Picks : SampleBatch[k].req = batch[i].req
    BY <1>7
  <2>2. \A i \in Picks : \E k \in DOMAIN SampleBatch : SampleBatch[k].req = batch[i].req
    BY <1>7
  <2> QED BY <2>1, <2>2 DEF Emitting
<1>9. ASSUME NEW k \in DOMAIN SampleBatch, NEW m \in DOMAIN SampleBatch, SampleBatch[k].req = SampleBatch[m].req
      PROVE  k = m
  <2>1. PICK i \in Picks : Before(Picks, i) = k - 1 /\ SampleBatch[k] = batch[i]
    BY <1>7
  <2>2. PICK j \in Picks : Before(Picks, j) = m - 1 /\ SampleBatch[m] = batch[j]
    BY <1>7
  <2>3. i = j
    BY <1>2, <1>9, <2>1, <2>2 DEF SchedIInv, Entered
  <2>4. k - 1 = m - 1
    BY <2>1, <2>2, <2>3
  <2> QED BY <1>3, <1>7, <2>4
<1>10. Emitting \subseteq Seqs
  BY <1>2, EntryTypes DEF Emitting
<1> QED BY <1>2, <1>3, <1>6, <1>7, <1>8, <1>9, <1>10

\* Every sampled request gets its token; those that are done are to be retired.
SampledWith(done) ==
  /\ done \subseteq Emitting
  /\ outLen' = [r \in Seqs |-> IF r \in Emitting THEN outLen[r] + 1 ELSE outLen[r]]
  /\ state' = [r \in Seqs |-> IF r \in done THEN "FINISHED" ELSE state[r]]
  /\ todo' \in Seq(Seqs) /\ IsInjective(todo') /\ Range(todo') = done
  /\ pc' = IF done = {} THEN "idle" ELSE "retire"
  /\ \A r \in Emitting : outLen[r] + 1 >= req[r].maxNew => r \in done

\* What sampling does, in terms of the batch.
LEMMA SampleEffect ==
  ASSUME SchedIInv, Sample
  PROVE  \E done \in SUBSET Emitting : SampledWith(done)
<1>0. HasBatch
  BY DEF Sample, HasBatch
<1> DEFINE L == [i \in DOMAIN SampleBatch |-> SampleBatch[i].req]
<1>1. PICK eos \in SUBSET Emitting :
        LET done == {r \in Emitting : DoneWith(r, outLen[r] + 1, r \in eos)}
        IN  /\ outLen' = [r \in Seqs |-> IF r \in Emitting THEN outLen[r] + 1 ELSE outLen[r]]
            /\ state' = [r \in Seqs |-> IF r \in done THEN "FINISHED" ELSE state[r]]
            /\ todo' = Selected(L, {i \in DOMAIN SampleBatch : SampleBatch[i].req \in done})
            /\ pc' = IF done = {} THEN "idle" ELSE "retire"
  <2> DEFINE E == {SampleBatch[i].req : i \in DOMAIN SampleBatch}
  <2>1. E = Emitting
    BY <1>0, SampleBatchIsPicks
  <2>2. \E eos \in SUBSET E :
        LET done == {r \in E : DoneWith(r, outLen[r] + 1, r \in eos)}
        IN  /\ outLen' = [r \in Seqs |-> IF r \in E THEN outLen[r] + 1 ELSE outLen[r]]
            /\ state' = [r \in Seqs |-> IF r \in done THEN "FINISHED" ELSE state[r]]
            /\ todo' = Selected(L, {i \in DOMAIN SampleBatch : SampleBatch[i].req \in done})
            /\ pc' = IF done = {} THEN "idle" ELSE "retire"
    BY DEF Sample
  <2> HIDE DEF E, L
  <2>3. PICK eos \in SUBSET E :
        LET done == {r \in E : DoneWith(r, outLen[r] + 1, r \in eos)}
        IN  /\ outLen' = [r \in Seqs |-> IF r \in E THEN outLen[r] + 1 ELSE outLen[r]]
            /\ state' = [r \in Seqs |-> IF r \in done THEN "FINISHED" ELSE state[r]]
            /\ todo' = Selected(L, {i \in DOMAIN SampleBatch : SampleBatch[i].req \in done})
            /\ pc' = IF done = {} THEN "idle" ELSE "retire"
    BY <2>2
  <2>4. eos \in SUBSET Emitting
    BY <2>1
  <2> QED BY <2>1, <2>3, <2>4
<1> DEFINE done == {r \in Emitting : DoneWith(r, outLen[r] + 1, r \in eos)}
           J == {i \in DOMAIN SampleBatch : SampleBatch[i].req \in done}
<1>2. /\ outLen' = [r \in Seqs |-> IF r \in Emitting THEN outLen[r] + 1 ELSE outLen[r]]
      /\ state' = [r \in Seqs |-> IF r \in done THEN "FINISHED" ELSE state[r]]
      /\ todo' = Selected(L, J) /\ pc' = IF done = {} THEN "idle" ELSE "retire"
  BY <1>1
<1>3. done \subseteq Emitting /\ \A r \in Emitting : outLen[r] + 1 >= req[r].maxNew => r \in done
  BY DEF DoneWith
<1> HIDE DEF done
<1>4. /\ J \in SUBSET Nat /\ IsFiniteSet(J) /\ \A i \in J : L[i] \in Seqs
      /\ \A i \in J : L[i] \in done
      /\ \A r \in done : \E i \in J : L[i] = r
      /\ \A i, j \in J : L[i] = L[j] => i = j
  <2>1. /\ DOMAIN SampleBatch = 1..Cardinality(Picks) /\ Cardinality(Picks) \in Nat
        /\ {SampleBatch[k].req : k \in DOMAIN SampleBatch} = Emitting
        /\ \A k, m \in DOMAIN SampleBatch : SampleBatch[k].req = SampleBatch[m].req => k = m
        /\ Emitting \subseteq Seqs
    BY <1>0, SampleBatchIsPicks
  <2> HIDE DEF SampleBatch
  <2>2. IsFiniteSet(1..Cardinality(Picks))
    BY <2>1, FS_Interval
  <2>3. J \subseteq 1..Cardinality(Picks)
    BY <2>1
  <2>4. IsFiniteSet(J)
    BY <2>2, <2>3, FS_Subset
  <2>5. \A i \in J : L[i] = SampleBatch[i].req /\ L[i] \in done
    OBVIOUS
  <2>6. \A r \in done : \E i \in J : L[i] = r
    BY <1>3, <2>1
  <2>7. \A i, j \in J : L[i] = L[j] => i = j
    BY <2>1
  <2> QED BY <1>3, <2>1, <2>3, <2>4, <2>5, <2>6, <2>7
<1> HIDE DEF L, J
<1>5. todo' \in Seq(Seqs) /\ Range(todo') = done /\ IsInjective(todo')
  <2>1. /\ Selected(L, J) \in Seq(Seqs)
        /\ \A i \in J : L[i] \in Range(Selected(L, J))
        /\ \A x \in Range(Selected(L, J)) : \E i \in J : x = L[i]
        /\ (\A i, j \in J : L[i] = L[j] => i = j) => IsInjective(Selected(L, J))
    BY <1>4, SelectedList
  <2> DEFINE D == Range(Selected(L, J))
  <2>2. Range(Selected(L, J)) = done
    <3>1. \A x \in D : x \in done
      BY <1>4, <2>1
    <3>2. \A x \in done : x \in D
      BY <1>4, <2>1
    <3> HIDE DEF D
    <3>3. D = done
      BY <3>1, <3>2
    <3> QED BY <3>3 DEF D
  <2> QED BY <1>2, <1>4, <2>1, <2>2
<1>6. SampledWith(done)
  BY <1>2, <1>3, <1>5 DEF SampledWith
<1> QED BY <1>3, <1>6

\* Sampling leaves the engine between two steps, or with requests to retire.
LEMMA SampleKeeps ==
  ASSUME SchedIInv, Sample
  PROVE  SchedIInv' /\ UNCHANGED bmVars
<1>1. PICK done \in SUBSET Emitting : SampledWith(done)
  BY SampleEffect
<1>2. /\ pc = "sample" /\ batch' = <<>> /\ rows' = <<>> /\ lastIdx' = <<>>
      /\ UNCHANGED <<req, prefix, prefillPos, waiting, prefilling, running, finished, budget, kv, bmVars>>
  BY DEF Sample, DropBatch, queueVars
<1>3. /\ outLen' = [r \in Seqs |-> IF r \in Emitting THEN outLen[r] + 1 ELSE outLen[r]]
      /\ state' = [r \in Seqs |-> IF r \in done THEN "FINISHED" ELSE state[r]]
      /\ todo' \in Seq(Seqs) /\ IsInjective(todo') /\ Range(todo') = done
      /\ pc' = IF done = {} THEN "idle" ELSE "retire"
  BY <1>1 DEF SampledWith
<1>4. HasBatch /\ ~HasBatch' /\ ~InLoops' /\ Retiring = {} /\ Retiring' = done /\ pc' \in {"idle", "retire"}
  BY <1>2, <1>3 DEF HasBatch, InLoops, Retiring
<1>5. /\ Range(running) = Emitting /\ Emitting \subseteq Seqs
      /\ \A r \in Seqs : r \in Emitting <=> state[r] = "RUNNING"
  <2>1. Range(running) = Emitting
    BY <1>2, <1>4 DEF SchedIInv, Entered
  <2> QED BY <1>4, <2>1, QueueStates, SampleBatchIsPicks
<1>6. BMInv' /\ BMTypeOK' /\ RequestsIsolated'
  <2>1. BMInv'
    BY <1>2, NextInv DEF SchedIInv
  <2> QED BY <1>2, <2>1 DEF SchedIInv, BMInv, bmVars, RequestsIsolated, TableBlocks
<1>7. \A r \in Seqs : /\ outLen'[r] = IF r \in Emitting THEN outLen[r] + 1 ELSE outLen[r]
                      /\ state'[r] = IF r \in done THEN "FINISHED" ELSE state[r]
  BY <1>3
<1>8. ProofTypes'
  <2>1. outLen' \in [Seqs -> Nat] /\ state' \in [Seqs -> {"absent", "WAITING", "PREFILLING", "RUNNING", "FINISHED"}]
    BY <1>3, Types
  <2>2. batch' \in Seq(Entries) /\ rows' \in Seq(FlatRows) /\ lastIdx' \in Seq(Nat)
    BY <1>2
  <2>3. \A q \in {waiting', prefilling', running', finished', todo'} : q \in Seq(Seqs)
    BY <1>2, <1>3, Types
  <2>4. \A b \in Blocks : \A o \in 0..(BlockSize - 1) :
          kv'[b][o] = NoToken \/ (kv'[b][o].req \in Seqs /\ kv'[b][o].pos \in Nat)
    BY <1>2 DEF SchedIInv, ProofTypes, SchedTypeOK
  <2>5. /\ budget' \in 0..MaxBatchTokens /\ prefix' \in [Seqs -> Nat] /\ prefillPos' \in [Seqs -> Nat]
        /\ req' \in [Seqs -> [plen : Nat, maxNew : Nat, prio : Int]]
    BY <1>2, Types
  <2> QED BY <1>4, <1>6, <2>1, <2>2, <2>3, <2>4, <2>5 DEF ProofTypes, SchedTypeOK
<1>9. Queues'
  <2>1. /\ InState("WAITING")' = InState("WAITING") /\ InState("PREFILLING")' = InState("PREFILLING")
        /\ InState("RUNNING")' = InState("RUNNING") \ done /\ InState("FINISHED")' = InState("FINISHED") \cup done
        /\ done \subseteq InState("RUNNING") /\ InState("RUNNING") \cap InState("FINISHED") = {}
    BY <1>5, <1>7 DEF InState
  <2>2. \A q \in {waiting', prefilling', running', finished', todo'} : IsInjective(q)
    BY <1>2, <1>3, Types
  <2>3. /\ Range(waiting) = InState("WAITING") /\ Range(prefilling) = InState("PREFILLING")
        /\ Range(running) = InState("RUNNING") /\ Range(finished) = InState("FINISHED")
    BY <1>4 DEF SchedIInv, Queues
  <2> QED BY <1>2, <1>4, <2>1, <2>2, <2>3 DEF Queues
<1>10. TablesMatchQueues'
  BY <1>2, <1>4 DEF SchedIInv, TablesMatchQueues, bmVars
<1>11. Progress'
  BY <1>2, <1>5, <1>7, Types DEF SchedIInv, Progress, Added, InState, TableCapacity, bmVars
<1>12. Visits'
  <2>1. todo' = <<>> => done = {}
    <3>1. Range(<<>>) = {}
      BY DEF Range
    <3> QED BY <1>3, <3>1
  <2> QED BY <1>3, <1>4, <2>1 DEF Visits
<1>13. Budgets'
  BY <1>2, <1>4, BudgetAssumption DEF SchedIInv, Budgets
<1>14. Entered' /\ RowsLaidOut' /\ RowsInTables' /\ LastRows'
  BY <1>4 DEF Entered, RowsLaidOut, RowsInTables, LastRows
<1>15. Lengths'
  <2>1. SUFFICES ASSUME NEW r \in InState("RUNNING")'
                 PROVE  numTokens[r] = req[r].plen + outLen'[r] - 1 /\ outLen'[r] >= 1
    BY <1>2, <1>4 DEF Lengths, bmVars
  <2>2. r \in Emitting /\ r \in Seqs
    BY <1>5, <1>7 DEF InState
  <2>3. numTokens[r] = req[r].plen + outLen[r] /\ outLen[r] \in Nat /\ req[r].plen \in Nat
    BY <1>4, <2>2, Types DEF SchedIInv, Lengths
  <2>4. outLen'[r] = outLen[r] + 1
    BY <1>7, <2>2
  <2> QED BY <2>3, <2>4
<1>16. Stocked'
  BY <1>2, <1>4 DEF SchedIInv, Stocked, Importing, Pending, InCache, bmVars
<1> QED BY <1>2, <1>6, <1>8, <1>9, <1>10, <1>11, <1>12, <1>13, <1>14, <1>15, <1>16 DEF SchedIInv

-----------------------------------------------------------------------------
\* The batch grows: a token of a running request, or a chunk of a prompt.

\* The rows and entries after n rows of r, from position first, were added.
Grown(r, ids, first, n, sampled) ==
  /\ batch' \in Seq(Entries) /\ Len(batch') = Len(batch) + 1 /\ DOMAIN batch' = 1..(Len(batch) + 1)
  /\ \A i \in DOMAIN batch : batch'[i] = batch[i]
  /\ batch'[Len(batch) + 1] = [req |-> r, q |-> n, ctx |-> first + n, sampled |-> sampled]
  /\ rows' \in Seq(FlatRows) /\ Len(rows') = Len(rows) + n /\ DOMAIN rows' = 1..(Len(rows) + n)
  /\ \A k \in DOMAIN rows : rows'[k] = rows[k]
  /\ \A j \in 1..n : rows'[Len(rows) + j] = [req |-> r, pos |-> first + j - 1, slot |-> Slot(ids, first + j - 1)]

\* What add_to_batch makes of the rows and of the entries.
LEMMA BatchGrows ==
  ASSUME SchedIInv, HasBatch, NEW r \in Seqs, NEW ids \in Seq(Blocks), NEW first \in Nat,
         NEW count \in Nat \ {0}, NEW sampled \in BOOLEAN, first + count <= Len(ids) * BlockSize,
         \A p \in 0..(first + count - 1) : Slot(ids, p) \in Blocks \X Nat,
         AddToBatch(r, ids, first, count, sampled)
  PROVE  Grown(r, ids, first, count, sampled)
<1> DEFINE e == [req |-> r, q |-> count, ctx |-> first + count, sampled |-> sampled]
           new == RowsOf(r, ids, first, count)
<1>1. batch' = Append(batch, e) /\ rows' = rows \o new
  BY DEF AddToBatch
<1>2. batch \in Seq(Entries) /\ rows \in Seq(FlatRows) /\ e \in Entries
  BY Types DEF Entries
<1>3. \A j \in 1..count : new[j] = [req |-> r, pos |-> first + j - 1, slot |-> Slot(ids, first + j - 1)]
  BY DEF RowsOf
<1>4. \A j \in 1..count : new[j] \in FlatRows
  <2> TAKE j \in 1..count
  <2>1. first + j - 1 \in 0..(first + count - 1) /\ first + j - 1 \in Nat
    OBVIOUS
  <2>2. Slot(ids, first + j - 1) \in Blocks \X Nat
    BY <2>1
  <2> DEFINE p == first + j - 1
  <2>3. new[j] = [req |-> r, pos |-> p, slot |-> Slot(ids, p)]
    BY <1>3
  <2>4. p \in Nat /\ Slot(ids, p) \in Blocks \X Nat
    BY <2>1, <2>2
  <2> HIDE DEF p, new
  <2> QED BY <2>3, <2>4 DEF FlatRows
<1>5. new \in Seq(FlatRows) /\ Len(new) = count
  <2>1. new = [j \in 1..count |-> new[j]]
    BY DEF RowsOf
  <2> HIDE DEF new
  <2>2. new \in [1..count -> FlatRows]
    BY <1>4, <2>1
  <2> QED BY <2>2, ListFromFunction
<1> HIDE DEF new
<1>6. /\ batch' \in Seq(Entries) /\ Len(batch') = Len(batch) + 1 /\ DOMAIN batch' = 1..(Len(batch) + 1)
      /\ \A i \in DOMAIN batch : batch'[i] = batch[i]
      /\ batch'[Len(batch) + 1] = e
  <2> HIDE DEF e
  <2> QED BY <1>1, <1>2, AppendProperties, LenProperties
<1>7. /\ rows \o new \in Seq(FlatRows) /\ Len(rows \o new) = Len(rows) + count
      /\ \A k \in 1..(Len(rows) + count) : (rows \o new)[k] = IF k <= Len(rows) THEN rows[k] ELSE new[k - Len(rows)]
  BY <1>2, <1>5, ConcatProperties
<1>8. Len(rows) \in Nat /\ DOMAIN rows = 1..Len(rows)
  BY <1>2, LenProperties
<1>9. rows' \in Seq(FlatRows) /\ Len(rows') = Len(rows) + count /\ DOMAIN rows' = 1..(Len(rows) + count)
  BY <1>1, <1>7, LenProperties
<1>10. \A k \in DOMAIN rows : rows'[k] = rows[k]
  BY <1>1, <1>7, <1>8
<1>11. \A j \in 1..count : rows'[Len(rows) + j] = new[j]
  <2> TAKE j \in 1..count
  <2>1. Len(rows) + j \in 1..(Len(rows) + count) /\ ~(Len(rows) + j <= Len(rows)) /\ (Len(rows) + j) - Len(rows) = j
    BY <1>8
  <2> QED BY <1>1, <1>7, <2>1
<1> QED BY <1>3, <1>6, <1>9, <1>10, <1>11 DEF Grown

\* The rows of r, from position first, join the batch; its table grows to hold them
\* and keeps its head; nothing else changes for the other requests.
Feeds(r, first, count, sampled) ==
  /\ pc \in {"decode", "prefill"} /\ pc' = pc /\ kv' = kv
  /\ BMInv' /\ live' = live /\ r \in live /\ r \notin Batched
  /\ numTokens[r] = first /\ numTokens'[r] = first + count
  /\ \A q \in live \ {r} : TableSame(q)
  /\ \A p \in 0..(first - 1) : Slot(blockIds'[r], p) = Slot(blockIds[r], p)
  /\ AddToBatch(r, blockIds'[r], first, count, sampled)

\* What the batch and the parts of the invariant about it are afterwards.
Fed(r, first, n, sampled) ==
  /\ batch' \in Seq(Entries) /\ DOMAIN batch' = DOMAIN batch \cup {Len(batch) + 1}
  /\ Len(batch) + 1 \notin DOMAIN batch
  /\ \A i \in DOMAIN batch : batch'[i] = batch[i] /\ batch[i].req \in Batched
  /\ batch'[Len(batch) + 1] = [req |-> r, q |-> n, ctx |-> first + n, sampled |-> sampled]
  /\ rows' \in Seq(FlatRows) /\ Len(rows') = Len(rows) + n /\ lastIdx' \in Seq(Nat)
  /\ Batched' = Batched \cup {r} /\ Batched \subseteq live
  /\ Emitting' = Emitting \cup (IF sampled THEN {r} ELSE {})
  /\ RowsLaidOut' /\ RowsInTables' /\ LastRows' /\ Stocked'

\* The parts of the invariant that describe the batch are kept while it grows.
LEMMA FeedKeeps ==
  ASSUME SchedIInv, NEW r \in Seqs, NEW first \in Nat, NEW count \in Nat \ {0}, NEW sampled \in BOOLEAN,
         Feeds(r, first, count, sampled)
  PROVE  Fed(r, first, count, sampled)
<1> DEFINE last == Len(batch) + 1
           e == [req |-> r, q |-> count, ctx |-> first + count, sampled |-> sampled]
<1>0. /\ pc \in {"decode", "prefill"} /\ pc' = pc /\ kv' = kv
      /\ BMInv' /\ live' = live /\ r \in live /\ r \notin Batched
      /\ numTokens[r] = first /\ numTokens'[r] = first + count
      /\ \A q \in live \ {r} : blockIds'[q] = blockIds[q] /\ numTokens'[q] = numTokens[q]
      /\ \A p \in 0..(first - 1) : Slot(blockIds'[r], p) = Slot(blockIds[r], p)
      /\ AddToBatch(r, blockIds'[r], first, count, sampled)
  BY DEF Feeds, TableSame
<1>1. HasBatch /\ HasBatch' /\ InLoops /\ InLoops'
  BY <1>0 DEF HasBatch, InLoops
<1>2. /\ blockIds'[r] \in Seq(Blocks) /\ first + count <= Len(blockIds'[r]) * BlockSize
      /\ \A p \in 0..(first + count - 1) : Slot(blockIds'[r], p) \in Blocks \X Nat
  <2>1. blockIds'[r] \in Seq(Blocks) /\ first + count <= Len(blockIds'[r]) * BlockSize
    BY <1>0 DEF BMInv, BMTypeOK, Capacity, TableCapacity
  <2>2. ASSUME NEW p \in 0..(first + count - 1) PROVE Slot(blockIds'[r], p) \in Blocks \X Nat
    <3> DEFINE ids == blockIds'[r]
    <3>1. ids \in Seq(Blocks) /\ Len(ids) \in Nat
      BY <2>1, LenProperties
    <3>2. p \in Nat /\ p < Len(ids) * BlockSize
      <4>1. p \in Nat /\ p < first + count
        OBVIOUS
      <4>2. Len(ids) * BlockSize \in Nat
        BY <3>1, BlockSizeAssumption
      <4> HIDE DEF ids
      <4> QED BY <2>1, <4>1, <4>2 DEF ids
    <3> HIDE DEF ids
    <3>3. (p \div BlockSize) + 1 \in 1..Len(ids)
      BY <3>1, <3>2, PositionInTable
    <3>4. ids[(p \div BlockSize) + 1] \in Blocks
      BY <3>1, <3>3, ElementOfSeq
    <3>5. (p % BlockSize) \in Nat
      BY <3>2, BlockSizeAssumption
    <3>6. Slot(ids, p) \in Blocks \X Nat
      BY <3>4, <3>5 DEF Slot
    <3> QED BY <3>6 DEF ids
  <2> QED BY <2>1, <2>2
<1>3. /\ batch' \in Seq(Entries) /\ Len(batch') = Len(batch) + 1 /\ DOMAIN batch' = 1..(Len(batch) + 1)
      /\ \A i \in DOMAIN batch : batch'[i] = batch[i]
      /\ batch'[Len(batch) + 1] = e
      /\ rows' \in Seq(FlatRows) /\ Len(rows') = Len(rows) + count /\ DOMAIN rows' = 1..(Len(rows) + count)
      /\ \A k \in DOMAIN rows : rows'[k] = rows[k]
      /\ \A j \in 1..count :
           rows'[Len(rows) + j] = [req |-> r, pos |-> first + j - 1, slot |-> Slot(blockIds'[r], first + j - 1)]
  <2> DEFINE ids == blockIds'[r]
  <2>1. /\ ids \in Seq(Blocks) /\ first + count <= Len(ids) * BlockSize
        /\ \A p \in 0..(first + count - 1) : Slot(ids, p) \in Blocks \X Nat
        /\ AddToBatch(r, ids, first, count, sampled)
    BY <1>0, <1>2
  <2> HIDE DEF ids
  <2>2. Grown(r, ids, first, count, sampled)
    BY <1>1, <2>1, BatchGrows
  <2> QED BY <2>2 DEF Grown, ids
<1>4. /\ Len(batch) \in Nat /\ DOMAIN batch = 1..Len(batch) /\ Len(rows) \in Nat /\ DOMAIN rows = 1..Len(rows)
      /\ last \in Nat /\ last \notin DOMAIN batch /\ DOMAIN batch' = DOMAIN batch \cup {last}
      /\ \A i \in DOMAIN batch : batch[i].q \in Nat
  <2>1. Len(batch) \in Nat /\ DOMAIN batch = 1..Len(batch) /\ \A i \in DOMAIN batch : batch[i].q \in Nat
    BY EntryTypes
  <2>2. Len(rows) \in Nat /\ DOMAIN rows = 1..Len(rows)
    BY Types, LenProperties
  <2>3. last \in Nat /\ last \notin DOMAIN batch /\ DOMAIN batch' = DOMAIN batch \cup {last}
    BY <1>3, <2>1
  <2> QED BY <2>1, <2>2, <2>3
<1> HIDE DEF last
<1>5. \A i \in DOMAIN batch : batch[i].req \in Batched /\ batch[i].req \in live
  BY <1>1, EntryTypes, QueueStates DEF SchedIInv, Entered, Batched
<1>6. Batched \subseteq live
  BY <1>5 DEF Batched
<1>7. /\ batch'[last] = e /\ Batched' = Batched \cup {r}
      /\ Picks' = Picks \cup (IF sampled THEN {last} ELSE {})
      /\ Emitting' = Emitting \cup (IF sampled THEN {r} ELSE {})
  <2>1. batch'[last] = e /\ e.req = r /\ e.sampled = sampled
    BY <1>3 DEF last
  <2>2. Batched' = Batched \cup {r}
    <3>1. Batched' = {batch'[i].req : i \in DOMAIN batch'}
      BY DEF Batched
    <3>2. Batched = {batch[i].req : i \in DOMAIN batch}
      BY DEF Batched
    <3>3. \A i \in DOMAIN batch : batch'[i].req = batch[i].req
      BY <1>3
    <3>4. DOMAIN batch' = DOMAIN batch \cup {last} /\ batch'[last].req = r
      BY <1>4, <2>1
    <3> QED BY <3>1, <3>2, <3>3, <3>4
  <2>3. Picks' = Picks \cup (IF sampled THEN {last} ELSE {})
    BY <1>3, <1>4, <2>1 DEF Picks
  <2>4. Picks \subseteq DOMAIN batch
    BY DEF Picks
  <2>5. Emitting' = Emitting \cup (IF sampled THEN {r} ELSE {})
    <3>1. Emitting' = {batch'[i].req : i \in Picks'}
      BY DEF Emitting
    <3>2. \A i \in Picks : batch'[i].req = batch[i].req
      BY <1>3, <2>4
    <3> QED BY <2>1, <2>3, <3>1, <3>2 DEF Emitting
  <2> QED BY <2>1, <2>2, <2>3, <2>5
<1>8. /\ \A i \in 1..last : RowStart(batch, i) \in Nat /\ RowStart(batch', i) = RowStart(batch, i)
      /\ RowStart(batch, last) = Len(rows)
      /\ RowStart(batch', last + 1) = Len(rows) + count
  <2>1. \A k \in 1..Len(batch) : batch[k].q \in Nat /\ batch'[k].q = batch[k].q
    BY <1>3, <1>4
  <2>2. \A i \in 1..last : RowStart(batch, i) \in Nat /\ RowStart(batch', i) = RowStart(batch, i)
    BY <1>4, <2>1, RowStartAgrees DEF last
  <2>3. RowStart(batch, last) = Len(rows)
    BY <1>1 DEF SchedIInv, RowsLaidOut, last
  <2>4. last \in Nat \ {0} /\ last \in 1..last
    BY <1>4 DEF last
  <2>5. RowStart(batch', last + 1) = RowStart(batch', last) + batch'[last].q
    BY <2>4, RowStartNext
  <2>6. batch'[last].q = count
    BY <1>7
  <2> QED BY <2>2, <2>3, <2>4, <2>5, <2>6
<1>9. RowsLaidOut'
  <2>1. Len(rows') = RowStart(batch', Len(batch') + 1)
    BY <1>3, <1>8 DEF last
  <2>2. ASSUME NEW i \in DOMAIN batch', NEW j \in 1..batch'[i].q
        PROVE  /\ RowStart(batch', i) + j \in DOMAIN rows'
               /\ rows'[RowStart(batch', i) + j]
                    = [req |-> batch'[i].req, pos |-> batch'[i].ctx - batch'[i].q + j - 1,
                       slot |-> Slot(blockIds'[batch'[i].req], batch'[i].ctx - batch'[i].q + j - 1)]
    <3>1. CASE i \in DOMAIN batch
      <4>1. batch'[i] = batch[i] /\ RowStart(batch', i) = RowStart(batch, i) /\ j \in 1..batch[i].q
        <5>1. i \in 1..last
          BY <1>4, <3>1 DEF last
        <5> QED BY <1>3, <1>8, <2>2, <3>1, <5>1
      <4>2. /\ RowStart(batch, i) + j \in DOMAIN rows
            /\ rows[RowStart(batch, i) + j]
                 = [req |-> batch[i].req, pos |-> batch[i].ctx - batch[i].q + j - 1,
                    slot |-> Slot(blockIds[batch[i].req], batch[i].ctx - batch[i].q + j - 1)]
        BY <1>1, <3>1, <4>1 DEF SchedIInv, RowsLaidOut
      <4>3. blockIds'[batch[i].req] = blockIds[batch[i].req]
        BY <1>0, <1>5, <3>1
      <4>4. DOMAIN rows \subseteq DOMAIN rows'
        BY <1>3, <1>4
      <4> QED BY <1>3, <4>1, <4>2, <4>3, <4>4
    <3>2. CASE i = last
      <4>1. batch'[i] = e /\ RowStart(batch', i) = Len(rows) /\ j \in 1..count
        BY <1>4, <1>7, <1>8, <2>2, <3>2 DEF last
      <4>2. e.ctx - e.q + j - 1 = first + j - 1 /\ e.req = r
        BY <4>1
      <4>3. Len(rows) + j \in DOMAIN rows'
        BY <1>3, <1>4, <4>1
      <4> HIDE DEF e
      <4> QED BY <1>3, <4>1, <4>2, <4>3
    <3> QED BY <1>4, <3>1, <3>2
  <2> QED BY <2>1, <2>2 DEF RowsLaidOut
<1>10. RowsInTables'
  <2>1. SUFFICES ASSUME NEW k \in DOMAIN rows'
                 PROVE  /\ rows'[k].req \in Batched' \cap live /\ rows'[k].pos < numTokens'[rows'[k].req]
                        /\ rows'[k].slot = Slot(blockIds'[rows'[k].req], rows'[k].pos)
    BY <1>0 DEF RowsInTables
  <2>2. CASE k \in DOMAIN rows
    <3>1. /\ rows[k].req \in Batched \cap live /\ rows[k].pos < numTokens[rows[k].req]
          /\ rows[k].slot = Slot(blockIds[rows[k].req], rows[k].pos)
      BY <1>1, <2>2 DEF SchedIInv, RowsInTables
    <3> QED BY <1>0, <1>3, <1>7, <2>2, <3>1
  <2>3. CASE k \notin DOMAIN rows
    <3> DEFINE j == k - Len(rows)
    <3>1. j \in 1..count /\ k = Len(rows) + j
      BY <1>3, <1>4, <2>3
    <3> HIDE DEF j
    <3>2. rows'[k] = [req |-> r, pos |-> first + j - 1, slot |-> Slot(blockIds'[r], first + j - 1)]
      BY <1>3, <3>1
    <3>3. first + j - 1 < numTokens'[r]
      BY <1>0, <3>1
    <3> QED BY <1>0, <1>7, <3>2, <3>3
  <2> QED BY <2>2, <2>3
<1>11. lastIdx' \in Seq(Nat) /\ LastRows'
  <2>1. /\ lastIdx \in Seq(Nat) /\ Len(lastIdx) = Cardinality(Picks)
        /\ \A i \in Picks : lastIdx[Before(Picks, i) + 1] = RowStart(batch, i + 1)
    BY <1>1, Types DEF SchedIInv, LastRows
  <2>2. Picks \in SUBSET (1..Len(batch))
    BY <1>4 DEF Picks
  <2>3. \A i \in Picks : i + 1 \in 1..last
    BY <1>4, <2>2 DEF last
  <2>4. lastIdx' = IF sampled THEN Append(lastIdx, Len(rows) + count) ELSE lastIdx
    BY <1>0 DEF AddToBatch
  <2>5. CASE sampled
    <3> DEFINE x == Len(rows) + count
    <3>1. Picks' = Picks \cup {last} /\ lastIdx' = Append(lastIdx, x) /\ x \in Nat
      BY <1>4, <1>7, <2>4, <2>5
    <3> HIDE DEF x
    <3>2. /\ Cardinality(Picks \cup {last}) = Cardinality(Picks) + 1 /\ Cardinality(Picks) \in Nat
          /\ IsFiniteSet(Picks) /\ Before(Picks \cup {last}, last) = Cardinality(Picks)
          /\ \A i \in Picks : Before(Picks \cup {last}, i) = Before(Picks, i)
      BY <1>4, <2>2, LastIndex DEF last
    <3>3. \A i \in Picks : Before(Picks, i) + 1 \in 1..Cardinality(Picks)
      <4>1. Picks \in SUBSET Nat
        BY <2>2
      <4> QED BY <3>2, <4>1, SelectedProperties
    <3>4. /\ lastIdx' \in Seq(Nat) /\ Len(lastIdx') = Cardinality(Picks) + 1
          /\ lastIdx'[Cardinality(Picks) + 1] = x
          /\ \A k \in 1..Cardinality(Picks) : lastIdx'[k] = lastIdx[k]
      BY <2>1, <3>1, AppendProperties
    <3>5. \A i \in Picks' : lastIdx'[Before(Picks', i) + 1] = RowStart(batch', i + 1)
      <4>1. SUFFICES ASSUME NEW i \in Picks \cup {last}
                     PROVE  lastIdx'[Before(Picks \cup {last}, i) + 1] = RowStart(batch', i + 1)
        BY <3>1
      <4>2. CASE i \in Picks
        <5>1. lastIdx'[Before(Picks, i) + 1] = lastIdx[Before(Picks, i) + 1]
          BY <3>3, <3>4, <4>2
        <5>2. RowStart(batch', i + 1) = RowStart(batch, i + 1)
          BY <1>8, <2>3, <4>2
        <5> QED BY <2>1, <3>2, <4>2, <5>1, <5>2
      <4>3. CASE i = last
        BY <1>8, <3>2, <3>4, <4>3 DEF x
      <4> QED BY <4>2, <4>3
    <3> QED BY <3>1, <3>2, <3>4, <3>5 DEF LastRows
  <2>6. CASE ~sampled
    <3>1. Picks' = Picks /\ lastIdx' = lastIdx
      BY <1>7, <2>4, <2>6
    <3>2. \A i \in Picks : RowStart(batch', i + 1) = RowStart(batch, i + 1)
      BY <1>8, <2>3
    <3> QED BY <2>1, <3>1, <3>2 DEF LastRows
  <2> QED BY <2>5, <2>6
<1>12. Stocked'
  <2>1. SUFFICES ASSUME NEW q \in live, NEW p \in 0..(numTokens'[q] - 1)
                 PROVE  Pending(q, p)' \/ InCache(q, p)'
    BY <1>0 DEF Stocked
  <2>2. ASSUME p \in 0..(numTokens[q] - 1), Slot(blockIds'[q], p) = Slot(blockIds[q], p)
        PROVE  Pending(q, p)' \/ InCache(q, p)'
    <3>1. Pending(q, p) \/ InCache(q, p)
      BY <1>0, <2>2 DEF SchedIInv, Stocked, Importing
    <3>2. Pending(q, p) => Pending(q, p)'
      BY <1>0, <1>3, <1>4 DEF Pending
    <3>3. InCache(q, p) => InCache(q, p)'
      BY <1>0, <2>2 DEF InCache
    <3> QED BY <3>1, <3>2, <3>3
  <2>3. CASE q # r
    BY <1>0, <2>2, <2>3
  <2>4. CASE q = r /\ p < first
    BY <1>0, <2>2, <2>4
  <2>5. CASE q = r /\ ~(p < first)
    <3> DEFINE j == p - first + 1
    <3>1. j \in 1..count /\ first + j - 1 = p
      BY <1>0, <2>1, <2>5
    <3> HIDE DEF j
    <3>2. rows'[Len(rows) + j].req = r /\ rows'[Len(rows) + j].pos = p
      <4>1. rows'[Len(rows) + j] = [req |-> r, pos |-> first + j - 1, slot |-> Slot(blockIds'[r], first + j - 1)]
        BY <1>3, <3>1
      <4> QED BY <3>1, <4>1
    <3>3. Len(rows) + j \in DOMAIN rows'
      BY <1>3, <1>4, <3>1
    <3> QED BY <1>0, <2>5, <3>2, <3>3 DEF Pending
  <2> QED BY <2>3, <2>4, <2>5
<1> QED BY <1>3, <1>4, <1>5, <1>6, <1>7, <1>9, <1>10, <1>11, <1>12 DEF last, Fed

\* What the kept types and queues leave to say of a step that feeds a request.
LEMMA FeedTypes ==
  ASSUME SchedIInv, BMInv', pc' \in {"decode", "prefill"}, UNCHANGED <<req, prefix, outLen, waiting, finished, kv>>,
         todo' = Tail(todo), todo # <<>>, budget' \in 0..MaxBatchTokens,
         batch' \in Seq(Entries), rows' \in Seq(FlatRows), lastIdx' \in Seq(Nat),
         prefillPos' \in [Seqs -> Nat], prefilling' \in Seq(Seqs), running' \in Seq(Seqs),
         state' \in [Seqs -> {"absent", "WAITING", "PREFILLING", "RUNNING", "FINISHED"}]
  PROVE  ProofTypes'
<1>1. \A q \in {waiting', prefilling', running', finished', todo'} : q \in Seq(Seqs)
  BY Types, Visited
<1>2. \A b \in Blocks : \A o \in 0..(BlockSize - 1) :
        kv'[b][o] = NoToken \/ (kv'[b][o].req \in Seqs /\ kv'[b][o].pos \in Nat)
  BY DEF SchedIInv, ProofTypes, SchedTypeOK
<1>3. /\ prefix' \in [Seqs -> Nat] /\ outLen' \in [Seqs -> Nat] /\ req' \in [Seqs -> [plen : Nat, maxNew : Nat, prio : Int]]
      /\ BMTypeOK'
  BY Types DEF BMInv
<1> QED BY <1>1, <1>2, <1>3 DEF ProofTypes, SchedTypeOK

\* A running request gets a slot for its last token and a row in the batch.
LEMMA DecodeKeeps ==
  ASSUME SchedIInv, Decode
  PROVE  SchedIInv' /\ BMNext
<1>1. pc = "decode" /\ todo # <<>> /\ budget >= 1
  BY DEF Decode
<1>2. PICK r \in Seqs : r = Head(todo) /\ r \in Range(todo)
  BY <1>1, Visited
<1>a. PICK yes \in BOOLEAN : yes = TRUE
  OBVIOUS
<1> DEFINE first == numTokens[r]
<1>3. /\ pc' = "decode" /\ todo' = Tail(todo) /\ AppendToken(r) /\ AddToBatch(r, blockIds'[r], first, 1, yes)
      /\ UNCHANGED <<req, state, prefix, prefillPos, outLen, waiting, prefilling, running, finished, kv>>
  BY <1>1, <1>2, <1>a DEF Decode, AddToBatch, reqVars, queueVars
<1>4. HasBatch /\ HasBatch' /\ InLoops /\ InLoops' /\ Retiring = {} /\ Retiring' = {}
  BY <1>1, <1>3 DEF HasBatch, InLoops, Retiring
<1>5. /\ BMInv' /\ BMNext /\ r \in live /\ live' = live /\ \A q \in live \ {r} : TableSame(q)
      /\ numTokens'[r] = first + 1 /\ Len(blockIds[r]) <= Len(blockIds'[r])
      /\ \A i \in 1..Len(blockIds[r]) : blockIds'[r][i] = blockIds[r][i]
      /\ Range(blockIds'[r]) \ TableBlocks(r) \subseteq free
  BY <1>3, Types, AppendForClient
<1>6. r \notin Batched /\ r \in Range(running) /\ state[r] = "RUNNING" /\ first \in Nat
  BY <1>1, <1>2, <1>4, QueueStates, Types DEF SchedIInv, Entered, Visits
<1>7. first = req[r].plen + outLen[r] - 1 /\ outLen[r] >= 1
  BY <1>1, <1>6 DEF SchedIInv, Lengths, InState
<1>8. \A p \in 0..(first - 1) : Slot(blockIds'[r], p) = Slot(blockIds[r], p)
  <2> TAKE p \in 0..(first - 1)
  <2>1. p \in Nat /\ p < TableCapacity(r)
    BY <1>5, StoredPosition
  <2>2. blockIds[r] \in Seq(Blocks) /\ Len(blockIds[r]) \in Nat
    <3>1. blockIds[r] \in Seq(Blocks)
      BY <1>5, Types, CapacityNat
    <3> QED BY <3>1, LenProperties
  <2>3. (p \div BlockSize) + 1 \in 1..Len(blockIds[r])
    BY <2>1, <2>2, PositionInTable DEF TableCapacity
  <2> QED BY <1>5, <2>3 DEF Slot
<1> HIDE DEF first
<1>9. Feeds(r, first, 1, yes)
  BY <1>1, <1>3, <1>5, <1>6, <1>8 DEF Feeds, first
<1>10. /\ batch' \in Seq(Entries) /\ DOMAIN batch' = DOMAIN batch \cup {Len(batch) + 1}
       /\ Len(batch) + 1 \notin DOMAIN batch
       /\ \A i \in DOMAIN batch : batch'[i] = batch[i] /\ batch[i].req \in Batched
       /\ batch'[Len(batch) + 1] = [req |-> r, q |-> 1, ctx |-> first + 1, sampled |-> TRUE]
       /\ rows' \in Seq(FlatRows) /\ Len(rows') = Len(rows) + 1 /\ lastIdx' \in Seq(Nat)
       /\ Batched' = Batched \cup {r} /\ Batched \subseteq live
       /\ Emitting' = Emitting \cup {r}
       /\ RowsLaidOut' /\ RowsInTables' /\ LastRows' /\ Stocked'
  <2>1. Fed(r, first, 1, yes)
    BY <1>6, <1>9, FeedKeeps
  <2> QED BY <1>a, <2>1 DEF Fed
<1>11. budget' = budget - 1 /\ budget' \in 0..MaxBatchTokens
  <2>1. budget' = budget - 1
    BY <1>3 DEF AddToBatch
  <2> QED BY <1>1, <2>1, BudgetTypes
<1>12. ProofTypes'
  BY <1>1, <1>3, <1>5, <1>10, <1>11, Types, FeedTypes
<1>13. Queues'
  <2>1. \A q \in {waiting', prefilling', running', finished', todo'} : IsInjective(q)
    BY <1>1, <1>3, Types, Visited
  <2> QED BY <1>3, <1>4, <2>1 DEF SchedIInv, Queues, InState
<1>14. TablesMatchQueues'
  BY <1>1, <1>3, <1>5 DEF SchedIInv, TablesMatchQueues
<1>15. RequestsIsolated'
  <2>1. \A q \in live : TableBlocks(q) \cap free = {}
    BY Types, ListedNotFree
  <2>2. \A q \in live \ {r} : TableBlocks(q)' = TableBlocks(q)
    BY <1>5 DEF TableBlocks, TableSame
  <2>3. TableBlocks(r)' \subseteq TableBlocks(r) \cup free
    BY <1>5 DEF TableBlocks
  <2> QED BY <1>5, <2>1, <2>2, <2>3 DEF SchedIInv, RequestsIsolated
<1>16. Progress'
  <2>1. \A q \in InState("PREFILLING") : q \in live \ {r}
    BY <1>6, QueueStates DEF InState
  <2>2. \A q \in live' : state'[q] \in {"WAITING", "PREFILLING"} => req'[q].plen <= TableCapacity(q)'
    BY <1>3, <1>5, <1>6 DEF SchedIInv, Progress, TableCapacity, TableSame
  <2> QED BY <1>3, <1>5, <2>1, <2>2 DEF SchedIInv, Progress, Added, InState, TableSame
<1>17. Visits'
  BY <1>1, <1>3, Visited DEF SchedIInv, Visits
<1>18. Budgets'
  <2>1. /\ Len(rows) <= MaxBatchTokens /\ Len(running) <= MaxBatchTokens /\ budget + Len(rows) = MaxBatchTokens
        /\ Len(running) = Len(todo) + Len(rows)
    BY <1>1, <1>4 DEF SchedIInv, Budgets
  <2>2. Len(rows) \in Nat /\ Len(running) \in Nat /\ Len(todo) \in Nat /\ budget \in Nat /\ Len(todo') = Len(todo) - 1
    BY <1>1, <1>3, Types, LenProperties, Visited
  <2>3. MaxBatchTokens \in Nat \ {0} /\ running' = running /\ pc' = "decode" /\ budget' = budget - 1 /\ Len(rows') = Len(rows) + 1
    BY <1>3, <1>10, <1>11, BudgetAssumption
  <2>4. /\ Len(rows') <= MaxBatchTokens /\ budget' + Len(rows') = MaxBatchTokens /\ Len(running') = Len(todo') + Len(rows')
    BY <1>1, <2>1, <2>2, <2>3
  <2> QED BY <2>1, <2>3, <2>4 DEF Budgets
<1>19. Entered'
  <2>1. \A i \in DOMAIN batch : /\ batch[i].req \in live \ {r} /\ numTokens'[batch[i].req] = numTokens[batch[i].req]
    BY <1>5, <1>6, <1>10 DEF TableSame
  <2>2. Range(running') = Emitting' \cup Range(todo')
    <3>1. Range(running) = Emitting \cup Range(todo)
      BY <1>1, <1>4 DEF SchedIInv, Entered
    <3> QED BY <1>1, <1>2, <1>3, <1>10, <3>1, Visited
  <2>3. Range(todo') \cap Batched' = {}
    BY <1>1, <1>2, <1>3, <1>4, <1>10, Visited DEF SchedIInv, Entered
  <2>4. \A i, j \in DOMAIN batch' : batch'[i].req = batch'[j].req => i = j
    BY <1>4, <1>6, <1>10 DEF SchedIInv, Entered
  <2>5. \A i \in DOMAIN batch' :
          /\ state'[batch'[i].req] = IF batch'[i].sampled THEN "RUNNING" ELSE "PREFILLING"
          /\ batch'[i].ctx = numTokens'[batch'[i].req] /\ 1 <= batch'[i].q /\ batch'[i].q <= batch'[i].ctx
    <3> TAKE i \in DOMAIN batch'
    <3>1. CASE i \in DOMAIN batch
      BY <1>3, <1>4, <1>10, <2>1, <3>1 DEF SchedIInv, Entered
    <3>2. CASE i = Len(batch) + 1
      BY <1>3, <1>5, <1>6, <1>10, <3>2
    <3> QED BY <1>10, <3>1, <3>2
  <2>6. \A i \in DOMAIN batch' : batch'[i].sampled
    BY <1>1, <1>4, <1>10 DEF SchedIInv, Entered
  <2> QED BY <1>3, <2>2, <2>3, <2>4, <2>5, <2>6 DEF Entered
<1>20. Lengths'
  <2>1. \A q \in InState("RUNNING") : q \in live
    BY QueueStates DEF InState
  <2>2. \A q \in InState("RUNNING") \ Batched' : numTokens'[q] = req[q].plen + outLen[q] - 1 /\ outLen[q] >= 1
    BY <1>1, <1>5, <1>10, <2>1 DEF SchedIInv, Lengths, TableSame
  <2>3. \A q \in Emitting : numTokens'[q] = req[q].plen + outLen[q]
    <3>1. \A q \in Emitting : q \in Batched
      BY DEF Emitting, Batched, Picks
    <3> QED BY <1>4, <1>5, <1>6, <1>10, <3>1 DEF SchedIInv, Lengths, TableSame
  <2>4. numTokens'[r] = req[r].plen + outLen[r]
    <3>1. req[r].plen \in Nat /\ outLen[r] \in Nat
      BY <1>6, Types
    <3> QED BY <1>5, <1>7, <3>1
  <2> QED BY <1>3, <1>10, <2>2, <2>3, <2>4 DEF Lengths, InState
<1> QED BY <1>5, <1>10, <1>12, <1>13, <1>14, <1>15, <1>16, <1>17, <1>18, <1>19, <1>20 DEF SchedIInv

\* A chunk is not empty, and is within the prompt, the chunk size and the budget.
LEMMA ChunkSizes ==
  ASSUME SchedIInv, NEW r \in Seqs, state[r] = "PREFILLING", budget >= 1
  PROVE  /\ ChunkOf(r) \in Nat \ {0} /\ ChunkOf(r) <= budget /\ prefillPos[r] + ChunkOf(r) <= req[r].plen
         /\ prefillPos[r] \in Nat /\ req[r].plen \in PromptLens /\ req[r].plen \in Nat
<1> DEFINE left == req[r].plen - prefillPos[r]
<1>1. /\ prefillPos[r] \in Nat /\ req[r].plen \in PromptLens /\ req[r].plen \in Nat /\ prefillPos[r] < req[r].plen
  BY Types, RequestAssumption DEF SchedIInv, Progress, Added, InState
<1>2. left \in Nat \ {0} /\ ChunkSize \in Nat \ {0} /\ budget \in Nat \ {0}
  <2>1. budget \in Nat /\ ChunkSize \in Nat \ {0}
    BY BudgetTypes
  <2> QED BY <1>1, <2>1
<1>3. ChunkOf(r) = CHOOSE x \in {left, ChunkSize, budget} : \A y \in {left, ChunkSize, budget} : x <= y
  BY DEF ChunkOf, Min
<1> HIDE DEF left
<1>4. \E x \in {left, ChunkSize, budget} : \A y \in {left, ChunkSize, budget} : x <= y
  BY <1>2
<1>5. ChunkOf(r) \in {left, ChunkSize, budget} /\ ChunkOf(r) <= left /\ ChunkOf(r) <= budget
  BY <1>3, <1>4
<1> QED BY <1>1, <1>2, <1>5 DEF left

\* A request advances by one chunk; one that is whole goes to the running requests.
LEMMA ChunkKeeps ==
  ASSUME SchedIInv, Chunk
  PROVE  SchedIInv' /\ BMNext
<1>1. pc = "prefill" /\ todo # <<>> /\ budget >= 1
  BY DEF Chunk
<1>2. PICK r \in Seqs : r = Head(todo) /\ r \in Range(todo)
  BY <1>1, Visited
<1> DEFINE first == prefillPos[r]
           count == ChunkOf(r)
           whole == first + count >= req[r].plen
<1>3. /\ pc' = "prefill" /\ todo' = Tail(todo) /\ state[r] = "PREFILLING"
      /\ AddToBatch(r, blockIds[r], first, count, whole) /\ SetNumTokens(r, first + count)
      /\ prefillPos' = [prefillPos EXCEPT ![r] = @ + count]
      /\ IF whole
         THEN /\ state' = [state EXCEPT ![r] = "RUNNING"]
              /\ prefilling' = RemoveFirst(prefilling, r)
              /\ running' = Append(running, r)
         ELSE UNCHANGED <<state, prefilling, running>>
      /\ UNCHANGED <<req, prefix, outLen, waiting, finished, kv>>
  BY <1>1, <1>2 DEF Chunk
<1>4. HasBatch /\ HasBatch' /\ InLoops /\ InLoops' /\ Retiring = {} /\ Retiring' = {}
  BY <1>1, <1>3 DEF HasBatch, InLoops, Retiring
<1>5. /\ count \in Nat \ {0} /\ count <= budget /\ first + count <= req[r].plen
      /\ first \in Nat /\ req[r].plen \in PromptLens /\ req[r].plen \in Nat
  BY <1>1, <1>3, ChunkSizes
<1>6. /\ r \in live /\ r \notin Batched /\ r \in Range(prefilling) /\ r \notin Range(running)
      /\ numTokens[r] = first /\ req[r].plen <= TableCapacity(r) /\ TableCapacity(r) \in Nat /\ outLen[r] = 0
  <2>1. r \in live
    BY <1>3 DEF SetNumTokens
  <2>2. r \notin Batched
    BY <1>2, <1>4 DEF SchedIInv, Entered
  <2>3. r \in Range(prefilling) /\ r \notin Range(running)
    BY <1>3, <1>4, QueueStates
  <2>4. numTokens[r] = first /\ req[r].plen <= TableCapacity(r) /\ outLen[r] = 0
    BY <1>3, <2>1 DEF SchedIInv, Progress, InState
  <2> QED BY <2>1, <2>2, <2>3, <2>4, Types, CapacityNat
<1>7. first + count \in TokenCounts /\ first + count <= TableCapacity(r)
  <2>1. first + count \in 0..req[r].plen
    BY <1>5
  <2> QED BY <1>5, <1>6, <2>1, ChunkCounts
<1> HIDE DEF count, first
<1>8. /\ BMInv' /\ BMNext /\ live' = live /\ blockIds' = blockIds /\ \A q \in live \ {r} : TableSame(q)
      /\ numTokens'[r] = first + count
  <2> DEFINE total == first + count
  <2>1. SetNumTokens(r, total) /\ total \in TokenCounts /\ total <= TableCapacity(r)
    BY <1>3, <1>7
  <2> HIDE DEF total
  <2>2. /\ BMInv' /\ BMNext /\ UNCHANGED <<live, blockIds, pins, free>>
        /\ \A q \in live \ {r} : TableSame(q)
        /\ numTokens'[r] = total
    BY <2>1, Types, CountForClient
  <2> QED BY <2>2 DEF total
<1>9. Feeds(r, first, count, whole)
  BY <1>1, <1>3, <1>6, <1>8 DEF Feeds
<1>10. whole \in BOOLEAN /\ (whole <=> first + count = req[r].plen)
  BY <1>5
<1> HIDE DEF whole
<1>11. /\ batch' \in Seq(Entries) /\ DOMAIN batch' = DOMAIN batch \cup {Len(batch) + 1}
       /\ Len(batch) + 1 \notin DOMAIN batch
       /\ \A i \in DOMAIN batch : batch'[i] = batch[i] /\ batch[i].req \in Batched
       /\ batch'[Len(batch) + 1] = [req |-> r, q |-> count, ctx |-> first + count, sampled |-> whole]
       /\ rows' \in Seq(FlatRows) /\ Len(rows') = Len(rows) + count /\ lastIdx' \in Seq(Nat)
       /\ Batched' = Batched \cup {r} /\ Batched \subseteq live
       /\ Emitting' = Emitting \cup (IF whole THEN {r} ELSE {})
       /\ RowsLaidOut' /\ RowsInTables' /\ LastRows' /\ Stocked'
  <2>1. Fed(r, first, count, whole)
    BY <1>5, <1>9, <1>10, FeedKeeps
  <2> QED BY <2>1 DEF Fed
<1>12. budget' = budget - count /\ budget' \in 0..MaxBatchTokens
  <2>1. budget' = budget - count
    BY <1>3 DEF AddToBatch
  <2> QED BY <1>5, <2>1, BudgetTypes
<1>13. /\ prefilling' \in Seq(Seqs) /\ running' \in Seq(Seqs) /\ IsInjective(prefilling') /\ IsInjective(running')
       /\ Range(prefilling') = Range(prefilling) \ (IF whole THEN {r} ELSE {})
       /\ Range(running') = Range(running) \cup (IF whole THEN {r} ELSE {})
       /\ Len(running') = Len(running) + (IF whole THEN 1 ELSE 0)
  <2>1. Len(running) \in Nat
    BY Types, LenProperties
  <2>2. CASE whole
    <3>1. prefilling' = RemoveFirst(prefilling, r) /\ running' = Append(running, r)
      BY <1>3, <2>2
    <3>2. prefilling' \in Seq(Seqs) /\ IsInjective(prefilling') /\ Range(prefilling') = Range(prefilling) \ {r}
      BY <1>6, <3>1, Types, RemoveFirstProperties
    <3>3. /\ running' \in Seq(Seqs) /\ IsInjective(running') /\ Range(running') = Range(running) \cup {r}
          /\ Len(running') = Len(running) + 1
      BY <1>6, <3>1, Types, AppendDistinct
    <3> QED BY <2>2, <3>2, <3>3
  <2>3. CASE ~whole
    BY <1>3, <2>1, <2>3, Types
  <2> QED BY <2>2, <2>3
<1>14. \A q \in Seqs : /\ state'[q] = IF q = r /\ whole THEN "RUNNING" ELSE state[q]
                       /\ prefillPos'[q] = IF q = r THEN first + count ELSE prefillPos[q]
  BY <1>3, Types DEF first
<1>15. ProofTypes'
  <2>1. prefillPos' \in [Seqs -> Nat]
    <3>1. prefillPos' = [prefillPos EXCEPT ![r] = @ + count] /\ prefillPos \in [Seqs -> Nat] /\ count \in Nat
      BY <1>3, <1>5, Types
    <3> QED BY <3>1
  <2>2. state' \in [Seqs -> {"absent", "WAITING", "PREFILLING", "RUNNING", "FINISHED"}]
    BY <1>3, Types
  <2> QED BY <1>1, <1>3, <1>8, <1>11, <1>12, <1>13, <2>1, <2>2, FeedTypes
<1>16. Queues'
  <2>1. \A q \in {waiting', prefilling', running', finished', todo'} : IsInjective(q)
    BY <1>1, <1>3, <1>13, Types, Visited
  <2>2. /\ InState("WAITING")' = InState("WAITING") /\ InState("FINISHED")' = InState("FINISHED")
        /\ InState("PREFILLING")' = InState("PREFILLING") \ (IF whole THEN {r} ELSE {})
        /\ InState("RUNNING")' = InState("RUNNING") \cup (IF whole THEN {r} ELSE {})
    BY <1>3, <1>14 DEF InState
  <2>3. /\ Range(waiting) = InState("WAITING") /\ Range(prefilling) = InState("PREFILLING")
        /\ Range(running) = InState("RUNNING") /\ Range(finished) = InState("FINISHED")
    BY <1>4 DEF SchedIInv, Queues
  <2> QED BY <1>3, <1>4, <1>13, <2>1, <2>2, <2>3 DEF Queues
<1>17. TablesMatchQueues'
  BY <1>1, <1>3, <1>6, <1>8, <1>13 DEF SchedIInv, TablesMatchQueues
<1>18. RequestsIsolated'
  BY <1>8 DEF SchedIInv, RequestsIsolated, TableBlocks
<1>19. Progress'
  <2>1. \A q \in Added' : req'[q].plen \in PromptLens /\ prefix'[q] < req'[q].plen
    BY <1>3, <1>14 DEF SchedIInv, Progress, Added
  <2>2. /\ \A q \in (InState("WAITING") \cup InState("PREFILLING") \cup InState("absent"))' : outLen'[q] = 0
        /\ \A q \in (InState("WAITING") \cup InState("absent"))' : prefillPos'[q] = 0
    BY <1>3, <1>14 DEF SchedIInv, Progress, InState
  <2>3. \A q \in InState("PREFILLING")' : numTokens'[q] = prefillPos'[q] /\ prefillPos'[q] < req'[q].plen
    <3>1. \A q \in InState("PREFILLING") : q \in live
      BY QueueStates DEF InState
    <3> QED BY <1>3, <1>5, <1>8, <1>10, <1>14, <3>1 DEF SchedIInv, Progress, InState, TableSame
  <2>4. \A q \in live' : state'[q] \in {"WAITING", "PREFILLING"} => req'[q].plen <= TableCapacity(q)'
    BY <1>3, <1>8, <1>14, Types DEF SchedIInv, Progress, TableCapacity
  <2> QED BY <2>1, <2>2, <2>3, <2>4 DEF Progress
<1>20. Visits'
  <2>1. /\ Range(todo) \subseteq InState("WAITING") \cup InState("PREFILLING")
        /\ Range(waiting) \subseteq Range(todo)
        /\ \A i, j \in DOMAIN todo :
             i < j /\ state[todo[i]] = "WAITING" /\ state[todo[j]] = "WAITING" => AdmitBefore(todo[i], todo[j])
    BY <1>1 DEF SchedIInv, Visits
  <2>2. /\ Len(todo) \in Nat /\ DOMAIN todo = 1..Len(todo) /\ DOMAIN todo' = 1..(Len(todo) - 1)
        /\ \A i \in 1..(Len(todo) - 1) : todo'[i] = todo[i + 1]
        /\ Range(todo') = Range(todo) \ {r}
        /\ \A i \in DOMAIN todo : todo[i] \in Seqs
    <3>1. /\ Tail(todo) \in Seq(Seqs) /\ Len(Tail(todo)) = Len(todo) - 1 /\ Range(Tail(todo)) = Range(todo) \ {r}
          /\ \A i \in 1..(Len(todo) - 1) : Tail(todo)[i] = todo[i + 1]
      BY <1>1, <1>2, Visited
    <3>2. \A i \in DOMAIN todo : todo[i] \in Seqs
      BY Types, LenProperties, ElementOfSeq
    <3> QED BY <1>3, <3>1, <3>2, Types, LenProperties
  <2>3. \A i, j \in DOMAIN todo' :
          i < j /\ state'[todo'[i]] = "WAITING" /\ state'[todo'[j]] = "WAITING" => AdmitBefore(todo[i], todo[j])'
    <3>1. SUFFICES ASSUME NEW i \in DOMAIN todo', NEW j \in DOMAIN todo', i < j,
                          state'[todo'[i]] = "WAITING", state'[todo'[j]] = "WAITING"
                   PROVE  AdmitBefore(todo[i], todo[j])'
      OBVIOUS
    <3>2. i + 1 \in DOMAIN todo /\ j + 1 \in DOMAIN todo /\ i + 1 < j + 1 /\ todo'[i] = todo[i + 1] /\ todo'[j] = todo[j + 1]
      BY <2>2, <3>1
    <3>3. state[todo[i + 1]] = "WAITING" /\ state[todo[j + 1]] = "WAITING"
      BY <1>14, <2>2, <3>1, <3>2
    <3>4. AdmitBefore(todo[i + 1], todo[j + 1])
      BY <2>1, <3>2, <3>3
    <3> QED BY <1>3, <3>2, <3>4 DEF AdmitBefore
  <2>4. Range(todo') \subseteq (InState("WAITING") \cup InState("PREFILLING"))'
    BY <1>14, <2>1, <2>2 DEF InState
  <2>5. Range(waiting') \subseteq Range(todo')
    <3>1. r \notin Range(waiting)
      BY <1>3, QueueStates
    <3> QED BY <1>3, <2>1, <2>2, <3>1
  <2> QED BY <1>3, <2>3, <2>4, <2>5 DEF Visits
<1>21. Budgets'
  <2>1. /\ Len(rows) <= MaxBatchTokens /\ Len(running) <= MaxBatchTokens /\ budget + Len(rows) = MaxBatchTokens
        /\ Len(running) <= Len(rows)
    BY <1>1, <1>4 DEF SchedIInv, Budgets
  <2>2. Len(rows) \in Nat /\ Len(running) \in Nat /\ budget \in Nat
    BY Types, LenProperties
  <2>3. Len(running') <= Len(running) + 1
    BY <1>13, <2>2
  <2>4. MaxBatchTokens \in Nat \ {0} /\ pc' = "prefill" /\ budget' = budget - count /\ Len(rows') = Len(rows) + count
    BY <1>3, <1>11, <1>12, BudgetAssumption
  <2>5. Len(running') \in Nat
    BY <1>13, LenProperties
  <2>6. /\ Len(rows') <= MaxBatchTokens /\ budget' + Len(rows') = MaxBatchTokens /\ Len(running') <= Len(rows')
        /\ Len(running') <= MaxBatchTokens
    BY <1>5, <2>1, <2>2, <2>3, <2>4, <2>5
  <2> QED BY <2>4, <2>6 DEF Budgets
<1>22. Entered'
  <2>1. \A i \in DOMAIN batch : /\ batch[i].req \in live \ {r} /\ numTokens'[batch[i].req] = numTokens[batch[i].req]
                                /\ state'[batch[i].req] = state[batch[i].req]
    BY <1>6, <1>8, <1>11, <1>14, Types DEF TableSame
  <2>2. Range(running') = Emitting'
    <3>1. Range(running) = Emitting
      BY <1>1, <1>4 DEF SchedIInv, Entered
    <3> QED BY <1>11, <1>13, <3>1
  <2>3. Range(todo') \cap Batched' = {}
    BY <1>1, <1>2, <1>3, <1>4, <1>11, Visited DEF SchedIInv, Entered
  <2>4. \A i, j \in DOMAIN batch' : batch'[i].req = batch'[j].req => i = j
    BY <1>4, <1>6, <1>11 DEF SchedIInv, Entered
  <2>5. \A i \in DOMAIN batch' :
          /\ state'[batch'[i].req] = IF batch'[i].sampled THEN "RUNNING" ELSE "PREFILLING"
          /\ batch'[i].ctx = numTokens'[batch'[i].req] /\ 1 <= batch'[i].q /\ batch'[i].q <= batch'[i].ctx
    <3> TAKE i \in DOMAIN batch'
    <3>1. CASE i \in DOMAIN batch
      BY <1>4, <1>11, <2>1, <3>1 DEF SchedIInv, Entered
    <3>2. CASE i = Len(batch) + 1
      BY <1>3, <1>5, <1>8, <1>11, <1>14, <3>2
    <3> QED BY <1>11, <3>1, <3>2
  <2> QED BY <1>3, <2>2, <2>3, <2>4, <2>5 DEF Entered
<1>23. Lengths'
  <2>1. \A q \in Emitting : numTokens'[q] = req[q].plen + outLen[q]
    <3>1. \A q \in Emitting : q \in Batched
      BY DEF Emitting, Batched, Picks
    <3> QED BY <1>4, <1>6, <1>8, <1>11, <3>1 DEF SchedIInv, Lengths, TableSame
  <2>2. whole => numTokens'[r] = req[r].plen + outLen[r]
    BY <1>5, <1>6, <1>8, <1>10
  <2> QED BY <1>3, <1>11, <2>1, <2>2 DEF Lengths
<1> QED BY <1>8, <1>11, <1>15, <1>16, <1>17, <1>18, <1>19, <1>20, <1>21, <1>22, <1>23 DEF SchedIInv

-----------------------------------------------------------------------------
\* The engine as a whole.

\* The engine starts in the invariant.
LEMMA InitKeeps == Init => SchedIInv
<1> SUFFICES ASSUME Init PROVE SchedIInv
  OBVIOUS
<1> USE DEF Init
<1>1. BMInv /\ BMTypeOK /\ live = {} /\ numTokens = [r \in Seqs |-> 0]
  BY InitInv DEF BMInv, BMInit
<1>2. ProofTypes
  <2>1. /\ req \in [Seqs -> [plen : Nat, maxNew : Nat, prio : Int]]
        /\ state \in [Seqs -> {"absent", "WAITING", "PREFILLING", "RUNNING", "FINISHED"}]
        /\ prefix \in [Seqs -> Nat] /\ prefillPos \in [Seqs -> Nat] /\ outLen \in [Seqs -> Nat]
    BY DEF NoRequest
  <2>2. \A q \in {waiting, prefilling, running, finished, todo} : q \in Seq(Seqs)
    <3>1. \A q \in {waiting, prefilling, running, finished, todo} : q = <<>>
      OBVIOUS
    <3>2. <<>> \in Seq(Seqs)
      OBVIOUS
    <3> QED BY <3>1, <3>2
  <2>3. batch \in Seq(Entries) /\ rows \in Seq(FlatRows) /\ lastIdx \in Seq(Nat) /\ budget \in 0..MaxBatchTokens
    BY BudgetAssumption
  <2> QED BY <1>1, <2>1, <2>2, <2>3 DEF ProofTypes, SchedTypeOK
<1>3. Range(<<>>) = {} /\ IsInjective(<<>>)
  BY DEF Range, IsInjective
<1>4. Queues
  BY <1>3 DEF Queues, InState, Retiring
<1>5. TablesMatchQueues /\ RequestsIsolated
  BY <1>1, <1>3 DEF TablesMatchQueues, RequestsIsolated
<1>6. Progress /\ Visits
  BY <1>1 DEF Progress, Visits, Added, InState
<1>7. Budgets
  BY BudgetAssumption DEF Budgets, InLoops
<1>8. Entered /\ Lengths /\ RowsLaidOut /\ RowsInTables /\ LastRows
  BY DEF Entered, Lengths, RowsLaidOut, RowsInTables, LastRows, HasBatch, InState
<1>9. Stocked
  BY <1>1 DEF Stocked
<1> QED BY <1>1, <1>2, <1>4, <1>5, <1>6, <1>7, <1>8, <1>9 DEF SchedIInv

\* A step that changes nothing.
LEMMA StutterKeeps ==
  ASSUME SchedIInv, UNCHANGED vars
  PROVE  SchedIInv' /\ UNCHANGED bmVars
<1> USE DEF vars, schedVars, queueVars, stepVars
<1>1. BMInv' /\ RequestsIsolated' /\ Progress' /\ BMTypeOK' /\ UNCHANGED <<reqVars, bmVars>>
  BY Frame
<1>2. ProofTypes'
  BY <1>1 DEF SchedIInv, ProofTypes, SchedTypeOK, reqVars
<1>3. Queues' /\ TablesMatchQueues' /\ Budgets'
  BY <1>1 DEF SchedIInv, Queues, InState, Retiring, reqVars, TablesMatchQueues, bmVars, Budgets, InLoops
<1>4. HasBatch' = HasBatch /\ InLoops' = InLoops /\ Picks' = Picks /\ Emitting' = Emitting /\ Batched' = Batched
  BY DEF HasBatch, InLoops, Picks, Emitting, Batched
<1>5. Visits'
  BY <1>1 DEF SchedIInv, Visits, AdmitBefore, InState, reqVars
<1>6. Entered' /\ Lengths'
  BY <1>1, <1>4 DEF SchedIInv, Entered, Lengths, InState, reqVars, bmVars
<1>7. RowsLaidOut' /\ RowsInTables' /\ LastRows'
  BY <1>1, <1>4 DEF SchedIInv, RowsLaidOut, RowsInTables, LastRows, bmVars
<1>8. Stocked'
  BY <1>1 DEF SchedIInv, Stocked, Importing, Pending, InCache, bmVars
<1> QED BY <1>1, <1>2, <1>3, <1>5, <1>6, <1>7, <1>8 DEF SchedIInv

\* Every step of the engine keeps the invariant and is a step of the allocator.
LEMMA StepKeeps ==
  ASSUME SchedIInv, [Next]_vars
  PROVE  SchedIInv' /\ [BMNext]_bmVars
<1>1. CASE UNCHANGED vars
  BY <1>1, StutterKeeps
<1>2. CASE \E r \in Seqs : AddRequest(r)
  BY <1>2, AddRequestKeeps
<1>3. CASE StartStep
  BY <1>3, StartStepKeeps
<1>4. CASE Decode
  BY <1>4, DecodeKeeps
<1>5. CASE DecodeRaises
  BY <1>5, DecodeRaisesKeeps
<1>6. CASE QueuePrefills
  BY <1>6, QueuePrefillsKeeps
<1>7. CASE Admit
  BY <1>7, AdmitKeeps
<1>8. CASE AdmitFails
  BY <1>8, AdmitFailsKeeps
<1>9. CASE Import
  BY <1>9, ImportKeeps
<1>10. CASE Chunk
  BY <1>10, ChunkKeeps
<1>11. CASE EndPrefill
  BY <1>11, EndPrefillKeeps
<1>12. CASE Forward
  BY <1>12, ForwardKeeps
<1>13. CASE Sample
  BY <1>13, SampleKeeps
<1>14. CASE Retire
  BY <1>14, RetireKeeps
<1> QED BY <1>1, <1>2, <1>3, <1>4, <1>5, <1>6, <1>7, <1>8, <1>9, <1>10, <1>11, <1>12, <1>13, <1>14 DEF Next, Step

\* The strengthened invariant holds throughout, between and inside the steps.
THEOREM EngineInductive == Spec => []SchedIInv
BY InitKeeps, StepKeeps, PTL DEF Spec

\* The queues, states and tables of the requests agree, their blocks are apart, and
\* all running requests fit in a batch that is within the budget (step, lines 113-233).
THEOREM EngineConsistent == Spec => []SchedInv
BY EngineInductive, IInvGivesSchedInv, PTL

\* The engine is a client the allocator is made for: what is proved of the allocator
\* holds here.
THEOREM EngineUsesAllocator == Spec => UsesAllocator
<1>1. Init => BMInit
  BY DEF Init
<1>2. SchedIInv /\ [Next]_vars => [BMNext]_bmVars
  BY StepKeeps
<1> QED BY <1>1, <1>2, EngineInductive, PTL DEF Spec, UsesAllocator, BMSpec

-----------------------------------------------------------------------------
\* Which request a logits row belongs to.

\* The i-th sampled row is the last row of the i-th request that is sampled.
LEMMA RowsAreTheirs == SchedIInv => NoCrossSequenceLeakage
<1> SUFFICES ASSUME SchedIInv, pc = "sample"
             PROVE  /\ Len(lastIdx) = Len(SampleBatch)
                    /\ \A k \in DOMAIN lastIdx :
                         /\ lastIdx[k] \in DOMAIN rows
                         /\ rows[lastIdx[k]].req = SampleBatch[k].req
                         /\ rows[lastIdx[k]].pos = SampleBatch[k].ctx - 1
  BY DEF NoCrossSequenceLeakage
<1>1. HasBatch
  BY DEF HasBatch
<1>2. /\ Picks \subseteq DOMAIN batch /\ Cardinality(Picks) \in Nat /\ Len(SampleBatch) = Cardinality(Picks)
      /\ \A k \in 1..Cardinality(Picks) : \E i \in Picks : Before(Picks, i) = k - 1 /\ SampleBatch[k] = batch[i]
  BY <1>1, SampleBatchIsPicks
<1>3. /\ Len(lastIdx) = Cardinality(Picks)
      /\ \A i \in Picks : lastIdx[Before(Picks, i) + 1] = RowStart(batch, i + 1)
  BY <1>1 DEF SchedIInv, LastRows
<1> SUFFICES ASSUME NEW k \in DOMAIN lastIdx
             PROVE  /\ lastIdx[k] \in DOMAIN rows
                    /\ rows[lastIdx[k]].req = SampleBatch[k].req
                    /\ rows[lastIdx[k]].pos = SampleBatch[k].ctx - 1
  BY <1>2, <1>3
<1>4. k \in 1..Cardinality(Picks)
  BY <1>3, Types, LenProperties
<1>5. PICK i \in Picks : Before(Picks, i) = k - 1 /\ SampleBatch[k] = batch[i]
  BY <1>2, <1>4
<1>6. lastIdx[k] = RowStart(batch, i + 1)
  <2>1. (k - 1) + 1 = k
    BY <1>4
  <2> QED BY <1>3, <1>5, <2>1
<1>7. i \in DOMAIN batch /\ i \in Nat \ {0} /\ batch[i].q \in Nat /\ batch[i].ctx \in Nat
  BY <1>2, EntryTypes
<1>8. RowStart(batch, i + 1) = RowStart(batch, i) + batch[i].q
  BY <1>7, RowStartNext
<1>9. batch[i].q \in 1..batch[i].q
  BY <1>1, <1>7 DEF SchedIInv, Entered
<1> DEFINE row == RowStart(batch, i) + batch[i].q
           p == batch[i].ctx - batch[i].q + batch[i].q - 1
<1>10. row \in DOMAIN rows /\ rows[row] = [req |-> batch[i].req, pos |-> p, slot |-> Slot(blockIds[batch[i].req], p)]
  BY <1>1, <1>7, <1>9 DEF SchedIInv, RowsLaidOut
<1>11. p = batch[i].ctx - 1
  BY <1>7
<1> QED BY <1>5, <1>6, <1>8, <1>10, <1>11

\* last_idx, batch and sampled agree (README.md:49): no request gets a token that
\* was computed for another one.
THEOREM RowsToTheirRequests == Spec => []NoCrossSequenceLeakage
BY EngineInductive, RowsAreTheirs, PTL

-----------------------------------------------------------------------------
\* The order of admission.

\* Only an import takes a request out of the waiting ones, and it takes the first.
LEMMA FirstIsAdmitted ==
  ASSUME SchedIInv, [Next]_vars, NEW r \in Seqs, state[r] = "WAITING", state'[r] # "WAITING",
         NEW q \in Range(waiting) \ {r}
  PROVE  AdmitBefore(r, q)
<1>1. Import
  <2>1. CASE UNCHANGED vars
    BY <2>1 DEF vars, schedVars, reqVars
  <2>2. ASSUME NEW t \in Seqs, AddRequest(t) PROVE FALSE
    BY <2>2, Types DEF AddRequest
  <2>3. CASE StartStep \/ Decode \/ DecodeRaises \/ QueuePrefills \/ Admit \/ AdmitFails \/ EndPrefill \/ Forward \/ Retire
    BY <2>3 DEF StartStep, Decode, DecodeRaises, QueuePrefills, Admit, AdmitFails, EndPrefill, Forward, Retire, reqVars
  <2>4. CASE Chunk
    BY <2>4, Types DEF Chunk
  <2>5. CASE Sample
    <3>1. PICK done \in SUBSET Emitting : SampledWith(done)
      BY <2>5, SampleEffect
    <3>2. HasBatch
      BY <2>5 DEF Sample, HasBatch
    <3>3. \A i \in Picks : batch[i].sampled /\ i \in DOMAIN batch
      BY DEF Picks
    <3>4. \A t \in Emitting : state[t] = "RUNNING"
      BY <3>2, <3>3 DEF Emitting, SchedIInv, Entered
    <3> QED BY <3>1, <3>4 DEF SampledWith
  <2> QED BY <2>1, <2>2, <2>3, <2>4, <2>5 DEF Next, Step
<1>2. /\ pc = "import" /\ todo # <<>> /\ Range(waiting) \subseteq Range(todo)
      /\ \A i, j \in DOMAIN todo :
           i < j /\ state[todo[i]] = "WAITING" /\ state[todo[j]] = "WAITING" => AdmitBefore(todo[i], todo[j])
  BY <1>1 DEF Import, SchedIInv, Visits
<1>3. r = Head(todo)
  BY <1>1, Types DEF Import
<1>4. state[q] = "WAITING"
  BY QueueStates
<1>5. /\ todo \in Seq(Seqs) /\ Len(todo) \in Nat /\ DOMAIN todo = 1..Len(todo) /\ Len(todo) # 0 /\ todo[1] = r
  BY <1>2, <1>3, Types, LenProperties, HeadAndTail, EmptySeq
<1>6. PICK j \in 1..Len(todo) : todo[j] = q
  BY <1>2, <1>5 DEF Range
<1>7. 1 \in DOMAIN todo /\ j \in DOMAIN todo /\ 1 < j
  BY <1>5, <1>6
<1> QED BY <1>2, <1>4, <1>5, <1>6, <1>7

\* A request leaves the waiting queue only when no request that should go first is
\* waiting (lines 152-163): a large request that does not fit is not overtaken.
THEOREM AdmissionInOrder == Spec => AdmittedInOrder
<1>1. SchedIInv /\ [Next]_vars =>
        [\A r \in Seqs : state[r] = "WAITING" /\ state'[r] # "WAITING"
           => \A q \in Range(waiting) \ {r} : AdmitBefore(r, q)]_vars
  BY FirstIsAdmitted
<1> QED BY <1>1, EngineInductive, PTL DEF Spec, AdmittedInOrder

-----------------------------------------------------------------------------
\* What a row attends to.

\* What the cache returns once the rows are written.
ReadAfter ==
  LET stored == Stored(Range(rows))
  IN  [slot \in (Blocks \X (0..(BlockSize - 1))) \cup {ZeroSlot} |->
         IF slot = ZeroSlot THEN NoToken ELSE stored[slot[1]][slot[2]]]

RowTags == [i \in DOMAIN rows |-> Tag(rows[i].req, rows[i].pos)]

\* The tokens of r before its n-th, each once and in order.
Context(r, n) == [c \in 1..n |-> Tag(r, c - 1)]

\* The slot of a stored token leads to that token.
LEMMA SlotsLead ==
  ASSUME SchedIInv, pc = "forward", NEW r \in live, NEW p \in 0..(numTokens[r] - 1)
  PROVE  ReadAfter[Slot(blockIds[r], p)] = Tag(r, p)
<1> DEFINE slot == Slot(blockIds[r], p)
<1>1. p \in 0..(TableCapacity(r) - 1)
  BY StoredPosition
<1>2. slot \in Blocks \X (0..(BlockSize - 1)) /\ slot = <<slot[1], slot[2]>>
  BY <1>1, Types, SlotIsCell
<1>3. Stored(Range(rows))[slot[1]][slot[2]] = Tag(r, p)
  BY ForwardStores
<1> HIDE DEF slot
<1>4. slot # ZeroSlot
  <2>1. PICK x \in Blocks, y \in 0..(BlockSize - 1) : slot = <<x, y>>
    BY <1>2
  <2>2. Len(<<x, y>>) = 2 /\ Len(<<>>) = 0
    OBVIOUS
  <2> QED BY <2>1, <2>2 DEF ZeroSlot
<1>5. ReadAfter[slot] = Stored(Range(rows))[slot[1]][slot[2]]
  BY <1>2, <1>4 DEF ReadAfter
<1> QED BY <1>3, <1>5 DEF slot

\* The metas of the batch, entry by entry.
LEMMA MetaOf ==
  ASSUME SchedIInv, HasBatch, NEW i \in DOMAIN batch
  PROVE  /\ batch[i].req \in live /\ batch[i].ctx = numTokens[batch[i].req] /\ batch[i].ctx \in Nat
         /\ batch[i].q \in Nat /\ 1 <= batch[i].q /\ batch[i].q <= batch[i].ctx
         /\ Metas[i].q = batch[i].q /\ DOMAIN Metas = DOMAIN batch
         /\ DOMAIN Metas[i].slots = 1..batch[i].ctx /\ Len(Metas[i].slots) = batch[i].ctx
         /\ \A c \in 1..batch[i].ctx : Metas[i].slots[c] = Slot(blockIds[batch[i].req], c - 1)
<1>1. /\ batch[i].req \in live /\ batch[i].ctx = numTokens[batch[i].req]
      /\ 1 <= batch[i].q /\ batch[i].q <= batch[i].ctx
  BY EntryTypes, QueueStates DEF SchedIInv, Entered
<1>2. batch[i].ctx \in Nat /\ batch[i].q \in Nat
  BY EntryTypes
<1> DEFINE ids == blockIds[batch[i].req]
           k == batch[i].ctx
           slots == [c \in 1..k |-> Slot(ids, c - 1)]
<1>3. DOMAIN Metas = DOMAIN batch /\ Metas[i] = [slots |-> slots, q |-> batch[i].q]
  BY DEF Metas, SeqMeta, ContextSlots
<1>4. Metas[i].slots = slots /\ Metas[i].q = batch[i].q
  BY <1>3
<1>5. Len(slots) = k
  <2> DEFINE T == {Slot(ids, c - 1) : c \in 1..k}
  <2>1. slots \in [1..k -> T] /\ k \in Nat
    BY <1>2
  <2> HIDE DEF slots, T, k
  <2> QED BY <2>1, ListFromFunction
<1> QED BY <1>1, <1>2, <1>3, <1>4, <1>5

\* The rows of the metas are where those of the batch are.
LEMMA MetaRows ==
  ASSUME SchedIInv, HasBatch, NEW i \in DOMAIN batch
  PROVE  RowStart(Metas, i) = RowStart(batch, i) /\ RowStart(batch, i) \in Nat
<1>1. Len(batch) \in Nat /\ i \in 1..Len(batch) /\ i \in 1..(Len(batch) + 1)
  BY EntryTypes
<1>2. \A k \in 1..Len(batch) : batch[k].q \in Nat /\ Metas[k].q = batch[k].q
  BY EntryTypes, MetaOf
<1> QED BY <1>1, <1>2, RowStartAgrees

\* With either way to get at them, the keys of an entry are its context.
LEMMA GatheredIsContext ==
  ASSUME SchedIInv, pc = "forward", NEW i \in DOMAIN batch
  PROVE  Gathered(Metas, i, RowTags, ReadAfter) = Context(batch[i].req, batch[i].ctx)
<1> DEFINE r == batch[i].req
           k == batch[i].ctx
           first == RowStart(batch, i)
           keys == Context(r, k)
<1>0. HasBatch
  BY DEF HasBatch
<1>1. /\ r \in live /\ k = numTokens[r] /\ k \in Nat /\ batch[i].q \in Nat /\ 1 <= batch[i].q /\ batch[i].q <= k
      /\ Metas[i].q = batch[i].q /\ DOMAIN Metas[i].slots = 1..k /\ Len(Metas[i].slots) = k
      /\ \A c \in 1..k : Metas[i].slots[c] = Slot(blockIds[r], c - 1)
  BY <1>0, MetaOf
<1>2. RowStart(Metas, i) = first /\ first \in Nat
  BY <1>0, MetaRows
<1>3. Gathered(Metas, i, RowTags, ReadAfter)
        = IF k = batch[i].q THEN SubSeq(RowTags, first + 1, first + batch[i].q)
          ELSE [c \in 1..k |-> ReadAfter[Metas[i].slots[c]]]
  BY <1>1, <1>2 DEF Gathered
<1> HIDE DEF r, k, first
<1>4. CASE k # batch[i].q
  <2>1. \A c \in 1..k : ReadAfter[Metas[i].slots[c]] = Tag(r, c - 1)
    <3> TAKE c \in 1..k
    <3>1. c - 1 \in 0..(numTokens[r] - 1)
      BY <1>1
    <3>2. ReadAfter[Slot(blockIds[r], c - 1)] = Tag(r, c - 1)
      BY <1>1, <3>1, SlotsLead
    <3> QED BY <1>1, <3>2
  <2>2. [c \in 1..k |-> ReadAfter[Metas[i].slots[c]]] = keys
    BY <2>1 DEF Context
  <2> QED BY <1>3, <1>4, <2>2 DEF r, k
<1>5. CASE k = batch[i].q
  <2> DEFINE part == SubSeq(RowTags, first + 1, first + k)
  <2>1. \A j \in 1..k : first + j \in DOMAIN rows /\ rows[first + j].req = r /\ rows[first + j].pos = j - 1
    <3> TAKE j \in 1..k
    <3>1. j \in 1..batch[i].q
      BY <1>5
    <3>2. /\ first + j \in DOMAIN rows
          /\ rows[first + j] = [req |-> r, pos |-> batch[i].ctx - batch[i].q + j - 1,
                                slot |-> Slot(blockIds[r], batch[i].ctx - batch[i].q + j - 1)]
      BY <1>0, <3>1 DEF SchedIInv, RowsLaidOut, r, first
    <3>3. batch[i].ctx - batch[i].q + j - 1 = j - 1
      BY <1>1, <1>5 DEF k
    <3> QED BY <3>2, <3>3
  <2>2. DOMAIN rows = 1..Len(rows) /\ Len(rows) \in Nat
    BY Types, LenProperties
  <2>3. RowTags \in Seq({Tag(rows[x].req, rows[x].pos) : x \in DOMAIN rows}) /\ Len(RowTags) = Len(rows)
    <3> DEFINE T == {Tag(rows[x].req, rows[x].pos) : x \in DOMAIN rows}
    <3>1. RowTags \in [1..Len(rows) -> T]
      BY <2>2 DEF RowTags
    <3> HIDE DEF T
    <3>2. RowTags \in Seq(T) /\ Len(RowTags) = Len(rows)
      BY <2>2, <3>1, ListFromFunction
    <3> QED BY <3>2 DEF T
  <2>4. first + k <= Len(rows) /\ first + 1 \in 1..Len(rows) /\ first + k \in Nat
    <3>1. k \in 1..k /\ 1 \in 1..k
      BY <1>1
    <3> QED BY <1>1, <1>2, <2>1, <2>2, <3>1
  <2>5. part = [c \in DOMAIN part |-> part[c]] /\ DOMAIN part = 1..k
        /\ \A c \in 1..k : part[c] = RowTags[first + 1 + c - 1]
    <3> DEFINE T == {Tag(rows[x].req, rows[x].pos) : x \in DOMAIN rows}
               lo == first + 1
               hi == first + k
    <3>1. RowTags \in Seq(T) /\ lo \in 1..(Len(RowTags) + 1) /\ hi \in (lo - 1)..Len(RowTags)
      <4> HIDE DEF T
      <4>1. lo \in Nat /\ hi \in Nat /\ 1 <= lo /\ lo <= Len(rows) /\ lo - 1 <= hi /\ hi <= Len(rows)
        BY <1>1, <1>2, <2>4
      <4>2. Len(rows) \in Nat
        BY <2>4
      <4> HIDE DEF lo, hi
      <4> QED BY <2>3, <4>1, <4>2 DEF T
    <3> HIDE DEF T
    <3>2. hi - lo + 1 = k /\ lo = first + 1
      BY <1>1, <1>2
    <3> HIDE DEF lo, hi
    <3>3. /\ SubSeq(RowTags, lo, hi) \in Seq(T) /\ Len(SubSeq(RowTags, lo, hi)) = hi - lo + 1
          /\ \A x \in 1..(hi - lo + 1) : SubSeq(RowTags, lo, hi)[x] = RowTags[lo + x - 1]
      BY <3>1, SubSeqProperties
    <3>4. DOMAIN SubSeq(RowTags, lo, hi) = 1..(hi - lo + 1)
      BY <3>3, LenProperties
    <3> DEFINE cut == SubSeq(RowTags, lo, hi)
    <3>5. cut = [x \in DOMAIN cut |-> cut[x]]
      <4> HIDE DEF cut
      <4>1. cut \in Seq(T)
        BY <3>3 DEF cut
      <4> QED BY <4>1
    <3> QED BY <3>2, <3>3, <3>4, <3>5 DEF lo, hi
  <2>6. \A c \in 1..k : part[c] = Tag(r, c - 1)
    <3> TAKE c \in 1..k
    <3>1. first + 1 + c - 1 = first + c
      BY <1>2
    <3> QED BY <2>1, <2>5, <3>1 DEF RowTags
  <2> HIDE DEF part
  <2>8. part = keys
    BY <2>5, <2>6 DEF Context
  <2> QED BY <1>3, <1>5, <2>8 DEF part, r, k
<1> QED BY <1>4, <1>5

\* Cutting a context off leaves a context.
LEMMA ContextCut ==
  ASSUME NEW r, NEW k \in Nat, NEW m \in Nat, m <= k
  PROVE  Len(Context(r, k)) = k /\ SubSeq(Context(r, k), 1, m) = Context(r, m)
<1> DEFINE T == {Tag(r, c - 1) : c \in 1..k}
           keys == Context(r, k)
           part == SubSeq(keys, 1, m)
<1>1. keys \in [1..k -> T] /\ \A c \in 1..k : keys[c] = Tag(r, c - 1)
  BY DEF Context
<1> HIDE DEF T, keys
<1>2. keys \in Seq(T) /\ Len(keys) = k
  BY <1>1, ListFromFunction
<1>3. part \in Seq(T) /\ Len(part) = m /\ \A c \in 1..m : part[c] = keys[c]
  <2>1. 1 \in 1..(Len(keys) + 1) /\ m \in (1 - 1)..Len(keys)
    BY <1>2
  <2>2. /\ SubSeq(keys, 1, m) \in Seq(T) /\ Len(SubSeq(keys, 1, m)) = m - 1 + 1
        /\ \A x \in 1..(m - 1 + 1) : SubSeq(keys, 1, m)[x] = keys[1 + x - 1]
    BY <1>2, <2>1, SubSeqProperties
  <2> QED BY <2>2
<1> HIDE DEF part
<1>4. part = [c \in 1..m |-> part[c]]
  BY <1>3, LenProperties
<1>5. \A c \in 1..m : part[c] = Tag(r, c - 1)
  BY <1>1, <1>3
<1>6. part = Context(r, m)
  BY <1>4, <1>5 DEF Context
<1> QED BY <1>2, <1>6 DEF part, keys

\* In a decode batch the padded table of slots leads to the context of every entry.
LEMMA TableIsContext ==
  ASSUME SchedIInv, pc = "forward", NEW i \in DOMAIN batch
  PROVE  [c \in 1..ContextLens(Metas)[i] |-> ReadAfter[SlotTable(Metas)[i][c]]]
           = Context(batch[i].req, batch[i].ctx)
<1> DEFINE r == batch[i].req
           k == batch[i].ctx
           lens == {Len(Metas[x].slots) : x \in DOMAIN Metas}
           width == Max(lens)
<1>0. HasBatch
  BY DEF HasBatch
<1>1. /\ r \in live /\ k = numTokens[r] /\ k \in Nat
      /\ DOMAIN Metas = DOMAIN batch /\ Len(Metas[i].slots) = k
      /\ \A c \in 1..k : Metas[i].slots[c] = Slot(blockIds[r], c - 1)
  BY <1>0, MetaOf
<1>2. ContextLens(Metas)[i] = k
  BY <1>1 DEF ContextLens
<1>3. width \in Nat /\ k <= width
  <2> DEFINE f == [x \in DOMAIN batch |-> batch[x].ctx]
             len == Len(batch)
  <2>1. len \in Nat \ {0} /\ DOMAIN batch = 1..len /\ \A x \in 1..len : f[x] \in Nat
    BY EntryTypes
  <2>2. \A x \in DOMAIN batch : Len(Metas[x].slots) = f[x]
    BY <1>0, MetaOf
  <2> HIDE DEF f, len
  <2>3. PICK best \in 1..len : \A x \in 1..len : f[x] <= f[best]
    BY <2>1, GreatestOfList
  <2>4. f[best] \in lens /\ \A y \in lens : y <= f[best] /\ y \in Nat
    BY <1>1, <2>1, <2>2, <2>3
  <2>5. width = CHOOSE x \in lens : \A y \in lens : x >= y
    BY DEF Max
  <2>6. k \in lens
    BY <1>1
  <2> HIDE DEF lens, width, k
  <2>7. width \in lens /\ \A y \in lens : width >= y
    BY <2>4, <2>5
  <2> QED BY <2>4, <2>6, <2>7
<1>4. \A c \in 1..k : SlotTable(Metas)[i][c] = Metas[i].slots[c]
  <2> TAKE c \in 1..k
  <2>1. c \in 1..width
    BY <1>1, <1>3
  <2>2. SlotTable(Metas)[i] = [x \in 1..width |-> IF x <= Len(Metas[i].slots) THEN Metas[i].slots[x] ELSE ZeroSlot]
    BY <1>1 DEF SlotTable
  <2> HIDE DEF width
  <2> QED BY <1>1, <2>1, <2>2
<1>5. \A c \in 1..k : ReadAfter[SlotTable(Metas)[i][c]] = Tag(r, c - 1)
  <2> TAKE c \in 1..k
  <2>1. c - 1 \in 0..(numTokens[r] - 1)
    BY <1>1
  <2>2. ReadAfter[Slot(blockIds[r], c - 1)] = Tag(r, c - 1)
    BY <1>1, <2>1, SlotsLead
  <2> QED BY <1>1, <1>4, <2>2
<1> HIDE DEF r, k
<1> QED BY <1>2, <1>5 DEF Context, r, k

\* Whichever backend runs, a row of a forward pass attends to its request's tokens
\* up to itself, each once and in order.
LEMMA OwnContext == SchedIInv => AttendsOwnContext
<1> SUFFICES ASSUME SchedIInv, pc = "forward", NEW i \in DOMAIN batch, NEW j \in 1..batch[i].q, NEW triton \in BOOLEAN
             PROVE  RowContext(Metas, triton, i, j, RowTags, ReadAfter)
                      = Context(batch[i].req, batch[i].ctx - batch[i].q + j)
  BY DEF AttendsOwnContext, RowTags, ReadAfter, Context
<1>0. HasBatch
  BY DEF HasBatch
<1>1. /\ batch[i].ctx \in Nat /\ batch[i].q \in Nat /\ 1 <= batch[i].q /\ batch[i].q <= batch[i].ctx
      /\ Metas[i].q = batch[i].q /\ DOMAIN Metas = DOMAIN batch
  BY <1>0, MetaOf
<1>2. CASE BatchedDecode(Metas, triton)
  <2>1. batch[i].q = 1
    BY <1>1, <1>2 DEF BatchedDecode
  <2>2. batch[i].ctx - batch[i].q + j = batch[i].ctx
    BY <1>1, <2>1
  <2>3. RowContext(Metas, triton, i, j, RowTags, ReadAfter)
          = [c \in 1..ContextLens(Metas)[i] |-> ReadAfter[SlotTable(Metas)[i][c]]]
    BY <1>2 DEF RowContext
  <2> QED BY <2>2, <2>3, TableIsContext
<1>3. CASE ~BatchedDecode(Metas, triton)
  <2> DEFINE keys == Context(batch[i].req, batch[i].ctx)
             m == batch[i].ctx - batch[i].q + j
  <2>1. RowContext(Metas, triton, i, j, RowTags, ReadAfter)
          = SubSeq(keys, 1, Len(keys) - Metas[i].q + j)
    BY <1>3, GatheredIsContext DEF RowContext, CausalLowerRight
  <2>2. m \in Nat /\ m <= batch[i].ctx
    BY <1>1
  <2> HIDE DEF m
  <2>3. Len(keys) = batch[i].ctx /\ SubSeq(keys, 1, m) = Context(batch[i].req, m)
    BY <1>1, <2>2, ContextCut
  <2> QED BY <1>1, <2>1, <2>3 DEF m
<1> QED BY <1>2, <1>3

\* Batching does not change what a request attends to (model_runner.py and
\* step, lines 203-211), for any mix of prompts, chunks and running requests.
THEOREM RowsAttendOwnContext == Spec => []AttendsOwnContext
BY EngineInductive, OwnContext, PTL

-----------------------------------------------------------------------------
\* The promise of the engine, but for what must happen eventually.

\* A maximum of a number and 1.
LEMMA AtLeastOne ==
  ASSUME NEW x \in Nat
  PROVE  Max({1, x}) \in Nat /\ x <= Max({1, x}) /\ 1 <= Max({1, x})
<1>1. Max({1, x}) = CHOOSE y \in {1, x} : \A z \in {1, x} : y >= z
  BY DEF Max
<1>2. \E y \in {1, x} : \A z \in {1, x} : y >= z
  OBVIOUS
<1>3. Max({1, x}) \in {1, x} /\ \A z \in {1, x} : Max({1, x}) >= z
  BY <1>1, <1>2
<1> QED BY <1>3

Phases == [r \in Seqs |-> Phase(r)]
LimitsOf == [r \in Seqs |-> IF state[r] = "absent" THEN 0 ELSE Max({1, req[r].maxNew})]

\* A step that moves requests among the queues only is silent.
LEMMA SilentStep ==
  ASSUME SchedIInv, UNCHANGED <<req, outLen>>, state' \in [Seqs -> {"absent", "WAITING", "PREFILLING", "RUNNING", "FINISHED"}],
         \A r \in Seqs : state'[r] = state[r] \/ (state[r] # "absent" /\ Phase(r) = "queued" /\ state'[r] # "absent"
                                                  /\ Phase(r)' = "queued"),
         (pc' = "raised") = (pc = "raised")
  PROVE  UNCHANGED Promise!engineVars
<1>1. \A r \in Seqs : Phase(r)' = Phase(r)
  BY DEF Phase
<1>2. \A r \in Seqs : (state'[r] = "absent") = (state[r] = "absent")
  OBVIOUS
<1>3. Phases' = Phases
  BY <1>1 DEF Phases
<1>4. LimitsOf' = LimitsOf
  BY <1>2 DEF LimitsOf
<1> QED BY <1>3, <1>4 DEF Promise!engineVars, Phases, LimitsOf

\* Steps that leave the requests as they are.
LEMMA QuietSteps ==
  ASSUME SchedIInv,
         \/ StartStep \/ Decode \/ QueuePrefills \/ Admit \/ AdmitFails \/ EndPrefill \/ Forward \/ Retire
         \/ UNCHANGED vars
  PROVE  UNCHANGED Promise!engineVars
<1>1. UNCHANGED <<req, state, outLen>>
  BY DEF StartStep, Decode, QueuePrefills, Admit, AdmitFails, EndPrefill, Forward, Retire, LeaveLoops, vars,
         schedVars, reqVars
<1>2. (pc' = "raised") = (pc = "raised")
  BY DEF StartStep, Decode, QueuePrefills, Admit, AdmitFails, EndPrefill, Forward, Retire, LeaveLoops, vars, schedVars
<1>3. state \in [Seqs -> {"absent", "WAITING", "PREFILLING", "RUNNING", "FINISHED"}]
  BY DEF SchedIInv, ProofTypes, SchedTypeOK
<1> QED BY <1>1, <1>2, <1>3, SilentStep

\* A request that is given its blocks, or a chunk, has emitted nothing yet.
LEMMA PrefillIsSilent ==
  ASSUME SchedIInv, Import \/ Chunk
  PROVE  UNCHANGED Promise!engineVars
<1>0. state \in [Seqs -> {"absent", "WAITING", "PREFILLING", "RUNNING", "FINISHED"}] /\ outLen \in [Seqs -> Nat]
  BY DEF SchedIInv, ProofTypes, SchedTypeOK
<1>1. todo \in Seq(Seqs) /\ todo # <<>>
  BY DEF SchedIInv, ProofTypes, SchedTypeOK, Import, Chunk, Visits
<1>2. PICK r \in Seqs : r = Head(todo)
  BY <1>1
<1>3. state[r] \in {"WAITING", "PREFILLING"}
  BY <1>2 DEF SchedIInv, Visits, Import, Chunk
<1>4. outLen[r] = 0
  BY <1>3 DEF SchedIInv, Progress, InState
<1>5. UNCHANGED <<req, outLen>>
  BY DEF Import, Chunk
<1>6. \E s \in {"WAITING", "PREFILLING", "RUNNING"} : state' = [state EXCEPT ![r] = s]
  <2>1. CASE Import
    BY <1>2, <2>1 DEF Import
  <2>2. CASE Chunk
    <3>1. state' = [state EXCEPT ![r] = "RUNNING"] \/ state' = state
      BY <1>2, <2>2 DEF Chunk
    <3>2. state = [state EXCEPT ![r] = state[r]]
      BY <1>0
    <3> QED BY <1>3, <3>1, <3>2
  <2> QED BY <2>1, <2>2
<1>7. Phase(r) = "queued" /\ Phase(r)' = "queued" /\ state'[r] # "absent"
  BY <1>0, <1>3, <1>4, <1>5, <1>6 DEF Phase
<1>8. \A q \in Seqs : q # r => state'[q] = state[q]
  BY <1>0, <1>6
<1>9. state' \in [Seqs -> {"absent", "WAITING", "PREFILLING", "RUNNING", "FINISHED"}]
  BY <1>0, <1>6
<1>10. (pc' = "raised") = (pc = "raised")
  BY DEF Import, Chunk
<1> QED BY <1>3, <1>5, <1>7, <1>8, <1>9, <1>10, SilentStep

\* add_request submits.
LEMMA AddRequestSubmits ==
  ASSUME SchedIInv, NEW r \in Seqs, AddRequest(r)
  PROVE  Promise!Submit(r)
<1>0. /\ state \in [Seqs -> {"absent", "WAITING", "PREFILLING", "RUNNING", "FINISHED"}] /\ outLen \in [Seqs -> Nat]
      /\ req \in [Seqs -> [plen : Nat, maxNew : Nat, prio : Int]]
  BY DEF SchedIInv, ProofTypes, SchedTypeOK
<1>1. PICK maxNew \in MaxNews : \E plen \in PromptLens, prio \in Priorities :
        req' = [req EXCEPT ![r] = [plen |-> plen, maxNew |-> maxNew, prio |-> prio]]
  BY DEF AddRequest
<1>2. state[r] = "absent" /\ state' = [state EXCEPT ![r] = "WAITING"] /\ outLen' = outLen /\ pc = "idle" /\ pc' = pc
  BY DEF AddRequest
<1>3. req'[r].maxNew = maxNew /\ \A q \in Seqs : q # r => req'[q] = req[q]
  BY <1>0, <1>1
<1>4. Phases[r] = "absent" /\ Phases' = [Phases EXCEPT ![r] = "queued"]
  <2>1. Phase(r) = "absent" /\ Phase(r)' = "queued" /\ \A q \in Seqs : q # r => Phase(q)' = Phase(q)
    BY <1>0, <1>2 DEF Phase
  <2> QED BY <2>1 DEF Phases
<1>5. LimitsOf' = [LimitsOf EXCEPT ![r] = Max({1, maxNew})]
  <2>1. state'[r] = "WAITING" /\ \A q \in Seqs : q # r => state'[q] = state[q]
    BY <1>0, <1>2
  <2> QED BY <1>3, <2>1 DEF LimitsOf
<1> QED BY <1>2, <1>4, <1>5 DEF Promise!Submit, Phases, LimitsOf

\* Sampling is a round: every running request emits, and one that reaches its limit is done.
LEMMA SampleIsRound ==
  ASSUME SchedIInv, Sample
  PROVE  Promise!SomeRound
<1>0. state \in [Seqs -> {"absent", "WAITING", "PREFILLING", "RUNNING", "FINISHED"}] /\ outLen \in [Seqs -> Nat]
  BY DEF SchedIInv, ProofTypes, SchedTypeOK
<1>1. PICK done \in SUBSET Emitting : SampledWith(done)
  BY SampleEffect
<1>2. HasBatch /\ pc = "sample" /\ UNCHANGED req
  BY DEF Sample, HasBatch
<1>3. Emitting = InState("RUNNING") /\ Emitting \subseteq Seqs
  BY <1>2 DEF SchedIInv, Entered, Queues, Retiring, InState
<1>4. Emitting # {}
  <2>1. lastIdx # <<>> /\ Len(lastIdx) = Cardinality(Picks) /\ lastIdx \in Seq(Nat)
    BY <1>2 DEF SchedIInv, Visits, LastRows, ProofTypes, SchedTypeOK
  <2>2. Len(lastIdx) # 0
    BY <2>1, EmptySeq
  <2>3. Picks # {}
    BY <2>1, <2>2, FS_EmptySet
  <2> QED BY <2>3 DEF Emitting
<1>5. /\ outLen' = [r \in Seqs |-> IF r \in Emitting THEN outLen[r] + 1 ELSE outLen[r]]
      /\ state' = [r \in Seqs |-> IF r \in done THEN "FINISHED" ELSE state[r]]
      /\ pc' # "raised"
      /\ \A r \in Emitting : outLen[r] + 1 >= req[r].maxNew => r \in done
  BY <1>1 DEF SampledWith
<1>6. \A r \in Seqs : Phase(r) = "emitting" => r \in Emitting
  BY <1>3 DEF Phase, InState
<1>7. \A r \in Emitting : Phase(r) \in {"emitting", "queued"}
  BY <1>3 DEF Phase, InState
<1>8. \A r \in Seqs : Phase(r)' = IF r \in done THEN "done" ELSE IF r \in Emitting THEN "emitting" ELSE Phase(r)
  <2> TAKE r \in Seqs
  <2>1. CASE r \in done
    BY <1>5, <2>1 DEF Phase
  <2>2. CASE r \in Emitting /\ r \notin done
    <3>1. state'[r] = "RUNNING" /\ outLen'[r] > 0
      BY <1>0, <1>3, <1>5, <2>2 DEF InState
    <3> QED BY <2>2, <3>1 DEF Phase
  <2>3. CASE r \notin Emitting
    BY <1>5, <2>3 DEF Phase
  <2> QED BY <2>1, <2>2, <2>3
<1>9. \A r \in Emitting : outLen[r] + 1 >= LimitsOf[r] => r \in done
  <2> SUFFICES ASSUME NEW r \in Emitting, outLen[r] + 1 >= LimitsOf[r] PROVE r \in done
    OBVIOUS
  <2>1. state[r] = "RUNNING" /\ r \in Seqs /\ outLen[r] \in Nat
    BY <1>0, <1>3 DEF InState
  <2>2. req[r].maxNew \in Nat
    BY <2>1 DEF SchedIInv, ProofTypes
  <2>3. LimitsOf[r] = Max({1, req[r].maxNew})
    BY <2>1 DEF LimitsOf
  <2>4. req[r].maxNew <= LimitsOf[r] /\ LimitsOf[r] \in Nat
    BY <2>2, <2>3, AtLeastOne
  <2>5. outLen[r] + 1 >= req[r].maxNew
    BY <2>1, <2>2, <2>4
  <2> QED BY <1>5, <2>5
<1>10. LimitsOf' = LimitsOf
  <2>1. \A r \in Seqs : (state'[r] = "absent") = (state[r] = "absent")
    BY <1>3, <1>5 DEF InState
  <2> QED BY <1>2, <2>1 DEF LimitsOf
<1>11. Phases' = [r \in Seqs |-> IF r \in done THEN "done" ELSE IF r \in Emitting THEN "emitting" ELSE Phases[r]]
  BY <1>8 DEF Phases
<1>12. Promise!InPhase("emitting") \subseteq Emitting
       /\ Emitting \subseteq Promise!InPhase("emitting") \cup Promise!InPhase("queued")
  BY <1>3, <1>6, <1>7 DEF Promise!InPhase
<1>13. Promise!Round(Emitting, done)
  BY <1>2, <1>4, <1>5, <1>9, <1>10, <1>11, <1>12 DEF Promise!Round, Phases, LimitsOf
<1> QED BY <1>3, <1>13 DEF Promise!SomeRound

\* An exception is raised while a request that has emitted is running.
LEMMA RaiseIsFailure ==
  ASSUME SchedIInv, DecodeRaises
  PROVE  Promise!Fail
<1>0. state \in [Seqs -> {"absent", "WAITING", "PREFILLING", "RUNNING", "FINISHED"}] /\ outLen \in [Seqs -> Nat]
  BY DEF SchedIInv, ProofTypes, SchedTypeOK
<1>1. todo \in Seq(Seqs) /\ todo # <<>> /\ pc = "decode" /\ pc' = "raised" /\ UNCHANGED <<req, state, outLen>>
  BY DEF SchedIInv, ProofTypes, SchedTypeOK, DecodeRaises, reqVars
<1>2. PICK r \in Seqs : r \in Range(todo)
  <2>1. Head(todo) \in Seqs /\ 1 \in DOMAIN todo /\ Head(todo) = todo[1]
    BY <1>1
  <2> QED BY <2>1 DEF Range
<1>3. r \in InState("RUNNING") \ Batched
  BY <1>1, <1>2 DEF SchedIInv, Queues, Visits, Retiring, Entered, HasBatch, InLoops
<1>4. state[r] = "RUNNING" /\ outLen[r] >= 1
  BY <1>1, <1>3 DEF SchedIInv, Lengths, InState
<1>5. Phase(r) = "emitting"
  BY <1>0, <1>4 DEF Phase
<1>6. Promise!InPhase("emitting") # {}
  BY <1>5 DEF Promise!InPhase
<1>7. Phases' = Phases /\ LimitsOf' = LimitsOf
  BY <1>1 DEF Phases, LimitsOf, Phase
<1> QED BY <1>1, <1>6, <1>7 DEF Promise!Fail, Phases, LimitsOf

\* Every step of the engine is one Engine allows, or changes nothing that Engine sees.
LEMMA StepKeepsPromise ==
  ASSUME SchedIInv, [Next]_vars
  PROVE  [Promise!Next]_(Promise!engineVars)
<1>1. CASE \E r \in Seqs : AddRequest(r)
  BY <1>1, AddRequestSubmits DEF Promise!Next
<1>2. CASE Sample
  BY <1>2, SampleIsRound DEF Promise!Next
<1>3. CASE DecodeRaises
  BY <1>3, RaiseIsFailure DEF Promise!Next
<1>4. CASE Import \/ Chunk
  BY <1>4, PrefillIsSilent
<1>5. CASE \/ StartStep \/ Decode \/ QueuePrefills \/ Admit \/ AdmitFails \/ EndPrefill \/ Forward \/ Retire
           \/ UNCHANGED vars
  BY <1>5, QuietSteps
<1> QED BY <1>1, <1>2, <1>3, <1>4, <1>5 DEF Next, Step

\* The engine implements Engine, but for its liveness: tokens come in rounds that
\* every emitting request takes part in, each request has at least one token and at
\* most max(1, max_new_tokens), and none after its last (step, lines 113-233).
THEOREM PromiseSafety == Spec => Promise!Init /\ [][Promise!Next]_(Promise!engineVars)
<1>1. Init => Promise!Init
  BY DEF Init, Promise!Init, Phase
<1>2. SchedIInv /\ [Next]_vars => [Promise!Next]_(Promise!engineVars)
  BY StepKeepsPromise
<1> QED BY <1>1, <1>2, EngineInductive, PTL DEF Spec
=============================================================================
