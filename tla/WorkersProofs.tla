----------------------------- MODULE WorkersProofs -----------------------------
(***************************************************************************)
(* What the workers and the ways between them keep.  The queues of the     *)
(* disaggregated pipeline: what its two workers rely on in each other, and *)
(* the order of the requests, for any requests, prompts, pool and limit.   *)
(* The socket transport: its framing, for any messages, header length and  *)
(* limit of one recv, and however the bytes are cut.  Escalation: what     *)
(* calls of prefill_and_map leave in the source's block pool, and that the *)
(* KV they map is taken by the target, for any models, maps and prompts.   *)
(***************************************************************************)
EXTENDS Disaggregated, TcpTransport, Escalation, BlockManagerProofs, ListLemmas

\* A worker that holds a request holds a real one.
HeldAreRequests ==
  /\ pf = "prefill" => pfReq \in Requests
  /\ dc \in {"import", "decode"} => dcReq \in Requests

\* Whatever the prefill worker has handed over fits in a pool of its size.
HandedOverFits == \A i \in 1..Len(kvQ) : kvQ[i] # None => Fits(PromptLen(kvQ[i]))

\* The request being decoded fits as far as it has grown.
DecodingFits == dc = "decode" => Fits(stored) /\ outLen \in Nat \ {0} /\ outLen <= (IF MaxNew > 1 THEN MaxNew ELSE 1)

DisaggIInv == DisaggInv /\ HeldAreRequests /\ HandedOverFits /\ DecodingFits

-----------------------------------------------------------------------------
\* The two workers and the queues start empty.
LEMMA InitIInv == DisaggInit => DisaggIInv
  BY PoolAssumption, LimitAssumption
  DEF DisaggInit, DisaggIInv, DisaggInv, DisaggTypeOK, FedAtItsSlot, ImportFits, HeldAreRequests,
      HandedOverFits, DecodingFits

\* The parent touches the queues only, and appends nothing but the sentinel to kvQ.
LEMMA ParentStep ==
  ASSUME DisaggIInv, (\E r \in Requests : Submit(r)) \/ Collect \/ Shutdown \/ Joining
  PROVE  DisaggIInv'
<1> USE DEF DisaggIInv, DisaggInv, DisaggTypeOK, queues, pfVars, dcVars, parentVars
<1>1. CASE \E r \in Requests : Submit(r)
  <2>1. PICK r \in Requests : Submit(r)
    BY <1>1
  <2>2. reqQ \in Seq(Requests \cup {None}) /\ submitted \in Seq(Requests) /\ r \in Requests \cup {None}
    OBVIOUS
  <2>3. Append(reqQ, r) \in Seq(Requests \cup {None}) /\ Append(submitted, r) \in Seq(Requests)
    BY <2>2
  <2>4. DisaggTypeOK'
    BY <2>1, <2>3 DEF Submit
  <2>5. FedAtItsSlot' /\ ImportFits' /\ HeldAreRequests' /\ HandedOverFits' /\ DecodingFits'
    BY <2>1 DEF Submit, FedAtItsSlot, ImportFits, HeldAreRequests, HandedOverFits, DecodingFits, Fits
  <2> QED BY <2>4, <2>5
<1>2. CASE Collect
  BY <1>2 DEF Collect, FedAtItsSlot, ImportFits, HeldAreRequests, HandedOverFits, DecodingFits, Fits
<1>3. CASE Shutdown
  BY <1>3 DEF Shutdown, FedAtItsSlot, ImportFits, HeldAreRequests, HandedOverFits, DecodingFits, Fits
<1>4. CASE StopDecode
  <2>1. DisaggTypeOK'
    BY <1>4 DEF StopDecode
  <2>2. FedAtItsSlot' /\ ImportFits' /\ HeldAreRequests' /\ DecodingFits'
    BY <1>4 DEF StopDecode, FedAtItsSlot, ImportFits, HeldAreRequests, DecodingFits, Fits
  <2>3. HandedOverFits'
    BY <1>4 DEF StopDecode, HandedOverFits, Fits
  <2> QED BY <2>1, <2>2, <2>3
<1>5. CASE JoinDecode
  BY <1>5 DEF JoinDecode, FedAtItsSlot, ImportFits, HeldAreRequests, HandedOverFits, DecodingFits, Fits
<1> QED BY <1>1, <1>2, <1>3, <1>4, <1>5 DEF Joining, JoinPrefill, PrefillJoinTimesOut

\* The prefill worker hands over what it could allocate.
LEMMA PrefillStep == ASSUME DisaggIInv, PrefillWorker PROVE DisaggIInv'
<1> USE DEF DisaggIInv, DisaggInv, DisaggTypeOK, queues, pfVars, dcVars, parentVars
<1>1. CASE PrefillGet
  <2>1. Head(reqQ) \in Requests \cup {None} /\ Tail(reqQ) \in Seq(Requests \cup {None})
    BY <1>1 DEF PrefillGet
  <2> QED
    BY <1>1, <2>1 DEF PrefillGet, FedAtItsSlot, ImportFits, HeldAreRequests, HandedOverFits, DecodingFits, Fits
<1>2. CASE PrefillSend
  <2>1. pfReq \in Requests /\ Fits(PromptLen(pfReq))
    BY <1>2 DEF PrefillSend, HeldAreRequests
  <2>2. DisaggTypeOK'
    BY <1>2, <2>1 DEF PrefillSend
  <2>3. FedAtItsSlot' /\ ImportFits' /\ HeldAreRequests' /\ DecodingFits'
    BY <1>2 DEF PrefillSend, FedAtItsSlot, ImportFits, HeldAreRequests, DecodingFits, Fits
  <2>4. HandedOverFits'
    <3>1. kvQ \in Seq(Requests \cup {None}) /\ kvQ' = Append(kvQ, pfReq)
      BY <1>2 DEF PrefillSend
    <3>2. \A i \in 1..Len(kvQ') : kvQ'[i] = pfReq \/ (i \in 1..Len(kvQ) /\ kvQ'[i] = kvQ[i])
      BY <3>1
    <3> QED BY <2>1, <3>2 DEF HandedOverFits, Fits
  <2> QED BY <2>2, <2>3, <2>4
<1>3. CASE PrefillDies
  BY <1>3 DEF PrefillDies, FedAtItsSlot, ImportFits, HeldAreRequests, HandedOverFits, DecodingFits, Fits
<1> QED BY <1>1, <1>2, <1>3 DEF PrefillWorker

\* The decode worker takes what fits and stops before its pool or its limit is passed.
LEMMA DecodeStep == ASSUME DisaggIInv, DecodeWorker PROVE DisaggIInv'
<1> USE DEF DisaggIInv, DisaggInv, DisaggTypeOK, queues, pfVars, dcVars, parentVars
<1>t. ASSUME kvQ # <<>>
      PROVE  /\ Head(kvQ) \in Requests \cup {None} /\ Head(kvQ) = kvQ[1] /\ 1 \in 1..Len(kvQ)
             /\ Tail(kvQ) \in Seq(Requests \cup {None})
             /\ \A i \in 1..Len(Tail(kvQ)) : i + 1 \in 1..Len(kvQ) /\ Tail(kvQ)[i] = kvQ[i + 1]
  BY <1>t
<1>1. CASE DecodeGet
  <2>1. HandedOverFits'
    BY <1>1, <1>t DEF DecodeGet, HandedOverFits, Fits
  <2>2. ImportFits' /\ HeldAreRequests'
    BY <1>1, <1>t DEF DecodeGet, HandedOverFits, ImportFits, HeldAreRequests, Fits
  <2>3. DisaggTypeOK' /\ FedAtItsSlot' /\ DecodingFits'
    BY <1>1, <1>t DEF DecodeGet, FedAtItsSlot, DecodingFits, Fits
  <2> QED BY <2>1, <2>2, <2>3
<1>2. CASE DecodeGetDies
  <2>1. HandedOverFits'
    BY <1>2, <1>t DEF DecodeGetDies, HandedOverFits, Fits
  <2>2. DisaggTypeOK' /\ FedAtItsSlot' /\ ImportFits' /\ HeldAreRequests' /\ DecodingFits'
    BY <1>2, <1>t DEF DecodeGetDies, FedAtItsSlot, ImportFits, HeldAreRequests, DecodingFits, Fits
  <2> QED BY <2>1, <2>2
<1>3. CASE DecodeImport
  <2>1. dcReq \in Requests /\ Fits(PromptLen(dcReq)) /\ PromptLen(dcReq) \in Nat \ {0}
    BY <1>3, PromptsAssumption DEF DecodeImport, HeldAreRequests, ImportFits
  <2>2. stored' \in 0..(NumBlocks * TokensPerBlock)
    BY <1>3, <2>1, PoolAssumption DEF DecodeImport, Fits
  <2>3. outLen' = 1 /\ outLen' <= (IF MaxNew > 1 THEN MaxNew ELSE 1)
    BY <1>3, LimitAssumption DEF DecodeImport
  <2>4. DisaggTypeOK'
    BY <1>3, <2>2, <2>3, LimitAssumption DEF DecodeImport
  <2> QED
    BY <1>3, <2>1, <2>3, <2>4
    DEF DecodeImport, FedAtItsSlot, ImportFits, HeldAreRequests, HandedOverFits, DecodingFits, Fits
<1>4. CASE DecodeToken
  <2>1. dcReq \in Requests /\ PromptLen(dcReq) \in Nat \ {0} /\ outLen < MaxNew /\ Fits(stored + 1)
    BY <1>4, PromptsAssumption DEF DecodeToken, Decoding, HeldAreRequests
  <2>2. stored' \in 0..(NumBlocks * TokensPerBlock)
    BY <1>4, <2>1, PoolAssumption DEF DecodeToken, Fits
  <2>3. outLen' \in 1..MaxNew /\ MaxNew \in Nat
    BY <1>4, <2>1, LimitAssumption DEF DecodeToken, DecodingFits, Decoding
  <2>4. DisaggTypeOK'
    BY <1>4, <2>2, <2>3, LimitAssumption DEF DecodeToken
  <2>5. FedAtItsSlot'
    BY <1>4, <2>1 DEF DecodeToken, Decoding, FedAtItsSlot, DecodingFits
  <2>6. DecodingFits'
    BY <1>4, <2>1, <2>3 DEF DecodeToken, DecodingFits, Fits
  <2> QED
    BY <1>4, <2>4, <2>5, <2>6 DEF DecodeToken, ImportFits, HeldAreRequests, HandedOverFits, Fits
<1>5. CASE DecodeDies
  BY <1>5 DEF DecodeDies, FedAtItsSlot, ImportFits, HeldAreRequests, HandedOverFits, DecodingFits, Fits
<1>6. CASE DecodePut
  <2>1. dcReq \in Requests
    BY <1>6 DEF DecodePut, HeldAreRequests
  <2>2. DisaggTypeOK'
    BY <1>6, <2>1, PoolAssumption, LimitAssumption DEF DecodePut
  <2> QED
    BY <1>6, <2>2 DEF DecodePut, FedAtItsSlot, ImportFits, HeldAreRequests, HandedOverFits, DecodingFits, Fits
<1> QED BY <1>1, <1>2, <1>3, <1>4, <1>5, <1>6 DEF DecodeWorker

\* A step that changes nothing keeps the invariant.
LEMMA StutterStep == ASSUME DisaggIInv, UNCHANGED disaggVars PROVE DisaggIInv'
  BY DEF disaggVars, queues, pfVars, dcVars, parentVars, DisaggIInv, DisaggInv, DisaggTypeOK, FedAtItsSlot,
         ImportFits, HeldAreRequests, HandedOverFits, DecodingFits, Fits

\* Every step keeps the invariant.
LEMMA StepIInv == DisaggIInv /\ [DisaggNext]_disaggVars => DisaggIInv'
  BY ParentStep, PrefillStep, DecodeStep, StutterStep DEF DisaggNext

\* What the workers rely on in each other: a prompt that reaches the decode worker
\* fits in its pool, so decode_from_kv cannot fail in the import, and every
\* token is embedded at the slot append_token gave it (disaggregated.py:56-73),
\* however the processes interleave, die or are shut down.
THEOREM WorkersRelyOnEachOther == DisaggSpec => []DisaggInv
<1>1. DisaggInit => DisaggIInv
  BY InitIInv
<1>2. DisaggIInv /\ [DisaggNext]_disaggVars => DisaggIInv'
  BY StepIInv
<1>3. DisaggIInv => DisaggInv
  BY DEF DisaggIInv
<1> QED BY <1>1, <1>2, <1>3, PTL DEF DisaggSpec

-----------------------------------------------------------------------------
\* The order of the pipeline.

\* The requests of a queue, piece by piece.
LEMMA WorkConcat ==
  ASSUME NEW s \in Seq(Requests \cup {None}), NEW t \in Seq(Requests \cup {None})
  PROVE  Work(s) \in Seq(Requests) /\ Work(s \o t) = Work(s) \o Work(t)
<1> DEFINE T == Requests \cup {None}
           I == {i \in DOMAIN s : s[i] # None}
           J == {j \in DOMAIN t : t[j] # None}
           n == Len(s)
           m == Len(t)
           st == s \o t
<1>1. /\ n \in Nat /\ m \in Nat /\ DOMAIN s = 1..n /\ DOMAIN t = 1..m
      /\ \A i \in 1..n : s[i] \in T
  BY LenProperties
<1>2. DOMAIN st = 1..(n + m) /\ \A i \in 1..(n + m) : st[i] = IF i <= n THEN s[i] ELSE t[i - n]
  <2>1. st \in Seq(T) /\ Len(st) = n + m /\ \A i \in 1..(n + m) : st[i] = IF i <= n THEN s[i] ELSE t[i - n]
    BY ConcatProperties
  <2> HIDE DEF st, n, m
  <2> QED BY <2>1, LenProperties
<1>3. {i \in DOMAIN st : st[i] # None} = I \cup Behind(n, J)
  <2> HIDE DEF st, n, m
  <2>1. ASSUME NEW i \in 1..n PROVE i \in 1..(n + m) /\ st[i] = s[i]
    BY <1>1, <1>2
  <2>2. ASSUME NEW j \in 1..m PROVE n + j \in 1..(n + m) /\ st[n + j] = t[j]
    <3>1. n + j \in 1..(n + m) /\ ~(n + j <= n) /\ n + j - n = j
      BY <1>1
    <3>2. PICK k \in 1..(n + m) : k = n + j
      BY <3>1
    <3>3. st[k] = t[k - n]
      BY <1>2, <3>1, <3>2
    <3>4. k - n = j
      BY <1>1, <3>1, <3>2
    <3> QED BY <3>1, <3>2, <3>3, <3>4
  <2>3. ASSUME NEW i \in 1..(n + m) PROVE i \in 1..n \/ \E j \in 1..m : i = n + j
    <3>1. CASE i <= n
      BY <1>1, <3>1
    <3>2. CASE ~(i <= n)
      <4>1. i - n \in 1..m /\ i = n + (i - n)
        BY <1>1, <3>2
      <4> QED BY <4>1
    <3> QED BY <3>1, <3>2
  <2>4. ASSUME NEW i \in DOMAIN st, st[i] # None PROVE i \in I \cup Behind(n, J)
    <3>1. CASE i \in 1..n
      BY <1>1, <2>1, <2>4, <3>1
    <3>2. CASE \E j \in 1..m : i = n + j
      BY <1>1, <2>2, <2>4, <3>2 DEF Behind
    <3> QED BY <1>2, <2>3, <3>1, <3>2
  <2>5. I \subseteq {i \in DOMAIN st : st[i] # None}
    BY <1>1, <1>2, <2>1
  <2>6. Behind(n, J) \subseteq {i \in DOMAIN st : st[i] # None}
    BY <1>1, <1>2, <2>2 DEF Behind
  <2> QED BY <2>4, <2>5, <2>6
<1>4. /\ Selected(s, I) \in Seq(T)
      /\ Selected(st, I \cup Behind(n, J)) = Selected(s, I) \o Selected(t, J)
  <2>1. I \in SUBSET (1..Len(s)) /\ J \in SUBSET (1..Len(t))
    BY <1>1
  <2>2. s \in Seq(T) /\ t \in Seq(T)
    OBVIOUS
  <2> HIDE DEF T, I, J
  <2>3. Selected(s, I) \in Seq(T) /\ SelectsApart(s, t, I, J)
    BY <2>1, <2>2, SelectedConcat
  <2> QED BY <2>3 DEF SelectsApart
<1>5. Selected(s, I) \in Seq(Requests)
  <2>1. I \in SUBSET Nat /\ IsFiniteSet(I) /\ \A i \in I : s[i] \in Requests
    <3>1. IsFiniteSet(1..n) /\ I \subseteq 1..n
      BY <1>1, FS_Interval
    <3> HIDE DEF n
    <3>2. IsFiniteSet(I)
      BY <3>1, FS_Subset
    <3> QED BY <1>1, <3>1, <3>2
  <2> HIDE DEF I
  <2> QED BY <2>1, SelectedList
<1> QED BY <1>3, <1>4, <1>5 DEF Work

\* Three lists joined to a first one are joined to it as one.
JoinAsOne(a, x, y, z) == a \o x \o y \o z = a \o (x \o y \o z)

\* So are any lists of requests.
LEMMA JoinedThree ==
  ASSUME NEW a \in Seq(Requests), NEW x \in Seq(Requests), NEW y \in Seq(Requests), NEW z \in Seq(Requests)
  PROVE  JoinAsOne(a, x, y, z)
<1> DEFINE xy == x \o y
           ax == a \o x
<1>1. xy \in Seq(Requests) /\ ax \o y = a \o xy
  BY Joined DEF Regroups
<1> HIDE DEF xy
<1>2. xy \in Seq(Requests)
  BY <1>1
<1>3. Regroups(a, xy, z)
  BY <1>2, Joined
<1> QED BY <1>1, <1>3 DEF xy, Regroups, JoinAsOne

\* A queue of one.
LEMMA WorkOne ==
  ASSUME NEW x \in Requests \cup {None}
  PROVE  Work(<<x>>) = IF x = None THEN <<>> ELSE <<x>>
<1> DEFINE q == <<x>>
           I == {i \in DOMAIN q : q[i] # None}
<1>1. DOMAIN q = {1} /\ q[1] = x
  OBVIOUS
<1>2. CASE x = None
  <2>1. I = 1..0
    BY <1>1, <1>2
  <2>2. Selected(q, 1..0) = [k \in 1..0 |-> q[k]]
    BY SelectedPrefix
  <2>3. [k \in 1..0 |-> q[k]] = <<>>
    <3> DEFINE f == [k \in 1..0 |-> q[k]]
    <3>1. f \in [1..0 -> {x}] /\ 0 \in Nat
      OBVIOUS
    <3> HIDE DEF f
    <3>2. f \in Seq({x}) /\ Len(f) = 0
      BY <3>1, ListFromFunction
    <3>3. f = <<>>
      BY <3>2, EmptySeq
    <3> QED BY <3>3 DEF f
  <2> QED BY <1>2, <2>1, <2>2, <2>3 DEF Work
<1>3. CASE x # None
  <2>1. I = 1..1
    BY <1>1, <1>3
  <2>2. Selected(q, 1..1) = [k \in 1..1 |-> q[k]]
    BY SelectedPrefix
  <2>3. [k \in 1..1 |-> q[k]] = q
    BY <1>1
  <2> QED BY <1>3, <2>1, <2>2, <2>3 DEF Work
<1> QED BY <1>2, <1>3

\* What goes in at the end, and what comes out at the head.
LEMMA WorkEnds ==
  ASSUME NEW q \in Seq(Requests \cup {None})
  PROVE  /\ Work(q) \in Seq(Requests)
         /\ \A x \in Requests \cup {None} : Work(<<x>>) \in Seq(Requests) /\ Work(Append(q, x)) = Work(q) \o Work(<<x>>)
         /\ q # <<>> => Head(q) \in Requests \cup {None} /\ Tail(q) \in Seq(Requests \cup {None})
                        /\ Work(Tail(q)) \in Seq(Requests) /\ Work(q) = Work(<<Head(q)>>) \o Work(Tail(q))
<1> DEFINE T == Requests \cup {None}
<1>1. ASSUME NEW x \in T PROVE Work(<<x>>) \in Seq(Requests) /\ Work(Append(q, x)) = Work(q) \o Work(<<x>>)
  <2>1. <<x>> \in Seq(T) /\ Append(q, x) = q \o <<x>>
    BY AppendIsConcat
  <2> QED BY <2>1, WorkConcat
<1>2. ASSUME q # <<>>
      PROVE  Head(q) \in T /\ Tail(q) \in Seq(T) /\ Work(Tail(q)) \in Seq(Requests)
             /\ Work(q) = Work(<<Head(q)>>) \o Work(Tail(q))
  <2>1. Head(q) \in T /\ Tail(q) \in Seq(T) /\ q = <<Head(q)>> \o Tail(q)
    BY <1>2, HeadTailProperties, ConcatSimplifications
  <2>2. <<Head(q)>> \in Seq(T)
    BY <2>1
  <2> QED BY <2>1, <2>2, WorkConcat
<1>3. Work(q) \in Seq(Requests)
  BY WorkConcat
<1> QED BY <1>1, <1>2, <1>3

\* A worker without a request holds none.
IdleHoldNothing ==
  /\ pf \in {"get", "done"} => pfReq = None
  /\ dc \in {"get", "done"} => dcReq = None

OrderIInv == DisaggIInv /\ IdleHoldNothing /\ PipelineKeepsOrder

\* The stages of the pipeline are lists of requests.
LEMMA Stages ==
  ASSUME OrderIInv
  PROVE  /\ submitted \in Seq(Requests) /\ collected \in Seq(Requests) /\ resQ \in Seq(Requests)
         /\ reqQ \in Seq(Requests \cup {None}) /\ kvQ \in Seq(Requests \cup {None})
         /\ pfReq \in Requests \cup {None} /\ dcReq \in Requests \cup {None}
         /\ Work(<<dcReq>>) \in Seq(Requests) /\ Work(kvQ) \in Seq(Requests)
         /\ Work(<<pfReq>>) \in Seq(Requests) /\ Work(reqQ) \in Seq(Requests)
         /\ Work(<<None>>) = <<>>
<1>1. /\ submitted \in Seq(Requests) /\ collected \in Seq(Requests) /\ resQ \in Seq(Requests)
      /\ reqQ \in Seq(Requests \cup {None}) /\ kvQ \in Seq(Requests \cup {None})
      /\ pfReq \in Requests \cup {None} /\ dcReq \in Requests \cup {None}
  BY DEF OrderIInv, DisaggIInv, DisaggInv, DisaggTypeOK
<1>2. None \in Requests \cup {None}
  OBVIOUS
<1> QED BY <1>1, <1>2, WorkEnds, WorkOne

\* The parent puts requests in at one end and takes results out at the other.
LEMMA ParentKeepsOrder ==
  ASSUME OrderIInv, (\E r \in Requests : Submit(r)) \/ Collect \/ Shutdown \/ Joining
  PROVE  IdleHoldNothing' /\ PipelineKeepsOrder'
<1> DEFINE A == collected
           B == resQ
           D == Work(<<dcReq>>)
           K == Work(kvQ)
           P == Work(<<pfReq>>)
           R == Work(reqQ)
           front == A \o B \o D \o K \o P
<1>1. /\ A \in Seq(Requests) /\ B \in Seq(Requests) /\ D \in Seq(Requests) /\ K \in Seq(Requests)
      /\ P \in Seq(Requests) /\ R \in Seq(Requests) /\ submitted = front \o R
  BY Stages DEF OrderIInv, PipelineKeepsOrder
<1>2. UNCHANGED <<pf, pfReq, dc, dcReq>> /\ IdleHoldNothing'
  BY DEF OrderIInv, IdleHoldNothing, Submit, Collect, Shutdown, Joining, JoinPrefill, PrefillJoinTimesOut,
    StopDecode, JoinDecode, pfVars, dcVars
<1>3. front \in Seq(Requests)
  <2> HIDE DEF A, B, D, K, P
  <2> QED BY <1>1, ConcatProperties
<1>4. Work(Append(reqQ, None)) = R /\ Work(Append(kvQ, None)) = K
  <2>1. Work(Append(reqQ, None)) = R \o <<>> /\ Work(Append(kvQ, None)) = K \o <<>>
    <3>1. None \in Requests \cup {None} /\ Work(<<None>>) = <<>>
      BY Stages
    <3>2. Work(Append(reqQ, None)) = R \o Work(<<None>>)
      BY <3>1, Stages, WorkEnds
    <3>3. Work(Append(kvQ, None)) = K \o Work(<<None>>)
      BY <3>1, Stages, WorkEnds
    <3> QED BY <3>1, <3>2, <3>3
  <2> QED BY <1>1, <2>1, ConcatEmptySeq
<1>5. CASE \E r \in Requests : Submit(r)
  <2>1. PICK r \in Requests : Submit(r)
    BY <1>5
  <2>2. /\ reqQ' = Append(reqQ, r) /\ submitted' = Append(submitted, r)
        /\ UNCHANGED <<collected, resQ, dcReq, kvQ, pfReq>>
    BY <2>1 DEF Submit, pfVars, dcVars
  <2>3. Work(reqQ') = R \o <<r>>
    <3>1. Work(Append(reqQ, r)) = R \o Work(<<r>>) /\ Work(<<r>>) = <<r>>
      BY Stages, WorkEnds, WorkOne, SentinelAssumption
    <3> QED BY <2>2, <3>1
  <2>4. submitted' = submitted \o <<r>>
    BY <2>2, Stages, AppendIsConcat
  <2>5. PipelineKeepsOrder' <=> submitted' = front \o (R \o <<r>>)
    BY <2>2, <2>3 DEF PipelineKeepsOrder
  <2> HIDE DEF front, R
  <2>6. (front \o R) \o <<r>> = front \o (R \o <<r>>)
    <3> DEFINE last == <<r>>
    <3>1. last \in Seq(Requests) /\ front \in Seq(Requests) /\ R \in Seq(Requests)
      BY <1>1, <1>3
    <3> HIDE DEF last
    <3>2. Regroups(front, R, last)
      BY <3>1, Joined
    <3> QED BY <3>2 DEF last, Regroups
  <2> QED BY <1>1, <1>2, <2>4, <2>5, <2>6
<1>6. CASE Collect
  <2>1. /\ B # <<>> /\ resQ' = Tail(B) /\ collected' = Append(A, Head(B))
        /\ UNCHANGED <<submitted, dcReq, kvQ, pfReq, reqQ>>
    BY <1>6 DEF Collect, pfVars, dcVars
  <2>2. /\ Head(B) \in Requests /\ Tail(B) \in Seq(Requests) /\ B = <<Head(B)>> \o Tail(B)
        /\ Append(A, Head(B)) = A \o <<Head(B)>>
    BY <1>1, <2>1, HeadTailProperties, ConcatSimplifications, AppendIsConcat
  <2>3. <<Head(B)>> \in Seq(Requests)
    BY <2>2
  <2>4. (A \o <<Head(B)>>) \o Tail(B) = A \o (<<Head(B)>> \o Tail(B))
    <3> DEFINE first == <<Head(B)>>
               rest == Tail(B)
    <3>1. A \in Seq(Requests) /\ first \in Seq(Requests) /\ rest \in Seq(Requests)
      BY <1>1, <2>2, <2>3
    <3> HIDE DEF A, first, rest
    <3>2. Regroups(A, first, rest)
      BY <3>1, Joined
    <3> QED BY <3>2 DEF first, rest, Regroups
  <2>5. collected' \o resQ' = A \o B
    BY <2>1, <2>2, <2>4
  <2>6. PipelineKeepsOrder'
    BY <1>1, <2>1, <2>5 DEF PipelineKeepsOrder
  <2> QED BY <1>2, <2>6
<1>7. CASE Shutdown
  <2>1. reqQ' = Append(reqQ, None) /\ UNCHANGED <<submitted, collected, resQ, dcReq, kvQ, pfReq>>
    BY <1>7 DEF Shutdown, pfVars, dcVars
  <2> QED BY <1>1, <1>2, <1>4, <2>1 DEF PipelineKeepsOrder
<1>8. CASE StopDecode
  <2>1. kvQ' = Append(kvQ, None) /\ UNCHANGED <<submitted, collected, resQ, dcReq, reqQ, pfReq>>
    BY <1>8 DEF StopDecode, pfVars, dcVars
  <2> QED BY <1>1, <1>2, <1>4, <2>1 DEF PipelineKeepsOrder
<1>9. CASE JoinDecode
  BY <1>1, <1>2, <1>9 DEF JoinDecode, queues, pfVars, dcVars, PipelineKeepsOrder
<1> QED BY <1>5, <1>6, <1>7, <1>8, <1>9 DEF Joining, JoinPrefill, PrefillJoinTimesOut

\* The prefill worker passes on what it took, one request at a time.
LEMMA PrefillKeepsOrder ==
  ASSUME OrderIInv, PrefillWorker
  PROVE  IdleHoldNothing' /\ PipelineKeepsOrder'
<1> DEFINE front == collected \o resQ \o Work(<<dcReq>>)
           K == Work(kvQ)
           P == Work(<<pfReq>>)
           R == Work(reqQ)
           lead == front \o K
<1>1. /\ K \in Seq(Requests) /\ P \in Seq(Requests) /\ R \in Seq(Requests) /\ front \in Seq(Requests)
      /\ submitted = lead \o P \o R /\ lead \in Seq(Requests)
  <2>1. /\ submitted = lead \o P \o R
        /\ K \in Seq(Requests) /\ P \in Seq(Requests) /\ R \in Seq(Requests)
        /\ collected \in Seq(Requests) /\ resQ \in Seq(Requests) /\ Work(<<dcReq>>) \in Seq(Requests)
    BY Stages DEF OrderIInv, PipelineKeepsOrder
  <2>2. front \in Seq(Requests)
    BY <2>1, ConcatProperties
  <2> HIDE DEF front, K
  <2> QED BY <2>1, <2>2, ConcatProperties
<1>2. UNCHANGED <<submitted, collected, resQ, dc, dcReq>>
  BY DEF PrefillWorker, PrefillGet, PrefillSend, PrefillDies, parentVars, dcVars, queues
<1>3. CASE PrefillGet
  <2>1. /\ reqQ # <<>> /\ pfReq = None /\ reqQ' = Tail(reqQ) /\ kvQ' = kvQ
        /\ pfReq' = Head(reqQ) /\ pf' = IF Head(reqQ) = None THEN "done" ELSE "prefill"
    BY <1>3 DEF PrefillGet, OrderIInv, IdleHoldNothing
  <2>2. P = <<>> /\ R = Work(<<pfReq'>>) \o Work(reqQ') /\ Work(<<pfReq'>>) \in Seq(Requests) /\ Work(reqQ') \in Seq(Requests)
    BY <2>1, Stages, WorkEnds
  <2>3. PipelineKeepsOrder' <=> submitted = lead \o Work(<<pfReq'>>) \o Work(reqQ')
    BY <1>2, <2>1 DEF PipelineKeepsOrder
  <2>4. IdleHoldNothing'
    BY <1>2, <2>1 DEF OrderIInv, IdleHoldNothing
  <2> HIDE DEF P, R, lead
  <2>5. lead \o P = lead
    BY <1>1, <2>2, ConcatEmptySeq
  <2>6. lead \o (Work(<<pfReq'>>) \o Work(reqQ')) = lead \o Work(<<pfReq'>>) \o Work(reqQ')
    <3> DEFINE first == Work(<<pfReq'>>)
               rest == Work(reqQ')
    <3>1. lead \in Seq(Requests) /\ first \in Seq(Requests) /\ rest \in Seq(Requests)
      BY <1>1, <2>2
    <3> HIDE DEF first, rest
    <3>2. Regroups(lead, first, rest)
      BY <3>1, Joined
    <3> QED BY <3>2 DEF first, rest, Regroups
  <2> QED BY <1>1, <2>2, <2>3, <2>4, <2>5, <2>6
<1>4. CASE PrefillSend
  <2>1. pfReq \in Requests \cup {None} /\ kvQ' = Append(kvQ, pfReq) /\ pfReq' = None /\ pf' = "get" /\ reqQ' = reqQ
    BY <1>4, Stages DEF PrefillSend
  <2>2. Work(kvQ') = K \o P /\ Work(<<pfReq'>>) = <<>>
    BY <2>1, Stages, WorkEnds
  <2>3. PipelineKeepsOrder' <=> submitted = front \o (K \o P) \o <<>> \o R
    BY <1>2, <2>1, <2>2 DEF PipelineKeepsOrder
  <2>4. IdleHoldNothing'
    BY <1>2, <2>1 DEF OrderIInv, IdleHoldNothing
  <2>5. front \o (K \o P) = lead \o P
    <3>1. front \in Seq(Requests) /\ K \in Seq(Requests) /\ P \in Seq(Requests)
      BY <1>1
    <3> HIDE DEF front, K, P
    <3>2. Regroups(front, K, P)
      BY <3>1, Joined
    <3> QED BY <3>2 DEF Regroups
  <2> HIDE DEF P, R, lead, front, K
  <2>6. lead \o P \in Seq(Requests)
    BY <1>1, ConcatProperties
  <2>7. (lead \o P) \o <<>> = lead \o P
    BY <2>6, ConcatEmptySeq
  <2> QED BY <1>1, <2>3, <2>4, <2>5, <2>7
<1>5. CASE PrefillDies
  <2>1. UNCHANGED <<pfReq, kvQ, reqQ>> /\ pf' = "dead"
    BY <1>5 DEF PrefillDies, queues
  <2> QED BY <1>1, <1>2, <2>1 DEF PipelineKeepsOrder, OrderIInv, IdleHoldNothing
<1> QED BY <1>3, <1>4, <1>5 DEF PrefillWorker

\* So does the decode worker.
LEMMA DecodeKeepsOrder ==
  ASSUME OrderIInv, DecodeWorker
  PROVE  IdleHoldNothing' /\ PipelineKeepsOrder'
<1> DEFINE A == collected
           B == resQ
           D == Work(<<dcReq>>)
           K == Work(kvQ)
           lead == A \o B
<1>1. /\ A \in Seq(Requests) /\ B \in Seq(Requests) /\ D \in Seq(Requests) /\ K \in Seq(Requests) /\ lead \in Seq(Requests)
      /\ submitted = lead \o D \o K \o Work(<<pfReq>>) \o Work(reqQ)
  <2>1. /\ submitted = lead \o D \o K \o Work(<<pfReq>>) \o Work(reqQ)
        /\ A \in Seq(Requests) /\ B \in Seq(Requests) /\ D \in Seq(Requests) /\ K \in Seq(Requests)
    BY Stages DEF OrderIInv, PipelineKeepsOrder
  <2> HIDE DEF A, B
  <2> QED BY <2>1, ConcatProperties
<1>2. UNCHANGED <<submitted, collected, pf, pfReq, reqQ>>
  BY DEF DecodeWorker, DecodeGet, DecodeGetDies, DecodeImport, DecodeToken, DecodeDies, DecodePut, parentVars, pfVars, queues
<1>3. ASSUME resQ' \o Work(<<dcReq'>>) \o Work(kvQ') = B \o D \o K, resQ' \in Seq(Requests), Work(<<dcReq'>>) \in Seq(Requests),
             Work(kvQ') \in Seq(Requests)
      PROVE  PipelineKeepsOrder'
  <2> DEFINE b == resQ'
             d == Work(<<dcReq'>>)
             k == Work(kvQ')
  <2>1. PipelineKeepsOrder' <=> submitted = A \o b \o d \o k \o Work(<<pfReq>>) \o Work(reqQ)
    BY <1>2 DEF PipelineKeepsOrder
  <2>2. b \in Seq(Requests) /\ d \in Seq(Requests) /\ k \in Seq(Requests) /\ b \o d \o k = B \o D \o K
    BY <1>3
  <2>3. submitted = A \o B \o D \o K \o Work(<<pfReq>>) \o Work(reqQ)
    BY <1>1
  <2> HIDE DEF A, B, D, K, b, d, k
  <2>4. A \in Seq(Requests) /\ B \in Seq(Requests) /\ D \in Seq(Requests) /\ K \in Seq(Requests)
    BY <1>1
  <2>5. b \in Seq(Requests) /\ d \in Seq(Requests) /\ k \in Seq(Requests)
    BY <2>2
  <2>6. JoinAsOne(A, b, d, k)
    BY <2>4, <2>5, JoinedThree
  <2>7. JoinAsOne(A, B, D, K)
    BY <2>4, JoinedThree
  <2>8. A \o b \o d \o k = A \o B \o D \o K
    BY <2>2, <2>6, <2>7 DEF JoinAsOne
  <2> QED BY <2>1, <2>3, <2>8
<1>4. CASE DecodeGet \/ DecodeGetDies
  <2>1. /\ kvQ # <<>> /\ dcReq = None /\ kvQ' = Tail(kvQ) /\ resQ' = resQ /\ dcReq' = Head(kvQ)
        /\ dc' \in {"get", "done"} => dcReq' = None
    BY <1>4 DEF DecodeGet, DecodeGetDies, OrderIInv, IdleHoldNothing
  <2>2. /\ D = <<>> /\ K = Work(<<dcReq'>>) \o Work(kvQ')
        /\ Work(<<dcReq'>>) \in Seq(Requests) /\ Work(kvQ') \in Seq(Requests)
    BY <2>1, Stages, WorkEnds
  <2>3. resQ' \o Work(<<dcReq'>>) \o Work(kvQ') = B \o D \o K
    <3>1. B \o D = B
      <4> HIDE DEF B, D
      <4> QED BY <1>1, <2>2, ConcatEmptySeq
    <3>2. (B \o Work(<<dcReq'>>)) \o Work(kvQ') = B \o (Work(<<dcReq'>>) \o Work(kvQ'))
      <4> DEFINE first == Work(<<dcReq'>>)
                 rest == Work(kvQ')
      <4>1. B \in Seq(Requests) /\ first \in Seq(Requests) /\ rest \in Seq(Requests)
        BY <1>1, <2>2
      <4> HIDE DEF B, first, rest
      <4>2. Regroups(B, first, rest)
        BY <4>1, Joined
      <4> QED BY <4>2 DEF first, rest, Regroups
    <3> QED BY <2>1, <2>2, <3>1, <3>2
  <2>4. IdleHoldNothing'
    BY <1>2, <2>1 DEF OrderIInv, IdleHoldNothing
  <2> QED BY <1>1, <1>3, <2>1, <2>2, <2>3, <2>4
<1>5. CASE DecodeImport \/ DecodeToken \/ DecodeDies
  <2>1. UNCHANGED <<resQ, dcReq, kvQ>> /\ dc' \in {"decode", "dead"}
    BY <1>5 DEF DecodeImport, DecodeToken, DecodeDies, Decoding, queues
  <2> QED BY <1>1, <1>2, <2>1 DEF PipelineKeepsOrder, OrderIInv, IdleHoldNothing
<1>6. CASE DecodePut
  <2>1. resQ' = Append(resQ, dcReq) /\ dcReq' = None /\ dc' = "get" /\ kvQ' = kvQ /\ dcReq \in Requests
    BY <1>6 DEF DecodePut, OrderIInv, DisaggIInv, HeldAreRequests
  <2>2. D = <<dcReq>> /\ Work(<<dcReq'>>) = <<>> /\ Work(<<dcReq'>>) \in Seq(Requests)
    BY <2>1, Stages, WorkOne, SentinelAssumption
  <2>3. resQ' = B \o D
    BY <1>1, <2>1, <2>2, AppendIsConcat
  <2>4. B \o D \in Seq(Requests)
    <3> HIDE DEF B, D
    <3> QED BY <1>1, ConcatProperties
  <2>5. (B \o D) \o <<>> = B \o D
    BY <2>4, ConcatEmptySeq
  <2>6. IdleHoldNothing'
    BY <1>2, <2>1 DEF OrderIInv, IdleHoldNothing
  <2> QED BY <1>1, <1>3, <2>1, <2>2, <2>3, <2>4, <2>5, <2>6
<1> QED BY <1>4, <1>5, <1>6 DEF DecodeWorker

\* No request is lost, doubled or overtaken between the processes, whichever of them
\* dies or is shut down in the middle of its work (disaggregated.py:114-160): read
\* from the results back to the request queue they stand in the order of submit.
THEOREM RequestsKeepOrder == DisaggSpec => []PipelineKeepsOrder
<1>1. DisaggInit => OrderIInv
  <2> SUFFICES ASSUME DisaggInit PROVE IdleHoldNothing /\ PipelineKeepsOrder
    BY InitIInv DEF OrderIInv
  <2>1. Work(<<None>>) = <<>>
    BY WorkOne
  <2>2. Work(<<>>) = <<>>
    <3>1. <<>> \in Seq(Requests \cup {None}) /\ <<None>> \in Seq(Requests \cup {None}) /\ <<None>> = <<>> \o <<None>>
      BY ConcatSimplifications
    <3>2. Work(<<>> \o <<None>>) = Work(<<>>) \o Work(<<None>>) /\ Work(<<>>) \in Seq(Requests)
      BY <3>1, WorkConcat
    <3>3. Work(<<>>) \o <<>> = Work(<<>>)
      BY <3>2, ConcatEmptySeq
    <3> QED BY <2>1, <3>1, <3>2, <3>3
  <2>3. <<>> \o <<>> = <<>>
    OBVIOUS
  <2> QED BY <2>1, <2>2, <2>3 DEF DisaggInit, IdleHoldNothing, PipelineKeepsOrder
<1>2. OrderIInv /\ [DisaggNext]_disaggVars => OrderIInv'
  <2> SUFFICES ASSUME OrderIInv, [DisaggNext]_disaggVars PROVE IdleHoldNothing' /\ PipelineKeepsOrder'
    BY StepIInv DEF OrderIInv
  <2>1. CASE UNCHANGED disaggVars
    BY <2>1 DEF disaggVars, queues, pfVars, dcVars, parentVars, OrderIInv, IdleHoldNothing, PipelineKeepsOrder
  <2> QED BY <2>1, ParentKeepsOrder, PrefillKeepsOrder, DecodeKeepsOrder DEF DisaggNext
<1>3. OrderIInv => PipelineKeepsOrder
  BY DEF OrderIInv
<1> QED BY <1>1, <1>2, <1>3, PTL DEF DisaggSpec

-----------------------------------------------------------------------------
\* The socket transport.

Bytes == Nat \X Nat

\* The bytes of the first n messages.
Message(i) == Header(i) \o Body(i)
Stream(n) == FlattenSeq([i \in 1..n |-> Message(i)])

\* The messages are sent from the first one on.
SentInOrder == sent \in Nat /\ 1..sent \subseteq Messages

BytesOK ==
  /\ unsent \in Seq(Bytes) /\ wire \in Seq(Bytes) /\ buf \in Seq(Bytes)
  /\ received \in Seq(Seq(Bytes))

\* The receiver asks for what the part of the message it reads is long, and never
\* has more.
Asked ==
  /\ part = "header" => want = HeaderLen
  /\ part = "body" => Len(received) < sent /\ want = BodyLen(Len(received) + 1)
  /\ Len(buf) <= want

TransportIInv == TransportInv /\ SentInOrder /\ BytesOK /\ Asked

-----------------------------------------------------------------------------
\* A message is its header and its body.
LEMMA MessageTypes ==
  ASSUME NEW i \in Nat, i \in Messages
  PROVE  /\ Header(i) \in Seq(Bytes) /\ Len(Header(i)) = HeaderLen /\ Header(i)[1] = <<i, 1>>
         /\ Body(i) \in Seq(Bytes) /\ Len(Body(i)) = BodyLen(i) /\ BodyLen(i) \in Nat
         /\ Message(i) \in Seq(Bytes)
<1>1. HeaderLen \in Nat \ {0} /\ BodyLen(i) \in Nat
  BY FramingAssumption
<1>2. Header(i) \in [1..HeaderLen -> Bytes] /\ Header(i)[1] = <<i, 1>>
  <2>1. \A k \in 1..HeaderLen : <<i, k>> \in Bytes
    BY DEF Bytes
  <2> QED BY <1>1, <2>1 DEF Header
<1>3. Body(i) \in [1..BodyLen(i) -> Bytes]
  <2>1. \A k \in 1..BodyLen(i) : <<i, HeaderLen + k>> \in Bytes
    BY <1>1 DEF Bytes
  <2> QED BY <2>1 DEF Body
<1>4. Header(i) \in Seq(Bytes) /\ Len(Header(i)) = HeaderLen
  BY <1>1, <1>2, ListFromFunction
<1>5. Body(i) \in Seq(Bytes) /\ Len(Body(i)) = BodyLen(i)
  BY <1>1, <1>3, ListFromFunction
<1>6. Message(i) \in Seq(Bytes)
  BY <1>4, <1>5, Joined DEF Message
<1> QED BY <1>1, <1>2, <1>4, <1>5, <1>6

\* The stream grows by whole messages.
LEMMA StreamGrows ==
  ASSUME NEW n \in Nat, 1..n \subseteq Messages
  PROVE  /\ Stream(0) = <<>> /\ Stream(n) \in Seq(Bytes)
         /\ n + 1 \in Messages => Stream(n + 1) = Stream(n) \o Message(n + 1)
<1> DEFINE ss == [i \in 1..n |-> Message(i)]
<1>1. ss \in [1..n -> Seq(Bytes)]
  <2>1. \A i \in 1..n : Message(i) \in Seq(Bytes)
    BY MessageTypes
  <2> QED BY <2>1
<1>2. ss \in Seq(Seq(Bytes)) /\ Len(ss) = n
  <2> HIDE DEF ss
  <2> QED BY <1>1, ListFromFunction
<1>3. Stream(0) = <<>>
  <2> DEFINE none == [i \in 1..0 |-> Message(i)]
  <2>1. none \in [1..0 -> Seq(Bytes)] /\ 0 \in Nat
    OBVIOUS
  <2> HIDE DEF none
  <2>2. none \in Seq(Seq(Bytes)) /\ Len(none) = 0
    BY <2>1, ListFromFunction
  <2>3. none = <<>>
    BY <2>2, EmptySeq
  <2>4. FlattenSeq(none) = <<>>
    BY <2>3 DEF FlattenSeq
  <2> QED BY <2>4 DEF Stream, none
<1>4. Stream(n) \in Seq(Bytes)
  <2>1. <<>> \in Seq(Bytes)
    OBVIOUS
  <2> HIDE DEF ss
  <2>2. FlattenSeq(ss) \in Seq(Bytes)
    BY <1>2, <2>1, FlattenAppend
  <2> QED BY <2>2 DEF Stream, ss
<1>5. ASSUME n + 1 \in Messages PROVE Stream(n + 1) = Stream(n) \o Message(n + 1)
  <2> DEFINE more == [i \in 1..(n + 1) |-> Message(i)]
             m == Message(n + 1)
  <2>1. m \in Seq(Bytes)
    BY <1>5, MessageTypes
  <2>2. more = Append(ss, m)
    <3>1. more \in [1..(n + 1) -> Seq(Bytes)]
      <4>1. \A i \in 1..(n + 1) : Message(i) \in Seq(Bytes)
        <5>1. \A i \in 1..(n + 1) : i \in Messages /\ i \in Nat
          BY <1>5
        <5> QED BY <5>1, MessageTypes
      <4> QED BY <4>1
    <3>2. \A i \in 1..n : more[i] = ss[i]
      OBVIOUS
    <3>3. more[n + 1] = m
      OBVIOUS
    <3> HIDE DEF more, ss, m
    <3>4. more \in Seq(Seq(Bytes)) /\ Len(more) = n + 1
      BY <3>1, ListFromFunction
    <3>5. /\ Append(ss, m) \in Seq(Seq(Bytes)) /\ Len(Append(ss, m)) = n + 1
          /\ \A i \in 1..n : Append(ss, m)[i] = ss[i]
          /\ Append(ss, m)[n + 1] = m
      BY <1>2, <2>1, AppendProperties
    <3>6. \A i \in 1..(n + 1) : more[i] = Append(ss, m)[i]
      <4> TAKE i \in 1..(n + 1)
      <4>1. i \in 1..n \/ i = n + 1
        OBVIOUS
      <4> QED BY <3>2, <3>3, <3>5, <4>1
    <3> QED BY <3>4, <3>5, <3>6, SeqEqual
  <2> HIDE DEF ss, m
  <2>3. FlattensAt(ss, m)
    BY <1>2, <2>1, FlattenAppend
  <2>4. FlattenSeq(more) = FlattenSeq(ss) \o m
    BY <2>2, <2>3 DEF FlattensAt
  <2> QED BY <2>4 DEF Stream, ss, m
<1> QED BY <1>3, <1>4, <1>5

\* Behind the first k messages of the stream comes the next one.
LEMMA StreamSplits ==
  ASSUME NEW k \in Nat, NEW n \in Nat, k < n, 1..n \subseteq Messages
  PROVE  \E rest \in Seq(Bytes) : Stream(n) = Stream(k) \o (Message(k + 1) \o rest)
<1> DEFINE splits(m) == \E rest \in Seq(Bytes) : Stream(m) = Stream(k) \o (Message(k + 1) \o rest)
           S == {m \in Nat : k + 1 + m <= n => splits(k + 1 + m)}
<1>1. \A m \in Nat : m <= n => 1..m \subseteq Messages
  OBVIOUS
<1>2. k + 1 \in Messages /\ k + 1 \in Nat
  OBVIOUS
<1>3. Stream(k) \in Seq(Bytes) /\ Message(k + 1) \in Seq(Bytes) /\ Stream(k + 1) = Stream(k) \o Message(k + 1)
  <2>1. 1..k \subseteq Messages
    BY <1>1
  <2> QED BY <1>2, <2>1, StreamGrows, MessageTypes
<1>4. 0 \in S
  <2>1. Message(k + 1) \o <<>> = Message(k + 1) /\ <<>> \in Seq(Bytes)
    BY <1>3, ConcatEmptySeq
  <2>2. splits(k + 1)
    BY <1>3, <2>1
  <2> QED BY <2>2
<1>5. ASSUME NEW m \in Nat, m \in S PROVE m + 1 \in S
  <2> SUFFICES ASSUME k + 1 + (m + 1) <= n PROVE splits(k + 1 + (m + 1))
    <3> HIDE DEF splits
    <3> QED OBVIOUS
  <2> DEFINE j == k + 1 + m
  <2>1. j \in Nat /\ j + 1 = k + 1 + (m + 1) /\ j + 1 <= n /\ j + 1 \in Messages /\ j <= n
    OBVIOUS
  <2>2. splits(j)
    BY <1>5, <2>1
  <2> HIDE DEF j
  <2>3. PICK rest \in Seq(Bytes) : Stream(j) = Stream(k) \o (Message(k + 1) \o rest)
    BY <2>2
  <2>4. Stream(j + 1) = Stream(j) \o Message(j + 1) /\ Message(j + 1) \in Seq(Bytes)
    <3>1. 1..j \subseteq Messages
      BY <1>1, <2>1
    <3> QED BY <2>1, <3>1, StreamGrows, MessageTypes
  <2> DEFINE s == Stream(k)
             a == Message(k + 1)
             b == Message(j + 1)
             ar == a \o rest
             rb == rest \o b
  <2>5. s \in Seq(Bytes) /\ a \in Seq(Bytes) /\ b \in Seq(Bytes)
    BY <1>3, <2>4
  <2> HIDE DEF s, a, b
  <2>6. ar \in Seq(Bytes) /\ rb \in Seq(Bytes) /\ ar \o b = a \o rb
    <3>1. Regroups(a, rest, b)
      BY <2>5, Joined
    <3>2. ar \in Seq(Bytes) /\ rb \in Seq(Bytes)
      BY <2>5, Joined
    <3> QED BY <3>1, <3>2 DEF Regroups
  <2>7. Stream(j) = s \o ar /\ Stream(j + 1) = Stream(j) \o b
    BY <2>3, <2>4 DEF s, a, b
  <2> HIDE DEF ar, rb
  <2>8. Regroups(s, ar, b)
    BY <2>5, <2>6, Joined
  <2>9. Stream(j + 1) = s \o (a \o rb)
    BY <2>6, <2>7, <2>8 DEF Regroups
  <2>10. splits(j + 1)
    BY <2>6, <2>9 DEF s, a
  <2> QED BY <2>1, <2>10
<1> HIDE DEF S
<1>6. Nat \subseteq S
  BY <1>4, <1>5, NatSetInduction
<1>7. n - (k + 1) \in S /\ k + 1 + (n - (k + 1)) = n
  BY <1>6
<1> QED BY <1>7 DEF S

\* Cutting what is left to send, or what is under way, in two.
LEMMA MinOfTwo ==
  ASSUME NEW a \in Int, NEW b \in Int
  PROVE  Min({a, b}) <= a /\ Min({a, b}) <= b /\ Min({a, b}) \in Int
<1>1. \E x \in {a, b} : \A y \in {a, b} : x =< y
  OBVIOUS
<1>2. Min({a, b}) \in {a, b} /\ \A y \in {a, b} : Min({a, b}) =< y
  BY <1>1 DEF Min
<1> QED BY <1>2

-----------------------------------------------------------------------------
\* What has been read of the stream behind k messages: nothing yet, or the next header.
InFront(k, p) == Stream(k) \o (IF p = "body" THEN Header(k + 1) ELSE <<>>)

\* StreamAligned for the whole messages it is about.
Aligned(k, p, b, w, u, n) == p # "failed" => ((InFront(k, p) \o b) \o w) \o u = Stream(n)

\* Messages received whole are the front of the stream.
LEMMA BehindIsStream ==
  ASSUME NEW list \in Seq(Seq(Bytes)), \A i \in DOMAIN list : list[i] = Body(i)
  PROVE  FlattenSeq([i \in 1..Len(list) |-> Header(i) \o list[i]]) = Stream(Len(list))
<1>1. DOMAIN list = 1..Len(list)
  OBVIOUS
<1>2. [i \in 1..Len(list) |-> Header(i) \o list[i]] = [i \in 1..Len(list) |-> Message(i)]
  BY <1>1 DEF Message
<1> QED BY <1>2 DEF Stream

\* So StreamAligned is about them, before a step
LEMMA AlignedBefore ==
  ASSUME MessagesWhole, received \in Seq(Seq(Bytes))
  PROVE  StreamAligned <=> Aligned(Len(received), part, buf, wire, unsent, sent)
BY BehindIsStream DEF MessagesWhole, StreamAligned, Aligned, InFront, Stream, Message

\* and after it.
LEMMA AlignedAfter ==
  ASSUME MessagesWhole', received' \in Seq(Seq(Bytes))
  PROVE  StreamAligned' <=> Aligned(Len(received'), part', buf', wire', unsent', sent')
<1> DEFINE list == received'
<1>1. FlattenSeq([i \in 1..Len(list) |-> Header(i) \o list[i]]) = Stream(Len(list))
  <2>1. \A i \in DOMAIN list : list[i] = Body(i)
    BY DEF MessagesWhole
  <2> HIDE DEF list
  <2> QED BY <2>1, BehindIsStream DEF list
<1> QED BY <1>1 DEF StreamAligned, Aligned, InFront, Stream, Message

\* What the receiver and the stream are before a step.
LEMMA Standing ==
  ASSUME TransportIInv
  PROVE  LET k == Len(received)
         IN  /\ k \in Nat /\ sent \in Nat /\ k <= sent /\ 1..k \subseteq Messages /\ 1..sent \subseteq Messages
             /\ Stream(k) \in Seq(Bytes) /\ Stream(sent) \in Seq(Bytes) /\ InFront(k, part) \in Seq(Bytes)
             /\ Aligned(k, part, buf, wire, unsent, sent)
<1> DEFINE k == Len(received)
<1>1. k \in Nat /\ sent \in Nat /\ k <= sent /\ 1..sent \subseteq Messages
  BY DEF TransportIInv, TransportInv, TransportTypeOK, SentInOrder, BytesOK
<1>2. Aligned(k, part, buf, wire, unsent, sent)
  BY AlignedBefore DEF TransportIInv, TransportInv, BytesOK
<1>3. part = "body" => k < sent
  BY DEF TransportIInv, Asked
<1> HIDE DEF k
<1>4. 1..k \subseteq Messages
  BY <1>1
<1>5. Stream(k) \in Seq(Bytes) /\ Stream(sent) \in Seq(Bytes)
  BY <1>1, <1>4, StreamGrows
<1>6. InFront(k, part) \in Seq(Bytes)
  <2>1. CASE part = "body"
    <3>1. k + 1 \in Messages /\ k + 1 \in Nat
      BY <1>1, <1>3, <2>1
    <3>2. Header(k + 1) \in Seq(Bytes)
      BY <3>1, MessageTypes
    <3>3. Stream(k) \o Header(k + 1) \in Seq(Bytes)
      BY <1>5, <3>2, Joined
    <3> QED BY <2>1, <3>3 DEF InFront
  <2>2. CASE part # "body"
    <3>1. Stream(k) \o <<>> = Stream(k)
      BY <1>5, ConcatEmptySeq
    <3> QED BY <1>5, <2>2, <3>1 DEF InFront
  <2> QED BY <2>1, <2>2
<1> QED BY <1>1, <1>2, <1>4, <1>5, <1>6 DEF k

-----------------------------------------------------------------------------
\* Nothing is sent yet.
LEMMA TransportInit == TcpInit => TransportIInv
<1> SUFFICES ASSUME TcpInit PROVE TransportIInv
  OBVIOUS
<1>1. /\ sent = 0 /\ unsent = <<>> /\ wire = <<>> /\ closed = FALSE
      /\ want = HeaderLen /\ buf = <<>> /\ part = "header" /\ received = <<>>
  BY DEF TcpInit
<1>2. /\ <<>> \in Seq(Bytes) /\ <<>> \in Seq(Seq(Bytes)) /\ Len(<<>>) = 0
      /\ DOMAIN <<>> = {} /\ 1..0 = {} /\ 0 \in Nat
  OBVIOUS
<1>3. TransportTypeOK /\ MessagesWhole /\ SentInOrder /\ BytesOK /\ Asked
  <2>1. TransportTypeOK
    <3>1. HeaderLen \in Nat
      BY FramingAssumption
    <3>2. sent \in {0} \cup Messages /\ closed \in BOOLEAN /\ part \in {"header", "body", "failed"}
      BY <1>1
    <3>3. want \in Nat /\ Len(received) <= sent
      BY <1>1, <1>2, <3>1
    <3> QED BY <3>2, <3>3 DEF TransportTypeOK
  <2>2. MessagesWhole
    BY <1>1, <1>2 DEF MessagesWhole
  <2>3. SentInOrder
    BY <1>1, <1>2 DEF SentInOrder
  <2>4. BytesOK
    BY <1>1, <1>2 DEF BytesOK
  <2>5. Asked
    BY <1>1, <1>2, FramingAssumption DEF Asked
  <2> QED BY <2>1, <2>2, <2>3, <2>4, <2>5
<1>4. Stream(0) = <<>>
  BY <1>2, StreamGrows
<1>5. <<>> \o <<>> = <<>>
  OBVIOUS
<1>6. Aligned(0, "header", <<>>, <<>>, <<>>, 0)
  BY <1>4, <1>5 DEF Aligned, InFront
<1>7. StreamAligned
  BY <1>1, <1>2, <1>3, <1>6, AlignedBefore DEF BytesOK
<1> QED BY <1>3, <1>7 DEF TransportIInv, TransportInv

\* The sender: a message is put behind the stream, or its bytes move on.
LEMMA SenderStep ==
  ASSUME TransportIInv, Send \/ Transmit \/ CloseSender
  PROVE  TransportIInv'
<1> DEFINE k == Len(received)
           F == InFront(k, part)
<1>1. /\ k \in Nat /\ sent \in Nat /\ k <= sent /\ 1..sent \subseteq Messages
      /\ Stream(sent) \in Seq(Bytes) /\ F \in Seq(Bytes)
      /\ part # "failed" => ((F \o buf) \o wire) \o unsent = Stream(sent)
  BY Standing DEF Aligned
<1>2. UNCHANGED <<want, buf, part, received>> /\ closed' \in BOOLEAN
  BY DEF Send, Transmit, CloseSender, receiver, TransportIInv, TransportInv, TransportTypeOK
<1>3. MessagesWhole' /\ received' \in Seq(Seq(Bytes)) /\ buf' \in Seq(Bytes)
  BY <1>2 DEF TransportIInv, TransportInv, MessagesWhole, BytesOK
<1>4. unsent \in Seq(Bytes) /\ wire \in Seq(Bytes) /\ buf \in Seq(Bytes)
  BY DEF TransportIInv, BytesOK
<1> HIDE DEF F, k
<1>5. F \o buf \in Seq(Bytes) /\ (F \o buf) \o wire \in Seq(Bytes)
  <2>1. F \o buf \in Seq(Bytes)
    BY <1>1, <1>4, Joined
  <2> DEFINE Fb == F \o buf
  <2> HIDE DEF Fb
  <2>2. Fb \in Seq(Bytes)
    BY <2>1 DEF Fb
  <2>3. Fb \o wire \in Seq(Bytes)
    BY <1>4, <2>2, Joined
  <2> QED BY <2>1, <2>3 DEF Fb
<1>6. ASSUME sent' \in Nat, sent <= sent', sent' \in {0} \cup Messages, 1..sent' \subseteq Messages,
             unsent' \in Seq(Bytes), wire' \in Seq(Bytes),
             part # "failed" => ((F \o buf) \o wire') \o unsent' = Stream(sent')
      PROVE  TransportIInv'
  <2>1. TransportTypeOK' /\ SentInOrder' /\ BytesOK' /\ Asked'
    BY <1>1, <1>2, <1>3, <1>6
    DEF TransportIInv, TransportInv, TransportTypeOK, SentInOrder, BytesOK, Asked, k
  <2>2. Aligned(Len(received'), part', buf', wire', unsent', sent')
    BY <1>2, <1>6 DEF Aligned, F, k
  <2>3. StreamAligned'
    BY <1>3, <2>2, AlignedAfter
  <2> QED BY <1>3, <2>1, <2>3 DEF TransportIInv, TransportInv
<1>7. CASE Send
  <2> DEFINE m == Message(sent + 1)
             L == (F \o buf) \o wire
  <2>1. /\ unsent = <<>> /\ sent + 1 \in Messages /\ sent' = sent + 1 /\ unsent' = m /\ wire' = wire
    BY <1>7 DEF Send, Message
  <2>2. m \in Seq(Bytes) /\ Stream(sent + 1) = Stream(sent) \o m
    <3>1. sent + 1 \in Nat
      BY <1>1
    <3>2. m \in Seq(Bytes)
      BY <2>1, <3>1, MessageTypes
    <3>3. Stream(sent + 1) = Stream(sent) \o m
      BY <1>1, <2>1, StreamGrows
    <3> QED BY <3>2, <3>3
  <2>3. L \in Seq(Bytes)
    BY <1>5
  <2> HIDE DEF L, m
  <2>4. L \o <<>> = L
    BY <2>3, ConcatEmptySeq
  <2>5. part # "failed" => L \o m = Stream(sent + 1)
    BY <1>1, <2>1, <2>2, <2>4 DEF L
  <2>6. \A i \in 1..(sent + 1) : i \in 1..sent \/ i = sent + 1
    BY <1>1
  <2>7. 1..(sent + 1) \subseteq Messages
    BY <1>1, <2>1, <2>6
  <2>8. /\ sent' \in Nat /\ sent <= sent' /\ sent' \in {0} \cup Messages /\ 1..sent' \subseteq Messages
        /\ unsent' \in Seq(Bytes) /\ wire' \in Seq(Bytes)
    BY <1>1, <1>4, <2>1, <2>2, <2>7
  <2> QED BY <1>6, <2>1, <2>5, <2>8 DEF L
<1>8. CASE Transmit
  <2>1. PICK n \in 1..Len(unsent) : wire' = wire \o SubSeq(unsent, 1, n) /\ unsent' = SubSeq(unsent, n + 1, Len(unsent))
    BY <1>8 DEF Transmit
  <2> DEFINE x == SubSeq(unsent, 1, n)
             y == SubSeq(unsent, n + 1, Len(unsent))
             Fb == F \o buf
  <2>2. n \in 0..Len(unsent)
    OBVIOUS
  <2>3. x \in Seq(Bytes) /\ y \in Seq(Bytes) /\ unsent = x \o y
    BY <1>4, <2>2, Halves
  <2>4. Fb \in Seq(Bytes) /\ wire' = wire \o x /\ unsent' = y /\ sent' = sent
    BY <1>5, <1>8, <2>1 DEF Transmit
  <2> HIDE DEF x, y, Fb
  <2>5. Shifts(Fb, wire, x, y) /\ wire \o x \in Seq(Bytes)
    BY <1>4, <2>3, <2>4, JoinedShift, Joined
  <2>6. part # "failed" => (Fb \o wire') \o unsent' = Stream(sent)
    BY <1>1, <2>3, <2>4, <2>5 DEF Shifts, Fb
  <2>7. sent \in {0} \cup Messages
    BY DEF TransportIInv, TransportInv, TransportTypeOK
  <2>8. /\ sent' \in Nat /\ sent <= sent' /\ sent' \in {0} \cup Messages /\ 1..sent' \subseteq Messages
        /\ unsent' \in Seq(Bytes) /\ wire' \in Seq(Bytes)
    BY <1>1, <2>3, <2>4, <2>5, <2>7
  <2>9. part # "failed" => ((F \o buf) \o wire') \o unsent' = Stream(sent')
    BY <2>4, <2>6 DEF Fb
  <2> QED BY <1>6, <2>8, <2>9
<1>9. CASE CloseSender
  <2>1. UNCHANGED <<sent, unsent, wire>> /\ sent \in {0} \cup Messages
    BY <1>9 DEF CloseSender, TransportIInv, TransportInv, TransportTypeOK
  <2> QED BY <1>1, <1>4, <1>6, <2>1
<1> QED BY <1>7, <1>8, <1>9

-----------------------------------------------------------------------------
\* b stands behind s in the list in which h does.
SamePlace(s, b, w, u, h, r) == ((s \o b) \o w) \o u = s \o (h \o r)

\* What stands at the same place of the same list, with the same length, is the same.
LEMMA PartIs ==
  ASSUME NEW s \in Seq(Bytes), NEW b \in Seq(Bytes), NEW w \in Seq(Bytes), NEW u \in Seq(Bytes),
         NEW h \in Seq(Bytes), NEW r \in Seq(Bytes),
         SamePlace(s, b, w, u, h, r), Len(b) = Len(h)
  PROVE  b = h
<1> DEFINE sb == s \o b
           wu == w \o u
           bwu == b \o wu
           hr == h \o r
<1>1. sb \in Seq(Bytes) /\ wu \in Seq(Bytes) /\ hr \in Seq(Bytes)
  BY Joined
<1>2. (sb \o w) \o u = sb \o wu
  <2> HIDE DEF sb
  <2>1. Regroups(sb, w, u)
    BY <1>1, Joined
  <2> QED BY <2>1 DEF Regroups
<1>3. sb \o wu = s \o bwu /\ bwu \in Seq(Bytes)
  <2> HIDE DEF wu
  <2>1. Regroups(s, b, wu) /\ bwu \in Seq(Bytes)
    BY <1>1, Joined
  <2> QED BY <2>1 DEF Regroups
<1> HIDE DEF sb, bwu, hr
<1>4. s \o bwu = s \o hr
  BY <1>2, <1>3 DEF sb, hr, SamePlace
<1>5. bwu = hr
  BY <1>1, <1>3, <1>4, ConcatSimplifications
<1> HIDE DEF wu
<1> QED BY <1>1, <1>5, SameFront DEF bwu, hr

\* Something is left of the stream behind the messages received: it is the next message.
LEMMA NextMessage ==
  ASSUME NEW k \in Nat, NEW n \in Nat, k <= n, 1..n \subseteq Messages,
         NEW s \in Seq(Bytes), Stream(k) \o s = Stream(n), s # <<>>
  PROVE  /\ k < n /\ k + 1 \in Messages
         /\ \E rest \in Seq(Bytes) : Stream(n) = Stream(k) \o (Message(k + 1) \o rest)
<1>1. Stream(k) \in Seq(Bytes)
  <2>1. 1..k \subseteq Messages
    OBVIOUS
  <2> QED BY <2>1, StreamGrows
<1>2. k # n
  <2> SUFFICES ASSUME k = n PROVE FALSE
    OBVIOUS
  <2> DEFINE t == Stream(k)
  <2>1. t \in Seq(Bytes) /\ t \o s = t
    BY <1>1
  <2> HIDE DEF t
  <2>2. s = <<>>
    BY <2>1, ConcatEqualIffEmpty
  <2> QED BY <2>2
<1>3. k < n /\ k + 1 \in Messages
  BY <1>2
<1> QED BY <1>3, StreamSplits

\* One recv: bytes move from the wire to the buffer, no more than are wanted.
LEMMA ReceiveStep ==
  ASSUME TransportIInv, Receive \/ ReceiveFails
  PROVE  TransportIInv'
<1> DEFINE k == Len(received)
           F == InFront(k, part)
<1>1. /\ F \in Seq(Bytes) /\ want \in Nat /\ Len(buf) <= want
      /\ ((F \o buf) \o wire) \o unsent = Stream(sent)
      /\ unsent \in Seq(Bytes) /\ wire \in Seq(Bytes) /\ buf \in Seq(Bytes)
  <2>1. part # "failed"
    BY DEF Receive, ReceiveFails
  <2> QED BY <2>1, Standing DEF Aligned, TransportIInv, TransportInv, TransportTypeOK, BytesOK, Asked
<1>2. /\ UNCHANGED <<sent, unsent, closed, want, received>>
      /\ MessagesWhole' /\ received' \in Seq(Seq(Bytes)) /\ SentInOrder'
  BY DEF Receive, ReceiveFails, sender, TransportIInv, TransportInv, MessagesWhole, BytesOK, SentInOrder
<1>3. CASE Receive
  <2>1. PICK n \in 1..Min({Ask, Len(wire)}) : buf' = buf \o SubSeq(wire, 1, n) /\ wire' = SubSeq(wire, n + 1, Len(wire))
    BY <1>3 DEF Receive
  <2> DEFINE x == SubSeq(wire, 1, n)
             y == SubSeq(wire, n + 1, Len(wire))
  <2>2. n \in 0..Len(wire) /\ n <= want - Len(buf)
    <3> DEFINE room == want - Len(buf)
               len == Len(wire)
    <3>1. room \in Int /\ len \in Nat /\ MaxRecv \in Int
      BY <1>1, FramingAssumption
    <3> HIDE DEF room, len
    <3>2. Min({room, MaxRecv}) <= room /\ Min({room, MaxRecv}) \in Int
      BY <3>1, MinOfTwo
    <3>3. Ask <= room /\ Ask \in Int
      BY <3>2 DEF Ask, room
    <3>4. Min({Ask, len}) <= Ask /\ Min({Ask, len}) <= len /\ Min({Ask, len}) \in Int
      <4> DEFINE ask == Ask
      <4>1. ask \in Int /\ len \in Int
        BY <3>1, <3>3
      <4> HIDE DEF ask
      <4>2. Min({ask, len}) <= ask /\ Min({ask, len}) <= len /\ Min({ask, len}) \in Int
        BY <4>1, MinOfTwo
      <4> QED BY <4>2 DEF ask
    <3>5. n \in 1..Min({Ask, len})
      BY DEF len
    <3>6. n \in Nat /\ n <= room /\ n <= len
      BY <3>1, <3>3, <3>4, <3>5
    <3> QED BY <3>1, <3>6 DEF room, len
  <2>3. x \in Seq(Bytes) /\ Len(x) = n /\ y \in Seq(Bytes) /\ wire = x \o y
    BY <1>1, <2>2, Halves
  <2>4. buf' = buf \o x /\ wire' = y /\ part' = part
    BY <1>3, <2>1 DEF Receive
  <2> HIDE DEF x, y
  <2>5. buf \o x \in Seq(Bytes) /\ Len(buf \o x) = Len(buf) + n /\ Len(buf) \in Nat
    BY <1>1, <2>3, ConcatProperties, LenProperties
  <2>6. Len(buf') <= want
    BY <1>1, <2>2, <2>4, <2>5
  <2> HIDE DEF F
  <2>7. Shifts(F, buf, x, y)
    BY <1>1, <2>3, JoinedShift
  <2>8. (F \o buf') \o wire' = (F \o buf) \o wire
    BY <2>3, <2>4, <2>7 DEF Shifts
  <2>9. ((F \o buf') \o wire') \o unsent' = Stream(sent')
    BY <1>1, <1>2, <2>8
  <2>10. Aligned(Len(received'), part', buf', wire', unsent', sent')
    BY <1>2, <2>4, <2>9 DEF Aligned, F
  <2>11. StreamAligned'
    BY <1>2, <2>10, AlignedAfter
  <2>12. TransportTypeOK' /\ BytesOK' /\ Asked'
    BY <1>1, <1>2, <2>3, <2>4, <2>5, <2>6
    DEF TransportIInv, TransportInv, TransportTypeOK, BytesOK, Asked
  <2> QED BY <1>2, <2>11, <2>12 DEF TransportIInv, TransportInv
<1>4. CASE ReceiveFails
  <2>1. part' = "failed" /\ buf' = <<>> /\ wire' = wire /\ Len(<<>>) = 0 /\ <<>> \in Seq(Bytes)
    BY <1>4 DEF ReceiveFails
  <2>2. StreamAligned'
    BY <2>1 DEF StreamAligned
  <2>3. TransportTypeOK' /\ BytesOK' /\ Asked'
    BY <1>1, <1>2, <2>1 DEF TransportIInv, TransportInv, TransportTypeOK, BytesOK, Asked
  <2> QED BY <1>2, <2>2, <2>3 DEF TransportIInv, TransportInv
<1> QED BY <1>3, <1>4

\* The header is complete: it is the one of the next message.
LEMMA HeaderStep ==
  ASSUME TransportIInv, HeaderDone
  PROVE  TransportIInv'
<1> DEFINE k == Len(received)
           H == Header(k + 1)
<1>1. /\ part = "header" /\ part' = "body" /\ want' = LengthIn(buf) /\ buf' = <<>>
      /\ UNCHANGED <<sent, unsent, closed, wire, received>> /\ Len(buf) >= want
  BY DEF HeaderDone, sender
<1>2. /\ k \in Nat /\ sent \in Nat /\ k <= sent /\ 1..sent \subseteq Messages
      /\ Stream(k) \in Seq(Bytes) /\ Stream(sent) \in Seq(Bytes) /\ InFront(k, part) \in Seq(Bytes)
      /\ ((InFront(k, part) \o buf) \o wire) \o unsent = Stream(sent)
  BY <1>1, Standing DEF Aligned
<1>3. /\ unsent \in Seq(Bytes) /\ wire \in Seq(Bytes) /\ buf \in Seq(Bytes)
      /\ Len(buf) = HeaderLen /\ HeaderLen \in Nat \ {0}
  <2>1. want = HeaderLen /\ Len(buf) <= want /\ buf \in Seq(Bytes) /\ HeaderLen \in Nat \ {0}
    BY <1>1, FramingAssumption DEF TransportIInv, Asked, BytesOK
  <2>2. Len(buf) \in Nat
    BY <2>1, LenProperties
  <2>3. Len(buf) = HeaderLen
    BY <1>1, <2>1, <2>2
  <2> QED BY <2>1, <2>3 DEF TransportIInv, BytesOK
<1> HIDE DEF k
<1> DEFINE S == Stream(k)
<1>4. S \in Seq(Bytes) /\ S \o <<>> = S /\ InFront(k, part) = S
  BY <1>1, <1>2, ConcatEmptySeq DEF InFront
<1>5. ((S \o buf) \o wire) \o unsent = Stream(sent)
  BY <1>2, <1>4
<1>6. /\ k < sent /\ k + 1 \in Messages
      /\ \E rest \in Seq(Bytes) : Stream(sent) = S \o (Message(k + 1) \o rest)
  <2> DEFINE more == (buf \o wire) \o unsent
             bw == buf \o wire
  <2> HIDE DEF S
  <2>1. bw \in Seq(Bytes) /\ Regroups(S, buf, wire)
    BY <1>3, <1>4, Joined
  <2>2. Len(bw) = Len(buf) + Len(wire) /\ Len(wire) \in Nat
    BY <1>3, ConcatProperties, LenProperties
  <2> HIDE DEF bw
  <2>3. bw \o unsent \in Seq(Bytes) /\ Regroups(S, bw, unsent)
    BY <1>3, <1>4, <2>1, Joined
  <2>4. Len(bw \o unsent) = Len(bw) + Len(unsent) /\ Len(unsent) \in Nat
    BY <1>3, <2>1, ConcatProperties, LenProperties
  <2> DEFINE tail == bw \o unsent
  <2>5. S \o tail = Stream(sent)
    BY <1>5, <2>1, <2>3 DEF Regroups, bw
  <2>6. Len(tail) > 0
    BY <1>3, <2>2, <2>4
  <2> HIDE DEF tail
  <2>7. tail # <<>>
    BY <2>6
  <2>8. tail \in Seq(Bytes)
    BY <2>3 DEF tail
  <2> QED BY <1>2, <2>5, <2>7, <2>8, NextMessage DEF S
<1>7. PICK rest \in Seq(Bytes) : Stream(sent) = S \o (Message(k + 1) \o rest)
  BY <1>6
<1>8. /\ H \in Seq(Bytes) /\ Len(H) = HeaderLen /\ H[1] = <<k + 1, 1>>
      /\ Body(k + 1) \in Seq(Bytes) /\ BodyLen(k + 1) \in Nat
  <2>1. k + 1 \in Nat /\ k + 1 \in Messages
    BY <1>2, <1>6
  <2> QED BY <2>1, MessageTypes
<1>9. buf = H
  <2> DEFINE B == Body(k + 1)
             Br == B \o rest
  <2>1. Message(k + 1) = H \o B
    BY DEF Message
  <2> HIDE DEF S, H, B
  <2>2. B \in Seq(Bytes) /\ H \in Seq(Bytes)
    BY <1>8 DEF B
  <2>3. Regroups(H, B, rest) /\ Br \in Seq(Bytes)
    BY <2>2, Joined
  <2>4. SamePlace(S, buf, wire, unsent, H, Br)
    BY <1>5, <1>7, <2>1, <2>3 DEF Regroups, SamePlace
  <2> HIDE DEF Br
  <2> QED BY <1>3, <1>4, <1>8, <2>2, <2>3, <2>4, PartIs
<1>10. want' = BodyLen(k + 1)
  BY <1>1, <1>8, <1>9 DEF LengthIn
<1>11. InFront(k, "body") = S \o buf
  BY <1>9 DEF InFront
<1>12. (S \o buf) \o <<>> = S \o buf
  <2> HIDE DEF S
  <2>1. S \o buf \in Seq(Bytes)
    BY <1>3, <1>4, Joined
  <2> QED BY <2>1, ConcatEmptySeq
<1>13. Aligned(k, "body", <<>>, wire, unsent, sent)
  BY <1>5, <1>11, <1>12 DEF Aligned
<1>14. MessagesWhole' /\ received' \in Seq(Seq(Bytes)) /\ SentInOrder' /\ BytesOK'
  <2>1. <<>> \in Seq(Bytes)
    OBVIOUS
  <2> QED BY <1>1, <2>1 DEF TransportIInv, TransportInv, MessagesWhole, BytesOK, SentInOrder
<1>15. StreamAligned'
  BY <1>1, <1>13, <1>14, AlignedAfter DEF k
<1>16. TransportTypeOK' /\ Asked'
  <2>1. Len(<<>>) = 0
    OBVIOUS
  <2> QED BY <1>1, <1>6, <1>8, <1>10, <2>1 DEF TransportIInv, TransportInv, TransportTypeOK, Asked, k
<1> QED BY <1>14, <1>15, <1>16 DEF TransportIInv, TransportInv

\* The body is complete: it is the body of the next message.
LEMMA BodyStep ==
  ASSUME TransportIInv, BodyDone
  PROVE  TransportIInv'
<1> DEFINE k == Len(received)
<1>1. /\ part = "body" /\ part' = "header" /\ want' = HeaderLen /\ buf' = <<>>
      /\ received' = Append(received, buf)
      /\ UNCHANGED <<sent, unsent, closed, wire>> /\ Len(buf) >= want
  BY DEF BodyDone, sender
<1>2. /\ k \in Nat /\ sent \in Nat /\ k < sent /\ 1..sent \subseteq Messages /\ 1..k \subseteq Messages
      /\ Stream(k) \in Seq(Bytes) /\ Stream(sent) \in Seq(Bytes)
      /\ ((InFront(k, part) \o buf) \o wire) \o unsent = Stream(sent)
  BY <1>1, Standing DEF Aligned, TransportIInv, Asked
<1>3. /\ unsent \in Seq(Bytes) /\ wire \in Seq(Bytes) /\ buf \in Seq(Bytes)
      /\ Len(buf) = BodyLen(k + 1) /\ BodyLen(k + 1) \in Nat /\ k + 1 \in Messages /\ k + 1 \in Nat
  <2>1. k + 1 \in Messages /\ k + 1 \in Nat
    BY <1>2
  <2>2. want = BodyLen(k + 1) /\ Len(buf) <= want /\ buf \in Seq(Bytes) /\ BodyLen(k + 1) \in Nat
    BY <1>1, <2>1, FramingAssumption DEF TransportIInv, Asked, BytesOK
  <2>3. Len(buf) \in Nat
    BY <2>2, LenProperties
  <2>4. Len(buf) = BodyLen(k + 1)
    BY <1>1, <2>2, <2>3
  <2> QED BY <2>1, <2>2, <2>4 DEF TransportIInv, BytesOK
<1> HIDE DEF k
<1> DEFINE S == Stream(k)
           H == Header(k + 1)
           B == Body(k + 1)
           SH == S \o H
<1>4. /\ S \in Seq(Bytes) /\ H \in Seq(Bytes) /\ B \in Seq(Bytes) /\ Len(B) = Len(buf)
      /\ InFront(k, part) = SH /\ Message(k + 1) = H \o B /\ Stream(k + 1) = S \o (H \o B)
  <2>1. Stream(k + 1) = Stream(k) \o Message(k + 1)
    BY <1>2, <1>3, StreamGrows
  <2> QED BY <1>1, <1>2, <1>3, <2>1, MessageTypes DEF InFront, Message
<1>5. PICK rest \in Seq(Bytes) : Stream(sent) = S \o ((H \o B) \o rest)
  BY <1>2, <1>4, StreamSplits
<1> HIDE DEF S, H, B
<1>6. SH \in Seq(Bytes) /\ Regroups(S, H, B)
  BY <1>4, Joined
<1>7. S \o ((H \o B) \o rest) = SH \o (B \o rest)
  <2> DEFINE Br == B \o rest
  <2>1. Regroups(H, B, rest) /\ Br \in Seq(Bytes)
    BY <1>4, Joined
  <2> HIDE DEF Br
  <2>2. Regroups(S, H, Br)
    BY <1>4, <2>1, Joined
  <2> QED BY <2>1, <2>2 DEF Regroups, Br
<1>8. ((SH \o buf) \o wire) \o unsent = Stream(sent)
  BY <1>2, <1>4
<1> HIDE DEF SH
<1>9. buf = B
  <2>1. SamePlace(SH, buf, wire, unsent, B, rest)
    BY <1>5, <1>7, <1>8 DEF SamePlace
  <2> QED BY <1>3, <1>4, <1>6, <2>1, PartIs
<1>10. SH \o buf = Stream(k + 1)
  BY <1>4, <1>6, <1>9 DEF Regroups, SH
<1>11. Stream(k + 1) \in Seq(Bytes) /\ Stream(k + 1) \o <<>> = Stream(k + 1)
  <2>1. SH \o buf \in Seq(Bytes)
    BY <1>3, <1>6, Joined
  <2>2. Stream(k + 1) \in Seq(Bytes)
    BY <1>10, <2>1
  <2> QED BY <2>2, ConcatEmptySeq
<1>12. Aligned(k + 1, "header", <<>>, wire, unsent, sent)
  BY <1>8, <1>10, <1>11 DEF Aligned, InFront
<1>13. /\ received' \in Seq(Seq(Bytes)) /\ Len(received') = k + 1
       /\ \A i \in 1..k : received'[i] = received[i]
       /\ received'[k + 1] = buf /\ DOMAIN received' = 1..(k + 1)
  <2>1. received \in Seq(Seq(Bytes))
    BY DEF TransportIInv, BytesOK
  <2> QED BY <1>1, <1>3, <2>1, AppendProperties, LenProperties DEF k
<1>14. MessagesWhole'
  <2>1. \A i \in 1..k : received[i] = Body(i)
    <3>1. DOMAIN received = 1..k
      BY LenProperties DEF TransportIInv, BytesOK, k
    <3> QED BY <3>1 DEF TransportIInv, TransportInv, MessagesWhole
  <2>2. \A i \in 1..(k + 1) : received'[i] = Body(i)
    <3> TAKE i \in 1..(k + 1)
    <3>1. CASE i \in 1..k
      BY <1>13, <2>1, <3>1
    <3>2. CASE i = k + 1
      BY <1>9, <1>13, <3>2 DEF B
    <3> QED BY <1>2, <3>1, <3>2
  <2> QED BY <1>13, <2>2 DEF MessagesWhole
<1>15. SentInOrder' /\ BytesOK'
  <2>1. <<>> \in Seq(Bytes)
    OBVIOUS
  <2> QED BY <1>1, <1>13, <2>1 DEF TransportIInv, BytesOK, SentInOrder
<1>16. StreamAligned'
  BY <1>1, <1>12, <1>13, <1>14, AlignedAfter
<1>17. TransportTypeOK' /\ Asked'
  <2>1. Len(<<>>) = 0 /\ HeaderLen \in Nat
    BY FramingAssumption
  <2> QED BY <1>1, <1>2, <1>13, <2>1 DEF TransportIInv, TransportInv, TransportTypeOK, Asked
<1> QED BY <1>14, <1>15, <1>16, <1>17 DEF TransportIInv, TransportInv

-----------------------------------------------------------------------------
\* recv() returns whole messages in the order they were sent (tcp.py:26-37, 61-73),
\* however the socket cuts the bytes and whenever the sender goes: the receiver always
\* stands in the byte stream where it thinks it stands.
THEOREM FramingHolds == TcpSpec => []TransportInv
<1>1. TransportIInv /\ [TcpNext]_tcpVars => TransportIInv'
  <2> SUFFICES ASSUME TransportIInv, [TcpNext]_tcpVars PROVE TransportIInv'
    OBVIOUS
  <2>1. CASE UNCHANGED tcpVars
    BY <2>1 DEF tcpVars, TransportIInv, TransportInv, TransportTypeOK, MessagesWhole, StreamAligned, SentInOrder,
      BytesOK, Asked
  <2> QED BY <2>1, SenderStep, ReceiveStep, HeaderStep, BodyStep DEF TcpNext, Receiving
<1>2. TransportIInv => TransportInv
  BY DEF TransportIInv
<1> QED BY <1>1, <1>2, TransportInit, PTL DEF TcpSpec

-----------------------------------------------------------------------------
\* Escalation.

\* The sequence of the call under way, if there is one.
InCall == IF pc \in {"forward", "map"} THEN {sid} ELSE {}

\* Escalation takes no explicit reference.
NoPins == \A b \in Blocks : pins[b] = 0

\* The sequences that own blocks; that of the call is not one that raised before.
OwnersExact == live = raised \cup InCall /\ InCall \cap raised = {} /\ InCall \subseteq Seqs

PcOK == pc \in {"load", "idle", "forward", "map", "mapped", "step", "refused"}

EscalationIInv == BMInv /\ NoPins /\ OwnersExact /\ PcOK

-----------------------------------------------------------------------------
\* Before the first call nobody owns anything.
LEMMA EscalationInit == Init => EscalationIInv
BY InitInv DEF Init, BMInit, EscalationIInv, NoPins, OwnersExact, InCall, PcOK

\* A step that leaves the allocator alone leaves its invariant alone.
LEMMA PoolUntouched ==
  ASSUME BMInv, NoPins, UNCHANGED bmVars
  PROVE  BMInv' /\ NoPins'
<1>1. [BMNext]_bmVars
  OBVIOUS
<1>2. BMInv'
  BY <1>1, NextInv
<1>3. NoPins'
  BY DEF NoPins, bmVars
<1> QED BY <1>2, <1>3

\* A call takes blocks for its own sequence, or none when it is refused.
LEMMA CallKeeps ==
  ASSUME EscalationIInv, NEW s \in Seqs, NEW p \in Prompts, Call(s, p)
  PROVE  EscalationIInv'
<1> USE DEF EscalationIInv
<1>1. pc = "idle" /\ UNCHANGED raised /\ live = raised
  BY DEF Call, loaded, targetVars, OwnersExact, InCall
<1>2. CASE s \in live \/ AllocateFails(Len(p), <<>>)
  <2>1. UNCHANGED <<bmVars, pc, sid>>
    BY <1>2 DEF Call
  <2>2. UNCHANGED live
    BY <2>1 DEF bmVars
  <2>3. BMInv' /\ NoPins'
    BY <2>1, PoolUntouched
  <2> QED BY <1>1, <2>1, <2>2, <2>3 DEF OwnersExact, InCall, PcOK
<1>3. CASE ~(s \in live \/ AllocateFails(Len(p), <<>>))
  <2>1. Allocate(s, Len(p), <<>>) /\ pc' = "forward" /\ sid' = s
    BY <1>3 DEF Call
  <2>2. Len(p) \in TokenCounts /\ Len(p) \in Nat
    BY EscalationAssumption, TokenCountsAssumption
  <2>3. BMInv'
    BY <2>1, <2>2, EmptyReuse, AllocateInv
  <2>4. live' = live \cup {s} /\ UNCHANGED pins /\ s \notin live
    BY <2>1 DEF Allocate
  <2>5. OwnersExact'
    BY <1>1, <2>1, <2>4 DEF OwnersExact, InCall
  <2> QED BY <2>1, <2>3, <2>4, <2>5 DEF NoPins, PcOK
<1> QED BY <1>2, <1>3

\* The sequence is freed, whether map returned or raised.
LEMMA FreeKeeps ==
  ASSUME EscalationIInv, pc = "map", Free(sid), UNCHANGED raised, pc' \in {"idle", "mapped"}
  PROVE  EscalationIInv'
<1> USE DEF EscalationIInv
<1>1. sid \in Seqs /\ live = raised \cup {sid} /\ sid \notin raised
  BY DEF OwnersExact, InCall
<1>2. BMInv'
  BY <1>1, FreeInv
<1>3. live' = live \ {sid} /\ UNCHANGED pins
  BY DEF Free
<1> QED BY <1>1, <1>2, <1>3 DEF OwnersExact, InCall, NoPins, PcOK

\* A forward that raises leaves its sequence to nobody.
LEMMA RaiseKeeps == ASSUME EscalationIInv, ForwardRaises PROVE EscalationIInv'
<1> USE DEF EscalationIInv
<1>1. pc = "forward" /\ pc' = "idle" /\ raised' = raised \cup {sid} /\ UNCHANGED bmVars
  BY DEF ForwardRaises
<1>2. BMInv' /\ NoPins'
  BY <1>1, PoolUntouched
<1>3. UNCHANGED live
  BY <1>1 DEF bmVars
<1> QED BY <1>1, <1>2, <1>3 DEF OwnersExact, InCall, PcOK

\* The steps that leave the source's pool alone and do not end a call.
Elsewhere ==
  LoadMap \/ ForwardSource \/ Escalate \/ (\E p \in Prompts : AddRequest(p)) \/ Admit \/ ForwardTarget

\* They keep the owners.
LEMMA ElsewhereKeeps ==
  ASSUME EscalationIInv, Elsewhere \/ UNCHANGED escalationVars
  PROVE  EscalationIInv'
<1> USE DEF EscalationIInv
<1> DEFINE Moves == \/ pc' = pc
                    \/ pc \in {"load", "idle", "mapped", "step"} /\ pc' \in {"idle", "refused", "step"}
                    \/ pc = "forward" /\ pc' = "map"
<1>0. UNCHANGED sourceVars => UNCHANGED <<bmVars, sid, raised>>
  BY DEF sourceVars
<1>e. UNCHANGED <<bmVars, sid, raised>> /\ Moves
  <2>1. CASE LoadMap
    BY <1>0, <2>1 DEF LoadMap
  <2>2. CASE ForwardSource
    BY <2>2 DEF ForwardSource
  <2>3. CASE Escalate
    BY <2>3 DEF Escalate
  <2>4. CASE \E p \in Prompts : AddRequest(p)
    BY <2>4 DEF AddRequest
  <2>5. CASE Admit
    BY <1>0, <2>5 DEF Admit
  <2>6. CASE ForwardTarget
    <3>1. UNCHANGED sourceVars /\ pc = "step" /\ (pc' = pc \/ pc' = "idle")
      BY <2>6, Zenon DEF ForwardTarget
    <3> QED BY <1>0, <3>1
  <2>7. CASE UNCHANGED escalationVars
    BY <1>0, <2>7 DEF escalationVars
  <2> QED BY <2>1, <2>2, <2>3, <2>4, <2>5, <2>6, <2>7 DEF Elsewhere
<1>1. UNCHANGED <<bmVars, sid, raised>>
  BY <1>e
<1>2. Moves
  BY <1>e
<1>3. BMInv' /\ NoPins'
  BY <1>1, PoolUntouched
<1>4. UNCHANGED live
  BY <1>1 DEF bmVars
<1> QED BY <1>1, <1>2, <1>3, <1>4 DEF OwnersExact, InCall, PcOK

\* Every step keeps the invariant.
LEMMA EscalationStep == EscalationIInv /\ [Next]_escalationVars => EscalationIInv'
<1> SUFFICES ASSUME EscalationIInv, [Next]_escalationVars PROVE EscalationIInv'
  OBVIOUS
<1>1. CASE \E s \in Seqs, p \in Prompts : Call(s, p)
  BY <1>1, CallKeeps
<1>2. CASE MapAndFree
  BY <1>2, FreeKeeps DEF MapAndFree
<1>3. CASE MapRaisesAndFrees
  BY <1>3, FreeKeeps DEF MapRaisesAndFrees
<1>4. CASE ForwardRaises
  BY <1>4, RaiseKeeps
<1>5. CASE Elsewhere \/ UNCHANGED escalationVars
  BY <1>5, ElsewhereKeeps
<1> QED BY <1>1, <1>2, <1>3, <1>4, <1>5 DEF Next, Elsewhere

\* With exact counts and no pins a block is free exactly when nobody lists it.
LEMMA FreeIsUnlisted ==
  ASSUME BMInv, NoPins
  PROVE  free = Blocks \ UNION {TableBlocks(s) : s \in live}
<1>1. \A b \in Blocks : b \in free => Holders(b) = {}
  BY FreeUnused
<1>2. \A b \in Blocks : Holders(b) = {} => b \in free
  <2>1. SUFFICES ASSUME NEW b \in Blocks, Holders(b) = {} PROVE refCount[b] = 0
    BY DEF BMInv, Partition
  <2>2. Cardinality(Holders(b)) = 0
    BY <2>1, FS_EmptySet
  <2> QED BY <2>2 DEF BMInv, RefExact, NoPins
<1>3. free \subseteq Blocks
  BY DEF BMInv, BMTypeOK
<1> QED BY <1>1, <1>2, <1>3 DEF Holders

\* Between two calls every block of the source is free, except those of the
\* sequences whose forward raised: prefill_and_map leaves nothing else behind
\* (escalation.py:59-69), whatever models, maps and prompts it is used with.
THEOREM OnlyRaisingForwardsKeepBlocks == Spec => []EscalationInv
<1>1. EscalationIInv => EscalationInv
  BY FreeIsUnlisted DEF EscalationIInv, EscalationInv, OwnersExact, InCall, PcOK, BMInv
<1> QED BY <1>1, EscalationInit, EscalationStep, PTL DEF Spec

-----------------------------------------------------------------------------
\* The shape of mapped KV.

\* A list of n entries, whatever they are.
IsRow(x, n) == x = [i \in 1..n |-> x[i]]

LEMMA RowLength == ASSUME NEW n \in Nat, NEW x, IsRow(x, n) PROVE DOMAIN x = 1..n /\ Len(x) = n
<1> DEFINE S == {x[i] : i \in 1..n}
<1>1. x \in [1..n -> S]
  BY DEF IsRow
<1>2. x \in Seq(S)
  BY <1>1
<1> QED BY <1>1, <1>2, LenProperties

LEMMA MatrixRows == ASSUME NEW m \in Matrices PROVE DOMAIN m[1] = 1..Len(m[1]) /\ Len(m[1]) \in Nat
<1>1. m[1] \in Seq(Int)
  BY LenProperties DEF Matrices
<1> QED BY <1>1, LenProperties

\* What a layer map makes of a design row is as long as its bias, when its outer
\* factor is.
LEMMA MappedLength ==
  ASSUME NEW m, NEW x, NEW useResidual, NEW n \in Nat,
         m.left \in Matrices, m.right \in Matrices \cup {<<>>},
         Len((IF m.right = <<>> THEN m.left ELSE m.right)[1]) = n
  PROVE  IsRow(Mapped(m, x, useResidual), n)
<1> DEFINE xw == IF m.right = <<>> THEN Times(x, m.left) ELSE Times(Times(x, m.left), m.right)
           y == Plus(xw, m.bias)
<1>1. ASSUME NEW z, NEW matrix \in Matrices, Len(matrix[1]) = n PROVE DOMAIN Times(z, matrix) = 1..n
  <2>1. DOMAIN matrix[1] = 1..n
    BY <1>1, MatrixRows
  <2> QED BY <2>1 DEF Times
<1>2. DOMAIN xw = 1..n
  BY <1>1
<1>3. ASSUME NEW u, NEW v, DOMAIN u = 1..n PROVE IsRow(Plus(u, v), n) /\ DOMAIN Plus(u, v) = 1..n
  BY <1>3 DEF Plus, IsRow
<1>4. \/ Mapped(m, x, useResidual) = y
      \/ \E v : Mapped(m, x, useResidual) = Plus(y, v)
  BY Zenon DEF Mapped
<1> HIDE DEF xw
<1> QED BY <1>2, <1>3, <1>4

\* A row of n heads of d dimensions is cut into n heads of d dimensions.
LEMMA HeadsShape ==
  ASSUME NEW n \in Nat, NEW d \in Nat \ {0}, NEW y, IsRow(y, n * d)
  PROVE  IsRow(Heads(y, d), n) /\ \A h \in 1..n : IsRow(Heads(y, d)[h], d)
<1>1. Len(y) = n * d /\ n * d \in Nat
  BY RowLength
<1>2. (n * d) \div d = n
  BY SMT
<1>3. Heads(y, d) = [h \in 1..n |-> SubSeq(y, (h - 1) * d + 1, h * d)]
  BY <1>1, <1>2 DEF Heads
<1>4. ASSUME NEW h \in 1..n PROVE IsRow(SubSeq(y, (h - 1) * d + 1, h * d), d)
  <2> DEFINE lo == (h - 1) * d + 1
             hi == h * d
             S == {y[i] : i \in lo..hi}
  <2>1. lo \in Int /\ hi \in Int /\ (hi - lo) + 1 = d /\ lo <= hi
    OBVIOUS
  <2>2. \A i \in lo..hi : y[i] \in S
    OBVIOUS
  <2> HIDE DEF lo, hi, S
  <2>3. SubSeq(y, lo, hi) \in Seq(S) /\ Len(SubSeq(y, lo, hi)) = d
    BY <2>1, <2>2, SubSeqProperties
  <2>4. SubSeq(y, lo, hi) = [i \in 1..d |-> SubSeq(y, lo, hi)[i]]
    BY <2>3, LenProperties
  <2> QED BY <2>4 DEF IsRow, lo, hi
<1> QED BY <1>3, <1>4 DEF IsRow

\* KV of so many layers and tokens, with the heads of a model.
KVShape(tensor, layers, tokens, config) ==
  /\ IsRow(tensor, layers)
  /\ \A l \in 1..layers :
       /\ IsRow(tensor[l], tokens)
       /\ \A t \in 1..tokens :
            /\ IsRow(tensor[l][t], config.kvHeads)
            /\ \A h \in 1..config.kvHeads : IsRow(tensor[l][t][h], config.headDim)

\* Layer maps for every layer of a model, whose outer factors have its KV dimension.
OuterFits(maps, config) ==
  /\ DOMAIN maps = 1..config.layers
  /\ \A l \in 1..config.layers :
       /\ maps[l].left \in Matrices /\ maps[l].right \in Matrices \cup {<<>>}
       /\ Len((IF maps[l].right = <<>> THEN maps[l].left ELSE maps[l].right)[1]) = KVDim(config)

Sized(config) == {config.layers, config.kvHeads, config.headDim} \subseteq Nat \ {0}

LEMMA AppliedShape ==
  ASSUME NEW kv, NEW maps, NEW config, NEW useResidual, NEW tokens \in Nat,
         Sized(config), OuterFits(maps, config), DOMAIN kv[1] = 1..tokens
  PROVE  KVShape(Applied(kv, maps, config, useResidual), config.layers, tokens, config)
<1> DEFINE row(l, t) == Mapped(maps[l], DesignRow(kv, maps[l], t), useResidual)
           applied == Applied(kv, maps, config, useResidual)
<1>1. KVDim(config) \in Nat /\ config.kvHeads \in Nat /\ config.headDim \in Nat \ {0}
      /\ KVDim(config) = config.kvHeads * config.headDim
  BY DEF KVDim, Sized
<1>2. applied = [l \in 1..config.layers |-> [t \in 1..tokens |-> Heads(row(l, t), config.headDim)]]
  BY DEF Applied, OuterFits
<1>3. ASSUME NEW l \in 1..config.layers, NEW t \in 1..tokens
      PROVE  /\ IsRow(Heads(row(l, t), config.headDim), config.kvHeads)
             /\ \A h \in 1..config.kvHeads : IsRow(Heads(row(l, t), config.headDim)[h], config.headDim)
  <2>1. IsRow(row(l, t), config.kvHeads * config.headDim)
    <3>1. /\ maps[l].left \in Matrices /\ maps[l].right \in Matrices \cup {<<>>}
          /\ Len((IF maps[l].right = <<>> THEN maps[l].left ELSE maps[l].right)[1]) = KVDim(config)
      BY DEF OuterFits
    <3>2. IsRow(row(l, t), KVDim(config))
      BY <1>1, <3>1, MappedLength
    <3> QED BY <1>1, <3>2
  <2> HIDE DEF row
  <2> QED BY <1>1, <2>1, HeadsShape
<1> HIDE DEF row
<1>4. IsRow(applied, config.layers)
  BY <1>2 DEF IsRow
<1>5. ASSUME NEW l \in 1..config.layers
      PROVE  /\ IsRow(applied[l], tokens)
             /\ \A t \in 1..tokens : applied[l][t] = Heads(row(l, t), config.headDim)
  BY <1>2 DEF IsRow
<1> HIDE DEF applied
<1>6. KVShape(applied, config.layers, tokens, config)
  BY <1>3, <1>4, <1>5 DEF KVShape
<1> QED BY <1>6 DEF applied

\* A rotation keeps the shape.
LEMMA RestoredShape ==
  ASSUME NEW tensor, NEW layers, NEW tokens, NEW config, KVShape(tensor, layers, tokens, config)
  PROVE  KVShape(Restored(tensor, config), layers, tokens, config)
<1> DEFINE res == Restored(tensor, config)
<1>1. DOMAIN tensor = 1..layers
  BY DEF KVShape, IsRow
<1>2. ASSUME NEW l \in 1..layers
      PROVE  DOMAIN tensor[l] = 1..tokens
  BY DEF KVShape, IsRow
<1>3. ASSUME NEW l \in 1..layers, NEW t \in 1..tokens
      PROVE  /\ DOMAIN tensor[l][t] = 1..config.kvHeads
             /\ \A h \in 1..config.kvHeads : DOMAIN tensor[l][t][h] = 1..config.headDim
  BY DEF KVShape, IsRow
<1>4. IsRow(res, layers)
  BY <1>1 DEF Restored, IsRow
<1>5. ASSUME NEW l \in 1..layers PROVE IsRow(res[l], tokens)
  BY <1>1, <1>2 DEF Restored, IsRow
<1>6. ASSUME NEW l \in 1..layers, NEW t \in 1..tokens
      PROVE  /\ IsRow(res[l][t], config.kvHeads)
             /\ \A h \in 1..config.kvHeads : IsRow(res[l][t][h], config.headDim)
  <2>1. res[l][t] = [h \in 1..config.kvHeads |-> ApplyRope(tensor[l][t][h], RopeTable(config, t - 1))]
    BY <1>1, <1>2, <1>3 DEF Restored
  <2>2. ASSUME NEW h \in 1..config.kvHeads
        PROVE  IsRow(ApplyRope(tensor[l][t][h], RopeTable(config, t - 1)), config.headDim)
    BY <1>3 DEF ApplyRope, IsRow
  <2> QED BY <2>1, <2>2 DEF IsRow
<1> HIDE DEF res
<1>7. KVShape(res, layers, tokens, config)
  BY <1>4, <1>5, <1>6 DEF KVShape
<1> QED BY <1>7 DEF res

\* The lengths of KV of a shape.
Measured(tensor, tokens) ==
  /\ DOMAIN tensor = 1..Target.layers /\ Len(tensor) = Target.layers
  /\ \A l \in 1..Target.layers : DOMAIN tensor[l] = 1..tokens /\ Len(tensor[l]) = tokens
  /\ \A l \in 1..Target.layers, t \in 1..tokens :
       /\ DOMAIN tensor[l][t] = 1..Target.kvHeads /\ Len(tensor[l][t]) = Target.kvHeads
       /\ \A h \in 1..Target.kvHeads : Len(tensor[l][t][h]) = Target.headDim

LEMMA ShapeMeasured ==
  ASSUME NEW tensor, NEW tokens \in Nat, Sized(Target), KVShape(tensor, Target.layers, tokens, Target)
  PROVE  Measured(tensor, tokens)
<1>1. Target.layers \in Nat \ {0} /\ Target.kvHeads \in Nat /\ Target.headDim \in Nat
  BY DEF Sized
<1>2. DOMAIN tensor = 1..Target.layers /\ Len(tensor) = Target.layers
  BY <1>1, RowLength DEF KVShape
<1>3. ASSUME NEW l \in 1..Target.layers PROVE DOMAIN tensor[l] = 1..tokens /\ Len(tensor[l]) = tokens
  BY RowLength DEF KVShape
<1>4. ASSUME NEW l \in 1..Target.layers, NEW t \in 1..tokens
      PROVE  /\ DOMAIN tensor[l][t] = 1..Target.kvHeads /\ Len(tensor[l][t]) = Target.kvHeads
             /\ \A h \in 1..Target.kvHeads : Len(tensor[l][t][h]) = Target.headDim
  BY <1>1, RowLength DEF KVShape
<1> QED BY <1>2, <1>3, <1>4 DEF Measured

\* KV of the target's shape, for some tokens of a prompt but not all, is admitted.
LEMMA ShapeAdmissible ==
  ASSUME NEW kv, NEW tokens \in Nat, NEW promptLen \in Nat, 0 < tokens, tokens < promptLen, Sized(Target),
         KVShape(kv.k, Target.layers, tokens, Target), KVShape(kv.v, Target.layers, tokens, Target)
  PROVE  AdmissiblePrefix(kv, promptLen)
<1> DEFINE Agrees(tensor) ==
      /\ Len(tensor) = Target.layers
      /\ \A l \in DOMAIN tensor : Len(tensor[l]) = Len(kv.k[1])
      /\ \A l \in DOMAIN tensor : \A t \in DOMAIN tensor[l] :
           Len(tensor[l][t]) = Target.kvHeads
             /\ \A h \in DOMAIN tensor[l][t] : Len(tensor[l][t][h]) = Target.headDim
<1>1. Measured(kv.k, tokens) /\ Measured(kv.v, tokens)
  BY ShapeMeasured
<1>2. Len(kv.k[1]) = tokens
  <2>1. 1 \in 1..Target.layers
    BY DEF Sized
  <2> QED BY <1>1, <2>1 DEF Measured
<1>3. ASSUME NEW tensor, Measured(tensor, tokens)
      PROVE  Agrees(tensor)
  <2>1. DOMAIN tensor = 1..Target.layers /\ Len(tensor) = Target.layers
    BY <1>3 DEF Measured
  <2>2. ASSUME NEW l \in DOMAIN tensor PROVE l \in 1..Target.layers /\ DOMAIN tensor[l] = 1..tokens /\ Len(tensor[l]) = tokens
    BY <1>3, <2>1 DEF Measured
  <2>3. ASSUME NEW l \in DOMAIN tensor, NEW t \in DOMAIN tensor[l]
        PROVE  Len(tensor[l][t]) = Target.kvHeads
                 /\ \A h \in DOMAIN tensor[l][t] : Len(tensor[l][t][h]) = Target.headDim
    <3>1. l \in 1..Target.layers /\ t \in 1..tokens
      BY <2>2
    <3> QED BY <1>3, <3>1 DEF Measured
  <2> QED BY <1>2, <2>1, <2>2, <2>3
<1>4. Len(kv.k[1]) > 0 /\ Len(kv.k[1]) < promptLen
  BY <1>2
<1>5. Agrees(kv.k) /\ Agrees(kv.v)
  <2> HIDE DEF Agrees
  <2> QED BY <1>1, <1>3
<1>6. \A tensor \in {kv.k, kv.v} : Agrees(tensor)
  <2> HIDE DEF Agrees
  <2> QED BY <1>5
<1> QED BY <1>4, <1>6, Zenon DEF AdmissiblePrefix

\* A list of layer maps, as read or with residuals.
MapsOf(list, maps) == maps = list \/ \E residuals : maps = WithResiduals(list, residuals)

LEMMA MapsFit ==
  ASSUME NEW list \in Seq(LayerMaps), NEW maps, MapsOf(list, maps),
         Len(maps) = Target.layers, \A l \in DOMAIN maps : ShapeFits(maps[l], Target)
  PROVE  OuterFits(maps, Target)
<1>1. DOMAIN list = 1..Len(list) /\ Len(list) \in Nat /\ \A l \in 1..Len(list) : list[l] \in LayerMaps
  BY LenProperties
<1>2. \A l \in 1..Len(list) : list[l].left \in Matrices /\ list[l].right \in Matrices \cup {<<>>}
  BY <1>1 DEF LayerMaps
<1>3. /\ DOMAIN maps = 1..Len(list) /\ Len(maps) = Len(list)
      /\ \A l \in 1..Len(list) : maps[l].left = list[l].left /\ maps[l].right = list[l].right
  <2>1. CASE maps = list
    BY <1>1, <2>1
  <2>2. ASSUME NEW residuals, maps = WithResiduals(list, residuals)
        PROVE  /\ DOMAIN maps = 1..Len(list) /\ Len(maps) = Len(list)
               /\ \A l \in 1..Len(list) : maps[l].left = list[l].left /\ maps[l].right = list[l].right
    <3>1. maps = [l \in 1..Len(list) |-> [list[l] EXCEPT !.residual = residuals[l]]]
      BY <1>1, <2>2 DEF WithResiduals
    <3>2. IsRow(maps, Len(list))
      BY <3>1 DEF IsRow
    <3>3. DOMAIN maps = 1..Len(list) /\ Len(maps) = Len(list)
      BY <1>1, <3>2, RowLength
    <3>4. \A l \in 1..Len(list) : maps[l].left = list[l].left /\ maps[l].right = list[l].right
      BY <1>1, <3>1 DEF LayerMaps
    <3> QED BY <3>3, <3>4
  <2> QED BY <2>1, <2>2 DEF MapsOf
<1>4. ASSUME NEW l \in 1..Target.layers
      PROVE  /\ maps[l].left \in Matrices /\ maps[l].right \in Matrices \cup {<<>>}
             /\ Len((IF maps[l].right = <<>> THEN maps[l].left ELSE maps[l].right)[1]) = KVDim(Target)
  <2>1. maps[l].left \in Matrices /\ maps[l].right \in Matrices \cup {<<>>}
    BY <1>2, <1>3
  <2>2. ShapeFits(maps[l], Target)
    BY <1>3
  <2> QED BY <2>1, <2>2 DEF ShapeFits
<1> QED BY <1>3, <1>4 DEF OuterFits

\* What load returns and _check accepts has the outer dimensions of the target.
LEMMA AcceptedFits ==
  ASSUME pair \in Pairs, NEW maps, maps = Loaded(pair.files, pair.residual), Accepts(maps, SourceModel, Target)
  PROVE  Sized(Target) /\ OuterFits(maps.keys, Target) /\ OuterFits(maps.values, Target)
<1>1. Sized(Target) /\ pair.files.keys \in Seq(LayerMaps) /\ pair.files.values \in Seq(LayerMaps)
  BY PairsAssumption DEF Sized, Target
<1>2. MapsOf(pair.files.keys, maps.keys) /\ MapsOf(pair.files.values, maps.values)
  BY DEF Loaded, MapsOf
<1>3. Len(maps.keys) = Target.layers /\ \A l \in DOMAIN maps.keys : ShapeFits(maps.keys[l], Target)
  BY DEF Accepts
<1>4. Len(maps.values) = Target.layers /\ \A l \in DOMAIN maps.values : ShapeFits(maps.values[l], Target)
  BY DEF Accepts
<1> QED BY <1>1, <1>2, <1>3, <1>4, MapsFit

-----------------------------------------------------------------------------
\* The call under way has a prompt, the map in use passed validation, and what the
\* call has mapped is admissible.
TransferIInv ==
  /\ pair \in Pairs
  /\ pc \notin {"load", "refused"} =>
       kvMap = Loaded(pair.files, pair.residual) /\ Accepts(kvMap, SourceModel, Target)
  /\ pc \in {"forward", "map", "mapped"} => prompt \in Prompts
  /\ MappedIsAdmissible

\* What map returns for a prompt has the target's shape.
LEMMA PrefixShape ==
  ASSUME prompt \in Prompts, pair \in Pairs, kvMap = Loaded(pair.files, pair.residual),
         Accepts(kvMap, SourceModel, Target), ~MapRaises(kvMap, Len(prompt) - 1, pair.useResidual)
  PROVE  AdmissiblePrefix(MapPrefix, Len(prompt))
<1> DEFINE n == Len(prompt) - 1
           slots == ContextSlots(blockIds[sid], n)
           k == Exported(skv, slots, SourceModel, "k")
           v == Exported(skv, slots, SourceModel, "v")
<1>1. Len(prompt) \in Nat /\ n \in Nat /\ 0 < n /\ n < Len(prompt)
  <2>1. prompt \in Seq(Nat) /\ prompt # <<>>
    BY EscalationAssumption
  <2>2. Len(prompt) - 1 # 0
    BY Zenon DEF MapRaises
  <2>3. Len(prompt) \in Nat /\ Len(prompt) # 0
    BY <2>1
  <2>4. \A l \in Nat : l # 0 /\ l - 1 # 0 => l - 1 \in Nat /\ 0 < l - 1 /\ l - 1 < l
    OBVIOUS
  <2> QED BY <2>2, <2>3, <2>4
<1>2. Sized(Target) /\ OuterFits(kvMap.keys, Target) /\ OuterFits(kvMap.values, Target)
  BY AcceptedFits
<1>3. DOMAIN slots = 1..n
  BY DEF ContextSlots
<1>4. 1 \in 1..SourceModel.layers
  BY PairsAssumption
<1> HIDE DEF slots, n
<1>5. DOMAIN k[1] = 1..n /\ DOMAIN v[1] = 1..n /\ 1 \in DOMAIN k
  BY <1>3, <1>4 DEF Exported
<1> HIDE DEF k, v
<1>6. DOMAIN Stripped(k, SourceModel)[1] = 1..n
  BY <1>5 DEF Stripped
<1>7. KVShape(Applied(Stripped(k, SourceModel), kvMap.keys, Target, pair.useResidual), Target.layers, n, Target)
  BY <1>1, <1>2, <1>6, AppliedShape
<1>8. KVShape(Applied(v, kvMap.values, Target, pair.useResidual), Target.layers, n, Target)
  BY <1>1, <1>2, <1>5, AppliedShape
<1>9. MapPrefix = MapKV(kvMap, k, v, SourceModel, Target, pair.useResidual)
  BY DEF MapPrefix, n, slots, k, v
<1>10. /\ MapPrefix.k = Restored(Applied(Stripped(k, SourceModel), kvMap.keys, Target, pair.useResidual), Target)
       /\ MapPrefix.v = Applied(v, kvMap.values, Target, pair.useResidual)
  BY <1>9, Zenon DEF MapKV
<1>11. KVShape(MapPrefix.k, Target.layers, n, Target)
  BY <1>7, <1>10, RestoredShape
<1>12. KVShape(MapPrefix.v, Target.layers, n, Target)
  BY <1>8, <1>10
<1> QED BY <1>1, <1>2, <1>11, <1>12, ShapeAdmissible

LEMMA TransferInit == Init => TransferIInv
BY DEF Init, TransferIInv, MappedIsAdmissible

LEMMA TransferStep == TransferIInv /\ [Next]_escalationVars => TransferIInv'
<1> SUFFICES ASSUME TransferIInv, [Next]_escalationVars PROVE TransferIInv'
  OBVIOUS
<1> DEFINE Keeps == UNCHANGED <<pair, kvMap, prompt>>
<1>0. loaded' = loaded => pair' = pair /\ kvMap' = kvMap
  BY DEF loaded
<1>s. sourceVars' = sourceVars => prompt' = prompt
  BY DEF sourceVars
\* A step that leaves the call's prompt and the map alone and does not map.
<1>1. ASSUME Keeps, \/ pc' = pc /\ mapped' = mapped
                    \/ pc' \in {"idle", "step"} /\ pc \notin {"load", "refused"}
                    \/ pc = "forward" /\ pc' = "map"
      PROVE  TransferIInv'
  BY <1>1 DEF TransferIInv, MappedIsAdmissible, AdmissiblePrefix, Target
<1>2. CASE LoadMap
  <2>1. pc = "load" /\ pair' = pair
    BY <1>2 DEF LoadMap
  <2>2. pc' = "refused" \/ (pc' = "idle" /\ kvMap' = Loaded(pair.files, pair.residual)
                              /\ Accepts(kvMap', SourceModel, Target))
    BY <1>2, Zenon DEF LoadMap
  <2> QED BY <2>1, <2>2 DEF TransferIInv, MappedIsAdmissible, Target
<1>3. CASE \E s \in Seqs, p \in Prompts : Call(s, p)
  <2>1. PICK s \in Seqs, p \in Prompts : Call(s, p)
    BY <1>3
  <2>2. pc = "idle" /\ pair' = pair /\ kvMap' = kvMap
    BY <1>0, <2>1 DEF Call
  <2>3. (pc' = "idle" /\ prompt' = prompt) \/ (pc' = "forward" /\ prompt' = p)
    BY <2>1, <2>2 DEF Call
  <2> QED BY <2>2, <2>3 DEF TransferIInv, MappedIsAdmissible, Target
<1>4. CASE ForwardSource
  BY <1>0, <1>1, <1>4 DEF ForwardSource
<1>5. CASE ForwardRaises
  BY <1>0, <1>1, <1>5 DEF ForwardRaises
<1>6. CASE MapAndFree
  <2>1. /\ pc = "map" /\ pc' = "mapped" /\ mapped' = MapPrefix /\ Keeps
        /\ ~MapRaises(kvMap, Len(prompt) - 1, pair.useResidual)
    BY <1>0, <1>6 DEF MapAndFree
  <2>2. AdmissiblePrefix(MapPrefix, Len(prompt))
    BY <2>1, PrefixShape DEF TransferIInv
  <2>3. AdmissiblePrefix(mapped, Len(prompt))'
    BY <2>1, <2>2 DEF AdmissiblePrefix, Target
  <2> QED BY <2>1, <2>3 DEF TransferIInv, MappedIsAdmissible, Target
<1>7. CASE MapRaisesAndFrees
  BY <1>0, <1>1, <1>7 DEF MapRaisesAndFrees
<1>8. CASE Escalate
  BY <1>0, <1>1, <1>8 DEF Escalate
<1>9. CASE \E p \in Prompts : AddRequest(p)
  BY <1>0, <1>1, <1>9 DEF AddRequest
<1>10. CASE Admit
  BY <1>0, <1>s, <1>1, <1>10 DEF Admit
<1>11. CASE ForwardTarget
  <2>1. pc = "step" /\ (pc' = pc \/ pc' = "idle") /\ UNCHANGED <<sourceVars, loaded>>
    BY <1>11, Zenon DEF ForwardTarget
  <2> QED BY <1>0, <1>s, <1>1, <2>1
<1>12. CASE UNCHANGED escalationVars
  <2>1. pc' = pc /\ mapped' = mapped /\ UNCHANGED <<sourceVars, loaded>>
    BY <1>12 DEF escalationVars, sourceVars
  <2> QED BY <1>0, <1>s, <1>1, <2>1
<1> QED BY <1>2, <1>3, <1>4, <1>5, <1>6, <1>7, <1>8, <1>9, <1>10, <1>11, <1>12 DEF Next

\* A map that passes the validation of load yields KV that add_request takes, for
\* any models, map files and prompts (transfer.py:202-230, scheduler.py:87-101).
THEOREM ValidMapsAreAdmissible == Spec => []MappedIsAdmissible
<1>1. TransferIInv => MappedIsAdmissible
  BY DEF TransferIInv
<1> QED BY <1>1, TransferInit, TransferStep, PTL DEF Spec

-----------------------------------------------------------------------------
\* What a map computes.

\* The entries of a matrix are integers.
LEMMA MatrixEntries ==
  ASSUME NEW m \in Matrices
  PROVE  /\ DOMAIN m = 1..Len(m) /\ Len(m) \in Nat \ {0} /\ Len(m[1]) \in Nat
         /\ \A i \in 1..Len(m) : DOMAIN m[i] = 1..Len(m[1]) /\ Len(m[i]) = Len(m[1])
                                   /\ \A j \in 1..Len(m[1]) : m[i][j] \in Int
<1>1. m \in Seq(Seq(Int)) /\ m # <<>> /\ \A i \in DOMAIN m : Len(m[i]) = Len(m[1])
  BY DEF Matrices
<1>2. DOMAIN m = 1..Len(m) /\ Len(m) \in Nat \ {0} /\ \A i \in 1..Len(m) : m[i] \in Seq(Int)
  BY <1>1, LenProperties
<1>3. ASSUME NEW i \in 1..Len(m)
      PROVE  DOMAIN m[i] = 1..Len(m[1]) /\ Len(m[i]) = Len(m[1]) /\ Len(m[i]) \in Nat
             /\ \A j \in 1..Len(m[1]) : m[i][j] \in Int
  <2>1. PICK y \in Seq(Int) : y = m[i]
    BY <1>2
  <2>2. Len(y) \in Nat /\ DOMAIN y = 1..Len(y) /\ y \in [1..Len(y) -> Int]
    BY LenProperties
  <2>3. Len(y) = Len(m[1])
    BY <1>1, <1>2, <2>1
  <2> QED BY <2>1, <2>2, <2>3
<1>4. 1 \in 1..Len(m)
  BY <1>2
<1> QED BY <1>2, <1>3, <1>4

LEMMA IntProducts ==
  /\ \A a, b \in Int : a * b \in Int /\ a * b = b * a
  /\ \A a, b, c \in Int : (a * b) * c = (b * c) * a
<1>1. \A a, b \in Int : a * b \in Int /\ a * b = b * a
  OBVIOUS
<1>2. \A a, b, c \in Int : (a * b) * c = (b * c) * a
  OBVIOUS
<1> QED BY <1>1, <1>2

\* x times a matrix of two factors, at j.
ByFactors(x, left, right, j) == SumFunction([r \in DOMAIN Times(x, left) |-> Times(x, left)[r] * right[r][j]])

ByProduct(x, left, right, n, j) ==
  SumFunction([i \in 1..n |-> x[i] * SumFunction([r \in DOMAIN right |-> left[i][r] * right[r][j]])])

\* Multiplying by one factor after the other is multiplying by their product.
LEMMA FactorsMultiply ==
  ASSUME NEW n \in Nat \ {0}, NEW x \in [1..n -> Int], NEW left \in Matrices, NEW right \in Matrices,
         Len(left) = n, Len(left[1]) = Len(right), NEW j \in 1..Len(right[1])
  PROVE  /\ ByFactors(x, left, right, j) \in Int
         /\ ByFactors(x, left, right, j) = ByProduct(x, left, right, n, j)
<1> DEFINE p == Len(right)
           S == 1..p
           T == 1..n
           f == [r \in S |-> [i \in T |-> (x[i] * left[i][r]) * right[r][j]]]
           u == Times(x, left)
           w(i) == SumFunction([r \in S |-> left[i][r] * right[r][j]])
<1>1. /\ p \in Nat \ {0} /\ DOMAIN right = S /\ DOMAIN left[1] = S
      /\ \A i \in T, r \in S : left[i][r] \in Int /\ right[r][j] \in Int /\ x[i] \in Int
  <2>1. DOMAIN left = T /\ DOMAIN left[1] = S /\ \A i \in T, r \in S : left[i][r] \in Int
    <3>1. 1 \in 1..Len(left)
      OBVIOUS
    <3>2. /\ DOMAIN left = 1..Len(left)
          /\ \A i \in 1..Len(left) : DOMAIN left[i] = 1..Len(left[1])
                                      /\ \A c \in 1..Len(left[1]) : left[i][c] \in Int
      BY MatrixEntries
    <3> QED BY <3>1, <3>2
  <2>2. p \in Nat \ {0} /\ DOMAIN right = S /\ \A r \in S : right[r][j] \in Int
    BY MatrixEntries
  <2> QED BY <2>1, <2>2
<1>2. IsFiniteSet(S) /\ IsFiniteSet(T)
  BY <1>1, FS_Interval
<1>3. u = [r \in S |-> SumFunction([i \in T |-> x[i] * left[i][r]])]
  BY <1>1 DEF Times
<1> HIDE DEF p, u
<1>4. ASSUME NEW r \in S
      PROVE  /\ [i \in T |-> f[r][i]] \in [T -> Int] /\ f[r] \in [T -> Int]
             /\ SumFunction([i \in T |-> f[r][i]]) = u[r] * right[r][j]
  <2> DEFINE g == [i \in T |-> x[i] * left[i][r]]
             k == [i \in T |-> f[r][i]]
  <2>1. \A i \in T : x[i] * left[i][r] \in Int
    BY <1>1, IntProducts
  <2>2. g \in [T -> Int]
    BY <2>1
  <2>0. PICK z \in Int : z = right[r][j]
    <3>1. 1 \in T
      OBVIOUS
    <3> QED BY <1>1, <3>1
  <2>3. k = Multiples(T, g, z)
    BY <2>0 DEF Multiples
  <2>4. u[r] = SumFunction(g)
    BY <1>3
  <2>5. f[r] = k
    OBVIOUS
  <2> HIDE DEF g, k, f, S, T
  <2>6. k \in [T -> Int] /\ SumFunction(k) = SumFunction(g) * z
    BY <1>2, <2>2, <2>3, SumOfMultiples
  <2> QED BY <2>0, <2>4, <2>5, <2>6 DEF k
<1>5. f \in [S -> [T -> Int]]
  <2>1. f = [r \in S |-> f[r]]
    OBVIOUS
  <2> HIDE DEF f
  <2> QED BY <1>4, <2>1
<1>6. ASSUME NEW i \in T
      PROVE  SumFunction([r \in S |-> f[r][i]]) = x[i] * w(i)
  <2> DEFINE g == [r \in S |-> left[i][r] * right[r][j]]
             k == [r \in S |-> f[r][i]]
  <2>1. \A r \in S : left[i][r] * right[r][j] \in Int
    BY <1>1, IntProducts
  <2>2. g \in [S -> Int]
    BY <2>1
  <2>0. PICK z \in Int : z = x[i]
    BY <1>1
  <2>3. \A r \in S : f[r][i] = (left[i][r] * right[r][j]) * x[i]
    BY <1>1, IntProducts
  <2>4. k = Multiples(S, g, z)
    BY <2>0, <2>3 DEF Multiples
  <2>5. w(i) = SumFunction(g)
    OBVIOUS
  <2> HIDE DEF g, k, f, w
  <2>6. SumFunction(g) \in Int /\ SumFunction(k) = SumFunction(g) * z
    BY <1>2, <2>2, <2>4, SumOfMultiples
  <2>7. SumFunction(g) * z = z * SumFunction(g)
    BY <2>6, IntProducts
  <2> QED BY <2>0, <2>5, <2>6, <2>7 DEF k
<1>7. ByFactors(x, left, right, j) = SumFunction(RowSums(S, T, f))
  <2>1. DOMAIN u = S
    BY <1>3
  <2>2. [r \in S |-> u[r] * right[r][j]] = RowSums(S, T, f)
    <3> HIDE DEF f
    <3> QED BY <1>4 DEF RowSums
  <2> QED BY <2>1, <2>2 DEF ByFactors, u
<1>8. ByProduct(x, left, right, n, j) = SumFunction(ColumnSums(S, T, f))
  <2>1. [i \in T |-> x[i] * w(i)] = ColumnSums(S, T, f)
    <3> HIDE DEF f, w
    <3> QED BY <1>6 DEF ColumnSums
  <2> QED BY <1>1, <2>1 DEF ByProduct
<1> HIDE DEF S, T, f, w
<1>9. /\ RowSums(S, T, f) \in [S -> Int]
      /\ SumFunction(RowSums(S, T, f)) = SumFunction(ColumnSums(S, T, f))
  BY <1>2, <1>5, SumExchange
<1>10. SumFunction(RowSums(S, T, f)) \in Int
  BY <1>2, <1>9, SumOfInts
<1> QED BY <1>7, <1>8, <1>9, <1>10

\* What a layer map without its residual makes of x, in dimension j.
LinearPart(m, x, j) ==
  (IF m.right = <<>> THEN Times(x, m.left) ELSE Times(Times(x, m.left), m.right))[j] + m.bias[j]

\* The same with the factors multiplied out, as ReferenceRow says it.
ReferencePart(m, x, j) == m.bias[j] + SumFunction([n \in DOMAIN x |-> x[n] * WeightAt(m, n, j)])

\* A layer map whose matrices can be multiplied, from n dimensions to w.
Multiplies(m, n, w) ==
  /\ m.left \in Matrices /\ m.right \in Matrices \cup {<<>>} /\ m.bias \in Seq(Int)
  /\ Len(m.left) = n /\ Len(m.bias) = w
  /\ Len((IF m.right = <<>> THEN m.left ELSE m.right)[1]) = w
  /\ m.right # <<>> => Len(m.left[1]) = Len(m.right)

LEMMA LinearIsReference ==
  ASSUME NEW m, NEW n \in Nat \ {0}, NEW w \in Nat, Multiplies(m, n, w), NEW x \in [1..n -> Int], NEW j \in 1..w
  PROVE  LinearPart(m, x, j) \in Int /\ LinearPart(m, x, j) = ReferencePart(m, x, j)
<1> DEFINE xw == IF m.right = <<>> THEN Times(x, m.left) ELSE Times(Times(x, m.left), m.right)
           weighed == SumFunction([i \in 1..n |-> x[i] * WeightAt(m, i, j)])
<1>1. m.bias[j] \in Int
  BY LenProperties DEF Multiplies
<1>2. ASSUME m.right = <<>> PROVE xw[j] \in Int /\ xw[j] = weighed
  <2>1. m.left \in Matrices /\ Len(m.left) = n /\ Len(m.left[1]) = w
    BY <1>2 DEF Multiplies
  <2>2. DOMAIN m.left[1] = 1..w /\ \A i \in 1..n : m.left[i][j] \in Int
    <3>1. 1 \in 1..n
      OBVIOUS
    <3> QED BY <2>1, <3>1, MatrixEntries
  <2>3. xw[j] = SumFunction([i \in 1..n |-> x[i] * m.left[i][j]])
    BY <1>2, <2>2 DEF Times
  <2>4. [i \in 1..n |-> x[i] * WeightAt(m, i, j)] = [i \in 1..n |-> x[i] * m.left[i][j]]
    BY <1>2 DEF WeightAt
  <2>5. [i \in 1..n |-> x[i] * m.left[i][j]] \in [1..n -> Int]
    BY <2>2, IntProducts
  <2>6. SumFunction([i \in 1..n |-> x[i] * m.left[i][j]]) \in Int
    <3>1. IsFiniteSet(1..n)
      BY FS_Interval
    <3> QED BY <2>5, <3>1, SumOfInts
  <2>7. weighed = SumFunction([i \in 1..n |-> x[i] * m.left[i][j]])
    BY <2>4
  <2> HIDE DEF xw, weighed
  <2> QED BY <2>3, <2>6, <2>7
<1>3. ASSUME m.right # <<>> PROVE xw[j] \in Int /\ xw[j] = weighed
  <2>1. /\ m.left \in Matrices /\ m.right \in Matrices /\ Len(m.left) = n
        /\ Len(m.left[1]) = Len(m.right) /\ Len(m.right[1]) = w
    BY <1>3 DEF Multiplies
  <2>2. DOMAIN m.right[1] = 1..w
    <3>1. Len(m.right) \in Nat \ {0}
      BY <2>1, MatrixEntries
    <3>2. 1 \in 1..Len(m.right)
      BY <3>1
    <3> QED BY <2>1, <3>2, MatrixEntries
  <2>3. xw[j] = ByFactors(x, m.left, m.right, j)
    BY <1>3, <2>2 DEF Times, ByFactors
  <2>4. weighed = ByProduct(x, m.left, m.right, n, j)
    BY <1>3 DEF WeightAt, ByProduct
  <2> HIDE DEF weighed, xw
  <2>5. j \in 1..Len(m.right[1])
    BY <2>1
  <2>6. ByFactors(x, m.left, m.right, j) \in Int /\ ByFactors(x, m.left, m.right, j) = ByProduct(x, m.left, m.right, n, j)
    BY <2>1, <2>5, FactorsMultiply
  <2> QED BY <2>3, <2>4, <2>6
<1>4. xw[j] \in Int /\ xw[j] = weighed
  <2> HIDE DEF xw, weighed
  <2> QED BY <1>2, <1>3
<1>5. LinearPart(m, x, j) = xw[j] + m.bias[j]
  BY DEF LinearPart
<1>6. ReferencePart(m, x, j) = m.bias[j] + weighed
  BY DEF ReferencePart
<1> HIDE DEF xw, weighed
<1> QED BY <1>1, <1>4, <1>5, <1>6

\* A residual that fits a map from n dimensions to w.
Corrects(residual, n, w) ==
  /\ residual \in Residuals
  /\ Len(residual[1][1]) = n /\ Len(residual[3]) = w
  /\ Len(residual[1]) = Len(residual[2]) /\ Len(residual[2]) = Len(residual[3][1])

\* Its hidden layer, as the code adds it up.
HiddenLayer(residual, x) ==
  LET hidden == Plus(Linear(x, residual[1]), residual[2]) IN [i \in DOMAIN hidden |-> Gelu(hidden[i])]

LEMMA ResidualIsReference ==
  ASSUME NEW residual, NEW n \in Nat \ {0}, NEW w \in Nat, Corrects(residual, n, w),
         NEW x \in [1..n -> Int], NEW j \in 1..w
  PROVE  Linear(HiddenLayer(residual, x), residual[3])[j] = CorrectionAt(residual, x, j)
<1> DEFINE down == residual[1]
           bias == residual[2]
           up == residual[3]
           p == Len(down)
           sum(r) == SumFunction([i \in 1..n |-> x[i] * down[r][i]])
           hidden == [r \in 1..p |-> Gelu(sum(r) + bias[r])]
<1>1. /\ down \in Matrices /\ bias \in Seq(Int) /\ up \in Matrices
      /\ Len(down[1]) = n /\ Len(bias) = p /\ Len(up) = w /\ residual # <<>>
  <2>1. residual \in Matrices \X Seq(Int) \X Matrices
    BY DEF Corrects, Residuals
  <2>2. PICK a \in Matrices, b \in Seq(Int), c \in Matrices : residual = <<a, b, c>>
    BY <2>1
  <2>3. down = a /\ bias = b /\ up = c /\ residual # <<>>
    BY <2>2
  <2> QED BY <2>3 DEF Corrects
<1>2. /\ p \in Nat \ {0} /\ DOMAIN down = 1..p /\ DOMAIN up = 1..w /\ \A r \in 1..p : bias[r] \in Int
      /\ \A r \in 1..p, i \in 1..n : down[r][i] \in Int
  <2>1. p \in Nat \ {0} /\ DOMAIN down = 1..p /\ \A r \in 1..p, i \in 1..n : down[r][i] \in Int
    BY <1>1, MatrixEntries
  <2>2. DOMAIN up = 1..w
    BY <1>1, MatrixEntries
  <2>3. \A r \in 1..p : bias[r] \in Int
    BY <1>1, LenProperties
  <2> QED BY <2>1, <2>2, <2>3
<1> HIDE DEF down, bias, up, p
<1>3. ASSUME NEW r \in 1..p
      PROVE  /\ sum(r) \in Int
             /\ [i \in 1..n |-> x[i] * down[r][i]] = [i \in 1..n |-> down[r][i] * x[i]]
  <2>1. \A i \in 1..n : x[i] * down[r][i] \in Int /\ x[i] * down[r][i] = down[r][i] * x[i]
    BY <1>2, IntProducts
  <2>2. [i \in 1..n |-> x[i] * down[r][i]] \in [1..n -> Int]
    BY <2>1
  <2>3. IsFiniteSet(1..n)
    BY FS_Interval
  <2>4. sum(r) \in Int
    BY <2>2, <2>3, SumOfInts
  <2> QED BY <2>1, <2>4
<1>4. HiddenLayer(residual, x) = hidden
  <2>1. Linear(x, down) = [r \in 1..p |-> sum(r)]
    BY <1>2 DEF Linear
  <2>2. Plus(Linear(x, down), bias) = [r \in 1..p |-> sum(r) + bias[r]]
    <3> HIDE DEF sum
    <3> QED BY <2>1 DEF Plus
  <2> HIDE DEF sum
  <2> QED BY <2>2 DEF HiddenLayer, down, bias
<1>5. [r \in DOMAIN down |-> Gelu(bias[r] + SumFunction([i \in DOMAIN x |-> down[r][i] * x[i]]))] = hidden
  <2>1. ASSUME NEW r \in 1..p
        PROVE  bias[r] + SumFunction([i \in DOMAIN x |-> down[r][i] * x[i]]) = sum(r) + bias[r]
    <3>1. SumFunction([i \in DOMAIN x |-> down[r][i] * x[i]]) = sum(r)
      BY <1>3
    <3> HIDE DEF sum
    <3> QED BY <1>2, <1>3, <3>1
  <2> HIDE DEF sum
  <2> QED BY <1>2, <2>1
<1>6. Linear(hidden, up)[j] = SumFunction([r \in 1..p |-> hidden[r] * up[j][r]])
  <2>1. DOMAIN hidden = 1..p
    OBVIOUS
  <2> HIDE DEF hidden
  <2> QED BY <1>2, <2>1 DEF Linear
<1>7. CorrectionAt(residual, x, j) = SumFunction([r \in 1..p |-> hidden[r] * up[j][r]])
  <2>1. DOMAIN hidden = 1..p
    OBVIOUS
  <2>2. CorrectionAt(residual, x, j) =
          LET h == [r \in DOMAIN down |-> Gelu(bias[r] + SumFunction([i \in DOMAIN x |-> down[r][i] * x[i]]))]
          IN  SumFunction([r \in DOMAIN h |-> h[r] * up[j][r]])
    BY <1>1, Zenon DEF CorrectionAt, down, bias, up
  <2> HIDE DEF hidden
  <2> QED BY <1>5, <2>1, <2>2
<1> QED BY <1>4, <1>6, <1>7 DEF up

\* The residual that a layer map from n dimensions to w is applied with.
UsedIn(m, use, residual, n, w) ==
  /\ residual = IF use THEN m.residual ELSE <<>>
  /\ residual = <<>> \/ Corrects(residual, n, w)

\* So a layer map computes what the reference says, with its residual or without.
LEMMA MappedIsReference ==
  ASSUME NEW m, NEW n \in Nat \ {0}, NEW w \in Nat, Multiplies(m, n, w), NEW x \in [1..n -> Int], NEW j \in 1..w,
         NEW use \in BOOLEAN, NEW residual, UsedIn(m, use, residual, n, w)
  PROVE  Mapped(m, x, use)[j] = ReferencePart(m, x, j) + CorrectionAt(residual, x, j)
<1> DEFINE xw == IF m.right = <<>> THEN Times(x, m.left) ELSE Times(Times(x, m.left), m.right)
           y == Plus(xw, m.bias)
<1>0. /\ residual = IF use THEN m.residual ELSE <<>>
      /\ residual = <<>> \/ Corrects(residual, n, w)
  BY DEF UsedIn
<1>1. ReferencePart(m, x, j) \in Int /\ y[j] = ReferencePart(m, x, j) /\ j \in DOMAIN y
  <2>1. DOMAIN xw = 1..w
    <3>1. ASSUME NEW z, NEW matrix \in Matrices, Len(matrix[1]) = w PROVE DOMAIN Times(z, matrix) = 1..w
      <4>1. DOMAIN matrix[1] = 1..w
        BY <3>1, MatrixRows
      <4> QED BY <4>1 DEF Times
    <3> QED BY <3>1 DEF Multiplies
  <2>2. LinearPart(m, x, j) = xw[j] + m.bias[j]
    BY DEF LinearPart
  <2> HIDE DEF xw
  <2>3. y[j] = xw[j] + m.bias[j] /\ j \in DOMAIN y
    BY <2>1 DEF Plus
  <2> QED BY <2>2, <2>3, LinearIsReference
<1>2. ASSUME residual = <<>> PROVE Mapped(m, x, use)[j] = ReferencePart(m, x, j) + CorrectionAt(residual, x, j)
  <2>1. CorrectionAt(residual, x, j) = 0
    BY <1>2, Zenon DEF CorrectionAt
  <2>2. Mapped(m, x, use) = y
    BY <1>0, <1>2, Zenon DEF Mapped
  <2> HIDE DEF y
  <2>3. PICK a \in Int : a = ReferencePart(m, x, j) /\ y[j] = a
    BY <1>1
  <2>4. a + 0 = a
    OBVIOUS
  <2> QED BY <2>1, <2>2, <2>3, <2>4, Zenon
<1>3. ASSUME residual # <<>> PROVE Mapped(m, x, use)[j] = ReferencePart(m, x, j) + CorrectionAt(residual, x, j)
  <2>1. Corrects(residual, n, w)
    BY <1>0, <1>3
  <2>2. Mapped(m, x, use) = Plus(y, Linear(HiddenLayer(residual, x), residual[3]))
    BY <1>0, <1>3, Zenon DEF Mapped, HiddenLayer
  <2>3. Linear(HiddenLayer(residual, x), residual[3])[j] = CorrectionAt(residual, x, j)
    BY <2>1, ResidualIsReference
  <2> HIDE DEF y
  <2>4. Mapped(m, x, use)[j] = y[j] + Linear(HiddenLayer(residual, x), residual[3])[j]
    BY <1>1, <2>2 DEF Plus
  <2> QED BY <1>1, <2>3, <2>4
<1> QED BY <1>2, <1>3

-----------------------------------------------------------------------------
\* A row cut into n heads of d dimensions, entry by entry.
CutIntoHeads(y, n, d) ==
  /\ Heads(y, d) = [h \in 1..n |-> Heads(y, d)[h]]
  /\ \A h \in 1..n : /\ Heads(y, d)[h] = [i \in 1..d |-> Heads(y, d)[h][i]]
                     /\ \A i \in 1..d : Heads(y, d)[h][i] = y[((h - 1) * d) + i]

LEMMA HeadsEntries ==
  ASSUME NEW n \in Nat, NEW d \in Nat \ {0}, NEW y, IsRow(y, n * d)
  PROVE  CutIntoHeads(y, n, d)
<1>1. Len(y) = n * d /\ n * d \in Nat
  BY RowLength
<1>2. (n * d) \div d = n
  BY SMT
<1>3. Heads(y, d) = [h \in 1..n |-> SubSeq(y, (h - 1) * d + 1, h * d)]
  BY <1>1, <1>2 DEF Heads
<1>4. IsRow(Heads(y, d), n) /\ \A h \in 1..n : IsRow(Heads(y, d)[h], d)
  BY HeadsShape
<1>5. ASSUME NEW h \in 1..n, NEW i \in 1..d PROVE Heads(y, d)[h][i] = y[((h - 1) * d) + i]
  <2> DEFINE lo == (h - 1) * d + 1
             hi == h * d
             S == {y[c] : c \in lo..hi}
  <2>1. lo \in Int /\ hi \in Int /\ (hi - lo) + 1 = d /\ lo <= hi /\ (lo + i) - 1 = ((h - 1) * d) + i
    <3>1. PICK a \in Int, b \in Int : a = (h - 1) * d /\ b = h * d /\ b = a + d
      OBVIOUS
    <3> QED BY <3>1
  <2>2. \A c \in lo..hi : y[c] \in S
    OBVIOUS
  <2> HIDE DEF lo, hi, S
  <2>3. \A c \in 1..((hi - lo) + 1) : SubSeq(y, lo, hi)[c] = y[(lo + c) - 1]
    BY <2>1, <2>2, SubSeqProperties
  <2>4. Heads(y, d)[h] = SubSeq(y, lo, hi)
    BY <1>3 DEF lo, hi
  <2> QED BY <2>1, <2>3, <2>4
<1> QED BY <1>4, <1>5 DEF IsRow, CutIntoHeads

\* Heads of integers.
HeadsOf(config) == [1..config.kvHeads -> [1..config.headDim -> Int]]

Shaped(config) == {config.kvHeads, config.headDim} \subseteq Nat \ {0}

\* The KV of a token in all layers, contiguous and by content.
SameTokenKV(config, layers, kv, content, t) ==
  \A l \in 1..layers : kv[l][t] \in HeadsOf(config) /\ kv[l][t] = content[l][t]

\* A design row taken from the content.
DesignedBy(m, config, kv, content, t) ==
  /\ DesignRow(kv, m, t) = ContentRow(m, config, content, t)
  /\ ContentRow(m, config, content, t) \in [1..(Len(m.source) * KVDim(config)) -> Int]

\* The design row of a token whose layers are of this shape.
LEMMA DesignIsContent ==
  ASSUME NEW config, Shaped(config), NEW layers \in Nat, NEW m, m.source \in Seq(Int), m.source # <<>>,
         \A i \in DOMAIN m.source : m.source[i] \in 0..(layers - 1),
         NEW kv, NEW content, NEW t, SameTokenKV(config, layers, kv, content, t)
  PROVE  DesignedBy(m, config, kv, content, t)
<1> DEFINE k == Len(m.source)
           g == [i \in 1..k |-> kv[m.source[i] + 1][t]]
           hs == config.kvHeads
           d == config.headDim
<1>1. k \in Nat \ {0} /\ DOMAIN m.source = 1..k /\ hs \in Nat \ {0} /\ d \in Nat \ {0}
  BY LenProperties, EmptySeq DEF Shaped
<1>2. \A i \in 1..k : m.source[i] + 1 \in 1..layers
  BY <1>1, LenProperties
<1>3. \A i \in 1..k : g[i] \in [1..hs -> [1..d -> Int]] /\ g[i] = content[m.source[i] + 1][t]
  BY <1>2 DEF HeadsOf, SameTokenKV
<1>4. DesignRow(kv, m, t) = FlattenSeq([i \in 1..k |-> FlattenSeq(g[i])])
  BY <1>1 DEF DesignRow
<1>5. ASSUME NEW n \in 1..(k * KVDim(config))
      PROVE  InnerEntry(g, hs, d, n)
               = content[m.source[((n - 1) \div KVDim(config)) + 1] + 1][t]
                   [(((n - 1) % KVDim(config)) \div d) + 1][((n - 1) % d) + 1]
  <2>1. KVDim(config) = hs * d
    BY DEF KVDim
  <2>2. PICK a : a = ((n - 1) \div KVDim(config)) + 1
    OBVIOUS
  <2>3. a \in 1..k
    <3>1. n - 1 \in Nat /\ KVDim(config) \in Nat \ {0} /\ n - 1 < k * KVDim(config)
      <4>1. \A u, v \in Nat \ {0} : u * v \in Nat \ {0}
        OBVIOUS
      <4>2. KVDim(config) \in Nat \ {0} /\ k * KVDim(config) \in Nat
        BY <1>1, <2>1, <4>1
      <4> HIDE DEF k
      <4> QED BY <4>2
    <3>2. (n - 1) \div KVDim(config) \in 0..(k - 1)
      BY <1>1, <3>1, DivBelow
    <3> QED BY <1>1, <2>2, <3>2
  <2>4. g[a] = content[m.source[a] + 1][t]
    BY <1>3, <2>3
  <2> HIDE DEF g, hs, d
  <2> QED BY <2>1, <2>2, <2>4 DEF InnerEntry
<1> HIDE DEF g
<1>6. /\ JoinedTwice(g, k, hs, d)
      /\ \A n \in 1..(k * (hs * d)) : InnerEntry(g, hs, d, n) \in Int
  BY <1>1, <1>3, FlattenTwice
<1> HIDE DEF k
<1>7. k * (hs * d) = k * KVDim(config)
  BY DEF KVDim
<1>8. ContentRow(m, config, content, t) = [n \in 1..(k * KVDim(config)) |-> InnerEntry(g, hs, d, n)]
  BY <1>5 DEF ContentRow, k
<1>9. DesignRow(kv, m, t) = [n \in 1..(k * KVDim(config)) |-> InnerEntry(g, hs, d, n)]
  BY <1>4, <1>6, <1>7 DEF JoinedTwice
<1> QED BY <1>6, <1>7, <1>8, <1>9 DEF k, DesignedBy

-----------------------------------------------------------------------------
\* Cosine and sine of a number of quarter turns.
Turn(table) ==
  /\ table.cos \in {-1, 0, 1} /\ table.sin \in {-1, 0, 1}
  /\ \/ table.cos = 0 /\ table.sin # 0
     \/ table.cos # 0 /\ table.sin = 0

LEMMA RopeTurns ==
  ASSUME NEW config, config.theta \in Nat, NEW pos \in Nat PROVE Turn(RopeTable(config, pos))
<1> DEFINE turns == (config.theta * pos) % 4
<1>1. turns \in 0..3
  <2>1. \A a, b \in Nat : a * b \in Nat
    OBVIOUS
  <2>2. config.theta * pos \in Nat
    BY <2>1
  <2>3. \A a \in Nat : a % 4 \in 0..3
    OBVIOUS
  <2> QED BY <2>2, <2>3
<1>2. RopeTable(config, pos) = [cos |-> <<1, 0, -1, 0>>[turns + 1], sin |-> <<0, 1, 0, -1>>[turns + 1]]
  BY DEF RopeTable
<1> HIDE DEF turns
<1>3. turns = 0 \/ turns = 1 \/ turns = 2 \/ turns = 3
  BY <1>1
<1> QED BY <1>2, <1>3 DEF Turn

\* Stripping a rotation undoes it, when the dimensions are even.
LEMMA RotationUndone ==
  ASSUME NEW d \in Nat \ {0}, d % 2 = 0, NEW table, Turn(table), NEW x \in [1..d -> Int]
  PROVE  StripRope(ApplyRope(x, table), table) = x
<1> DEFINE half == d \div 2
           c == table.cos
           s == table.sin
           y == ApplyRope(x, table)
<1>1. half \in Nat /\ d = half + half
  <2>1. d \div 2 \in Nat /\ d = 2 * (d \div 2) + (d % 2)
    BY DivMod
  <2> QED BY <2>1
<1>2. Len(x) = d /\ DOMAIN x = 1..d
  BY ListFromFunction
<1>3. RotateHalf(x) = [i \in 1..d |-> IF i <= half THEN -x[i + half] ELSE x[i - half]]
  BY <1>2 DEF RotateHalf
<1> HIDE DEF half
<1>4. y = [i \in 1..d |-> x[i] * c + (IF i <= half THEN -x[i + half] ELSE x[i - half]) * s]
  BY <1>2, <1>3 DEF ApplyRope
<1>c. /\ \A a \in Int : a * 1 = a /\ a * 0 = 0 /\ a * (-1) = -a
      /\ \A a \in Int : a \in Int /\ -a \in Int /\ -(-a) = a /\ 0 + a = a /\ a + 0 = a /\ a - 0 = a
  OBVIOUS
<1>5. ASSUME NEW i \in 1..half
      PROVE  /\ i + half \in 1..d /\ i \in 1..d /\ x[i] \in Int /\ x[i + half] \in Int
             /\ y[i] = x[i] * c + (-x[i + half]) * s
             /\ y[i + half] = x[i + half] * c + x[i] * s
  <2>1. i + half \in 1..d /\ i \in 1..d /\ ~(i + half <= half) /\ (i + half) - half = i
    BY <1>1
  <2> HIDE DEF y
  <2> QED BY <1>4, <2>1
<1>6. y \in [1..d -> Int] /\ Len(y) = d /\ DOMAIN y = 1..d
  <2>1. \A i \in 1..d : y[i] \in Int
    <3> TAKE i \in 1..d
    <3>1. c \in Int /\ s \in Int /\ x[i] \in Int
      BY DEF Turn
    <3>2. i <= half => i + half \in 1..d
      BY <1>1
    <3>3. ~(i <= half) => i - half \in 1..d
      BY <1>1
    <3>4. (IF i <= half THEN -x[i + half] ELSE x[i - half]) \in Int
      BY <3>2, <3>3
    <3> HIDE DEF c, s
    <3>5. \A a, b, e, f \in Int : a * b + e * f \in Int
      OBVIOUS
    <3> QED BY <1>4, <3>1, <3>4, <3>5
  <2>2. y = [i \in 1..d |-> y[i]]
    BY <1>4
  <2> HIDE DEF y
  <2>3. y \in [1..d -> Int]
    BY <2>1, <2>2
  <2> QED BY <2>3, ListFromFunction
<1>7. StripRope(y, table) = [i \in 1..d |-> y[i] * c - (IF i <= half THEN -y[i + half] ELSE y[i - half]) * s]
  BY <1>6 DEF StripRope, RotateHalf, half
<1> HIDE DEF y
<1>8. ASSUME NEW i \in 1..half
      PROVE  y[i] * c - (-y[i + half]) * s = x[i] /\ y[i + half] * c - y[i] * s = x[i + half]
  <2>1. PICK a \in Int, b \in Int : a = x[i] /\ b = x[i + half]
    BY <1>5
  <2>2. y[i] = a * c + (-b) * s /\ y[i + half] = b * c + a * s
    BY <1>5, <2>1
  <2>3. CASE c = 1 /\ s = 0
    <3>1. y[i] = a /\ y[i + half] = b
      BY <2>2, <2>3
    <3> QED BY <2>1, <2>3, <3>1
  <2>4. CASE c = -1 /\ s = 0
    <3>1. y[i] = -a /\ y[i + half] = -b
      BY <2>2, <2>4
    <3> QED BY <2>1, <2>4, <3>1
  <2>5. CASE c = 0 /\ s = 1
    <3>1. y[i] = -b /\ y[i + half] = a
      BY <2>2, <2>5
    <3> QED BY <2>1, <2>5, <3>1
  <2>6. CASE c = 0 /\ s = -1
    <3>1. y[i] = b /\ y[i + half] = -a
      BY <2>2, <2>6
    <3> QED BY <2>1, <2>6, <3>1
  <2> QED BY <2>3, <2>4, <2>5, <2>6 DEF Turn
<1>9. ASSUME NEW i \in 1..d
      PROVE  y[i] * c - (IF i <= half THEN -y[i + half] ELSE y[i - half]) * s = x[i]
  <2>1. CASE i <= half
    <3>1. i \in 1..half
      BY <1>1, <2>1
    <3> QED BY <1>8, <2>1, <3>1
  <2>2. CASE ~(i <= half)
    <3>1. PICK j \in 1..half : i = j + half /\ j = i - half
      BY <1>1, <2>2
    <3> QED BY <1>8, <2>2, <3>1
  <2> QED BY <2>1, <2>2
<1> HIDE DEF c, s
<1>10. StripRope(y, table) = [i \in 1..d |-> x[i]]
  BY <1>7, <1>9
<1> QED BY <1>10 DEF y

-----------------------------------------------------------------------------
\* A layer map that can be applied to the source's KV, with the residual that is used.
Ready(m, residual) ==
  /\ m.source \in Seq(Int) /\ m.source # <<>> /\ SourceLayersExist(m, SourceModel)
  /\ Len(m.source) * KVDim(Target) \in Nat \ {0}
  /\ Multiplies(m, Len(m.source) * KVDim(Target), KVDim(Target))
  /\ residual = IF pair.useResidual THEN m.residual ELSE <<>>
  /\ residual = <<>> \/ Corrects(residual, Len(m.source) * KVDim(Target), KVDim(Target))

LEMMA AppliedMapsReady ==
  ASSUME Shaped(Target), pair.useResidual \in BOOLEAN,
         NEW list \in Seq(LayerMaps), NEW residuals \in Seq(Residuals), NEW with \in BOOLEAN,
         with => Len(list) <= Len(residuals),
         NEW maps, maps = IF with THEN WithResiduals(list, residuals) ELSE list, Len(maps) = Target.layers,
         \A l \in DOMAIN maps : SourceLayersExist(maps[l], SourceModel) /\ ShapeFits(maps[l], Target)
                                  /\ InnerFits(maps[l], pair.useResidual)
  PROVE  \A l \in 1..Target.layers : Ready(maps[l], IF with /\ pair.useResidual THEN residuals[l] ELSE <<>>)
<1>1. DOMAIN list = 1..Len(list) /\ Len(list) \in Nat /\ \A l \in 1..Len(list) : list[l] \in LayerMaps
  BY LenProperties
<1>2. /\ DOMAIN maps = 1..Len(list) /\ Len(maps) = Len(list)
      /\ \A l \in 1..Len(list) : /\ \A field \in {"source", "left", "right", "bias"} : maps[l][field] = list[l][field]
                                 /\ maps[l].residual = IF with THEN residuals[l] ELSE <<>>
  <2>1. ASSUME with
        PROVE  /\ DOMAIN maps = 1..Len(list) /\ Len(maps) = Len(list)
               /\ \A l \in 1..Len(list) : maps[l] = [list[l] EXCEPT !.residual = residuals[l]]
    <3>1. maps = [l \in 1..Len(list) |-> [list[l] EXCEPT !.residual = residuals[l]]]
      BY <1>1, <2>1 DEF WithResiduals
    <3>2. IsRow(maps, Len(list))
      BY <3>1 DEF IsRow
    <3>3. DOMAIN maps = 1..Len(list) /\ Len(maps) = Len(list)
      BY <1>1, <3>2, RowLength
    <3> QED BY <3>1, <3>3
  <2>2. ASSUME NEW l \in 1..Len(list)
        PROVE  /\ DOMAIN list[l] = {"source", "left", "right", "bias", "residual"} /\ list[l].residual = <<>>
               /\ list[l] = [f \in {"source", "left", "right", "bias", "residual"} |-> list[l][f]]
    BY <1>1 DEF LayerMaps
  <2>3. CASE with
    BY <2>1, <2>2, <2>3
  <2>4. CASE ~with
    BY <1>1, <2>2, <2>4
  <2> QED BY <2>3, <2>4
<1> TAKE l \in 1..Target.layers
<1> DEFINE m == maps[l]
           residual == IF with THEN residuals[l] ELSE <<>>
           used == IF with /\ pair.useResidual THEN residuals[l] ELSE <<>>
           w == KVDim(Target)
           n == Len(m.source) * KVDim(Target)
<1>3. l \in 1..Len(list) /\ l \in DOMAIN maps
  BY <1>2
<1>4. /\ m.source \in Seq(Int) /\ m.left \in Matrices /\ m.right \in Matrices \cup {<<>>} /\ m.bias \in Seq(Int)
      /\ m.residual = residual
  <2>1. /\ list[l].source \in Seq(Int) /\ list[l].left \in Matrices /\ list[l].right \in Matrices \cup {<<>>}
        /\ list[l].bias \in Seq(Int)
    BY <1>1, <1>3 DEF LayerMaps
  <2>2. m.source = list[l].source /\ m.left = list[l].left /\ m.right = list[l].right /\ m.bias = list[l].bias
    BY <1>2, <1>3
  <2> QED BY <1>2, <1>3, <2>1, <2>2
<1>5. residual = <<>> \/ residual \in Residuals
  <2>1. CASE with
    <3>1. l \in 1..Len(residuals)
      <4>1. Len(residuals) \in Nat
        BY LenProperties
      <4> QED BY <1>1, <1>3, <2>1, <4>1
    <3>2. residuals[l] \in Residuals
      BY <3>1, LenProperties
    <3> QED BY <2>1, <3>2
  <2>2. CASE ~with
    BY <2>2
  <2> QED BY <2>1, <2>2
<1>6. SourceLayersExist(m, SourceModel) /\ ShapeFits(m, Target) /\ InnerFits(m, pair.useResidual)
  BY <1>3
<1>7. /\ Len(m.left) = n /\ Len((IF m.right = <<>> THEN m.left ELSE m.right)[1]) = w /\ Len(m.bias) = w
      /\ m.residual # <<>> => Len(m.residual[1][1]) = n /\ Len(m.residual[3]) = w
  BY <1>6, Zenon DEF ShapeFits
<1>8. /\ m.right # <<>> => Len(m.left[1]) = Len(m.right)
      /\ pair.useResidual /\ m.residual # <<>> => Len(m.residual[1]) = Len(m.residual[2]) /\ Len(m.residual[2]) = Len(m.residual[3][1])
  BY <1>6, Zenon DEF InnerFits
<1>u. used = IF pair.useResidual THEN residual ELSE <<>>
  OBVIOUS
<1> HIDE DEF m, residual, used, w
<1>9. n \in Nat \ {0} /\ m.source # <<>>
  <2>1. n \in Nat \ {0}
    BY <1>4, <1>7, MatrixEntries
  <2>2. ASSUME m.source = <<>> PROVE FALSE
    <3>1. Len(m.source) = 0
      BY <2>2
    <3>2. KVDim(Target) \in Nat
      BY DEF KVDim, Shaped
    <3> QED BY <2>1, <3>1, <3>2
  <2> QED BY <2>1, <2>2
<1> HIDE DEF n
<1>10. Multiplies(m, n, w)
  BY <1>4, <1>7, <1>8 DEF Multiplies
<1>11. used = <<>> \/ Corrects(used, n, w)
  BY <1>u, <1>4, <1>5, <1>7, <1>8 DEF Corrects
<1>12. Ready(m, used)
  BY <1>u, <1>4, <1>6, <1>9, <1>10, <1>11 DEF Ready, n, w
<1> QED BY <1>12 DEF m, used

\* What such a map makes of the KV of a token whose layers are of the source's shape.
LEMMA RowIsReference ==
  ASSUME NEW m, NEW residual, Ready(m, residual), Shaped(Target), Shaped(SourceModel), pair.useResidual \in BOOLEAN,
         SourceModel.kvHeads = Target.kvHeads, SourceModel.headDim = Target.headDim, SourceModel.layers \in Nat,
         NEW kv, NEW content, NEW t,
         SameTokenKV(SourceModel, SourceModel.layers, kv, content, t)
  PROVE  Heads(Mapped(m, DesignRow(kv, m, t), pair.useResidual), Target.headDim)
           = ReferenceRow(m, residual, SourceModel, content, t)
<1> DEFINE x == ContentRow(m, SourceModel, content, t)
           n == Len(m.source) * KVDim(Target)
           w == KVDim(Target)
           hs == Target.kvHeads
           d == Target.headDim
           y == Mapped(m, x, pair.useResidual)
<1>1. hs \in Nat \ {0} /\ d \in Nat \ {0} /\ w = hs * d /\ w \in Nat /\ KVDim(SourceModel) = w
  <2>1. \A a, b \in Nat : a * b \in Nat
    OBVIOUS
  <2> QED BY <2>1 DEF KVDim, Shaped
<1>2. DesignRow(kv, m, t) = x /\ x \in [1..n -> Int]
  <2>1. /\ m.source \in Seq(Int) /\ m.source # <<>>
        /\ \A i \in DOMAIN m.source : m.source[i] \in 0..(SourceModel.layers - 1)
    BY DEF Ready, SourceLayersExist
  <2>2. DesignedBy(m, SourceModel, kv, content, t)
    BY <2>1, DesignIsContent
  <2> QED BY <1>1, <2>2 DEF DesignedBy
<1>3. n \in Nat \ {0} /\ Multiplies(m, n, w) /\ (residual = IF pair.useResidual THEN m.residual ELSE <<>>) /\ (residual = <<>> \/ Corrects(residual, n, w))
  BY DEF Ready
<1> HIDE DEF x, n, w
<1>4. \A j \in 1..w : y[j] = ReferencePart(m, x, j) + CorrectionAt(residual, x, j)
  <2>1. UsedIn(m, pair.useResidual, residual, n, w)
    BY <1>3 DEF UsedIn
  <2> QED BY <1>1, <1>2, <1>3, <2>1, MappedIsReference
<1>5. IsRow(y, hs * d)
  BY <1>1, <1>3, MappedLength DEF Multiplies
<1> HIDE DEF y, hs, d
<1>6. CutIntoHeads(y, hs, d)
  BY <1>1, <1>5, HeadsEntries
<1>7. ASSUME NEW h \in 1..hs, NEW i \in 1..d PROVE ((h - 1) * d) + i \in 1..w
  <2>1. PICK a \in Nat, b \in Nat : a = (h - 1) * d /\ b = (hs - h) * d /\ w = (a + d) + b
    <3>1. (h - 1) * d \in Nat /\ (hs - h) * d \in Nat /\ w = ((h - 1) * d + d) + (hs - h) * d
      BY <1>1
    <3> QED BY <3>1
  <2> QED BY <1>1, <2>1
<1>8. ReferenceRow(m, residual, SourceModel, content, t)
        = [h \in 1..hs |-> [i \in 1..d |->
             ReferencePart(m, x, (h - 1) * d + i) + CorrectionAt(residual, x, (h - 1) * d + i)]]
  BY Zenon DEF ReferenceRow, ReferencePart, x, hs, d
<1>9. \A h \in 1..hs, i \in 1..d :
        Heads(y, d)[h][i] = ReferencePart(m, x, (h - 1) * d + i) + CorrectionAt(residual, x, (h - 1) * d + i)
  BY <1>4, <1>6, <1>7 DEF CutIntoHeads
<1>10. Heads(y, d) = ReferenceRow(m, residual, SourceModel, content, t)
  BY <1>6, <1>8, <1>9 DEF CutIntoHeads
<1> QED BY <1>2, <1>10 DEF y, d

-----------------------------------------------------------------------------
\* The reference run of the source over a prompt: layer by layer, as its recursion
\* says.
DenseStart(p) ==
  [x |-> [t \in (0 + 1)..Len(p) |-> Embed(SourceModel, p[t])], content |-> <<>>, values |-> <<>>]

IsRun(n, p, run) ==
  run = [l \in 0..n |-> IF l = 0 THEN DenseStart(p) ELSE DenseLayer(SourceModel, p, <<>>, 0, l, run[l - 1])]

RunOf(p) == DenseRun(SourceModel, p, <<>>, 0)

\* There is such a function.
LEMMA RunUpTo ==
  ASSUME NEW p
  PROVE  \A n \in Nat : \E run : IsRun(n, p, run)
<1> DEFINE step(l, prev) == DenseLayer(SourceModel, p, <<>>, 0, l, prev)
           S == {n \in Nat : \E run : IsRun(n, p, run)}
<1>1. 0 \in S
  <2> DEFINE run == [l \in 0..0 |-> DenseStart(p)]
  <2>1. run = [l \in 0..0 |-> IF l = 0 THEN DenseStart(p) ELSE step(l, run[l - 1])]
    OBVIOUS
  <2> HIDE DEF run
  <2>2. IsRun(0, p, run)
    BY <2>1 DEF IsRun
  <2> QED BY <2>2
<1>2. ASSUME NEW n \in Nat, n \in S PROVE n + 1 \in S
  <2>1. PICK run : IsRun(n, p, run)
    BY <1>2
  <2> DEFINE longer == [l \in 0..(n + 1) |-> IF l = n + 1 THEN step(n + 1, run[n]) ELSE run[l]]
  <2>2. \A l \in 0..n : run[l] = IF l = 0 THEN DenseStart(p) ELSE step(l, run[l - 1])
    BY <2>1 DEF IsRun
  <2> HIDE DEF step
  <2>3. ASSUME NEW l \in 0..(n + 1) PROVE longer[l] = IF l = 0 THEN DenseStart(p) ELSE step(l, longer[l - 1])
    <3>1. CASE l = n + 1
      <4>1. l # 0 /\ l - 1 = n /\ n \in 0..(n + 1) /\ n # n + 1
        BY <3>1
      <4>2. longer[n] = run[n] /\ longer[l] = step(l, run[n])
        BY <3>1, <4>1
      <4> QED BY <4>1, <4>2
    <3>2. CASE l # n + 1 /\ l # 0
      <4>1. l \in 0..n /\ l - 1 \in 0..n /\ l - 1 \in 0..(n + 1) /\ l - 1 # n + 1
        BY <3>2
      <4>2. longer[l] = run[l] /\ longer[l - 1] = run[l - 1]
        BY <3>2, <4>1
      <4> QED BY <2>2, <3>2, <4>1, <4>2
    <3>3. CASE l = 0
      <4>1. l \in 0..n /\ l # n + 1
        BY <3>3
      <4> QED BY <2>2, <3>3, <4>1
    <3> QED BY <3>1, <3>2, <3>3
  <2>4. longer = [l \in 0..(n + 1) |-> longer[l]]
    OBVIOUS
  <2> HIDE DEF longer
  <2>5. longer = [l \in 0..(n + 1) |-> IF l = 0 THEN DenseStart(p) ELSE step(l, longer[l - 1])]
    BY <2>3, <2>4
  <2>6. IsRun(n + 1, p, longer)
    BY <2>5 DEF IsRun, step
  <2> QED BY <2>6
<1> HIDE DEF S
<1>3. Nat \subseteq S
  BY <1>1, <1>2, NatSetInduction
<1> QED BY <1>3 DEF S

LEMMA RunRule ==
  ASSUME NEW p
  PROVE  /\ RunOf(p)[0] = DenseStart(p)
         /\ \A l \in 1..SourceModel.layers : RunOf(p)[l] = DenseLayer(SourceModel, p, <<>>, 0, l, RunOf(p)[l - 1])
<1> DEFINE N == SourceModel.layers
           rule(f) == f = [l \in 0..N |-> IF l = 0 THEN DenseStart(p)
                                          ELSE DenseLayer(SourceModel, p, <<>>, 0, l, f[l - 1])]
<1>0. N \in Nat
  BY PairsAssumption
<1>1. \E f : rule(f)
  <2>1. PICK f : IsRun(N, p, f)
    BY <1>0, RunUpTo
  <2> QED BY <2>1 DEF IsRun
<1>2. RunOf(p) = CHOOSE f : rule(f)
  BY Zenon DEF RunOf, DenseRun, DenseStart
<1>3. rule(RunOf(p))
  BY <1>1, <1>2
<1>4. \A l \in 0..N : RunOf(p)[l] = IF l = 0 THEN DenseStart(p)
                                    ELSE DenseLayer(SourceModel, p, <<>>, 0, l, RunOf(p)[l - 1])
  BY <1>3
<1> HIDE DEF N
<1>5. 0 \in 0..N /\ \A l \in 1..N : l \in 0..N /\ l # 0
  BY <1>0
<1> QED BY <1>4, <1>5 DEF N

\* The hidden states of a prompt after l layers, and what layer l makes of them.
SourceX(p, l) == RunOf(p)[l].x

KeysIn(p, l) == [t \in 1..Len(p) |-> KeyOf(SourceModel, l, SourceX(p, l - 1)[t])]

ValuesIn(p, l) == [t \in 1..Len(p) |-> ValueOf(SourceModel, l, SourceX(p, l - 1)[t])]

Rope(p, t) == RopeTable(SourceModel, t - 1)

AttendedIn(p, l, t) ==
  LET q == Query(SourceModel, l, SourceX(p, l - 1)[t])
  IN  [h \in DOMAIN q |->
         LET kv == (h - 1) \div SourceModel.groups + 1
         IN  Sdpa(ApplyRope(q[h], Rope(p, t)), [u \in 1..t |-> ApplyRope(KeysIn(p, l)[u][kv], Rope(p, u))],
                  [u \in 1..t |-> ValuesIn(p, l)[u][kv]])]

LEMMA AppendRow ==
  ASSUME NEW n \in Nat, NEW f, IsRow(f, n), NEW x
  PROVE  Append(f, x) = [c \in 1..(n + 1) |-> IF c = n + 1 THEN x ELSE f[c]]
<1> DEFINE T == {f[c] : c \in 1..n} \cup {x}
<1>1. f \in [1..n -> T] /\ x \in T
  BY DEF IsRow
<1> HIDE DEF T
<1>2. f \in Seq(T) /\ Len(f) = n
  BY <1>1, ListFromFunction
<1>3. /\ Append(f, x) \in Seq(T) /\ Len(Append(f, x)) = n + 1
      /\ \A c \in 1..n : Append(f, x)[c] = f[c]
      /\ Append(f, x)[n + 1] = x
  BY <1>1, <1>2, AppendProperties
<1>4. Append(f, x) = [c \in 1..(n + 1) |-> Append(f, x)[c]]
  BY <1>3, LenProperties
<1>5. \A c \in 1..(n + 1) : Append(f, x)[c] = IF c = n + 1 THEN x ELSE f[c]
  BY <1>3
<1> QED BY <1>4, <1>5

\* One layer of the reference run.
LEMMA RunLayer ==
  ASSUME NEW p, Len(p) \in Nat, NEW l \in 1..SourceModel.layers
  PROVE  /\ SourceX(p, 0) = [t \in 1..Len(p) |-> Embed(SourceModel, p[t])]
         /\ SourceX(p, l) = [t \in 1..Len(p) |-> Mix(SourceModel, l, SourceX(p, l - 1)[t], AttendedIn(p, l, t))]
         /\ RunOf(p)[0].content = <<>> /\ RunOf(p)[0].values = <<>>
         /\ RunOf(p)[l].content = Append(RunOf(p)[l - 1].content, KeysIn(p, l))
         /\ RunOf(p)[l].values = Append(RunOf(p)[l - 1].values, ValuesIn(p, l))
<1> DEFINE prev == RunOf(p)[l - 1]
           new == (0 + 1)..Len(p)
           content == [t \in new |-> KeyOf(SourceModel, l, prev.x[t])]
           values == [t \in new |-> ValueOf(SourceModel, l, prev.x[t])]
           rope(head, t) == ApplyRope(head, RopeTable(SourceModel, t - 1))
           key(t, h) == IF t \in new THEN rope(content[t][h], t) ELSE <<>>.k[l][t][h]
           value(t, h) == IF t \in new THEN values[t][h] ELSE <<>>.v[l][t][h]
           out(t) ==
             LET q == Query(SourceModel, l, prev.x[t])
             IN  [h \in DOMAIN q |->
                    LET kv == (h - 1) \div SourceModel.groups + 1
                    IN  Sdpa(rope(q[h], t), [u \in 1..t |-> key(u, kv)], [u \in 1..t |-> value(u, kv)])]
<1>0. new = 1..Len(p)
  OBVIOUS
<1>1. RunOf(p)[0] = [x |-> [t \in new |-> Embed(SourceModel, p[t])], content |-> <<>>, values |-> <<>>]
  BY RunRule DEF DenseStart
<1>2. RunOf(p)[l] = [x |-> [t \in new |-> Mix(SourceModel, l, prev.x[t], out(t))],
                     content |-> Append(prev.content, content), values |-> Append(prev.values, values)]
  <2>1. RunOf(p)[l] = DenseLayer(SourceModel, p, <<>>, 0, l, prev)
    BY RunRule
  <2> HIDE DEF prev
  <2> QED BY <2>1, Zenon DEF DenseLayer
<1>3. content = KeysIn(p, l) /\ values = ValuesIn(p, l)
  BY <1>0 DEF KeysIn, ValuesIn, SourceX
<1>4. ASSUME NEW t \in new PROVE out(t) = AttendedIn(p, l, t)
  <2>1. \A u \in 1..t : u \in new
    BY <1>0
  <2>2. \A kv : /\ [u \in 1..t |-> key(u, kv)] = [u \in 1..t |-> ApplyRope(KeysIn(p, l)[u][kv], Rope(p, u))]
                /\ [u \in 1..t |-> value(u, kv)] = [u \in 1..t |-> ValuesIn(p, l)[u][kv]]
    <3> HIDE DEF content, values, new
    <3> QED BY <1>3, <2>1 DEF Rope
  <2> HIDE DEF key, value, content, values
  <2> QED BY <2>2 DEF AttendedIn, SourceX, Rope
<1> HIDE DEF out, content, values
<1>5. SourceX(p, l) = [t \in new |-> Mix(SourceModel, l, SourceX(p, l - 1)[t], AttendedIn(p, l, t))]
  BY <1>2, <1>4 DEF SourceX
<1> QED BY <1>0, <1>1, <1>2, <1>3, <1>5 DEF SourceX

\* The content the reference ends with, by layer.
LEMMA RunContent ==
  ASSUME NEW p, Len(p) \in Nat
  PROVE  \A l \in 1..SourceModel.layers :
           /\ RunOf(p)[SourceModel.layers].content[l] = KeysIn(p, l)
           /\ RunOf(p)[SourceModel.layers].values[l] = ValuesIn(p, l)
<1> DEFINE N == SourceModel.layers
           upTo(n) == /\ RunOf(p)[n].content = [c \in 1..n |-> KeysIn(p, c)]
                      /\ RunOf(p)[n].values = [c \in 1..n |-> ValuesIn(p, c)]
           S == {n \in Nat : n <= N => upTo(n)}
<1>0. N \in Nat \ {0}
  BY PairsAssumption
<1>1. 0 \in S
  <2>1. 1 \in 1..N
    BY <1>0
  <2>2. RunOf(p)[0].content = <<>> /\ RunOf(p)[0].values = <<>>
    BY <2>1, RunLayer
  <2>3. upTo(0)
    BY <2>2
  <2> QED BY <2>3
<1>2. ASSUME NEW n \in Nat, n \in S PROVE n + 1 \in S
  <2> SUFFICES ASSUME n + 1 <= N PROVE upTo(n + 1)
    OBVIOUS
  <2>1. n + 1 \in 1..N /\ (n + 1) - 1 = n /\ n <= N
    BY <1>0
  <2>2. upTo(n)
    BY <1>2, <2>1
  <2>3. /\ RunOf(p)[n + 1].content = Append(RunOf(p)[n].content, KeysIn(p, n + 1))
        /\ RunOf(p)[n + 1].values = Append(RunOf(p)[n].values, ValuesIn(p, n + 1))
    <3> HIDE DEF N, upTo
    <3>1. /\ RunOf(p)[n + 1].content = Append(RunOf(p)[(n + 1) - 1].content, KeysIn(p, n + 1))
          /\ RunOf(p)[n + 1].values = Append(RunOf(p)[(n + 1) - 1].values, ValuesIn(p, n + 1))
      BY <2>1, RunLayer DEF N
    <3> QED BY <2>1, <3>1
  <2> DEFINE keys == [c \in 1..n |-> KeysIn(p, c)]
             values == [c \in 1..n |-> ValuesIn(p, c)]
  <2>4. IsRow(keys, n) /\ IsRow(values, n) /\ \A c \in 1..n : keys[c] = KeysIn(p, c) /\ values[c] = ValuesIn(p, c)
    BY DEF IsRow
  <2>5. RunOf(p)[n].content = keys /\ RunOf(p)[n].values = values
    BY <2>2
  <2> HIDE DEF keys, values
  <2>6. /\ Append(keys, KeysIn(p, n + 1)) = [c \in 1..(n + 1) |-> IF c = n + 1 THEN KeysIn(p, n + 1) ELSE keys[c]]
        /\ Append(values, ValuesIn(p, n + 1)) = [c \in 1..(n + 1) |-> IF c = n + 1 THEN ValuesIn(p, n + 1) ELSE values[c]]
    <3>1. Append(keys, KeysIn(p, n + 1)) = [c \in 1..(n + 1) |-> IF c = n + 1 THEN KeysIn(p, n + 1) ELSE keys[c]]
      BY <2>4, AppendRow
    <3>2. Append(values, ValuesIn(p, n + 1)) = [c \in 1..(n + 1) |-> IF c = n + 1 THEN ValuesIn(p, n + 1) ELSE values[c]]
      BY <2>4, AppendRow
    <3> QED BY <3>1, <3>2
  <2>7. \A c \in 1..(n + 1) : c # n + 1 => c \in 1..n
    OBVIOUS
  <2> QED BY <2>3, <2>4, <2>5, <2>6, <2>7
<1> HIDE DEF S
<1>3. Nat \subseteq S
  BY <1>1, <1>2, NatSetInduction
<1>4. upTo(N)
  BY <1>0, <1>3 DEF S
<1> QED BY <1>4

-----------------------------------------------------------------------------
\* Heads joined to a row and cut again.
CutBack(q, n, d) == FlattenSeq(q) \in [1..(n * d) -> Int] /\ Heads(FlattenSeq(q), d) = q

LEMMA HeadsOfFlat ==
  ASSUME NEW n \in Nat \ {0}, NEW d \in Nat \ {0}, NEW q \in [1..n -> [1..d -> Int]]
  PROVE  CutBack(q, n, d)
<1> DEFINE y == FlattenSeq(q)
<1>1. JoinedByRow(q, n, d)
  <2>1. q = [i \in 1..n |-> q[i]] /\ \A i \in 1..n : q[i] \in [1..d -> Int]
    OBVIOUS
  <2> QED BY <2>1, FlattenUniform
<1>2. y = [c \in 1..(n * d) |-> EntryOf(q, d, c)]
  BY <1>1 DEF JoinedByRow
<1>3. n * d \in Nat
  OBVIOUS
<1>4. ASSUME NEW c \in 1..(n * d) PROVE EntryOf(q, d, c) \in Int
  <2>1. PICK m \in Nat : m = n * d
    BY <1>3
  <2>2. c - 1 \in Nat /\ c - 1 < n * d
    BY <2>1
  <2>3. (c - 1) \div d \in 0..(n - 1) /\ (c - 1) % d \in 0..(d - 1)
    BY <2>2, DivBelow, DivMod
  <2>4. PICK e \in 0..(n - 1), f \in 0..(d - 1) : e = (c - 1) \div d /\ f = (c - 1) % d
    BY <2>3
  <2>5. e + 1 \in 1..n /\ f + 1 \in 1..d
    OBVIOUS
  <2>6. q[e + 1][f + 1] \in Int
    BY <2>5
  <2> QED BY <2>4, <2>6, Zenon DEF EntryOf
<1> HIDE DEF y
<1>5. y \in [1..(n * d) -> Int] /\ IsRow(y, n * d)
  BY <1>2, <1>4 DEF IsRow
<1>6. CutIntoHeads(y, n, d)
  BY <1>3, <1>5, HeadsEntries
<1>7. ASSUME NEW h \in 1..n, NEW i \in 1..d PROVE Heads(y, d)[h][i] = q[h][i]
  <2>0. PICK m \in Nat, z \in Nat : m = (h - 1) * d /\ z = (n - h) * d /\ n * d = (m + d) + z
    <3>1. (h - 1) * d \in Nat /\ (n - h) * d \in Nat /\ n * d = ((h - 1) * d + d) + (n - h) * d
      OBVIOUS
    <3> QED BY <3>1
  <2>1. PICK a \in Nat, b \in 0..(d - 1) : a = h - 1 /\ b = i - 1 /\ m = a * d
    <3>1. h - 1 \in Nat /\ i - 1 \in 0..(d - 1)
      OBVIOUS
    <3> QED BY <2>0, <3>1
  <2>2. PICK c : c = m + i
    OBVIOUS
  <2>3. c \in 1..(n * d)
    <3>1. c \in 1..((m + d) + z)
      BY <2>2
    <3> QED BY <2>0, <3>1
  <2>4. c - 1 = d * a + b
    <3>1. d * a = m
      BY <2>1
    <3> QED BY <2>0, <2>1, <2>2, <3>1
  <2>5. (c - 1) \div d = a /\ (c - 1) % d = b
    <3>1. (d * a + b) \div d = a /\ (d * a + b) % d = b
      BY <2>1, DivModUnique
    <3> QED BY <2>4, <3>1
  <2>6. y[c] = q[h][i]
    <3>1. ((c - 1) \div d) + 1 = h /\ ((c - 1) % d) + 1 = i
      BY <2>1, <2>5
    <3> QED BY <1>2, <2>3, <3>1 DEF EntryOf
  <2>7. Heads(y, d)[h][i] = y[((h - 1) * d) + i]
    BY <1>6 DEF CutIntoHeads
  <2> QED BY <2>0, <2>2, <2>6, <2>7, Zenon
<1>8. Heads(y, d) = q
  <2>1. /\ Heads(y, d) = [h \in 1..n |-> Heads(y, d)[h]]
        /\ \A h \in 1..n : Heads(y, d)[h] = [i \in 1..d |-> Heads(y, d)[h][i]]
    BY <1>6 DEF CutIntoHeads
  <2>2. \A h \in 1..n : Heads(y, d)[h] = q[h]
    BY <1>7, <2>1
  <2> QED BY <2>1, <2>2
<1> QED BY <1>5, <1>8 DEF y, CutBack

\* Three lists joined, and each of them cut out again.
LEMMA ThreeParts ==
  ASSUME NEW a \in Seq(Int), NEW b \in Seq(Int), NEW c \in Seq(Int), a # <<>>, b # <<>>, c # <<>>
  PROVE  /\ SubSeq((a \o b) \o c, 0 + 1, 0 + Len(a)) = a
         /\ SubSeq((a \o b) \o c, Len(a) + 1, Len(a) + Len(b)) = b
         /\ SubSeq((a \o b) \o c, (Len(a) + Len(b)) + 1, (Len(a) + Len(b)) + Len(c)) = c
<1>1. Len(a) \in Nat \ {0} /\ Len(b) \in Nat \ {0} /\ Len(c) \in Nat \ {0}
  BY EmptySeq
<1>2. a \o b \in Seq(Int) /\ Len(a \o b) = Len(a) + Len(b)
  BY ConcatProperties
<1> DEFINE u == a \o b
<1>3. u \in Seq(Int) /\ Len(u) = Len(a) + Len(b)
  BY <1>2
<1> HIDE DEF u
<1>4. SubSeq(u \o c, 0 + 1, 0 + Len(a)) = a
  <2>1. 0 + 1 = 1 /\ 0 + Len(a) = Len(a) /\ 1 \in 1..Len(a) /\ Len(a) \in 1..Len(a)
        /\ 1 \in 1..Len(u) /\ Len(a) \in 1..Len(u)
    BY <1>1, <1>3
  <2>2. SubSeq(u \o c, 1, Len(a)) = SubSeq(u, 1, Len(a))
    BY <1>3, <2>1, SubSeqOfConcat1
  <2>3. SubSeq(a \o b, 1, Len(a)) = SubSeq(a, 1, Len(a))
    BY <2>1, SubSeqOfConcat1
  <2>4. SubSeq(a, 1, Len(a)) = a
    BY SubSeqFull
  <2> QED BY <2>1, <2>2, <2>3, <2>4 DEF u
<1>5. SubSeq(u \o c, Len(a) + 1, Len(a) + Len(b)) = b
  <2>1. /\ Len(a) + 1 \in (Len(a) + 1)..(Len(a) + Len(b))
        /\ Len(a) + Len(b) \in (Len(a) + 1)..(Len(a) + Len(b))
        /\ (Len(a) + 1) - Len(a) = 1 /\ (Len(a) + Len(b)) - Len(a) = Len(b)
        /\ Len(a) + 1 \in 1..Len(u) /\ Len(a) + Len(b) \in 1..Len(u)
    BY <1>1, <1>3
  <2>2. SubSeq(u \o c, Len(a) + 1, Len(a) + Len(b)) = SubSeq(u, Len(a) + 1, Len(a) + Len(b))
    BY <1>3, <2>1, SubSeqOfConcat1
  <2>3. SubSeq(a \o b, Len(a) + 1, Len(a) + Len(b)) = SubSeq(b, (Len(a) + 1) - Len(a), (Len(a) + Len(b)) - Len(a))
    BY <2>1, SubSeqOfConcat2
  <2>4. SubSeq(b, 1, Len(b)) = b
    BY SubSeqFull
  <2> QED BY <2>1, <2>2, <2>3, <2>4 DEF u
<1>6. SubSeq(u \o c, (Len(a) + Len(b)) + 1, (Len(a) + Len(b)) + Len(c)) = c
  <2>2. /\ Len(u) + 1 \in (Len(u) + 1)..(Len(u) + Len(c))
        /\ Len(u) + Len(c) \in (Len(u) + 1)..(Len(u) + Len(c))
        /\ (Len(u) + 1) - Len(u) = 1 /\ (Len(u) + Len(c)) - Len(u) = Len(c)
    BY <1>1, <1>3
  <2>3. SubSeq(u \o c, Len(u) + 1, Len(u) + Len(c)) = SubSeq(c, 1, Len(c))
    <3>1. SubSeq(u \o c, Len(u) + 1, Len(u) + Len(c)) = SubSeq(c, (Len(u) + 1) - Len(u), (Len(u) + Len(c)) - Len(u))
      BY <1>3, <2>2, SubSeqOfConcat2
    <3> QED BY <2>2, <3>1
  <2>4. SubSeq(c, 1, Len(c)) = c
    BY SubSeqFull
  <2> QED BY <1>3, <2>3, <2>4
<1> QED BY <1>4, <1>5, <1>6 DEF u

\* The weights return heads of the source's shape at every token of a prompt.
WellShaped(x, l) ==
  /\ Query(SourceModel, l, x) \in [1..(SourceModel.kvHeads * SourceModel.groups) -> HeadOf(SourceModel)]
  /\ {KeyOf(SourceModel, l, x), ValueOf(SourceModel, l, x)} \subseteq [1..SourceModel.kvHeads -> HeadOf(SourceModel)]

LEMMA PromptsWellShaped ==
  ASSUME NEW p \in Prompts, NEW l \in 1..SourceModel.layers, NEW t \in 1..Len(p)
  PROVE  WellShaped(SourceX(p, l - 1)[t], l)
BY WeightsAssumption DEF WellShaped, SourceX, RunOf

\* One GEMM, split by the sizes, projects as three would.
ProjectedWhole(l, x) ==
  Projected(SourceModel, l, x) =
    [q |-> Query(SourceModel, l, x), k |-> KeyOf(SourceModel, l, x), v |-> ValueOf(SourceModel, l, x)]

LEMMA FusedProjects == ASSUME NEW l, NEW x, WellShaped(x, l) PROVE ProjectedWhole(l, x)
<1> DEFINE q == Query(SourceModel, l, x)
           k == KeyOf(SourceModel, l, x)
           v == ValueOf(SourceModel, l, x)
           n == SourceModel.kvHeads
           g == SourceModel.groups
           d == SourceModel.headDim
           qkv == (FlattenSeq(q) \o FlattenSeq(k)) \o FlattenSeq(v)
           cut(first, size) == Heads(SubSeq(qkv, first + 1, first + size), d)
<1>1. n \in Nat \ {0} /\ g \in Nat \ {0} /\ d \in Nat \ {0} /\ n * g \in Nat \ {0}
  <2>1. \A a, b \in Nat \ {0} : a * b \in Nat \ {0}
    OBVIOUS
  <2>2. n \in Nat \ {0} /\ g \in Nat \ {0} /\ d \in Nat \ {0}
    BY WeightsAssumption
  <2> QED BY <2>1, <2>2
<1>2. q \in [1..(n * g) -> [1..d -> Int]] /\ k \in [1..n -> [1..d -> Int]] /\ v \in [1..n -> [1..d -> Int]]
  BY DEF WellShaped, HeadOf
<1>3. Projected(SourceModel, l, x) =
        IF SourceModel.fused
        THEN [q |-> cut(0, n * g * d), k |-> cut(n * g * d, n * d), v |-> cut(n * g * d + n * d, n * d)]
        ELSE [q |-> q, k |-> k, v |-> v]
  BY Zenon DEF Projected, KVDim
<1> HIDE DEF q, k, v, n, g, d
<1>4. CutBack(q, n * g, d) /\ CutBack(k, n, d) /\ CutBack(v, n, d)
  BY <1>1, <1>2, HeadsOfFlat
<1>5. PICK a, b, c : a = FlattenSeq(q) /\ b = FlattenSeq(k) /\ c = FlattenSeq(v)
  OBVIOUS
<1>6. PICK A \in Nat \ {0}, B \in Nat \ {0} : A = n * g * d /\ B = n * d
  <2>1. \A y, z \in Nat \ {0} : y * z \in Nat \ {0}
    OBVIOUS
  <2> QED BY <1>1, <2>1
<1>7. a \in [1..A -> Int] /\ b \in [1..B -> Int] /\ c \in [1..B -> Int]
      /\ Heads(a, d) = q /\ Heads(b, d) = k /\ Heads(c, d) = v
  BY <1>4, <1>5, <1>6 DEF CutBack
<1>8. /\ a \in Seq(Int) /\ Len(a) = A /\ b \in Seq(Int) /\ Len(b) = B /\ c \in Seq(Int) /\ Len(c) = B
      /\ a # <<>> /\ b # <<>> /\ c # <<>>
  <2>1. /\ a \in Seq(Int) /\ Len(a) = A /\ b \in Seq(Int) /\ Len(b) = B /\ c \in Seq(Int) /\ Len(c) = B
    BY <1>7, ListFromFunction
  <2> QED BY <2>1, <1>6, EmptySeq
<1>9. /\ SubSeq((a \o b) \o c, 0 + 1, 0 + Len(a)) = a
      /\ SubSeq((a \o b) \o c, Len(a) + 1, Len(a) + Len(b)) = b
      /\ SubSeq((a \o b) \o c, (Len(a) + Len(b)) + 1, (Len(a) + Len(b)) + Len(c)) = c
  BY <1>8, ThreeParts
<1>10. qkv = (a \o b) \o c
  BY <1>5
<1> HIDE DEF qkv
<1>11. cut(0, A) = q /\ cut(A, B) = k /\ cut(A + B, B) = v
  BY <1>7, <1>8, <1>9, <1>10
<1> HIDE DEF cut
<1>12. Projected(SourceModel, l, x) = [q |-> q, k |-> k, v |-> v]
  BY <1>3, <1>6, <1>11
<1> QED BY <1>12 DEF ProjectedWhole, q, k, v

-----------------------------------------------------------------------------
\* A forward of the source over one prompt.

\* The rows of a prompt that is forwarded whole.
RowsWhole(p, slots) ==
  /\ DOMAIN Rows(p, slots, 0) = 1..Len(p)
  /\ \A i \in 1..Len(p) : /\ Rows(p, slots, 0)[i].tok = p[i] /\ Rows(p, slots, 0)[i].pos = i - 1
                          /\ Rows(p, slots, 0)[i].slot = slots[i]

LEMMA RowsOfPrompt == ASSUME NEW p, Len(p) \in Nat, NEW slots PROVE RowsWhole(p, slots)
<1>1. Len(p) - 0 = Len(p) /\ \A i \in 1..Len(p) : 0 + i = i /\ 0 + (i - 1) = i - 1
  OBVIOUS
<1>2. Rows(p, slots, 0) = [i \in 1..(Len(p) - 0) |->
                             [tok |-> p[0 + i], pos |-> 0 + (i - 1), slot |-> slots[0 + i]]]
  BY DEF Rows
<1> QED BY <1>1, <1>2 DEF RowsWhole

\* What a token has in layer l: its rotated queries and keys, and its values.
QueryHeads(p, l, t) ==
  [h \in 1..(SourceModel.kvHeads * SourceModel.groups) |->
     ApplyRope(Query(SourceModel, l, SourceX(p, l - 1)[t])[h], Rope(p, t))]

KeyHeads(p, l, t) == [h \in 1..SourceModel.kvHeads |-> ApplyRope(KeysIn(p, l)[t][h], Rope(p, t))]

StoredAt(p, l, t) == [k |-> KeyHeads(p, l, t), v |-> ValuesIn(p, l)[t]]

TokenIn(p, l, t) == [q |-> QueryHeads(p, l, t), k |-> KeyHeads(p, l, t), v |-> ValuesIn(p, l)[t]]

TokensIn(p, l) == [t \in 1..Len(p) |-> TokenIn(p, l, t)]

\* The projections of the rows, as Layer makes them.
ProjOf(p, l, slots) ==
  [i \in DOMAIN Rows(p, slots, 0) |->
     Embedded(SourceModel, Projected(SourceModel, l, SourceX(p, l - 1)[i]), Rows(p, slots, 0)[i].pos)]

LEMMA RowsProjected ==
  ASSUME NEW p \in Prompts, Len(p) \in Nat, NEW l \in 1..SourceModel.layers, NEW slots
  PROVE  ProjOf(p, l, slots) = TokensIn(p, l)
<1>1. RowsWhole(p, slots)
  BY RowsOfPrompt
<1>2. ASSUME NEW i \in 1..Len(p)
      PROVE  Embedded(SourceModel, Projected(SourceModel, l, SourceX(p, l - 1)[i]), i - 1) = TokenIn(p, l, i)
  <2> DEFINE x == SourceX(p, l - 1)[i]
             q == Query(SourceModel, l, x)
             k == KeyOf(SourceModel, l, x)
             v == ValueOf(SourceModel, l, x)
             projected == Projected(SourceModel, l, x)
             table == RopeTable(SourceModel, i - 1)
  <2>1. WellShaped(x, l)
    BY PromptsWellShaped
  <2>2. KeysIn(p, l)[i] = k /\ ValuesIn(p, l)[i] = v
    BY DEF KeysIn, ValuesIn
  <2>3. /\ QueryHeads(p, l, i) = [h \in 1..(SourceModel.kvHeads * SourceModel.groups) |-> ApplyRope(q[h], table)]
        /\ KeyHeads(p, l, i) = [h \in 1..SourceModel.kvHeads |-> ApplyRope(k[h], table)]
    BY <2>2 DEF QueryHeads, KeyHeads, Rope
  <2> HIDE DEF x, table
  <2>4. ProjectedWhole(l, x)
    BY <2>1, FusedProjects
  <2>5. projected = [q |-> q, k |-> k, v |-> v]
    BY <2>4 DEF ProjectedWhole
  <2>6. DOMAIN q = 1..(SourceModel.kvHeads * SourceModel.groups) /\ DOMAIN k = 1..SourceModel.kvHeads
    BY <2>1 DEF WellShaped
  <2> HIDE DEF q, k, v, projected
  <2>7. Embedded(SourceModel, projected, i - 1)
          = [q |-> [h \in DOMAIN q |-> ApplyRope(q[h], table)], k |-> [h \in DOMAIN k |-> ApplyRope(k[h], table)],
             v |-> v]
    <3>1. projected.q = q /\ projected.k = k /\ projected.v = v
      BY <2>5
    <3> QED BY <3>1, Zenon DEF Embedded, table
  <2>8. Embedded(SourceModel, projected, i - 1)
          = [q |-> QueryHeads(p, l, i), k |-> KeyHeads(p, l, i), v |-> ValuesIn(p, l)[i]]
    BY <2>2, <2>3, <2>6, <2>7
  <2>9. TokenIn(p, l, i) = [q |-> QueryHeads(p, l, i), k |-> KeyHeads(p, l, i), v |-> ValuesIn(p, l)[i]]
    BY DEF TokenIn
  <2>10. Embedded(SourceModel, projected, i - 1) = TokenIn(p, l, i)
    BY <2>8, <2>9
  <2> QED BY <2>10 DEF projected, x
<1> DEFINE rows == Rows(p, slots, 0)
           made(i, pos) == Embedded(SourceModel, Projected(SourceModel, l, SourceX(p, l - 1)[i]), pos)
<1>3. DOMAIN rows = 1..Len(p) /\ \A i \in 1..Len(p) : rows[i].pos = i - 1
  BY <1>1 DEF RowsWhole
<1>4. ProjOf(p, l, slots) = [i \in DOMAIN rows |-> made(i, rows[i].pos)]
  BY Zenon DEF ProjOf
<1> HIDE DEF rows
<1>5. \A i \in 1..Len(p) : made(i, i - 1) = TokenIn(p, l, i)
  BY <1>2
<1> HIDE DEF made
<1> QED BY <1>3, <1>4, <1>5 DEF TokensIn

\* What a row of such a batch attends to: the rows up to itself.
FirstRows(proj, j) == [c \in 1..j |-> proj[c]]

MetasOf(slots, n) == <<SeqMeta(slots, n)>>

LEMMA ContextIsPrefix ==
  ASSUME NEW n \in Nat \ {0, 1}, NEW slots, IsRow(slots, n), NEW proj, IsRow(proj, n),
         NEW triton, NEW read, NEW j \in 1..n
  PROVE  /\ ~BatchedDecode(MetasOf(slots, n), triton)
         /\ RowStart(MetasOf(slots, n), 1) = 0
         /\ RowContext(MetasOf(slots, n), triton, 1, j, proj, read) = FirstRows(proj, j)
<1> DEFINE metas == MetasOf(slots, n)
<1>1. DOMAIN metas = {1} /\ metas[1].slots = slots /\ metas[1].q = n
  BY DEF MetasOf, SeqMeta
<1> HIDE DEF metas
<1>2. ~BatchedDecode(metas, triton)
  BY <1>1 DEF BatchedDecode
<1>3. RowStart(metas, 1) = 0
  BY RowStartNext
<1>4. Len(slots) = n
  BY RowLength
<1>5. Gathered(metas, 1, proj, read) = SubSeq(proj, 0 + 1, 0 + n)
  BY <1>1, <1>3, <1>4, Zenon DEF Gathered
<1> DEFINE S == {proj[c] : c \in 1..n}
           keys == SubSeq(proj, 0 + 1, 0 + n)
           seen == SubSeq(keys, 1, (Len(keys) - n) + j)
<1>6. /\ keys \in Seq(S) /\ Len(keys) = n
      /\ \A c \in 1..n : keys[c] = proj[c]
  <2>1. 0 + 1 = 1 /\ 0 + n = n /\ 1 \in Int /\ n \in Int /\ 1 <= n /\ (n - 1) + 1 = n
        /\ \A c \in 1..n : (1 + c) - 1 = c
    OBVIOUS
  <2>2. \A c \in 1..n : proj[c] \in S
    OBVIOUS
  <2> HIDE DEF S
  <2>3. SubSeq(proj, 1, n) \in Seq(S) /\ Len(SubSeq(proj, 1, n)) = (n - 1) + 1
        /\ \A c \in 1..((n - 1) + 1) : SubSeq(proj, 1, n)[c] = proj[(1 + c) - 1]
    BY <2>1, <2>2, SubSeqProperties
  <2> QED BY <2>1, <2>3
<1> HIDE DEF keys, S
<1>7. (Len(keys) - n) + j = j
  BY <1>6
<1>8. /\ SubSeq(keys, 1, j) = [c \in 1..j |-> SubSeq(keys, 1, j)[c]]
      /\ \A c \in 1..j : SubSeq(keys, 1, j)[c] = keys[c]
  <2>1. 1 \in Int /\ j \in Int /\ 1 <= j /\ (j - 1) + 1 = j /\ \A c \in 1..j : (1 + c) - 1 = c /\ c \in 1..n
    OBVIOUS
  <2>2. \A c \in 1..j : keys[c] \in S
    BY <1>6, <2>1, LenProperties
  <2>3. SubSeq(keys, 1, j) \in Seq(S) /\ Len(SubSeq(keys, 1, j)) = (j - 1) + 1
        /\ \A c \in 1..((j - 1) + 1) : SubSeq(keys, 1, j)[c] = keys[(1 + c) - 1]
    BY <2>1, <2>2, SubSeqProperties
  <2>4. SubSeq(keys, 1, j) \in [1..j -> S]
    BY <2>1, <2>3, LenProperties
  <2> QED BY <2>1, <2>3, <2>4
<1>9. seen = FirstRows(proj, j)
  <2>1. \A c \in 1..j : c \in 1..n
    OBVIOUS
  <2> QED BY <1>6, <1>7, <1>8, <2>1 DEF FirstRows
<1>10. RowContext(metas, triton, 1, j, proj, read) = seen
  <2>1. RowContext(metas, triton, 1, j, proj, read)
          = CausalLowerRight(metas[1], j, Gathered(metas, 1, proj, read))
    BY <1>2, Zenon DEF RowContext
  <2> QED BY <1>1, <1>5, <2>1, Zenon DEF CausalLowerRight, keys
<1> HIDE DEF seen
<1> QED BY <1>2, <1>3, <1>9, <1>10 DEF metas

\* The heads of the token at j attend as the reference says.
LEMMA AttendsAsReference ==
  ASSUME NEW p \in Prompts, NEW l \in 1..SourceModel.layers, Len(p) \in Nat, NEW j \in 1..Len(p),
         NEW batched, ~batched
  PROVE  Attend(SourceModel, TokensIn(p, l)[j].q, FirstRows(TokensIn(p, l), j), batched) = AttendedIn(p, l, j)
<1> DEFINE q == Query(SourceModel, l, SourceX(p, l - 1)[j])
           n == SourceModel.kvHeads
           g == SourceModel.groups
           context == FirstRows(TokensIn(p, l), j)
           kv(h) == (h - 1) \div g + 1
<1>1. /\ DOMAIN context = 1..j /\ TokensIn(p, l)[j].q = QueryHeads(p, l, j)
      /\ \A c \in 1..j : context[c].k = KeyHeads(p, l, c) /\ context[c].v = ValuesIn(p, l)[c]
  BY DEF FirstRows, TokensIn, TokenIn
<1>2. n \in Nat \ {0} /\ g \in Nat \ {0}
  BY WeightsAssumption
<1>3. DOMAIN q = 1..(n * g)
  <2>1. WellShaped(SourceX(p, l - 1)[j], l)
    BY PromptsWellShaped
  <2> QED BY <2>1 DEF WellShaped
<1>4. ASSUME NEW h \in 1..(n * g) PROVE kv(h) \in 1..n
  <2>1. PICK m \in Nat : m = n * g
    BY <1>2
  <2>2. h - 1 \in Nat /\ h - 1 < n * g
    BY <2>1
  <2>3. (h - 1) \div g \in 0..(n - 1)
    BY <1>2, <2>2, DivBelow
  <2> QED BY <1>2, <2>3
<1> HIDE DEF q, n, g, context, kv
<1>5. QueryHeads(p, l, j) = [h \in 1..(n * g) |-> ApplyRope(q[h], Rope(p, j))]
  BY DEF QueryHeads, q, n, g
<1>6. ASSUME NEW h \in 1..(n * g)
      PROVE  /\ [c \in DOMAIN context |-> context[c].k[kv(h)]]
                  = [u \in 1..j |-> ApplyRope(KeysIn(p, l)[u][kv(h)], Rope(p, u))]
             /\ [c \in DOMAIN context |-> context[c].v[kv(h)]] = [u \in 1..j |-> ValuesIn(p, l)[u][kv(h)]]
  <2>1. kv(h) \in 1..n
    BY <1>4
  <2>2. \A u \in 1..j : KeyHeads(p, l, u)[kv(h)] = ApplyRope(KeysIn(p, l)[u][kv(h)], Rope(p, u))
    BY <2>1 DEF KeyHeads, n
  <2> QED BY <1>1, <2>2
<1> DEFINE key(c, h) == context[c].k[kv(h)]
           value(c, h) == context[c].v[kv(h)]
<1>7. Attend(SourceModel, QueryHeads(p, l, j), context, batched)
        = [h \in 1..(n * g) |-> Sdpa(ApplyRope(q[h], Rope(p, j)), [c \in DOMAIN context |-> context[c].k[kv(h)]],
                                     [c \in DOMAIN context |-> context[c].v[kv(h)]])]
  <2>1. DOMAIN QueryHeads(p, l, j) = 1..(n * g)
    BY <1>5
  <2>2. Attend(SourceModel, QueryHeads(p, l, j), context, batched)
          = [h \in DOMAIN QueryHeads(p, l, j) |->
               IF batched
               THEN PagedDecode(QueryHeads(p, l, j)[h], [c \in DOMAIN context |-> context[c].k[kv(h)]],
                                [c \in DOMAIN context |-> context[c].v[kv(h)]])
               ELSE Sdpa(QueryHeads(p, l, j)[h], [c \in DOMAIN context |-> context[c].k[kv(h)]],
                         [c \in DOMAIN context |-> context[c].v[kv(h)]])]
    BY Zenon DEF Attend, kv, g
  <2>3. \A h \in 1..(n * g) : QueryHeads(p, l, j)[h] = ApplyRope(q[h], Rope(p, j))
    BY <1>5
  <2> QED BY <2>1, <2>2, <2>3
<1>8. AttendedIn(p, l, j)
        = [h \in 1..(n * g) |-> Sdpa(ApplyRope(q[h], Rope(p, j)),
                                     [u \in 1..j |-> ApplyRope(KeysIn(p, l)[u][kv(h)], Rope(p, u))],
                                     [u \in 1..j |-> ValuesIn(p, l)[u][kv(h)]])]
  BY <1>3, Zenon DEF AttendedIn, q, kv, g
<1>9. Attend(SourceModel, QueryHeads(p, l, j), context, batched) = AttendedIn(p, l, j)
  BY <1>6, <1>7, <1>8
<1> QED BY <1>1, <1>9 DEF context

\* One layer of the source over a prompt: the hidden states of the reference, and a
\* cache with the tokens written.
LayerOf(p, l, slots, cache) ==
  Layer(SourceModel, l, SourceX(p, l - 1), Rows(p, slots, 0), MetasOf(slots, Len(p)), cache)

LEMMA LayerIsReference ==
  ASSUME NEW p \in Prompts, Len(p) \in Nat \ {0, 1}, NEW l \in 1..SourceModel.layers,
         NEW slots, IsRow(slots, Len(p)), NEW cache
  PROVE  /\ LayerOf(p, l, slots, cache).x = SourceX(p, l)
         /\ LayerOf(p, l, slots, cache).cache = WriteLayer(cache, l, Rows(p, slots, 0), TokensIn(p, l))
<1> DEFINE n == Len(p)
           rows == Rows(p, slots, 0)
           metas == MetasOf(slots, n)
           proj == TokensIn(p, l)
           written == WriteLayer(cache, l, rows, proj)
           read == [s \in DOMAIN written \cup {ZeroSlot} |-> written[IF s = ZeroSlot THEN FirstSlot ELSE s][l]]
           row(i, j) == Attend(SourceModel, proj[RowStart(metas, i) + j].q,
                               RowContext(metas, SourceModel.triton, i, j, proj, read),
                               BatchedDecode(metas, SourceModel.triton))
           attended == [j \in 1..n |-> AttendedIn(p, l, j)]
           out == AttentionRows(SourceModel, l, metas, proj, written)
<1>1. ProjOf(p, l, slots) = proj
  BY RowsProjected
<1>2. DOMAIN rows = 1..n
  BY RowsOfPrompt DEF RowsWhole
<1>3. IsRow(proj, n)
  BY DEF TokensIn, IsRow
<1>n. n \in Nat \ {0, 1} /\ IsRow(slots, n)
  OBVIOUS
<1> HIDE DEF proj, rows, n
<1>4. LayerOf(p, l, slots, cache)
        = [x |-> [i \in DOMAIN rows |-> Mix(SourceModel, l, SourceX(p, l - 1)[i], out[i])], cache |-> written]
  <2>1. ProjOf(p, l, slots)
          = [i \in DOMAIN rows |-> Embedded(SourceModel, Projected(SourceModel, l, SourceX(p, l - 1)[i]), rows[i].pos)]
    BY Zenon DEF ProjOf, rows
  <2> QED BY <1>1, <2>1, Zenon DEF LayerOf, Layer, rows, n
<1> HIDE DEF written
<1>5. out = FlattenSeq([i \in DOMAIN metas |-> [j \in 1..metas[i].q |-> row(i, j)]])
  BY Zenon DEF AttentionRows
<1>6. DOMAIN metas = {1} /\ metas[1].q = n
  BY DEF MetasOf, SeqMeta
<1> HIDE DEF read, metas
<1>7. ASSUME NEW j \in 1..n PROVE row(1, j) = AttendedIn(p, l, j)
  <2>1. /\ ~BatchedDecode(metas, SourceModel.triton) /\ RowStart(metas, 1) = 0
        /\ RowContext(metas, SourceModel.triton, 1, j, proj, read) = FirstRows(proj, j)
    BY <1>n, <1>3, ContextIsPrefix DEF metas
  <2>2. RowStart(metas, 1) + j = j
    BY <1>n, <2>1
  <2>3. Attend(SourceModel, proj[j].q, FirstRows(proj, j), BatchedDecode(metas, SourceModel.triton))
          = AttendedIn(p, l, j)
    BY <2>1, AttendsAsReference DEF n, proj
  <2> QED BY <2>1, <2>2, <2>3
<1>8. [i \in DOMAIN metas |-> [j \in 1..metas[i].q |-> row(i, j)]] = <<attended>>
  <2>1. [j \in 1..metas[1].q |-> row(1, j)] = attended
    <3> HIDE DEF row
    <3> QED BY <1>6, <1>7
  <2> HIDE DEF row, attended
  <2>2. [i \in {1} |-> [j \in 1..metas[i].q |-> row(i, j)]] = [i \in {1} |-> attended]
    BY <2>1
  <2>3. [i \in {1} |-> attended] = <<attended>>
    <3>1. DOMAIN <<attended>> = {1} /\ <<attended>>[1] = attended /\ <<attended>> = [i \in 1..1 |-> <<attended>>[i]]
      OBVIOUS
    <3> QED BY <3>1
  <2> QED BY <1>6, <2>2, <2>3
<1> HIDE DEF row
<1>9. out = attended
  <2> HIDE DEF out, attended
  <2> QED BY <1>5, <1>8, FlattenOne
<1>10. SourceX(p, l) = [t \in 1..n |-> Mix(SourceModel, l, SourceX(p, l - 1)[t], AttendedIn(p, l, t))]
  BY RunLayer DEF n
<1>11. [i \in DOMAIN rows |-> Mix(SourceModel, l, SourceX(p, l - 1)[i], out[i])] = SourceX(p, l)
  <2> HIDE DEF out
  <2> QED BY <1>2, <1>9, <1>10
<1> HIDE DEF out, attended
<1> QED BY <1>4, <1>11 DEF written, rows, proj

-----------------------------------------------------------------------------
\* The cache tensors.

\* Every slot of the pool has its layers.
CacheShape(cache) ==
  /\ DOMAIN cache = Blocks \X (0..(BlockSize - 1))
  /\ \A s \in DOMAIN cache : IsRow(cache[s], SourceModel.layers)

\* A write of any layer leaves that as it is, whatever the rows.
LEMMA WriteKeepsShape ==
  ASSUME NEW cache, CacheShape(cache), NEW l, NEW rows, NEW proj
  PROVE  CacheShape(WriteLayer(cache, l, rows, proj))
<1> DEFINE hits(s) == {i \in DOMAIN rows : rows[i].slot = s}
           new(s) == LET p == proj[CHOOSE i \in hits(s) : TRUE]
                     IN  [cache[s] EXCEPT ![l] = [k |-> p.k, v |-> p.v]]
           N == SourceModel.layers
<1>1. WriteLayer(cache, l, rows, proj) = [s \in DOMAIN cache |-> IF hits(s) = {} THEN cache[s] ELSE new(s)]
  BY Zenon DEF WriteLayer
<1>2. ASSUME NEW s \in DOMAIN cache PROVE IsRow(new(s), N)
  <2>1. cache[s] = [i \in 1..N |-> cache[s][i]]
    BY DEF CacheShape, IsRow
  <2> QED BY <2>1 DEF IsRow
<1> HIDE DEF hits, new
<1> QED BY <1>1, <1>2 DEF CacheShape

\* Every row finds what it wrote in its slot, and the other layers as they were.
LEMMA WriteReachesSlots ==
  ASSUME NEW cache, CacheShape(cache), NEW p \in Prompts, Len(p) \in Nat, NEW l \in 1..SourceModel.layers,
         NEW slots, \A t \in 1..Len(p) : slots[t] \in DOMAIN cache,
         \A t, u \in 1..Len(p) : slots[t] = slots[u] => t = u,
         NEW t \in 1..Len(p)
  PROVE  /\ WriteLayer(cache, l, Rows(p, slots, 0), TokensIn(p, l))[slots[t]][l] = StoredAt(p, l, t)
         /\ \A m \in 1..SourceModel.layers :
              m # l => WriteLayer(cache, l, Rows(p, slots, 0), TokensIn(p, l))[slots[t]][m] = cache[slots[t]][m]
<1> DEFINE rows == Rows(p, slots, 0)
           proj == TokensIn(p, l)
           s == slots[t]
           hits == {i \in DOMAIN rows : rows[i].slot = s}
           row == proj[CHOOSE i \in hits : TRUE]
           N == SourceModel.layers
<1>1. DOMAIN rows = 1..Len(p) /\ \A i \in 1..Len(p) : rows[i].slot = slots[i]
  <2>1. RowsWhole(p, slots)
    BY RowsOfPrompt
  <2> QED BY <2>1 DEF RowsWhole
<1>2. hits = {t}
  <2> HIDE DEF rows
  <2> QED BY <1>1
<1>3. row = TokenIn(p, l, t)
  <2>1. (CHOOSE i \in hits : TRUE) = t
    <3> HIDE DEF hits
    <3> QED BY <1>2
  <2> HIDE DEF hits
  <2> QED BY <2>1 DEF TokensIn
<1>4. [k |-> row.k, v |-> row.v] = StoredAt(p, l, t)
  <2> HIDE DEF row
  <2> QED BY <1>3 DEF TokenIn, StoredAt
<1>5. s \in DOMAIN cache /\ cache[s] = [i \in 1..N |-> cache[s][i]]
  BY DEF CacheShape, IsRow
<1>6. WriteLayer(cache, l, rows, proj)[s]
        = IF hits = {} THEN cache[s] ELSE [cache[s] EXCEPT ![l] = [k |-> row.k, v |-> row.v]]
  <2> HIDE DEF rows, proj
  <2> QED BY <1>5 DEF WriteLayer
<1> HIDE DEF row, hits, s
<1>7. WriteLayer(cache, l, rows, proj)[s] = [cache[s] EXCEPT ![l] = StoredAt(p, l, t)]
  BY <1>2, <1>4, <1>6
<1> HIDE DEF rows, proj
<1>8. /\ WriteLayer(cache, l, rows, proj)[s][l] = StoredAt(p, l, t)
      /\ \A m \in 1..N : m # l => WriteLayer(cache, l, rows, proj)[s][m] = cache[s][m]
  BY <1>5, <1>7
<1> QED BY <1>8 DEF rows, proj, s

-----------------------------------------------------------------------------
\* What map returns.

\* Layer maps that can be applied, with the residuals read for them.
AllReady(maps, residuals) ==
  /\ DOMAIN maps = 1..Target.layers
  /\ \A l \in 1..Target.layers : Ready(maps[l], IF pair.residual /\ pair.useResidual THEN residuals[l] ELSE <<>>)

SameHeads ==
  /\ Shaped(Target) /\ Shaped(SourceModel)
  /\ SourceModel.kvHeads = Target.kvHeads /\ SourceModel.headDim = Target.headDim

LEMMA MapsReady ==
  ASSUME pair \in Pairs, kvMap = Loaded(pair.files, pair.residual), Accepts(kvMap, SourceModel, Target),
         ~LoadRaises(pair.files, pair.variant, pair.residual), NEW tokens, ~MapRaises(kvMap, tokens, pair.useResidual)
  PROVE  SameHeads /\ AllReady(kvMap.keys, pair.files.keyResiduals) /\ AllReady(kvMap.values, pair.files.valueResiduals)
<1> DEFINE f == pair.files
           with == pair.residual
<1>1. Sized(Target) /\ OuterFits(kvMap.keys, Target) /\ OuterFits(kvMap.values, Target)
  BY AcceptedFits
<1>2. SameHeads
  <2>1. Shaped(Target)
    BY <1>1 DEF Sized, Shaped
  <2>2. Shaped(SourceModel)
    BY WeightsAssumption DEF Shaped
  <2>3. SourceModel.kvHeads = Target.kvHeads /\ SourceModel.headDim = Target.headDim
    BY DEF Accepts
  <2> QED BY <2>1, <2>2, <2>3 DEF SameHeads
<1>3. /\ f.keys \in Seq(LayerMaps) /\ f.values \in Seq(LayerMaps) /\ with \in BOOLEAN /\ pair.useResidual \in BOOLEAN
      /\ f.keyResiduals \in Seq(Residuals) /\ f.valueResiduals \in Seq(Residuals)
  BY PairsAssumption
<1>4. /\ kvMap.keys = IF with THEN WithResiduals(f.keys, f.keyResiduals) ELSE f.keys
      /\ kvMap.values = IF with THEN WithResiduals(f.values, f.valueResiduals) ELSE f.values
  <2>1. CASE with
    BY <2>1 DEF Loaded
  <2>2. CASE ~with
    BY <2>2 DEF Loaded
  <2> QED BY <2>1, <2>2
<1>5. with => Len(f.keys) <= Len(f.keyResiduals) /\ Len(f.values) <= Len(f.valueResiduals)
  <2>1. \A list : \A S : list \in Seq(S) => Len(list) \in Nat
    BY LenProperties
  <2>2. Len(f.keys) \in Nat /\ Len(f.keyResiduals) \in Nat /\ Len(f.values) \in Nat /\ Len(f.valueResiduals) \in Nat
    BY <1>3, <2>1
  <2>3. with => ~(Len(f.keyResiduals) < Len(f.keys)) /\ ~(Len(f.valueResiduals) < Len(f.values))
    BY Zenon DEF LoadRaises
  <2> HIDE DEF f, with
  <2> QED BY <2>2, <2>3
<1>6. /\ Len(kvMap.keys) = Target.layers /\ Len(kvMap.values) = Target.layers
      /\ \A l \in DOMAIN kvMap.keys : SourceLayersExist(kvMap.keys[l], SourceModel) /\ ShapeFits(kvMap.keys[l], Target)
      /\ \A l \in DOMAIN kvMap.values :
           SourceLayersExist(kvMap.values[l], SourceModel) /\ ShapeFits(kvMap.values[l], Target)
  BY DEF Accepts
<1>7. /\ \A l \in DOMAIN kvMap.keys : InnerFits(kvMap.keys[l], pair.useResidual)
      /\ \A l \in DOMAIN kvMap.values : InnerFits(kvMap.values[l], pair.useResidual)
  BY DEF MapRaises
<1> HIDE DEF f, with
<1>8. Shaped(Target)
  BY <1>2 DEF SameHeads
<1>9. \A l \in 1..Target.layers : Ready(kvMap.keys[l], IF with /\ pair.useResidual THEN f.keyResiduals[l] ELSE <<>>)
  BY <1>3, <1>4, <1>5, <1>6, <1>7, <1>8, AppliedMapsReady
<1>10. \A l \in 1..Target.layers : Ready(kvMap.values[l], IF with /\ pair.useResidual THEN f.valueResiduals[l] ELSE <<>>)
  BY <1>3, <1>4, <1>5, <1>6, <1>7, <1>8, AppliedMapsReady
<1>11. DOMAIN kvMap.keys = 1..Target.layers /\ DOMAIN kvMap.values = 1..Target.layers
  BY <1>1 DEF OuterFits
<1> QED BY <1>2, <1>9, <1>10, <1>11 DEF AllReady, f, with

\* Applied to KV that holds the content, such maps give the reference's rows.
RowFor(maps, residuals, content, l, t) ==
  ReferenceRow(maps[l], IF pair.residual /\ pair.useResidual THEN residuals[l] ELSE <<>>, SourceModel, content, t)

AppliedAs(kv, maps, residuals, content, n) ==
  Applied(kv, maps, Target, pair.useResidual)
    = [l \in 1..Target.layers |-> [t \in 1..n |-> RowFor(maps, residuals, content, l, t)]]

LEMMA AppliedIsReference ==
  ASSUME SameHeads, pair \in Pairs, NEW maps, NEW residuals, AllReady(maps, residuals), NEW n, NEW kv, NEW content,
         DOMAIN kv[1] = 1..n, \A t \in 1..n : SameTokenKV(SourceModel, SourceModel.layers, kv, content, t)
  PROVE  AppliedAs(kv, maps, residuals, content, n)
<1>1. Applied(kv, maps, Target, pair.useResidual)
        = [l \in 1..Target.layers |-> [t \in 1..n |->
             Heads(Mapped(maps[l], DesignRow(kv, maps[l], t), pair.useResidual), Target.headDim)]]
  BY DEF Applied, AllReady
<1>2. ASSUME NEW l \in 1..Target.layers, NEW t \in 1..n
      PROVE  Heads(Mapped(maps[l], DesignRow(kv, maps[l], t), pair.useResidual), Target.headDim)
               = RowFor(maps, residuals, content, l, t)
  <2>0. PICK m, residual : m = maps[l] /\ residual = IF pair.residual /\ pair.useResidual THEN residuals[l] ELSE <<>>
    OBVIOUS
  <2>1. Ready(m, residual) /\ RowFor(maps, residuals, content, l, t) = ReferenceRow(m, residual, SourceModel, content, t)
    BY <2>0, Zenon DEF AllReady, RowFor
  <2>2. /\ SameTokenKV(SourceModel, SourceModel.layers, kv, content, t)
        /\ Shaped(Target) /\ Shaped(SourceModel)
        /\ SourceModel.kvHeads = Target.kvHeads /\ SourceModel.headDim = Target.headDim
    BY DEF SameHeads
  <2>3. SourceModel.layers \in Nat /\ pair.useResidual \in BOOLEAN
    BY PairsAssumption
  <2>4. Heads(Mapped(m, DesignRow(kv, m, t), pair.useResidual), Target.headDim) = ReferenceRow(m, residual, SourceModel, content, t)
    BY <2>1, <2>2, <2>3, RowIsReference
  <2> QED BY <2>0, <2>1, <2>4, Zenon
<1> QED BY <1>1, <1>2 DEF AppliedAs

\* The KV of layer l of the call's prompt is in the source's cache.
PromptSlots == ContextSlots(blockIds[sid], Len(prompt))

HeldIn(l) == \A t \in 1..Len(prompt) : skv[PromptSlots[t]][l] = StoredAt(prompt, l, t)

\* What is exported of it, with the keys stripped of their rotation, is the content.
TransferSlots == ContextSlots(blockIds[sid], Len(prompt) - 1)

KeysOut == Stripped(Exported(skv, TransferSlots, SourceModel, "k"), SourceModel)

ValuesOut == Exported(skv, TransferSlots, SourceModel, "v")

ContentOf(p) == RunOf(p)[SourceModel.layers]

LEMMA ExportIsContent ==
  ASSUME prompt \in Prompts, \A l \in 1..SourceModel.layers : HeldIn(l)
  PROVE  /\ DOMAIN KeysOut[1] = 1..(Len(prompt) - 1) /\ DOMAIN ValuesOut[1] = 1..(Len(prompt) - 1)
         /\ \A t \in 1..(Len(prompt) - 1) :
              /\ SameTokenKV(SourceModel, SourceModel.layers, KeysOut, ContentOf(prompt).content, t)
              /\ SameTokenKV(SourceModel, SourceModel.layers, ValuesOut, ContentOf(prompt).values, t)
<1> DEFINE n == Len(prompt) - 1
           N == SourceModel.layers
           d == SourceModel.headDim
           slots == TransferSlots
           k == Exported(skv, slots, SourceModel, "k")
           table(t) == RopeTable(SourceModel, t - 1)
<1>1. Len(prompt) \in Nat /\ \A t \in 1..n : t \in 1..Len(prompt) /\ t - 1 \in Nat
  <2>1. prompt \in Seq(Nat)
    BY EscalationAssumption
  <2>2. Len(prompt) \in Nat
    BY <2>1, LenProperties
  <2> QED BY <2>2
<1>2. 1 \in 1..N
  BY PairsAssumption
<1>3. DOMAIN slots = 1..n /\ \A t \in 1..n : slots[t] = PromptSlots[t]
  BY <1>1 DEF TransferSlots, PromptSlots, ContextSlots
<1> HIDE DEF slots, N, n
<1>4. ASSUME NEW l \in 1..N, NEW t \in 1..n
      PROVE  skv[slots[t]][l].k = KeyHeads(prompt, l, t) /\ skv[slots[t]][l].v = ValuesIn(prompt, l)[t]
  <2>1. skv[slots[t]][l] = StoredAt(prompt, l, t)
    BY <1>1, <1>3 DEF HeldIn, N
  <2> QED BY <2>1 DEF StoredAt
<1>5. ValuesOut = [l \in 1..N |-> [t \in 1..n |-> ValuesIn(prompt, l)[t]]]
  <2>1. ValuesOut = [l \in 1..N |-> [t \in DOMAIN slots |-> skv[slots[t]][l].v]]
    BY DEF ValuesOut, Exported, slots, N
  <2> QED BY <1>3, <1>4, <2>1
<1>6. k = [l \in 1..N |-> [t \in 1..n |-> KeyHeads(prompt, l, t)]]
  <2>1. k = [l \in 1..N |-> [t \in DOMAIN slots |-> skv[slots[t]][l].k]]
    BY DEF Exported, N
  <2> HIDE DEF k
  <2> QED BY <1>3, <1>4, <2>1
<1>7. ASSUME NEW l \in 1..N, NEW t \in 1..n
      PROVE  /\ KeysIn(prompt, l)[t] \in HeadsOf(SourceModel) /\ ValuesIn(prompt, l)[t] \in HeadsOf(SourceModel)
             /\ [h \in DOMAIN KeyHeads(prompt, l, t) |-> StripRope(KeyHeads(prompt, l, t)[h], table(t))]
                  = KeysIn(prompt, l)[t]
  <2> DEFINE key == KeysIn(prompt, l)[t]
             value == ValuesIn(prompt, l)[t]
             hs == SourceModel.kvHeads
  <2>1. t \in 1..Len(prompt) /\ t - 1 \in Nat /\ l \in 1..SourceModel.layers
    BY <1>1 DEF N
  <2>2. WellShaped(SourceX(prompt, l - 1)[t], l)
    BY <2>1, PromptsWellShaped
  <2>3. /\ key = KeyOf(SourceModel, l, SourceX(prompt, l - 1)[t])
        /\ value = ValueOf(SourceModel, l, SourceX(prompt, l - 1)[t])
    BY <2>1 DEF KeysIn, ValuesIn
  <2> HIDE DEF key, value, hs
  <2>4. key \in [1..hs -> [1..d -> Int]] /\ value \in [1..hs -> [1..d -> Int]]
    BY <2>2, <2>3 DEF WellShaped, HeadOf, hs
  <2>5. ASSUME NEW h \in 1..hs PROVE StripRope(ApplyRope(key[h], table(t)), table(t)) = key[h]
    <3>1. d \in Nat \ {0} /\ d % 2 = 0 /\ SourceModel.theta \in Nat
      BY WeightsAssumption
    <3> HIDE DEF d
    <3>2. Turn(table(t))
      BY <2>1, <3>1, RopeTurns
    <3> HIDE DEF table
    <3>3. key[h] \in [1..d -> Int]
      BY <2>4
    <3> QED BY <3>1, <3>2, <3>3, RotationUndone
  <2>6. KeyHeads(prompt, l, t) = [h \in 1..hs |-> ApplyRope(key[h], table(t))]
    BY DEF KeyHeads, key, hs, Rope
  <2> HIDE DEF table
  <2>7. [h \in DOMAIN KeyHeads(prompt, l, t) |-> StripRope(KeyHeads(prompt, l, t)[h], table(t))] = [h \in 1..hs |-> key[h]]
    BY <2>5, <2>6
  <2>8. [h \in 1..hs |-> key[h]] = key
    BY <2>4
  <2>9. key \in HeadsOf(SourceModel) /\ value \in HeadsOf(SourceModel)
    BY <2>4 DEF HeadsOf, hs
  <2> QED BY <2>7, <2>8, <2>9 DEF key, value
<1>8. KeysOut = [l \in 1..N |-> [t \in 1..n |-> KeysIn(prompt, l)[t]]]
  <2>1. KeysOut = [l \in DOMAIN k |-> [t \in DOMAIN k[l] |-> [h \in DOMAIN k[l][t] |-> StripRope(k[l][t][h], table(t))]]]
    BY Zenon DEF KeysOut, Stripped, slots
  <2> HIDE DEF k, table
  <2>2. KeysOut = [l \in 1..N |-> [t \in 1..n |->
                     [h \in DOMAIN KeyHeads(prompt, l, t) |-> StripRope(KeyHeads(prompt, l, t)[h], table(t))]]]
    BY <1>6, <2>1
  <2> QED BY <1>7, <2>2 DEF table
<1>9. \A l \in 1..N : ContentOf(prompt).content[l] = KeysIn(prompt, l) /\ ContentOf(prompt).values[l] = ValuesIn(prompt, l)
  BY <1>1, RunContent DEF ContentOf, N
<1>10. ASSUME NEW t \in 1..n
       PROVE  /\ SameTokenKV(SourceModel, N, KeysOut, ContentOf(prompt).content, t)
              /\ SameTokenKV(SourceModel, N, ValuesOut, ContentOf(prompt).values, t)
  <2>1. ASSUME NEW l \in 1..N
        PROVE  /\ KeysOut[l][t] \in HeadsOf(SourceModel) /\ KeysOut[l][t] = ContentOf(prompt).content[l][t]
               /\ ValuesOut[l][t] \in HeadsOf(SourceModel) /\ ValuesOut[l][t] = ContentOf(prompt).values[l][t]
    BY <1>5, <1>7, <1>8, <1>9
  <2> QED BY <2>1 DEF SameTokenKV
<1>11. DOMAIN KeysOut[1] = 1..n /\ DOMAIN ValuesOut[1] = 1..n
  BY <1>2, <1>5, <1>8
<1> QED BY <1>10, <1>11 DEF n, N

\* So the target gets the map of the prompt's own content.
LEMMA MapIsReference ==
  ASSUME prompt \in Prompts, pair \in Pairs, kvMap = Loaded(pair.files, pair.residual),
         Accepts(kvMap, SourceModel, Target), ~LoadRaises(pair.files, pair.variant, pair.residual),
         ~MapRaises(kvMap, Len(prompt) - 1, pair.useResidual), \A l \in 1..SourceModel.layers : HeldIn(l)
  PROVE  MapPrefix = ReferenceKV(kvMap)[prompt]
<1> DEFINE n == Len(prompt) - 1
           N == Target.layers
           keys(l, t) == RowFor(kvMap.keys, pair.files.keyResiduals, ContentOf(prompt).content, l, t)
           values(l, t) == RowFor(kvMap.values, pair.files.valueResiduals, ContentOf(prompt).values, l, t)
           table(t) == RopeTable(Target, t - 1)
<1>1. SameHeads /\ AllReady(kvMap.keys, pair.files.keyResiduals) /\ AllReady(kvMap.values, pair.files.valueResiduals)
  BY MapsReady
<1>2. /\ DOMAIN KeysOut[1] = 1..n /\ DOMAIN ValuesOut[1] = 1..n
      /\ \A t \in 1..n : SameTokenKV(SourceModel, SourceModel.layers, KeysOut, ContentOf(prompt).content, t)
      /\ \A t \in 1..n : SameTokenKV(SourceModel, SourceModel.layers, ValuesOut, ContentOf(prompt).values, t)
  BY ExportIsContent
<1> HIDE DEF n
<1>3. Applied(KeysOut, kvMap.keys, Target, pair.useResidual) = [l \in 1..N |-> [t \in 1..n |-> keys(l, t)]]
  <2>1. AppliedAs(KeysOut, kvMap.keys, pair.files.keyResiduals, ContentOf(prompt).content, n)
    BY <1>1, <1>2, AppliedIsReference
  <2> QED BY <2>1 DEF AppliedAs
<1>4. Applied(ValuesOut, kvMap.values, Target, pair.useResidual) = [l \in 1..N |-> [t \in 1..n |-> values(l, t)]]
  <2>1. AppliedAs(ValuesOut, kvMap.values, pair.files.valueResiduals, ContentOf(prompt).values, n)
    BY <1>1, <1>2, AppliedIsReference
  <2> QED BY <2>1 DEF AppliedAs
<1>5. MapPrefix = [k |-> Restored(Applied(KeysOut, kvMap.keys, Target, pair.useResidual), Target),
                   v |-> Applied(ValuesOut, kvMap.values, Target, pair.useResidual)]
  BY Zenon DEF MapPrefix, MapKV, KeysOut, ValuesOut, TransferSlots
<1>6. \A l, t : DOMAIN keys(l, t) = 1..Target.kvHeads
  BY <1>1 DEF RowFor, ReferenceRow, SameHeads
<1>7. ReferenceKV(kvMap)[prompt]
        = [k |-> [l \in 1..N |-> [t \in 1..n |-> [h \in 1..Target.kvHeads |-> ApplyRope(keys(l, t)[h], table(t))]]],
           v |-> [l \in 1..N |-> [t \in 1..n |-> values(l, t)]]]
  <2>1. SourceRun[prompt] = ContentOf(prompt)
    BY DEF SourceRun, Dense, ContentOf, RunOf
  <2>2. ReferenceKV(kvMap)[prompt]
          = [k |-> [l \in 1..N |-> [t \in 1..n |-> [h \in 1..Target.kvHeads |->
                      ApplyRope(RowFor(kvMap.keys, pair.files.keyResiduals, SourceRun[prompt].content, l, t)[h], table(t))]]],
             v |-> [l \in 1..N |-> [t \in 1..n |->
                      RowFor(kvMap.values, pair.files.valueResiduals, SourceRun[prompt].values, l, t)]]]
    BY DEF ReferenceKV, RowFor, n
  <2> QED BY <2>1, <2>2, Zenon
<1> HIDE DEF keys, values, table
<1>8. Restored([l \in 1..N |-> [t \in 1..n |-> keys(l, t)]], Target)
        = [l \in 1..N |-> [t \in 1..n |-> [h \in 1..Target.kvHeads |-> ApplyRope(keys(l, t)[h], table(t))]]]
  <2> DEFINE f == [l \in 1..N |-> [t \in 1..n |-> keys(l, t)]]
  <2>1. /\ DOMAIN f = 1..N /\ \A l \in 1..N : DOMAIN f[l] = 1..n
        /\ \A l \in 1..N, t \in 1..n : f[l][t] = keys(l, t)
    OBVIOUS
  <2> HIDE DEF f, N
  <2>2. Restored(f, Target) = [l \in DOMAIN f |-> [t \in DOMAIN f[l] |-> [h \in DOMAIN f[l][t] |->
                                 ApplyRope(f[l][t][h], table(t))]]]
    BY Zenon DEF Restored, table
  <2>3. Restored(f, Target) = [l \in 1..N |-> [t \in 1..n |-> [h \in 1..Target.kvHeads |-> ApplyRope(keys(l, t)[h], table(t))]]]
    <3>1. ASSUME NEW l \in 1..N
          PROVE  [t \in DOMAIN f[l] |-> [h \in DOMAIN f[l][t] |-> ApplyRope(f[l][t][h], table(t))]]
                   = [t \in 1..n |-> [h \in 1..Target.kvHeads |-> ApplyRope(keys(l, t)[h], table(t))]]
      <4>1. \A t \in 1..n : f[l][t] = keys(l, t) /\ DOMAIN f[l][t] = 1..Target.kvHeads
        BY <1>6, <2>1
      <4>2. DOMAIN f[l] = 1..n
        BY <2>1
      <4> QED BY <4>1, <4>2
    <3> QED BY <2>1, <2>2, <3>1
  <2> QED BY <2>3 DEF f
<1> QED BY <1>3, <1>4, <1>5, <1>7, <1>8, Zenon

-----------------------------------------------------------------------------
\* The inductive invariant of the transfer.

\* The batch of the call's prompt before layer l + 1.
FlatAt(p, slots, l) ==
  [rows |-> Rows(p, slots, 0), metas |-> MetasOf(slots, Len(p)), x |-> SourceX(p, l), layer |-> l]

\* The table of the call's sequence has the prompt's tokens.
CallCounted == pc \in {"forward", "map"} => numTokens[sid] = Len(prompt)

\* Layer by layer the forward holds the reference's hidden states and has written its KV.
Forwarding ==
  pc = "forward" /\ Len(prompt) # 1 =>
    \E l \in 0..(SourceModel.layers - 1) :
      flat = FlatAt(prompt, PromptSlots, l) /\ \A m \in 1..l : HeldIn(m)

Forwarded == pc = "map" /\ Len(prompt) # 1 => \A l \in 1..SourceModel.layers : HeldIn(l)

SourceExact == CacheShape(skv) /\ CallCounted /\ Forwarding /\ Forwarded

\* The slots of the call's tokens are slots of the pool, and no two of them the same.
LEMMA SlotsOfCall ==
  ASSUME BMInv, sid \in live, prompt \in Prompts, numTokens[sid] = Len(prompt), CacheShape(skv)
  PROVE  /\ Len(prompt) \in Nat \ {0} /\ IsRow(PromptSlots, Len(prompt))
         /\ \A t \in 1..Len(prompt) : PromptSlots[t] \in DOMAIN skv
         /\ \A t, u \in 1..Len(prompt) : PromptSlots[t] = PromptSlots[u] => t = u
<1>1. Len(prompt) \in Nat \ {0}
  <2>1. prompt \in Seq(Nat) /\ prompt # <<>>
    BY EscalationAssumption
  <2> QED BY <2>1, EmptySeq
<1>2. PromptSlots = [t \in 1..Len(prompt) |-> Slot(blockIds[sid], t - 1)]
  BY DEF PromptSlots, ContextSlots
<1>3. /\ \A t \in 1..Len(prompt) : t - 1 \in Nat /\ t - 1 < TableCapacity(sid)
      /\ \A t, u \in 1..Len(prompt) : t - 1 = u - 1 => t = u
  <2>1. Len(prompt) <= TableCapacity(sid) /\ TableCapacity(sid) \in Nat
    <3>1. blockIds[sid] \in Seq(Blocks)
      BY DEF BMInv, BMTypeOK
    <3>2. Len(blockIds[sid]) \in Nat
      BY <3>1, LenProperties
    <3>3. \A a \in Nat : a * BlockSize \in Nat
      <4>1. \A a, b \in Nat : a * b \in Nat
        OBVIOUS
      <4> QED BY <4>1, BlockSizeAssumption
    <3> QED BY <3>2, <3>3 DEF BMInv, Capacity, TableCapacity
  <2> QED BY <1>1, <2>1
<1>4. ASSUME NEW t \in 1..Len(prompt) PROVE PromptSlots[t] \in DOMAIN skv
  <2>1. PICK q \in Nat : q = t - 1 /\ q < TableCapacity(sid)
    BY <1>3
  <2>2. /\ Slot(blockIds[sid], q) = <<blockIds[sid][(q \div BlockSize) + 1], q % BlockSize>>
        /\ blockIds[sid][(q \div BlockSize) + 1] \in Blocks /\ q % BlockSize \in 0..(BlockSize - 1)
    BY <2>1, SlotInTable
  <2>3. Slot(blockIds[sid], q) \in Blocks \X (0..(BlockSize - 1))
    BY <2>2
  <2> QED BY <1>2, <2>1, <2>3 DEF CacheShape
<1>5. ASSUME NEW t \in 1..Len(prompt), NEW u \in 1..Len(prompt), PromptSlots[t] = PromptSlots[u] PROVE t = u
  <2>1. PICK q \in Nat, r \in Nat : q = t - 1 /\ r = u - 1 /\ q < TableCapacity(sid) /\ r < TableCapacity(sid)
    BY <1>3
  <2>2. Slot(blockIds[sid], q) = Slot(blockIds[sid], r)
    BY <1>2, <1>5, <2>1
  <2>3. q = r
    BY <2>1, <2>2, SlotsDiffer
  <2> QED BY <1>3, <2>1, <2>3
<1>6. IsRow(PromptSlots, Len(prompt))
  BY <1>2 DEF IsRow
<1> QED BY <1>1, <1>4, <1>5, <1>6

\* What the next layer of the call's forward computes and writes.
LayerWrites(l) ==
  /\ NextLayer(SourceModel, skv).x = SourceX(prompt, l)
  /\ \A t \in 1..Len(prompt) :
       /\ NextLayer(SourceModel, skv).cache[PromptSlots[t]][l] = StoredAt(prompt, l, t)
       /\ \A m \in 1..SourceModel.layers :
            m # l => NextLayer(SourceModel, skv).cache[PromptSlots[t]][m] = skv[PromptSlots[t]][m]

LEMMA NextLayerWrites ==
  ASSUME BMInv, sid \in live, prompt \in Prompts, numTokens[sid] = Len(prompt), CacheShape(skv), Len(prompt) # 1,
         NEW l \in 0..(SourceModel.layers - 1), flat = FlatAt(prompt, PromptSlots, l)
  PROVE  LayerWrites(l + 1)
<1> DEFINE slots == PromptSlots
           k == l + 1
<1>1. /\ Len(prompt) \in Nat \ {0, 1} /\ Len(prompt) \in Nat /\ IsRow(slots, Len(prompt))
      /\ \A t \in 1..Len(prompt) : slots[t] \in DOMAIN skv
      /\ \A t, u \in 1..Len(prompt) : slots[t] = slots[u] => t = u
  BY SlotsOfCall
<1>2. k \in 1..SourceModel.layers /\ k - 1 = l
  BY PairsAssumption
<1>3. NextLayer(SourceModel, skv) = LayerOf(prompt, k, slots, skv)
  <2>1. /\ flat.rows = Rows(prompt, slots, 0) /\ flat.metas = MetasOf(slots, Len(prompt))
        /\ flat.x = SourceX(prompt, l) /\ flat.layer = l
    BY DEF FlatAt
  <2>2. SourceX(prompt, k - 1) = SourceX(prompt, l)
    BY <1>2
  <2> HIDE DEF slots
  <2> QED BY <2>1, <2>2, Zenon DEF NextLayer, LayerOf
<1> HIDE DEF slots, k
<1>4. /\ NextLayer(SourceModel, skv).x = SourceX(prompt, k)
      /\ NextLayer(SourceModel, skv).cache = WriteLayer(skv, k, Rows(prompt, slots, 0), TokensIn(prompt, k))
  BY <1>1, <1>2, <1>3, LayerIsReference
<1>5. ASSUME NEW t \in 1..Len(prompt)
      PROVE  /\ NextLayer(SourceModel, skv).cache[slots[t]][k] = StoredAt(prompt, k, t)
             /\ \A m \in 1..SourceModel.layers :
                  m # k => NextLayer(SourceModel, skv).cache[slots[t]][m] = skv[slots[t]][m]
  <2>1. /\ WriteLayer(skv, k, Rows(prompt, slots, 0), TokensIn(prompt, k))[slots[t]][k] = StoredAt(prompt, k, t)
        /\ \A m \in 1..SourceModel.layers :
             m # k => WriteLayer(skv, k, Rows(prompt, slots, 0), TokensIn(prompt, k))[slots[t]][m] = skv[slots[t]][m]
    BY <1>1, <1>2, WriteReachesSlots
  <2> QED BY <1>4, <2>1
<1> QED BY <1>4, <1>5 DEF LayerWrites, slots, k

\* Any forward keeps the shape of the cache.
LEMMA ForwardKeepsShape ==
  ASSUME CacheShape(skv) PROVE CacheShape(NextLayer(SourceModel, skv).cache)
<1> DEFINE l == flat.layer + 1
           proj == [i \in DOMAIN flat.rows |->
                      Embedded(SourceModel, Projected(SourceModel, l, flat.x[i]), flat.rows[i].pos)]
<1>1. NextLayer(SourceModel, skv).cache = WriteLayer(skv, l, flat.rows, proj)
  BY DEF NextLayer, Layer
<1> HIDE DEF l, proj
<1> QED BY <1>1, WriteKeepsShape

-----------------------------------------------------------------------------
LEMMA SourceInit == Init => SourceExact
<1> SUFFICES ASSUME Init PROVE SourceExact
  OBVIOUS
<1>1. CacheShape(skv)
  BY DEF Init, ZeroCache, CacheShape, IsRow
<1>2. pc = "load"
  BY DEF Init
<1> QED BY <1>1, <1>2 DEF SourceExact, CallCounted, Forwarding, Forwarded

\* A step that ends outside the source's forward.
LEMMA SourceRests ==
  ASSUME SourceExact, pc' \notin {"forward", "map"}, CacheShape(skv)'
  PROVE  SourceExact'
BY DEF SourceExact, CallCounted, Forwarding, Forwarded

LEMMA SourceCalls ==
  ASSUME BMInv, SourceExact, NEW s \in Seqs, NEW p \in Prompts, Call(s, p)
  PROVE  SourceExact'
<1>1. CacheShape(skv)' /\ pc = "idle"
  BY DEF Call, SourceExact, CacheShape
<1>2. CASE s \in live \/ AllocateFails(Len(p), <<>>)
  <2>1. pc' = "idle"
    BY <1>1, <1>2 DEF Call
  <2> QED BY <1>1, <2>1, SourceRests
<1>3. CASE ~(s \in live \/ AllocateFails(Len(p), <<>>))
  <2> DEFINE slots == ContextSlots(blockIds'[s], Len(p))
             rows == Rows(p, slots, 0)
  <2>1. /\ Allocate(s, Len(p), <<>>) /\ pc' = "forward" /\ sid' = s /\ prompt' = p
        /\ flat' = Started(SourceModel, rows, MetasOf(slots, Len(p)))
    BY <1>3 DEF Call, MetasOf
  <2>2. numTokens'[s] = Len(p)
    BY <2>1 DEF Allocate, BMInv, BMTypeOK
  <2>3. slots = PromptSlots'
    BY <2>1 DEF PromptSlots
  <2>4. Len(p) \in Nat
    BY EscalationAssumption, TokenCountsAssumption
  <2>5. Embeddings(SourceModel, rows) = SourceX(p, 0)
    <3>1. DOMAIN rows = 1..Len(p) /\ \A i \in 1..Len(p) : rows[i].tok = p[i]
      <4>1. RowsWhole(p, slots)
        BY <2>4, RowsOfPrompt
      <4> QED BY <4>1 DEF RowsWhole
    <3> HIDE DEF rows
    <3>2. SourceX(p, 0) = [t \in 1..Len(p) |-> Embed(SourceModel, p[t])]
      <4>1. 1 \in 1..SourceModel.layers
        BY PairsAssumption
      <4> QED BY <2>4, <4>1, RunLayer
    <3> QED BY <3>1, <3>2 DEF Embeddings
  <2> HIDE DEF slots, rows
  <2>6. flat' = FlatAt(p, slots, 0)
    BY <2>1, <2>5 DEF Started, FlatAt, rows
  <2>7. (flat = FlatAt(prompt, PromptSlots, 0))'
    BY <2>1, <2>3, <2>6
  <2>8. 0 \in 0..(SourceModel.layers - 1)
    BY PairsAssumption
  <2>9. Forwarding'
    <3>1. \A m \in 1..0 : HeldIn(m)'
      OBVIOUS
    <3> QED BY <2>7, <2>8, <3>1 DEF Forwarding
  <2> QED BY <1>1, <2>1, <2>2, <2>9 DEF SourceExact, CallCounted, Forwarded
<1> QED BY <1>2, <1>3

LEMMA SourceForwards ==
  ASSUME EscalationIInv, prompt \in Prompts, SourceExact, ForwardSource
  PROVE  SourceExact'
<1> DEFINE next == NextLayer(SourceModel, skv)
           N == SourceModel.layers
<1>1. pc = "forward" /\ skv' = next.cache /\ UNCHANGED <<bmVars, sid, prompt>>
  BY DEF ForwardSource
<1>2. IF flat.layer + 1 < N THEN flat' = Advanced(SourceModel, skv) /\ pc' = "forward"
                            ELSE pc' = "map"
  BY <1>1, Zenon DEF ForwardSource
<1>3. sid \in live /\ BMInv
  BY <1>1 DEF EscalationIInv, OwnersExact, InCall
<1>4. CacheShape(skv) /\ CacheShape(skv)'
  <2>1. CacheShape(next.cache)
    BY ForwardKeepsShape DEF SourceExact
  <2> HIDE DEF next
  <2> QED BY <1>1, <2>1 DEF CacheShape, SourceExact
<1>5. numTokens[sid] = Len(prompt) /\ CallCounted'
  BY <1>1 DEF SourceExact, CallCounted, bmVars
<1>6. CASE Len(prompt) = 1
  BY <1>1, <1>4, <1>5, <1>6 DEF SourceExact, Forwarding, Forwarded
<1>7. CASE Len(prompt) # 1
  <2>1. PICK l \in 0..(N - 1) : flat = FlatAt(prompt, PromptSlots, l) /\ \A m \in 1..l : HeldIn(m)
    BY <1>1, <1>7 DEF SourceExact, Forwarding
  <2>2. LayerWrites(l + 1)
    BY <1>3, <1>4, <1>5, <1>7, <2>1, NextLayerWrites
  <2>3. l + 1 \in 1..N /\ l \in Nat /\ N \in Nat
    BY PairsAssumption
  <2>4. PromptSlots' = PromptSlots
    BY <1>1 DEF PromptSlots, bmVars
  <2>5. ASSUME NEW m \in 1..(l + 1) PROVE HeldIn(m)'
    <3>1. \A t \in 1..Len(prompt) : skv'[PromptSlots[t]][m] = StoredAt(prompt, m, t)
      <4>1. CASE m = l + 1
        BY <1>1, <2>2, <4>1 DEF LayerWrites
      <4>2. CASE m # l + 1
        <5>1. m \in 1..l /\ m \in 1..N
          BY <2>3, <4>2
        <5> HIDE DEF N
        <5>2. HeldIn(m)
          BY <2>1, <5>1
        <5> QED BY <1>1, <2>2, <4>2, <5>1, <5>2 DEF LayerWrites, HeldIn, N
      <4> QED BY <4>1, <4>2
    <3> QED BY <1>1, <2>4, <3>1 DEF HeldIn
  <2>6. flat.layer = l
    BY <2>1 DEF FlatAt
  <2>7. CASE l + 1 < N
    <3>1. flat' = Advanced(SourceModel, skv) /\ pc' = "forward"
      BY <1>2, <2>6, <2>7
    <3>2. flat' = [flat EXCEPT !.x = next.x, !.layer = @ + 1]
      BY <3>1 DEF Advanced
    <3>3. next.x = SourceX(prompt, l + 1)
      BY <2>2 DEF LayerWrites
    <3> HIDE DEF next
    <3>4. flat' = FlatAt(prompt, PromptSlots, l + 1)
      BY <2>1, <3>2, <3>3 DEF FlatAt
    <3>5. (flat = FlatAt(prompt, PromptSlots, l + 1))'
      BY <1>1, <2>4, <3>4
    <3>6. l + 1 \in 0..(N - 1)
      BY <2>3, <2>7
    <3>7. Forwarding'
      BY <2>5, <3>5, <3>6 DEF Forwarding
    <3> QED BY <1>4, <1>5, <3>1, <3>7 DEF SourceExact, Forwarded
  <2>8. CASE ~(l + 1 < N)
    <3>1. pc' = "map" /\ l + 1 = N
      BY <1>2, <2>3, <2>6, <2>8
    <3>2. Forwarded'
      BY <2>5, <3>1 DEF Forwarded
    <3> QED BY <1>4, <1>5, <3>1, <3>2 DEF SourceExact, Forwarding
  <2> QED BY <2>7, <2>8
<1> QED BY <1>6, <1>7

LEMMA SourceStep ==
  ASSUME EscalationIInv, TransferIInv, SourceExact, [Next]_escalationVars
  PROVE  SourceExact'
<1>s. sourceVars' = sourceVars => CacheShape(skv)'
  BY DEF sourceVars, SourceExact, CacheShape
<1>0. skv' = skv => CacheShape(skv)'
  BY DEF SourceExact, CacheShape
<1>1. CASE LoadMap
  <2>1. pc' \notin {"forward", "map"} /\ sourceVars' = sourceVars
    BY <1>1, Zenon DEF LoadMap
  <2> QED BY <1>s, <2>1, SourceRests
<1>2. CASE \E s \in Seqs, p \in Prompts : Call(s, p)
  BY <1>2, SourceCalls DEF EscalationIInv
<1>3. CASE ForwardSource
  <2>1. prompt \in Prompts
    BY <1>3 DEF ForwardSource, TransferIInv
  <2> QED BY <1>3, <2>1, SourceForwards
<1>4. CASE ForwardRaises
  <2>1. pc' = "idle" /\ (skv' = skv \/ skv' = NextLayer(SourceModel, skv).cache)
    BY <1>4 DEF ForwardRaises
  <2>2. ASSUME skv' = NextLayer(SourceModel, skv).cache PROVE CacheShape(skv)'
    <3>1. CacheShape(NextLayer(SourceModel, skv).cache)
      BY ForwardKeepsShape DEF SourceExact
    <3> QED BY <2>2, <3>1 DEF CacheShape
  <2> QED BY <1>0, <2>1, <2>2, SourceRests
<1>5. CASE MapAndFree
  BY <1>0, <1>5, SourceRests DEF MapAndFree
<1>6. CASE MapRaisesAndFrees
  BY <1>0, <1>6, SourceRests DEF MapRaisesAndFrees
<1>7. CASE Escalate
  BY <1>0, <1>7, SourceRests DEF Escalate
<1>8. CASE \E p \in Prompts : AddRequest(p)
  BY <1>0, <1>8, SourceRests DEF AddRequest
<1>9. CASE Admit
  BY <1>s, <1>9, SourceRests DEF Admit
<1>10. CASE ForwardTarget
  <2>1. pc = "step" /\ (pc' = pc \/ pc' = "idle") /\ sourceVars' = sourceVars
    BY <1>10, Zenon DEF ForwardTarget
  <2> QED BY <1>s, <2>1, SourceRests
<1>11. CASE UNCHANGED escalationVars
  <2>1. UNCHANGED <<skv, pc, sid, prompt, blockIds, numTokens, flat>>
    BY <1>11 DEF escalationVars, sourceVars, bmVars
  <2> QED BY <2>1 DEF SourceExact, CacheShape, CallCounted, Forwarding, Forwarded, HeldIn, PromptSlots
<1> QED BY <1>1, <1>2, <1>3, <1>4, <1>5, <1>6, <1>7, <1>8, <1>9, <1>10, <1>11 DEF Next

-----------------------------------------------------------------------------
\* The requests that may wait at the target: with the reference's KV or with none.
ExactRequests ==
  {[prompt |-> p, prefix |-> <<>>] : p \in Prompts} \cup {[prompt |-> p, prefix |-> refKV[p]] : p \in Prompts}

ReferenceLoaded ==
  pc \notin {"load", "refused"} =>
    /\ ~LoadRaises(pair.files, pair.variant, pair.residual)
    /\ refKV = IF MapRaises(kvMap, 1, pair.useResidual) THEN <<>> ELSE ReferenceKV(kvMap)

Waiting == waiting \in Seq(ExactRequests) /\ (pc \in {"load", "refused"} => waiting = <<>>)

MappedExact == pc = "mapped" => mapped = refKV[prompt]

TargetExact == ReferenceLoaded /\ Waiting /\ MappedExact

\* A map raises for every number of tokens or for none, but for the empty prefix.
LEMMA RaisesForAll ==
  ASSUME NEW maps, NEW n, NEW use, ~MapRaises(maps, n, use) PROVE ~MapRaises(maps, 1, use)
<1>1. ~ \E list \in {maps.keys, maps.values} : \E l \in DOMAIN list : ~InnerFits(list[l], use)
  BY Zenon DEF MapRaises
<1>2. 1 # 0
  OBVIOUS
<1> QED BY <1>1, <1>2, Zenon DEF MapRaises

LEMMA TargetInit == Init => TargetExact
<1> SUFFICES ASSUME Init PROVE TargetExact
  OBVIOUS
<1>1. pc = "load" /\ waiting = <<>>
  BY DEF Init
<1>2. <<>> \in Seq(ExactRequests)
  BY EmptySeq
<1> QED BY <1>1, <1>2 DEF TargetExact, ReferenceLoaded, Waiting, MappedExact

\* Most steps change neither what is loaded nor what waits.
LEMMA TargetRests ==
  ASSUME TargetExact, UNCHANGED loaded, pc \notin {"load", "refused"}, pc' \notin {"load", "refused", "mapped"},
         waiting' \in Seq(ExactRequests)
  PROVE  TargetExact'
<1>1. UNCHANGED <<pair, kvMap, refKV>>
  BY DEF loaded
<1>2. ExactRequests' = ExactRequests
  BY <1>1 DEF ExactRequests
<1>3. Waiting' /\ MappedExact'
  BY <1>2 DEF Waiting, MappedExact
<1>4. ReferenceKV(kvMap)' = ReferenceKV(kvMap)
  BY <1>1 DEF ReferenceKV, Target, SourceRun
<1>5. ReferenceLoaded'
  BY <1>1, <1>4 DEF TargetExact, ReferenceLoaded
<1> QED BY <1>3, <1>5 DEF TargetExact

LEMMA TargetStep ==
  ASSUME TransferIInv, SourceExact, TargetExact, [Next]_escalationVars
  PROVE  TargetExact'
<1>0. waiting \in Seq(ExactRequests)
  BY DEF TargetExact, Waiting
<1>t. targetVars' = targetVars => waiting' = waiting
  BY DEF targetVars
<1>1. CASE LoadMap
  <2>1. pc = "load" /\ waiting' = waiting /\ pair' = pair
    BY <1>1 DEF LoadMap, targetVars
  <2>2. waiting' = <<>>
    BY <2>1 DEF TargetExact, Waiting
  <2>3. Waiting'
    BY <2>2, EmptySeq DEF Waiting
  <2>4. CASE pc' = "refused"
    BY <2>3, <2>4 DEF TargetExact, ReferenceLoaded, MappedExact
  <2>5. CASE pc' # "refused"
    <3>1. /\ pc' = "idle" /\ kvMap' = Loaded(pair.files, pair.residual)
          /\ refKV' = IF MapRaises(Loaded(pair.files, pair.residual), 1, pair.useResidual) THEN <<>>
                      ELSE ReferenceKV(Loaded(pair.files, pair.residual))
          /\ ~LoadRaises(pair.files, pair.variant, pair.residual)
      BY <1>1, <2>5, Zenon DEF LoadMap
    <3>2. ReferenceKV(kvMap)' = ReferenceKV(kvMap')
      BY <2>1 DEF ReferenceKV, Target, SourceRun
    <3>3. ReferenceLoaded'
      BY <2>1, <3>1, <3>2 DEF ReferenceLoaded
    <3> QED BY <2>3, <3>1, <3>3 DEF TargetExact, MappedExact
  <2> QED BY <2>4, <2>5
<1>2. CASE \E s \in Seqs, p \in Prompts : Call(s, p)
  <2>1. PICK s \in Seqs, p \in Prompts : Call(s, p)
    BY <1>2
  <2>2. pc = "idle" /\ UNCHANGED <<targetVars, loaded>> /\ pc' \in {"idle", "forward"}
    BY <2>1 DEF Call
  <2> QED BY <1>0, <1>t, <2>2, TargetRests
<1>3. CASE ForwardSource
  <2>1. pc = "forward" /\ UNCHANGED <<targetVars, loaded>> /\ pc' \in {"forward", "map"}
    BY <1>3, Zenon DEF ForwardSource
  <2> QED BY <1>0, <1>t, <2>1, TargetRests
<1>4. CASE ForwardRaises
  BY <1>0, <1>t, <1>4, TargetRests DEF ForwardRaises
<1>5. CASE MapAndFree
  <2>1. /\ pc = "map" /\ pc' = "mapped" /\ mapped' = MapPrefix /\ prompt' = prompt
        /\ ~MapRaises(kvMap, Len(prompt) - 1, pair.useResidual) /\ UNCHANGED loaded /\ waiting' = waiting
    BY <1>t, <1>5 DEF MapAndFree
  <2>2. UNCHANGED <<pair, kvMap, refKV>>
    BY <2>1 DEF loaded
  <2>3. /\ pair \in Pairs /\ kvMap = Loaded(pair.files, pair.residual) /\ Accepts(kvMap, SourceModel, Target)
        /\ prompt \in Prompts
    BY <2>1 DEF TransferIInv
  <2>4. /\ ~LoadRaises(pair.files, pair.variant, pair.residual)
        /\ refKV = IF MapRaises(kvMap, 1, pair.useResidual) THEN <<>> ELSE ReferenceKV(kvMap)
    BY <2>1 DEF TargetExact, ReferenceLoaded
  <2>5. refKV = ReferenceKV(kvMap)
    BY <2>1, <2>4, RaisesForAll
  <2>6. Len(prompt) # 1
    <3>1. Len(prompt) - 1 # 0
      BY <2>1, Zenon DEF MapRaises
    <3> QED BY <3>1
  <2>7. \A l \in 1..SourceModel.layers : HeldIn(l)
    BY <2>1, <2>6 DEF SourceExact, Forwarded
  <2>8. MapPrefix = ReferenceKV(kvMap)[prompt]
    BY <2>1, <2>3, <2>4, <2>7, MapIsReference
  <2>9. MappedExact'
    BY <2>1, <2>2, <2>5, <2>8 DEF MappedExact
  <2>10. Waiting'
    BY <1>0, <2>1, <2>2 DEF Waiting, ExactRequests
  <2>11. ReferenceLoaded'
    <3>1. ReferenceKV(kvMap)' = ReferenceKV(kvMap)
      BY <2>2 DEF ReferenceKV, Target, SourceRun
    <3> QED BY <2>2, <2>4, <3>1 DEF ReferenceLoaded
  <2> QED BY <2>9, <2>10, <2>11 DEF TargetExact
<1>6. CASE MapRaisesAndFrees
  BY <1>0, <1>t, <1>6, TargetRests DEF MapRaisesAndFrees
<1>7. CASE Escalate
  <2>1. /\ pc = "mapped" /\ pc' = "idle" /\ UNCHANGED loaded
        /\ waiting' = waiting \/ waiting' = Append(waiting, [prompt |-> prompt, prefix |-> mapped])
    BY <1>7 DEF Escalate
  <2>2. [prompt |-> prompt, prefix |-> mapped] \in ExactRequests
    BY <2>1 DEF TargetExact, MappedExact, TransferIInv, ExactRequests
  <2>3. waiting' \in Seq(ExactRequests)
    <3> DEFINE S == ExactRequests
    <3>1. Append(waiting, [prompt |-> prompt, prefix |-> mapped]) \in Seq(S)
      <4> HIDE DEF S
      <4> QED BY <1>0, <2>2, AppendProperties DEF S
    <3> QED BY <1>0, <2>1, <3>1
  <2> QED BY <2>1, <2>3, TargetRests
<1>8. CASE \E p \in Prompts : AddRequest(p)
  <2>1. PICK p \in Prompts : AddRequest(p)
    BY <1>8
  <2>2. /\ pc = "idle" /\ pc' = "idle" /\ UNCHANGED loaded
        /\ waiting' = Append(waiting, [prompt |-> p, prefix |-> <<>>])
    BY <2>1 DEF AddRequest
  <2>3. [prompt |-> p, prefix |-> <<>>] \in ExactRequests
    BY DEF ExactRequests
  <2>4. waiting' \in Seq(ExactRequests)
    BY <1>0, <2>2, <2>3, AppendProperties
  <2> QED BY <2>2, <2>4, TargetRests
<1>9. CASE Admit
  BY <1>0, <1>9, TargetRests DEF Admit
<1>10. CASE ForwardTarget
  <2>1. /\ pc = "step" /\ (pc' = pc \/ pc' = "idle") /\ UNCHANGED loaded
        /\ waiting' = waiting \/ waiting' = SubSeq(waiting, Len(Batch) + 1, Len(waiting))
    BY <1>10, Zenon DEF ForwardTarget
  <2>2. SubSeq(waiting, Len(Batch) + 1, Len(waiting)) \in Seq(ExactRequests)
    <3> DEFINE S == ExactRequests
    <3>1. Len(waiting) \in Nat /\ \A i \in 1..Len(waiting) : waiting[i] \in S
      BY <1>0, LenProperties
    <3>2. Len(Batch) \in Nat
      <4> HIDE DEF S
      <4>1. PICK most \in Int : most = Min({Len(waiting), MaxBatch}) /\ most <= Len(waiting)
        <5>1. Len(waiting) \in Int /\ MaxBatch \in Int
          BY <3>1, EscalationAssumption
        <5> QED BY <5>1, MinOfTwo
      <4>2. \A i \in 1..most : waiting[i] \in S
        BY <3>1, <4>1
      <4>3. SubSeq(waiting, 1, most) \in Seq(S)
        BY <4>2, SubSeqProperties
      <4>4. Batch \in Seq(S)
        BY <4>1, <4>3 DEF Batch
      <4> QED BY <4>4, LenProperties
    <3> HIDE DEF S
    <3>3. Len(Batch) + 1 \in Int /\ Len(waiting) \in Int /\ \A i \in (Len(Batch) + 1)..Len(waiting) : waiting[i] \in S
      BY <3>1, <3>2
    <3>4. SubSeq(waiting, Len(Batch) + 1, Len(waiting)) \in Seq(S)
      BY <3>3, SubSeqProperties
    <3> QED BY <3>4 DEF S
  <2> QED BY <1>0, <2>1, <2>2, TargetRests
<1>11. CASE UNCHANGED escalationVars
  <2>1. UNCHANGED <<pc, waiting, mapped, prompt, pair, kvMap, refKV>>
    BY <1>11 DEF escalationVars, sourceVars, targetVars, loaded
  <2>2. ReferenceKV(kvMap)' = ReferenceKV(kvMap)
    BY <2>1 DEF ReferenceKV, Target, SourceRun
  <2>3. ExactRequests' = ExactRequests
    BY <2>1 DEF ExactRequests
  <2> QED BY <2>1, <2>2, <2>3 DEF TargetExact, ReferenceLoaded, Waiting, MappedExact
<1> QED BY <1>1, <1>2, <1>3, <1>4, <1>5, <1>6, <1>7, <1>8, <1>9, <1>10, <1>11 DEF Next

\* What arrives at the target is the map of the prompt's own content: rotated as the
\* target would, whichever blocks the source had it in, whatever they held before,
\* for any models, maps and prompts (transfer.py:256-283, escalation.py:43-47).
THEOREM TransferIsExact == Spec => []TransferExact
<1> DEFINE I == EscalationIInv /\ TransferIInv /\ SourceExact /\ TargetExact
<1>1. Init => I
  BY EscalationInit, TransferInit, SourceInit, TargetInit
<1>2. I /\ [Next]_escalationVars => I'
  BY EscalationStep, TransferStep, SourceStep, TargetStep
<1>3. I => TransferExact
  <2> SUFFICES ASSUME TargetExact PROVE TransferExact
    OBVIOUS
  <2>1. ASSUME NEW i \in DOMAIN waiting, waiting[i].prefix # <<>> PROVE waiting[i].prefix = refKV[waiting[i].prompt]
    <3>1. waiting[i] \in ExactRequests
      BY LenProperties DEF TargetExact, Waiting
    <3>2. CASE waiting[i] \in {[prompt |-> p, prefix |-> <<>>] : p \in Prompts}
      BY <2>1, <3>2
    <3>3. CASE waiting[i] \in {[prompt |-> p, prefix |-> refKV[p]] : p \in Prompts}
      BY <3>3
    <3> QED BY <3>1, <3>2, <3>3 DEF ExactRequests
  <2>2. pc = "mapped" => mapped = refKV[prompt]
    BY DEF TargetExact, MappedExact
  <2> QED BY <2>1, <2>2 DEF TransferExact
<1> HIDE DEF I
<1> QED BY <1>1, <1>2, <1>3, PTL DEF Spec
===============================================================================
