---------------------------- MODULE Disaggregated ----------------------------
(***************************************************************************)
(* Prefill/decode disaggregation, dispec/workers/disaggregated.py over     *)
(* dispec/transport/cuda_ipc.py: a prefill and a decode process joined by  *)
(* queues, the parent that submits and collects, and the shutdown that     *)
(* joins the workers with a timeout.                                       *)
(*                                                                         *)
(* Abstracted: a payload is its request; what it carries (tokens, KV,      *)
(* first token) never comes apart.  A worker serves one sequence at a time *)
(* and frees it, so its block pool is given by the number of its blocks.   *)
(***************************************************************************)
EXTENDS Integers, Selection, SequencesExt

CONSTANTS
  Requests,
  PromptLen(_),          \* length of a request's prompt
  NumBlocks, TokensPerBlock,
  MaxNew,                \* max_new_tokens
  None                   \* the shutdown sentinel

ASSUME PoolAssumption == NumBlocks \in Nat /\ TokensPerBlock \in Nat \ {0}
ASSUME LimitAssumption == MaxNew \in Nat
ASSUME SentinelAssumption == None \notin Requests
ASSUME PromptsAssumption == \A r \in Requests : PromptLen(r) \in Nat \ {0}

VARIABLES
  reqQ, kvQ, resQ,     \* the three queues
  pf, pfReq,           \* the prefill worker: "get", "prefill", "done" or "dead"
  inflight,            \* _inflight of its transport
  dc, dcReq,           \* the decode worker: "get", "import", "decode", "done" or "dead"
  stored, cur, outLen, \* num_tokens, the next position and the length of out
  ended,               \* the last token was the end token
  parent,              \* "open", "joinPf", "joinDc" or "closed"
  submitted, collected \* requests in the order of submit and of collect

queues == <<reqQ, kvQ, resQ>>
pfVars == <<pf, pfReq, inflight>>
dcVars == <<dc, dcReq, stored, cur, outLen, ended>>
parentVars == <<parent, submitted, collected>>
disaggVars == <<queues, pfVars, dcVars, parentVars>>

Fits(n) == n <= NumBlocks * TokensPerBlock

Ended(worker) == worker \in {"done", "dead"}

\* A tensor behind an IPC handle exists while its sender runs and keeps it.
HandleMapped(r) == r \in inflight /\ ~Ended(pf)

-----------------------------------------------------------------------------
\* The parent.
Submit(r) ==
  /\ parent = "open" /\ ~\E i \in DOMAIN submitted : submitted[i] = r
  /\ reqQ' = Append(reqQ, r) /\ submitted' = Append(submitted, r)
  /\ UNCHANGED <<kvQ, resQ, pfVars, dcVars, parent, collected>>

Collect ==
  /\ resQ # <<>>
  /\ resQ' = Tail(resQ) /\ collected' = Append(collected, Head(resQ))
  /\ UNCHANGED <<reqQ, kvQ, pfVars, dcVars, parent, submitted>>

Shutdown ==
  /\ parent = "open"
  /\ reqQ' = Append(reqQ, None) /\ parent' = "joinPf"
  /\ UNCHANGED <<kvQ, resQ, pfVars, dcVars, submitted, collected>>

\* Mutant: the sentinel goes to the request queue again.
StopDecodeWrongQueue ==
  /\ reqQ' = Append(reqQ, None) /\ parent' = "joinDc"
  /\ UNCHANGED <<kvQ, resQ, pfVars, dcVars, submitted, collected>>

StopDecode ==
  /\ kvQ' = Append(kvQ, None) /\ parent' = "joinDc"
  /\ UNCHANGED <<reqQ, resQ, pfVars, dcVars, submitted, collected>>

JoinPrefill == parent = "joinPf" /\ Ended(pf) /\ StopDecode

PrefillJoinTimesOut == parent = "joinPf" /\ ~Ended(pf) /\ StopDecode

\* The second join returns whether the worker ended or the 30 seconds passed.
JoinDecode ==
  /\ parent = "joinDc"
  /\ parent' = "closed"
  /\ UNCHANGED <<queues, pfVars, dcVars, submitted, collected>>

-----------------------------------------------------------------------------
\* The prefill worker.
PrefillGet ==
  /\ pf = "get" /\ reqQ # <<>>
  /\ reqQ' = Tail(reqQ)
  /\ IF Head(reqQ) = None THEN pf' = "done" /\ UNCHANGED pfReq
                          ELSE pf' = "prefill" /\ pfReq' = Head(reqQ)
  /\ UNCHANGED <<kvQ, resQ, inflight, dcVars, parentVars>>

\* Mutant: the worker does not forget the request it handed over.
PrefillSendTwice ==
  /\ pf = "prefill" /\ Fits(PromptLen(pfReq))
  /\ inflight' = inflight \cup {pfReq} /\ kvQ' = Append(kvQ, pfReq)
  /\ UNCHANGED <<pf, pfReq, reqQ, resQ, dcVars, parentVars>>

\* prefill_export, then send: the payload is retained before it is queued.
PrefillSend ==
  /\ pf = "prefill" /\ Fits(PromptLen(pfReq))
  /\ inflight' = inflight \cup {pfReq} /\ kvQ' = Append(kvQ, pfReq)
  /\ pf' = "get" /\ pfReq' = None
  /\ UNCHANGED <<reqQ, resQ, dcVars, parentVars>>

\* allocate raises: the process ends.
PrefillDies ==
  /\ pf = "prefill" /\ ~Fits(PromptLen(pfReq))
  /\ pf' = "dead"
  /\ UNCHANGED <<pfReq, inflight, queues, dcVars, parentVars>>

-----------------------------------------------------------------------------
\* The decode worker.
DecodeGet ==
  /\ dc = "get" /\ kvQ # <<>>
  /\ Head(kvQ) # None => HandleMapped(Head(kvQ))
  /\ kvQ' = Tail(kvQ)
  /\ IF Head(kvQ) = None THEN dc' = "done" /\ UNCHANGED dcReq
                         ELSE dc' = "import" /\ dcReq' = Head(kvQ)
  /\ UNCHANGED <<reqQ, resQ, stored, cur, outLen, ended, pfVars, parentVars>>

\* The handle cannot be opened: the get raises and the process ends.
DecodeGetDies ==
  /\ dc = "get" /\ kvQ # <<>> /\ Head(kvQ) # None /\ ~HandleMapped(Head(kvQ))
  /\ kvQ' = Tail(kvQ) /\ dcReq' = Head(kvQ) /\ dc' = "dead"
  /\ UNCHANGED <<reqQ, resQ, stored, cur, outLen, ended, pfVars, parentVars>>

\* decode_from_kv up to the loop; the pool is as large as the prefill worker's.
DecodeImport ==
  /\ dc = "import"
  /\ dc' = "decode" /\ outLen' = 1 /\ ended' \in BOOLEAN
  /\ stored' = PromptLen(dcReq) /\ cur' = PromptLen(dcReq)
  /\ UNCHANGED <<dcReq, queues, pfVars, parentVars>>

Decoding == dc = "decode" /\ outLen < MaxNew /\ ~ended

\* Mutant: the position is not advanced.
DecodeTokenInPlace ==
  /\ Decoding /\ Fits(stored + 1)
  /\ stored' = stored + 1 /\ outLen' = outLen + 1 /\ ended' \in BOOLEAN
  /\ UNCHANGED <<dc, dcReq, cur, queues, pfVars, parentVars>>

DecodeToken ==
  /\ Decoding /\ Fits(stored + 1)
  /\ stored' = stored + 1 /\ cur' = cur + 1 /\ outLen' = outLen + 1 /\ ended' \in BOOLEAN
  /\ UNCHANGED <<dc, dcReq, queues, pfVars, parentVars>>

\* append_token raises: the process ends.
DecodeDies ==
  /\ Decoding /\ ~Fits(stored + 1)
  /\ dc' = "dead"
  /\ UNCHANGED <<dcReq, stored, cur, outLen, ended, queues, pfVars, parentVars>>

\* Mutant: the result is dropped.
DecodePutNothing ==
  /\ dc = "decode" /\ ~Decoding
  /\ dc' = "get" /\ dcReq' = None
  /\ stored' = 0 /\ cur' = 0 /\ outLen' = 0 /\ ended' = FALSE
  /\ UNCHANGED <<queues, pfVars, parentVars>>

DecodePut ==
  /\ dc = "decode" /\ ~Decoding
  /\ resQ' = Append(resQ, dcReq)
  /\ dc' = "get" /\ dcReq' = None
  /\ stored' = 0 /\ cur' = 0 /\ outLen' = 0 /\ ended' = FALSE
  /\ UNCHANGED <<reqQ, kvQ, pfVars, parentVars>>

-----------------------------------------------------------------------------
DisaggInit ==
  /\ reqQ = <<>> /\ kvQ = <<>> /\ resQ = <<>>
  /\ pf = "get" /\ pfReq = None /\ inflight = {}
  /\ dc = "get" /\ dcReq = None /\ stored = 0 /\ cur = 0 /\ outLen = 0 /\ ended = FALSE
  /\ parent = "open" /\ submitted = <<>> /\ collected = <<>>

PrefillWorker == PrefillGet \/ PrefillSend \/ PrefillDies

DecodeWorker ==
  DecodeGet \/ DecodeGetDies \/ DecodeImport \/ DecodeToken \/ DecodeDies \/ DecodePut

Joining == JoinPrefill \/ PrefillJoinTimesOut \/ JoinDecode

DisaggNext ==
  \/ \E r \in Requests : Submit(r)
  \/ Collect \/ Shutdown \/ Joining \/ PrefillWorker \/ DecodeWorker

DisaggSpec == DisaggInit /\ [][DisaggNext]_disaggVars

\* The processes run, a join returns, and the parent collects what it submitted.
DisaggFairSpec ==
  DisaggSpec /\ WF_disaggVars(PrefillWorker) /\ WF_disaggVars(DecodeWorker) /\ WF_disaggVars(Joining) /\ WF_disaggVars(Collect)

-----------------------------------------------------------------------------
\* Properties.

DisaggTypeOK ==
  /\ {reqQ, kvQ} \subseteq Seq(Requests \cup {None}) /\ {resQ, submitted, collected} \subseteq Seq(Requests)
  /\ pf \in {"get", "prefill", "done", "dead"} /\ dc \in {"get", "import", "decode", "done", "dead"}
  /\ pfReq \in Requests \cup {None} /\ dcReq \in Requests \cup {None} /\ inflight \subseteq Requests
  /\ stored \in 0..(NumBlocks * TokensPerBlock) /\ outLen \in 0..(IF MaxNew > 1 THEN MaxNew ELSE 1)
  /\ parent \in {"open", "joinPf", "joinDc", "closed"}

Work(queue) == Selected(queue, {i \in DOMAIN queue : queue[i] # None})

\* No request is lost, doubled or overtaken between the processes: read from
\* the results back to the request queue they stand in the order of submit.
PipelineKeepsOrder ==
  submitted = collected \o resQ \o Work(<<dcReq>>) \o Work(kvQ) \o Work(<<pfReq>>) \o Work(reqQ)

\* A token is embedded at the position append_token stores it at: cur and
\* num_tokens are advanced apart (lines 65-73).
FedAtItsSlot == dc = "decode" => cur = stored /\ stored = PromptLen(dcReq) + outLen - 1

\* A worker is never handed a prompt that the other one could not hold, so the
\* import itself cannot raise.
ImportFits == dc = "import" => Fits(PromptLen(dcReq))

\* What one worker relies on in the other and in its own counters.
DisaggInv == DisaggTypeOK /\ FedAtItsSlot /\ ImportFits

\* A submitted request is answered, unless a worker died or a shutdown began.
EveryRequestAnswered ==
  \A r \in Requests :
    (\E i \in DOMAIN submitted : submitted[i] = r)
      ~> (\E i \in DOMAIN collected : collected[i] = r) \/ "dead" \in {pf, dc} \/ parent # "open"

\* After a shutdown no worker process stays behind, timeout or not.
ShutdownEndsWorkers == parent # "open" ~> Ended(pf) /\ Ended(dc)
==============================================================================
