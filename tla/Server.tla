-------------------------------- MODULE Server --------------------------------
(***************************************************************************)
(* The inference server, dispec/router/server.py: handlers on an event     *)
(* loop submit requests, one thread drives the engine, and the results     *)
(* come back as callbacks queued on the loop.  A lock guards the engine    *)
(* and the pending table.                                                  *)
(*                                                                         *)
(* The engine is the abstract one of module Engine, which Scheduler        *)
(* implements.  Abstracted: a token has a kind that says what it adds to   *)
(* the text, and a character of the text is the number of its token; the   *)
(* metrics are left out; the handler's reaction to a callback is part of   *)
(* the callback.                                                           *)
(***************************************************************************)
EXTENDS Autoscaler, FiniteSets, SequencesExt

CONSTANTS
  Requests, Limits,
  Streams,         \* the requests submitted with generate_stream
  Kinds            \* of tokens: "char", "special", "lead", "trail"

ASSUME StreamsAreRequests == Streams \subseteq Requests
ASSUME KnownKinds == Kinds \subseteq {"char", "special", "lead", "trail"}
ASSUME LoadsCoverRequests == IsFiniteSet(Requests) /\ 0..Cardinality(Requests) \subseteq Loads

VARIABLES
  phase, limit, failed,  \* of the engine
  output,       \* the kinds of the tokens each request emitted
  finished,     \* engine.finished
  pending,      \* the keys of _pending
  decoded,      \* _Pending.decoded
  stopFlag,     \* _stop
  lock,         \* "free", "thread" or "loop"
  threadPc,     \* where in _run
  loopPc,       \* what the event loop is doing
  submitting,   \* the request whose handler is at the lock
  ready,        \* callbacks queued with call_soon_threadsafe
  client,       \* "absent", "submitting", "awaiting", "done" or "cancelled"
  got           \* the frames each handler sent to its client

engineVars == <<phase, limit, failed, output, finished>>
serverVars == <<pending, decoded, stopFlag>>
loopVars == <<loopPc, submitting, client, got>>
vars == <<engineVars, serverVars, scalerVars, loopVars, lock, threadPc, ready>>

-----------------------------------------------------------------------------
Eng == INSTANCE Engine WITH outs <- [r \in Requests |-> Len(output[r])]

EngineRunning == Eng!InPhase("emitting")

AnyRequest == CHOOSE r \in Requests : TRUE   \* submitting, when nobody is at the lock

HasWork == EngineRunning \cup Eng!InPhase("queued") # {}

Unknown == 0   \* the replacement character

\* tok.decode(tokens, skip_special_tokens=True): a character of two tokens is
\* the replacement character until its second token is there.
Text(tokens) ==
  LET piece(i) ==
        CASE tokens[i] = "char" -> <<i>>
          [] tokens[i] = "special" -> <<>>
          [] tokens[i] = "lead" -> IF i < Len(tokens) /\ tokens[i + 1] = "trail" THEN <<i>> ELSE <<Unknown>>
          [] tokens[i] = "trail" -> IF i > 1 /\ tokens[i - 1] = "lead" THEN <<>> ELSE <<Unknown>>
  IN  FlattenSeq([i \in DOMAIN tokens |-> piece(i)])

Event(r, kind, data) == [req |-> r, kind |-> kind, data |-> data]

\* Mutant: the whole text is pushed every time.
DeltaOfAll(r) == IF Text(output[r]) # <<>> THEN <<Event(r, "delta", Text(output[r]))>> ELSE <<>>

\* What _push_delta queues, and p.decoded after it.
DeltaOf(r) ==
  LET full == Text(output[r])
  IN  IF Len(full) > Len(decoded[r])
      THEN <<Event(r, "delta", SubSeq(full, Len(decoded[r]) + 1, Len(full)))>> ELSE <<>>

DecodedAfter(r) == IF Len(Text(output[r])) > Len(decoded[r]) THEN Text(output[r]) ELSE decoded[r]

\* Mutant: the end sentinel is queued before the last delta.
FinalEventsSwapped(r) ==
  IF r \in Streams THEN <<Event(r, "end", <<>>)>> \o DeltaOf(r) ELSE <<Event(r, "result", output[r])>>

\* Mutant: a stream gets no sentinel.
FinalEventsNoEnd(r) ==
  IF r \in Streams THEN DeltaOf(r) ELSE <<Event(r, "result", output[r])>>

\* What _reap queues for a finished request.
FinalEvents(r) ==
  IF r \in Streams THEN DeltaOf(r) \o <<Event(r, "end", <<>>)>> ELSE <<Event(r, "result", output[r])>>

\* call_soon_threadsafe raises on a closed loop, out of _reap and _run.
Queue(events, nextPc) ==
  IF loopPc = "closed" /\ events # <<>>
  THEN threadPc' = "dead" /\ lock' = "free" /\ UNCHANGED ready
  ELSE threadPc' = nextPc /\ ready' = ready \o events /\ UNCHANGED lock

-----------------------------------------------------------------------------
\* The event loop.  It does one thing at a time, and nothing while a handler
\* waits for the lock or stop() waits for the thread.

\* Lines 58-61, 73-76: a handler reaches the lock.
BeginSubmit(r) ==
  /\ loopPc = "ready" /\ ~stopFlag /\ client[r] = "absent"
  /\ loopPc' = "acquire" /\ submitting' = r
  /\ client' = [client EXCEPT ![r] = "submitting"]
  /\ UNCHANGED <<engineVars, serverVars, scalerVars, got, lock, threadPc, ready>>

Acquire ==
  /\ loopPc = "acquire" /\ lock = "free"
  /\ lock' = "loop" /\ loopPc' = "submit"
  /\ UNCHANGED <<engineVars, serverVars, scalerVars, submitting, client, got, threadPc, ready>>

\* Lines 62 and 77, then 65 and 79 with the release of the lock.  A failed engine
\* still takes requests: its queues are as they were.
AddRequest ==
  /\ loopPc = "submit"
  /\ UNCHANGED output
  /\ IF failed THEN UNCHANGED <<phase, limit, failed>> ELSE Eng!Submit(submitting)
  /\ loopPc' = "register"
  /\ UNCHANGED <<finished, serverVars, scalerVars, submitting, client, got, lock, threadPc, ready>>

Register ==
  /\ loopPc = "register"
  /\ pending' = pending \cup {submitting}
  /\ client' = [client EXCEPT ![submitting] = "awaiting"]
  /\ lock' = "free" /\ loopPc' = "ready" /\ submitting' = AnyRequest
  /\ UNCHANGED <<engineVars, decoded, stopFlag, scalerVars, got, threadPc, ready>>

\* What a handler sends to its client for an event (app.py lines 81-102): one
\* chunk per delta, the stop chunk and [DONE] after the sentinel, or the body.
Frames(e) ==
  CASE e.kind = "delta" -> <<Event(e.req, "chunk", e.data)>>
    [] e.kind = "end" -> <<Event(e.req, "stop", <<>>), Event(e.req, "[DONE]", <<>>)>>
    [] e.kind = "result" -> <<Event(e.req, "body", e.data)>>

\* A queued callback: put_nowait or set_result, and the handler that resumes.
RunCallback ==
  /\ loopPc \in {"ready", "leaving"} /\ ready # <<>>
  /\ LET e == Head(ready)
     IN  /\ got' = IF client[e.req] = "awaiting" THEN [got EXCEPT ![e.req] = @ \o Frames(e)] ELSE got
         /\ client' = IF client[e.req] = "awaiting" /\ e.kind \in {"end", "result"}
                      THEN [client EXCEPT ![e.req] = "done"] ELSE client
  /\ ready' = Tail(ready)
  /\ UNCHANGED <<engineVars, serverVars, scalerVars, loopPc, submitting, lock, threadPc>>

\* The client goes away: nobody tells the engine.
Cancel(r) ==
  /\ loopPc \in {"ready", "leaving"} /\ client[r] = "awaiting"
  /\ client' = [client EXCEPT ![r] = "cancelled"]
  /\ UNCHANGED <<engineVars, serverVars, scalerVars, loopPc, submitting, got, lock, threadPc, ready>>

\* stop(): join waits for the thread, at most for its timeout.
Stop ==
  /\ loopPc = "ready" /\ ~stopFlag
  /\ stopFlag' = TRUE /\ loopPc' = "join"
  /\ UNCHANGED <<engineVars, pending, decoded, scalerVars, submitting, client, got, lock, threadPc, ready>>

JoinReturns ==
  /\ loopPc = "join"
  /\ loopPc' = "leaving"
  /\ UNCHANGED <<engineVars, serverVars, scalerVars, submitting, client, got, lock, threadPc, ready>>

Close ==
  /\ loopPc = "leaving"
  /\ loopPc' = "closed"
  /\ UNCHANGED <<engineVars, serverVars, scalerVars, submitting, client, got, lock, threadPc, ready>>

-----------------------------------------------------------------------------
\* The thread, _run.

CheckStop ==
  /\ threadPc = "top"
  /\ threadPc' = IF stopFlag THEN "stopped" ELSE "acquire"
  /\ UNCHANGED <<engineVars, serverVars, scalerVars, loopVars, lock, ready>>

Lock ==
  /\ threadPc = "acquire" /\ lock = "free"
  /\ lock' = "thread" /\ threadPc' = "locked"
  /\ UNCHANGED <<engineVars, serverVars, scalerVars, loopVars, ready>>

\* Lines 91-92 and 106-107, up to the sleep.
Idle ==
  /\ threadPc = "locked" /\ ~HasWork
  /\ lock' = "free" /\ threadPc' = "sleep"
  /\ UNCHANGED <<engineVars, serverVars, scalerVars, loopVars, ready>>

\* Mutant: the loop waits for work without looking at _stop.
WakeIgnoresStop ==
  /\ threadPc = "sleep"
  /\ threadPc' = "acquire"
  /\ UNCHANGED <<engineVars, serverVars, scalerVars, loopVars, lock, ready>>

Wake ==
  /\ threadPc = "sleep"
  /\ threadPc' = "top"
  /\ UNCHANGED <<engineVars, serverVars, scalerVars, loopVars, lock, ready>>

\* step() emits a token for some requests; those of D finish.
StepEmits ==
  /\ threadPc = "locked" /\ HasWork
  /\ \E R \in SUBSET Requests : \E D \in SUBSET R, new \in [R -> Kinds] :
       /\ output' = [r \in Requests |-> IF r \in R THEN Append(output[r], new[r]) ELSE output[r]]
       /\ Eng!Round(R, D)
       /\ finished' = finished \cup D
  /\ threadPc' = "reap"
  /\ UNCHANGED <<serverVars, scalerVars, loopVars, lock, ready>>

\* step() that only prefills, or finds no block to admit a request.
StepQuiet ==
  /\ threadPc = "locked" /\ HasWork /\ EngineRunning = {}
  /\ threadPc' = "reap"
  /\ UNCHANGED <<engineVars, serverVars, scalerVars, loopVars, lock, ready>>

\* step() raises: the lock is released and the thread ends.
StepRaises ==
  /\ threadPc = "locked"
  /\ UNCHANGED output /\ Eng!Fail
  /\ lock' = "free" /\ threadPc' = "dead"
  /\ UNCHANGED <<finished, serverVars, scalerVars, loopVars, ready>>

\* Lines 103-105 and 112-121: the pool follows the number of running requests;
\* then a delta for every stream that emits.
ReapRunning ==
  /\ threadPc = "reap"
  /\ Observation(Cardinality(EngineRunning))
  /\ LET streams == pending \cap EngineRunning \cap Streams
     IN  /\ Queue(FlattenSeq([i \in DOMAIN SetToSeq(streams) |-> DeltaOf(SetToSeq(streams)[i])]), "finish")
         /\ decoded' = [r \in Requests |-> IF r \in streams THEN DecodedAfter(r) ELSE decoded[r]]
  /\ UNCHANGED <<engineVars, pending, stopFlag, loopVars>>

\* Mutant: the pending entry is kept.
ReapFinishedKeeps ==
  /\ threadPc = "finish" /\ finished # {}
  /\ LET r == CHOOSE r \in finished : TRUE
     IN  /\ Queue(IF r \in pending THEN FinalEvents(r) ELSE <<>>, "finish")
         /\ finished' = finished \ {r}
         /\ decoded' = [decoded EXCEPT ![r] = DecodedAfter(r)]
  /\ UNCHANGED <<phase, limit, failed, output, pending, stopFlag, scalerVars, loopVars>>

\* Lines 125-140, one finished request.
ReapFinished ==
  /\ threadPc = "finish" /\ finished # {}
  /\ LET r == CHOOSE r \in finished : TRUE
     IN  /\ Queue(IF r \in pending THEN FinalEvents(r) ELSE <<>>, "finish")
         /\ finished' = finished \ {r}
         /\ pending' = pending \ {r}
         /\ decoded' = [decoded EXCEPT ![r] = DecodedAfter(r)]
  /\ UNCHANGED <<phase, limit, failed, output, stopFlag, scalerVars, loopVars>>

Unlock ==
  /\ threadPc = "finish" /\ finished = {}
  /\ lock' = "free" /\ threadPc' = "top"
  /\ UNCHANGED <<engineVars, serverVars, scalerVars, loopVars, ready>>

-----------------------------------------------------------------------------
Init ==
  /\ output = [r \in Requests |-> <<>>] /\ finished = {}
  /\ Eng!Init
  /\ pending = {} /\ decoded = [r \in Requests |-> <<>>]
  /\ stopFlag = FALSE /\ ScalerInit
  /\ lock = "free" /\ threadPc = "top" /\ loopPc = "ready"
  /\ submitting = AnyRequest
  /\ ready = <<>>
  /\ client = [r \in Requests |-> "absent"] /\ got = [r \in Requests |-> <<>>]

ThreadNext ==
  \/ CheckStop \/ Lock \/ Idle \/ Wake
  \/ StepEmits \/ StepQuiet \/ StepRaises
  \/ ReapRunning \/ ReapFinished \/ Unlock

LoopNext == Acquire \/ AddRequest \/ Register \/ RunCallback \/ JoinReturns \/ Close

Next ==
  \/ ThreadNext \/ LoopNext \/ Stop
  \/ \E r \in Requests : BeginSubmit(r) \/ Cancel(r)

Spec == Init /\ [][Next]_vars

\* Thread and loop keep running.  A handler gets the lock only while the thread
\* sleeps outside it for 3 ms (line 107): after Unlock the thread may take the
\* lock again before the handler wakes up.  The engine emits again and again,
\* which is what Scheduler promises.
FairSpec ==
  /\ Spec
  /\ WF_vars(ThreadNext) /\ WF_vars(LoopNext)
  /\ SF_vars(Acquire /\ threadPc = "sleep")
  /\ SF_vars(StepEmits)

-----------------------------------------------------------------------------
\* Properties.

ServerTypeOK ==
  /\ output \in [Requests -> Seq(Kinds)]
  /\ finished \subseteq Requests /\ pending \subseteq Requests
  /\ ScalerTypeOK
  /\ lock \in {"free", "thread", "loop"}
  /\ threadPc \in {"top", "acquire", "locked", "sleep", "reap", "finish", "stopped", "dead"}
  /\ loopPc \in {"ready", "acquire", "submit", "register", "join", "leaving", "closed"}
  /\ client \in [Requests -> {"absent", "submitting", "awaiting", "done", "cancelled"}]

\* The lock is held by exactly the one that is inside it.
LockHeld ==
  /\ lock = "thread" <=> threadPc \in {"locked", "reap", "finish"}
  /\ lock = "loop" <=> loopPc \in {"submit", "register"}

\* When nobody is inside the lock, the pending table has an entry for exactly
\* the requests the engine still owes an answer: no answer is lost because the
\* entry came after the request was finished.
PendingMatchesEngine ==
  lock = "free" /\ threadPc # "dead" =>
    pending = {r \in Requests : phase[r] \in {"queued", "emitting"}}

\* What the lock protects: whoever holds it is inside it, and outside it the
\* pending table and the engine agree.
ServerInv == ServerTypeOK /\ LockHeld /\ PendingMatchesEngine

\* The frames of a request, those of the queued callbacks included.
Answers(r) == got[r] \o FlattenSeq([i \in DOMAIN ready |-> IF ready[i].req = r THEN Frames(ready[i]) ELSE <<>>])

\* A client is answered at most once, and nothing comes after the answer: a
\* second set_result would raise, a delta behind the sentinel would be lost.
AnsweredOnce ==
  \A r \in Requests : \A i \in DOMAIN Answers(r) :
    /\ Answers(r)[i].kind \in {"[DONE]", "body"} => i = Len(Answers(r))
    /\ Answers(r)[i].kind = "stop" => i = Len(Answers(r)) - 1

Deltas(events) == FlattenSeq([i \in DOMAIN events |-> events[i].data])

\* A handler gets the output of its own request, all of it and in order: the
\* list of tokens, or deltas that join to the decoded text.
AnswerIsOutput ==
  \A r \in Requests : client[r] = "done" =>
    /\ phase[r] = "done"
    /\ Deltas(got[r]) = IF r \in Streams THEN Text(output[r]) ELSE output[r]

\* A submitted request is answered, unless its client left, step() raised or
\* the server is stopped.
EveryAwaitReturns ==
  \A r \in Requests :
    client[r] = "submitting"
      ~> client[r] \in {"done", "cancelled"} \/ threadPc = "dead" \/ stopFlag

\* After stop() the thread leaves its loop, whatever the engine still has to do.
StopEndsThread == stopFlag ~> threadPc \in {"stopped", "dead"}

\* "text streamed so far (for incremental delta decoding)" (line 31): decoded is
\* what the stream was given.
DecodedIsStreamed ==
  \A r \in Streams : client[r] = "awaiting" /\ loopPc # "closed" => decoded[r] = Deltas(Answers(r))
===============================================================================
