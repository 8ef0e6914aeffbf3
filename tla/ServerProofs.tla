----------------------------- MODULE ServerProofs -----------------------------
(***************************************************************************)
(* The draft pool does not flap, what the lock of the server protects, and *)
(* what the handlers are sent: for any number of requests, any limits of   *)
(* the pool and any thresholds with a wide enough band.                    *)
(***************************************************************************)
EXTENDS Server, ListLemmas

\* What lastMove says of the load: a pool that grew was overloaded with one
\* replica fewer, a pool that shrank was underloaded with one more.
GrewFor == lastMove = 1 =>
  /\ replicas > MinReplicas
  /\ 10 * load > ScaleUpTenths * ((replicas - 1) * SeqsPerReplica)

ShrankFor == lastMove = -1 =>
  10 * load < ScaleDownTenths * ((replicas + 1) * SeqsPerReplica)

ScalerInv == ScalerTypeOK /\ GrewFor /\ ShrankFor

\* An observation moves the pool by at most one and within its limits.
LEMMA MoveBounded ==
  ASSUME replicas \in MinReplicas..MaxReplicas, NEW n \in Loads
  PROVE  /\ Move(n) \in {-1, 0, 1}
         /\ Move(n) = 1 => Overloaded(n) /\ replicas < MaxReplicas
         /\ Move(n) = -1 => Underloaded(n) /\ replicas > MinReplicas
         /\ replicas + Move(n) \in MinReplicas..MaxReplicas
BY ReplicaBounds DEF Move

\* The band is wider than one replica: what overloads r replicas does not
\* underload r + 1.
LEMMA BandHolds ==
  ASSUME NEW n \in Nat, NEW r \in Nat \ {0},
         10 * n > ScaleUpTenths * (r * SeqsPerReplica)
  PROVE  ~(10 * n < ScaleDownTenths * ((r + 1) * SeqsPerReplica))
<1> DEFINE S == SeqsPerReplica
           U == ScaleUpTenths
           D == ScaleDownTenths
<1>1. S \in Nat /\ U \in Nat /\ D \in Nat /\ 2 * D <= U
  BY ReplicaBounds, WideBand
<1>2. (r + 1) * S <= 2 * (r * S)
  <2>1. r * S >= S
    BY <1>1
  <2>2. (r + 1) * S = r * S + S
    BY <1>1
  <2> QED BY <2>1, <2>2, <1>1
<1>3. D * ((r + 1) * S) <= D * (2 * (r * S))
  BY <1>1, <1>2
<1>4. D * (2 * (r * S)) = (2 * D) * (r * S)
  BY <1>1
<1>5. (2 * D) * (r * S) <= U * (r * S)
  BY <1>1
<1> QED BY <1>1, <1>3, <1>4, <1>5

\* One observation keeps the invariant and never reverses the last move made
\* under the same load.
LEMMA ScalerStep ==
  ASSUME ScalerInv, [\E n \in Loads : Observation(n)]_scalerVars
  PROVE  ScalerInv' /\ (load' = load => lastMove' # -lastMove \/ lastMove = 0)
<1> USE DEF ScalerInv
<1>1. CASE UNCHANGED scalerVars
  BY <1>1 DEF scalerVars, ScalerTypeOK, GrewFor, ShrankFor
<1>2. CASE \E n \in Loads : Observation(n)
  <2>1. PICK n \in Loads :
          /\ Observe(n) /\ load' = n
          /\ lastMove' = IF Move(n) = 0 /\ n = load THEN lastMove ELSE Move(n)
    BY <1>2 DEF Observation
  <2>2. n \in Nat
    BY LoadsAreCounts
  <2>3. /\ Move(n) \in {-1, 0, 1}
        /\ Move(n) = 1 => Overloaded(n) /\ replicas < MaxReplicas
        /\ Move(n) = -1 => Underloaded(n) /\ replicas > MinReplicas
        /\ replicas + Move(n) \in MinReplicas..MaxReplicas
    BY MoveBounded DEF ScalerTypeOK
  <2>4. replicas \in Nat \ {0} /\ load \in Nat /\ lastMove \in {-1, 0, 1}
    BY ReplicaBounds DEF ScalerTypeOK
  <2>5. replicas' = replicas + Move(n)
    BY <2>1 DEF Observe
  <2>6. ScalerTypeOK'
    BY <2>1, <2>2, <2>3, <2>4, <2>5 DEF ScalerTypeOK
  <2>7. CASE Move(n) = 1
    <3>1. replicas' = replicas + 1 /\ replicas' - 1 = replicas /\ lastMove' = 1
      BY <2>1, <2>4, <2>5, <2>7
    <3>2. 10 * n > ScaleUpTenths * (replicas * SeqsPerReplica)
      BY <2>3, <2>7 DEF Overloaded, Capacity
    <3>3. GrewFor' /\ ShrankFor'
      BY <2>1, <2>4, <3>1, <3>2, ReplicaBounds DEF GrewFor, ShrankFor, ScalerTypeOK
    <3>4. ~(n = load /\ lastMove = -1)
      <4> SUFFICES ASSUME n = load, lastMove = -1 PROVE FALSE
        OBVIOUS
      <4>1. 10 * load < ScaleDownTenths * ((replicas + 1) * SeqsPerReplica)
        BY DEF ShrankFor
      <4> QED BY <2>2, <2>4, <3>2, <4>1, BandHolds
    <3> QED BY <2>1, <2>4, <2>6, <3>1, <3>3, <3>4
  <2>8. CASE Move(n) = -1
    <3>1. replicas' = replicas - 1 /\ replicas' + 1 = replicas /\ lastMove' = -1
      BY <2>1, <2>4, <2>5, <2>8
    <3>2. /\ 10 * n < ScaleDownTenths * (replicas * SeqsPerReplica)
          /\ replicas > MinReplicas
      BY <2>3, <2>8 DEF Underloaded, Capacity
    <3>3. GrewFor' /\ ShrankFor'
      BY <2>1, <2>4, <3>1, <3>2 DEF GrewFor, ShrankFor
    <3>4. ~(n = load /\ lastMove = 1)
      <4> SUFFICES ASSUME n = load, lastMove = 1 PROVE FALSE
        OBVIOUS
      <4>1. 10 * load > ScaleUpTenths * ((replicas - 1) * SeqsPerReplica)
        BY DEF GrewFor
      <4>2. replicas - 1 \in Nat \ {0} /\ (replicas - 1) + 1 = replicas
        BY <2>4, <3>2, ReplicaBounds
      <4> QED BY <2>2, <3>2, <4>1, <4>2, BandHolds
    <3> QED BY <2>1, <2>4, <2>6, <3>1, <3>3, <3>4
  <2>9. CASE Move(n) = 0
    <3>1. replicas' = replicas
      BY <2>4, <2>5, <2>9
    <3>2. CASE n = load
      BY <2>1, <2>4, <2>6, <2>9, <3>1, <3>2 DEF GrewFor, ShrankFor
    <3>3. CASE n # load
      BY <2>1, <2>4, <2>6, <2>9, <3>1, <3>3 DEF GrewFor, ShrankFor
    <3> QED BY <3>2, <3>3
  <2> QED BY <2>3, <2>7, <2>8, <2>9
<1> QED BY <1>1, <1>2

\* The invariant holds initially.
LEMMA ScalerInitInv == ScalerInit => ScalerInv
BY ReplicaBounds DEF ScalerInit, ScalerInv, ScalerTypeOK, GrewFor, ShrankFor

\* The replica count stays between its limits (lines 35 and 37).
THEOREM ReplicasInRange == ScalerSpec => []ScalerTypeOK
<1>1. ScalerInv /\ [\E n \in Loads : Observation(n)]_scalerVars => ScalerInv'
  BY ScalerStep
<1>2. ScalerInv => ScalerTypeOK
  BY DEF ScalerInv
<1> QED BY ScalerInitInv, <1>1, <1>2, PTL DEF ScalerSpec

\* The pool never turns around under a constant load: lines 6-7, "with
\* hysteresis (two thresholds) so it doesn't flap".
THEOREM PoolDoesNotFlap == ScalerSpec => NoFlap
<1>1. ScalerInv /\ [\E n \in Loads : Observation(n)]_scalerVars => ScalerInv'
  BY ScalerStep
<1>2. ScalerInv /\ [\E n \in Loads : Observation(n)]_scalerVars
        => [load' = load => lastMove' # -lastMove \/ lastMove = 0]_scalerVars
  BY ScalerStep
<1> QED BY ScalerInitInv, <1>1, <1>2, PTL DEF ScalerSpec, NoFlap

-----------------------------------------------------------------------------
\* The requests the engine owes an answer.
Owed == {r \in Requests : phase[r] \in {"queued", "emitting"}}

EngineTypeOK ==
  /\ phase \in [Requests -> {"absent", "queued", "emitting", "done"}]
  /\ output \in [Requests -> Seq(Kinds)]
  /\ finished \subseteq Requests
  /\ failed \in BOOLEAN

\* The part of ServerTypeOK that is not about the engine and the pool, and the
\* handler at the lock.
LoopTypeOK ==
  /\ pending \subseteq Requests
  /\ lock \in {"free", "thread", "loop"}
  /\ threadPc \in {"top", "acquire", "locked", "sleep", "reap", "finish", "stopped", "dead"}
  /\ loopPc \in {"ready", "acquire", "submit", "register", "join", "leaving", "closed"}
  /\ client \in [Requests -> {"absent", "submitting", "awaiting", "done", "cancelled"}]
  /\ loopPc \in {"acquire", "submit", "register"} => submitting \in Requests

\* The pending table at any time while the thread lives: it lacks the request being
\* registered and still has those that wait to be reaped.
PendingExact ==
  threadPc # "dead" =>
    /\ ~failed
    /\ finished \cap Owed = {}
    /\ threadPc \notin {"reap", "finish"} => finished = {}
    /\ pending = (Owed \cup finished) \ (IF loopPc = "register" THEN {submitting} ELSE {})
    /\ loopPc = "register" => submitting \in Owed

ServerIInv == EngineTypeOK /\ LoopTypeOK /\ ScalerInv /\ LockHeld /\ PendingExact

-----------------------------------------------------------------------------
\* Before anything is submitted the invariant holds.
LEMMA InitIInv ==
  ASSUME Init
  PROVE  ServerIInv
<1> USE DEF Init, Eng!Init
<1>1. EngineTypeOK
  <2>1. <<>> \in Seq(Kinds)
    OBVIOUS
  <2>2. output \in [Requests -> Seq(Kinds)]
    BY <2>1
  <2>3. phase \in [Requests -> {"absent", "queued", "emitting", "done"}]
    OBVIOUS
  <2> QED BY <2>2, <2>3 DEF EngineTypeOK
<1>2. LoopTypeOK
  BY DEF LoopTypeOK
<1>3. ScalerInv
  BY ScalerInitInv
<1>4. LockHeld
  BY DEF LockHeld
<1>5. PendingExact
  BY DEF PendingExact, Owed
<1> QED BY <1>1, <1>2, <1>3, <1>4, <1>5 DEF ServerIInv

\* The pool is moved by ReapRunning alone, by a load that Loads covers.
LEMMA PoolStep ==
  ASSUME ServerIInv, [Next]_vars
  PROVE  [\E n \in Loads : Observation(n)]_scalerVars
<1>1. Cardinality(EngineRunning) \in Loads
  <2>1. EngineRunning \subseteq Requests
    BY DEF EngineRunning, Eng!InPhase
  <2>2. /\ IsFiniteSet(EngineRunning)
        /\ Cardinality(EngineRunning) \in Nat /\ Cardinality(Requests) \in Nat
        /\ Cardinality(EngineRunning) <= Cardinality(Requests)
    BY <2>1, LoadsCoverRequests, FS_Subset, FS_CardinalityType
  <2> QED BY <2>2, LoadsCoverRequests
<1>2. CASE ReapRunning
  BY <1>1, <1>2 DEF ReapRunning
<1>3. CASE [Next]_vars /\ ~ReapRunning
  BY <1>3 DEF Next, ThreadNext, LoopNext, vars, CheckStop, Lock, Idle, Wake, StepEmits,
    StepQuiet, StepRaises, ReapFinished, Unlock, Acquire, AddRequest, Register, RunCallback,
    JoinReturns, Close, Stop, BeginSubmit, Cancel
<1> QED BY <1>2, <1>3

-----------------------------------------------------------------------------
\* The actions that leave the engine, the pending table and the lock alone.
LEMMA QuietActions ==
  ASSUME ServerIInv,
         UNCHANGED <<engineVars, pending, lock>>,
         \/ CheckStop \/ Wake \/ Stop \/ JoinReturns \/ Close \/ RunCallback
         \/ \E r \in Requests : BeginSubmit(r) \/ Cancel(r)
         \/ StepQuiet
         \/ UNCHANGED vars
  PROVE  EngineTypeOK' /\ LoopTypeOK' /\ LockHeld' /\ PendingExact'
<1>1. EngineTypeOK'
  BY DEF ServerIInv, EngineTypeOK, engineVars
<1> USE DEF ServerIInv, LoopTypeOK, LockHeld, engineVars, serverVars, loopVars, vars
<1>2. Owed' = Owed
  BY DEF Owed
<1>3. CASE CheckStop \/ Wake \/ StepQuiet
  <2>1. UNCHANGED <<loopPc, submitting, client>>
    BY <1>3 DEF CheckStop, Wake, StepQuiet
  <2>2. LoopTypeOK' /\ LockHeld'
    BY <1>3, <2>1 DEF CheckStop, Wake, StepQuiet
  <2>3. PendingExact'
    BY <1>2, <1>3, <2>1 DEF CheckStop, Wake, StepQuiet, PendingExact
  <2> QED BY <1>1, <2>2, <2>3
<1>4. CASE Stop \/ JoinReturns \/ Close
  <2>1. UNCHANGED <<threadPc, submitting, client>> /\ loopPc' \in {"join", "leaving", "closed"}
          /\ loopPc \notin {"submit", "register"}
    BY <1>4 DEF Stop, JoinReturns, Close
  <2>2. LoopTypeOK' /\ LockHeld'
    BY <2>1
  <2>3. PendingExact'
    BY <1>2, <2>1 DEF PendingExact
  <2> QED BY <1>1, <2>2, <2>3
<1>5. CASE RunCallback \/ \E r \in Requests : Cancel(r)
  <2>1. UNCHANGED <<threadPc, loopPc, submitting>>
    BY <1>5 DEF RunCallback, Cancel
  <2>2. client' \in [Requests -> {"absent", "submitting", "awaiting", "done", "cancelled"}]
    BY <1>5 DEF RunCallback, Cancel
  <2>3. LoopTypeOK' /\ LockHeld'
    BY <2>1, <2>2
  <2>4. PendingExact'
    BY <1>2, <2>1 DEF PendingExact
  <2> QED BY <1>1, <2>3, <2>4
<1>6. CASE \E r \in Requests : BeginSubmit(r)
  <2>1. PICK r \in Requests : BeginSubmit(r)
    BY <1>6
  <2>2. /\ UNCHANGED threadPc /\ loopPc = "ready" /\ loopPc' = "acquire" /\ submitting' = r
        /\ client' \in [Requests -> {"absent", "submitting", "awaiting", "done", "cancelled"}]
    BY <2>1 DEF BeginSubmit
  <2>3. LoopTypeOK' /\ LockHeld'
    BY <2>2
  <2>4. PendingExact'
    BY <1>2, <2>2 DEF PendingExact
  <2> QED BY <1>1, <2>3, <2>4
<1>7. CASE UNCHANGED vars
  BY <1>1, <1>2, <1>7 DEF PendingExact
<1> QED BY <1>3, <1>4, <1>5, <1>6, <1>7

\* The lock changes hands and nothing else happens: Lock, Idle, Unlock, Acquire.
LEMMA LockActions ==
  ASSUME ServerIInv, Lock \/ Idle \/ Unlock \/ Acquire
  PROVE  EngineTypeOK' /\ LoopTypeOK' /\ LockHeld' /\ PendingExact'
<1>1. UNCHANGED <<engineVars, pending, submitting, client>>
  BY DEF Lock, Idle, Unlock, Acquire, serverVars, loopVars
<1>2. EngineTypeOK' /\ Owed' = Owed
  BY <1>1 DEF ServerIInv, EngineTypeOK, engineVars, Owed
<1> USE DEF ServerIInv, LoopTypeOK, LockHeld, engineVars, loopVars
<1>3. CASE Lock
  BY <1>1, <1>2, <1>3 DEF Lock, PendingExact
<1>4. CASE Idle
  BY <1>1, <1>2, <1>4 DEF Idle, PendingExact
<1>5. CASE Unlock
  BY <1>1, <1>2, <1>5 DEF Unlock, PendingExact
<1>6. CASE Acquire
  BY <1>1, <1>2, <1>6 DEF Acquire, PendingExact
<1> QED BY <1>3, <1>4, <1>5, <1>6

\* The two steps of a handler inside the lock.
LEMMA HandlerActions ==
  ASSUME ServerIInv, AddRequest \/ Register
  PROVE  EngineTypeOK' /\ LoopTypeOK' /\ LockHeld' /\ PendingExact'
<1> USE DEF ServerIInv
<1>1. CASE AddRequest
  <2>1. /\ loopPc = "submit" /\ loopPc' = "register" /\ submitting \in Requests
        /\ UNCHANGED <<output, finished, pending, submitting, client, lock, threadPc>>
    BY <1>1 DEF AddRequest, LoopTypeOK, serverVars
  <2>2. CASE failed
    <3>1. UNCHANGED <<phase, failed>> /\ threadPc = "dead"
      BY <1>1, <2>2 DEF AddRequest, PendingExact
    <3> QED BY <2>1, <3>1 DEF EngineTypeOK, LoopTypeOK, LockHeld, PendingExact
  <2>3. CASE ~failed
    <3>1. /\ phase[submitting] = "absent" /\ UNCHANGED failed
          /\ phase' = [phase EXCEPT ![submitting] = "queued"]
      BY <1>1, <2>3 DEF AddRequest, Eng!Submit
    <3>2. Owed' = Owed \cup {submitting} /\ submitting \notin Owed
      BY <2>1, <3>1 DEF Owed, EngineTypeOK
    <3>3. EngineTypeOK'
      BY <2>1, <3>1 DEF EngineTypeOK
    <3>4. LoopTypeOK' /\ LockHeld'
      BY <2>1 DEF LoopTypeOK, LockHeld
    <3>5. PendingExact'
      <4> SUFFICES ASSUME threadPc # "dead" PROVE PendingExact'
        BY <2>1 DEF PendingExact
      <4>1. threadPc \notin {"reap", "finish"} /\ finished = {} /\ pending = Owed
        BY <2>1 DEF LockHeld, PendingExact
      <4>2. pending = (Owed \cup {submitting}) \ {submitting}
        BY <3>2, <4>1
      <4> QED BY <2>1, <2>3, <3>1, <3>2, <4>1, <4>2 DEF PendingExact
    <3> QED BY <3>3, <3>4, <3>5
  <2> QED BY <2>2, <2>3
<1>2. CASE Register
  <2>1. /\ loopPc = "register" /\ loopPc' = "ready" /\ submitting \in Requests
        /\ pending' = pending \cup {submitting} /\ lock' = "free"
        /\ UNCHANGED <<phase, failed, output, finished, threadPc>>
        /\ client' \in [Requests -> {"absent", "submitting", "awaiting", "done", "cancelled"}]
    BY <1>2 DEF Register, LoopTypeOK, engineVars
  <2>2. EngineTypeOK' /\ Owed' = Owed
    BY <2>1 DEF EngineTypeOK, Owed
  <2>3. LoopTypeOK' /\ LockHeld'
    BY <2>1 DEF LoopTypeOK, LockHeld
  <2>4. PendingExact'
    BY <2>1, <2>2 DEF PendingExact
  <2> QED BY <2>2, <2>3, <2>4
<1> QED BY <1>1, <1>2

\* step() inside the lock: what finishes is in finished, and still pending.
LEMMA StepActions ==
  ASSUME ServerIInv, StepEmits \/ StepRaises
  PROVE  EngineTypeOK' /\ LoopTypeOK' /\ LockHeld' /\ PendingExact'
<1> USE DEF ServerIInv
<1>1. CASE StepEmits
  <2>1. PICK R \in SUBSET Requests : \E D \in SUBSET R, new \in [R -> Kinds] :
          /\ output' = [r \in Requests |-> IF r \in R THEN Append(output[r], new[r]) ELSE output[r]]
          /\ Eng!Round(R, D)
          /\ finished' = finished \cup D
    BY <1>1 DEF StepEmits
  <2>2. PICK D \in SUBSET R, new \in [R -> Kinds] :
          /\ output' = [r \in Requests |-> IF r \in R THEN Append(output[r], new[r]) ELSE output[r]]
          /\ Eng!Round(R, D)
          /\ finished' = finished \cup D
    BY <2>1
  <2>3. /\ threadPc = "locked" /\ threadPc' = "reap"
        /\ UNCHANGED <<pending, lock, loopPc, submitting, client>>
    BY <1>1 DEF StepEmits, serverVars, loopVars
  <2>4. /\ R \subseteq Owed /\ UNCHANGED failed
        /\ phase' = [r \in Requests |->
                       IF r \in D THEN "done" ELSE IF r \in R THEN "emitting" ELSE phase[r]]
    BY <2>2 DEF Eng!Round, Eng!InPhase, Owed
  <2>5. EngineTypeOK'
    <3>1. output' \in [Requests -> Seq(Kinds)]
      <4> SUFFICES ASSUME NEW r \in Requests
                   PROVE  (IF r \in R THEN Append(output[r], new[r]) ELSE output[r]) \in Seq(Kinds)
        BY <2>2
      <4>1. output[r] \in Seq(Kinds)
        BY DEF EngineTypeOK
      <4>2. CASE r \in R
        <5>1. new[r] \in Kinds
          BY <2>2, <4>2
        <5> QED BY <4>1, <4>2, <5>1
      <4> QED BY <4>1, <4>2
    <3> QED BY <2>2, <2>4, <3>1 DEF EngineTypeOK
  <2>6. LoopTypeOK' /\ LockHeld'
    BY <2>3 DEF LoopTypeOK, LockHeld
  <2>7. PendingExact'
    <3>1. Owed' = Owed \ D
      BY <2>2, <2>4 DEF Owed
    <3>2. finished = {} /\ pending = Owed /\ ~failed /\ loopPc # "register"
      BY <2>3 DEF LockHeld, PendingExact
    <3> QED BY <2>2, <2>3, <2>4, <3>1, <3>2 DEF PendingExact
  <2> QED BY <2>5, <2>6, <2>7
<1>2. CASE StepRaises
  <2>1. /\ threadPc = "locked" /\ threadPc' = "dead" /\ lock' = "free" /\ failed' = TRUE
        /\ UNCHANGED <<phase, output, finished, pending, loopPc, submitting, client>>
    BY <1>2 DEF StepRaises, Eng!Fail, serverVars, loopVars
  <2> QED BY <2>1 DEF EngineTypeOK, LoopTypeOK, LockHeld, PendingExact
<1> QED BY <1>1, <1>2

\* _reap: an entry leaves the table with the request it answers.
LEMMA ReapActions ==
  ASSUME ServerIInv, ReapRunning \/ ReapFinished
  PROVE  EngineTypeOK' /\ LoopTypeOK' /\ LockHeld' /\ PendingExact'
<1> USE DEF ServerIInv
<1>1. /\ threadPc \in {"reap", "finish"} /\ lock = "thread"
      /\ UNCHANGED <<phase, failed, output, loopPc, submitting, client>>
      /\ \/ threadPc' = "dead" /\ lock' = "free"
         \/ threadPc' = "finish" /\ UNCHANGED lock
  BY DEF ReapRunning, ReapFinished, Queue, LockHeld, engineVars, loopVars
<1>2. Owed' = Owed /\ LockHeld'
  BY <1>1 DEF Owed, LockHeld
<1>3. loopPc # "register"
  BY <1>1 DEF LockHeld
<1>4. CASE ReapRunning
  <2>1. UNCHANGED <<finished, pending>>
    BY <1>4 DEF ReapRunning, engineVars
  <2> QED BY <1>1, <1>2, <1>3, <2>1 DEF EngineTypeOK, LoopTypeOK, PendingExact
<1>5. CASE ReapFinished
  <2>1. PICK r \in finished : finished' = finished \ {r} /\ pending' = pending \ {r}
    BY <1>5 DEF ReapFinished
  <2>2. EngineTypeOK' /\ LoopTypeOK'
    BY <1>1, <2>1 DEF EngineTypeOK, LoopTypeOK
  <2>3. PendingExact'
    BY <1>1, <1>2, <1>3, <2>1 DEF PendingExact
  <2> QED BY <1>2, <2>2, <2>3
<1> QED BY <1>4, <1>5

-----------------------------------------------------------------------------
\* Every action of the handlers, the thread and the shutdown keeps the invariant.
LEMMA StepIInv ==
  ASSUME ServerIInv, [Next]_vars
  PROVE  ServerIInv'
<1>1. ScalerInv'
  BY PoolStep, ScalerStep DEF ServerIInv
<1>2. EngineTypeOK' /\ LoopTypeOK' /\ LockHeld' /\ PendingExact'
  <2>1. CASE \/ CheckStop \/ Wake \/ Stop \/ JoinReturns \/ Close \/ RunCallback
             \/ \E r \in Requests : BeginSubmit(r) \/ Cancel(r)
             \/ StepQuiet
             \/ UNCHANGED vars
    <3>1. UNCHANGED <<engineVars, pending, lock>>
      BY <2>1 DEF CheckStop, Wake, Stop, JoinReturns, Close, RunCallback, BeginSubmit, Cancel,
        StepQuiet, vars, serverVars
    <3> QED BY <2>1, <3>1, QuietActions
  <2>2. CASE Lock \/ Idle \/ Unlock \/ Acquire
    BY <2>2, LockActions
  <2>3. CASE AddRequest \/ Register
    BY <2>3, HandlerActions
  <2>4. CASE StepEmits \/ StepRaises
    BY <2>4, StepActions
  <2>5. CASE ReapRunning \/ ReapFinished
    BY <2>5, ReapActions
  <2> QED BY <2>1, <2>2, <2>3, <2>4, <2>5 DEF Next, ThreadNext, LoopNext
<1> QED BY <1>1, <1>2 DEF ServerIInv

\* At a free lock nothing waits to be reaped and nobody is registering.
LEMMA IInvImpliesInv ==
  ASSUME ServerIInv
  PROVE  ServerInv
<1> USE DEF ServerIInv
<1>1. ServerTypeOK
  BY DEF ServerTypeOK, EngineTypeOK, LoopTypeOK, ScalerInv
<1>2. PendingMatchesEngine
  BY DEF PendingMatchesEngine, PendingExact, LockHeld, Owed
<1> QED BY <1>1, <1>2 DEF ServerInv

-----------------------------------------------------------------------------
\* The lock protects what it should (server.py:61-66, 90-105): whoever holds it is
\* inside it, and outside it the pending table has an entry for exactly the requests
\* the engine owes an answer, for any number of requests, clients that leave, a
\* step() that raises and a loop that closes.
THEOREM LockProtectsPending == Spec => []ServerInv
<1>1. Init => ServerIInv
  BY InitIInv
<1>2. ServerIInv /\ [Next]_vars => ServerIInv'
  BY StepIInv
<1>3. ServerIInv => ServerInv
  BY IInvImpliesInv
<1> QED BY <1>1, <1>2, <1>3, PTL DEF Spec

\* The pool the server drives by the number of its running requests does not flap
\* (server.py:103-104, autoscale.py:6-7).
THEOREM ServerPoolDoesNotFlap == Spec => NoFlap
<1>1. Init => ServerIInv
  BY InitIInv
<1>2. ServerIInv /\ [Next]_vars => ServerIInv'
  BY StepIInv
<1>3. ServerIInv /\ [Next]_vars
        => [load' = load => lastMove' # -lastMove \/ lastMove = 0]_scalerVars
  BY PoolStep, ScalerStep DEF ServerIInv
<1> QED BY <1>1, <1>2, <1>3, PTL DEF Spec, NoFlap

-----------------------------------------------------------------------------
\* What a frame and a queued callback carry: text as positions, or the tokens of an output.
Datas == Seq(Nat \cup Kinds)

FrameT == [req : Requests, kind : {"chunk", "stop", "[DONE]", "body"}, data : Datas]

EventT == [req : Requests, kind : {"delta", "end", "result"}, data : Datas]

Chunks == {f \in FrameT : f.kind = "chunk"}

\* An answer that may still grow.
Open(a) == a \in Seq(Chunks)

\* An answer that ended at most once, and at its end.
Proper(a) ==
  \A i \in DOMAIN a :
    /\ a[i].kind \in {"[DONE]", "body"} => i = Len(a)
    /\ a[i].kind = "stop" => i = Len(a) - 1

\* Nothing ended in an answer that may still grow, and what grows by an answer that
\* ended as it should, ends as it should.
LEMMA OpenThenProper ==
  ASSUME NEW x, Open(x), NEW y \in Seq(FrameT), Proper(y)
  PROVE  x \in Seq(FrameT) /\ Proper(x) /\ x \o y \in Seq(FrameT) /\ Proper(x \o y)
<1> DEFINE n == Len(x)
           m == Len(y)
<1>1. /\ n \in Nat /\ DOMAIN x = 1..n /\ \A i \in 1..n : x[i] \in Chunks
      /\ m \in Nat /\ DOMAIN y = 1..m
  BY LenProperties DEF Open
<1>2. x \in Seq(FrameT)
  BY <1>1 DEF Open, Chunks
<1>3. Proper(x)
  BY <1>1 DEF Proper, Chunks
<1>4. /\ x \o y \in Seq(FrameT) /\ Len(x \o y) = n + m
      /\ \A i \in 1..(n + m) : (x \o y)[i] = IF i <= n THEN x[i] ELSE y[i - n]
  BY <1>2, ConcatProperties
<1> DEFINE xy == x \o y
<1>5. DOMAIN xy = 1..(n + m) /\ Len(xy) = n + m
  BY <1>4, LenProperties
<1> HIDE DEF n, m
<1>6. ASSUME NEW i \in 1..(n + m)
      PROVE  /\ xy[i].kind \in {"[DONE]", "body"} => i = n + m
             /\ xy[i].kind = "stop" => i = n + m - 1
  <2>1. CASE i <= n
    <3>1. i \in 1..n /\ xy[i] = x[i]
      BY <1>1, <1>4, <2>1
    <3>2. xy[i].kind = "chunk"
      BY <1>1, <3>1 DEF Chunks
    <3> QED BY <3>2
  <2>2. CASE ~(i <= n)
    <3>1. PICK j \in 1..m : j = i - n
      BY <1>1, <2>2
    <3>2. xy[i] = y[j]
      BY <1>4, <2>2, <3>1
    <3>3. (y[j].kind \in {"[DONE]", "body"} => j = m) /\ (y[j].kind = "stop" => j = m - 1)
      BY <1>1 DEF Proper, m
    <3> QED BY <1>1, <3>1, <3>2, <3>3
  <2> QED BY <2>1, <2>2
<1>7. Proper(xy)
  <2> HIDE DEF xy
  <2>1. ASSUME NEW i \in DOMAIN xy
        PROVE  (xy[i].kind \in {"[DONE]", "body"} => i = Len(xy)) /\ (xy[i].kind = "stop" => i = Len(xy) - 1)
    <3>1. i \in 1..(n + m)
      BY <1>5
    <3>2. xy[i].kind \in {"[DONE]", "body"} => i = n + m
      BY <1>6, <3>1
    <3>3. xy[i].kind = "stop" => i = n + m - 1
      BY <1>6, <3>1
    <3> QED BY <1>1, <1>5, <3>2, <3>3
  <2> QED BY <2>1 DEF Proper
<1> QED BY <1>2, <1>3, <1>4, <1>7

\* An answer that has more behind it had not ended, and what is behind it ends as
\* it should.
LEMMA ProperThenMore ==
  ASSUME NEW x \in Seq(FrameT), NEW y \in Seq(FrameT), Proper(x \o y)
  PROVE  Proper(y) /\ (Proper(x) /\ y # <<>> => Open(x))
<1> DEFINE n == Len(x)
           m == Len(y)
           xy == x \o y
<1>1. /\ n \in Nat /\ DOMAIN x = 1..n /\ \A i \in 1..n : x[i] \in FrameT
      /\ m \in Nat /\ DOMAIN y = 1..m
  BY LenProperties
<1>2. /\ xy \in Seq(FrameT) /\ Len(xy) = n + m
      /\ \A i \in 1..(n + m) : xy[i] = IF i <= n THEN x[i] ELSE y[i - n]
  BY ConcatProperties
<1>3. DOMAIN xy = 1..(n + m) /\ Len(xy) = n + m
  BY <1>2, LenProperties
<1> HIDE DEF xy
<1>4. \A i \in 1..(n + m) :
        /\ xy[i].kind \in {"[DONE]", "body"} => i = n + m
        /\ xy[i].kind = "stop" => i = n + m - 1
  BY <1>3 DEF Proper, xy
<1>5. y # <<>> => m # 0
  BY EmptySeq
<1>6. Proper(y)
  <2> HIDE DEF n, m
  <2>1. ASSUME NEW j \in 1..m
        PROVE  (y[j].kind \in {"[DONE]", "body"} => j = m) /\ (y[j].kind = "stop" => j = m - 1)
    <3>1. PICK i \in 1..(n + m) : i = n + j
      BY <1>1
    <3>2. ~(i <= n) /\ i - n = j
      BY <1>1, <3>1
    <3>3. xy[i] = y[j]
      BY <1>2, <3>2
    <3>4. (xy[i].kind \in {"[DONE]", "body"} => i = n + m) /\ (xy[i].kind = "stop" => i = n + m - 1)
      BY <1>4, <3>1
    <3>5. (i = n + m => j = m) /\ (i = n + m - 1 => j = m - 1)
      BY <1>1, <3>1
    <3> QED BY <3>3, <3>4, <3>5
  <2> QED BY <1>1, <2>1 DEF Proper, m
<1> HIDE DEF n, m
<1>7. ASSUME Proper(x), m # 0 PROVE Open(x)
  <2>1. ASSUME NEW i \in 1..n PROVE x[i] \in Chunks
    <3>1. i \in 1..(n + m) /\ i <= n /\ i # n + m
      BY <1>1, <1>7
    <3>2. xy[i] = x[i]
      BY <1>2, <3>1
    <3>3. x[i].kind \notin {"[DONE]", "body"}
      <4>1. xy[i].kind \in {"[DONE]", "body"} => i = n + m
        BY <1>4, <3>1
      <4> QED BY <3>1, <3>2, <4>1
    <3>4. x[i].kind = "stop" => i = n - 1 /\ i = n + m - 1
      BY <1>1, <1>4, <1>7, <3>1, <3>2 DEF Proper, n
    <3>5. x[i].kind # "stop"
      BY <1>1, <1>7, <3>4
    <3>6. x[i] \in FrameT
      BY <1>1
    <3> QED BY <3>3, <3>5, <3>6 DEF FrameT, Chunks
  <2>2. x \in [1..n -> Chunks]
    BY <1>1, <2>1, LenProperties DEF n
  <2>3. x \in Seq(Chunks)
    BY <1>1, <2>2, ListFromFunction
  <2> QED BY <2>3 DEF Open
<1> QED BY <1>5, <1>6, <1>7

\* Two answers that may still grow make one that may, and each part of one may.
LEMMA OpenParts ==
  ASSUME NEW x \in Seq(FrameT), NEW y \in Seq(FrameT)
  PROVE  Open(x \o y) <=> Open(x) /\ Open(y)
<1> DEFINE n == Len(x)
           m == Len(y)
           xy == x \o y
<1>1. ASSUME Open(x), Open(y) PROVE Open(xy)
  BY <1>1, ConcatProperties DEF Open
<1>2. ASSUME Open(xy) PROVE Open(x) /\ Open(y)
  <2>1. n \in Nat /\ x \in [1..n -> FrameT] /\ m \in Nat /\ y \in [1..m -> FrameT]
    BY LenProperties
  <2>2. /\ Len(xy) = n + m
        /\ \A i \in 1..(n + m) : xy[i] = IF i <= n THEN x[i] ELSE y[i - n]
    BY ConcatProperties
  <2>3. \A i \in 1..(n + m) : xy[i] \in Chunks
    BY <1>2, <2>2, LenProperties DEF Open
  <2> HIDE DEF n, m, xy
  <2>4. ASSUME NEW i \in 1..n PROVE x[i] \in Chunks
    <3>1. i \in 1..(n + m) /\ i <= n
      BY <2>1
    <3> QED BY <2>2, <2>3, <3>1
  <2>5. ASSUME NEW j \in 1..m PROVE y[j] \in Chunks
    <3>1. PICK i \in 1..(n + m) : i = n + j
      BY <2>1
    <3>2. ~(i <= n) /\ i - n = j
      BY <2>1, <3>1
    <3> QED BY <2>2, <2>3, <3>2
  <2>6. x \in [1..n -> Chunks] /\ y \in [1..m -> Chunks]
    BY <2>1, <2>4, <2>5
  <2>7. x \in Seq(Chunks) /\ y \in Seq(Chunks)
    BY <2>1, <2>6, ListFromFunction
  <2> QED BY <2>7 DEF Open
<1> QED BY <1>1, <1>2

-----------------------------------------------------------------------------
\* The frames that the callbacks of a list make for a request.
FramesOf(events, r) == [i \in DOMAIN events |-> IF events[i].req = r THEN Frames(events[i]) ELSE <<>>]

Queued(events, r) == FlattenSeq(FramesOf(events, r))

\* One after the other for two lists of callbacks.
QueuedApart(s, t, r) == Queued(s \o t, r) = Queued(s, r) \o Queued(t, r)

\* What a callback makes: a chunk, or the end of an answer.
LEMMA FramesOfEvent ==
  ASSUME NEW e \in EventT
  PROVE  /\ Frames(e) \in Seq(FrameT) /\ Proper(Frames(e)) /\ Frames(e) # <<>>
         /\ e.kind = "delta" => Frames(e) \in Seq(Chunks)
<1>1. e.req \in Requests /\ e.data \in Datas /\ e.kind \in {"delta", "end", "result"}
  BY DEF EventT
<1>2. <<>> \in Datas
  BY DEF Datas
<1>3. CASE e.kind = "delta"
  <2> DEFINE f == Event(e.req, "chunk", e.data)
  <2>1. Frames(e) = <<f>>
    BY <1>3 DEF Frames
  <2>2. f \in Chunks /\ f \in FrameT
    BY <1>1 DEF Event, Chunks, FrameT
  <2> HIDE DEF f
  <2>3. <<f>> \in Seq(Chunks) /\ <<f>> \in Seq(FrameT) /\ <<f>> # <<>>
    BY <2>2
  <2>4. Proper(<<f>>)
    BY <2>2 DEF Proper, Chunks
  <2> QED BY <2>1, <2>3, <2>4
<1>4. CASE e.kind = "end"
  <2> DEFINE f == Event(e.req, "stop", <<>>)
             g == Event(e.req, "[DONE]", <<>>)
  <2>1. Frames(e) = <<f, g>>
    BY <1>4 DEF Frames
  <2>2. f \in FrameT /\ g \in FrameT /\ f.kind = "stop" /\ g.kind = "[DONE]"
    BY <1>1, <1>2 DEF Event, FrameT
  <2> HIDE DEF f, g
  <2>3. <<f, g>> \in Seq(FrameT) /\ <<f, g>> # <<>>
    BY <2>2
  <2>4. Proper(<<f, g>>)
    BY <2>2 DEF Proper
  <2> QED BY <1>4, <2>1, <2>3, <2>4
<1>5. CASE e.kind = "result"
  <2> DEFINE f == Event(e.req, "body", e.data)
  <2>1. Frames(e) = <<f>>
    BY <1>5 DEF Frames
  <2>2. f \in FrameT /\ f.kind = "body"
    BY <1>1 DEF Event, FrameT
  <2> HIDE DEF f
  <2>3. <<f>> \in Seq(FrameT) /\ <<f>> # <<>>
    BY <2>2
  <2>4. Proper(<<f>>)
    BY <2>2 DEF Proper
  <2> QED BY <1>5, <2>1, <2>3, <2>4
<1> QED BY <1>1, <1>3, <1>4, <1>5

\* Callbacks that make only chunks for a request, or nothing.
LEMMA QueuedList ==
  ASSUME NEW events \in Seq(EventT), NEW r, NEW T,
         \A i \in 1..Len(events) : events[i].req = r => Frames(events[i]) \in Seq(T)
  PROVE  FramesOf(events, r) \in Seq(Seq(T)) /\ Queued(events, r) \in Seq(T)
<1>1. Len(events) \in Nat /\ DOMAIN events = 1..Len(events)
  BY LenProperties
<1>2. \A i \in 1..Len(events) : (IF events[i].req = r THEN Frames(events[i]) ELSE <<>>) \in Seq(T)
  OBVIOUS
<1>3. FramesOf(events, r) \in [1..Len(events) -> Seq(T)]
  BY <1>1, <1>2 DEF FramesOf
<1>4. FramesOf(events, r) \in Seq(Seq(T))
  BY <1>1, <1>3, ListFromFunction
<1>5. FlattenSeq(FramesOf(events, r)) \in Seq(T)
  <2>1. <<>> \in Seq(T)
    OBVIOUS
  <2> QED BY <1>4, <2>1, FlattenAppend
<1> QED BY <1>4, <1>5 DEF Queued

\* Any callbacks make frames.
LEMMA QueuedFrames ==
  ASSUME NEW events \in Seq(EventT), NEW r
  PROVE  FramesOf(events, r) \in Seq(Seq(FrameT)) /\ Queued(events, r) \in Seq(FrameT)
<1>1. \A i \in 1..Len(events) : events[i] \in EventT
  BY LenProperties
<1>2. \A i \in 1..Len(events) : Frames(events[i]) \in Seq(FrameT)
  BY <1>1, FramesOfEvent
<1> QED BY <1>2, QueuedList

\* Those of two lists of callbacks follow each other.
LEMMA QueuedConcat ==
  ASSUME NEW s \in Seq(EventT), NEW t \in Seq(EventT), NEW r
  PROVE  QueuedApart(s, t, r)
<1> DEFINE n == Len(s)
           m == Len(t)
           st == s \o t
           fs == FramesOf(s, r)
           ft == FramesOf(t, r)
           fst == FramesOf(st, r)
           L == Seq(FrameT)
<1>1. /\ n \in Nat /\ m \in Nat /\ DOMAIN s = 1..n /\ DOMAIN t = 1..m
  BY LenProperties
<1>2. /\ st \in Seq(EventT) /\ Len(st) = n + m
      /\ \A i \in 1..(n + m) : st[i] = IF i <= n THEN s[i] ELSE t[i - n]
  BY ConcatProperties
<1>3. fs \in Seq(L) /\ ft \in Seq(L) /\ fst \in Seq(L)
  BY <1>2, QueuedFrames
<1>4. DOMAIN st = 1..(n + m)
  BY <1>2, LenProperties
<1>5. DOMAIN fs = 1..n /\ DOMAIN ft = 1..m /\ DOMAIN fst = 1..(n + m)
  BY <1>1, <1>4 DEF FramesOf
<1>6. Len(fs) = n /\ Len(ft) = m /\ Len(fst) = n + m
  <2> HIDE DEF fs, ft, fst
  <2>1. /\ Len(fs) \in Nat /\ Len(ft) \in Nat /\ Len(fst) \in Nat
        /\ DOMAIN fs = 1..Len(fs) /\ DOMAIN ft = 1..Len(ft) /\ DOMAIN fst = 1..Len(fst)
    BY <1>3, LenProperties
  <2> QED BY <1>1, <1>5, <2>1
<1>7. /\ \A i \in 1..n : fs[i] = IF s[i].req = r THEN Frames(s[i]) ELSE <<>>
      /\ \A i \in 1..m : ft[i] = IF t[i].req = r THEN Frames(t[i]) ELSE <<>>
      /\ \A i \in 1..(n + m) : fst[i] = IF st[i].req = r THEN Frames(st[i]) ELSE <<>>
  BY <1>1, <1>4 DEF FramesOf
<1> DEFINE cat == fs \o ft
<1>8. cat \in Seq(L) /\ Len(cat) = n + m /\ \A i \in 1..(n + m) : cat[i] = IF i <= n THEN fs[i] ELSE ft[i - n]
  <2> HIDE DEF fs, ft, L, n, m
  <2>1. /\ fs \o ft \in Seq(L) /\ Len(fs \o ft) = Len(fs) + Len(ft)
        /\ \A i \in 1..(Len(fs) + Len(ft)) : (fs \o ft)[i] = IF i <= Len(fs) THEN fs[i] ELSE ft[i - Len(fs)]
    BY <1>3, ConcatProperties
  <2> QED BY <1>6, <2>1
<1> HIDE DEF n, m, st, fs, ft, fst, cat, L
<1>9. ASSUME NEW i \in 1..(n + m) PROVE fst[i] = cat[i]
  <2>1. CASE i <= n
    <3>1. i \in 1..n
      BY <1>1, <2>1
    <3>2. st[i] = s[i] /\ cat[i] = fs[i]
      BY <1>2, <1>8, <2>1
    <3> QED BY <1>7, <3>1, <3>2
  <2>2. CASE ~(i <= n)
    <3>1. PICK j \in 1..m : j = i - n
      BY <1>1, <2>2
    <3>2. st[i] = t[j] /\ cat[i] = ft[j]
      BY <1>2, <1>8, <2>2, <3>1
    <3> QED BY <1>7, <3>1, <3>2
  <2> QED BY <2>1, <2>2
<1>10. fst = cat
  BY <1>3, <1>6, <1>8, <1>9, SeqEqual
<1>11. FlattensBoth(fs, ft)
  BY <1>3, FlattenConcat DEF L
<1> QED BY <1>10, <1>11 DEF FlattensBoth, QueuedApart, Queued, fs, ft, fst, cat, st

\* One callback makes its frames, for its own request.
LEMMA QueuedOne ==
  ASSUME NEW e \in EventT, NEW r
  PROVE  Queued(<<e>>, r) = IF e.req = r THEN Frames(e) ELSE <<>>
<1> DEFINE one == <<e>>
           x == IF e.req = r THEN Frames(e) ELSE <<>>
<1>1. x \in Seq(FrameT)
  <2>1. Frames(e) \in Seq(FrameT)
    BY FramesOfEvent
  <2> QED BY <2>1
<1>2. FramesOf(one, r) = <<x>>
  <2>1. DOMAIN one = 1..1 /\ one[1] = e
    OBVIOUS
  <2>2. FramesOf(one, r) = [i \in 1..1 |-> x]
    BY <2>1 DEF FramesOf
  <2> HIDE DEF x
  <2>3. <<x>> = [i \in 1..1 |-> x]
    OBVIOUS
  <2> QED BY <2>2, <2>3
<1> HIDE DEF x
<1>3. FlattenSeq(<<x>>) = x
  <2> DEFINE none == <<>>
  <2>1. none \in Seq(Seq(FrameT)) /\ Append(none, x) = <<x>> /\ none \in Seq(FrameT)
    OBVIOUS
  <2>2. FlattenSeq(none) = <<>> /\ FlattensAt(none, x)
    BY <1>1, <2>1, FlattenAppend
  <2>3. <<>> \o x = x
    BY <1>1, ConcatEmptySeq
  <2> QED BY <2>1, <2>2, <2>3 DEF FlattensAt
<1> QED BY <1>2, <1>3 DEF Queued, x

-----------------------------------------------------------------------------
\* The text of an output is a list of positions.
LEMMA TextType ==
  ASSUME NEW tokens \in Seq(Kinds)
  PROVE  Text(tokens) \in Seq(Nat)
<1> DEFINE piece(i) ==
             CASE tokens[i] = "char" -> <<i>>
               [] tokens[i] = "special" -> <<>>
               [] tokens[i] = "lead" -> IF i < Len(tokens) /\ tokens[i + 1] = "trail" THEN <<i>> ELSE <<Unknown>>
               [] tokens[i] = "trail" -> IF i > 1 /\ tokens[i - 1] = "lead" THEN <<>> ELSE <<Unknown>>
           pieces == [i \in DOMAIN tokens |-> piece(i)]
<1>1. Len(tokens) \in Nat /\ DOMAIN tokens = 1..Len(tokens)
      /\ \A i \in 1..Len(tokens) : tokens[i] \in Kinds
  BY LenProperties
<1>2. Text(tokens) = FlattenSeq(pieces)
  BY DEF Text
<1>3. ASSUME NEW i \in 1..Len(tokens) PROVE piece(i) \in Seq(Nat)
  <2>1. tokens[i] \in {"char", "special", "lead", "trail"} /\ i \in Nat
    <3> HIDE DEF piece
    <3>1. tokens[i] \in Kinds /\ i \in Nat
      BY <1>1
    <3> QED BY <3>1, KnownKinds
  <2>2. <<i>> \in Seq(Nat) /\ <<>> \in Seq(Nat) /\ <<Unknown>> \in Seq(Nat)
    BY <2>1 DEF Unknown
  <2>3. piece(i) \in {<<i>>, <<>>, <<Unknown>>}
    BY <2>1
  <2> QED BY <2>2, <2>3
<1> HIDE DEF piece
<1>4. pieces \in [1..Len(tokens) -> Seq(Nat)]
  BY <1>1, <1>3
<1>5. pieces \in Seq(Seq(Nat))
  BY <1>1, <1>4, ListFromFunction
<1> HIDE DEF pieces
<1>6. FlattenSeq(pieces) \in Seq(Nat)
  <2>1. <<>> \in Seq(Nat)
    OBVIOUS
  <2> QED BY <1>5, <2>1, FlattenAppend
<1> QED BY <1>2, <1>6

\* The callbacks that bring requests of S more text.
DeltasFor(S) == {e \in EventT : e.kind = "delta" /\ e.req \in S}

\* What _push_delta queues, and what it keeps.
LEMMA DeltaTypes ==
  ASSUME output \in [Requests -> Seq(Kinds)], decoded \in [Requests -> Seq(Nat)],
         NEW r \in Requests
  PROVE  DecodedAfter(r) \in Seq(Nat) /\ DeltaOf(r) \in Seq(DeltasFor({r}))
<1> DEFINE full == Text(output[r])
           n == Len(decoded[r])
           rest == SubSeq(full, n + 1, Len(full))
<1>1. decoded[r] \in Seq(Nat) /\ full \in Seq(Nat) /\ n \in Nat /\ Len(full) \in Nat
  <2>1. decoded[r] \in Seq(Nat) /\ output[r] \in Seq(Kinds)
    OBVIOUS
  <2>2. full \in Seq(Nat)
    BY <2>1, TextType
  <2> HIDE DEF full
  <2> QED BY <2>1, <2>2, LenProperties
<1>2. DecodedAfter(r) \in Seq(Nat)
  BY <1>1 DEF DecodedAfter
<1>3. DeltaOf(r) = IF Len(full) > n THEN <<Event(r, "delta", rest)>> ELSE <<>>
  BY DEF DeltaOf
<1> HIDE DEF full, n
<1>4. ASSUME Len(full) > n PROVE Event(r, "delta", rest) \in DeltasFor({r})
  <2>1. n \in 0..Len(full)
    BY <1>1, <1>4
  <2>2. rest \in Seq(Nat)
    BY <1>1, <2>1, Halves
  <2> HIDE DEF rest
  <2>3. rest \in Datas
    <3>1. Nat \subseteq Nat \cup Kinds
      OBVIOUS
    <3> QED BY <2>2, <3>1, ListOfMore DEF Datas
  <2> QED BY <2>3 DEF Event, EventT, DeltasFor
<1> HIDE DEF rest
<1> DEFINE e == Event(r, "delta", rest)
<1> HIDE DEF e
<1>5. DeltaOf(r) \in Seq(DeltasFor({r}))
  <2>1. CASE Len(full) > n
    <3>1. e \in DeltasFor({r}) /\ DeltaOf(r) = <<e>>
      BY <1>3, <1>4, <2>1 DEF e
    <3> QED BY <3>1
  <2>2. CASE ~(Len(full) > n)
    <3>1. DeltaOf(r) = <<>>
      BY <1>3, <2>2
    <3> QED BY <3>1
  <2> QED BY <2>1, <2>2
<1> QED BY <1>2, <1>5

\* More text keeps an answer open, and is nobody else's.
LEMMA QueuedDeltas ==
  ASSUME NEW S, NEW events \in Seq(DeltasFor(S)), NEW r
  PROVE  events \in Seq(EventT) /\ Open(Queued(events, r)) /\ (r \notin S => Queued(events, r) = <<>>)
<1>1. events \in Seq(EventT)
  BY DEF DeltasFor
<1>2. \A i \in 1..Len(events) : events[i] \in DeltasFor(S)
  BY LenProperties
<1>3. \A i \in 1..Len(events) : events[i] \in EventT /\ events[i].kind = "delta" /\ events[i].req \in S
  BY <1>2 DEF DeltasFor
<1>4. \A i \in 1..Len(events) : Frames(events[i]) \in Seq(Chunks)
  BY <1>3, FramesOfEvent
<1>5. Open(Queued(events, r))
  BY <1>1, <1>4, QueuedList DEF Open
<1>6. ASSUME r \notin S PROVE Queued(events, r) = <<>>
  <2>1. \A i \in 1..Len(events) : events[i].req = r => Frames(events[i]) \in Seq({})
    BY <1>3, <1>6
  <2>2. Queued(events, r) \in Seq({})
    BY <1>1, <2>1, QueuedList
  <2> DEFINE q == Queued(events, r)
  <2> HIDE DEF q
  <2>3. q \in Seq({}) => q = <<>>
    <3> SUFFICES ASSUME q \in Seq({}) PROVE q = <<>>
      OBVIOUS
    <3>1. Len(q) \in Nat /\ \A i \in 1..Len(q) : q[i] \in {}
      BY LenProperties
    <3>2. Len(q) = 0
      <4> SUFFICES ASSUME Len(q) # 0 PROVE FALSE
        OBVIOUS
      <4>1. 1 \in 1..Len(q)
        BY <3>1
      <4> QED BY <3>1, <4>1
    <3> QED BY <3>2, EmptySeq
  <2> QED BY <2>2, <2>3 DEF q
<1> QED BY <1>1, <1>5, <1>6

\* The last callbacks for a request end its answer and touch no other.
LEMMA QueuedFinal ==
  ASSUME output \in [Requests -> Seq(Kinds)], decoded \in [Requests -> Seq(Nat)],
         NEW r \in Requests, NEW q
  PROVE  /\ FinalEvents(r) \in Seq(EventT) /\ Proper(Queued(FinalEvents(r), q))
         /\ q # r => Queued(FinalEvents(r), q) = <<>>
<1>0. <<>> \in Datas /\ output[r] \in Datas /\ Proper(<<>>)
  BY DEF Datas, Proper
<1>1. CASE r \in Streams
  <2> DEFINE e == Event(r, "end", <<>>)
             d == DeltaOf(r)
  <2>1. FinalEvents(r) = d \o <<e>>
    BY <1>1 DEF FinalEvents
  <2>2. d \in Seq(DeltasFor({r}))
    BY DeltaTypes
  <2>3. d \in Seq(EventT) /\ Open(Queued(d, q)) /\ (q # r => Queued(d, q) = <<>>)
    <3> HIDE DEF d
    <3> QED BY <2>2, QueuedDeltas
  <2>4. e \in EventT /\ e.req = r
    BY <1>0 DEF Event, EventT
  <2> HIDE DEF d, e
  <2>5. <<e>> \in Seq(EventT) /\ Queued(<<e>>, q) = IF r = q THEN Frames(e) ELSE <<>>
    BY <2>4, QueuedOne
  <2>6. /\ Queued(<<e>>, q) \in Seq(FrameT) /\ Proper(Queued(<<e>>, q))
        /\ q # r => Queued(<<e>>, q) = <<>>
    <3>1. Frames(e) \in Seq(FrameT) /\ Proper(Frames(e))
      BY <2>4, FramesOfEvent
    <3>2. <<>> \in Seq(FrameT)
      OBVIOUS
    <3>3. CASE r = q
      BY <2>5, <3>1, <3>3
    <3>4. CASE r # q
      BY <1>0, <2>5, <3>2, <3>4
    <3> QED BY <3>3, <3>4
  <2>7. d \o <<e>> \in Seq(EventT)
    BY <2>3, <2>5, ConcatProperties
  <2>8. Queued(d \o <<e>>, q) = Queued(d, q) \o Queued(<<e>>, q)
    BY <2>3, <2>5, QueuedConcat DEF QueuedApart
  <2>9. Proper(Queued(d, q) \o Queued(<<e>>, q))
    BY <2>3, <2>6, OpenThenProper
  <2>10. q # r => Queued(d \o <<e>>, q) = <<>>
    <3>1. <<>> \o <<>> = <<>>
      OBVIOUS
    <3> QED BY <2>3, <2>6, <2>8, <3>1
  <2> QED BY <2>1, <2>7, <2>8, <2>9, <2>10
<1>2. CASE r \notin Streams
  <2> DEFINE e == Event(r, "result", output[r])
  <2>1. FinalEvents(r) = <<e>>
    BY <1>2 DEF FinalEvents
  <2>2. e \in EventT /\ e.req = r
    BY <1>0 DEF Event, EventT
  <2> HIDE DEF e
  <2>3. <<e>> \in Seq(EventT) /\ Queued(<<e>>, q) = IF r = q THEN Frames(e) ELSE <<>>
    BY <2>2, QueuedOne
  <2>4. Proper(Frames(e))
    BY <2>2, FramesOfEvent
  <2> QED BY <1>0, <2>1, <2>3, <2>4
<1> QED BY <1>1, <1>2

-----------------------------------------------------------------------------
AnswerTypeOK ==
  /\ ready \in Seq(EventT)
  /\ got \in [Requests -> Seq(FrameT)]
  /\ decoded \in [Requests -> Seq(Nat)]

\* What was sent, and what will be, ends as it should.
AnswersEnd == \A r \in Requests : Proper(got[r]) /\ Proper(Answers(r))

\* Nothing ended yet for a request that is pending, or that did not reach the engine.
AnswersOpen ==
  \A r \in Requests : r \in pending \/ client[r] \in {"absent", "submitting"} => Open(Answers(r))

\* Who is pending left the lock, and who is at the lock is not pending.
Waiting ==
  /\ \A r \in pending : client[r] \notin {"absent", "submitting"}
  /\ loopPc \in {"acquire", "submit", "register"} => client[submitting] = "submitting"

AnswerIInv == ServerIInv /\ AnswerTypeOK /\ AnswersEnd /\ AnswersOpen /\ Waiting

\* Nothing is answered initially.
LEMMA InitAnswer ==
  ASSUME Init
  PROVE  AnswerIInv
<1>1. <<>> \in Seq(EventT) /\ <<>> \in Seq(FrameT) /\ <<>> \in Seq(Nat) /\ <<>> \in Seq(Chunks)
  OBVIOUS
<1>2. AnswerTypeOK
  BY <1>1 DEF Init, AnswerTypeOK
<1>3. \A r \in Requests : got[r] = <<>> /\ Answers(r) = <<>>
  <2> SUFFICES ASSUME NEW r \in Requests PROVE got[r] = <<>> /\ Answers(r) = <<>>
    OBVIOUS
  <2>1. got[r] = <<>> /\ ready = <<>>
    BY DEF Init
  <2>2. FramesOf(<<>>, r) = <<>>
    BY DEF FramesOf
  <2>3. FlattenSeq(<<>>) = <<>>
    BY DEF FlattenSeq
  <2>4. Answers(r) = got[r] \o FlattenSeq(FramesOf(ready, r))
    BY DEF Answers, FramesOf
  <2>5. <<>> \o <<>> = <<>>
    OBVIOUS
  <2> QED BY <2>1, <2>2, <2>3, <2>4, <2>5
<1>4. AnswersEnd
  BY <1>3 DEF AnswersEnd, Proper
<1>5. AnswersOpen
  BY <1>1, <1>3 DEF AnswersOpen, Open
<1>6. Waiting
  BY DEF Init, Waiting
<1> QED BY <1>2, <1>4, <1>5, <1>6, InitIInv DEF AnswerIInv

\* What a request was sent and what is queued for it.
LEMMA AnswersAre ==
  ASSUME AnswerIInv, NEW r \in Requests
  PROVE  /\ Answers(r) = got[r] \o Queued(ready, r)
         /\ got[r] \in Seq(FrameT) /\ Queued(ready, r) \in Seq(FrameT) /\ Answers(r) \in Seq(FrameT)
<1>1. Answers(r) = got[r] \o Queued(ready, r)
  BY DEF Answers, Queued, FramesOf
<1>2. got[r] \in Seq(FrameT) /\ Queued(ready, r) \in Seq(FrameT)
  BY QueuedFrames DEF AnswerIInv, AnswerTypeOK
<1> QED BY <1>1, <1>2, ConcatProperties

\* Callbacks queued behind the others go to the end of the answers.
LEMMA AnswersQueued ==
  ASSUME AnswerIInv, NEW events \in Seq(EventT), UNCHANGED got, ready' = ready \o events
  PROVE  \A r \in Requests : Answers(r)' = Answers(r) \o Queued(events, r)
<1> SUFFICES ASSUME NEW r \in Requests PROVE Answers(r)' = Answers(r) \o Queued(events, r)
  OBVIOUS
<1>1. Answers(r)' = got[r] \o Queued(ready', r)
  BY DEF Answers, Queued, FramesOf
<1>2. /\ Answers(r) = got[r] \o Queued(ready, r)
      /\ got[r] \in Seq(FrameT) /\ Queued(ready, r) \in Seq(FrameT)
  BY AnswersAre
<1>3. Queued(ready', r) = Queued(ready, r) \o Queued(events, r)
  BY QueuedConcat DEF QueuedApart, AnswerIInv, AnswerTypeOK
<1>4. Queued(events, r) \in Seq(FrameT)
  BY QueuedFrames
<1>5. Regroups(got[r], Queued(ready, r), Queued(events, r))
  BY <1>2, <1>4, Joined
<1> QED BY <1>1, <1>2, <1>3, <1>5 DEF Regroups

\* So the answers keep what they had.
LEMMA AnswersGrow ==
  ASSUME AnswerIInv, NEW events \in Seq(EventT), UNCHANGED got,
         UNCHANGED ready \/ ready' = ready \o events
  PROVE  /\ ready' \in Seq(EventT)
         /\ \A r \in Requests : Answers(r)' \in {Answers(r), Answers(r) \o Queued(events, r)}
<1>1. ready \in Seq(EventT)
  BY DEF AnswerIInv, AnswerTypeOK
<1>2. CASE UNCHANGED ready
  BY <1>1, <1>2 DEF Answers
<1>3. CASE ready' = ready \o events
  <2>1. \A r \in Requests : Answers(r)' = Answers(r) \o Queued(events, r)
    BY <1>3, AnswersQueued
  <2>2. ready' \in Seq(EventT)
    BY <1>1, <1>3, ConcatProperties
  <2> QED BY <2>1, <2>2
<1> QED BY <1>2, <1>3

\* The actions that queue nothing and send nothing.
LEMMA SilentActions ==
  ASSUME AnswerIInv, [Next]_vars,
         ~RunCallback, ~ReapRunning, ~ReapFinished
  PROVE  AnswerTypeOK' /\ AnswersEnd' /\ AnswersOpen' /\ Waiting'
<1>1. UNCHANGED <<ready, got, decoded>>
  BY DEF Next, ThreadNext, LoopNext, vars, CheckStop, Lock, Idle, Wake, StepEmits,
    StepQuiet, StepRaises, Unlock, Acquire, AddRequest, Register, JoinReturns, Close,
    Stop, BeginSubmit, Cancel, serverVars, loopVars
<1>2. AnswerTypeOK' /\ AnswersEnd' /\ \A r \in Requests : Answers(r)' = Answers(r)
  BY <1>1 DEF AnswerIInv, AnswerTypeOK, AnswersEnd, Answers
<1>3. client \in [Requests -> {"absent", "submitting", "awaiting", "done", "cancelled"}]
      /\ pending \subseteq Requests
      /\ (loopPc \in {"acquire", "submit", "register"} => submitting \in Requests)
  BY DEF AnswerIInv, ServerIInv, LoopTypeOK
<1> USE DEF AnswerIInv
<1>4. CASE Register
  <2>1. /\ loopPc = "register" /\ loopPc' = "ready" /\ submitting \in Requests
        /\ pending' = pending \cup {submitting}
        /\ client' = [client EXCEPT ![submitting] = "awaiting"]
    BY <1>3, <1>4 DEF Register
  <2>2. Open(Answers(submitting)) /\ client[submitting] = "submitting"
    BY <2>1 DEF AnswersOpen, Waiting
  <2>3. AnswersOpen'
    BY <1>2, <1>3, <2>1, <2>2 DEF AnswersOpen
  <2>4. Waiting'
    BY <1>3, <2>1 DEF Waiting
  <2> QED BY <1>2, <2>3, <2>4
<1>5. CASE \E r \in Requests : BeginSubmit(r)
  <2>1. PICK r \in Requests : /\ client[r] = "absent" /\ submitting' = r /\ UNCHANGED pending
                              /\ client' = [client EXCEPT ![r] = "submitting"]
    BY <1>5 DEF BeginSubmit, serverVars
  <2>2. AnswersOpen'
    BY <1>2, <1>3, <2>1 DEF AnswersOpen
  <2>3. Waiting'
    BY <1>3, <2>1 DEF Waiting
  <2> QED BY <1>2, <2>2, <2>3
<1>6. CASE \E r \in Requests : Cancel(r)
  <2>1. PICK r \in Requests : /\ client[r] = "awaiting" /\ UNCHANGED <<pending, submitting, loopPc>>
                              /\ client' = [client EXCEPT ![r] = "cancelled"]
    BY <1>6 DEF Cancel, serverVars
  <2>2. AnswersOpen'
    BY <1>2, <1>3, <2>1 DEF AnswersOpen
  <2>3. Waiting'
    BY <1>3, <2>1 DEF Waiting
  <2> QED BY <1>2, <2>2, <2>3
<1>7. CASE ~(Register \/ \E r \in Requests : BeginSubmit(r) \/ Cancel(r))
  <2>1. UNCHANGED <<client, pending, submitting>>
    BY <1>7 DEF Next, ThreadNext, LoopNext, vars, CheckStop, Lock, Idle, Wake, StepEmits,
      StepQuiet, StepRaises, Unlock, Acquire, AddRequest, JoinReturns, Close, Stop,
      serverVars, loopVars
  <2>2. loopPc' \in {"acquire", "submit", "register"} => loopPc \in {"acquire", "submit", "register"}
    BY <1>7 DEF Next, ThreadNext, LoopNext, vars, CheckStop, Lock, Idle, Wake, StepEmits,
      StepQuiet, StepRaises, Unlock, Acquire, AddRequest, JoinReturns, Close, Stop,
      serverVars, loopVars
  <2> QED BY <1>2, <2>1, <2>2 DEF AnswersOpen, Waiting
<1> QED BY <1>4, <1>5, <1>6, <1>7

\* The handler of a queued callback takes its frames, or is gone.
LEMMA CallbackAnswers ==
  ASSUME AnswerIInv, RunCallback
  PROVE  AnswerTypeOK' /\ AnswersEnd' /\ AnswersOpen' /\ Waiting'
<1> DEFINE e == Head(ready)
           t == Tail(ready)
           f == Frames(e)
<1>1. /\ e \in EventT /\ t \in Seq(EventT) /\ ready = <<e>> \o t
      /\ f \in Seq(FrameT) /\ Proper(f) /\ f # <<>>
  <2>1. ready \in Seq(EventT) /\ ready # <<>>
    BY DEF AnswerIInv, AnswerTypeOK, RunCallback
  <2>2. e \in EventT /\ t \in Seq(EventT)
    BY <2>1, HeadAndTail
  <2>3. ready = <<e>> \o t
    BY <2>1
  <2> QED BY <2>2, <2>3, FramesOfEvent
<1>2. /\ ready' = t
      /\ got' = IF client[e.req] = "awaiting" THEN [got EXCEPT ![e.req] = @ \o f] ELSE got
      /\ client' = IF client[e.req] = "awaiting" /\ e.kind \in {"end", "result"}
                   THEN [client EXCEPT ![e.req] = "done"] ELSE client
      /\ UNCHANGED <<pending, decoded, loopPc, submitting>>
  BY DEF RunCallback, serverVars
<1> HIDE DEF f, t, e
<1>3. e.req \in Requests
  BY <1>1 DEF EventT
<1>4. /\ client \in [Requests -> {"absent", "submitting", "awaiting", "done", "cancelled"}]
      /\ pending \subseteq Requests
      /\ (loopPc \in {"acquire", "submit", "register"} => submitting \in Requests)
      /\ got \in [Requests -> Seq(FrameT)]
  BY DEF AnswerIInv, AnswerTypeOK, ServerIInv, LoopTypeOK
<1>5. \A r \in Requests : client'[r] = client[r] \/ (client[r] = "awaiting" /\ client'[r] = "done")
  BY <1>2, <1>3, <1>4
<1>6. Waiting'
  BY <1>2, <1>4, <1>5 DEF AnswerIInv, Waiting
<1>7. AnswerTypeOK'
  <2>1. got[e.req] \o f \in Seq(FrameT)
    BY <1>1, <1>3, <1>4, ConcatProperties
  <2>2. got' \in [Requests -> Seq(FrameT)]
    BY <1>2, <1>3, <1>4, <2>1
  <2> QED BY <1>1, <1>2, <2>2 DEF AnswerIInv, AnswerTypeOK
<1>8. ASSUME NEW r \in Requests
      PROVE  Proper(got[r])' /\ Proper(Answers(r))' /\ (Open(Answers(r)) => Open(Answers(r))')
  <2> DEFINE g == got[r]
             q == Queued(t, r)
  <2>1. g \in Seq(FrameT) /\ q \in Seq(FrameT) /\ Proper(g) /\ Proper(Answers(r))
    BY <1>1, <1>4, QueuedFrames DEF AnswerIInv, AnswersEnd
  <2>2. Answers(r)' = got'[r] \o q
    BY <1>2 DEF Answers, Queued, FramesOf
  <2>3. Answers(r) = g \o (Queued(<<e>>, r) \o q)
    <3>1. Answers(r) = g \o Queued(ready, r)
      BY AnswersAre
    <3>2. Queued(<<e>> \o t, r) = Queued(<<e>>, r) \o q
      <4>1. <<e>> \in Seq(EventT)
        BY <1>1
      <4> QED BY <1>1, <4>1, QueuedConcat DEF QueuedApart
    <3> QED BY <1>1, <3>1, <3>2
  <2>4. Queued(<<e>>, r) = IF e.req = r THEN f ELSE <<>>
    BY <1>1, QueuedOne DEF f
  <2> HIDE DEF g, q
  <2>5. CASE e.req # r
    <3>1. <<>> \o q = q /\ got'[r] = g
      BY <1>2, <1>3, <1>4, <2>1, <2>5, ConcatEmptySeq DEF g
    <3> QED BY <2>1, <2>2, <2>3, <2>4, <2>5, <3>1
  <2>6. CASE e.req = r
    <3> DEFINE fq == f \o q
    <3>1. Answers(r) = g \o fq /\ fq \in Seq(FrameT) /\ fq # <<>>
      <4>1. fq \in Seq(FrameT)
        BY <1>1, <2>1, ConcatProperties
      <4>2. fq # <<>>
        BY <1>1, <2>1, ConcatEqualIffEmpty
      <4> QED BY <2>3, <2>4, <2>6, <4>1, <4>2
    <3> HIDE DEF fq
    <3>2. Proper(g \o fq)
      BY <2>1, <3>1
    <3>3. Open(g) /\ Proper(fq)
      BY <2>1, <3>1, <3>2, ProperThenMore
    <3>4. CASE client[r] = "awaiting"
      <4>1. got'[r] = g \o f
        BY <1>2, <1>4, <2>6, <3>4 DEF g
      <4>2. Regroups(g, f, q)
        BY <1>1, <2>1, Joined
      <4>3. Answers(r)' = Answers(r)
        BY <2>2, <3>1, <4>1, <4>2 DEF Regroups, fq
      <4>4. Proper(g \o f)
        BY <1>1, <3>3, OpenThenProper
      <4> QED BY <2>1, <4>1, <4>3, <4>4
    <3>5. CASE client[r] # "awaiting"
      <4>1. got'[r] = g
        BY <1>2, <2>6, <3>5 DEF g
      <4>2. Proper(q)
        BY <1>1, <2>1, <3>3, ProperThenMore DEF fq
      <4>3. Proper(g \o q)
        BY <2>1, <3>3, <4>2, OpenThenProper
      <4>4. Open(Answers(r)) => Open(g \o q)
        <5>1. Open(g \o fq) => Open(fq)
          BY <2>1, <3>1, OpenParts
        <5>2. Open(fq) => Open(q)
          BY <1>1, <2>1, OpenParts DEF fq
        <5>3. Open(q) => Open(g \o q)
          BY <2>1, <3>3, OpenParts
        <5> QED BY <3>1, <5>1, <5>2, <5>3
      <4> QED BY <2>1, <2>2, <4>1, <4>3, <4>4
    <3> QED BY <3>4, <3>5
  <2> QED BY <2>5, <2>6
<1>9. AnswersEnd'
  BY <1>8 DEF AnswersEnd
<1>10. AnswersOpen'
  BY <1>2, <1>5, <1>8 DEF AnswerIInv, AnswersOpen
<1> QED BY <1>6, <1>7, <1>9, <1>10

\* _reap brings more text to the streams that run.
LEMMA ReapRunningAnswers ==
  ASSUME AnswerIInv, ReapRunning
  PROVE  AnswerTypeOK' /\ AnswersEnd' /\ AnswersOpen' /\ Waiting'
<1> DEFINE streams == pending \cap EngineRunning \cap Streams
           list == SetToSeq(streams)
           deltas == [i \in DOMAIN list |-> DeltaOf(list[i])]
           events == FlattenSeq(deltas)
<1>1. /\ UNCHANGED ready \/ ready' = ready \o events
      /\ decoded' = [r \in Requests |-> IF r \in streams THEN DecodedAfter(r) ELSE decoded[r]]
      /\ UNCHANGED <<got, pending, client, loopPc, submitting>>
  BY DEF ReapRunning, Queue, loopVars
<1>2. /\ output \in [Requests -> Seq(Kinds)] /\ decoded \in [Requests -> Seq(Nat)]
      /\ pending \subseteq Requests
  BY DEF AnswerIInv, AnswerTypeOK, ServerIInv, EngineTypeOK, LoopTypeOK
<1>3. IsFiniteSet(streams) /\ streams \subseteq Requests /\ streams \subseteq pending
  <2>1. streams \subseteq Requests
    BY <1>2
  <2> QED BY <2>1, LoadsCoverRequests, FS_Subset
<1>4. list \in Seq(streams)
  BY <1>3, SetToSeqProperties
<1> HIDE DEF streams, list
<1>5. events \in Seq(DeltasFor(streams))
  <2>1. Len(list) \in Nat /\ DOMAIN list = 1..Len(list) /\ \A i \in 1..Len(list) : list[i] \in streams
    BY <1>4, LenProperties
  <2>2. ASSUME NEW i \in 1..Len(list) PROVE DeltaOf(list[i]) \in Seq(DeltasFor(streams))
    <3>1. list[i] \in Requests /\ {list[i]} \subseteq streams
      BY <1>3, <2>1
    <3>2. DeltaOf(list[i]) \in Seq(DeltasFor({list[i]}))
      BY <1>2, <3>1, DeltaTypes
    <3>3. DeltasFor({list[i]}) \subseteq DeltasFor(streams)
      BY <3>1 DEF DeltasFor
    <3> QED BY <3>2, <3>3, ListOfMore
  <2>3. deltas \in [1..Len(list) -> Seq(DeltasFor(streams))]
    BY <2>1, <2>2
  <2>4. deltas \in Seq(Seq(DeltasFor(streams)))
    BY <2>1, <2>3, ListFromFunction
  <2> HIDE DEF deltas
  <2>5. <<>> \in Seq(DeltasFor(streams))
    OBVIOUS
  <2> QED BY <2>4, <2>5, FlattenAppend
<1> HIDE DEF events
<1>6. events \in Seq(EventT)
  BY <1>5, QueuedDeltas
<1>7. /\ ready' \in Seq(EventT)
      /\ \A r \in Requests : Answers(r)' \in {Answers(r), Answers(r) \o Queued(events, r)}
  BY <1>1, <1>6, AnswersGrow
<1>8. ASSUME NEW r \in Requests
      PROVE  Proper(Answers(r))' /\ (Open(Answers(r)) => Open(Answers(r))')
  <2>1. Answers(r) \in Seq(FrameT) /\ Proper(Answers(r))
    BY AnswersAre DEF AnswerIInv, AnswersEnd
  <2>2. Open(Queued(events, r)) /\ (r \notin streams => Queued(events, r) = <<>>)
    BY <1>5, QueuedDeltas
  <2>3. CASE r \in streams
    <3>1. Open(Answers(r))
      BY <1>3, <2>3 DEF AnswerIInv, AnswersOpen
    <3>2. Queued(events, r) \in Seq(FrameT)
      BY <1>6, QueuedFrames
    <3>3. Open(Answers(r) \o Queued(events, r))
      BY <2>1, <2>2, <3>1, <3>2, OpenParts
    <3>4. Open(Answers(r))'
      BY <1>7, <3>1, <3>3
    <3>5. Proper(Answers(r))'
      <4>1. \A a : Open(a) => Proper(a)
        <5> SUFFICES ASSUME NEW a, Open(a) PROVE Proper(a)
          OBVIOUS
        <5>1. <<>> \in Seq(FrameT) /\ Proper(<<>>)
          BY DEF Proper
        <5> QED BY <5>1, OpenThenProper
      <4> QED BY <1>7, <2>1, <3>3, <4>1
    <3> QED BY <3>4, <3>5
  <2>4. CASE r \notin streams
    <3>1. Answers(r) \o <<>> = Answers(r)
      BY <2>1, ConcatEmptySeq
    <3>2. Answers(r)' = Answers(r)
      BY <1>7, <2>2, <2>4, <3>1
    <3> QED BY <2>1, <3>2
  <2> QED BY <2>3, <2>4
<1>9. AnswerTypeOK'
  <2>1. \A r \in Requests : (IF r \in streams THEN DecodedAfter(r) ELSE decoded[r]) \in Seq(Nat)
    BY <1>2, DeltaTypes
  <2>2. decoded' \in [Requests -> Seq(Nat)]
    BY <1>1, <2>1
  <2> QED BY <1>1, <1>7, <2>2 DEF AnswerIInv, AnswerTypeOK
<1>10. AnswersEnd'
  BY <1>1, <1>8 DEF AnswerIInv, AnswersEnd
<1>11. AnswersOpen' /\ Waiting'
  BY <1>1, <1>8 DEF AnswerIInv, AnswersOpen, Waiting
<1> QED BY <1>9, <1>10, <1>11

\* _reap ends the answer of a finished request, with its entry.
LEMMA ReapFinishedAnswers ==
  ASSUME AnswerIInv, ReapFinished
  PROVE  AnswerTypeOK' /\ AnswersEnd' /\ AnswersOpen' /\ Waiting'
<1> DEFINE f == CHOOSE r \in finished : TRUE
           events == IF f \in pending THEN FinalEvents(f) ELSE <<>>
<1>1. /\ UNCHANGED ready \/ ready' = ready \o events
      /\ decoded' = [decoded EXCEPT ![f] = DecodedAfter(f)]
      /\ pending' = pending \ {f}
      /\ UNCHANGED <<got, client, loopPc, submitting>>
  BY DEF ReapFinished, Queue, loopVars
<1>2. /\ output \in [Requests -> Seq(Kinds)] /\ decoded \in [Requests -> Seq(Nat)]
      /\ pending \subseteq Requests /\ f \in Requests
  BY DEF AnswerIInv, AnswerTypeOK, ServerIInv, EngineTypeOK, LoopTypeOK, ReapFinished
<1> HIDE DEF f
<1>3. /\ events \in Seq(EventT)
      /\ \A r \in Requests : /\ Proper(Queued(events, r))
                             /\ Queued(events, r) = <<>> \/ (r = f /\ f \in pending)
  <2>1. CASE f \in pending
    BY <1>2, <2>1, QueuedFinal
  <2>2. CASE f \notin pending
    <3>1. events = <<>> /\ events \in Seq(EventT)
      BY <2>2
    <3>2. \A r : Queued(<<>>, r) = <<>>
      <4> TAKE r
      <4>1. FramesOf(<<>>, r) = <<>> /\ FlattenSeq(<<>>) = <<>>
        BY DEF FramesOf, FlattenSeq
      <4> QED BY <4>1 DEF Queued
    <3>3. Proper(<<>>)
      BY DEF Proper
    <3> QED BY <3>1, <3>2, <3>3
  <2> QED BY <2>1, <2>2
<1> HIDE DEF events
<1>4. /\ ready' \in Seq(EventT)
      /\ \A r \in Requests : Answers(r)' \in {Answers(r), Answers(r) \o Queued(events, r)}
  BY <1>1, <1>3, AnswersGrow
<1>5. ASSUME NEW r \in Requests
      PROVE  Proper(Answers(r))' /\ (Answers(r)' = Answers(r) \/ (r = f /\ f \in pending))
  <2>1. Answers(r) \in Seq(FrameT) /\ Proper(Answers(r))
    BY AnswersAre DEF AnswerIInv, AnswersEnd
  <2>2. CASE Queued(events, r) = <<>>
    <3>1. Answers(r) \o <<>> = Answers(r)
      BY <2>1, ConcatEmptySeq
    <3>2. Answers(r)' = Answers(r)
      BY <1>4, <2>2, <3>1
    <3> QED BY <2>1, <3>2
  <2>3. CASE r = f /\ f \in pending
    <3>1. Open(Answers(r))
      BY <2>3 DEF AnswerIInv, AnswersOpen
    <3>2. Queued(events, r) \in Seq(FrameT) /\ Proper(Queued(events, r))
      BY <1>3, QueuedFrames
    <3>3. Proper(Answers(r) \o Queued(events, r))
      BY <3>1, <3>2, OpenThenProper
    <3> QED BY <1>4, <2>1, <2>3, <3>3
  <2> QED BY <1>3, <2>2, <2>3
<1>6. AnswerTypeOK'
  <2>1. DecodedAfter(f) \in Seq(Nat)
    BY <1>2, DeltaTypes
  <2>2. decoded' \in [Requests -> Seq(Nat)]
    BY <1>1, <1>2, <2>1
  <2> QED BY <1>1, <1>4, <2>2 DEF AnswerIInv, AnswerTypeOK
<1>7. AnswersEnd'
  BY <1>1, <1>5 DEF AnswerIInv, AnswersEnd
<1>8. AnswersOpen'
  <2> SUFFICES ASSUME NEW r \in Requests, r \in pending' \/ client'[r] \in {"absent", "submitting"}
               PROVE  Open(Answers(r))'
    BY DEF AnswersOpen
  <2>1. ~(r = f /\ f \in pending)
    BY <1>1 DEF AnswerIInv, Waiting
  <2>2. Open(Answers(r))
    BY <1>1 DEF AnswerIInv, AnswersOpen
  <2> QED BY <1>5, <2>1, <2>2
<1>9. Waiting'
  BY <1>1 DEF AnswerIInv, Waiting
<1> QED BY <1>6, <1>7, <1>8, <1>9

\* A client is answered at most once and nothing comes after the answer
\* (server.py:118-140): no second set_result, no delta behind the sentinel, for any
\* number of requests, clients that leave and a loop that closes meanwhile.
THEOREM AnsweredAtMostOnce == Spec => []AnsweredOnce
<1>1. Init => AnswerIInv
  BY InitAnswer
<1>2. AnswerIInv /\ [Next]_vars => AnswerIInv'
  <2> SUFFICES ASSUME AnswerIInv, [Next]_vars PROVE AnswerIInv'
    OBVIOUS
  <2>1. ServerIInv'
    BY StepIInv DEF AnswerIInv
  <2>2. AnswerTypeOK' /\ AnswersEnd' /\ AnswersOpen' /\ Waiting'
    BY SilentActions, CallbackAnswers, ReapRunningAnswers, ReapFinishedAnswers
  <2> QED BY <2>1, <2>2 DEF AnswerIInv
<1>3. AnswerIInv => AnsweredOnce
  BY DEF AnswerIInv, AnswersEnd, Proper, AnsweredOnce
<1> QED BY <1>1, <1>2, <1>3, PTL DEF Spec

-----------------------------------------------------------------------------
\* What the frames of an answer carry, one after the other.
DataOf(frames) == [i \in DOMAIN frames |-> frames[i].data]

\* Two parts of an answer carry what each of them carries.
DeltasApart(x, y) == Deltas(x \o y) = Deltas(x) \o Deltas(y)

\* The data of frames is a list of texts and outputs.
LEMMA DataType ==
  ASSUME NEW x \in Seq(FrameT)
  PROVE  DataOf(x) \in Seq(Datas) /\ Len(DataOf(x)) = Len(x) /\ Deltas(x) \in Datas
<1>1. Len(x) \in Nat /\ DOMAIN x = 1..Len(x) /\ \A i \in 1..Len(x) : x[i] \in FrameT
  BY LenProperties
<1>2. \A i \in 1..Len(x) : x[i].data \in Datas
  BY <1>1 DEF FrameT
<1>3. DataOf(x) \in [1..Len(x) -> Datas]
  BY <1>1, <1>2 DEF DataOf
<1>4. DataOf(x) \in Seq(Datas) /\ Len(DataOf(x)) = Len(x)
  BY <1>1, <1>3, ListFromFunction
<1>5. FlattenSeq(DataOf(x)) \in Datas
  <2> DEFINE d == DataOf(x)
  <2>1. d \in Seq(Seq(Nat \cup Kinds))
    BY <1>4 DEF Datas
  <2> HIDE DEF d
  <2>2. <<>> \in Seq(Nat \cup Kinds)
    OBVIOUS
  <2>3. FlattenSeq(d) \in Seq(Nat \cup Kinds)
    BY <2>1, <2>2, FlattenAppend
  <2> QED BY <2>3 DEF Datas, d
<1> QED BY <1>4, <1>5 DEF Deltas, DataOf

\* So it is for any parts.
LEMMA DeltasConcat ==
  ASSUME NEW x \in Seq(FrameT), NEW y \in Seq(FrameT)
  PROVE  DeltasApart(x, y)
<1> DEFINE n == Len(x)
           m == Len(y)
           xy == x \o y
           dx == DataOf(x)
           dy == DataOf(y)
           dxy == DataOf(xy)
           cat == dx \o dy
<1>1. n \in Nat /\ m \in Nat /\ DOMAIN x = 1..n /\ DOMAIN y = 1..m
  BY LenProperties
<1>2. /\ xy \in Seq(FrameT) /\ Len(xy) = n + m
      /\ \A i \in 1..(n + m) : xy[i] = IF i <= n THEN x[i] ELSE y[i - n]
  BY ConcatProperties
<1>3. DOMAIN xy = 1..(n + m)
  BY <1>2, LenProperties
<1>4. /\ dx \in Seq(Datas) /\ dy \in Seq(Datas) /\ dxy \in Seq(Datas)
      /\ Len(dx) = n /\ Len(dy) = m /\ Len(dxy) = n + m
  BY <1>2, DataType
<1>5. /\ \A i \in 1..n : dx[i] = x[i].data
      /\ \A i \in 1..m : dy[i] = y[i].data
      /\ \A i \in 1..(n + m) : dxy[i] = xy[i].data
  BY <1>1, <1>3 DEF DataOf
<1>6. cat \in Seq(Datas) /\ Len(cat) = n + m /\ \A i \in 1..(n + m) : cat[i] = IF i <= n THEN dx[i] ELSE dy[i - n]
  <2> HIDE DEF n, m, dx, dy
  <2>1. /\ dx \o dy \in Seq(Datas) /\ Len(dx \o dy) = Len(dx) + Len(dy)
        /\ \A i \in 1..(Len(dx) + Len(dy)) : (dx \o dy)[i] = IF i <= Len(dx) THEN dx[i] ELSE dy[i - Len(dx)]
    BY <1>4, ConcatProperties
  <2> QED BY <1>4, <2>1
<1> HIDE DEF n, m, xy, dx, dy, dxy, cat
<1>7. ASSUME NEW i \in 1..(n + m) PROVE dxy[i] = cat[i]
  <2>1. CASE i <= n
    <3>1. i \in 1..n
      BY <1>1, <2>1
    <3>2. xy[i] = x[i] /\ cat[i] = dx[i]
      BY <1>2, <1>6, <2>1
    <3> QED BY <1>5, <3>1, <3>2
  <2>2. CASE ~(i <= n)
    <3>1. PICK j \in 1..m : j = i - n
      BY <1>1, <2>2
    <3>2. xy[i] = y[j] /\ cat[i] = dy[j]
      BY <1>2, <1>6, <2>2, <3>1
    <3> QED BY <1>5, <3>1, <3>2
  <2> QED BY <2>1, <2>2
<1>8. dxy = cat
  BY <1>4, <1>6, <1>7, SeqEqual
<1>9. FlattensBoth(dx, dy)
  BY <1>4, FlattenConcat DEF Datas
<1>10. FlattenSeq(dxy) = FlattenSeq(dx) \o FlattenSeq(dy)
  BY <1>8, <1>9 DEF FlattensBoth, cat
<1>11. Deltas(x) = FlattenSeq(dx) /\ Deltas(y) = FlattenSeq(dy) /\ Deltas(xy) = FlattenSeq(dxy)
  BY DEF Deltas, DataOf, dx, dy, dxy
<1> QED BY <1>10, <1>11 DEF DeltasApart, xy

\* Nothing carries nothing, and one frame what is in it.
LEMMA DeltasSmall ==
  ASSUME NEW f \in FrameT
  PROVE  Deltas(<<>>) = <<>> /\ Deltas(<<f>>) = f.data
<1>1. f.data \in Seq(Nat \cup Kinds)
  BY DEF FrameT, Datas
<1> DEFINE x == f.data
           none == <<>>
<1>2. DataOf(none) = none /\ DataOf(<<f>>) = <<x>>
  <2>1. DataOf(none) = none
    BY DEF DataOf
  <2>2. DataOf(<<f>>) = [i \in 1..1 |-> x]
    BY DEF DataOf
  <2> HIDE DEF x
  <2>3. <<x>> = [i \in 1..1 |-> x]
    OBVIOUS
  <2> QED BY <2>1, <2>2, <2>3
<1> HIDE DEF x
<1>3. FlattenSeq(none) = none /\ FlattenSeq(<<x>>) = x
  <2>1. none \in Seq(Seq(Nat \cup Kinds)) /\ Append(none, x) = <<x>> /\ x \in Seq(Nat \cup Kinds)
    BY <1>1 DEF x
  <2>2. FlattenSeq(none) = <<>> /\ FlattensAt(none, x)
    BY <2>1, FlattenAppend
  <2>3. <<>> \o x = x
    BY <2>1, ConcatEmptySeq
  <2> QED BY <2>1, <2>2, <2>3 DEF FlattensAt
<1> QED BY <1>2, <1>3 DEF Deltas, DataOf, x

-----------------------------------------------------------------------------
\* A text that is another one, or continues it.
Continues(a, b) == \E c \in Seq(Nat) : b = a \o c

\* Text only grows when every token stands for itself.
LEMMA TextGrows ==
  ASSUME NEW tokens \in Seq(Kinds), NEW k \in Kinds, Kinds \subseteq {"char", "special"}
  PROVE  Continues(Text(tokens), Text(Append(tokens, k)))
<1> DEFINE n == Len(tokens)
           more == Append(tokens, k)
           own(t, i) == IF t[i] = "char" THEN <<i>> ELSE <<>>
           old == [i \in 1..n |-> own(tokens, i)]
           new == [i \in 1..(n + 1) |-> own(more, i)]
           x == own(more, n + 1)
<1>1. /\ n \in Nat /\ DOMAIN tokens = 1..n /\ \A i \in 1..n : tokens[i] \in Kinds
      /\ more \in Seq(Kinds) /\ Len(more) = n + 1
      /\ \A i \in 1..n : more[i] = tokens[i]
  BY LenProperties, AppendProperties
<1>2. DOMAIN more = 1..(n + 1) /\ \A i \in 1..(n + 1) : more[i] \in Kinds
  BY <1>1, LenProperties
<1>3. ASSUME NEW t \in Seq(Kinds), NEW i \in 1..Len(t)
      PROVE  (CASE t[i] = "char" -> <<i>>
                [] t[i] = "special" -> <<>>
                [] t[i] = "lead" -> IF i < Len(t) /\ t[i + 1] = "trail" THEN <<i>> ELSE <<Unknown>>
                [] t[i] = "trail" -> IF i > 1 /\ t[i - 1] = "lead" THEN <<>> ELSE <<Unknown>>)
             = own(t, i)
  <2>1. t[i] \in Kinds
    BY LenProperties
  <2>2. t[i] = "char" \/ t[i] = "special"
    BY <2>1
  <2>3. CASE t[i] = "char"
    BY <2>3
  <2>4. CASE t[i] = "special"
    BY <2>4
  <2> QED BY <2>2, <2>3, <2>4
<1>4. Text(tokens) = FlattenSeq(old) /\ Text(more) = FlattenSeq(new)
  BY <1>1, <1>2, <1>3 DEF Text
<1> HIDE DEF own
<1>5. old \in Seq(Seq(Nat)) /\ x \in Seq(Nat) /\ new \in Seq(Seq(Nat)) /\ Len(old) = n /\ Len(new) = n + 1
  <2>1. \A t, i : i \in Nat => own(t, i) \in Seq(Nat)
    <3> TAKE t, i
    <3> HAVE i \in Nat
    <3>1. <<i>> \in Seq(Nat) /\ <<>> \in Seq(Nat)
      OBVIOUS
    <3> QED BY <3>1 DEF own
  <2>2. old \in [1..n -> Seq(Nat)] /\ new \in [1..(n + 1) -> Seq(Nat)] /\ x \in Seq(Nat) /\ n + 1 \in Nat
    BY <1>1, <2>1
  <2> HIDE DEF n, old, new, x
  <2>3. old \in Seq(Seq(Nat)) /\ Len(old) = n
    BY <1>1, <2>2, ListFromFunction
  <2>4. new \in Seq(Seq(Nat)) /\ Len(new) = n + 1
    BY <2>2, ListFromFunction
  <2> QED BY <2>2, <2>3, <2>4
<1>6. new = Append(old, x)
  <2>1. ASSUME NEW i \in 1..n PROVE new[i] = old[i]
    <3>1. i \in 1..(n + 1) /\ more[i] = tokens[i]
      BY <1>1
    <3> QED BY <3>1 DEF own
  <2>2. new[n + 1] = x
    BY <1>1
  <2> HIDE DEF n, new, old, x
  <2>3. /\ Append(old, x) \in Seq(Seq(Nat)) /\ Len(Append(old, x)) = n + 1
        /\ \A i \in 1..n : Append(old, x)[i] = old[i]
        /\ Append(old, x)[n + 1] = x
    BY <1>5, AppendProperties
  <2>4. \A i \in 1..(n + 1) : new[i] = Append(old, x)[i]
    <3> TAKE i \in 1..(n + 1)
    <3>1. i \in 1..n \/ i = n + 1
      BY <1>1
    <3> QED BY <2>1, <2>2, <2>3, <3>1
  <2> QED BY <1>5, <2>3, <2>4, SeqEqual
<1> HIDE DEF n, more, new, old, x
<1>7. FlattensAt(old, x)
  BY <1>5, FlattenAppend
<1>8. Text(more) = Text(tokens) \o x
  BY <1>4, <1>6, <1>7 DEF FlattensAt
<1> QED BY <1>5, <1>8 DEF Continues, more

-----------------------------------------------------------------------------
\* The outputs.

\* Every token of a stream stands for itself: a special token, or a whole character.
TokensStandAlone == Kinds \subseteq {"char", "special"} \/ Streams = {}

Expected(r) == IF r \in Streams THEN Text(output[r]) ELSE output[r]

FinishedAreDone == \A r \in finished : phase[r] = "done"

\* Nothing was sent or queued for a request that did not reach the pending table.
Fresh ==
  \A r \in Requests : client[r] \in {"absent", "submitting"} => Answers(r) = <<>> /\ decoded[r] = <<>>

\* A pending stream was given what decoded says, while there is a loop to give it.
Streamed ==
  \A r \in pending : client[r] = "awaiting" /\ loopPc # "closed" =>
    Deltas(Answers(r)) = IF r \in Streams THEN decoded[r] ELSE <<>>

\* The text of a stream continues what was decoded before.
DecodedContinues == \A r \in Streams : Continues(decoded[r], Text(output[r]))

Whole(r) == phase[r] = "done" /\ Deltas(Answers(r)) = Expected(r)

\* An answer that ended is the whole output of a request that is done.
EndedIsWhole == \A r \in Requests : client[r] = "awaiting" /\ ~Open(Answers(r)) => Whole(r)

OutputFacts ==
  /\ FinishedAreDone /\ Fresh /\ Streamed /\ DecodedContinues /\ EndedIsWhole /\ AnswerIsOutput

OutputIInv == AnswerIInv /\ OutputFacts

\* Nothing was sent initially.
LEMMA InitOutput ==
  ASSUME Init
  PROVE  OutputIInv
<1>1. AnswerIInv
  BY InitAnswer
<1>2. \A r \in Requests : /\ client[r] = "absent" /\ decoded[r] = <<>> /\ output[r] = <<>> /\ got[r] = <<>>
                          /\ ready = <<>>
  BY DEF Init
<1>3. finished = {} /\ pending = {}
  BY DEF Init
<1>4. ASSUME NEW r \in Requests PROVE Answers(r) = <<>>
  <2>1. FramesOf(<<>>, r) = <<>> /\ FlattenSeq(<<>>) = <<>>
    BY DEF FramesOf, FlattenSeq
  <2>2. Answers(r) = got[r] \o Queued(ready, r)
    BY <1>1, AnswersAre
  <2>3. <<>> \o <<>> = <<>>
    OBVIOUS
  <2> QED BY <1>2, <2>1, <2>2, <2>3 DEF Queued
<1>5. DecodedContinues
  <2> SUFFICES ASSUME NEW r \in Streams PROVE Continues(decoded[r], Text(output[r]))
    BY DEF DecodedContinues
  <2>1. Text(<<>>) = <<>>
    BY DEF Text, FlattenSeq
  <2>2. <<>> \in Seq(Nat) /\ <<>> \o <<>> = <<>>
    OBVIOUS
  <2> QED BY <1>2, <2>1, <2>2, StreamsAreRequests DEF Continues
<1>6. Fresh /\ Streamed /\ FinishedAreDone /\ EndedIsWhole /\ AnswerIsOutput
  BY <1>2, <1>3, <1>4 DEF Fresh, Streamed, FinishedAreDone, EndedIsWhole, AnswerIsOutput
<1> QED BY <1>1, <1>5, <1>6 DEF OutputIInv, OutputFacts

\* Who emits is not done, and a done request keeps its output.
LEMMA OutputsGrow ==
  ASSUME OutputIInv, [Next]_vars, TokensStandAlone
  PROVE  /\ \A r \in Requests : phase[r] = "done" => phase'[r] = "done" /\ output'[r] = output[r]
         /\ \A r \in Streams : Continues(Text(output[r]), Text(output'[r]))
<1>1. /\ phase \in [Requests -> {"absent", "queued", "emitting", "done"}]
      /\ output \in [Requests -> Seq(Kinds)]
      /\ (loopPc = "submit" => submitting \in Requests)
  BY DEF OutputIInv, AnswerIInv, ServerIInv, EngineTypeOK, LoopTypeOK
<1>2. ASSUME NEW r \in Streams PROVE Continues(Text(output[r]), Text(output[r]))
  <2>1. r \in Requests /\ output[r] \in Seq(Kinds)
    BY <1>1, StreamsAreRequests
  <2>2. Text(output[r]) \in Seq(Nat)
    BY <2>1, TextType
  <2>3. Text(output[r]) \o <<>> = Text(output[r]) /\ <<>> \in Seq(Nat)
    BY <2>2, ConcatEmptySeq
  <2> QED BY <2>3 DEF Continues
<1>3. CASE StepEmits
  <2>0. PICK R \in SUBSET Requests : \E D \in SUBSET R, new \in [R -> Kinds] :
          /\ output' = [r \in Requests |-> IF r \in R THEN Append(output[r], new[r]) ELSE output[r]]
          /\ Eng!Round(R, D)
    BY <1>3 DEF StepEmits
  <2>1. PICK D \in SUBSET R, new \in [R -> Kinds] :
          /\ output' = [r \in Requests |-> IF r \in R THEN Append(output[r], new[r]) ELSE output[r]]
          /\ Eng!Round(R, D)
    BY <2>0
  <2>2. /\ \A r \in R : phase[r] # "done"
        /\ phase' = [r \in Requests |->
                       IF r \in D THEN "done" ELSE IF r \in R THEN "emitting" ELSE phase[r]]
    BY <2>1 DEF Eng!Round, Eng!InPhase
  <2>3. \A r \in Requests : phase[r] = "done" => phase'[r] = "done" /\ output'[r] = output[r]
    BY <1>1, <2>1, <2>2
  <2>4. ASSUME NEW r \in Streams PROVE Continues(Text(output[r]), Text(output'[r]))
    <3>1. r \in Requests /\ output[r] \in Seq(Kinds) /\ Kinds \subseteq {"char", "special"}
      BY <1>1, StreamsAreRequests DEF TokensStandAlone
    <3>2. CASE r \in R
      <4>1. new[r] \in Kinds /\ output'[r] = Append(output[r], new[r])
        BY <2>1, <3>1, <3>2
      <4> QED BY <3>1, <4>1, TextGrows
    <3>3. CASE r \notin R
      <4>1. output'[r] = output[r]
        BY <2>1, <3>1, <3>3
      <4> QED BY <1>2, <4>1
    <3> QED BY <3>2, <3>3
  <2> QED BY <2>3, <2>4
<1>4. CASE ~StepEmits
  <2>1. UNCHANGED output
    BY <1>4 DEF Next, ThreadNext, LoopNext, vars, CheckStop, Lock, Idle, Wake, StepQuiet, StepRaises,
      ReapRunning, ReapFinished, Unlock, Acquire, AddRequest, Register, RunCallback, JoinReturns, Close,
      Stop, BeginSubmit, Cancel, engineVars
  <2>2. \A r \in Requests : phase[r] = "done" => phase'[r] = "done"
    <3>1. CASE AddRequest
      <4>1. UNCHANGED phase \/ (phase[submitting] = "absent" /\ phase' = [phase EXCEPT ![submitting] = "queued"])
        BY <3>1 DEF AddRequest, Eng!Submit
      <4> QED BY <1>1, <4>1
    <3>2. CASE ~AddRequest
      <4>1. UNCHANGED phase
        BY <1>4, <3>2 DEF Next, ThreadNext, LoopNext, vars, CheckStop, Lock, Idle, Wake, StepQuiet,
          StepRaises, ReapRunning, ReapFinished, Unlock, Acquire, Register, RunCallback, JoinReturns,
          Close, Stop, BeginSubmit, Cancel, engineVars, Eng!Fail
      <4> QED BY <4>1
    <3> QED BY <3>1, <3>2
  <2> QED BY <1>2, <2>1, <2>2
<1> QED BY <1>3, <1>4

\* What continues a text, continues what that continues.
LEMMA ContinuesOn ==
  ASSUME NEW a \in Seq(Nat), NEW b, NEW c, Continues(a, b), Continues(b, c)
  PROVE  Continues(a, c)
<1>1. PICK x \in Seq(Nat) : b = a \o x
  BY DEF Continues
<1>2. PICK y \in Seq(Nat) : c = b \o y
  BY DEF Continues
<1>3. x \o y \in Seq(Nat) /\ Regroups(a, x, y)
  BY Joined
<1>4. c = a \o (x \o y)
  BY <1>1, <1>2, <1>3 DEF Regroups
<1> QED BY <1>3, <1>4 DEF Continues

\* No frames: an answer that may still grow, and that carries nothing.
LEMMA NoFrames == Open(<<>>) /\ Deltas(<<>>) = <<>>
BY DEF Open, Deltas, FlattenSeq

\* The actions that queue nothing and send nothing.
LEMMA SilentOutputs ==
  ASSUME OutputIInv, TokensStandAlone, [Next]_vars,
         ~RunCallback, ~ReapRunning, ~ReapFinished
  PROVE  OutputFacts'
<1> USE DEF OutputIInv, OutputFacts
<1>1. UNCHANGED <<ready, got, decoded>>
  BY DEF Next, ThreadNext, LoopNext, vars, CheckStop, Lock, Idle, Wake, StepEmits,
    StepQuiet, StepRaises, Unlock, Acquire, AddRequest, Register, JoinReturns, Close,
    Stop, BeginSubmit, Cancel, serverVars, loopVars
<1>2. /\ \A r \in Requests : phase[r] = "done" => phase'[r] = "done" /\ output'[r] = output[r]
      /\ \A r \in Streams : Continues(Text(output[r]), Text(output'[r]))
  BY OutputsGrow
<1>3. \A r \in Requests : Answers(r)' = Answers(r) /\ (phase[r] = "done" => Expected(r)' = Expected(r))
  BY <1>1, <1>2 DEF Answers, Expected
<1>4. /\ decoded \in [Requests -> Seq(Nat)] /\ pending \subseteq Requests
      /\ client \in [Requests -> {"absent", "submitting", "awaiting", "done", "cancelled"}]
      /\ (loopPc \in {"acquire", "submit", "register"} => submitting \in Requests /\ client[submitting] = "submitting")
  BY DEF AnswerIInv, AnswerTypeOK, ServerIInv, LoopTypeOK, Waiting
<1>5. DecodedContinues'
  <2> SUFFICES ASSUME NEW r \in Streams PROVE Continues(decoded[r], Text(output'[r]))
    BY <1>1 DEF DecodedContinues
  <2>1. decoded[r] \in Seq(Nat)
    BY <1>4, StreamsAreRequests
  <2>2. Continues(decoded[r], Text(output[r])) /\ Continues(Text(output[r]), Text(output'[r]))
    BY <1>2 DEF DecodedContinues
  <2> QED BY <2>1, <2>2, ContinuesOn
<1>6. FinishedAreDone'
  <2>1. CASE StepEmits
    <3>1. \E D \in SUBSET Requests : finished' = finished \cup D /\ \A r \in D : phase'[r] = "done"
      BY <2>1 DEF StepEmits, Eng!Round
    <3>2. finished \subseteq Requests
      BY DEF AnswerIInv, ServerIInv, EngineTypeOK
    <3> QED BY <1>2, <3>1, <3>2 DEF FinishedAreDone
  <2>2. CASE ~StepEmits
    <3>1. UNCHANGED finished
      BY <2>2 DEF Next, ThreadNext, LoopNext, vars, CheckStop, Lock, Idle, Wake,
        StepQuiet, StepRaises, Unlock, Acquire, AddRequest, Register, JoinReturns, Close,
        Stop, BeginSubmit, Cancel, engineVars
    <3>2. finished \subseteq Requests
      BY DEF AnswerIInv, ServerIInv, EngineTypeOK
    <3> QED BY <1>2, <3>1, <3>2 DEF FinishedAreDone
  <2> QED BY <2>1, <2>2
<1>7. CASE Register
  <2>1. /\ loopPc = "register" /\ submitting \in Requests /\ client[submitting] = "submitting"
        /\ pending' = pending \cup {submitting} /\ client' = [client EXCEPT ![submitting] = "awaiting"]
    BY <1>4, <1>7 DEF Register
  <2>2. /\ Answers(submitting) = <<>> /\ decoded[submitting] = <<>>
        /\ Open(Answers(submitting)) /\ Deltas(Answers(submitting)) = <<>>
    BY <2>1, NoFrames DEF Fresh
  <2>3. \A r \in Requests : r # submitting => client'[r] = client[r]
    BY <1>4, <2>1
  <2>4. client'[submitting] = "awaiting"
    BY <1>4, <2>1
  <2>5. Fresh'
    BY <1>1, <1>3, <2>3, <2>4 DEF Fresh
  <2>6. Streamed'
    BY <1>1, <1>3, <1>4, <2>1, <2>2, <2>3 DEF Streamed
  <2>7. EndedIsWhole' /\ AnswerIsOutput'
    <3>1. ASSUME NEW r \in Requests, client'[r] = "awaiting", ~Open(Answers(r)') PROVE Whole(r)'
      <4>1. r # submitting
        BY <1>3, <2>2, <3>1
      <4>2. Whole(r)
        BY <1>3, <2>3, <3>1, <4>1 DEF EndedIsWhole
      <4> QED BY <1>2, <1>3, <4>2 DEF Whole
    <3>2. ASSUME NEW r \in Requests, client'[r] = "done" PROVE phase'[r] = "done" /\ Deltas(got'[r]) = Expected(r)'
      <4>1. r # submitting
        BY <2>4, <3>2
      <4>2. phase[r] = "done" /\ Deltas(got[r]) = Expected(r)
        BY <2>3, <3>2, <4>1 DEF AnswerIsOutput, Expected
      <4> QED BY <1>1, <1>2, <1>3, <4>2
    <3> QED BY <3>1, <3>2 DEF EndedIsWhole, AnswerIsOutput, Expected
  <2> QED BY <1>5, <1>6, <2>5, <2>6, <2>7
<1>8. CASE ~Register
  <2>1. /\ UNCHANGED pending /\ (loopPc' # "closed" => loopPc # "closed")
        /\ \A r \in Requests : /\ client'[r] = client[r]
                                  \/ (client[r] = "absent" /\ client'[r] = "submitting")
                                  \/ client'[r] = "cancelled"
    BY <1>4, <1>8 DEF Next, ThreadNext, LoopNext, vars, CheckStop, Lock, Idle, Wake, StepEmits,
      StepQuiet, StepRaises, Unlock, Acquire, AddRequest, JoinReturns, Close, Stop, BeginSubmit, Cancel,
      serverVars, loopVars
  <2>2. Fresh'
    BY <1>1, <1>3, <2>1 DEF Fresh
  <2>3. Streamed'
    BY <1>1, <1>3, <1>4, <2>1 DEF Streamed
  <2>4. EndedIsWhole' /\ AnswerIsOutput'
    <3>1. ASSUME NEW r \in Requests, client'[r] = "awaiting", ~Open(Answers(r)') PROVE Whole(r)'
      <4>1. Whole(r)
        BY <1>3, <2>1, <3>1 DEF EndedIsWhole
      <4> QED BY <1>2, <1>3, <4>1 DEF Whole
    <3>2. ASSUME NEW r \in Requests, client'[r] = "done" PROVE phase'[r] = "done" /\ Deltas(got'[r]) = Expected(r)'
      <4>1. phase[r] = "done" /\ Deltas(got[r]) = Expected(r)
        BY <2>1, <3>2 DEF AnswerIsOutput, Expected
      <4> QED BY <1>1, <1>2, <1>3, <4>1
    <3> QED BY <3>1, <3>2 DEF EndedIsWhole, AnswerIsOutput, Expected
  <2> QED BY <1>5, <1>6, <2>2, <2>3, <2>4
<1> QED BY <1>7, <1>8

\* With what _push_delta queues, the client has the whole text.
LEMMA DeltaCompletes ==
  ASSUME output \in [Requests -> Seq(Kinds)], decoded \in [Requests -> Seq(Nat)],
         NEW r \in Requests, Continues(decoded[r], Text(output[r]))
  PROVE  /\ DecodedAfter(r) = Text(output[r])
         /\ decoded[r] \o Deltas(Queued(DeltaOf(r), r)) = Text(output[r])
<1> DEFINE full == Text(output[r])
           d == decoded[r]
           n == Len(d)
           rest == SubSeq(full, n + 1, Len(full))
<1>1. PICK c \in Seq(Nat) : full = d \o c
  BY DEF Continues
<1>2. d \in Seq(Nat) /\ full \in Seq(Nat)
  <2>1. d \in Seq(Nat) /\ output[r] \in Seq(Kinds)
    OBVIOUS
  <2> QED BY <2>1, TextType
<1>3. DecodedAfter(r) = IF Len(full) > n THEN full ELSE d
  BY DEF DecodedAfter
<1>4. DeltaOf(r) = IF Len(full) > n THEN <<Event(r, "delta", rest)>> ELSE <<>>
  BY DEF DeltaOf
<1> HIDE DEF full, d
<1>5. n \in Nat /\ Len(c) \in Nat /\ Len(full) = n + Len(c)
  BY <1>1, <1>2, LenProperties, ConcatProperties
<1> HIDE DEF n
<1>6. CASE Len(full) > n
  <2> DEFINE front == SubSeq(full, 1, n)
             e == Event(r, "delta", rest)
             f == Event(r, "chunk", rest)
  <2>1. /\ front \in Seq(Nat) /\ rest \in Seq(Nat) /\ Len(front) = n /\ full = front \o rest
    <3>1. n \in 0..Len(full)
      BY <1>5
    <3> QED BY <1>2, <3>1, Halves
  <2>2. rest \in Datas
    <3>1. Nat \subseteq Nat \cup Kinds
      OBVIOUS
    <3> HIDE DEF rest
    <3> QED BY <2>1, <3>1, ListOfMore DEF Datas
  <2> HIDE DEF front, rest
  <2>3. front = d
    <3>1. Len(front) = Len(d) /\ front \o rest = d \o c
      BY <1>1, <2>1 DEF n
    <3> QED BY <1>2, <2>1, <3>1, SameFront
  <2>4. e \in EventT /\ e.req = r /\ f \in FrameT /\ f.data = rest
    BY <2>2 DEF Event, EventT, FrameT
  <2>5. Frames(e) = <<f>>
    BY DEF Frames, Event
  <2> HIDE DEF e, f
  <2>6. Queued(<<e>>, r) = <<f>>
    BY <2>4, <2>5, QueuedOne
  <2>7. Deltas(Queued(DeltaOf(r), r)) = rest
    BY <1>4, <1>6, <2>4, <2>6, DeltasSmall DEF e
  <2> QED BY <1>3, <1>6, <2>1, <2>3, <2>7 DEF full, d
<1>7. CASE ~(Len(full) > n)
  <2>1. Len(c) = 0
    BY <1>5, <1>7
  <2>2. c = <<>>
    BY <2>1, EmptySeq
  <2>3. d \o <<>> = d
    BY <1>2, ConcatEmptySeq
  <2>4. FramesOf(<<>>, r) = <<>> /\ FlattenSeq(<<>>) = <<>>
    BY DEF FramesOf, FlattenSeq
  <2>5. Deltas(Queued(DeltaOf(r), r)) = <<>>
    BY <1>4, <1>7, <2>4, NoFrames DEF Queued
  <2> QED BY <1>1, <1>3, <1>7, <2>2, <2>3, <2>5 DEF full, d
<1> QED BY <1>6, <1>7

\* A request is in the streams at one place: what is queued for it is its own delta.
LEMMA RunningEvents ==
  ASSUME AnswerIInv, ReapRunning
  PROVE  \E events \in Seq(EventT) :
           /\ IF loopPc = "closed" /\ events # <<>> THEN UNCHANGED ready ELSE ready' = ready \o events
           /\ \A r \in Requests :
                Queued(events, r) = IF r \in pending \cap EngineRunning \cap Streams
                                    THEN Queued(DeltaOf(r), r) ELSE <<>>
<1> DEFINE streams == pending \cap EngineRunning \cap Streams
           list == SetToSeq(streams)
           deltas == [i \in DOMAIN list |-> DeltaOf(list[i])]
           events == FlattenSeq(deltas)
           n == Len(list)
<1>1. IF loopPc = "closed" /\ events # <<>> THEN UNCHANGED ready ELSE ready' = ready \o events
  BY DEF ReapRunning, Queue
<1>2. /\ output \in [Requests -> Seq(Kinds)] /\ decoded \in [Requests -> Seq(Nat)]
      /\ pending \subseteq Requests
  BY DEF AnswerIInv, AnswerTypeOK, ServerIInv, EngineTypeOK, LoopTypeOK
<1>3. IsFiniteSet(streams) /\ streams \subseteq Requests
  <2>1. streams \subseteq Requests
    BY <1>2
  <2> QED BY <2>1, LoadsCoverRequests, FS_Subset
<1>4. list \in Seq(streams) /\ IsInjective(list) /\ (\A r \in streams : \E j \in DOMAIN list : list[j] = r)
  <2>1. list \in Seq(streams) /\ IsInjective(list)
    BY <1>3, SetToSeqProperties
  <2>2. \A r \in streams : \E j \in DOMAIN list : list[j] = r
    BY <1>3, SetToSeqCovers
  <2> QED BY <2>1, <2>2
<1> HIDE DEF streams, list
<1>5. n \in Nat /\ DOMAIN list = 1..n /\ \A i \in 1..n : list[i] \in streams
  BY <1>4, LenProperties
<1>6. ASSUME NEW i \in 1..n PROVE DeltaOf(list[i]) \in Seq(DeltasFor({list[i]}))
  <2>1. list[i] \in Requests
    BY <1>3, <1>5
  <2> QED BY <1>2, <2>1, DeltaTypes
<1> HIDE DEF n
<1>7. ASSUME NEW S, \A i \in 1..n : list[i] \in S
      PROVE  deltas \in [1..n -> Seq(DeltasFor(S))]
  <2>1. ASSUME NEW i \in 1..n PROVE DeltaOf(list[i]) \in Seq(DeltasFor(S))
    <3>1. {list[i]} \subseteq S
      BY <1>7
    <3>2. DeltasFor({list[i]}) \subseteq DeltasFor(S)
      BY <3>1 DEF DeltasFor
    <3> QED BY <1>6, <3>2, ListOfMore
  <2> QED BY <1>5, <2>1
<1>8. deltas \in Seq(Seq(DeltasFor(streams))) /\ Len(deltas) = n
  <2>1. deltas \in [1..n -> Seq(DeltasFor(streams))]
    BY <1>5, <1>7
  <2> HIDE DEF deltas
  <2> QED BY <1>5, <2>1, ListFromFunction
<1>9. \A i \in 1..n : deltas[i] = DeltaOf(list[i])
  BY <1>5
<1> HIDE DEF deltas
<1>10. <<>> \in Seq(DeltasFor(streams)) /\ events \in Seq(DeltasFor(streams))
  <2>1. <<>> \in Seq(DeltasFor(streams))
    OBVIOUS
  <2> QED BY <1>8, <2>1, FlattenAppend
<1>11. events \in Seq(EventT)
  <2> HIDE DEF events
  <2> QED BY <1>10, QueuedDeltas
<1>12. ASSUME NEW r \in streams PROVE Queued(events, r) = Queued(DeltaOf(r), r)
  <2>1. PICK j \in 1..n : list[j] = r
    BY <1>4, <1>5
  <2> DEFINE others == streams \ {r}
             E == Seq(DeltasFor(others))
             i == j - 1
             h == SubSeq(deltas, 1, i)
             mid == SubSeq(deltas, i + 1, n)
             t == Tail(mid)
  <2>2. \A k \in 1..n : k # j => deltas[k] \in E
    <3> TAKE k \in 1..n
    <3> HAVE k # j
    <3>1. list[k] # r
      BY <1>4, <1>5, <2>1 DEF IsInjective
    <3>2. {list[k]} \subseteq others
      BY <1>5, <3>1
    <3>3. DeltasFor({list[k]}) \subseteq DeltasFor(others)
      BY <3>2 DEF DeltasFor
    <3> QED BY <1>6, <1>9, <3>3, ListOfMore
  <2> HIDE DEF E
  <2>3. i \in 0..n /\ i + 1 = j /\ i \in Nat
    BY <1>5
  <2>4. /\ h \in Seq(Seq(DeltasFor(streams))) /\ mid \in Seq(Seq(DeltasFor(streams)))
        /\ Len(h) = i /\ Len(mid) = n - i /\ deltas = h \o mid
    <3> HIDE DEF i
    <3> QED BY <1>8, <2>3, Halves
  <2>5. \A k \in 1..i : h[k] = deltas[k]
    <3> HIDE DEF i
    <3> QED BY <1>8, <2>3, PrefixProperties
  <2>6. \A k \in 1..(n - i) : mid[k] = deltas[i + k]
    <3> HIDE DEF i, h, mid
    <3>1. \A k \in 1..(i + (n - i)) : (h \o mid)[k] = IF k <= i THEN h[k] ELSE mid[k - i]
      BY <2>4, ConcatProperties
    <3> TAKE k \in 1..(n - i)
    <3>2. i + k \in 1..(i + (n - i)) /\ ~(i + k <= i) /\ (i + k) - i = k
      BY <1>5, <2>3
    <3> QED BY <2>4, <3>1, <3>2
  <2>7. mid # <<>> /\ 1 \in 1..(n - i)
    <3>1. 1 \in 1..(n - i) /\ n - i # 0
      BY <1>5, <2>3
    <3> HIDE DEF mid, i
    <3> QED BY <2>4, <3>1
  <2>8. Head(mid) = DeltaOf(r) /\ mid = <<DeltaOf(r)>> \o t /\ t \in Seq(Seq(DeltasFor(streams))) /\ Len(t) = n - j
        /\ \A k \in 1..(n - j) : t[k] = mid[k + 1]
    <3>1. mid[1] = DeltaOf(r)
      BY <1>9, <2>1, <2>3, <2>6, <2>7
    <3> HIDE DEF mid, i
    <3>2. /\ Head(mid) = mid[1] /\ t \in Seq(Seq(DeltasFor(streams))) /\ Len(t) = Len(mid) - 1
          /\ \A k \in 1..(Len(mid) - 1) : t[k] = mid[k + 1]
      BY <2>4, <2>7, HeadAndTail
    <3>3. mid = <<Head(mid)>> \o t
      BY <2>4, <2>7
    <3>4. Len(mid) - 1 = n - j
      BY <1>5, <2>3, <2>4
    <3> QED BY <3>1, <3>2, <3>3, <3>4
  <2> HIDE DEF h, mid, t, i
  <2>9. h \in Seq(E)
    <3>1. \A k \in 1..i : k \in 1..n /\ k # j
      BY <1>5, <2>3
    <3>2. h \in [1..i -> E]
      <4>1. \A k \in 1..i : h[k] \in E
        BY <2>2, <2>5, <3>1
      <4>2. h \in [1..i -> Seq(DeltasFor(streams))]
        BY <2>4, LenProperties
      <4> QED BY <4>1, <4>2
    <3> QED BY <2>3, <3>2, ListFromFunction
  <2>10. t \in Seq(E)
    <3>1. \A k \in 1..(n - j) : k + 1 \in 1..(n - i) /\ i + (k + 1) \in 1..n /\ i + (k + 1) # j
      BY <1>5, <2>3
    <3>2. \A k \in 1..(n - j) : t[k] \in E
      BY <2>2, <2>6, <2>8, <3>1
    <3>3. t \in [1..(n - j) -> Seq(DeltasFor(streams))] /\ n - j \in Nat
      <4>1. n - j \in Nat
        BY <1>5
      <4> QED BY <2>8, <4>1, LenProperties
    <3>4. t \in [1..(n - j) -> E]
      BY <3>2, <3>3
    <3> QED BY <3>3, <3>4, ListFromFunction
  <2> DEFINE d == DeltaOf(r)
             fh == FlattenSeq(h)
             ft == FlattenSeq(t)
  <2>11. d \in Seq(DeltasFor(streams)) /\ d \in Seq(EventT)
    <3>1. d \in Seq(DeltasFor(streams))
      BY <1>8, <1>9, <2>1, LenProperties
    <3> HIDE DEF d
    <3> QED BY <3>1, QueuedDeltas
  <2>12. fh \in Seq(DeltasFor(others)) /\ ft \in Seq(DeltasFor(others))
    <3>1. <<>> \in Seq(DeltasFor(others))
      OBVIOUS
    <3>2. h \in Seq(Seq(DeltasFor(others))) /\ t \in Seq(Seq(DeltasFor(others)))
      BY <2>9, <2>10 DEF E
    <3> QED BY <3>1, <3>2, FlattenAppend
  <2> HIDE DEF d, fh, ft
  <2>13. events = fh \o (d \o ft)
    <3> DEFINE one == <<d>>
               none == <<>>
    <3>1. one \in Seq(Seq(DeltasFor(streams))) /\ none \in Seq(Seq(DeltasFor(streams))) /\ one = Append(none, d)
      BY <2>11
    <3>2. FlattenSeq(one) = d
      <4>1. FlattenSeq(none) = <<>> /\ FlattensAt(none, d)
        BY <2>11, <3>1, FlattenAppend
      <4>2. <<>> \o d = d
        BY <2>11, ConcatEmptySeq
      <4> QED BY <3>1, <4>1, <4>2 DEF FlattensAt
    <3>3. mid = one \o t
      BY <2>8 DEF d
    <3> HIDE DEF one, none
    <3>4. FlattensBoth(h, mid) /\ FlattensBoth(one, t)
      BY <2>4, <2>8, <3>1, FlattenConcat
    <3> QED BY <2>4, <3>2, <3>3, <3>4 DEF FlattensBoth, fh, ft
  <2>14. /\ fh \in Seq(EventT) /\ ft \in Seq(EventT)
         /\ Queued(fh, r) = <<>> /\ Queued(ft, r) = <<>>
    BY <2>12, QueuedDeltas
  <2>15. d \o ft \in Seq(EventT)
    BY <2>11, <2>14, ConcatProperties
  <2> HIDE DEF others, E
  <2> DEFINE rest == d \o ft
  <2>16. Queued(rest, r) = Queued(d, r) \o <<>>
    <3>1. QueuedApart(d, ft, r)
      BY <2>11, <2>14, QueuedConcat
    <3> QED BY <2>14, <3>1 DEF QueuedApart
  <2> HIDE DEF rest
  <2>17. Queued(fh \o rest, r) = <<>> \o (Queued(d, r) \o <<>>)
    <3>1. QueuedApart(fh, rest, r)
      <4>1. rest \in Seq(EventT)
        BY <2>15 DEF rest
      <4> QED BY <2>14, <4>1, QueuedConcat
    <3> QED BY <2>14, <2>16, <3>1 DEF QueuedApart
  <2>18. Queued(d, r) \o <<>> = Queued(d, r) /\ <<>> \o Queued(d, r) = Queued(d, r)
    <3>1. Queued(d, r) \in Seq(FrameT)
      BY <2>11, QueuedFrames
    <3> HIDE DEF streams
    <3> QED BY <3>1, ConcatEmptySeq
  <2> QED BY <2>13, <2>17, <2>18 DEF d, rest
<1> HIDE DEF events
<1>13. ASSUME NEW r \in Requests, r \notin streams PROVE Queued(events, r) = <<>>
  BY <1>10, <1>13, QueuedDeltas
<1>14. \A r \in Requests : Queued(events, r) = IF r \in streams THEN Queued(DeltaOf(r), r) ELSE <<>>
  BY <1>12, <1>13
<1> QED BY <1>1, <1>11, <1>14 DEF streams

\* _reap brings the streams that run up to their text.
LEMMA ReapRunningOutputs ==
  ASSUME OutputIInv, ReapRunning
  PROVE  OutputFacts'
<1> USE DEF OutputIInv, OutputFacts
<1> DEFINE streams == pending \cap EngineRunning \cap Streams
<1>1. PICK events \in Seq(EventT) :
        /\ IF loopPc = "closed" /\ events # <<>> THEN UNCHANGED ready ELSE ready' = ready \o events
        /\ \A r \in Requests : Queued(events, r) = IF r \in streams THEN Queued(DeltaOf(r), r) ELSE <<>>
  BY RunningEvents
<1>2. /\ decoded' = [r \in Requests |-> IF r \in streams THEN DecodedAfter(r) ELSE decoded[r]]
      /\ UNCHANGED <<got, pending, client, loopPc, submitting, output, phase, finished>>
  BY DEF ReapRunning, loopVars, engineVars
<1>3. /\ output \in [Requests -> Seq(Kinds)] /\ decoded \in [Requests -> Seq(Nat)]
      /\ pending \subseteq Requests /\ streams \subseteq pending /\ streams \subseteq Streams
  BY DEF AnswerIInv, AnswerTypeOK, ServerIInv, EngineTypeOK, LoopTypeOK
<1>4. AnswersOpen' /\ Waiting
  BY ReapRunningAnswers DEF AnswerIInv
<1> HIDE DEF streams
<1>5. \A r \in Requests : Answers(r)' \in {Answers(r), Answers(r) \o Queued(events, r)}
  BY <1>1, <1>2, AnswersGrow
<1>6. ASSUME NEW r \in Requests, r \notin streams
      PROVE  Answers(r)' = Answers(r) /\ decoded'[r] = decoded[r]
  <2>1. Answers(r) \in Seq(FrameT)
    BY AnswersAre
  <2>2. Answers(r) \o <<>> = Answers(r)
    BY <2>1, ConcatEmptySeq
  <2>3. Queued(events, r) = <<>>
    BY <1>1, <1>6
  <2> QED BY <1>2, <1>5, <1>6, <2>2, <2>3
<1>7. ASSUME NEW r \in streams
      PROVE  /\ decoded'[r] = Text(output[r]) /\ Open(Answers(r))' /\ r \in Requests /\ r \in pending
             /\ decoded[r] \o Deltas(Queued(events, r)) = Text(output[r])
  <2>1. r \in Requests /\ r \in pending /\ r \in Streams
    BY <1>3
  <2>2. Continues(decoded[r], Text(output[r]))
    BY <2>1 DEF DecodedContinues
  <2>3. /\ DecodedAfter(r) = Text(output[r])
        /\ decoded[r] \o Deltas(Queued(DeltaOf(r), r)) = Text(output[r])
    BY <1>3, <2>1, <2>2, DeltaCompletes
  <2>4. Open(Answers(r))'
    BY <1>2, <1>4, <2>1 DEF AnswersOpen
  <2> QED BY <1>1, <1>2, <2>1, <2>3, <2>4
<1>8. FinishedAreDone' /\ AnswerIsOutput'
  BY <1>2 DEF FinishedAreDone, AnswerIsOutput
<1>9. Fresh'
  <2> SUFFICES ASSUME NEW r \in Requests, client'[r] \in {"absent", "submitting"}
               PROVE  Answers(r)' = <<>> /\ decoded'[r] = <<>>
    BY DEF Fresh
  <2>1. r \notin streams
    BY <1>2, <1>3, <1>4 DEF Waiting
  <2> QED BY <1>2, <1>6, <2>1 DEF Fresh
<1>10. Streamed'
  <2> SUFFICES ASSUME NEW r \in pending, client[r] = "awaiting", loopPc # "closed"
               PROVE  Deltas(Answers(r)') = IF r \in Streams THEN decoded'[r] ELSE <<>>
    BY <1>2 DEF Streamed
  <2>1. Deltas(Answers(r)) = IF r \in Streams THEN decoded[r] ELSE <<>>
    BY DEF Streamed
  <2>2. r \in Requests
    BY <1>3
  <2>3. CASE r \in streams
    <3>1. Answers(r)' = Answers(r) \o Queued(events, r)
      BY <1>1, <1>2, <2>2, AnswersQueued
    <3>2. Answers(r) \in Seq(FrameT) /\ Queued(events, r) \in Seq(FrameT)
      BY <2>2, AnswersAre, QueuedFrames
    <3>3. Deltas(Answers(r) \o Queued(events, r)) = Deltas(Answers(r)) \o Deltas(Queued(events, r))
      BY <3>2, DeltasConcat DEF DeltasApart
    <3>4. r \in Streams
      BY <1>3, <2>3
    <3> QED BY <1>7, <2>1, <2>3, <3>1, <3>3, <3>4
  <2>4. CASE r \notin streams
    BY <1>6, <2>1, <2>2, <2>4
  <2> QED BY <2>3, <2>4
<1>11. DecodedContinues'
  <2> SUFFICES ASSUME NEW r \in Streams PROVE Continues(decoded'[r], Text(output[r]))
    BY <1>2 DEF DecodedContinues
  <2>1. r \in Requests /\ output[r] \in Seq(Kinds)
    BY <1>3, StreamsAreRequests
  <2>2. CASE r \in streams
    <3>1. Text(output[r]) \in Seq(Nat)
      BY <2>1, TextType
    <3>2. Text(output[r]) \o <<>> = Text(output[r]) /\ <<>> \in Seq(Nat)
      BY <3>1, ConcatEmptySeq
    <3> QED BY <1>7, <2>2, <3>2 DEF Continues
  <2>3. CASE r \notin streams
    BY <1>6, <2>1, <2>3 DEF DecodedContinues
  <2> QED BY <2>2, <2>3
<1>12. EndedIsWhole'
  <2> SUFFICES ASSUME NEW r \in Requests, client'[r] = "awaiting", ~Open(Answers(r)') PROVE Whole(r)'
    BY DEF EndedIsWhole
  <2>1. r \notin streams
    BY <1>7
  <2>2. Answers(r)' = Answers(r)
    BY <1>6, <2>1
  <2>3. Whole(r)
    BY <1>2, <2>2 DEF EndedIsWhole
  <2> QED BY <1>2, <2>2, <2>3 DEF Whole, Expected
<1> QED BY <1>8, <1>9, <1>10, <1>11, <1>12

\* The last callbacks bring the client what is left of the output.
LEMMA FinalCompletes ==
  ASSUME output \in [Requests -> Seq(Kinds)], decoded \in [Requests -> Seq(Nat)],
         NEW r \in Requests, r \in Streams => Continues(decoded[r], Text(output[r]))
  PROVE  /\ r \in Streams => /\ DecodedAfter(r) = Text(output[r])
                             /\ decoded[r] \o Deltas(Queued(FinalEvents(r), r)) = Text(output[r])
         /\ r \notin Streams => Deltas(Queued(FinalEvents(r), r)) = output[r]
<1>0. <<>> \in Datas /\ output[r] \in Datas
  BY DEF Datas
<1>1. ASSUME r \in Streams
      PROVE  /\ DecodedAfter(r) = Text(output[r])
             /\ decoded[r] \o Deltas(Queued(FinalEvents(r), r)) = Text(output[r])
  <2> DEFINE e == Event(r, "end", <<>>)
             d == DeltaOf(r)
             f == Event(r, "stop", <<>>)
             g == Event(r, "[DONE]", <<>>)
             ends == <<f, g>>
             more == Queued(d, r)
  <2>1. FinalEvents(r) = d \o <<e>>
    BY <1>1 DEF FinalEvents
  <2>2. d \in Seq(EventT)
    BY DeltaTypes, QueuedDeltas
  <2>3. e \in EventT /\ e.req = r /\ f \in FrameT /\ g \in FrameT /\ f.data = <<>> /\ g.data = <<>>
    BY <1>0 DEF Event, EventT, FrameT
  <2>4. Frames(e) = ends
    BY DEF Frames, Event
  <2>5. DecodedAfter(r) = Text(output[r]) /\ decoded[r] \o Deltas(more) = Text(output[r])
    BY <1>1, DeltaCompletes
  <2> HIDE DEF e, d, f, g
  <2>6. Queued(<<e>>, r) = ends /\ <<e>> \in Seq(EventT) /\ ends \in Seq(FrameT)
    BY <2>3, <2>4, QueuedOne
  <2>7. Deltas(ends) = <<>>
    <3>1. Deltas(<<f>>) = <<>> /\ Deltas(<<g>>) = <<>>
      BY <2>3, DeltasSmall
    <3>2. <<f>> \in Seq(FrameT) /\ <<g>> \in Seq(FrameT)
      BY <2>3
    <3>0. <<f>> \o <<g>> = ends
      <4> DEFINE one == <<f>>
                 last == <<g>>
                 two == one \o last
      <4>1. one \in Seq(FrameT) /\ Len(one) = 1 /\ one[1] = f
        BY <3>2
      <4>2. /\ two \in Seq(FrameT) /\ Len(two) = 1 + 1
            /\ \A i \in 1..(1 + 1) : two[i] = IF i <= 1 THEN one[i] ELSE last[i - 1]
        <5>1. last \in Seq(FrameT) /\ Len(last) = 1
          BY <3>2
        <5> HIDE DEF one, last
        <5>2. /\ one \o last \in Seq(FrameT) /\ Len(one \o last) = Len(one) + Len(last)
              /\ \A i \in 1..(Len(one) + Len(last)) :
                   (one \o last)[i] = IF i <= Len(one) THEN one[i] ELSE last[i - Len(one)]
          BY <4>1, <5>1, ConcatProperties
        <5> QED BY <4>1, <5>1, <5>2
      <4>3. two[1] = f /\ two[2] = g
        <5>1. last[1] = g
          OBVIOUS
        <5> HIDE DEF one, last, two
        <5> QED BY <4>1, <4>2, <5>1
      <4>4. ends[1] = f /\ ends[2] = g /\ Len(ends) = 2 /\ ends \in Seq(FrameT)
        BY <2>6
      <4> HIDE DEF two, ends
      <4>5. \A i \in 1..Len(two) : two[i] = ends[i]
        <5>1. \A i \in 1..2 : i = 1 \/ i = 2
          OBVIOUS
        <5> QED BY <4>2, <4>3, <4>4, <5>1
      <4>6. two = ends
        BY <4>2, <4>4, <4>5, SeqEqual
      <4> QED BY <4>6 DEF two
    <3>3. DeltasApart(<<f>>, <<g>>)
      BY <3>2, DeltasConcat
    <3>4. <<>> \o <<>> = <<>>
      OBVIOUS
    <3> HIDE DEF ends
    <3> QED BY <3>0, <3>1, <3>3, <3>4 DEF DeltasApart
  <2> HIDE DEF ends
  <2>8. more \in Seq(FrameT)
    BY <2>2, QueuedFrames
  <2>9. Queued(d \o <<e>>, r) = more \o ends
    <3>1. QueuedApart(d, <<e>>, r)
      BY <2>2, <2>6, QueuedConcat
    <3> QED BY <2>6, <3>1 DEF QueuedApart
  <2> HIDE DEF more
  <2>10. Deltas(more \o ends) = Deltas(more) \o <<>>
    <3>1. DeltasApart(more, ends)
      BY <2>6, <2>8, DeltasConcat
    <3> QED BY <2>7, <3>1 DEF DeltasApart
  <2>11. Deltas(more) \o <<>> = Deltas(more)
    <3>1. Deltas(more) \in Seq(Nat \cup Kinds)
      BY <2>8, DataType DEF Datas
    <3> QED BY <3>1, ConcatEmptySeq
  <2> QED BY <2>1, <2>5, <2>9, <2>10, <2>11
<1>2. ASSUME r \notin Streams PROVE Deltas(Queued(FinalEvents(r), r)) = output[r]
  <2> DEFINE e == Event(r, "result", output[r])
             f == Event(r, "body", output[r])
  <2>1. FinalEvents(r) = <<e>>
    BY <1>2 DEF FinalEvents
  <2>2. e \in EventT /\ e.req = r /\ f \in FrameT /\ f.data = output[r]
    BY <1>0 DEF Event, EventT, FrameT
  <2>3. Frames(e) = <<f>>
    BY DEF Frames, Event
  <2> HIDE DEF e, f
  <2>4. Queued(<<e>>, r) = <<f>>
    BY <2>2, <2>3, QueuedOne
  <2>5. Deltas(<<f>>) = output[r]
    BY <2>2, DeltasSmall
  <2> QED BY <2>1, <2>4, <2>5
<1> QED BY <1>1, <1>2

\* _reap ends an answer with all of the output, or the loop is closed.
LEMMA ReapFinishedOutputs ==
  ASSUME OutputIInv, ReapFinished
  PROVE  OutputFacts'
<1> USE DEF OutputIInv, OutputFacts
<1>0. PICK f \in finished : f = CHOOSE r \in finished : TRUE
  BY DEF ReapFinished
<1> DEFINE events == FinalEvents(f)
<1>1. /\ output \in [Requests -> Seq(Kinds)] /\ decoded \in [Requests -> Seq(Nat)]
      /\ pending \subseteq Requests /\ f \in Requests /\ f \in finished
      /\ finished \subseteq Requests
  BY DEF AnswerIInv, AnswerTypeOK, ServerIInv, EngineTypeOK, LoopTypeOK
<1>2. f \in pending
  <2>1. threadPc = "finish" /\ lock = "thread" /\ loopPc # "register"
    BY DEF ReapFinished, AnswerIInv, ServerIInv, LockHeld
  <2> QED BY <1>1, <2>1 DEF AnswerIInv, ServerIInv, PendingExact
<1>3. /\ IF loopPc = "closed" /\ events # <<>> THEN UNCHANGED ready ELSE ready' = ready \o events
      /\ decoded' = [decoded EXCEPT ![f] = DecodedAfter(f)]
      /\ pending' = pending \ {f} /\ finished' = finished \ {f}
      /\ UNCHANGED <<got, client, loopPc, submitting, output, phase>>
  BY <1>0, <1>2 DEF ReapFinished, Queue, loopVars
<1>4. /\ events \in Seq(EventT)
      /\ \A r \in Requests : r # f => Queued(events, r) = <<>>
  BY <1>1, QueuedFinal
<1>5. /\ f \in Streams => /\ DecodedAfter(f) = Text(output[f])
                          /\ decoded[f] \o Deltas(Queued(events, f)) = Text(output[f])
      /\ f \notin Streams => Deltas(Queued(events, f)) = output[f]
  <2>1. f \in Streams => Continues(decoded[f], Text(output[f]))
    BY DEF DecodedContinues
  <2> QED BY <1>1, <2>1, FinalCompletes
<1> HIDE DEF events
<1>6. \A r \in Requests : Answers(r)' \in {Answers(r), Answers(r) \o Queued(events, r)}
  BY <1>3, <1>4, AnswersGrow
<1>7. ASSUME NEW r \in Requests, r # f PROVE Answers(r)' = Answers(r) /\ decoded'[r] = decoded[r]
  <2>1. Answers(r) \in Seq(FrameT)
    BY AnswersAre
  <2>2. Answers(r) \o <<>> = Answers(r)
    BY <2>1, ConcatEmptySeq
  <2> QED BY <1>1, <1>3, <1>4, <1>6, <1>7, <2>2
<1>8. FinishedAreDone'
  BY <1>1, <1>3 DEF FinishedAreDone
<1>9. AnswerIsOutput'
  BY <1>3 DEF AnswerIsOutput
<1>10. Fresh'
  <2> SUFFICES ASSUME NEW r \in Requests, client'[r] \in {"absent", "submitting"}
               PROVE  Answers(r)' = <<>> /\ decoded'[r] = <<>>
    BY DEF Fresh
  <2>1. r # f
    BY <1>2, <1>3 DEF AnswerIInv, Waiting
  <2> QED BY <1>3, <1>7, <2>1 DEF Fresh
<1>11. Streamed'
  <2> SUFFICES ASSUME NEW r \in pending', client[r] = "awaiting", loopPc # "closed"
               PROVE  Deltas(Answers(r)') = IF r \in Streams THEN decoded'[r] ELSE <<>>
    BY <1>3 DEF Streamed
  <2>1. r \in pending /\ r \in Requests /\ r # f
    BY <1>1, <1>3
  <2> QED BY <1>7, <2>1 DEF Streamed
<1>12. DecodedContinues'
  <2> SUFFICES ASSUME NEW r \in Streams PROVE Continues(decoded'[r], Text(output[r]))
    BY <1>3 DEF DecodedContinues
  <2>1. r \in Requests /\ output[r] \in Seq(Kinds)
    BY <1>1, StreamsAreRequests
  <2>2. CASE r = f
    <3>1. Text(output[r]) \in Seq(Nat)
      BY <2>1, TextType
    <3>2. Text(output[r]) \o <<>> = Text(output[r]) /\ <<>> \in Seq(Nat)
      BY <3>1, ConcatEmptySeq
    <3>3. decoded'[r] = Text(output[r])
      BY <1>1, <1>3, <1>5, <2>2
    <3> QED BY <3>2, <3>3 DEF Continues
  <2>3. CASE r # f
    BY <1>7, <2>1, <2>3 DEF DecodedContinues
  <2> QED BY <2>2, <2>3
<1>13. EndedIsWhole'
  <2> SUFFICES ASSUME NEW r \in Requests, client'[r] = "awaiting", ~Open(Answers(r)') PROVE Whole(r)'
    BY DEF EndedIsWhole
  <2>1. CASE r # f
    <3>1. Answers(r)' = Answers(r)
      BY <1>7, <2>1
    <3>2. Whole(r)
      BY <1>3, <3>1 DEF EndedIsWhole
    <3> QED BY <1>3, <3>1, <3>2 DEF Whole, Expected
  <2>2. CASE r = f
    <3>1. Open(Answers(f)) /\ client[f] = "awaiting" /\ phase'[f] = "done"
      BY <1>1, <1>2, <1>3, <2>2 DEF AnswerIInv, AnswersOpen, FinishedAreDone
    <3>2. ready' # ready
      <4>1. ready' = ready /\ got' = got => Answers(f)' = Answers(f)
        BY DEF Answers
      <4> QED BY <1>3, <2>2, <3>1, <4>1
    <3>3. ready' = ready \o events
      BY <1>3, <3>2
    <3>4. loopPc # "closed"
      <4>1. events = <<>> => ready' = ready
        BY <3>3, ConcatEmptySeq DEF AnswerIInv, AnswerTypeOK
      <4> QED BY <1>3, <3>2, <4>1
    <3>5. Answers(f)' = Answers(f) \o Queued(events, f)
      BY <1>1, <1>3, <1>4, <3>3, AnswersQueued
    <3>6. Answers(f) \in Seq(FrameT) /\ Queued(events, f) \in Seq(FrameT)
      BY <1>1, <1>4, AnswersAre, QueuedFrames
    <3>7. Deltas(Answers(f) \o Queued(events, f)) = Deltas(Answers(f)) \o Deltas(Queued(events, f))
      BY <3>6, DeltasConcat DEF DeltasApart
    <3>8. Deltas(Answers(f)) = IF f \in Streams THEN decoded[f] ELSE <<>>
      BY <1>2, <3>1, <3>4 DEF Streamed
    <3>9. Deltas(Answers(f)') = Expected(f)
      <4>1. CASE f \in Streams
        BY <1>5, <3>5, <3>7, <3>8, <4>1 DEF Expected
      <4>2. CASE f \notin Streams
        <5>1. <<>> \o output[f] = output[f]
          BY <1>1, ConcatEmptySeq
        <5> QED BY <1>5, <3>5, <3>7, <3>8, <4>2, <5>1 DEF Expected
      <4> QED BY <4>1, <4>2
    <3>10. Expected(f)' = Expected(f)
      BY <1>3, <2>2 DEF Expected
    <3> QED BY <2>2, <3>1, <3>9, <3>10 DEF Whole
  <2> QED BY <2>1, <2>2
<1> QED BY <1>8, <1>9, <1>10, <1>11, <1>12, <1>13

\* The first callback, and what its handler does with it.
LEMMA CallbackMoves ==
  ASSUME AnswerIInv, RunCallback
  PROVE  \E e \in EventT :
           /\ e.req \in Requests /\ Answers(e.req) # <<>>
           /\ \A r \in Requests : r # e.req =>
                UNCHANGED <<got[r], client[r]>> /\ Answers(r)' = Answers(r)
           /\ client[e.req] # "awaiting" => UNCHANGED <<got[e.req], client[e.req]>>
           /\ client[e.req] = "awaiting" =>
                /\ client'[e.req] = IF e.kind = "delta" THEN "awaiting" ELSE "done"
                /\ Answers(e.req)' = Answers(e.req)
                /\ e.kind # "delta" => got'[e.req] = Answers(e.req) /\ ~Open(Answers(e.req))
<1> DEFINE e == Head(ready)
           t == Tail(ready)
           fs == Frames(e)
<1>1. e \in EventT /\ t \in Seq(EventT) /\ ready = <<e>> \o t /\ <<e>> \in Seq(EventT)
  <2>1. ready \in Seq(EventT) /\ ready # <<>>
    BY DEF AnswerIInv, AnswerTypeOK, RunCallback
  <2>2. e \in EventT /\ t \in Seq(EventT)
    BY <2>1, HeadAndTail
  <2> QED BY <2>1, <2>2
<1>2. fs \in Seq(FrameT) /\ fs # <<>> /\ Proper(fs)
  BY <1>1, FramesOfEvent
<1>3. /\ ready' = t
      /\ got' = IF client[e.req] = "awaiting" THEN [got EXCEPT ![e.req] = @ \o fs] ELSE got
      /\ client' = IF client[e.req] = "awaiting" /\ e.kind \in {"end", "result"}
                   THEN [client EXCEPT ![e.req] = "done"] ELSE client
  BY DEF RunCallback
<1>4. PICK a \in EventT : a = e
  BY <1>1
<1>5. ~(e.kind = "delta") => Open(fs) = FALSE
  <2> SUFFICES ASSUME e.kind # "delta" PROVE ~Open(fs)
    OBVIOUS
  <2>1. e.kind = "end" \/ e.kind = "result"
    BY <1>1 DEF EventT
  <2>2. fs[1].kind \in {"stop", "body"} /\ 1 \in 1..Len(fs)
    <3>1. CASE e.kind = "end"
      BY <3>1 DEF Frames, Event
    <3>2. CASE e.kind = "result"
      BY <3>2 DEF Frames, Event
    <3> QED BY <2>1, <3>1, <3>2
  <2> HIDE DEF fs
  <2>3. Open(fs) => fs[1].kind = "chunk"
    <3>1. fs \in Seq(Chunks) => fs[1] \in Chunks
      BY <2>2, LenProperties
    <3> QED BY <3>1 DEF Open, Chunks
  <2> QED BY <2>2, <2>3
<1> HIDE DEF fs, t, e
<1>6. /\ client \in [Requests -> {"absent", "submitting", "awaiting", "done", "cancelled"}]
      /\ got \in [Requests -> Seq(FrameT)] /\ a.req \in Requests /\ a.kind \in {"delta", "end", "result"}
  BY DEF AnswerIInv, AnswerTypeOK, ServerIInv, LoopTypeOK, EventT
<1>7. ASSUME NEW r \in Requests
      PROVE  /\ Answers(r)' = got'[r] \o Queued(t, r)
             /\ Answers(r) = got[r] \o (Queued(<<e>>, r) \o Queued(t, r))
             /\ Queued(<<e>>, r) = IF a.req = r THEN fs ELSE <<>>
             /\ got[r] \in Seq(FrameT) /\ Queued(t, r) \in Seq(FrameT)
  <2>1. Answers(r)' = got'[r] \o Queued(t, r)
    BY <1>3 DEF Answers, Queued, FramesOf
  <2>2. Answers(r) = got[r] \o Queued(ready, r)
    BY AnswersAre
  <2>3. QueuedApart(<<e>>, t, r)
    BY <1>1, QueuedConcat
  <2>4. Queued(<<e>>, r) = IF a.req = r THEN fs ELSE <<>>
    BY <1>1, <1>4, QueuedOne DEF fs
  <2>5. Queued(t, r) \in Seq(FrameT)
    BY <1>1, QueuedFrames
  <2> QED BY <1>1, <1>6, <2>1, <2>2, <2>3, <2>4, <2>5 DEF QueuedApart
<1>8. ASSUME NEW r \in Requests, r # a.req
      PROVE  UNCHANGED <<got[r], client[r]>> /\ Answers(r)' = Answers(r)
  <2>1. UNCHANGED <<got[r], client[r]>>
    BY <1>3, <1>4, <1>6, <1>8
  <2>2. <<>> \o Queued(t, r) = Queued(t, r)
    BY <1>7, ConcatEmptySeq
  <2> QED BY <1>7, <1>8, <2>1, <2>2
<1> DEFINE g == got[a.req]
           q == Queued(t, a.req)
           fq == fs \o q
<1>9. g \in Seq(FrameT) /\ q \in Seq(FrameT) /\ Answers(a.req) = g \o fq /\ Answers(a.req)' = got'[a.req] \o q
  BY <1>6, <1>7
<1> HIDE DEF g, q
<1>10. fq \in Seq(FrameT) /\ fq # <<>> /\ Answers(a.req) # <<>>
  <2>1. fq \in Seq(FrameT)
    BY <1>2, <1>9, ConcatProperties
  <2>2. fq # <<>>
    BY <1>2, <1>9, ConcatEqualIffEmpty
  <2> HIDE DEF fq
  <2>3. g \o fq # <<>>
    BY <1>9, <2>1, <2>2, ConcatEqualIffEmpty
  <2> QED BY <1>9, <2>1, <2>2, <2>3
<1>11. client[a.req] # "awaiting" => UNCHANGED <<got[a.req], client[a.req]>>
  BY <1>3, <1>4
<1>12. ASSUME client[a.req] = "awaiting"
       PROVE  /\ client'[a.req] = IF a.kind = "delta" THEN "awaiting" ELSE "done"
              /\ Answers(a.req)' = Answers(a.req)
              /\ a.kind # "delta" => got'[a.req] = Answers(a.req) /\ ~Open(Answers(a.req))
  <2>1. got'[a.req] = g \o fs
    BY <1>3, <1>4, <1>6, <1>12 DEF g
  <2>2. Regroups(g, fs, q)
    BY <1>2, <1>9, Joined
  <2>3. Answers(a.req)' = Answers(a.req)
    BY <1>9, <2>1, <2>2 DEF Regroups
  <2>4. client'[a.req] = IF a.kind = "delta" THEN "awaiting" ELSE "done"
    BY <1>3, <1>4, <1>6, <1>12
  <2>5. ASSUME a.kind # "delta" PROVE got'[a.req] = Answers(a.req) /\ ~Open(Answers(a.req))
    <3>1. Proper(g \o fq)
      BY <1>6, <1>9 DEF AnswerIInv, AnswersEnd
    <3>2. Proper(fq)
      <4> HIDE DEF fq
      <4> QED BY <1>9, <1>10, <3>1, ProperThenMore
    <3>3. q = <<>>
      <4>1. q # <<>> => Open(fs)
        BY <1>2, <1>9, <3>2, ProperThenMore
      <4> QED BY <1>4, <1>5, <2>5, <4>1
    <3>4. fs \o <<>> = fs
      BY <1>2, ConcatEmptySeq
    <3>5. Open(g \o fs) => Open(fs)
      BY <1>2, <1>9, OpenParts
    <3> QED BY <1>4, <1>5, <1>9, <2>1, <2>5, <3>3, <3>4, <3>5
  <2> QED BY <2>3, <2>4, <2>5
<1> QED BY <1>6, <1>8, <1>10, <1>11, <1>12

\* The handler that takes the end of an answer has all of it.
LEMMA CallbackOutputs ==
  ASSUME OutputIInv, RunCallback
  PROVE  OutputFacts'
<1> USE DEF OutputIInv, OutputFacts
<1>1. PICK e \in EventT :
        /\ e.req \in Requests /\ Answers(e.req) # <<>>
        /\ \A r \in Requests : r # e.req =>
             UNCHANGED <<got[r], client[r]>> /\ Answers(r)' = Answers(r)
        /\ client[e.req] # "awaiting" => UNCHANGED <<got[e.req], client[e.req]>>
        /\ client[e.req] = "awaiting" =>
             /\ client'[e.req] = IF e.kind = "delta" THEN "awaiting" ELSE "done"
             /\ Answers(e.req)' = Answers(e.req)
             /\ e.kind # "delta" => got'[e.req] = Answers(e.req) /\ ~Open(Answers(e.req))
  BY CallbackMoves
<1>2. UNCHANGED <<output, phase, finished, pending, decoded, loopPc>> /\ pending \subseteq Requests
  BY DEF RunCallback, engineVars, serverVars, AnswerIInv, ServerIInv, LoopTypeOK
<1>3. FinishedAreDone' /\ DecodedContinues'
  BY <1>2 DEF FinishedAreDone, DecodedContinues
<1>4. client[e.req] \notin {"absent", "submitting"}
  BY <1>1 DEF Fresh
<1>5. Fresh'
  BY <1>1, <1>2, <1>4 DEF Fresh
<1>6. \A r \in Requests : client'[r] = "awaiting" => client[r] = "awaiting" /\ Answers(r)' = Answers(r)
  BY <1>1
<1>7. Streamed'
  BY <1>2, <1>6 DEF Streamed
<1>8. EndedIsWhole'
  BY <1>2, <1>6 DEF EndedIsWhole, Whole, Expected
<1>9. AnswerIsOutput'
  <2> SUFFICES ASSUME NEW r \in Requests, client'[r] = "done"
               PROVE  phase[r] = "done" /\ Deltas(got'[r]) = Expected(r)
    BY <1>2 DEF AnswerIsOutput, Expected
  <2>1. CASE client[r] = "done"
    <3>1. got'[r] = got[r]
      BY <1>1, <2>1
    <3> QED BY <2>1, <3>1 DEF AnswerIsOutput, Expected
  <2>2. CASE client[r] # "done"
    <3>1. r = e.req /\ client[r] = "awaiting" /\ e.kind # "delta"
      BY <1>1, <2>2
    <3>2. got'[r] = Answers(r) /\ ~Open(Answers(r))
      BY <1>1, <3>1
    <3>3. Whole(r)
      BY <3>1, <3>2 DEF EndedIsWhole
    <3> QED BY <3>2, <3>3 DEF Whole
  <2> QED BY <2>1, <2>2
<1> QED BY <1>3, <1>5, <1>7, <1>8, <1>9

\* A handler gets the whole output of its own request and nothing else
\* (server.py:113-140): the list of its tokens, or deltas that join to its text, for any
\* number of requests, clients that leave, a step() that raises and a loop that closes
\* meanwhile.  For streams it assumes that every token stands for itself: a character of
\* two tokens changes text the client already has, and is lost (DecodedIsStreamed).
THEOREM AnswersAreOutputs ==
  ASSUME TokensStandAlone
  PROVE  Spec => []AnswerIsOutput
<1>1. Init => OutputIInv
  BY InitOutput
<1>2. OutputIInv /\ [Next]_vars => OutputIInv'
  <2> SUFFICES ASSUME OutputIInv, [Next]_vars PROVE OutputIInv'
    OBVIOUS
  <2>1. AnswerIInv'
    <3>1. ServerIInv'
      BY StepIInv DEF OutputIInv, AnswerIInv
    <3>2. AnswerTypeOK' /\ AnswersEnd' /\ AnswersOpen' /\ Waiting'
      BY SilentActions, CallbackAnswers, ReapRunningAnswers, ReapFinishedAnswers DEF OutputIInv
    <3> QED BY <3>1, <3>2 DEF AnswerIInv
  <2>2. OutputFacts'
    BY TokensStandAlone, SilentOutputs, CallbackOutputs, ReapRunningOutputs, ReapFinishedOutputs
  <2> QED BY <2>1, <2>2 DEF OutputIInv
<1>3. OutputIInv => AnswerIsOutput
  BY DEF OutputIInv, OutputFacts
<1> QED BY <1>1, <1>2, <1>3, PTL DEF Spec
===============================================================================
