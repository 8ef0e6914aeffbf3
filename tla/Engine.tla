------------------------------- MODULE Engine -------------------------------
(***************************************************************************)
(* What the continuous-batching engine promises its caller, without        *)
(* blocks, chunks or budgets: tokens come in rounds, a round serves every  *)
(* request that already emitted (iteration-level scheduling) and possibly  *)
(* some new ones, a request stops at its limit or before, and stays        *)
(* stopped.  The engine may fail, and is silent from then on.              *)
(***************************************************************************)
EXTENDS Integers

CONSTANTS Requests, Limits

VARIABLES
  phase,   \* "absent", "queued", "emitting" or "done"
  limit,   \* the most tokens a request may emit
  outs,    \* tokens emitted so far
  failed

engineVars == <<phase, limit, outs, failed>>

Init ==
  /\ phase = [r \in Requests |-> "absent"]
  /\ limit = [r \in Requests |-> 0]
  /\ outs = [r \in Requests |-> 0]
  /\ failed = FALSE

Submit(r) ==
  /\ phase[r] = "absent" /\ ~failed
  /\ phase' = [phase EXCEPT ![r] = "queued"]
  /\ \E l \in Limits : limit' = [limit EXCEPT ![r] = l]
  /\ UNCHANGED <<outs, failed>>

InPhase(p) == {r \in Requests : phase[r] = p}

\* One token for each request of R; those of D are done.
Round(R, D) ==
  /\ ~failed
  /\ R # {} /\ InPhase("emitting") \subseteq R /\ R \subseteq InPhase("emitting") \cup InPhase("queued")
  /\ D \subseteq R /\ \A r \in R : outs[r] + 1 >= limit[r] => r \in D
  /\ outs' = [r \in Requests |-> IF r \in R THEN outs[r] + 1 ELSE outs[r]]
  /\ phase' = [r \in Requests |-> IF r \in D THEN "done" ELSE IF r \in R THEN "emitting" ELSE phase[r]]
  /\ UNCHANGED <<limit, failed>>

SomeRound == \E R \in SUBSET Requests : \E D \in SUBSET R : Round(R, D)

Fail ==
  /\ ~failed /\ InPhase("emitting") # {}
  /\ failed' = TRUE
  /\ UNCHANGED <<phase, limit, outs>>

Next == SomeRound \/ Fail \/ \E r \in Requests : Submit(r)

Spec == Init /\ [][Next]_engineVars /\ WF_engineVars(SomeRound)
=============================================================================
