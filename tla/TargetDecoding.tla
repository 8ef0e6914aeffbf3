---------------------------- MODULE TargetDecoding ----------------------------
(***************************************************************************)
(* What speculative decoding promises: the output is one the target could  *)
(* have produced alone, token after token, each possible for the target    *)
(* after the prompt and the tokens before it, until the limit or the end   *)
(* token.  A call may fail.                                                *)
(***************************************************************************)
EXTENDS Integers, Sequences, SequencesExt

CONSTANTS
  Prompts, Limits, Eos,
  Possible(_)   \* the tokens the target may emit after a context

VARIABLES status, prompt, limit, out

decodingVars == <<status, prompt, limit, out>>

Complete == Len(out) >= limit \/ (out # <<>> /\ Last(out) = Eos)

Init == status = "idle" /\ prompt = <<>> /\ limit = 0 /\ out = <<>>

Start ==
  /\ status \in {"idle", "returned", "failed"}
  /\ status' = "decoding" /\ out' = <<>>
  /\ prompt' \in Prompts /\ limit' \in Limits

Emit ==
  /\ status = "decoding" /\ ~Complete
  /\ \E t \in Possible(prompt \o out) : out' = Append(out, t)
  /\ UNCHANGED <<status, prompt, limit>>

Return == status = "decoding" /\ Complete /\ status' = "returned" /\ UNCHANGED <<prompt, limit, out>>

Fail == status = "decoding" /\ status' = "failed" /\ UNCHANGED <<prompt, limit, out>>

Next == Start \/ Emit \/ Return \/ Fail

Spec == Init /\ [][Next]_decodingVars
===============================================================================
