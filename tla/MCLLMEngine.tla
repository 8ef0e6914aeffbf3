----------------------------- MODULE MCLLMEngine -----------------------------
(* LLMEngine with prompts that share prefixes, for TLC. *)
EXTENDS LLMEngine

CONSTANTS x, y

Symmetry == Permutations(Blocks)

Counts == 0..6

\* One block exactly, one block and a token, two blocks with the same first one.
SharedPrompts == {<<x, x>>, <<x, x, y>>, <<x, x, y, x>>, <<x, x, y, x, y>>, <<y, x, y, x>>}
==============================================================================
