--------------------------- MODULE MCDisaggregated ---------------------------
(* Disaggregated with prompts of 1, 2, ... tokens, for TLC. *)
EXTENDS Disaggregated

Own(r) == r
==============================================================================
