----------------------------- MODULE MCScheduler -----------------------------
(* Scheduler with a few requests on a small pool, for TLC. *)
EXTENDS Scheduler

\* Blocks are interchangeable; request ids are not, they order admission.
Symmetry == Permutations(Blocks)

Counts == 0..6
==============================================================================
