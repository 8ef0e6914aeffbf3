-------------------------- MODULE MCBlockManager --------------------------
(* BlockManager on small pools, for TLC. *)
EXTENDS BlockManager, TLC

\* Blocks and sequence ids are interchangeable: no definition orders them.
Symmetry == Permutations(Blocks) \cup Permutations(Seqs)

Counts == 0..3
===========================================================================
