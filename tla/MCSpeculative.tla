---------------------------- MODULE MCSpeculative ----------------------------
(* Speculative with two small models over three tokens, for TLC. *)
EXTENDS Speculative

CONSTANTS x, y, z, Unit

Symmetry == Permutations(TgtBlocks) \cup Permutations(DrfBlocks)

Counts == 0..10

\* A prompt that fits with all that is generated, two that may run out of blocks
\* and one that never fits.
SomePrompts == {[i \in 1..n |-> y] : n \in {1, 7, 8, 10}}

Even(S) == [t \in Tokens |-> IF t \in S THEN Unit \div Cardinality(S) ELSE 0]

\* The target is sure of its token at times, the draft is wrong, half right and
\* right at times.
TargetModel(c) == IF Last(c) = x /\ Len(c) % 2 = 1 THEN Even({y}) ELSE Even({x, z})

DraftModel(c) ==
  CASE Len(c) % 3 = 0 -> Even({x, y})
    [] Len(c) % 3 = 1 -> Even({x, z})
    [] OTHER -> Even({y})
==============================================================================
