------------------------------ MODULE BlockPool ------------------------------
(***************************************************************************)
(* What the block allocator promises, without counting references: at any  *)
(* time the available blocks are exactly those that no sequence lists and  *)
(* nobody pinned, a live sequence grows only by available blocks, and only *)
(* a sequence that starts may share blocks with others.                    *)
(***************************************************************************)
EXTENDS Integers

CONSTANTS Seqs, Blocks

VARIABLES
  live,   \* the sequences that have a table
  holds,  \* the set of blocks each sequence lists
  pins,   \* explicit references per block
  avail   \* the blocks the pool may hand out

poolVars == <<live, holds, pins, avail>>

Unheld(h, p) == {b \in Blocks : p[b] = 0 /\ \A s \in Seqs : b \notin h[s]}

Init ==
  /\ live = {}
  /\ holds = [s \in Seqs |-> {}]
  /\ pins = [b \in Blocks |-> 0]
  /\ avail = Blocks

\* The pool reclaims on the spot: what nobody holds any more is available.
Reclaim == avail' = Unheld(holds', pins')

\* A sequence starts with blocks others hold and blocks that are available.
Start(s, shared, fresh) ==
  /\ s \notin live
  /\ shared \cap avail = {} /\ fresh \subseteq avail
  /\ live' = live \cup {s}
  /\ holds' = [holds EXCEPT ![s] = shared \cup fresh]
  /\ UNCHANGED pins
  /\ Reclaim

Grow(s, fresh) ==
  /\ s \in live /\ fresh \subseteq avail
  /\ holds' = [holds EXCEPT ![s] = @ \cup fresh]
  /\ UNCHANGED <<live, pins>>
  /\ Reclaim

Shrink(s, kept) ==
  /\ s \in live /\ kept \subseteq holds[s]
  /\ holds' = [holds EXCEPT ![s] = kept]
  /\ UNCHANGED <<live, pins>>
  /\ Reclaim

End(s) ==
  /\ s \in live
  /\ live' = live \ {s}
  /\ holds' = [holds EXCEPT ![s] = {}]
  /\ UNCHANGED pins
  /\ Reclaim

Pin(b) ==
  /\ b \notin avail
  /\ pins' = [pins EXCEPT ![b] = @ + 1]
  /\ UNCHANGED <<live, holds>>
  /\ Reclaim

Unpin(b) ==
  /\ pins[b] > 0
  /\ pins' = [pins EXCEPT ![b] = @ - 1]
  /\ UNCHANGED <<live, holds>>
  /\ Reclaim

Next ==
  \/ \E s \in Seqs : \E shared \in SUBSET Blocks, fresh \in SUBSET avail :
       Start(s, shared, fresh)
  \/ \E s \in Seqs : \E fresh \in SUBSET avail : Grow(s, fresh)
  \/ \E s \in Seqs : \E kept \in SUBSET holds[s] : Shrink(s, kept)
  \/ \E s \in Seqs : End(s)
  \/ \E b \in Blocks : Pin(b) \/ Unpin(b)

Spec == Init /\ [][Next]_poolVars
==============================================================================
