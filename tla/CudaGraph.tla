------------------------------ MODULE CudaGraph ------------------------------
(***************************************************************************)
(* Decoding one token by replaying a captured CUDA graph,                  *)
(* dispec/engine/cuda_graph.py: a graph has a fixed window of slots and a  *)
(* mask over it, and there is one per bucket of context lengths.           *)
(*                                                                         *)
(* The static inputs live as long as the graph: a replay finds in them     *)
(* what the previous one of that bucket left.  Abstracted: only the mask   *)
(* is kept as state; the token, the position, the slots and the padded     *)
(* window are operands of the replay.                                      *)
(***************************************************************************)
EXTENDS ModelRunner, Selection

CONSTANT Buckets   \* window sizes, {} for an engine without graphs

ASSUME BucketsArePositive == Buckets \subseteq Nat \ {0}

VARIABLE mask   \* per bucket, the positions of the window that are attended to

\* capture() runs with nothing attended to.
GraphInit == mask = [mc \in Buckets |-> {}]

CanHandle(ctxLen) == \E mc \in Buckets : ctxLen <= mc

SmallestFit(ctxLen) == Min({mc \in Buckets : ctxLen <= mc})

Window(slots) ==
  [c \in 1..SmallestFit(Len(slots)) |-> IF c <= Len(slots) THEN slots[c] ELSE ZeroSlot]

\* Mutant: the mask of the last replay is not cleared.
ReplayKeepsMask(slots) == mask' = [mask EXCEPT ![SmallestFit(Len(slots))] = @ \cup 1..Len(slots)]

\* decode(): the mask is cleared, then set over the context.
Replay(slots) == mask' = [mask EXCEPT ![SmallestFit(Len(slots))] = 1..Len(slots)]

\* A decode step over the context in slots takes the graph when a bucket fits.
DecodeStep(slots) == IF CanHandle(Len(slots)) THEN Replay(slots) ELSE UNCHANGED mask

\* What the replayed row attends to: the unmasked part of its window.
ReplayContext(slots, read) ==
  LET attended == Selected(Window(slots), DOMAIN Window(slots) \cap mask[SmallestFit(Len(slots))])
  IN  [i \in DOMAIN attended |-> read[attended[i]]]
==============================================================================
