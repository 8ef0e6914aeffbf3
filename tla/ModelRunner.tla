----------------------------- MODULE ModelRunner -----------------------------
(***************************************************************************)
(* The layout of a flat batch in dispec/engine/model_runner.py: which rows *)
(* belong to which sequence, and which keys and values each row attends    *)
(* to, with either attention backend.                                      *)
(*                                                                         *)
(* A batch is a sequence of metas (SeqMeta): slots are the cache slots of  *)
(* the sequence's context, in order of position, and q is how many rows it *)
(* has; they are the last of the context.  What a slot holds is up to the  *)
(* caller: it is read[slot], and proj[i] is what row i has written.        *)
(***************************************************************************)
EXTENDS Integers, SequencesExt

SeqMeta(slots, q) == [slots |-> slots, q |-> q]

\* Rows before those of the i-th sequence: the offset that grows by the rows of
\* every sequence.
RowStart(metas, i) ==
  LET offset[k \in Nat] == IF k = 0 THEN 0 ELSE offset[k - 1] + metas[k].q
  IN  offset[i - 1]

\* Slot 0, with which tables are padded, whatever it holds.
ZeroSlot == <<>>

ContextLens(metas) == [i \in DOMAIN metas |-> Len(metas[i].slots)]

\* The table of the batched decode kernel, padded to the longest context.
SlotTable(metas) ==
  LET width == Max({Len(metas[i].slots) : i \in DOMAIN metas})
  IN  [i \in DOMAIN metas |-> [c \in 1..width |->
         IF c <= Len(metas[i].slots) THEN metas[i].slots[c] ELSE ZeroSlot]]

BatchedDecode(metas, triton) == triton /\ metas # <<>> /\ \A i \in DOMAIN metas : metas[i].q = 1

\* A context that consists of the new rows alone is not read back.
Gathered(metas, i, proj, read) ==
  LET m == metas[i]
      first == RowStart(metas, i)
  IN  IF Len(m.slots) = m.q THEN SubSeq(proj, first + 1, first + m.q)
                            ELSE [c \in DOMAIN m.slots |-> read[m.slots[c]]]

\* Mutant: the causal mask is aligned with the first key instead of the last.
CausalUpperLeft(m, j, keys) == SubSeq(keys, 1, j)

\* The mask is aligned with the last key: row j of q sees all but the last q - j.
CausalLowerRight(m, j, keys) == SubSeq(keys, 1, Len(keys) - m.q + j)

\* What the j-th row of the i-th sequence attends to.
RowContext(metas, triton, i, j, proj, read) ==
  IF BatchedDecode(metas, triton)
  THEN [c \in 1..ContextLens(metas)[i] |-> read[SlotTable(metas)[i][c]]]
  ELSE CausalLowerRight(metas[i], j, Gathered(metas, i, proj, read))
==============================================================================
