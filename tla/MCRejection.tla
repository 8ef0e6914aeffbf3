----------------------------- MODULE MCRejection -----------------------------
(* Rejection on rows of a few shapes and every kind of parameters, for TLC. *)
EXTENDS Rejection

CONSTANT K

\* Rows with a best token, with a tie at the top and with one below it.
MCRows == { "a" :> x[1] @@ "b" :> x[2] @@ "c" :> x[3] :
              x \in {<<2, 1, 0>>, <<0, 1, 2>>, <<1, 1, 0>>, <<0, 2, 0>>} }

MCParams ==
  {[sharpness |-> 0, topK |-> 0, topP |-> TopPUnit]}
    \cup [sharpness : {1, 2}, topK : {0}, topP : {4}]
    \cup [sharpness : {1}, topK : {0, 1, 2}, topP : {4, 7}]

Init == InitWith(K)

Spec == Init /\ [][Next]_rejectionVars
==============================================================================
