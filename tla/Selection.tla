------------------------------ MODULE Selection ------------------------------
(***************************************************************************)
(* Python's [x for x in s if ...], with the condition given by the indices *)
(* it holds at: how step() of the scheduler finds the requests to sample   *)
(* and to retire, and how a dict that drops a key keeps its order.         *)
(***************************************************************************)
EXTENDS Naturals, FiniteSets

\* How many of the indices I come before i.
Before(I, i) == Cardinality({j \in I : j < i})

\* The elements of s at the indices I, in the order of s.
Selected(s, I) == [k \in 1..Cardinality(I) |-> s[CHOOSE i \in I : Before(I, i) = k - 1]]
==============================================================================
