--------------------------- MODULE MatchEngineMC ---------------------------
(***************************************************************************)
(* Instances of MatchEngine: two inputs, names that tie and names that     *)
(* arrive out of order.                                                    *)
(***************************************************************************)
EXTENDS MatchEngine

\* Two inputs nobody else touches; a greedy input and a shared one.
TwoJoins ==
  {[requireds |-> <<1, 1>>, greedy |-> {}, shared |-> {}],
   [requireds |-> <<1, 2>>, greedy |-> {1}, shared |-> {2}]}
=============================================================================
