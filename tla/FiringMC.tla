------------------------------ MODULE FiringMC ------------------------------
(***************************************************************************)
(* Every output specification of two levels over three places, a forwarded *)
(* input among its leaves.                                                 *)
(***************************************************************************)
EXTENDS Firing, TLC

TwoTaken == "in" :> 2

Leaves ==
  {[type |-> "place", place |-> p] : p \in {"a", "b", "c"}}
    \cup {[type |-> "forward-input", from |-> "in", to |-> "b"]}

Split(S) == {[type |-> ty, children |-> <<x, y>>] : ty \in {"and", "xor"}, x \in S, y \in S}

Timed(S) == {[type |-> "timeout", child |-> x] : x \in S}

OneLevel == Leaves \cup Split(Leaves) \cup Timed(Leaves)

TwoLevels == OneLevel \cup Split(OneLevel) \cup Timed(OneLevel)
=============================================================================
