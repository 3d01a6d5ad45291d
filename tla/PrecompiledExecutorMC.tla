------------------------ MODULE PrecompiledExecutorMC -----------------------
(***************************************************************************)
(* A net of five places in words of two bits: a join of one token of 0 and *)
(* two of 1 relays its name to 2; 2 is consumed where 4 is empty, reading  *)
(* and resetting 3, and may give 0 a token; two tokens of 4 go together,   *)
(* within a hard window.  The join reads 3 too.                            *)
(***************************************************************************)
EXTENDS PrecompiledExecutor

MCPlaces == 0..4
Unknown == 7

Arcs(S) == [p \in MCPlaces |-> IF p \in S THEN 1 ELSE 0]

MCRequired   == <<[Arcs({0}) EXCEPT ![1] = 2], Arcs({2}), [Arcs({}) EXCEPT ![4] = 2]>>
MCTakesAll   == <<{}, {}, {}>>
MCReads      == <<{3}, {3}, {}>>
MCInhibitors == <<{}, {4}, {}>>
MCResets     == <<{}, {3}, {}>>
MCKeys       == <<{0, 1}, {}, {}>>
MCInputSpecs == <<<<1, 0>>, <<2>>, <<4>>>>
MCResetArcs  == <<<<>>, <<3>>, <<>>>>
MCRelays     == <<{2}, {}, {}>>
MCPriority   == <<0, 1, 0>>
Now          == [type |-> "immediate", lo |-> 0, hi |-> 0]
MCTiming     == <<Now, Now, [type |-> "window", lo |-> 1, hi |-> 1]>>

Out(p, n) == [pid |-> p, name |-> n]
MCProductions ==
  <<{<<Out(2, "matched")>>, <<Out(2, "fresh")>>},
    {<<Out(4, "fresh"), Out(4, "fresh")>>, <<Out(Unknown, "fresh"), Out(3, "fresh"), Out(0, "fresh")>>},
    {<<>>}>>

Queue(p, names) == [i \in DOMAIN names |-> [id |-> 2 * p + i, name |-> names[i]]]
MCInitialQueues ==
  {[p \in MCPlaces |-> CASE p = 0 -> Queue(0, <<1, 2>>)
                         [] p = 1 -> Queue(1, <<2, 2, 1>>)
                         [] p = 3 -> Queue(3, <<0>>)
                         [] OTHER -> <<>>]}
MCEnvPlaces == {1, Unknown}
=============================================================================
