---------------------------- MODULE NuVerifierMC ----------------------------
(***************************************************************************)
(* Small nets whose joins match by name: a fork that mints one name for    *)
(* both inputs of a join, separate mints, relays and consumers, timeouts   *)
(* that forward a key, and beside a join the features that decide which    *)
(* route may answer: priorities, late steps, terminals, an environment.    *)
(***************************************************************************)
EXTENDS NuVerifier

In(type, n, p) == [place |-> p, type |-> type, n |-> n]

Leaf(p) == [type |-> "place", place |-> p]

And(x, y) == [type |-> "and", children |-> <<x, y>>]

Xor(x, y) == [type |-> "xor", children |-> <<x, y>>]

TimeoutOf(child) == [type |-> "timeout", child |-> child]

Fork == And(Leaf(2), Leaf(3))

ForkOrPart == Xor(Fork, Leaf(2))

ForkAndSpare == And(Fork, Leaf(5))

ForwardsKey == Xor(Leaf(4), TimeoutOf([type |-> "forward-input", from |-> 2, to |-> 5]))

Relays == And(Leaf(4), Leaf(5))

TheSpecs ==
  {Leaf(p) : p \in 1..399}
    \cup {Fork, ForkOrPart, ForkAndSpare, ForwardsKey, Relays, TimeoutOf([type |-> "forward-input", from |-> 2, to |-> 5]),
          [type |-> "forward-input", from |-> 2, to |-> 5]}

T(name, ins, out) == [Blank(name) EXCEPT !.ins = ins, !.out = out]

\* The join every net has, on places 2 and 3.
Join(out) == [T(2, {OneOf(2), OneOf(3)}, out) EXCEPT !.keys = {2, 3}]

-----------------------------------------------------------------------------
Prop(type, places, min, max) ==
  [type |-> type, places |-> places, min |-> min, max |-> max, waivedBy |-> {}]

AtMost(p, k) == Prop("place-bound", {p}, 0, k)

Never(S) == Prop("unreachable", S, 0, 0)

Rests(p) == Prop("joined-or-dead-lettered", {p}, 0, 0)

RestCount(p, min, max) == Prop("quiescent-count", {p}, min, max)

Aligned(S) == Prop("name-aligned", S, 0, 0)

RestsAligned(S) == Prop("quiescent-name-aligned", S, 0, 0)

Env(p, mode, min, max) == [places |-> {p}, mode |-> mode, min |-> min, max |-> max]

NoCover(places) == [y |-> [p \in places |-> 0], d |-> 1]

Ask(ts, places, m, property) ==
  [net |-> NetOf(places, ts, {}), m |-> m, env |-> NoEnvironment, property |-> property,
   sinks |-> NoSinks, atomic |-> FALSE, noReaping |-> FALSE, mode |-> "extended", carriers |-> {},
   budgetPlaces |-> {}, mints |-> {1}, max |-> 40, priority |-> "none", covers |-> {NoCover(places)}]

On1(places, counts) == [p \in places |-> IF p \in DOMAIN counts THEN counts[p] ELSE 0]

\* The same with a budget place, and weightings that bound the coloured tokens.
Budgeted(query, weights) ==
  [query EXCEPT !.budgetPlaces = {1}, !.mints = {},
                !.covers = @ \cup {[y |-> On1(query.net.places, weights), d |-> 1]}]

-----------------------------------------------------------------------------
\* One name for both inputs of the join.
Forked(k, out, property) == Ask(<<T(1, {OneOf(1)}, out), Join(Leaf(4))>>, 1..4, <<k, 0, 0, 0>>, property)

ForkWeights == <<2, 1, 1, 0>>

ForkQueries ==
  {Forked(2, Fork, p) : p \in {RestCount(4, 2, 2), Rests(2), AtMost(4, 1), Aligned({2, 3})}}
    \cup {Forked(1, Fork, p) : p \in {Aligned({2, 3}), RestsAligned({2, 3}), Aligned({4})}}
    \cup {Forked(2, ForkOrPart, p) : p \in {Rests(3), Rests(2), RestsAligned({2, 3})}}
    \cup {Budgeted(Forked(2, Fork, p), ForkWeights) : p \in {AtMost(4, 2), AtMost(3, 1), Rests(2)}}
    \cup {[Budgeted(Forked(2, Fork, p), ForkWeights) EXCEPT !.max = 2] : p \in {Rests(2), RestCount(4, 2, 2)}}
    \cup {[Forked(2, Fork, Rests(2)) EXCEPT !.max = 3], [Forked(1, Fork, Rests(2)) EXCEPT !.mints = {7}],
          [Forked(1, Fork, Aligned({2, 3})) EXCEPT !.mints = {}], Forked(1, Fork, AtMost(9, 1)),
          [Forked(1, Fork, AtMost(4, 1)) EXCEPT !.m = <<1, 1, 0, 0>>],
          [Forked(1, Fork, Aligned({2, 3})) EXCEPT !.m = <<1, 1, 0, 0>>],
          [Budgeted(Forked(1, Fork, AtMost(4, 1)), ForkWeights) EXCEPT !.m = <<1, 1, 0, 0>>],
          [Forked(2, Fork, AtMost(4, 1)) EXCEPT !.net.terminals = {4}],
          [Forked(2, Fork, AtMost(2, 0)) EXCEPT !.mode = "base"]}

\* Two mints write a name each, which no join may match.
Separate(property) ==
  Ask(<<T(1, {OneOf(1)}, Leaf(2)), Join(Leaf(4)), T(3, {OneOf(5)}, Leaf(3))>>, 1..5, <<1, 0, 0, 0, 1>>, property)

SeparateQueries ==
  {[Separate(p) EXCEPT !.mints = ms] : ms \in {{1, 3}, {1}}, p \in {Never({4}), RestCount(4, 0, 0)}}
    \cup {[Budgeted(Separate(p), <<1, 1, 1, 0, 1>>) EXCEPT !.budgetPlaces = {1, 5}] : p \in {Never({4}), Never({2, 3})}}
    \cup {Budgeted(Separate(RestCount(4, k, 1)), <<>>) : k \in 0..1}
    \cup {[Separate(Aligned({2, 3})) EXCEPT !.mints = {1, 3}],
          [Separate(RestCount(4, 0, 0)) EXCEPT !.mints = {1, 3}, !.m = <<1, 0, 0, 0, 2>>]}

\* A name goes on through a relay, a consumer or the timeout of a join.
Relayed(out, last, property) ==
  [Ask(<<T(1, {OneOf(1)}, Fork), Join(out), T(3, {OneOf(5)}, last)>>, 1..6, <<2, 0, 0, 0, 0, 0>>, property)
     EXCEPT !.carriers = {5}, !.net.trans[2].relays = {5}]

RelayQueries ==
  {Relayed(Relays, Leaf(6), p) : p \in {AtMost(5, 1), RestCount(6, 2, 2), Aligned({5})}}
    \cup {Relayed(Relays, Leaf(2), p) : p \in {RestCount(4, 2, 2), Never({3, 5}), Rests(3)}}
    \cup {Relayed(ForwardsKey, Leaf(6), p) : p \in {AtMost(4, 1), RestCount(6, 0, 2)}}
    \cup {[Relayed(Relays, Leaf(6), RestCount(6, 2, 2)) EXCEPT !.mode = "base"]}

\* A consumer takes half of a pair away.
Split(last, property) ==
  [Ask(<<T(1, {OneOf(1)}, ForkAndSpare), Join(Leaf(4)), T(3, {OneOf(5), OneOf(6)}, last)>>,
       1..6, <<2, 0, 0, 0, 0, 1>>, property) EXCEPT !.carriers = {5}]

SplitQueries == {Split(Leaf(3), p) : p \in {RestCount(4, 2, 2), AtMost(3, 2), Rests(3)}}

-----------------------------------------------------------------------------
\* Beside the join, a step that takes the input of one with lower priority.
Preferring(k, feeds, property) ==
  [Ask(<<T(1, {OneOf(1)}, Fork), Join(Leaf(4)), [T(3, {OneOf(5)}, Leaf(6)) EXCEPT !.prio = 1],
         T(5, {OneOf(5), OneOf(7)}, Leaf(8)), T(6, {OneOf(feeds)}, Leaf(7))>>,
       1..9, On1(1..9, (5 :> k) @@ (feeds :> 1)), property) EXCEPT !.priority = "conflict"]

PriorityQueries ==
  {Preferring(k, f, Never({8})) : k \in 1..2, f \in {9}}
    \cup {[Preferring(2, 9, Never({6, 8})) EXCEPT !.atomic = TRUE], [Preferring(1, 9, Never({8})) EXCEPT !.priority = "none"],
          [Preferring(1, 9, Never({8})) EXCEPT !.net.trans[3].relays = {6}, !.carriers = {6}]}

\* A join with priority over a step that empties one of its inputs.
Guarded(property) ==
  [Ask(<<T(1, {OneOf(1)}, Fork), [Join(Leaf(4)) EXCEPT !.prio = 1], T(3, {OneOf(2)}, Leaf(6))>>,
       1..6, On1(1..6, 1 :> 2), property) EXCEPT !.priority = "conflict", !.atomic = TRUE]

\* A late executor reaps the join.
LateJoin(noReaping, property) ==
  [Forked(1, Fork, property) EXCEPT !.noReaping = noReaping,
     !.net.trans[2].timing = [type |-> "deadline", eft |-> 0, lft |-> 1]]

\* The join is due before the consumer of an input, from when a name enables it.
TimedJoin(k, out, property) ==
  [Ask(<<T(1, {OneOf(1)}, out), [Join(Leaf(4)) EXCEPT !.timing = [type |-> "exact", eft |-> 2, lft |-> 2]],
         [T(3, {OneOf(2)}, Leaf(6)) EXCEPT !.timing = [type |-> "delayed", eft |-> 3, lft |-> Infinity]]>>,
       1..6, On1(1..6, 1 :> k), property) EXCEPT !.noReaping = TRUE, !.atomic = TRUE]

OrderQueries ==
  PriorityQueries
    \cup {Guarded(p) : p \in {Never({6}), Rests(3)}} \cup {[Guarded(Never({6})) EXCEPT !.atomic = FALSE]}
    \cup {LateJoin(n, Rests(2)) : n \in BOOLEAN}
    \cup {TimedJoin(1, Fork, Never({6})), TimedJoin(2, ForkOrPart, Never({6})), TimedJoin(2, Fork, Never({6}))}

-----------------------------------------------------------------------------
\* Tokens come from outside, before the fork or into the join.
Supplied1(env, m, property) == [Forked(0, Fork, property) EXCEPT !.m = m, !.env = env]

EnvironmentQueries ==
  {Supplied1(Env(1, "arrivals", 1, 2), <<0, 0, 0, 0>>, p) : p \in {AtMost(4, 2), RestCount(4, 1, 2), RestCount(4, 2, 2)}}
    \cup {Supplied1(Env(1, "ignore", 0, 0), <<1, 0, 0, 0>>, p) : p \in {Never({4}), AtMost(4, 1)}}
    \cup {Supplied1(Env(1, "bounded", 0, 1), <<0, 0, 0, 0>>, Never({4}))}
    \cup {Supplied1(Env(3, "arrivals", 0, 1), <<1, 0, 0, 0>>, AtMost(4, 1)),
          Supplied1(Env(3, "always-available", 0, 0), <<1, 0, 0, 0>>, AtMost(3, 1)),
          Supplied1(Env(2, "bounded", 0, 1), <<0, 2, 0, 0>>, AtMost(3, 1)),
          Budgeted(Supplied1(Env(3, "arrivals", 0, 1), <<1, 0, 0, 0>>, AtMost(4, 1)), ForkWeights)}

TheQueries ==
  ForkQueries \cup SeparateQueries \cup RelayQueries \cup SplitQueries \cup OrderQueries \cup EnvironmentQueries

\* The preferred step is due at 2 from the start, the other at 1 after a step that may come at 0.
PruningQueries ==
  {[Preferring(1, 9, Never({8})) EXCEPT
      !.net.trans[3].timing = [type |-> "delayed", eft |-> 2, lft |-> Infinity],
      !.net.trans[4].timing = [type |-> "delayed", eft |-> 1, lft |-> Infinity]]}
=============================================================================
