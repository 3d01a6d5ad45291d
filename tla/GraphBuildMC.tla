---------------------------- MODULE GraphBuildMC ----------------------------
(***************************************************************************)
(* Nets of up to four places and three transitions, each transition with   *)
(* every interval of a small set: a race of two tokens, a token taken and  *)
(* put back, a drain behind an inhibitor, a reset, a choice.               *)
(***************************************************************************)
EXTENDS GraphBuild

Ms(type, eft, lft) == [type |-> type, eft |-> eft, lft |-> lft]

TheTimings == {Immediate, Ms("deadline", 0, 1), Ms("exact", 1, 1), Ms("window", 2, 2)}

In(type, n, p) == [place |-> p, type |-> type, n |-> n]

Leaf(p) == [type |-> "place", place |-> p]

Xor(x, y) == [type |-> "xor", children |-> <<x, y>>]

And(x, y) == [type |-> "and", children |-> <<x, y>>]

TheSpecs ==
  {Leaf(p) : p \in 1..199} \cup {Xor(Leaf(2), Leaf(3)), And(Leaf(2), Leaf(3)), And(Leaf(2), Leaf(5)), And(Leaf(3), Leaf(6))}

T(name, ins, out) == [Blank(name) EXCEPT !.ins = ins, !.out = out]

\* Two tokens race; the second step of one of them waits for the other to be out of the way.
RaceNet ==
  <<T(1, {OneOf(1)}, Leaf(2)), T(2, {OneOf(3)}, Leaf(4)),
    [T(3, {OneOf(2)}, Leaf(1)) EXCEPT !.inhs = {4}]>>

\* A token is taken and put back under a transition that reads it.
PutBackNet ==
  <<T(1, {OneOf(1)}, Leaf(1)), [T(2, {OneOf(3)}, Leaf(2)) EXCEPT !.reads = {1}],
    T(3, {OneOf(2)}, Leaf(4))>>

\* A choice, whose one side is drained.
DrainNet ==
  <<T(1, {OneOf(1)}, Xor(Leaf(2), Leaf(3))), T(2, {In("all", 1, 2)}, Leaf(4)),
    [T(3, {OneOf(3)}, NoOut) EXCEPT !.resets = {4}]>>

\* Both halves of a pair, or a pair at once.
PairNet ==
  <<T(1, {OneOf(1)}, And(Leaf(2), Leaf(3))), T(2, {OneOf(2), OneOf(3)}, Leaf(1)),
    T(3, {In("exactly", 2, 1)}, Leaf(4))>>

\* Two orders of the same steps meet in one marking: in one the clock of 2 has aged with
\* that of 1, in the other the clock of 3 has.
AgedNet ==
  LET zero == Ms("exact", 0, 0)
      unit == Ms("deadline", 0, 1)
      at(t, timing) == [t EXCEPT !.timing = timing]
  IN <<at(T(1, {OneOf(1)}, NoOut), Ms("window", 2, 4)), at(T(2, {OneOf(2)}, NoOut), unit),
       at(T(3, {OneOf(3)}, NoOut), unit),
       at(T(4, {OneOf(4)}, And(Leaf(2), Leaf(5))), zero), at(T(5, {OneOf(4)}, And(Leaf(3), Leaf(6))), zero),
       at(T(6, {OneOf(5)}, Leaf(3)), unit), at(T(7, {OneOf(6)}, Leaf(2)), unit)>>

AgedCase ==
  [net |-> NetOf(1..6, AgedNet, {}), m |-> <<1, 0, 0, 1, 0, 0>>, untimed |-> FALSE,
   stubborn |-> FALSE, max |-> 60, goals |-> {3}]

Timed(ts, f) == [i \in DOMAIN ts |-> [ts[i] EXCEPT !.timing = f[i]]]

Case(ts, terminals, m, untimed, stubborn, max) ==
  [net |-> NetOf(1..4, ts, terminals), m |-> m, untimed |-> untimed, stubborn |-> stubborn,
   max |-> max, goals |-> {4}]

Structures == {<<RaceNet, <<1, 0, 1, 0>>>>, <<PutBackNet, <<1, 0, 1, 0>>>>,
               <<DrainNet, <<2, 0, 0, 0>>>>, <<PairNet, <<2, 0, 0, 0>>>>}

TheCases ==
  {AgedCase}
    \cup {Case(Timed(s[1], f), {}, s[2], FALSE, FALSE, 60) : s \in Structures, f \in [1..3 -> TheTimings]}
    \cup {Case(s[1], k, s[2], TRUE, b, n) :
            s \in Structures, k \in {{}, {4}}, b \in BOOLEAN, n \in {3, 60}}
=============================================================================
