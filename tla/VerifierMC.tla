----------------------------- MODULE VerifierMC -----------------------------
(***************************************************************************)
(* Small nets, each with a feature that a route of the verifier could      *)
(* misread: actions in flight under an inhibitor, a drain or a terminal;   *)
(* batches a timeout forwards; resets; reads; late executors; the modes of *)
(* an environment; and subnets with the contracts of their ports.          *)
(***************************************************************************)
EXTENDS OpenNet

In(type, n, p) == [place |-> p, type |-> type, n |-> n]

Leaf(p) == [type |-> "place", place |-> p]

And(x, y) == [type |-> "and", children |-> <<x, y>>]

Xor(x, y) == [type |-> "xor", children |-> <<x, y>>]

Forwarding(from, to) == [type |-> "forward-input", from |-> from, to |-> to]

TimeoutOf(child) == [type |-> "timeout", child |-> child]

OrForward == Xor(Leaf(3), TimeoutOf(Forwarding(1, 2)))

ForwardCompleted == Xor(Leaf(3), TimeoutOf(Leaf(2)))

TheSpecs ==
  {Leaf(p) : p \in 1..199}
    \cup {And(Leaf(3), Leaf(4)), OrForward, ForwardCompleted, TimeoutOf(Leaf(2)),
          TimeoutOf(Forwarding(1, 2)), Forwarding(1, 2), Xor(Leaf(2), Leaf(3)), And(Leaf(2), Leaf(5)), And(Leaf(1), Leaf(2)), And(Leaf(4), Leaf(2))}

T(name, ins, out) == [Blank(name) EXCEPT !.ins = ins, !.out = out]

-----------------------------------------------------------------------------
Prop(type, places, min, max) ==
  [type |-> type, places |-> places, min |-> min, max |-> max, waivedBy |-> {}]

DeadlockFree == Prop("deadlock-free", {}, 0, 0)

AtSink == Prop("terminates-at-sink", {}, 0, 0)

AtMost(p, k) == Prop("place-bound", {p}, 0, k)

Never(S) == Prop("unreachable", S, 0, 0)

Resting(p) == Prop("joined-or-dead-lettered", {p}, 0, 0)

RestCount(p, min, max) == Prop("quiescent-count", {p}, min, max)

Ends(S) == [always |-> S, when |-> {}]

Env(mode, min, max) == [places |-> {1}, mode |-> mode, min |-> min, max |-> max]

\* The solver-free routes, with a budget the graphs close within.
Ask(ts, places, m, property) ==
  [net |-> NetOf(places, ts, {}), m |-> m, env |-> NoEnvironment, property |-> property,
   sinks |-> NoSinks, atomic |-> FALSE, noReaping |-> FALSE, budget |-> 40, stubborn |-> TRUE,
   linear |-> FALSE, statePhase |-> FALSE, firing |-> FALSE, semiflows |-> "off",
   certificate |-> TRUE, replay |-> TRUE, timedCheck |-> FALSE, deadline |-> FALSE, open |-> NotOpen]

\* Only the fixpoint query, unchecked: the laws must be right.
Spacer(q) == [q EXCEPT !.budget = 0, !.certificate = FALSE, !.semiflows = "on"]

Equation(q) == [q EXCEPT !.budget = 0, !.statePhase = TRUE, !.certificate = FALSE]

Ranked(q) == [q EXCEPT !.budget = 0, !.firing = TRUE]

-----------------------------------------------------------------------------
\* A line of two steps.
Line(property) == Ask(<<T(1, {OneOf(1)}, Leaf(2)), T(2, {OneOf(2)}, Leaf(3))>>, 1..3, <<2, 0, 0>>, property)

LineQueries ==
  LET done == [Line(DeadlockFree) EXCEPT !.sinks = Ends({3})] IN
  {done, [done EXCEPT !.budget = 4], [done EXCEPT !.budget = 5], [done EXCEPT !.budget = 6],
   [done EXCEPT !.stubborn = FALSE, !.budget = 6, !.deadline = TRUE],
   Line(DeadlockFree), Line(AtMost(3, 1)), [Line(AtMost(3, 1)) EXCEPT !.budget = 5],
   [Line(AtMost(2, 2)) EXCEPT !.linear = TRUE], [Line(AtMost(2, 2)) EXCEPT !.linear = TRUE, !.budget = 0],
   Equation(Line(RestCount(3, 2, 2))), [Equation(Line(AtMost(3, 1))) EXCEPT !.certificate = TRUE],
   Ranked(Line(RestCount(3, 2, 2))), Ranked(Line(AtMost(3, 1))), Line(AtMost(99, 1)),
   Spacer(Line(AtMost(3, 1))), [Spacer(Line(AtMost(3, 1))) EXCEPT !.replay = FALSE],
   [done EXCEPT !.m = [p \in {1, 2, 3, 9} |-> IF p \in {1, 9} THEN 1 ELSE 0]]}

\* A step waits until a token is neither before nor after another step.
Gap(atomic, property) ==
  [Ask(<<T(1, {OneOf(1)}, Leaf(2)), [T(2, {OneOf(3)}, Leaf(4)) EXCEPT !.inhs = {1, 2}]>>,
       1..4, <<1, 0, 1, 0>>, property) EXCEPT !.atomic = atomic]

\* A drain waits until every item has been started on.
Bundle(property) ==
  Ask(<<T(1, {OneOf(1)}, Leaf(2)), [T(2, {In("all", 1, 2)}, Leaf(3)) EXCEPT !.inhs = {1}]>>,
      1..3, <<2, 0, 0>>, property)

\* A terminal is marked once a place is empty.
Finish(property) ==
  [Ask(<<[T(1, {OneOf(1)}, Leaf(2)) EXCEPT !.inhs = {3}], T(2, {OneOf(3)}, Leaf(4))>>,
       1..4, <<1, 0, 1, 0>>, property) EXCEPT !.net.terminals = {2}]

InFlightQueries ==
  {Gap(a, Never({4})) : a \in BOOLEAN} \cup {Spacer(Gap(FALSE, Never({4})))}
    \cup {Bundle(AtMost(3, 1)), Spacer(Bundle(AtMost(3, 1))), Bundle(RestCount(3, 1, 1))}
    \cup {Finish(RestCount(4, 1, 1)), Finish(AtSink), Finish(DeadlockFree), Finish(Resting(3))}

\* A timeout forwards two tokens, or all there are.
Forwarded(spec, property) == Ask(<<T(1, {spec}, OrForward)>>, 1..3, <<2, 0, 0>>, property)

ForwardQueries ==
  {Forwarded(In("exactly", 2, 1), AtMost(2, 1)), Spacer(Forwarded(In("exactly", 2, 1), AtMost(2, 1))),
   Forwarded(In("all", 1, 1), AtMost(2, 1)), [Forwarded(In("all", 1, 1), AtMost(2, 2)) EXCEPT !.budget = 0],
   Forwarded(In("all", 1, 1), RestCount(2, 0, 2)),
   [Forwarded(In("exactly", 2, 1), AtMost(2, 2)) EXCEPT !.net.terminals = {2}]}

\* A reset loses what a law counts; a trap can be emptied by one.
Lossy(property) ==
  [Ask(<<T(1, {OneOf(1)}, Leaf(2)), T(2, {OneOf(2)}, Leaf(1)), [T(3, {OneOf(3)}, Leaf(4)) EXCEPT !.resets = {2}],
         [T(4, {OneOf(4)}, Leaf(5)) EXCEPT !.inhs = {1, 2}]>>,
       1..5, <<1, 0, 1, 0, 0>>, property) EXCEPT !.atomic = TRUE]

Halving(resets, property) ==
  [Ask(<<T(1, {In("exactly", 2, 1)}, Leaf(1)), [T(2, {OneOf(2)}, Leaf(3)) EXCEPT !.resets = resets]>>,
       1..3, <<3, 1, 0>>, property) EXCEPT !.atomic = TRUE]

\* A lock.
Mutex(property) ==
  Ask(<<T(1, {OneOf(1), OneOf(2)}, Leaf(3)), T(2, {OneOf(3)}, And(Leaf(1), Leaf(2))),
        T(3, {OneOf(4), OneOf(2)}, Leaf(5)), T(4, {OneOf(5)}, And(Leaf(4), Leaf(2)))>>,
      1..5, <<1, 1, 0, 1, 0>>, property)

LawQueries ==
  {Spacer(Lossy(Never({5}))), [Lossy(Never({5})) EXCEPT !.budget = 0, !.semiflows = "auto"]}
    \cup {Equation(Halving(r, RestCount(1, 1, 3))) : r \in {{}, {1}}}
    \cup {[Equation(Halving({}, RestCount(1, 1, 3))) EXCEPT !.certificate = TRUE],
          Ranked(Halving({1}, RestCount(1, 1, 3)))}

\* A cycle; with a read that can be missing.
Cycle(reads) ==
  [Ask(<<[T(1, {OneOf(1)}, Leaf(2)) EXCEPT !.reads = reads], T(2, {OneOf(2)}, Leaf(1))>>,
       1..2, <<1, 0>>, DeadlockFree) EXCEPT !.budget = 0]

\* A step with a deadline that a late executor reaps.
Late(property) ==
  [Ask(<<[T(1, {OneOf(1)}, Leaf(2)) EXCEPT !.timing = [type |-> "deadline", eft |-> 0, lft |-> 2]],
         [T(2, {OneOf(1)}, Leaf(3)) EXCEPT !.timing = [type |-> "delayed", eft |-> 3, lft |-> Infinity]]>>,
       1..3, <<1, 0, 0>>, property) EXCEPT !.sinks = Ends({2, 3}), !.timedCheck = TRUE]

TimedQueries ==
  {Late(DeadlockFree), [Late(DeadlockFree) EXCEPT !.noReaping = TRUE],
   [Late(Never({3})) EXCEPT !.deadline = TRUE], [Late(Never({2})) EXCEPT !.budget = 1]}

\* Work arrives from outside; a step is held back while there is some.
Served(env, property) ==
  [Ask(<<T(1, {OneOf(1)}, Leaf(2)), [T(2, {OneOf(3)}, Leaf(4)) EXCEPT !.inhs = {1}]>>,
       1..4, <<0, 0, 1, 0>>, property) EXCEPT !.env = env, !.atomic = TRUE]

\* Two at a time, of a place that holds one.
Pairs(k, property) ==
  [Ask(<<T(1, {In("exactly", 2, 1)}, Leaf(2))>>, 1..2, <<0, 0>>, property)
     EXCEPT !.env = Env("bounded", 0, k), !.atomic = TRUE]

EnvironmentQueries ==
  {Served(Env("arrivals", 1, 2), p) : p \in {AtMost(2, 1), RestCount(2, 1, 2), RestCount(2, 2, 2)}}
    \cup {Served(Env("bounded", 0, 1), p) : p \in {Never({1, 4}), Resting(3)}}
    \cup {Served(Env("ignore", 0, 0), Never({2})), Served(Env("ignore", 0, 0), Never({4}))}
    \cup {Equation(Served(Env("always-available", 0, 0), Never({2}))),
          Served(Env("always-available", 0, 0), Never({1, 4}))}
    \cup {[Pairs(1, DeadlockFree) EXCEPT !.m = <<0, 1>>], Pairs(2, Never({2})), Pairs(1, Never({2})),
          [Pairs(1, DeadlockFree) EXCEPT !.m = <<2, 0>>]}

CallerQueries ==
  LineQueries \cup InFlightQueries \cup ForwardQueries \cup LawQueries \cup TimedQueries \cup EnvironmentQueries
    \cup {Cycle({}), Cycle({2}), Mutex(Prop("mutual-exclusion", {3, 5}, 0, 0)), Mutex(DeadlockFree),
          [Mutex(Prop("mutual-exclusion", {3, 5}, 0, 0)) EXCEPT !.linear = TRUE, !.budget = 0],
          Equation(Mutex(Prop("mutual-exclusion", {3, 5}, 0, 0)))}

-----------------------------------------------------------------------------
Group(places, min, max) == [places |-> places, min |-> min, max |-> max]

Nothing == ArrivalsOnly(<<>>, <<>>)

\* On the graph, with more classes than any of these nets has.
Open(places, ts, contract) ==
  [net |-> NetOf(places, ts, {}), contract |-> contract, budget |-> 40, smt |-> TRUE, signal |-> FALSE,
   noReaping |-> FALSE, atomic |-> FALSE, statePhase |-> FALSE, firing |-> FALSE]

\* A token is passed on, once it arrives.
Relay(min, max, least) ==
  Open(1..2, <<T(1, {OneOf(1)}, Leaf(2))>>,
       [Nothing EXCEPT !.arrivals = <<Group({1}, min, max)>>, !.clauses = <<Group({2}, least, 1)>>, !.termination = TRUE])

\* Unless a halt comes first; the token is then left behind, which the contract may excuse.
Halted(terminals) ==
  Open(1..3, <<[T(1, {OneOf(1)}, Leaf(2)) EXCEPT !.inhs = {3}]>>,
       [Nothing EXCEPT !.arrivals = <<Group({1}, 1, 1), Group({3}, 0, 1)>>, !.clauses = <<Group({2}, 1, 1)>>,
                       !.terminals = terminals])

\* A request and the neighbour that answers it, or answers twice.
Tool(answers) ==
  Open({1, 2, 3, 5}, <<T(1, {OneOf(1)}, Leaf(2)), T(2, {OneOf(3)}, Leaf(5))>>,
       [Nothing EXCEPT !.m = <<1>>, !.environment = <<T(50, {OneOf(2)}, answers)>>, !.clauses = <<Group({5}, 1, 1)>>,
                       !.termination = TRUE])

\* The gap between a step's consumption and its deposit.
OpenGap(atomic) ==
  [Open(1..4, <<T(1, {OneOf(1)}, Leaf(2)), [T(2, {OneOf(3)}, Leaf(4)) EXCEPT !.inhs = {1, 2}]>>,
        [Nothing EXCEPT !.m = <<1, 0, 1>>, !.rest = {2, 3}, !.clauses = <<Group({4}, 0, 0)>>])
     EXCEPT !.atomic = atomic]

\* The environment's step has no such gap.
OpenStep ==
  Open(1..4, <<[T(2, {OneOf(3)}, Leaf(4)) EXCEPT !.inhs = {1, 2}]>>,
       [Nothing EXCEPT !.m = <<1, 0, 1>>, !.environment = <<T(50, {OneOf(1)}, Leaf(2))>>, !.rest = {2, 3},
                       !.clauses = <<Group({4}, 0, 0)>>])

\* A terminal of the net itself.
OpenFinish ==
  [Open(1..4, <<T(1, {OneOf(1)}, Leaf(2)), T(2, {OneOf(3)}, Leaf(4))>>,
        [Nothing EXCEPT !.m = <<1, 0, 1>>, !.clauses = <<Group({4}, 1, 1)>>, !.termination = TRUE])
     EXCEPT !.net.terminals = {2}]

\* A deadline that may be missed.
OpenLate(noReaping) ==
  [Open(1..2, <<[T(1, {OneOf(1)}, Leaf(2)) EXCEPT !.timing = [type |-> "deadline", eft |-> 0, lft |-> 2]]>>,
        [Nothing EXCEPT !.m = <<1>>, !.clauses = <<Group({2}, 1, 1)>>])
     EXCEPT !.noReaping = noReaping]

\* A loop, which a contract may ask to end.
Loop(ends) ==
  Open(1..2, <<T(1, {OneOf(1)}, Leaf(2)), T(2, {OneOf(2)}, Leaf(1))>>,
       [Nothing EXCEPT !.m = <<1>>, !.clauses = <<Group({2}, 0, Infinity)>>, !.termination = ends])

\* A batch that a timeout forwards; one it cannot be split for.
OpenForward(spec, terminals) ==
  [Open(1..3, <<T(1, {spec}, OrForward)>>,
        [Nothing EXCEPT !.m = <<2>>, !.clauses = <<Group({2}, 0, 1)>>, !.rest = {1, 3}, !.termination = TRUE])
     EXCEPT !.net.terminals = terminals]

Subnets ==
  {Relay(1, 1, 1), Relay(0, 1, 1), Relay(0, 1, 0), Relay(1, 2, 1), Halted({}), Halted({<<3, {1}>>}), Halted({<<3, {}>>}),
   Tool(Leaf(3)), Tool(And(Leaf(3), Leaf(4))), Tool(Xor(Leaf(2), Leaf(3))), OpenStep, OpenFinish,
   OpenForward(In("all", 1, 1), {}), OpenForward(In("exactly", 2, 1), {2})}
    \cup {OpenGap(a) : a \in BOOLEAN} \cup {OpenLate(n) : n \in BOOLEAN} \cup {Loop(e) : e \in BOOLEAN}

TheOpenCalls ==
  Subnets
    \cup {[o EXCEPT !.budget = 0] : o \in Subnets}
    \cup {[o EXCEPT !.budget = 2] : o \in Subnets}
    \cup {[Tool(Leaf(3)) EXCEPT !.budget = 2, !.smt = FALSE], [Loop(TRUE) EXCEPT !.signal = TRUE],
          [Relay(1, 2, 1) EXCEPT !.budget = 0, !.signal = TRUE],
          [Relay(1, 1, 1) EXCEPT !.budget = 0, !.statePhase = TRUE],
          [Relay(0, 1, 1) EXCEPT !.budget = 0, !.firing = TRUE]}

TheQueries == CallerQueries \cup PartQueries
=============================================================================
