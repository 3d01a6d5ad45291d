-------------------------- MODULE StateClassGraph --------------------------
(***************************************************************************)
(* The state-class graph of a timed net: analysis/dbm.ts (difference bound *)
(* matrices), analysis/state-class-graph.ts, analysis/stubborn-sets.ts,    *)
(* scg-verifier.ts, analysis/scc-analyzer.ts and the liveness analysis of  *)
(* analysis/time-petri-net-analyzer.ts.                                    *)
(*                                                                         *)
(* A zone is the set of its clocks and a matrix of bounds; a clock is      *)
(* named by its transition and 0 is the reference, so the canonical clock  *)
(* order, and `permuted`, are the names themselves.  Bounds are integers.  *)
(***************************************************************************)
EXTENDS VerifierNet

EmptyZone == [clocks |-> {}, empty |-> TRUE, b |-> <<>>]

Plus(x, y) == IF x >= Infinity \/ y >= Infinity THEN Infinity ELSE x + y

Least(x, y) == IF x < y THEN x ELSE y

\* canonicalizeInPlace(): shortest paths, one clock at a time as a stop on the way.
ShortestPaths(clocks, b) ==
  FoldSet(LAMBDA k, d :
            LET through(ij) == Plus(d[<<ij[1], k>>], d[<<k, ij[2]>>])
            IN [ij \in {x \in DOMAIN d : through(x) < d[x]} |-> through(ij)] @@ d,
          b, clocks \cup {0})

canonicalize(clocks, b) ==
  LET d == ShortestPaths(clocks, b) IN
  IF \E i \in clocks \cup {0} : d[<<i, i>>] < 0 THEN EmptyZone
  ELSE [clocks |-> clocks, empty |-> FALSE, b |-> d]

Matrix(clocks, bound(_, _)) ==
  [ij \in (clocks \cup {0}) \X (clocks \cup {0}) |->
     IF ij[1] = ij[2] THEN 0 ELSE bound(ij[1], ij[2])]

\* A clock starts with its transition's interval, unconstrained by the others.
Fresh(timing, i, j) ==
  IF i = 0 THEN -earliest(timing[j]) ELSE IF j = 0 THEN latest(timing[i]) ELSE Infinity

create(timing) ==
  canonicalize(DOMAIN timing, Matrix(DOMAIN timing, LAMBDA i, j : Fresh(timing, i, j)))

\* `f` fires first: no other clock is behind it.
FiresFirst(zone, f) ==
  canonicalize(zone.clocks,
    [ij \in DOMAIN zone.b |-> IF ij[1] = f /\ ij[2] \notin {0, f} THEN Least(zone.b[ij], 0) ELSE zone.b[ij]])

\* The clocks that go on are measured from the firing of `f`; the others start afresh.
AfterFiring(z, f, persistent, timing, i, j) ==
  CASE i = 0 /\ j \in persistent         -> Least(0, z.b[<<f, j>>])
    [] j = 0 /\ i \in persistent         -> z.b[<<i, f>>]
    [] i \in persistent /\ j \in persistent -> z.b[<<i, j>>]
    [] i \in persistent \/ j \in persistent -> Infinity
    [] OTHER                             -> Fresh(timing, i, j)

fireTransition(zone, f, persistent, timing) ==
  LET z      == FiresFirst(zone, f)
      clocks == persistent \cup DOMAIN timing
  IN IF zone.empty \/ z.empty THEN EmptyZone
     ELSE canonicalize(clocks, Matrix(clocks, LAMBDA i, j : AfterFiring(z, f, persistent, timing, i, j)))

letTimePass(zone) ==
  IF zone.empty THEN zone
  ELSE canonicalize(zone.clocks,
         [ij \in DOMAIN zone.b |-> IF ij[1] = 0 /\ ij[2] # 0 THEN 0 ELSE zone.b[ij]])

LowerBound(zone, clock) == -zone.b[<<0, clock>>]

-----------------------------------------------------------------------------
(* State classes and their successors.                                     *)

clockTiming(t, untimed) == IF untimed THEN Immediate ELSE t.timing

\* The transitions of a set of names, each with the timing its clock is given.
Timings(net, names, untimed) ==
  [n \in names |-> clockTiming((CHOOSE t \in Range(net.trans) : t.name = n), untimed)]

NamesOf(ts) == {t.name : t \in Range(ts)}

\* canonicalOrder(): the enabled transitions of a class, by name.
InOrder(ts) == SortSeq(ts, LAMBDA t, u : t.name < u.name)

\* The earliest each clock can be ready, before time is let pass.
Class(m, zone, enabled) ==
  [marking |-> m, zone |-> letTimePass(zone), enabled |-> InOrder(enabled),
   ready |-> [n \in NamesOf(enabled) |-> IF zone.empty THEN 0 ELSE LowerBound(zone, n)]]

\* The marking and zoneKey(): the clocks and the whole canonical matrix.
classKey(c) == <<c.marking, c.zone>>

initialStateClass(net, m, env, untimed) ==
  LET enabled == findEnabledTransitions(net, m, env)
  IN Class(m, create(Timings(net, NamesOf(enabled), untimed)), enabled)

\* Mutant: a clock goes on when its transition is enabled before and after.
PersistsAcross(c, t, u, between, after, env) == u.name # t.name /\ isEnabled(u, after, env)

\* A clock goes on if its transition is enabled throughout the firing of another.
Persists(c, t, u, between, after, env) ==
  u.name # t.name /\ isEnabled(u, between, env) /\ isEnabled(u, after, env)

\* The class after a firing: the clocks of `kept` go on, the other enabled ones start.
NextClass(net, c, t, after, enabled, kept, untimed) ==
  Class(after, fireTransition(c.zone, t.name, kept, Timings(net, NamesOf(enabled) \ kept, untimed)), enabled)

Settle(net, c, t, between, after, env, untimed) ==
  NextClass(net, c, t, after, findEnabledTransitions(net, after, env),
            {u.name : u \in {v \in Range(c.enabled) : Persists(c, t, v, between, after, env)}}, untimed)

Deposit(net, c, t, between, outcome, env, untimed) ==
  Settle(net, c, t, between, produceOutputs(c.marking, between, t, outcome, env), env, untimed)

computeSuccessor(net, c, t, outcome, env, untimed) ==
  Deposit(net, c, t, consumeInputs(c.marking, t, env), outcome, env, untimed)

-----------------------------------------------------------------------------
(* Stubborn sets: at a class, the enabled transitions that must be         *)
(* expanded so that every reachable dead marking stays reachable.          *)

Deposits(t) == UNION {DOMAIN o : o \in Range(outcomes(t))}

Tests(t) == InputPlaces(t) \cup t.reads \cup t.inhs

Writes(t) == InputPlaces(t) \cup t.resets \cup Deposits(t)

Overwrites(t) == t.resets \cup {s.place : s \in {i \in t.ins : Drains(i)}}

\* Mutant: two transitions that only compete for a place's tokens.
SharesInput(t, u) == InputPlaces(t) \cap InputPlaces(u) # {}

Dependent(t, u) ==
  \/ Writes(t) \cap Tests(u) # {} \/ Tests(t) \cap Writes(u) # {}
  \/ Overwrites(t) \cap Writes(u) # {} \/ Writes(t) \cap Overwrites(u) # {}

\* What the net's stubborn sets are computed from, once per net.
Footprints(net) ==
  [dependents |-> [t \in Range(net.trans) |-> {u \in Range(net.trans) : u # t /\ Dependent(t, u)}],
   increasers |-> [p \in net.places |-> {u \in Range(net.trans) : p \in Deposits(u)}],
   decreasers |-> [p \in net.places |-> {u \in Range(net.trans) : p \in InputPlaces(u) \cup u.resets}]]

Needs(t) == {<<s.place, requiredCount(s)>> : s \in t.ins} \cup {<<p, 1>> : p \in t.reads}

\* The first unmet condition of a disabled transition: inputs and reads by place, then
\* inhibitors; those that can meet it.
scapegoat(fp, m, t) ==
  LET short    == {n[1] : n \in {c \in Needs(t) : Tokens(m, c[1]) < c[2]}}
      blocking == {p \in t.inhs : Tokens(m, p) > 0}
  IN IF short # {} THEN fp.increasers[Min(short)] ELSE fp.decreasers[Min(blocking)]

RECURSIVE closure(_, _, _, _, _)
closure(fp, m, enabled, set, work) ==
  IF work = {} THEN set
  ELSE LET t   == CHOOSE u \in work : TRUE
           new == (IF t \in enabled THEN fp.dependents[t] ELSE scapegoat(fp, m, t)) \ set
       IN closure(fp, m, enabled, set \cup new, (work \ {t}) \cup new)

\* The closure with the fewest enabled members, the smallest seed first.
select(fp, m, enabled) ==
  LET on      == Range(enabled)
      from    == [i \in DOMAIN enabled |-> closure(fp, m, on, {enabled[i]}, {enabled[i]}) \cap on]
      fewest  == Min({Cardinality(from[i]) : i \in DOMAIN enabled})
      seed    == SelectInSeq(from, LAMBDA s : Cardinality(s) = fewest)
  IN IF Len(enabled) <= 1 THEN enabled ELSE SelectSeq(enabled, LAMBDA t : t \in from[seed])

-----------------------------------------------------------------------------
(* StateClassGraph.build(): breadth first, in index order.  Edges are kept *)
(* in the order they are added; `expanded` classes have had their          *)
(* successors computed.  A graph that holds the budget's classes before    *)
(* it closes is truncated.                                                 *)

Options(env, untimed, stubborn, max) ==
  [env |-> env, untimed |-> untimed, stubborn |-> stubborn, max |-> max]

StartGraph(net, m, opts) ==
  [classes |-> <<initialStateClass(net, m, opts.env, opts.untimed)>>, edges |-> <<>>,
   expanded |-> 0, complete |-> TRUE]

\* The class of a key, if the graph has it: 0 if not.
IndexOfKey(g, key) == SelectInSeq(g.classes, LAMBDA c : classKey(c) = key)

AddSuccessor(g, from, s) ==
  LET at == IndexOfKey(g, classKey(s[3]))
      to == IF at = 0 THEN Len(g.classes) + 1 ELSE at
  IN [g EXCEPT !.classes = IF at = 0 THEN Append(@, s[3]) ELSE @,
               !.edges = Append(@, [from |-> from, t |-> s[1], branch |-> s[2], to |-> to])]

\* The successors of a class in order, one per outcome of a transition it expands.
SuccessorsBy(net, c, t, os, opts) ==
  [k \in DOMAIN os |-> <<t.name, k, computeSuccessor(net, c, t, os[k], opts.env, opts.untimed)>>]

ClassSuccessors(net, c, expand, opts) ==
  FlattenSeq([i \in DOMAIN expand |-> SuccessorsBy(net, c, expand[i], outcomes(expand[i]), opts)])

ExpandTransitions(c, opts, fp) == IF opts.stubborn THEN select(fp, c.marking, c.enabled) ELSE c.enabled

WithSuccessors(g, from, all) ==
  FoldLeft(LAMBDA h, s : AddSuccessor(h, from, s), [g EXCEPT !.expanded = from],
           SelectSeq(all, LAMBDA s : ~s[3].zone.empty))

ExpandClass(net, g, from, c, opts, fp) ==
  WithSuccessors(g, from, ClassSuccessors(net, c, ExpandTransitions(c, opts, fp), opts))

Expanded(net, g, opts, fp) == ExpandClass(net, g, g.expanded + 1, g.classes[g.expanded + 1], opts, fp)

Closed(g) == g.expanded = Len(g.classes)

Truncates(g, opts) == ~Closed(g) /\ Len(g.classes) >= opts.max

RECURSIVE Explore(_, _, _, _)
Explore(net, g, opts, fp) ==
  IF Closed(g) THEN g
  ELSE IF Truncates(g, opts) THEN [g EXCEPT !.complete = FALSE]
  ELSE Explore(net, Expanded(net, g, opts, fp), opts, fp)

buildGraph(net, m, opts) == Explore(net, StartGraph(net, m, opts), opts, Footprints(net))

SuccessorsOf(g, i) == {g.edges[k].to : k \in {e \in DOMAIN g.edges : g.edges[e].from = i}}

-----------------------------------------------------------------------------
(* scg-verifier.ts: a verdict read off the graph.                          *)

isUntimed(net) == \A t \in Range(net.trans) : t.timing.type = "immediate"

\* Mutant: a class whose successors were never computed counts as dead.
FrontierRests(g, reapable, i) == SuccessorsOf(g, i) = {}

RestsAt(g, reapable, i) ==
  /\ i <= g.expanded
  /\ SuccessorsOf(g, i) = {} \/ (reapable # {} /\ NamesOf(g.classes[i].enabled) \subseteq reapable)

\* The first class that witnesses a violation, 0 if none does.
decideOverClasses(g, property, sinks, reapable) ==
  SelectInSeq([i \in DOMAIN g.classes |-> i], LAMBDA i :
    LET m == g.classes[i].marking IN
    IF isReachabilitySafety(property) THEN safetyViolation(m, property)
    ELSE RestsAt(g, reapable, i) /\ quiescentViolation(m, property, sinks))

\* An explored prefix refutes a property and never proves one.
decideOverStateSpace(g, property, sinks, asPrefix, reapable) ==
  LET at == decideOverClasses(g, property, sinks, reapable) IN
  IF at # 0 THEN [kind |-> "violated", at |-> at]
  ELSE IF g.complete /\ ~asPrefix THEN [kind |-> "proven", at |-> 0]
  ELSE [kind |-> "truncated", at |-> 0]

\* The shortest path to a class: the edges that discovered it and its ancestors.
RECURSIVE counterexamplePath(_, _)
counterexamplePath(g, i) ==
  IF i = 1 THEN <<>>
  ELSE LET e == g.edges[SelectInSeq(g.edges, LAMBDA x : x.to = i)]
       IN Append(counterexamplePath(g, e.from), e)

-----------------------------------------------------------------------------
(* scc-analyzer.ts: Tarjan's algorithm, one vertex at a time.  `low` is    *)
(* the index or the low link of a vertex that has been visited.            *)

\* What w says of v: its low link if v has just visited it, its index if it is on the stack.
LowThrough(st, next, v, w) ==
  IF w \notin DOMAIN st.index THEN next.low[w]
  ELSE IF w \in Range(st.stack) THEN st.index[w] ELSE next.low[v]

RECURSIVE strongConnect(_, _, _)
RECURSIVE Visit(_, _, _, _)

\* The successors of v in turn, each visited or read.
Visit(g, st, v, ws) ==
  IF ws = <<>> THEN st
  ELSE LET w    == Head(ws)
           next == IF w \notin DOMAIN st.index THEN strongConnect(g, st, w) ELSE st
       IN Visit(g, [next EXCEPT !.low[v] = Least(@, LowThrough(st, next, v, w))], v, Tail(ws))

strongConnect(g, st, v) ==
  LET n     == Cardinality(DOMAIN st.index)
      begun == [st EXCEPT !.index = [x \in DOMAIN @ \cup {v} |-> IF x = v THEN n ELSE @[x]],
                          !.low   = [x \in DOMAIN @ \cup {v} |-> IF x = v THEN n ELSE @[x]],
                          !.stack = Append(@, v)]
      done  == Visit(g, begun, v, SetToSortSeq(SuccessorsOf(g, v), <))
      at    == SelectInSeq(done.stack, LAMBDA x : x = v)
  IN IF done.low[v] # done.index[v] THEN done
     ELSE [done EXCEPT !.sccs  = @ \cup {Range(SubSeq(done.stack, at, Len(done.stack)))},
                       !.stack = SubSeq(@, 1, at - 1)]

computeSCCs(g) ==
  FoldLeft(LAMBDA st, v : IF v \in DOMAIN st.index THEN st ELSE strongConnect(g, st, v),
           [index |-> [x \in {} |-> 0], low |-> [x \in {} |-> 0], stack |-> <<>>, sccs |-> {}],
           [i \in DOMAIN g.classes |-> i]).sccs

\* Mutant: a component is terminal if one of its classes has all its successors in it.
TerminalSomewhere(g) == {C \in computeSCCs(g) : \E v \in C : SuccessorsOf(g, v) \subseteq C}

findTerminalSCCs(g) == {C \in computeSCCs(g) : \A v \in C : SuccessorsOf(g, v) \subseteq C}

-----------------------------------------------------------------------------
(* time-petri-net-analyzer.ts.                                             *)

RECURSIVE computeBackwardReachability(_, _)
computeBackwardReachability(g, S) ==
  LET more == {i \in DOMAIN g.classes : SuccessorsOf(g, i) \cap S # {}} IN
  IF more \subseteq S THEN S ELSE computeBackwardReachability(g, S \cup more)

goalClasses(g, goals) == {i \in DOMAIN g.classes : Marked(g.classes[i].marking, goals)}

isGoalLive(g, goals) ==
  LET goal == goalClasses(g, goals) IN
  /\ \A C \in findTerminalSCCs(g) : C \cap goal # {}
  /\ computeBackwardReachability(g, goal) = DOMAIN g.classes

\* A completion step fires for the transition it completes.
sourceTransition(t) == IF t \in 101..199 THEN t - 100 ELSE t

FiredWithin(g, C) ==
  {sourceTransition(g.edges[k].t) : k \in {e \in DOMAIN g.edges : g.edges[e].from \in C /\ g.edges[e].to \in C}}

isL4Live(g, callerNet) ==
  g.complete /\ \A C \in findTerminalSCCs(g) : NamesOf(callerNet.trans) \subseteq FiredWithin(g, C)

\* The net the analyzer explores; one it cannot split it explores as it is.
AnalyzedNet(net) ==
  LET split == inFlightTransitionsFor(net, {}, NoDemand) IN
  withTerminalInhibitors(IF split = {} \/ firstUnsplittable(net, {}, split) THEN net ELSE SplitNet(net, split))

\* analyzeXorBranches(): the branches of a transition no edge takes.
untakenBranches(g, callerNet, t) ==
  LET completion == completionTransition(t.name)
      split == \/ \E k \in DOMAIN g.edges : g.edges[k].t = completion
               \/ \E i \in DOMAIN g.classes : Tokens(g.classes[i].marking, inFlightPlace(t.name)) > 0
      label == IF split THEN completion ELSE t.name
  IN DOMAIN outcomes(t) \ {g.edges[k].branch : k \in {e \in DOMAIN g.edges : g.edges[e].t = label}}
=============================================================================
