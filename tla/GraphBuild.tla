----------------------------- MODULE GraphBuild -----------------------------
(***************************************************************************)
(* The construction of a state-class graph, one expansion at a time, and   *)
(* the liveness analysis read off it, against the semantics the graph      *)
(* stands for: states with integer clocks, in which time passes until a    *)
(* deadline and a transition fires within its interval.                    *)
(***************************************************************************)
EXTENDS StateClassGraph

CONSTANT Cases   \* nets to explore: [net, m, untimed, stubborn, max, goals]

VARIABLES case, graph

vars == <<case, graph>>

OptionsOf(c) == Options(NoEnvironment, c.untimed, c.stubborn, c.max)

Explored(c) == AnalyzedNet(c.net)

\* The marking the graph starts from: the split adds empty places.
StartMarking(c) == On(Explored(c).places, c.m)

Init ==
  /\ case \in Cases
  /\ graph = StartGraph(Explored(case), StartMarking(case), OptionsOf(case))

Expand ==
  /\ graph.complete /\ ~Closed(graph) /\ ~Truncates(graph, OptionsOf(case))
  /\ graph' = Expanded(Explored(case), graph, OptionsOf(case), Footprints(Explored(case)))
  /\ UNCHANGED case

Truncate ==
  /\ graph.complete /\ Truncates(graph, OptionsOf(case))
  /\ graph' = [graph EXCEPT !.complete = FALSE]
  /\ UNCHANGED case

Next == Expand \/ Truncate

Spec == Init /\ [][Next]_vars

-----------------------------------------------------------------------------
(* The reference: what the executor's token game does in integer time.     *)

TakesAll(t, p) == \E s \in t.ins : s.place = p /\ Drains(s)

AfterTaking(t, m) ==
  [p \in DOMAIN m |->
     IF p \in t.resets \/ TakesAll(t, p) THEN 0
     ELSE m[p] - FoldSet(LAMBDA s, n : n + s.n, 0, InputOn(t, p))]

AfterPutting(t, m, o) ==
  [p \in DOMAIN m |->
     AfterTaking(t, m)[p] + (IF p \notin DOMAIN o THEN 0
                             ELSE IF o[p][1] = "tokens" THEN o[p][2] ELSE m[o[p][2]])]

CanFire(t, m) == isEnabled(t, m, NoEnvironment)

Interval(c, t) == clockTiming(t, c.untimed)

\* A clock past every bound says nothing more.
ClockBound(c) ==
  Max({0} \cup UNION {{earliest(Interval(c, t)), IF latest(Interval(c, t)) < Infinity THEN latest(Interval(c, t)) ELSE 0}
                        : t \in Range(Explored(c).trans)})

StartClocks(c, m) ==
  [m |-> m, at |-> [n \in {t.name : t \in {u \in Range(Explored(c).trans) : CanFire(u, m)}} |-> 0]]

Tick(c, s) ==
  IF \E t \in Range(Explored(c).trans) : t.name \in DOMAIN s.at /\ s.at[t.name] >= latest(Interval(c, t)) THEN {}
  ELSE {[s EXCEPT !.at = [n \in DOMAIN @ |-> Least(@[n] + 1, ClockBound(c))]]}

FiredClocks(c, s, t, o) ==
  LET between == AfterTaking(t, s.m)
      after   == AfterPutting(t, s.m, o)
      on      == {u \in Range(Explored(c).trans) : CanFire(u, after)}
  IN [m  |-> after,
      at |-> [n \in {u.name : u \in on} |->
                LET u == CHOOSE v \in on : v.name = n IN
                IF u # t /\ n \in DOMAIN s.at /\ CanFire(u, between) THEN s.at[n] ELSE 0]]

Fireable(c, s) ==
  {t \in Range(Explored(c).trans) : t.name \in DOMAIN s.at /\ s.at[t.name] >= earliest(Interval(c, t))}

Steps(c, s) ==
  Tick(c, s) \cup UNION {{FiredClocks(c, s, t, o) : o \in Range(outcomes(t))} : t \in Fireable(c, s)}

RECURSIVE ReachFrom(_, _, _)
ReachFrom(c, seen, frontier) ==
  LET next == UNION {Steps(c, s) : s \in frontier} \ seen IN
  IF next = {} THEN seen ELSE ReachFrom(c, seen \cup next, next)

Reachable ==
  [c \in Cases |-> LET s == StartClocks(c, StartMarking(c)) IN ReachFrom(c, {s}, {s})]

ReachableMarkings == [c \in Cases |-> {s.m : s \in Reachable[c]}]

Dead(c, m) == \A t \in Range(Explored(c).trans) : ~CanFire(t, m)

GraphMarkings == {graph.classes[i].marking : i \in DOMAIN graph.classes}

RECURSIVE CanReach(_, _, _)
CanReach(c, states, S) ==
  LET more == {s \in states \ S : Steps(c, s) \cap S # {}} IN
  IF more = {} THEN S ELSE CanReach(c, states, S \cup more)

\* The step of the explored net that deposits a transition's outcome.
Completing(c, t) ==
  IF \E u \in Range(Explored(c).trans) : u.name = completionTransition(t.name)
    THEN completionTransition(t.name) ELSE t.name

-----------------------------------------------------------------------------
(* Every class of an unfinished graph is reachable, and a graph that       *)
(* closed has every reachable marking: firing domains, their key and the   *)
(* persistence of clocks (dbm.ts, computeSuccessor) lose and add nothing.  *)
GraphExact ==
  /\ GraphMarkings \subseteq ReachableMarkings[case]
  /\ Closed(graph) /\ graph.complete /\ ~case.stubborn => GraphMarkings = ReachableMarkings[case]

\* A graph reduced by stubborn sets keeps every reachable dead marking
\* (stubborn-sets.ts): the quiescence properties read nothing else off it.
StubbornKeepsDead ==
  Closed(graph) /\ case.stubborn =>
    {m \in ReachableMarkings[case] : Dead(case, m)} \subseteq GraphMarkings

\* Goal liveness, L4 liveness and branch coverage of an untimed net are what the
\* analyzer reports: its components, its backward reachability and its reading of a
\* split transition's branches agree with the states themselves.
LivenessExact ==
  Closed(graph) /\ graph.complete /\ ~case.stubborn /\ case.untimed =>
    LET states == Reachable[case]
        goal   == {s \in states : Marked(s.m, case.goals)}
        ready  == [t \in Range(case.net.trans) |-> {s \in states : \E u \in Fireable(case, s) : u.name = Completing(case, t)}]
    IN /\ isGoalLive(graph, case.goals) <=> CanReach(case, states, goal) = states
       /\ isL4Live(graph, case.net) <=> \A t \in Range(case.net.trans) : CanReach(case, states, ready[t]) = states
       /\ \A t \in Range(case.net.trans) :
            untakenBranches(graph, case.net, t) = IF ready[t] = {} THEN DOMAIN outcomes(t) ELSE {}
=============================================================================
