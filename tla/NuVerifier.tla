----------------------------- MODULE NuVerifier -----------------------------
(***************************************************************************)
(* SmtVerifier.verify() of verification/smt-verifier.ts on a nu-net, or    *)
(* for a name-alignment property: Route B (nu-scg-verifier.ts), one class  *)
(* expanded at a time, then Route A, coloured or name-blind, behind        *)
(* applyNuGuard().  When the call has ended, the executor runs the net the *)
(* verdict is about, with names on its tokens: it fires in passes by       *)
(* priority, its actions take time and complete in any order, and it may   *)
(* be late.                                                                *)
(*                                                                         *)
(* The solver is external: it answers truthfully or not at all, and the    *)
(* weighting of the slot-bound program is any of the query's.              *)
(***************************************************************************)
EXTENDS NameLayer, TLC

CONSTANTS Queries,    \* what is asked: nets, properties, declarations
          Pool,       \* names a token may carry: 1, 2, ...
          EnvSupply   \* tokens the environment sends where its mode sets no bound

VARIABLES
  q,       \* the query
  run,     \* what prepare() derived from it
  pc,      \* where the call is
  graph,   \* Route B's, while it is built
  result,
  exec     \* the executor, once the call has ended

vars == <<q, run, pc, graph, result, exec>>

\* What the builder methods accept: an alignment property names a place.
IsConfiguration(c) ==
  /\ c.mode \in {"base", "extended"} /\ c.priority \in {"none", "conflict"} /\ c.max \in Nat
  /\ isNameAlignment(c.property) => c.property.places # {}

ASSUME QueriesAreConfigurations == \A c \in Queries : IsConfiguration(c)

NoGraph == <<>>

NuResult(type, route, path) == [type |-> type, route |-> route, path |-> path]

Unsaid == NuResult("none", "none", <<>>)

Unknown(route) == NuResult("unknown", route, <<>>)

-----------------------------------------------------------------------------
(* prepare(): as on every net, and the split conflict priority asks for.   *)

applyArrivals(c) ==
  IF c.env.mode = "arrivals" /\ c.env.places # {} THEN closeArrivals(c.net, c.m, c.env)
  ELSE [net |-> c.net, m |-> c.m, steps |-> {}]

routeBTakes(net, property, budgetPlaces) ==
  \/ isNameAlignment(property)
  \/ hasMatch(net) /\ (~isReachabilitySafety(property) \/ budgetPlaces = {})

conflictPruningApplies(c, net, reapable) ==
  c.priority = "conflict" /\ routeBTakes(net, c.property, c.budgetPlaces) /\ reapable = {}

PreparedNet(c, closed, net, split, refused, priority, reapable) ==
  [net |-> withTerminalInhibitors(net), m |-> On(net.places, closed.m),
   env |-> IF c.env.mode = "arrivals" THEN NoEnvironment ELSE c.env,
   arrive |-> IF closed.steps = {} THEN {} ELSE c.env.places,
   sinks |-> TerminalSinks(net, c.sinks), refused |-> refused, priority |-> priority,
   reapable |-> reapable, late |-> IF c.noReaping THEN {} ELSE lateTransitions(c.net)]

\* A pruner or a feeder that cannot be split turns the pruning off, not the verification.
applyInFlight(c, closed, net, reapable) ==
  LET terminal == quiescentCountDemand(net, c.property)
      conflict == IF conflictPruningApplies(c, net, reapable) THEN conflictDemand(net) ELSE NoDemand
      wanted   == inFlightTransitionsFor(net, closed.steps, unionDemand(terminal, conflict))
      off      == conflict.forced # {} /\ firstUnsplittable(net, c.carriers, wanted)
      split    == IF off THEN inFlightTransitionsFor(net, closed.steps, terminal) ELSE wanted
      priority == IF off THEN "none" ELSE c.priority
  IN IF c.atomic THEN PreparedNet(c, closed, net, {}, FALSE, c.priority, reapable)
     ELSE IF firstUnsplittable(net, c.carriers, split) THEN PreparedNet(c, closed, net, split, TRUE, priority, reapable)
     ELSE PreparedNet(c, closed, SplitNet(net, split), split, FALSE, priority, reapable)

AfterArrivals(c, closed) ==
  applyInFlight(c, closed, withInertMarkedPlaces(closed.net, closed.m),
                IF c.noReaping THEN {} ELSE reapableTransitions(c.net))

prepare(c) == AfterArrivals(c, applyArrivals(c))

Mints == declaredMints(run.net, q.budgetPlaces, q.mints)

Fragment == classify(run.net, q.mode, q.carriers, Mints, isNameAlignment(q.property))

AnyFragment == classify(run.net, q.mode, q.carriers, everyTransition(run.net), isNameAlignment(q.property))

-----------------------------------------------------------------------------
(* What keeps the call, or Route B, from answering.                        *)

unknownMint == ~(q.mints \subseteq everyTransition(run.net))

absentPlace == ~(propertyPlaces(q.property) \subseteq run.net.places)

boundedPremiseViolation ==
  /\ run.env.mode = "bounded"
  /\ \E p \in run.env.places :
       Tokens(q.m, p) > run.env.max \/ \E t \in Range(run.net.trans) : p \in OutputPlaces(t)

Refused == unknownMint \/ absentPlace \/ boundedPremiseViolation \/ run.refused

ignoresEnvironment == run.env.places # {} /\ run.env.mode = "ignore"

routeBBuilds(f) ==
  f.admitted /\ (isNameAlignment(q.property) \/ ~Marked(run.m, f.coloured))

\* An arrival's name is unknown: it is no fresh mint.
colouredArrival == run.arrive \cap AnyFragment.coloured # {} /\ AnyFragment.admitted

flatNet == flatten(run.net, run.env, run.reapable)

\* What the property reads of a place the graph holds still.
Observed(quiescenceVacuous) ==
  CASE q.property.type = "deadlock-free" ->
         IF quiescenceVacuous THEN {} ELSE (run.env.places \ run.sinks.always) \cup {c[1] : c \in run.sinks.when}
    [] q.property.type = "terminates-at-sink" -> IF quiescenceVacuous THEN {} ELSE run.sinks.always
    [] q.property.type \in {"joined-or-dead-lettered", "quiescent-count"} ->
         IF quiescenceVacuous THEN {} ELSE propertyPlaces(q.property)
    [] q.property.type = "quiescent-name-aligned" -> run.env.places
    [] OTHER -> propertyPlaces(q.property)

routeBEnvObservation(env) ==
  \/ env \cap Fragment.coloured # {}
  \/ \E t \in Range(run.net.trans) : t.inhs \cap env # {}
  \/ run.priority = "conflict" /\ \E p \in env :
       Cardinality({i \in DOMAIN run.net.trans : p \in InputPlaces(run.net.trans[i])}) >= 2
  \/ env \cap Observed(quiescenceUnreachable(flatNet)) # {}

EnvironmentHides ==
  \/ routeBBuilds(AnyFragment) /\ colouredArrival
  \/ /\ routeBBuilds(Fragment) /\ run.env.mode # "ignore"
     /\ routeBEnvObservation(run.env.places \cap run.net.places)

\* A place without names is always aligned, and no initial names are modelled.
nameAlignmentRefusal ==
  /\ isNameAlignment(q.property)
  /\ ~(q.property.places \subseteq Fragment.coloured) \/ Marked(run.m, Fragment.coloured)

-----------------------------------------------------------------------------
(* verifyViaNameScg(): the graph of a late executor's net, without pruning *)
(* where a transition may be reaped.                                       *)

GraphNet == relaxLate(run.net, run.late)

GraphOptions ==
  BuildOptions(run.env, q.max, IF run.reapable # {} THEN "none" ELSE run.priority, q.property)

RestsOn == IF isReachabilitySafety(q.property) \/ q.property.type = "name-aligned" THEN {} ELSE run.reapable

\* The labels on the edges that discovered a class and its ancestors.
RECURSIVE PathTo(_, _)
PathTo(g, i) ==
  IF i = 1 THEN <<>>
  ELSE LET e == g.edges[SelectInSeq(g.edges, LAMBDA x : x.to = i)] IN Append(PathTo(g, e.from), e.t)

Decided(g, at) ==
  IF at # 0 THEN NuResult("violated", "nu-scg", PathTo(g, at))
  ELSE IF ~g.complete THEN Unknown("nu-scg")
  ELSE IF ignoresEnvironment THEN Unknown("nu-scg")
  ELSE NuResult("proven", "nu-scg", <<>>)

DefersToRouteA(outcome) ==
  /\ outcome.type = "unknown" /\ ~isNameAlignment(q.property)
  /\ ~isReachabilitySafety(q.property) /\ q.budgetPlaces # {}

-----------------------------------------------------------------------------
(* Route A: the coloured encoding where there is a plan, else the flat one.*)

SaysOf(bad, route) == {NuResult(IF bad THEN "violated" ELSE "proven", route, <<>>), Unknown(route)}

colouredPlan(cover) ==
  IF q.budgetPlaces = {} \/ DOMAIN flatNet.inject # {} \/ colouredArrival THEN NoPlan
  ELSE buildColouredPlan(run.net, flatNet, run.m, Mints, q.mode, q.carriers, cover)

ColouredAnswer(C, k) ==
  SaysOf(\E s \in encodeColoured(run.net, flatNet, run.m, C, k) :
           encodeViolation(run.net, flatNet, s, C, k, q.property, run.sinks), "coloured")

\* A run longer than any the query's net has.
RunBound == 40

FlatAnswer ==
  SaysOf(\E m \in BoundedRun(flatNet, {run.m}, RunBound) : satisfiesBad(flatNet, m, q.property, run.sinks), "flat")

\* Name-blind joins fire too often: right for bounds, wrong for quiescence.
applyNuGuard(answer) ==
  IF answer.type # "unknown" /\ (~isReachabilitySafety(q.property) \/ q.budgetPlaces = {})
    THEN Unknown("flat") ELSE answer

RouteAAnswers(cover) ==
  LET k == colouredPlan(cover)
      proofs == {a \in FlatAnswer : isReachabilitySafety(q.property) /\ a.type = "proven"}
      plain  == IF ignoresEnvironment THEN {Unknown("flat")} ELSE {applyNuGuard(a) : a \in FlatAnswer}
  IN {applyNuGuard(a) : a \in proofs}
       \cup IF k = NoPlan THEN plain ELSE ColouredAnswer(colouredPlaces(run.net, q.mode, q.carriers), k)

-----------------------------------------------------------------------------
(* The executor, as the runtime runs the caller's net: a label is the name *)
(* a token carries, 0 for none.                                            *)

Labels == Pool \cup {0}

Named == UNION {t.keys \cup t.relays : t \in Range(q.net.trans)} \cup q.carriers

CountsOf(c) == [p \in {x[1] : x \in DOMAIN c} |-> FoldSet(LAMBDA n, k : k + c[<<p, n>>], 0, Labels)]

MatchesOf(t, c) ==
  IF isJoin(t) THEN {n \in Pool : \A p \in t.keys : c[<<p, n>>] >= KeyCounts(t)[p]} ELSE {0}

CanStart(t, c) == isEnabled(t, CountsOf(c), NoEnvironment) /\ MatchesOf(t, c) # {}

Amount(b) == FoldSet(LAMBDA n, k : k + b[n], 0, Labels)

\* What a firing takes from an input: by name from a key, otherwise tokens of any name.
PlaceTakes(t, c, name, spec) ==
  LET p == spec.place IN
  IF p \in t.keys
    THEN {[n \in Labels |-> IF n # name THEN 0 ELSE IF Drains(spec) THEN c[<<p, n>>] ELSE requiredCount(spec)]}
  ELSE IF Drains(spec) THEN {[n \in Labels |-> c[<<p, n>>]]}
  ELSE {b \in [Labels -> 0..requiredCount(spec)] :
          Amount(b) = requiredCount(spec) /\ \A n \in Labels : b[n] <= c[<<p, n>>]}

Takes(t, c, name) ==
  LET choices == [p \in InputPlaces(t) |-> PlaceTakes(t, c, name, CHOOSE s \in InputOn(t, p) : TRUE)]
  IN {f \in [InputPlaces(t) -> UNION Range(choices)] : \A p \in InputPlaces(t) : f[p] \in choices[p]}

AfterTaking(t, c, took) ==
  [x \in DOMAIN c |-> IF x[1] \in t.resets THEN 0
                      ELSE c[x] - IF x[1] \in DOMAIN took THEN took[x[1]][x[2]] ELSE 0]

Firings(t, c) == UNION {{[t |-> t, name |-> n, took |-> f] : f \in Takes(t, c, n)} : n \in MatchesOf(t, c)}

HeldNames(f) == {n \in Pool : \E p \in DOMAIN f.took \cap Named : f.took[p][n] > 0}

LiveNames(c, fly) ==
  {n \in Pool : (\E p \in Named : c[<<p, n>>] > 0) \/ \E f \in fly : n \in HeldNames(f)}

\* The names an action may write: a join's relays carry the match, a mint writes a fresh
\* name, a consumer of one named token its name; any other action what it likes.
WritableNames(f, live, p) ==
  CASE p \notin Named                         -> {0}
    [] isJoin(f.t) /\ p \in f.t.relays        -> {f.name}
    [] isJoin(f.t)                            -> Pool
    [] InputPlaces(f.t) \cap Named # {}       -> IF Cardinality(HeldNames(f)) = 1 THEN HeldNames(f) ELSE Pool
    [] f.t.name \in declaredMints(q.net, q.budgetPlaces, q.mints) -> {Min(Pool \ live)}
    [] OTHER                                  -> Pool

One(n) == [l \in Labels |-> IF l = n THEN 1 ELSE 0]

ActionDeposits(f, live) ==
  UNION {{[p \in o |-> One(g[p])] : g \in {h \in [o -> Labels] : \A p \in o : h[p] \in WritableNames(f, live, p)}}
           : o \in {DOMAIN d : d \in Range(ActionOutcomes(f.t))}}

TimeoutDeposit(f, child) ==
  [p \in {LeafName(l) : l \in Range(LeavesOf[child])} |->
     LET l == CHOOSE x \in Range(LeavesOf[child]) : LeafName(x) = p IN
     IF l.type = "place" THEN One(0) ELSE f.took[l.from]]

\* A relay of another name fails the firing, which deposits nothing.
RelaysOnlyMatch(f, d) ==
  isJoin(f.t) => \A p \in DOMAIN d \cap f.t.relays : \A n \in Labels : d[p][n] > 0 => n = f.name

TimeoutDepositsOf(f) ==
  IF f.t.out = NoOut THEN {}
  ELSE {LET d == TimeoutDeposit(f, n.child) IN IF RelaysOnlyMatch(f, d) THEN d ELSE <<>> : n \in Timeouts(f.t.out)}

Deposits1(f, live) == ActionDeposits(f, live) \cup TimeoutDepositsOf(f)

AfterDeposit(c, d) == [x \in DOMAIN c |-> c[x] + IF x[1] \in DOMAIN d THEN d[x[1]][x[2]] ELSE 0]

-----------------------------------------------------------------------------
(* Clocks, passes, the environment.                                        *)

ClockBound == Max({0} \cup UNION {{earliest(t.timing), IF hasLatestBound(t.timing) THEN latest(t.timing) ELSE 0}
                                     : t \in Range(q.net.trans)}) + 1

ClocksAfter(at, fired, c) ==
  [n \in {t.name : t \in {u \in Range(q.net.trans) : CanStart(u, c)}} |->
     IF n \in DOMAIN at /\ n # fired THEN at[n] ELSE 0]

ByName(n) == CHOOSE t \in Range(q.net.trans) : t.name = n

Expired(t, at) == isReapable(t.timing) /\ at[t.name] > latest(t.timing)

ReadyNow(x) ==
  {t \in Range(q.net.trans) :
     /\ t.name \in DOMAIN x.at /\ x.at[t.name] >= earliest(t.timing) /\ ~Expired(t, x.at)
     /\ ~\E f \in x.fly : f.t = t}

Halted(x) == Marked(CountsOf(x.c), q.net.terminals)

\* The initial tokens of a named place carry some name.
Starts ==
  {LET c == [x \in (q.net.places \cup DOMAIN q.m) \X Labels |->
               IF x[2] = (IF x[1] \in DOMAIN g THEN g[x[1]] ELSE 0) THEN Tokens(q.m, x[1]) ELSE 0]
   IN [c |-> c, fly |-> {}, at |-> ClocksAfter(<<>>, 0, c), pass |-> <<>>, sent |-> 0]
     : g \in [{p \in Named : Tokens(q.m, p) > 0} -> Pool]}

Orders(ts) ==
  {s \in [1..Cardinality(ts) -> {t.name : t \in ts}] :
     \A i, j \in DOMAIN s : i < j => s[i] # s[j] /\ ByName(s[i]).prio >= ByName(s[j]).prio}

Resting(x) ==
  \/ Halted(x)
  \/ /\ x.fly = {} /\ x.pass = <<>>
     /\ \A n \in DOMAIN x.at : Expired(ByName(n), x.at)
     /\ q.env.mode = "arrivals" => x.sent >= q.env.min
     /\ q.env.mode \in {"always-available", "bounded"} =>
          ~\E t \in Range(q.net.trans) : isEnabled(t, CountsOf(x.c), q.env) /\ MatchesOf(t, x.c) # {}

NamesAt(c, S) == {n \in Pool : \E p \in S : c[<<p, n>>] > 0}

Breaks(c, resting) ==
  LET m == CountsOf(c) IN
  CASE isReachabilitySafety(q.property)        -> safetyViolation(m, q.property)
    [] q.property.type = "name-aligned"        -> Cardinality(NamesAt(c, q.property.places)) > 1
    [] q.property.type = "quiescent-name-aligned" -> resting /\ Cardinality(NamesAt(c, q.property.places)) > 1
    [] OTHER -> resting /\ quiescentViolation(m, q.property, TerminalSinks(q.net, q.sinks))

-----------------------------------------------------------------------------
Init ==
  /\ q \in Queries
  /\ run = prepare(q)
  /\ pc = "route" /\ graph = NoGraph /\ result = Unsaid
  /\ exec = <<>>

Ends(answer) ==
  /\ result' = answer /\ pc' = "done" /\ graph' = NoGraph
  /\ exec' \in Starts
  /\ UNCHANGED <<q, run>>

\* No route answers.
Refuse == pc = "route" /\ Refused /\ Ends(Unknown("none"))

ToRouteB ==
  /\ pc = "route" /\ ~Refused /\ routeBTakes(run.net, q.property, q.budgetPlaces)
  /\ pc' = "routeB"
  /\ UNCHANGED <<q, run, graph, result, exec>>

ToRouteA ==
  /\ pc = "route" /\ ~Refused /\ ~routeBTakes(run.net, q.property, q.budgetPlaces)
  /\ pc' = "routeA"
  /\ UNCHANGED <<q, run, graph, result, exec>>

RouteBDeclines ==
  /\ pc = "routeB"
  /\ \/ EnvironmentHides
     \/ isNameAlignment(q.property) /\ (~Fragment.admitted \/ nameAlignmentRefusal)
  /\ Ends(Unknown("nu-scg"))

OutsideFragment ==
  /\ pc = "routeB" /\ ~EnvironmentHides /\ ~isNameAlignment(q.property) /\ ~routeBBuilds(Fragment)
  /\ pc' = "routeA"
  /\ UNCHANGED <<q, run, graph, result, exec>>

StartBuild ==
  /\ pc = "routeB" /\ ~EnvironmentHides /\ routeBBuilds(Fragment) /\ ~nameAlignmentRefusal
  /\ graph' = StartNames(GraphNet, run.m, GraphOptions)
  /\ pc' = "build"
  /\ UNCHANGED <<q, run, result, exec>>

Building == pc = "build" /\ graph.complete /\ graph.expanded < Len(graph.classes)

Expand ==
  /\ Building /\ Len(graph.classes) < q.max
  /\ graph' = NamesExpanded(GraphNet, graph, Fragment, GraphOptions)
  /\ UNCHANGED <<q, run, pc, result, exec>>

Truncate ==
  /\ Building /\ Len(graph.classes) >= q.max
  /\ graph' = [graph EXCEPT !.complete = FALSE]
  /\ UNCHANGED <<q, run, pc, result, exec>>

\* The verdict of the graph, or on to Route A with a budgeted quiescence property.
Decide ==
  /\ pc = "build" /\ ~Building
  /\ LET outcome == Decided(graph, decide(graph, q.property, run.sinks, RestsOn)) IN
     IF DefersToRouteA(outcome)
       THEN pc' = "routeA" /\ graph' = NoGraph /\ UNCHANGED <<q, run, result, exec>>
       ELSE Ends(outcome)

RouteA ==
  /\ pc = "routeA"
  /\ \E cover \in q.covers : \E answer \in RouteAAnswers(cover) : Ends(answer)

\* The executor's runs are those a proof speaks of.
Runs == pc = "done" /\ result.type = "proven" /\ ~Halted(exec)

\* The next cycle begins: what is ready, by priority.
StartPass ==
  /\ Runs /\ exec.pass = <<>> /\ ReadyNow(exec) # {} /\ (q.atomic => exec.fly = {})
  /\ \E order \in Orders(ReadyNow(exec)) : exec' = [exec EXCEPT !.pass = order]
  /\ UNCHANGED <<q, run, pc, graph, result>>

\* A transition of the pass fires if it still can.
FireNext ==
  /\ Runs /\ exec.pass # <<>> /\ (q.atomic => exec.fly = {})
  /\ LET t == ByName(Head(exec.pass)) IN
     IF CanStart(t, exec.c)
       THEN \E f \in Firings(t, exec.c) :
              LET c == AfterTaking(t, exec.c, f.took) IN
              exec' = [exec EXCEPT !.pass = Tail(@), !.fly = @ \cup {f}, !.c = c, !.at = ClocksAfter(@, t.name, c)]
       ELSE exec' = [exec EXCEPT !.pass = Tail(@)]
  /\ UNCHANGED <<q, run, pc, graph, result>>

\* An action completes between passes; one that takes no time within its own.
Complete ==
  /\ Runs /\ (exec.pass = <<>> \/ q.atomic)
  /\ \E f \in exec.fly : \E d \in Deposits1(f, LiveNames(exec.c, exec.fly)) :
       LET c == AfterDeposit(exec.c, d) IN
       exec' = [exec EXCEPT !.fly = @ \ {f}, !.c = c, !.at = ClocksAfter(@, 0, c)]
  /\ UNCHANGED <<q, run, pc, graph, result>>

\* Time passes; an executor assumed on time lets no bound pass.
Tick ==
  /\ Runs /\ exec.pass = <<>>
  /\ \E n \in DOMAIN exec.at : exec.at[n] < ClockBound
  /\ q.noReaping => \A n \in DOMAIN exec.at : hasLatestBound(ByName(n).timing) => exec.at[n] < latest(ByName(n).timing)
  /\ exec' = [exec EXCEPT !.at = [n \in DOMAIN @ |-> Least(@[n] + 1, ClockBound)]]
  /\ UNCHANGED <<q, run, pc, graph, result>>

Inject ==
  /\ Runs /\ exec.pass = <<>>
  /\ \E p \in q.env.places : \E n \in (IF p \in Named THEN Pool ELSE {0}) :
       LET c == [exec.c EXCEPT ![<<p, n>>] = @ + 1] IN
       /\ exec.sent < IF q.env.mode = "arrivals" THEN q.env.max ELSE EnvSupply
       /\ q.env.mode = "bounded" => CountsOf(exec.c)[p] < q.env.max
       /\ exec' = [exec EXCEPT !.c = c, !.sent = @ + 1, !.at = ClocksAfter(@, 0, c)]
  /\ UNCHANGED <<q, run, pc, graph, result>>

Next ==
  \/ Refuse \/ ToRouteB \/ ToRouteA \/ RouteBDeclines \/ OutsideFragment
  \/ StartBuild \/ Expand \/ Truncate \/ Decide \/ RouteA
  \/ StartPass \/ FireNext \/ Complete \/ Tick \/ Inject

Spec == Init /\ [][Next]_vars

-----------------------------------------------------------------------------
(* A property a nu-route or the guarded name-blind route proves is one no  *)
(* run of the executor breaks: whatever names its actions write within the *)
(* mint and relay contracts, whatever overlaps, however late it is         *)
(* (smt-verifier.ts applyNuGuard, name-fragment.ts classify,               *)
(* name-state-class-graph.ts priorityDominated, name-coloured-encoder.ts). *)
NamesProvenSound ==
  pc = "done" /\ result.type = "proven" => ~Breaks(exec.c, Resting(exec))

\* A firing that conflict priority prunes is one the priority-ordered executor never makes: with
\* the pruning on, a marking the graph does not reach is one no run reaches
\* (name-state-class-graph.ts priorityDominated, priority-semantics.ts).
PruningSound ==
  pc = "done" /\ result.type = "proven" /\ run.priority = "conflict" => ~Breaks(exec.c, Resting(exec))

\* The token games, with names, that fire these transitions of the prepared net in turn.
NamedSteps(t, c) ==
  UNION {{AfterDeposit(AfterTaking(t, c, f.took), d) : d \in Deposits1(f, LiveNames(c, {f}))}
           : f \in IF CanStart(t, c) THEN Firings(t, c) ELSE {}}

RECURSIVE Replayed(_, _)
Replayed(S, path) ==
  IF path = <<>> THEN S
  ELSE Replayed(UNION {NamedSteps(CHOOSE t \in Range(run.net.trans) : t.name = Head(path), c) : c \in S}, Tail(path))

\* The prepared net's start, its supplied places full.
ReplayStart ==
  [x \in run.net.places \X Labels |->
     IF x[2] # 0 THEN 0 ELSE IF Supplied(run.env, x[1]) THEN Len(result.path) + 1 ELSE run.m[x[1]]]

\* A counterexample of Route B is a firing sequence of the net with names, whose last
\* marking breaks the property: no join on two names, no rest a name would end
\* (name-state-class-graph.ts build, nu-scg-verifier.ts counterexamplePath).
NamesViolationReal ==
  pc = "done" /\ result.type = "violated" /\ result.route = "nu-scg" =>
    \E c \in Replayed({ReplayStart}, result.path) :
      Breaks(c, \A t \in Range(run.net.trans) : CanStart(t, c) => t.name \in run.reapable)
=============================================================================
