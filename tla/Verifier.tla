------------------------------ MODULE Verifier ------------------------------
(***************************************************************************)
(* SmtVerifier.verify() of verification/smt-verifier.ts: the pipeline of   *)
(* routes that decide a property of a net without nu-joins, one phase per  *)
(* action, for a sequence of calls that share a StateSpaceCache.           *)
(*                                                                         *)
(* The solver (z3) is external.  It answers a query truthfully, or not at  *)
(* all; where the code asks it for weights, it may propose any of          *)
(* `Weights`, and the exact check of FlatNet disposes.  Numbers a solver   *)
(* does not bound are bounded here: markings by Box, firing counts by      *)
(* CountBound.                                                             *)
(***************************************************************************)
EXTENDS FlatNet, StateClassGraph, BagsExt

CONSTANTS Queries,        \* what a call may ask: nets, properties, options
          MaxCalls,       \* calls of verify() on one cache
          Box,            \* tokens on a place the solver's answers range over
          CountBound,     \* firings of a transition they range over
          RankBound,      \* the largest weight of a ranking
          MaxRefinements  \* refinements of the state-equation phase

VARIABLES
  run,          \* the last call: its query and what prepare() derived from it
  pc,           \* the phase it is about to enter
  cache,        \* the StateSpaceCache: an entry per key
  boundTried,   \* the linear bound was tried ahead of the enumeration
  refinements,  \* of the state-equation phase
  depths,       \* of the firing-bound phase: the bound, and the depth to ask
  result,       \* of the last call that ended
  calls

vars == <<run, pc, cache, boundTried, refinements, depths, result, calls>>

NoRun == <<>>

NoMarking == <<>>

NoDepths == <<>>

\* SmtVerificationResult: the verdict, the route, the last marking of the trace.
Result(type, route, witness) ==
  [type |-> type, route |-> route, witness |-> witness, timing |-> "none"]

NoResult == Result("none", "none", NoMarking)

Unknown(route) == Result("unknown", route, NoMarking)

\* What the setters let a caller ask: the assumptions and limits of a call, the checks and
\* laws of the encodings, the phases, and the property of a net in its environment.
Assumptions == {"atomic", "noReaping", "timedCheck", "deadline"}

Checks == {"certificate", "replay", "linear"}

PhaseSwitches == {"statePhase", "firing", "stubborn"}

\* What closeOpenNetSteps() adds: the steps of an environment, and the transitions that were
\* reapable before an untimed copy lost their timing.
NotOpen == [steps |-> {}, reapable |-> {}]

IsQuery(q) ==
  /\ q.property.type \in PropertyTypes /\ q.property.min \in Nat /\ q.property.max \in Nat
  /\ q.env.mode \in {"ignore", "always-available", "bounded", "arrivals"} /\ q.env.min <= q.env.max
  /\ \A s \in Assumptions \cup Checks \cup PhaseSwitches : q[s] \in BOOLEAN
  /\ q.semiflows \in {"on", "off", "auto"} /\ q.budget \in Nat

ASSUME QueriesAreQueries == \A q \in Queries : IsQuery(q)

-----------------------------------------------------------------------------
(* prepare(): what every route reads, from the caller's declarations.      *)

applyArrivals(q) ==
  IF q.env.mode = "arrivals" /\ q.env.places # {} THEN closeArrivals(q.net, q.m, q.env)
  ELSE [net |-> q.net, m |-> q.m, steps |-> {}]

\* The net with its places and its split, terminals encoded: what every route reads.
PreparedRun(q, closed, net, split, refused) ==
  [q |-> q, net |-> withTerminalInhibitors(net), m |-> On(net.places, closed.m),
   env |-> IF q.env.mode = "arrivals" THEN NoEnvironment ELSE q.env,
   sinks |-> TerminalSinks(net, q.sinks), split |-> split, refused |-> refused,
   reapable |-> IF q.noReaping THEN {} ELSE reapableTransitions(q.net) \cup q.open.reapable]

applyInFlight(q, closed, net, split) ==
  IF firstUnsplittable(net, {}, split) THEN PreparedRun(q, closed, net, split, TRUE)
  ELSE PreparedRun(q, closed, SplitNet(net, split), split, FALSE)

DerivedSplit(q, closed, net) ==
  IF q.atomic THEN {}
  ELSE inFlightTransitionsFor(net, closed.steps \cup q.open.steps, quiescentCountDemand(net, q.property))

applyInertPlaces(q, closed, net) == applyInFlight(q, closed, net, DerivedSplit(q, closed, net))

AfterArrivals(q, closed) == applyInertPlaces(q, closed, withInertMarkedPlaces(closed.net, closed.m))

prepare(q) == AfterArrivals(q, applyArrivals(q))

\* flatNet() and the laws, beside what prepare() derived.
Flattened(r) == [flat |-> flatten(r.net, r.env, r.reapable)] @@ r

WithLaws(r) == [laws |-> strengtheningLaws(r.flat, r.m, r.q.semiflows)] @@ r

\* What verify() derives for each query.
Prepared == [q \in Queries |-> WithLaws(Flattened(prepare(q)))]

-----------------------------------------------------------------------------
(* What keeps a route from answering.                                      *)

absentPlace(r) == ~(propertyPlaces(r.q.property) \subseteq r.net.places)

\* A bounded(k) place is a source of at most k: not if it starts with more or is fed.
boundedPremiseViolation(r) ==
  /\ r.env.mode = "bounded"
  /\ \E p \in r.env.places :
       Tokens(r.q.m, p) > r.env.max \/ \E t \in Range(r.net.trans) : p \in OutputPlaces(t)

ignoresEnvironment(r) == r.env.places # {} /\ r.env.mode = "ignore"

enumerationRoute(r) == r.env.places = {} /\ r.q.budget > 0 /\ isUntimed(r.net)

stubbornEnumeration(r) ==
  ~isReachabilitySafety(r.q.property) /\ r.q.stubborn /\ ~drainedForward(r.net)

structuralCandidate(r) ==
  /\ r.q.property.type = "deadlock-free"
  /\ \A ft \in Range(r.flat.ts) : ~ft.reapable
  /\ commonerApplies(r.flat)
  /\ r.sinks = NoSinks /\ r.env.places = {}

-----------------------------------------------------------------------------
(* state-space-cache.ts.                                                   *)

BuiltFor(r) ==
  IF enumerationRoute(r)
    THEN buildGraph(r.net, r.m, Options(NoEnvironment, TRUE, stubbornEnumeration(r), r.q.budget))
    ELSE <<>>

\* What the marking alone does not tell apart: the reduction and the split.
cacheKey(r) == <<r.q.net, stubbornEnumeration(r), r.split, r.m>>

\* Mutant: a graph of exactly the budget's classes is reused.
UsableAtBudget(entry, budget) == entry.graph.complete /\ budget >= Len(entry.graph.classes)

Reusable(entry, budget) == entry.graph.complete /\ budget > Len(entry.graph.classes)

Declines(entry, budget) ==
  IF entry.graph.complete THEN budget <= Len(entry.graph.classes) ELSE budget <= entry.budget

Resolved(c, key, r, built) ==
  IF key \in DOMAIN c /\ Reusable(c[key], r.q.budget) THEN [kind |-> "reused", graph |-> c[key].graph]
  ELSE IF key \in DOMAIN c /\ Declines(c[key], r.q.budget) THEN [kind |-> "declined", graph |-> c[key].graph]
  ELSE [kind |-> "built", graph |-> built]

resolveStateSpace(c, r, built) == Resolved(c, cacheKey(r), r, built)

Remembered(c, r, found) ==
  IF found.kind # "built" THEN c
  ELSE (cacheKey(r) :> [graph |-> found.graph, budget |-> r.q.budget]) @@ c

\* enumerate(): a declined query reads the cached graph as a prefix.
enumerate(found, r) ==
  LET said == decideOverStateSpace(found.graph, r.q.property, r.sinks, found.kind = "declined", {})
  IN [kind |-> said.kind, witness |-> IF said.at = 0 THEN NoMarking ELSE found.graph.classes[said.at].marking]

-----------------------------------------------------------------------------
(* What the solver is asked, answered by enumeration within the bounds.    *)

Within(m) == \A p \in DOMAIN m : m[p] <= Box

Holds(law, m) == Dot(law.w, m) = law.constant

RECURSIVE ReachBy(_, _, _, _)
ReachBy(flat, laws, seen, frontier) ==
  LET next == {m \in UNION {successors(flat, s) : s \in frontier} :
                 Within(m) /\ \A law \in laws : Holds(law, m)} \ seen
  IN IF next = {} THEN seen ELSE ReachBy(flat, laws, seen \cup next, next)

Reached(r, laws) == ReachBy(r.flat, laws, {r.m}, {r.m})

\* The rules of encodeNet(): a step's successor satisfies the laws.
StrengthenedStates(r) == Reached(r, r.laws)

Bad(r, m) == satisfiesBad(r.flat, m, r.q.property, r.sinks)

\* The markings and counts the state equation admits.
Counts(r) == [DOMAIN r.flat.ts -> 0..CountBound]

EquationPoint(r, n) ==
  [p \in r.flat.places |->
     FoldFunction(+, r.m[p], [k \in DOMAIN n |-> n[k] * Change(r.flat.ts[k])[p]])]

LoosePlaces(r) == nonlinearPlaces(r.flat) \cup DOMAIN r.flat.inject

AdmittedFor(r, n, at, loose) ==
  {m \in {[p \in r.flat.places |-> IF p \in loose THEN f[p] ELSE at[p]] : f \in [loose -> 0..Box]} :
     /\ \A p \in r.flat.places : m[p] >= 0
     /\ stateEquationConditions(r.flat, r.m, n, m)}

AdmittedOf(r) ==
  IF r.q.statePhase
    THEN UNION {{<<m, n>> : m \in AdmittedFor(r, n, EquationPoint(r, n), LoosePlaces(r))} : n \in Counts(r)}
    ELSE {}

\* encodeStateEquationQuery(): an admitted violation the refinements leave.
Candidates(r, refs, admitted) ==
  {c \in admitted : Bad(r, c[1]) /\ \A i \in refs : holdsAt(i, c[1])}

\* The inequalities a solver may propose: small weights, tight at the initial marking.
ProposalsFor(r) ==
  IF r.q.statePhase
    THEN {Law(w, r.m) : w \in {v \in [r.flat.places -> -1..1] : Cardinality(Support(v)) \in 1..3}}
    ELSE {}

InductiveFor(r, proposals) == {i \in proposals : checkInductiveExact(r.flat, r.m, i)}

\* encodeRelativeInequality(): kept by every step from a marking the equation admits.
RelativeTo(r, ineq, admitted) ==
  \A c \in admitted : holdsAt(ineq, c[1]) =>
    \A next \in successors(r.flat, c[1]) : holdsAt(ineq, next)

\* What refine() finds against a candidate: a trap, else an inequality inductive on its
\* own, else one inductive where the equation holds.
Refinements(r, traps, alone, proposals) ==
  IF traps # {} THEN traps ELSE IF alone # {} THEN alone
  ELSE LET admitted == AdmittedOf(r) IN {i \in proposals : RelativeTo(r, i, admitted)}

Excluding(r, traps, proposals) == Refinements(r, traps, InductiveFor(r, proposals), proposals)

refine(r, m) ==
  Excluding(r, refutingTrap(r.flat, r.m, m), {i \in ProposalsFor(r) : ~holdsAt(i, m)})

\* checkCertificate() of the refinements with the equation: initially, and closed under
\* the step relation that counts its firings.
Inside(refs, m) == \A i \in refs : holdsAt(i, m)

StaysAdmitted(r, refs, n, k, next) ==
  /\ Inside(refs, next)
  /\ stateEquationConditions(r.flat, r.m, [n EXCEPT ![k] = @ + 1], next)

refinementCertificateHolds(r, refs, admitted) ==
  /\ Inside(refs, r.m)
  /\ \A c \in {d \in admitted : Inside(refs, d[1])} :
       /\ \A k \in DOMAIN r.flat.ts :
            enabledA(c[1], r.flat.ts[k]) /\ withinEnvBounds(r.flat, fireA(c[1], r.flat.ts[k])) =>
              StaysAdmitted(r, refs, c[2], k, fireA(c[1], r.flat.ts[k]))
       /\ \A p \in DOMAIN r.flat.inject : Within(injectA(c[1], p)) => Inside(refs, injectA(c[1], p))

\* checkCertificate() of what Spacer answered: with the laws, closed under the step
\* relation the laws do not strengthen.
certificateHolds(r, states) ==
  \A m \in states : \A next \in successors(r.flat, m) :
    Within(next) => next \in states /\ \A law \in r.laws : Holds(law, next)

\* linearBoundProof(): some weighting passes the exact re-check.
linearBoundProof(r) ==
  /\ r.q.linear /\ isReachabilitySafety(r.q.property)
  /\ \E y \in [r.flat.places -> 0..2] : checkLinearBoundExact(r.flat, r.m, r.q.property, y)

\* findFiringBound(): the firing bounds of the rankings that pass; none with an injection.
findFiringBound(r) ==
  IF r.q.firing /\ DOMAIN r.flat.inject = {}
    THEN {FiringBound(v, r.m) : v \in {w \in [r.flat.places -> 0..RankBound] : checkRankingExact(r.flat, w)}}
    ELSE {}

FirstDepth == 8

MaxDepth == 512

-----------------------------------------------------------------------------
(* verify(): one action per phase.                                         *)

Init ==
  /\ run = NoRun /\ pc = "idle" /\ cache = [k \in {} |-> 0] /\ boundTried = FALSE
  /\ refinements = {} /\ depths = NoDepths /\ result = NoResult /\ calls = 0

\* verify() begins: nothing of an earlier call but the cache is left.
Begin(q) ==
  /\ pc = "idle"
  /\ run' = Prepared[q] /\ pc' = "start" /\ result' = NoResult
  /\ boundTried' = FALSE /\ refinements' = {} /\ depths' = NoDepths
  /\ UNCHANGED cache

Call(q) == calls < MaxCalls /\ Begin(q) /\ calls' = calls + 1

ClearCache ==
  /\ pc = "idle" /\ cache # [k \in {} |-> 0]
  /\ cache' = [k \in {} |-> 0]
  /\ UNCHANGED <<run, pc, boundTried, refinements, depths, result, calls>>

At(phase) == pc = phase

Goto(phase) == pc' = phase /\ UNCHANGED <<run, result, calls>>

\* A result: only a violation has a timing to be told.
Answer(r) ==
  /\ pc' = IF r.type = "violated" THEN "timing" ELSE "idle"
  /\ result' = r /\ UNCHANGED <<run, calls>>

Phases == UNCHANGED <<boundTried, refinements, depths>>

\* A total budget or a cancellation stops a call at the next poll; a graph that is being
\* built then is not remembered.
Stop ==
  /\ run # NoRun /\ pc \notin {"idle", "timing"} /\ run.q.deadline
  /\ Answer(Unknown("stopped")) /\ Phases /\ UNCHANGED cache

Start ==
  /\ At("start")
  /\ IF absentPlace(run) \/ boundedPremiseViolation(run) \/ run.refused
       THEN Answer(Unknown("unavailable"))
     ELSE Goto(IF enumerationRoute(run) THEN "early bound" ELSE "flattening")
  /\ Phases /\ UNCHANGED cache

\* The linear bound ahead of the enumeration, where a solver is found.
EarlyBound(solver) ==
  LET tries == /\ solver /\ run.q.linear /\ isReachabilitySafety(run.q.property)
               /\ ~drainedForward(run.net)
  IN /\ At("early bound")
     /\ \/ tries /\ linearBoundProof(run) /\ Answer(Result("proven", "structural", NoMarking))
        \/ Goto("enumeration")
     /\ boundTried' = tries /\ UNCHANGED <<cache, refinements, depths>>

EnumerateFrom(found) ==
  LET said == enumerate(found, run) IN
  /\ cache' = Remembered(cache, run, found)
  /\ IF said.kind = "truncated" THEN Goto("flattening")
     ELSE Answer(Result(said.kind, "enumeration", said.witness))

Enumerate == At("enumeration") /\ EnumerateFrom(resolveStateSpace(cache, run, BuiltFor(run))) /\ Phases

\* Only the graph routes can read a batch that is forwarded.
Flatten ==
  /\ At("flattening")
  /\ IF drainedForward(run.net) THEN Answer(Unknown("unavailable"))
     ELSE IF structuralCandidate(run) /\ structuralCheck(run.flat, run.m) = "no-potential-deadlock"
       THEN Answer(Result("proven", "structural", NoMarking))
     ELSE Goto("solver")
  /\ Phases /\ UNCHANGED cache

Solver(found) ==
  /\ At("solver")
  /\ IF found THEN Goto("linear bound") ELSE Answer(Unknown("unavailable"))
  /\ Phases /\ UNCHANGED cache

LateBound ==
  LET tries == /\ ~boundTried /\ run.q.linear /\ isReachabilitySafety(run.q.property)
               /\ ~ignoresEnvironment(run)
  IN /\ At("linear bound")
     /\ \/ tries /\ linearBoundProof(run) /\ Answer(Result("proven", "structural", NoMarking))
        \/ Goto(IF ignoresEnvironment(run) THEN "fixpoint"
                ELSE IF run.q.statePhase THEN "state equation"
                ELSE IF run.q.firing THEN "firing bound" ELSE "fixpoint")
     /\ Phases /\ UNCHANGED cache

AfterEquation == IF run.q.firing THEN "firing bound" ELSE "fixpoint"

\* One query of the state-equation phase: no candidate is left, ...
EquationProvesFrom(admitted) ==
  /\ Candidates(run, refinements, admitted) = {}
  /\ IF run.q.certificate /\ ~refinementCertificateHolds(run, refinements, admitted)
       THEN Goto(AfterEquation)
     ELSE Answer(Result("proven", "smt", NoMarking))

EquationProves ==
  /\ At("state equation") /\ EquationProvesFrom(AdmittedOf(run)) /\ Phases /\ UNCHANGED cache

\* ... a candidate whose counts hold a run to a violation, ...
EquationViolates(c) ==
  /\ At("state equation")
  /\ \E m \in searchWithinCounts(run.flat, run.m, c[2], run.q.property, run.sinks) :
       Answer(Result("violated", "smt", m))
  /\ Phases /\ UNCHANGED cache

\* ... or one to refine away ...
EquationRefines(c) ==
  /\ At("state equation") /\ Cardinality(refinements) < MaxRefinements
  /\ searchWithinCounts(run.flat, run.m, c[2], run.q.property, run.sinks) = {}
  /\ \E i \in refine(run, c[1]) : refinements' = refinements \cup {i}
  /\ Goto("state equation") /\ UNCHANGED <<cache, boundTried, depths>>

\* ... and a solver that does not answer, or a candidate nothing excludes.
EquationGivesUp ==
  /\ At("state equation")
  /\ Goto(AfterEquation) /\ Phases /\ UNCHANGED cache

\* The firing-bound phase: a ranking, then runs of doubling depth up to its bound.
RankingFound ==
  /\ At("firing bound") /\ depths = NoDepths
  /\ \E k \in findFiringBound(run) : depths' = [bound |-> k, depth |-> Least(FirstDepth, Least(k, MaxDepth))]
  /\ Goto("firing bound") /\ UNCHANGED <<cache, boundTried, refinements>>

BoundedRunAsked ==
  LET bad == {m \in BoundedRun(run.flat, {run.m}, depths.depth) : Bad(run, m)} IN
  /\ At("firing bound") /\ depths # NoDepths
  /\ IF bad # {} THEN (\E m \in bad : Answer(Result("violated", "smt", m))) /\ UNCHANGED depths
     ELSE IF depths.depth >= depths.bound THEN Answer(Result("proven", "smt", NoMarking)) /\ UNCHANGED depths
     ELSE IF depths.depth >= MaxDepth THEN Goto("fixpoint") /\ UNCHANGED depths
     ELSE /\ depths' = [depths EXCEPT !.depth = Least(2 * @, Least(depths.bound, MaxDepth))]
          /\ Goto("firing bound")
  /\ UNCHANGED <<cache, boundTried, refinements>>

FiringBoundGivesUp ==
  /\ At("firing bound")
  /\ Goto("fixpoint") /\ Phases /\ UNCHANGED cache

\* replayCounterexample(): breadth first from the initial marking, a state again only with
\* fewer steps since a decoded one, no further than the segment budget.
SegmentBudget == 3

\* One layer: the markings found from the open ones, each with its least distance.
Distance(r, anchors, best, open, m) ==
  IF m \in anchors THEN 0 ELSE Min({best[s] + 1 : s \in {x \in open : m \in successors(r.flat, x)}})

Layer(r, best, open, anchors) ==
  [m \in {x \in UNION {successors(r.flat, s) : s \in open} : Within(x)} |-> Distance(r, anchors, best, open, m)]

Nearer(best, found) == [m \in {x \in DOMAIN found : x \in DOMAIN best => found[x] < best[x]} |-> found[m]]

RECURSIVE ReplayFrom(_, _, _, _, _)
ReplayFrom(r, anchors, best, layer, truncated) ==
  LET open == {s \in layer : best[s] < SegmentBudget}
      new  == Nearer(best, Layer(r, best, open, anchors))
      cut  == truncated \/ open # layer
  IN IF \E m \in DOMAIN new : Bad(r, m) THEN [kind |-> "confirmed", at |-> {m \in DOMAIN new : Bad(r, m)}]
     ELSE IF DOMAIN new = {} THEN [kind |-> IF cut THEN "exhausted" ELSE "no-chain", at |-> {}]
     ELSE ReplayFrom(r, anchors, new @@ best, DOMAIN new, cut)

replayCounterexample(r, anchors) ==
  IF r.m \notin anchors THEN [kind |-> "exhausted", at |-> {}]
  ELSE ReplayFrom(r, anchors, r.m :> 0, {r.m}, FALSE)

\* assessCounterexample(): only a search that completed without a chain withdraws an answer.
Assessed(r, outcome, m) ==
  IF Bad(r, r.m) THEN {Result("violated", "smt", r.m)}
  ELSE IF ~r.q.replay \/ outcome.kind = "exhausted" THEN {Result("violated", "smt", m)}
  ELSE IF outcome.kind = "confirmed" THEN {Result("violated", "smt", w) : w \in outcome.at}
  ELSE {Unknown("smt")}

assessCounterexample(r, decoded, m) == Assessed(r, replayCounterexample(r, decoded), m)

\* The markings the decoder may recover from a refutation that ends in m.
Decoded(r, states, m) == {{}, {m}, {r.m, m}, states}

\* The IC3 query over the strengthened rules, and the certificate's own check.
FixpointOver(states, bad) ==
  IF bad # {}
    THEN \E m \in bad : \E decoded \in Decoded(run, states, m) :
           \E r \in assessCounterexample(run, decoded, m) : Answer(r)
  ELSE IF ignoresEnvironment(run) \/ (run.q.certificate /\ ~certificateHolds(run, states))
    THEN Answer(Unknown("smt"))
  ELSE Answer(Result("proven", "smt", NoMarking))

BadIn(r, states) == {m \in states : Bad(r, m)}

Fixpoint ==
  LET states == StrengthenedStates(run) IN
  /\ At("fixpoint") /\ FixpointOver(states, BadIn(run, states))
  /\ Phases /\ UNCHANGED cache

FixpointUnknown ==
  /\ At("fixpoint") /\ Answer(Unknown("smt")) /\ Phases /\ UNCHANGED cache

\* withCounterexampleTiming(): the timed graph may confirm, and replaces the witness.
HasTimedGraph(r) == r.q.timedCheck /\ r.env.places = {} /\ ~isUntimed(r.net)

TimedGraphOf(r) ==
  IF HasTimedGraph(r) THEN buildGraph(r.net, r.m, Options(NoEnvironment, FALSE, FALSE, r.q.budget)) ELSE <<>>

TimedAnswer(g, said) ==
  IF said.kind = "violated"
    THEN [result EXCEPT !.timing = "timed-confirmed", !.witness = g.classes[said.at].marking]
    ELSE [result EXCEPT !.timing = IF said.kind = "proven" THEN "spurious-under-timing" ELSE "timed-undecided"]

TimedDecision(g) ==
  TimedAnswer(g, decideOverStateSpace(g, run.q.property, run.sinks, FALSE, run.reapable))

withCounterexampleTiming ==
  /\ At("timing")
  /\ result' = IF isUntimed(run.net) THEN [result EXCEPT !.timing = "untimed-net"]
               ELSE IF ~HasTimedGraph(run) THEN [result EXCEPT !.timing = "untimed-abstraction"]
               ELSE TimedDecision(TimedGraphOf(run))
  /\ pc' = "idle" /\ Phases /\ UNCHANGED <<run, cache, calls>>

TimingCutOff ==
  /\ At("timing") /\ run.q.deadline /\ HasTimedGraph(run)
  /\ result' = [result EXCEPT !.timing = "timed-undecided"]
  /\ pc' = "idle" /\ Phases /\ UNCHANGED <<run, cache, calls>>

Routes ==
  \/ Stop \/ Start \/ Enumerate \/ Flatten \/ LateBound
  \/ \E found \in BOOLEAN : EarlyBound(found) \/ Solver(found)
  \/ EquationProves \/ EquationGivesUp
  \/ At("state equation") /\ \E c \in Candidates(run, refinements, AdmittedOf(run)) : EquationViolates(c) \/ EquationRefines(c)
  \/ RankingFound \/ BoundedRunAsked \/ FiringBoundGivesUp
  \/ Fixpoint \/ FixpointUnknown
  \/ withCounterexampleTiming \/ TimingCutOff

Next ==
  \/ \E q \in Queries : Call(q)
  \/ ClearCache
  \/ Routes

Spec == Init /\ [][Next]_vars

-----------------------------------------------------------------------------
(* The reference: what the executors do with the net of a query.  An       *)
(* action runs between the step that consumes and the step that deposits,  *)
(* and a transition may start again meanwhile.  A terminal place that is   *)
(* marked stops the run and abandons what is in flight.  Tokens arrive as  *)
(* the environment mode says, at most Box on a place.                   *)

TakesAll(t, p) == \E s \in t.ins : s.place = p /\ Drains(s)

Asked(t, p) == FoldSet(LAMBDA s, n : n + s.n, 0, {s \in t.ins : s.place = p})

Ready(t, m) ==
  /\ \A s \in t.ins : m[s.place] >= Asked(t, s.place)
  /\ \A p \in t.reads : m[p] > 0
  /\ \A p \in t.inhs : m[p] = 0

Consumed(t, m) ==
  [p \in DOMAIN m |-> IF p \in t.resets \/ TakesAll(t, p) THEN 0 ELSE m[p] - Asked(t, p)]

\* What the action of a firing was given, for what a timeout forwards.
Batch(t, m) == [p \in InputPlaces(t) |-> IF TakesAll(t, p) THEN m[p] ELSE Asked(t, p)]

\* The ways an action ends: a branch with one token on each of its places, or a timeout
\* whose leaves get one token or the batch of an input.
Endings(t, batch) ==
  IF t.out = NoOut THEN {[p \in {} |-> 0]}
  ELSE {[p \in b |-> 1] : b \in Range(EnumerateBranches[t.out])}
         \cup {[p \in {LeafName(l) : l \in Range(LeavesOf[n.child])} |->
                 LET l == CHOOSE x \in Range(LeavesOf[n.child]) : LeafName(x) = p
                 IN IF l.type = "place" THEN 1 ELSE batch[l.from]] : n \in Timeouts(t.out)}

Put(m, e) == [p \in DOMAIN m |-> m[p] + IF p \in DOMAIN e THEN e[p] ELSE 0]

Stopped(q, m) == Marked(m, q.net.terminals)

RefPlaces(q) == q.net.places \cup {p \in DOMAIN q.m : q.m[p] > 0}

RefStart(q) ==
  [m |-> On(RefPlaces(q), q.m), fl |-> EmptyBag, inj |-> [p \in q.env.places |-> 0]]

Arrivable(q, s) ==
  {p \in q.env.places :
     CASE q.env.mode = "arrivals" -> s.inj[p] < q.env.max
       [] q.env.mode = "bounded"  -> s.m[p] < q.env.max
       [] q.env.mode = "always-available" -> s.m[p] < Box
       [] OTHER -> FALSE}

Injected(q, s, p) ==
  [s EXCEPT !.m[p] = @ + 1, !.inj[p] = IF q.env.mode = "arrivals" THEN @ + 1 ELSE @]

\* Steps that take no time: all of them if the caller says so, else the environment's.
Instant(q, t) == q.atomic \/ t.name \in q.open.steps

ReadyAt(q, s) == {t \in Range(q.net.trans) : Ready(t, s.m)}

Started(q, s) ==
  {[s EXCEPT !.m = Consumed(t, s.m), !.fl = @ (+) SetToBag({<<t, Batch(t, s.m)>>})] :
     t \in {u \in ReadyAt(q, s) : ~Instant(q, u)}}

\* A terminal that is marked abandons the actions in flight.
Settled(q, s) == IF Stopped(q, s.m) THEN [s EXCEPT !.fl = EmptyBag] ELSE s

Fired(q, s) ==
  UNION {{Settled(q, [s EXCEPT !.m = Put(Consumed(t, s.m), e)]) : e \in Endings(t, Batch(t, s.m))}
           : t \in {u \in ReadyAt(q, s) : Instant(q, u)}}

Completed(q, s) ==
  UNION {{Settled(q, [s EXCEPT !.m = Put(s.m, e), !.fl = @ (-) SetToBag({x})]) : e \in Endings(x[1], x[2])}
           : x \in BagToSet(s.fl)}

RefSteps(q, s) ==
  IF Stopped(q, s.m) THEN {}
  ELSE {Injected(q, s, p) : p \in Arrivable(q, s)}
         \cup Fired(q, s) \cup Started(q, s) \cup Completed(q, s)

RECURSIVE RefReach(_, _, _)
RefReach(q, seen, frontier) ==
  LET next == {s \in UNION {RefSteps(q, x) : x \in frontier} :
                 \A p \in DOMAIN s.m : s.m[p] <= Box} \ seen
  IN IF next = {} THEN seen ELSE RefReach(q, seen \cup next, next)

RefStates == [q \in Queries |-> RefReach(q, {RefStart(q)}, {RefStart(q)})]

\* Everything that can still arrive has arrived: the most a supply can enable.
RECURSIVE Supplies(_, _, _)
Supplies(q, seen, frontier) ==
  LET next == UNION {{Injected(q, s, p) : p \in Arrivable(q, s)} : s \in frontier} \ seen
  IN IF next = {} THEN seen ELSE Supplies(q, seen \cup next, next)

\* The executor rests: nothing in flight, and nothing it would not have reaped is enabled,
\* now or once the places it is supplied with are filled; what must arrive has arrived.
Rests(q, s) ==
  \/ Stopped(q, s.m)
  \/ /\ s.fl = EmptyBag
     /\ q.env.mode = "arrivals" => \A p \in q.env.places : s.inj[p] >= q.env.min
     /\ \A x \in IF q.env.mode = "arrivals" THEN {s} ELSE Supplies(q, {s}, {s}) :
          \A t \in Range(q.net.trans) : Ready(t, x.m) =>
            (isReapable(t.timing) \/ t.name \in q.open.reapable) /\ ~q.noReaping

\* A token is at rest anywhere once a terminal is marked, and a terminal is a sink.
Wrong(q, s) ==
  IF isReachabilitySafety(q.property) THEN safetyViolation(s.m, q.property)
  ELSE /\ Rests(q, s)
       /\ quiescentViolation(s.m, q.property, q.sinks)
       /\ Stopped(q, s.m) => q.property.type \notin {"deadlock-free", "terminates-at-sink"}

Violations == [q \in Queries |-> {s.m : s \in {x \in RefStates[q] : Wrong(q, x)}}]

\* The witness on the caller's places.
Projected(q, m) == [p \in RefPlaces(q) |-> m[p]]

-----------------------------------------------------------------------------
\* A property that verify() calls proven is violated by no run of the executor: whatever
\* route decides, whatever the cache holds from the calls before, whatever the solver
\* proposes, with actions in flight, late firings and arrivals.
VerdictSound == pc = "idle" /\ result.type = "proven" => Violations[run.q] = {}

\* The marking a violation ends in is one an executor violates the property at.
ViolationReal ==
  pc = "idle" /\ result.type = "violated" => Projected(run.q, result.witness) \in Violations[run.q]

SameAnswer(warm, cold) == warm = cold \/ (cold.kind = "truncated" /\ warm.kind = "violated")

AnswersAlike(built) ==
  SameAnswer(enumerate(resolveStateSpace(cache, run, built), run), enumerate([kind |-> "built", graph |-> built], run))

\* The enumeration answers as it would without the cache, except that a larger prefix may
\* hold a violation that a smaller build does not reach.
CacheTransparent == pc = "enumeration" => AnswersAlike(BuiltFor(run))

\* Whatever strengthens an encoding holds of every marking the steps reach: the laws, the
\* refinements of the state-equation phase, the bound on the number of firings.  The
\* steps are those of the relation the solver is given, and a net with a bound has no
\* firing counts the marking equation lets repeat.
LawsHold ==
  /\ pc = "solver" => \A law \in run.laws : \A m \in Reached(run, {}) : Holds(law, m)
  /\ pc = "state equation" => \A i \in refinements : \A m \in Reached(run, {}) : holdsAt(i, m)
  /\ depths # NoDepths =>
       /\ BoundedRun(run.flat, {run.m}, depths.bound) = Reached(run, {})
       /\ ~\E n \in Counts(run) : repeatableVector(run.flat, n)
  /\ pc = "fixpoint" => \A m, next \in Reached(run, {}) :
       next \in successors(run.flat, m) <=> StepRelation(run.flat, m, next)
=============================================================================
