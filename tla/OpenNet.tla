------------------------------ MODULE OpenNet ------------------------------
(***************************************************************************)
(* verifyOpenNet() of verification/open-net: a subnet against a contract,  *)
(* its ports played by the environment the contract describes.  The closed *)
(* net's untimed graph decides where it closes; otherwise each part of the *)
(* contract is a query to the verifier of module Verifier, whose phases    *)
(* run as part of the call.  Nets without nu-joins.                        *)
(*                                                                         *)
(* A subject is what a finding names: a clause by its position, a place a  *)
(* token is stranded on, the stranding query as a whole, termination.      *)
(***************************************************************************)
EXTENDS Verifier

CONSTANT OpenCalls   \* what a caller may ask: a net, a contract and the options

VARIABLE open        \* the call in progress: its stage and what it has found

openVars == <<vars, open>>

\* What the builders of a contract let through.
Bounded(group) == group.places # {} /\ group.min \in Nat /\ group.max \in Nat /\ group.min <= group.max

IsContract(c) ==
  /\ \A g \in Range(c.arrivals) : Bounded(g) /\ g.max >= 1
  /\ \A d \in Range(c.clauses) : Bounded(d)
  /\ \A i, j \in DOMAIN c.environment : i # j => c.environment[i].name # c.environment[j].name
  /\ c.termination \in BOOLEAN

ASSUME ContractsAreContracts == \A o \in OpenCalls : IsContract(o.contract)

Termination == <<"termination">>

Stranding == <<"stranding">>

-----------------------------------------------------------------------------
(* What both routes read.  The split comes before the terminals, so a      *)
(* terminal counts as a test and excuses the places in flight.             *)

withDesignedTerminals(c, markers, excused) ==
  [c EXCEPT !.terminals = @ \cup {<<p, excused>> : p \in markers}]

OpenRun(o, closed, net, refused) ==
  [o |-> o, refused |-> refused, net |-> withTerminalInhibitors(net), m |-> On(net.places, closed.m),
   contract |-> withDesignedTerminals(o.contract, net.terminals, net.places),
   steps |-> closed.steps, own |-> closed.own,
   reapable |-> IF o.noReaping THEN {} ELSE reapableTransitions(net)]

SplitRun(o, closed, split) ==
  IF firstUnsplittable(closed.net, {}, split) THEN OpenRun(o, closed, closed.net, TRUE)
  ELSE OpenRun(o, closed, SplitNet(closed.net, split), FALSE)

splitInFlight(o, closed) ==
  SplitRun(o, closed, IF o.atomic THEN {} ELSE inFlightTransitionsFor(closed.net, closed.steps, NoDemand))

OpenRuns == [o \in OpenCalls |-> splitInFlight(o, closeOpenNet(o.net, o.contract))]

restDeclarationOf(r) ==
  [always |-> UNION {d.places : d \in Range(r.contract.clauses)} \cup r.contract.rest \cup r.own,
   when   |-> r.contract.terminals]

waiverMarkers(r) == {t[1] : t \in r.contract.terminals}

\* A clause is a count at quiescence whose lower bound every terminal waives.
ClauseProperty(r, k) ==
  [type |-> "quiescent-count", places |-> r.contract.clauses[k].places, waivedBy |-> waiverMarkers(r),
   min |-> r.contract.clauses[k].min, max |-> r.contract.clauses[k].max]

quiescenceFindings(m, r) ==
  {<<"clause", k>> : k \in {j \in DOMAIN r.contract.clauses : countViolation(m, ClauseProperty(r, j))}}
    \cup {<<"stranded", p>> : p \in {x \in DOMAIN m : m[x] > 0} \ restingNames(m, restDeclarationOf(r))}

-----------------------------------------------------------------------------
(* graph-route.ts.                                                         *)

OpenGraphOf(r) ==
  IF r.refused \/ r.o.budget = 0 THEN <<>>
  ELSE buildGraph(r.net, r.m, Options(NoEnvironment, TRUE, FALSE, r.o.budget))

OpenGraph == [o \in OpenCalls |-> OpenGraphOf(OpenRuns[o])]

\* Mutant: a class that was not expanded counts as one with nothing enabled.
Unexpanded(g, r, i) == SuccessorsOf(g, i) = {} \/ NamesOf(g.classes[i].enabled) \subseteq r.reapable

\* A late executor also rests where only reapable transitions are enabled.
Quiescent(g, r, i) == NamesOf(g.classes[i].enabled) \subseteq r.reapable

findCycle(g) == \E C \in computeSCCs(g) : Cardinality(C) > 1 \/ \E v \in C : v \in SuccessorsOf(g, v)

decideOnGraph(g, r) ==
  UNION {quiescenceFindings(g.classes[i].marking, r) : i \in {j \in DOMAIN g.classes : Quiescent(g, r, j)}}
    \cup IF r.contract.termination /\ findCycle(g) THEN {Termination} ELSE {}

-----------------------------------------------------------------------------
(* smt-route.ts: stranding, then each clause that can fail, then the       *)
(* ranking that bounds every run.                                          *)

untimed(net) == [net EXCEPT !.trans = [i \in DOMAIN @ |-> [@[i] EXCEPT !.timing = Immediate]]]

PartQuery(r, property, sinks) ==
  [net |-> untimed(r.net), m |-> r.m, env |-> NoEnvironment, property |-> property, sinks |-> sinks,
   atomic |-> r.o.atomic, noReaping |-> FALSE, budget |-> 0, stubborn |-> TRUE, linear |-> TRUE,
   statePhase |-> r.o.statePhase, firing |-> r.o.firing, semiflows |-> "off", certificate |-> TRUE,
   replay |-> TRUE, timedCheck |-> FALSE, deadline |-> r.o.signal,
   open |-> [steps |-> r.steps, reapable |-> r.reapable]]

deadlockFree == [type |-> "deadlock-free", places |-> {}, min |-> 0, max |-> 0, waivedBy |-> {}]

Part(subject, query) == [subject |-> subject, query |-> query]

Vacuous(clause) == clause.min = 0 /\ clause.max = Infinity

partsFor(r) ==
  LET asked == SelectSeq([k \in DOMAIN r.contract.clauses |-> k], LAMBDA k : ~Vacuous(r.contract.clauses[k]))
  IN <<Part(Stranding, PartQuery(r, deadlockFree, restDeclarationOf(r)))>>
       \o [i \in DOMAIN asked |-> Part(<<"clause", asked[i]>>, PartQuery(r, ClauseProperty(r, asked[i]), NoSinks))]

Parts == [o \in OpenCalls |-> partsFor(OpenRuns[o])]

PartQueries == UNION {{x.query : x \in Range(Parts[o])} : o \in OpenCalls}

\* Some ranking passes the exact re-check; none is asked for over a forwarded batch.
RanksEveryRun(r, flat) ==
  /\ ~drainedForward(r.net)
  /\ \E v \in [flat.places -> 0..RankBound] : checkRankingExact(flat, v)

terminationByRanking == [o \in OpenCalls |->
  RanksEveryRun(OpenRuns[o], flatten(OpenRuns[o].net, NoEnvironment, {}))]

-----------------------------------------------------------------------------
(* verifyOpenNet().                                                        *)

NoOpen == [stage |-> "none"]

OpenInit == Init /\ open = NoOpen

Stage(stage) == open.stage = stage

Ended(verdict, broken, complete) ==
  open' = [open EXCEPT !.stage = "done", !.verdict = verdict, !.broken = broken, !.complete = complete]

\* Without the graph's answer: the parts, if the caller wants them asked.
WithoutGraph(o) == IF o.smt THEN "parts" ELSE "done"

verifyOpenNet(o) ==
  /\ Stage("none") /\ pc = "idle" /\ calls = 0
  /\ open' = [call |-> o, todo |-> Parts[o], broken |-> {}, undecided |-> FALSE, verdict |-> "unknown",
              complete |-> FALSE,
              stage |-> IF OpenRuns[o].refused THEN "done" ELSE IF o.budget > 0 THEN "graph" ELSE WithoutGraph(o)]
  /\ UNCHANGED vars

\* A violation stands whether or not the graph closed; its absence only if it did.
DecideFrom(g, found) ==
  IF found # {} THEN Ended("violated", found, g.complete)
  ELSE IF g.complete THEN Ended("proven", {}, TRUE)
  ELSE open' = [open EXCEPT !.stage = WithoutGraph(open.call)]

GraphRoute ==
  /\ Stage("graph") /\ DecideFrom(OpenGraph[open.call], decideOnGraph(OpenGraph[open.call], OpenRuns[open.call]))
  /\ UNCHANGED vars

GraphCancelled == Stage("graph") /\ open.call.signal /\ Ended("unknown", {}, FALSE) /\ UNCHANGED vars

AskPart ==
  /\ Stage("parts") /\ open.todo # <<>>
  /\ Begin(Head(open.todo).query) /\ UNCHANGED calls
  /\ open' = [open EXCEPT !.stage = "asked"]

PartAnswered ==
  /\ Stage("asked") /\ pc = "idle"
  /\ open' = [open EXCEPT !.stage = "parts", !.todo = Tail(@),
                          !.broken = IF result.type = "violated" THEN @ \cup {Head(open.todo).subject} ELSE @,
                          !.undecided = @ \/ result.type = "unknown"]
  /\ UNCHANGED vars

\* The ranking may go unanswered, whether or not there is one.
Concluded(terminates) ==
  Ended(IF open.broken # {} THEN "violated"
        ELSE IF ~open.undecided /\ terminates THEN "proven" ELSE "unknown", open.broken, FALSE)

Conclude(answered) ==
  /\ Stage("parts") /\ open.todo = <<>>
  /\ Concluded(open.call.contract.termination => answered /\ terminationByRanking[open.call])
  /\ UNCHANGED vars

OpenNext ==
  \/ Stage("none") /\ (\E q \in Queries \ PartQueries : Call(q)) /\ UNCHANGED open
  \/ ClearCache /\ UNCHANGED open
  \/ Routes /\ UNCHANGED open
  \/ \E o \in OpenCalls : verifyOpenNet(o)
  \/ GraphRoute \/ GraphCancelled \/ AskPart \/ PartAnswered
  \/ \E answered \in BOOLEAN : Conclude(answered)

OpenSpec == OpenInit /\ [][OpenNext]_openVars

-----------------------------------------------------------------------------
(* The reference: the executor of the subnet in the contract's             *)
(* environment, which delivers tokens while a group may, and whose         *)
(* transitions fire without taking time.                                   *)

Neighbours(o) == Range(o.contract.environment)

\* The subnet and its neighbours as the query of a caller, so its steps are those of Verifier.
Together(o) ==
  [net |-> [o.net EXCEPT !.places = @ \cup UNION {transitionPlaces(t) : t \in Neighbours(o)}
                                       \cup ContractPlaces(o.contract),
                         !.trans = @ \o o.contract.environment],
   m |-> o.contract.m, env |-> NoEnvironment, atomic |-> o.atomic, noReaping |-> o.noReaping,
   open |-> [steps |-> {t.name : t \in Neighbours(o)}, reapable |-> {}]]

Delivered(q, c, x) ==
  UNION {{<<[x[1] EXCEPT !.m[p] = @ + 1], [x[2] EXCEPT ![i] = @ + 1]>> : p \in c.arrivals[i].places}
           : i \in {j \in DOMAIN c.arrivals : x[2][j] < c.arrivals[j].max /\ ~Stopped(q, x[1].m)}}

\* A state with the tokens each group has delivered.
WorldSteps(q, c, x) == {<<s, x[2]>> : s \in RefSteps(q, x[1])} \cup Delivered(q, c, x)

RECURSIVE World(_, _, _, _)
World(q, c, seen, frontier) ==
  LET next == UNION {WorldSteps(q, c, x) : x \in frontier} \ seen
  IN IF next = {} THEN seen ELSE World(q, c, seen \cup next, next)

WorldOf(o, q) ==
  LET start == <<RefStart(q), [i \in DOMAIN o.contract.arrivals |-> 0]>>
  IN World(q, o.contract, {start}, {start})

\* The run is over: it stopped, or all that had to arrive has, and the executor rests.
WorldRests(o, q, x) ==
  \/ Stopped(q, x[1].m)
  \/ Rests(q, x[1]) /\ \A i \in DOMAIN o.contract.arrivals : x[2][i] >= o.contract.arrivals[i].min

\* Where the contract lets a token rest at m.
MayRest(o, m) ==
  UNION {d.places : d \in Range(o.contract.clauses)} \cup o.contract.rest
    \cup (UNION {transitionPlaces(t) : t \in Neighbours(o)} \ o.net.places)
    \cup {t[1] : t \in o.contract.terminals}
    \cup UNION {t[2] : t \in {u \in o.contract.terminals : m[u[1]] > 0}}

Waived(o, m) == \E t \in o.contract.terminals : m[t[1]] > 0

BrokenAt(o, q, m) ==
  {<<"clause", k>> : k \in {j \in DOMAIN o.contract.clauses :
      LET d == o.contract.clauses[j] IN
      Total(m, d.places) > d.max \/ (Total(m, d.places) < d.min /\ ~Waived(o, m) /\ ~Stopped(q, m))}}
    \cup LET stranded == IF Stopped(q, m) THEN {} ELSE {p \in DOMAIN m : m[p] > 0} \ MayRest(o, m)
         IN {<<"stranded", p>> : p \in stranded} \cup IF stranded # {} THEN {Stranding} ELSE {}

\* The states from which a run can go on for ever.
RECURSIVE Lasting(_, _, _)
Lasting(q, c, S) ==
  LET kept == {x \in S : WorldSteps(q, c, x) \cap S # {}} IN
  IF kept = S THEN S ELSE Lasting(q, c, kept)

BrokenIn(o, q, world) ==
  UNION {BrokenAt(o, q, x[1].m) : x \in {y \in world : WorldRests(o, q, y)}}
    \cup IF o.contract.termination /\ Lasting(q, o.contract, world) # {} THEN {Termination} ELSE {}

Broken == [o \in OpenCalls |-> BrokenIn(o, Together(o), WorldOf(o, Together(o)))]

-----------------------------------------------------------------------------
\* A contract that verifyOpenNet() calls proven is kept by every run of the subnet in its
\* environment, whichever route decides; each part a violation names is broken by one, and
\* a graph that closed names every broken part.
ContractExact ==
  Stage("done") =>
    /\ open.verdict = "proven" => Broken[open.call] = {}
    /\ open.verdict = "violated" => open.broken # {} /\ open.broken \subseteq Broken[open.call]
    /\ open.complete => open.broken = Broken[open.call] \ {Stranding}
=============================================================================
