---------------------------- MODULE VerifierNet ----------------------------
(***************************************************************************)
(* What the verifier (src/typescript/src/verification) reads: a net, what  *)
(* a firing of a transition takes and deposits, the properties, and the    *)
(* rewrites every run applies before a route sees the net.                 *)
(*                                                                         *)
(* A net is a record: its places, its transitions in net order, its        *)
(* terminal places.  Places and transitions are named by integers, so code *)
(* point order is integer order; a marking is a function on the places.    *)
(* An environment is its set of places, its mode and the mode's bounds.    *)
(***************************************************************************)
EXTENDS OutSpec, FiniteSets

CONSTANT Infinity   \* an upper bound that is not there: a number above every other

NoOut == [type |-> "none"]

NetOf(places, trans, terminals) == [places |-> places, trans |-> trans, terminals |-> terminals]

Tokens(m, p) == IF p \in DOMAIN m THEN m[p] ELSE 0

Total(m, S) == FoldSet(LAMBDA p, n : n + Tokens(m, p), 0, S)

Marked(m, S) == \E p \in S : Tokens(m, p) > 0

\* MarkingState has no entry for an empty place: two markings are equal with their domains.
On(places, m) == [p \in places |-> Tokens(m, p)]

-----------------------------------------------------------------------------
(* core/in.ts and core/timing.ts.                                          *)

Drains(spec) == spec.type \in {"all", "at-least"}

requiredCount(spec) == IF spec.type \in {"one", "all"} THEN 1 ELSE spec.n

consumptionCount(spec, available) ==
  IF Drains(spec) THEN available ELSE requiredCount(spec)

InputOn(t, p) == {s \in t.ins : s.place = p}

InputPlaces(t) == {s.place : s \in t.ins}

OutputPlaces(t) == IF t.out = NoOut THEN {} ELSE AllPlaces[t.out]

isReapable(timing) == timing.type \in {"deadline", "window"}

hasLatestBound(timing) == timing.type \in {"deadline", "window", "exact"}

earliest(timing) == IF timing.type \in {"immediate", "deadline"} THEN 0 ELSE timing.eft

latest(timing) == IF hasLatestBound(timing) THEN timing.lft ELSE Infinity

Immediate == [type |-> "immediate", eft |-> 0, lft |-> Infinity]

-----------------------------------------------------------------------------
(* analysis/branch-outcomes.ts: the ways one firing can end.  An outcome   *)
(* gives each place it deposits into a fixed count or the batch drained    *)
(* from an input.                                                          *)

OneToken == <<"tokens", 1>>

depositCount(deposit, drained) == IF deposit[1] = "tokens" THEN deposit[2] ELSE drained[deposit[2]]

forwardDeposit(t, from) ==
  LET specs == InputOn(t, from) IN
  IF specs = {} THEN <<"tokens", 0>>
  ELSE LET spec == CHOOSE s \in specs : TRUE IN
       IF Drains(spec) THEN <<"drained", from>> ELSE <<"tokens", requiredCount(spec)>>

\* The leaves of a Timeout's child: building rejects an Xor in it and a place twice.
LeafDeposit(t, leaf) == IF leaf.type = "place" THEN OneToken ELSE forwardDeposit(t, leaf.from)

timeoutDeposits(t, child) ==
  LET leaves == {l \in Range(LeavesOf[child]) : LeafDeposit(t, l) # <<"tokens", 0>>}
  IN [p \in {LeafName(l) : l \in leaves} |->
        LeafDeposit(t, CHOOSE l \in leaves : LeafName(l) = p)]

ActionOutcomes(t) ==
  IF t.out = NoOut THEN <<[p \in {} |-> OneToken]>>
  ELSE LET branches == EnumerateBranches[t.out]
       IN [b \in DOMAIN branches |-> [p \in branches[b] |-> OneToken]]

outcomes(t) ==
  LET written  == ActionOutcomes(t)
      timeouts == IF t.out = NoOut THEN {} ELSE Timeouts(t.out)
      late     == {timeoutDeposits(t, n.child) : n \in timeouts} \ Range(written)
  IN written \o SetToSeq(late)

\* The first timeout forward of a batch: the flat encodings have no column for it.
drainedForward(net) ==
  \E t \in Range(net.trans) : \E o \in Range(outcomes(t)) :
    \E p \in DOMAIN o : o[p][1] = "drained"

-----------------------------------------------------------------------------
(* analysis/state-class-graph.ts: enablement and the two halves of a       *)
(* firing, under an environment.                                           *)

NoEnvironment == [places |-> {}, mode |-> "ignore", min |-> 0, max |-> 0]

Supplied(env, p) == p \in env.places /\ env.mode # "ignore"

checkPlaceEnabled(p, required, m, env) ==
  CASE ~Supplied(env, p)               -> Tokens(m, p) >= required
    [] env.mode = "always-available"   -> TRUE
    [] OTHER                           -> required <= env.max

isEnabled(t, m, env) ==
  /\ \A s \in t.ins : checkPlaceEnabled(s.place, requiredCount(s), m, env)
  /\ \A p \in t.reads : checkPlaceEnabled(p, 1, m, env)
  /\ \A p \in t.inhs : Tokens(m, p) = 0

findEnabledTransitions(net, m, env) == SelectSeq(net.trans, LAMBDA t : isEnabled(t, m, env))

\* What a firing removes from each place: the inputs' shares, then what a reset finds.
TakenFrom(t, m, env, p) ==
  LET specs == {s \in InputOn(t, p) : ~Supplied(env, p) /\ Tokens(m, p) >= requiredCount(s)}
  IN FoldSet(LAMBDA s, n : n + consumptionCount(s, Tokens(m, p)), 0, specs)

consumeInputs(m, t, env) ==
  [p \in DOMAIN m |-> IF p \in t.resets THEN 0 ELSE m[p] - TakenFrom(t, m, env, p)]

\* A place the analysis supplies is not drained: its forward counts what was required.
DrainedBatch(t, m, env, from) ==
  LET spec == CHOOSE s \in InputOn(t, from) : TRUE IN
  IF Supplied(env, from) THEN requiredCount(spec)
  ELSE IF Tokens(m, from) < requiredCount(spec) THEN Tokens(m, from)
  ELSE consumptionCount(spec, Tokens(m, from))

produceOutputs(m, between, t, outcome, env) ==
  LET batch == [from \in InputPlaces(t) |-> DrainedBatch(t, m, env, from)]
  IN [p \in DOMAIN between |->
        between[p] + IF p \in DOMAIN outcome THEN depositCount(outcome[p], batch) ELSE 0]

-----------------------------------------------------------------------------
(* smt-property.ts, rest-set.ts, count-clause.ts, graph-decision.ts: what  *)
(* a marking must not be.  A property has a type, the places it names, the *)
(* bounds of a count and the places that waive its lower bound.            *)

PropertyTypes == {"deadlock-free", "terminates-at-sink", "mutual-exclusion", "place-bound",
                  "branch-place-bound", "unreachable", "joined-or-dead-lettered", "quiescent-count"}

isReachabilitySafety(property) ==
  property.type \in {"mutual-exclusion", "place-bound", "branch-place-bound", "unreachable"}

propertyPlaces(property) == property.places \cup property.waivedBy

\* Sinks: where a token may always rest, and (marker, places) pairs: where it may rest
\* while the marker is marked.  A marker is at rest whenever it is marked.
NoSinks == [always |-> {}, when |-> {}]

restingNames(m, sinks) ==
  sinks.always \cup {c[1] : c \in sinks.when}
    \cup UNION {c[2] : c \in {d \in sinks.when : Marked(m, {d[1]})}}

strandsToken(m, sinks) == Marked(m, DOMAIN m \ restingNames(m, sinks))

countViolation(m, property) ==
  LET count == Total(m, property.places) IN
  \/ count > property.max
  \/ count < property.min /\ ~Marked(m, property.waivedBy)

\* A reachability-safety property reads the marking alone, ...
safetyViolation(m, property) ==
  CASE property.type \in {"place-bound", "branch-place-bound"} -> Total(m, property.places) > property.max
    [] property.type \in {"unreachable", "mutual-exclusion"}   -> \A p \in property.places : Tokens(m, p) > 0
    [] OTHER                                                   -> FALSE

\* ... a quiescence property a marking at which the net rests.
quiescentViolation(m, property, sinks) ==
  CASE property.type = "deadlock-free"           -> strandsToken(m, sinks)
    [] property.type = "terminates-at-sink"      -> ~Marked(m, sinks.always)
    [] property.type = "joined-or-dead-lettered" -> Marked(m, property.places)
    [] property.type = "quiescent-count"         -> countViolation(m, property)
    [] OTHER                                     -> FALSE

-----------------------------------------------------------------------------
(* open-net/closure.ts: an open net closed by the environment a contract   *)
(* describes.  The i-th arrival group gets a source for what must arrive   *)
(* and one for what may, which a decline discards; the environment's own   *)
(* transitions join as they are.                                           *)

Blank(name) ==
  [name |-> name, ins |-> {}, reads |-> {}, inhs |-> {}, resets |-> {}, out |-> NoOut,
   timing |-> Immediate, prio |-> 0, keys |-> {}, relays |-> {}]

OneOf(p) == [place |-> p, type |-> "one", n |-> 1]

ArrivalsSource(i) == 200 + i

OptionalSource(i) == 300 + i

\* A step of the environment: its name tells its source and the place it serves.
Arrive(source, p) ==
  [Blank(100 * source + p) EXCEPT !.ins = {OneOf(source)}, !.out = [type |-> "place", place |-> p]]

ArriveAt(source, places) ==
  LET order == SetToSortSeq(places, <) IN [k \in DOMAIN order |-> Arrive(source, order[k])]

ArrivalSteps(i, g) ==
  (IF g.min > 0 THEN ArriveAt(ArrivalsSource(i), g.places) ELSE <<>>)
    \o (IF g.max > g.min
          THEN Append(ArriveAt(OptionalSource(i), g.places),
                      [Blank(400 + i) EXCEPT !.ins = {OneOf(OptionalSource(i))}])
          ELSE <<>>)

\* The sources, with what they hold.
Sources(groups) ==
  {s \in UNION {{<<ArrivalsSource(i), groups[i].min>>, <<OptionalSource(i), groups[i].max - groups[i].min>>}
                  : i \in DOMAIN groups} : s[2] > 0}

transitionPlaces(t) == InputPlaces(t) \cup t.reads \cup t.inhs \cup t.resets \cup OutputPlaces(t)

\* A contract: the subnet's own tokens, what arrives, the counts at rest, where tokens may
\* rest, always and while a marker is marked, the neighbours' transitions.
ArrivalsOnly(m, groups) ==
  [m |-> m, arrivals |-> groups, clauses |-> <<>>, rest |-> {}, terminals |-> {},
   environment |-> <<>>, termination |-> FALSE]

ContractPlaces(c) ==
  {p \in DOMAIN c.m : c.m[p] > 0} \cup UNION {g.places : g \in Range(c.arrivals)}
    \cup UNION {d.places : d \in Range(c.clauses)} \cup c.rest
    \cup UNION {{t[1]} \cup t[2] : t \in c.terminals}

closeOpenNet(net, c) ==
  LET own   == UNION {transitionPlaces(t) : t \in Range(c.environment)} \ net.places
      held  == Sources(c.arrivals)
      steps == c.environment \o FlattenSeq([i \in DOMAIN c.arrivals |-> ArrivalSteps(i, c.arrivals[i])])
      all   == net.places \cup own \cup ContractPlaces(c) \cup {s[1] : s \in held}
  IN [net |-> NetOf(all, net.trans \o steps, net.terminals),
      m   |-> [p \in all |-> IF \E s \in held : s[1] = p THEN (CHOOSE s \in held : s[1] = p)[2]
                             ELSE Tokens(c.m, p)],
      steps |-> {t.name : t \in Range(steps)}, own |-> own]

\* arrivals(min, max): a group for each environment place, unless nothing can arrive.
closeArrivals(net, m, env) ==
  LET order == SetToSortSeq(env.places, <)
  IN IF env.max = 0 THEN [net |-> net, m |-> m, steps |-> {}, own |-> {}]
     ELSE closeOpenNet(net, ArrivalsOnly(m, [i \in DOMAIN order |->
            [places |-> {order[i]}, min |-> env.min, max |-> env.max]]))

\* A place the marking marks and the net does not declare joins it, without arcs.
withInertMarkedPlaces(net, m) ==
  [net EXCEPT !.places = @ \cup {p \in DOMAIN m : m[p] > 0}]

-----------------------------------------------------------------------------
(* in-flight.ts: an action runs between consuming and depositing, and a    *)
(* step in between may test an output for absence.  Such a transition is   *)
(* split into a start and a completion.                                    *)

inFlightPlace(t) == 100 + t

completionTransition(t) == 100 + t

\* Mutant: only inhibitors and terminals test a place for absence.
InhibitedPlaces(net) == net.terminals \cup UNION {t.inhs : t \in Range(net.trans)}

nonMonotonePlaces(net) ==
  net.terminals \cup UNION {t.inhs \cup t.resets \cup {s.place : s \in {i \in t.ins : Drains(i)}}
                              : t \in Range(net.trans)}

isCompletion(t) == t.name \in 101..199 /\ t.ins = {OneOf(t.name)} /\ t.reads = {} /\ t.resets = {}

NoDemand == [tested |-> {}, forced |-> {}]

\* A terminal abandons the actions in flight: only a lower bound can miss their tokens.
quiescentCountDemand(net, property) ==
  IF property.type = "quiescent-count" /\ property.min > 0 /\ ~(net.terminals \subseteq property.waivedBy)
    THEN [tested |-> property.places \cup property.waivedBy, forced |-> {}]
    ELSE NoDemand

\* Conflict priority prunes a lower transition while a higher one it shares an input with
\* is enabled: a test of the higher one's inputs and reads.
conflictPruners(net) ==
  {h \in Range(net.trans) : \E l \in Range(net.trans) :
     l.name # h.name /\ h.prio > l.prio /\ InputPlaces(l) \cap InputPlaces(h) # {}}

conflictDemand(net) ==
  [tested |-> UNION {InputPlaces(h) \cup h.reads : h \in conflictPruners(net)},
   forced |-> {h.name : h \in conflictPruners(net)}]

unionDemand(a, b) == [tested |-> a.tested \cup b.tested, forced |-> a.forced \cup b.forced]

inFlightTransitionsFor(net, environment, demand) ==
  LET tested == nonMonotonePlaces(net) \cup demand.tested IN
  {t.name : t \in {u \in Range(net.trans) :
     /\ ~isCompletion(u) /\ u.name \notin environment
     /\ u.name \in demand.forced \/ OutputPlaces(u) \cap tested # {}}}

multiTokenForward(t) ==
  t.out # NoOut /\ \E n \in Timeouts(t.out) : \E f \in ForwardInputs(n.child) :
    \E s \in InputOn(t, f.from) : s.type # "one"

ColouredBy(net) == UNION {t.keys \cup t.relays : t \in Range(net.trans)}

\* A nu-join, a writer of a coloured place, a batch its completion cannot see, or a name
\* the split would add and the net already has.
refusalCause(net, coloured, t) ==
  \/ t.keys # {}
  \/ OutputPlaces(t) \cap (coloured \cup ColouredBy(net)) # {}
  \/ multiTokenForward(t)
  \/ inFlightPlace(t.name) \in net.places
  \/ \E u \in Range(net.trans) : u.name = completionTransition(t.name)

firstUnsplittable(net, coloured, split) ==
  \E t \in Range(net.trans) : t.name \in split /\ refusalCause(net, coloured, t)

completionOutput[out \in Specs] ==
  CASE out.type = "forward-input" -> [type |-> "place", place |-> out.to]
    [] out.type = "timeout"       -> [out EXCEPT !.child = completionOutput[out.child]]
    [] out.type \in {"and", "xor"} ->
         [out EXCEPT !.children = [k \in DOMAIN @ |-> completionOutput[@[k]]]]
    [] OTHER                      -> out

halves(t) ==
  <<[t EXCEPT !.out = [type |-> "place", place |-> inFlightPlace(t.name)]],
    [Blank(completionTransition(t.name)) EXCEPT
       !.ins = {OneOf(inFlightPlace(t.name))}, !.prio = t.prio,
       !.out = IF t.out = NoOut THEN NoOut ELSE completionOutput[t.out]]>>

SplitNet(net, split) ==
  NetOf(net.places \cup {inFlightPlace(t) : t \in split},
        FlattenSeq([i \in DOMAIN net.trans |->
          IF net.trans[i].name \in split THEN halves(net.trans[i]) ELSE <<net.trans[i]>>]),
        net.terminals)

-----------------------------------------------------------------------------
(* terminal-places.ts: a terminal inhibits every transition, is a sink and *)
(* excuses every place.  reaping.ts: a late executor overruns a bound.     *)

withTerminalInhibitors(net) ==
  NetOf(net.places,
        [i \in DOMAIN net.trans |-> [net.trans[i] EXCEPT !.inhs = @ \cup net.terminals]], {})

TerminalSinks(net, sinks) ==
  [always |-> sinks.always \cup net.terminals,
   when   |-> sinks.when \cup {<<p, net.places>> : p \in net.terminals}]

reapableTransitions(net) == {t.name : t \in {u \in Range(net.trans) : isReapable(u.timing)}}

lateTransitions(net) == {t.name : t \in {u \in Range(net.trans) : hasLatestBound(u.timing)}}

relaxLate(net, late) ==
  [net EXCEPT !.trans = [i \in DOMAIN @ |->
     IF @[i].name \in late /\ hasLatestBound(@[i].timing)
       THEN [@[i] EXCEPT !.timing =
               IF earliest(@) = 0 THEN Immediate
               ELSE [type |-> "delayed", eft |-> earliest(@), lft |-> Infinity]]
       ELSE @[i]]]
=============================================================================
