------------------------------ MODULE FlatNet ------------------------------
(***************************************************************************)
(* The flat net the solver routes of the verifier work on, and everything  *)
(* they compute from it without a solver: encoding/net-flattener.ts and    *)
(* incidence-matrix.ts, invariant/p-invariant-computer.ts and              *)
(* structural-check.ts, and of z3/ the step relation and the property      *)
(* (smt-encoder.ts), its replayer (abstract-replayer.ts), the traps, the   *)
(* search within firing counts, and the exact checks that dispose of what  *)
(* a solver proposes (linear-bound, invariant-synthesis, bounded-run,      *)
(* slot-bound-lp, certificate-checker).                                    *)
(*                                                                         *)
(* A flat transition is one outcome of one transition: its pre and post    *)
(* vectors are functions on the places.  `inject` gives each injected      *)
(* environment place its bound, Infinity for none; `caps` the places whose *)
(* content every step must keep within a bound.                            *)
(***************************************************************************)
EXTENDS VerifierNet

FlatPre(net, t) ==
  [p \in net.places |-> FoldSet(LAMBDA s, n : requiredCount(s), 0, InputOn(t, p))]

\* A forward of a drained batch is represented by the batch's minimum.
FlatPost(net, t, outcome) ==
  LET minimum == [p \in InputPlaces(t) |-> requiredCount(CHOOSE s \in InputOn(t, p) : TRUE)]
  IN [p \in net.places |-> IF p \in DOMAIN outcome THEN depositCount(outcome[p], minimum) ELSE 0]

FlatTransition(net, t, k, reapable) ==
  [src |-> t.name, branch |-> k, pre |-> FlatPre(net, t), post |-> FlatPost(net, t, outcomes(t)[k]),
   all |-> {s.place : s \in {i \in t.ins : Drains(i)}}, inhs |-> t.inhs, reads |-> t.reads,
   resets |-> t.resets, reapable |-> t.name \in reapable]

\* Only a mode that supplies the places injects into them; a closed net has no other.
environmentInjection(env) ==
  [p \in IF env.mode \in {"always-available", "bounded"} THEN env.places ELSE {} |->
     IF env.mode = "bounded" THEN env.max ELSE Infinity]

flatten(net, env, reapable) ==
  [places |-> net.places,
   ts     |-> FlattenSeq([i \in DOMAIN net.trans |->
                [k \in DOMAIN outcomes(net.trans[i]) |-> FlatTransition(net, net.trans[i], k, reapable)]]),
   inject |-> environmentInjection(env),
   caps   |-> [p \in {q \in DOMAIN environmentInjection(env) : env.mode = "bounded"} |-> env.max]]

\* Weighted sums over the places.
Dot(y, v) == FoldSet(LAMBDA p, n : n + y[p] * v[p], 0, DOMAIN y)

Change(ft) == [p \in DOMAIN ft.pre |-> ft.post[p] - ft.pre[p]]

Clears(ft) == ft.all \cup ft.resets

\* IncidenceMatrix.from(): a column per flat transition, then one per injected place.
incidence(flat) ==
  [i \in DOMAIN flat.ts |-> Change(flat.ts[i])]
    \o [i \in 1..Cardinality(DOMAIN flat.inject) |->
          LET at == SetToSortSeq(DOMAIN flat.inject, <)[i]
          IN [p \in flat.places |-> IF p = at THEN 1 ELSE 0]]

-----------------------------------------------------------------------------
(* p-invariant-computer.ts: conservation laws.  A row is a combination of  *)
(* places: what it adds per column, and its weights.                       *)

gcd[ab \in Nat \X Nat] == IF ab[2] = 0 THEN ab[1] ELSE gcd[<<ab[2], ab[1] % ab[2]>>]

Abs(x) == IF x < 0 THEN -x ELSE x

Entries(row) == {Abs(x) : x \in Range(row.sig) \cup Range(row.w)}

\* normalizeRow(), reduceGcd(): divided by the greatest common divisor of its entries.
normalizeRow(row) ==
  LET g == FoldSet(LAMBDA x, n : gcd[<<n, x>>], 0, Entries(row))
      d(x) == IF x < 0 THEN -((-x) \div g) ELSE x \div g
  IN IF g <= 1 THEN row
     ELSE [sig |-> [c \in DOMAIN row.sig |-> d(row.sig[c])], w |-> [p \in DOMAIN row.w |-> d(row.w[p])]]

combineRow(a, r, b, s) ==
  [sig |-> [c \in DOMAIN r.sig |-> a * r.sig[c] + b * s.sig[c]],
   w   |-> [p \in DOMAIN r.w |-> a * r.w[p] + b * s.w[p]]]

\* [C^T | I]: one row per place, in place order.
augmented(flat) ==
  LET cols == incidence(flat) IN
  [i \in 1..Cardinality(flat.places) |->
     LET at == SetToSortSeq(flat.places, <)[i]
     IN [sig |-> [c \in DOMAIN cols |-> cols[c][at]], w |-> [p \in flat.places |-> IF p = at THEN 1 ELSE 0]]]

\* Clear a column in every row but the pivot's, which moves to the front of what is left.
Eliminate(st, col) ==
  LET free == {i \in st.done + 1..Len(st.rows) : st.rows[i].sig[col] # 0} IN
  IF free = {} THEN st
  ELSE LET top     == st.done + 1
           pivot   == Min(free)
           swapped == [st.rows EXCEPT ![top] = st.rows[pivot], ![pivot] = st.rows[top]]
           a       == swapped[top].sig[col]
       IN [done |-> top,
           rows |-> [i \in DOMAIN swapped |->
                       IF i = top \/ swapped[i].sig[col] = 0 THEN swapped[i]
                       ELSE normalizeRow(combineRow(a, swapped[i], -swapped[i].sig[col], swapped[top]))]]

Law(w, m0) == [w |-> w, constant |-> Dot(w, m0)]

Signed(w) == IF \E p \in DOMAIN w : w[p] > 0 THEN w ELSE [p \in DOMAIN w |-> -w[p]]

computePInvariants(flat, m0) ==
  LET cols == [c \in 1..Len(incidence(flat)) |-> c]
      rows == FoldLeft(Eliminate, [done |-> 0, rows |-> augmented(flat)], cols).rows
      null == {r \in Range(rows) : (\A c \in DOMAIN r.sig : r.sig[c] = 0) /\ (\E p \in DOMAIN r.w : r.w[p] # 0)}
  IN IF cols = <<>> THEN {} ELSE {Law(Signed(r.w), m0) : r \in null}

Support(w) == {p \in DOMAIN w : w[p] # 0}

\* Places a firing may empty of more than its arc asks for.
nonlinearPlaces(flat) == UNION {Clears(ft) : ft \in Range(flat.ts)}

\* Mutant: the linearity guard left out.
PassesColumnsOnly(flat, m0, law) ==
  (\A c \in Range(incidence(flat)) : Dot(law.w, c) = 0) /\ law.constant = Dot(law.w, m0)

\* A law is kept if it avoids the places a firing empties, balances every column and
\* starts at its constant.
exactCheck(flat, m0, law) ==
  /\ Support(law.w) \cap nonlinearPlaces(flat) = {}
  /\ \A c \in Range(incidence(flat)) : Dot(law.w, c) = 0
  /\ law.constant = Dot(law.w, m0)

validateInvariantsExact(flat, m0, laws) == {law \in laws : exactCheck(flat, m0, law)}

keepSupportMinimal(rows) ==
  {r \in rows : ~\E s \in rows : Support(s.w) \subseteq Support(r.w) /\ Support(s.w) # Support(r.w)}

\* One column of the Colom-Silva elimination: only non-negative combinations.
EliminateNonNegative(rows, col) ==
  LET at(s) == {r \in rows : s * r.sig[col] > 0} IN
  keepSupportMinimal(
    {r \in rows : r.sig[col] = 0}
      \cup {normalizeRow(combineRow(-r[2].sig[col], r[1], r[1].sig[col], r[2])) : r \in at(1) \X at(-1)})

computePSemiflows(flat, m0) ==
  LET rows == FoldLeft(EliminateNonNegative, Range(augmented(flat)), [c \in 1..Len(incidence(flat)) |-> c])
  IN {Law(r.w, m0) : r \in {s \in rows : Support(s.w) # {}}}

\* The union: off, on, or only where the basis lost a law to the linearity guard.
strengtheningLaws(flat, m0, semiflows) ==
  LET basis == computePInvariants(flat, m0)
      valid == validateInvariantsExact(flat, m0, basis)
      lost  == \E law \in basis \ valid : Support(law.w) \cap nonlinearPlaces(flat) # {}
  IN valid \cup IF semiflows = "on" \/ (semiflows = "auto" /\ lost)
                  THEN validateInvariantsExact(flat, m0, computePSemiflows(flat, m0)) ELSE {}

-----------------------------------------------------------------------------
(* structural-check.ts: Commoner's condition.                              *)

SiphonSearchBudget == 10000

Feeds(ft, S) == \E p \in S : ft.post[p] > 0

Taps(ft, S) == \E p \in S : ft.pre[p] > 0

\* grow(): the siphons found so far and the nodes spent, -1 nodes once the budget is gone.
RECURSIVE grow(_, _, _)
grow(flat, st, S) ==
  LET open == SelectInSeq(flat.ts, LAMBDA ft : Feeds(ft, S) /\ ~Taps(ft, S)) IN
  IF st.nodes < 0 \/ st.nodes >= SiphonSearchBudget THEN [st EXCEPT !.nodes = -1]
  ELSE IF \E f \in st.found : f \subseteq S THEN [st EXCEPT !.nodes = @ + 1]
  ELSE IF open = 0 THEN [nodes |-> st.nodes + 1, found |-> st.found \cup {S}]
  ELSE FoldSet(LAMBDA q, next : grow(flat, next, S \cup {q}), [st EXCEPT !.nodes = @ + 1],
               {q \in flat.places : flat.ts[open].pre[q] > 0})

SiphonSearch(flat) ==
  FoldSet(LAMBDA p, st : grow(flat, st, {p}), [nodes |-> 0, found |-> {}], flat.places)

findMinimalSiphons(flat) ==
  LET found == SiphonSearch(flat).found
  IN {S \in found : ~\E other \in found : other \subseteq S /\ other # S}

\* The places of S every drain of which feeds the trap, to the fixed point.
RECURSIVE findMaximalTrapIn(_, _)
findMaximalTrapIn(flat, S) ==
  LET kept == {p \in S : \A ft \in Range(flat.ts) : ft.pre[p] > 0 => Feeds(ft, S)} IN
  IF kept = S THEN S ELSE findMaximalTrapIn(flat, kept)

structuralCheck(flat, m0) ==
  CASE flat.ts = <<>>              -> "inconclusive"
    [] flat.places = {}            -> "no-potential-deadlock"
    [] SiphonSearch(flat).nodes < 0 -> "inconclusive"
    [] \A S \in findMinimalSiphons(flat) : Marked(m0, findMaximalTrapIn(flat, S)) -> "no-potential-deadlock"
    [] OTHER                       -> "potential-deadlock"

\* The theorem is about ordinary arcs alone.
commonerApplies(flat) ==
  \A ft \in Range(flat.ts) :
    /\ ft.reads = {} /\ ft.inhs = {} /\ Clears(ft) = {}
    /\ \A p \in flat.places : ft.pre[p] <= 1

-----------------------------------------------------------------------------
(* z3/smt-encoder.ts: the step relation a solver is given, without any     *)
(* strengthening, and z3/abstract-replayer.ts: the same steps, executed.   *)

firingConditions(flat, ft, m, next) ==
  /\ \A p \in flat.places : m[p] >= ft.pre[p]
  /\ \A p \in ft.inhs : m[p] = 0
  /\ \A p \in ft.reads : m[p] >= 1
  /\ \A p \in flat.places :
       next[p] = IF p \in Clears(ft) THEN ft.post[p] ELSE m[p] + ft.post[p] - ft.pre[p]
  /\ \A p \in flat.places : next[p] >= 0

envBoundConditions(flat, next) == \A p \in DOMAIN flat.caps : next[p] <= flat.caps[p]

injectionConditions(flat, at, m, next) ==
  /\ flat.inject[at] < Infinity => m[at] < flat.inject[at]
  /\ next = [m EXCEPT ![at] = @ + 1]

StepRelation(flat, m, next) ==
  \/ \E ft \in Range(flat.ts) : firingConditions(flat, ft, m, next) /\ envBoundConditions(flat, next)
  \/ \E p \in DOMAIN flat.inject : injectionConditions(flat, p, m, next)

enabledA(m, ft) ==
  /\ \A p \in DOMAIN ft.pre : m[p] >= ft.pre[p]
  /\ \A p \in ft.reads : m[p] >= 1
  /\ \A p \in ft.inhs : m[p] = 0

fireA(m, ft) ==
  [p \in DOMAIN m |-> IF p \in Clears(ft) THEN ft.post[p] ELSE m[p] - ft.pre[p] + ft.post[p]]

injectA(m, p) == [m EXCEPT ![p] = @ + 1]

withinEnvBounds(flat, m) == \A p \in DOMAIN flat.caps : m[p] <= flat.caps[p]

successors(flat, m) ==
  {next \in {fireA(m, ft) : ft \in {t \in Range(flat.ts) : enabledA(m, t)}} : withinEnvBounds(flat, next)}
    \cup {injectA(m, p) : p \in {q \in DOMAIN flat.inject : flat.inject[q] = Infinity \/ m[q] < flat.inject[q]}}

\* What an injection can bring is no reason for a transition to rest, up to its bound.
enabledRelaxEnv(flat, m, ft) ==
  /\ \A p \in flat.places : ft.pre[p] > 0 =>
       IF p \in DOMAIN flat.inject THEN ft.pre[p] <= flat.inject[p] ELSE m[p] >= ft.pre[p]
  /\ \A p \in ft.reads : IF p \in DOMAIN flat.inject THEN flat.inject[p] >= 1 ELSE m[p] >= 1
  /\ \A p \in ft.inhs : m[p] = 0

\* A transition a late executor reaps need not be disabled.
isQuiescent(flat, m) == \A ft \in Range(flat.ts) : ft.reapable \/ ~enabledRelaxEnv(flat, m, ft)

satisfiesBad(flat, m, property, sinks) ==
  IF isReachabilitySafety(property) THEN safetyViolation(m, property)
  ELSE isQuiescent(flat, m) /\ quiescentViolation(m, property, sinks)

\* encodeQuiescent() answers no marking at all when some transition is always enabled.
quiescenceUnreachable(flat) ==
  \E ft \in Range(flat.ts) :
    /\ ~ft.reapable /\ ft.inhs = {}
    /\ \A p \in {q \in flat.places : ft.pre[q] > 0} : p \in DOMAIN flat.inject /\ ft.pre[p] <= flat.inject[p]
    /\ \A p \in ft.reads : p \in DOMAIN flat.inject /\ flat.inject[p] >= 1

-----------------------------------------------------------------------------
(* What a solver proposes, and the exact check that disposes of it.        *)

\* linear-bound.ts: the least a violating marking holds, and a weighting that separates it.
violationDemand(flat, property) ==
  [p \in property.places |-> IF property.type \in {"place-bound", "branch-place-bound"} THEN property.max + 1 ELSE 1]

zeroWeightPlaces(flat) == nonlinearPlaces(flat) \cup DOMAIN flat.inject

checkLinearBoundExact(flat, m0, property, y) ==
  LET d == violationDemand(flat, property) IN
  /\ \A p \in flat.places : y[p] >= 0
  /\ \A p \in zeroWeightPlaces(flat) : y[p] = 0
  /\ \A ft \in Range(flat.ts) : Dot(y, Change(ft)) <= 0
  /\ Dot(d, y) >= Dot(y, m0) + 1

\* smt-encoder.ts: where a run that fired each transition n times can be.  A place an arc
\* clears holds at most what the columns say, an injected one anything.
stateEquationConditions(flat, m0, n, m) ==
  \A p \in flat.places \ DOMAIN flat.inject :
    LET rhs == FoldFunction(+, m0[p], [k \in DOMAIN flat.ts |-> n[k] * Change(flat.ts[k])[p]]) IN
    IF p \in nonlinearPlaces(flat) THEN m[p] <= rhs ELSE m[p] = rhs

\* An inequality: weights and a constant.  holdsAt() of state-equation-query.ts.
holdsAt(ineq, m) == Dot(ineq.w, m) <= ineq.constant

\* trap-refinement.ts: a place is drained by a clearing arc too.
drainedPlaces(ft) == {p \in DOMAIN ft.pre : ft.pre[p] > 0} \cup Clears(ft)

RECURSIVE maximalTrap(_, _)
maximalTrap(flat, S) ==
  LET leaks == UNION {drainedPlaces(ft) : ft \in {t \in Range(flat.ts) :
                 drainedPlaces(t) \cap S # {} /\ ~Feeds(t, S)}}
  IN IF leaks \cap S = {} THEN S ELSE maximalTrap(flat, S \ leaks)

\* The largest trap the candidate leaves empty, shrunk while it stays initially marked.
refutingTrap(flat, m0, candidate) ==
  LET start == maximalTrap(flat, {p \in flat.places : candidate[p] = 0})
      small == FoldLeft(LAMBDA trap, p : LET next == maximalTrap(flat, trap \ {p})
                                         IN IF p \in trap /\ Marked(m0, next) THEN next ELSE trap,
                        start, SetToSortSeq(start, <))
  IN IF Marked(m0, start) THEN {[w |-> [p \in flat.places |-> IF p \in small THEN -1 ELSE 0], constant |-> -1]}
     ELSE {}

\* parikh-search.ts: the markings of runs that fire each transition at most n times.
RECURSIVE WithinCounts(_, _, _)
WithinCounts(flat, seen, frontier) ==
  LET next == UNION {{<<fireA(s[1], flat.ts[k]), [s[2] EXCEPT ![k] = @ - 1]>> :
                        k \in {j \in DOMAIN flat.ts : s[2][j] > 0 /\ enabledA(s[1], flat.ts[j])}} : s \in frontier}
      new  == {s \in next : withinEnvBounds(flat, s[1])} \ seen
  IN IF new = {} THEN seen ELSE WithinCounts(flat, seen \cup new, new)

searchWithinCounts(flat, m0, n, property, sinks) ==
  {s[1] : s \in {r \in WithinCounts(flat, {<<m0, n>>}, {<<m0, n>>}) : satisfiesBad(flat, r[1], property, sinks)}}

\* invariant-synthesis.ts: the two ways a step preserves an inequality.
CanFireAtAll(ft) == \A p \in ft.inhs : ft.pre[p] = 0 /\ p \notin ft.reads

Lower(ft, p) == IF ft.pre[p] = 0 /\ p \in ft.reads THEN 1 ELSE ft.pre[p]

\* What a step adds at most to the sum: the guard gives a cleared place its least content.
stepKeeps(ft, w) ==
  /\ \A p \in Clears(ft) \ ft.inhs : w[p] >= 0
  /\ Dot(w, [p \in DOMAIN w |->
        IF p \in Clears(ft) THEN ft.post[p] - (IF p \in ft.inhs THEN 0 ELSE Lower(ft, p))
        ELSE ft.post[p] - ft.pre[p]]) <= 0

\* What the sum is at most after a step, whatever it was before.
stepRestores(ft, w, constant) ==
  /\ \A p \in DOMAIN w \ (Clears(ft) \cup ft.inhs) : w[p] <= 0
  /\ Dot(w, [p \in DOMAIN w |->
        IF p \in Clears(ft) THEN ft.post[p]
        ELSE ft.post[p] - ft.pre[p] + (IF p \in ft.inhs THEN 0 ELSE Lower(ft, p))]) <= constant

checkInductiveExact(flat, m0, ineq) ==
  /\ holdsAt(ineq, m0)
  /\ \A p \in DOMAIN flat.inject : ineq.w[p] <= 0
  /\ \A ft \in Range(flat.ts) : CanFireAtAll(ft) => stepKeeps(ft, ineq.w) \/ stepRestores(ft, ineq.w, ineq.constant)

\* bounded-run.ts: a ranking every firing lowers bounds the number of firings.
checkRankingExact(flat, r) ==
  /\ \A p \in flat.places : r[p] >= 0
  /\ \A ft \in Range(flat.ts) : CanFireAtAll(ft) => Dot(r, Change(ft)) <= -1

FiringBound(r, m0) == Dot(r, m0)

\* Its absence is a repeatable vector: counts the marking equation lets repeat.
repeatableVector(flat, n) ==
  /\ \E k \in DOMAIN flat.ts : n[k] > 0
  /\ \A k \in DOMAIN flat.ts : n[k] > 0 => CanFireAtAll(flat.ts[k])
  /\ \A p \in flat.places : FoldFunction(+, 0, [k \in DOMAIN flat.ts |-> n[k] * Change(flat.ts[k])[p]]) >= 0

\* The markings of runs of at most `depth` firings; idling closes a shorter run.
RECURSIVE BoundedRun(_, _, _)
BoundedRun(flat, S, depth) ==
  LET next == S \cup {m \in UNION {{fireA(s, ft) : ft \in {t \in Range(flat.ts) : enabledA(s, t)}} : s \in S} :
                         withinEnvBounds(flat, m)}
  IN IF depth = 0 \/ next = S THEN S ELSE BoundedRun(flat, next, depth - 1)
=============================================================================
