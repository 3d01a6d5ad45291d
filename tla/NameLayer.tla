----------------------------- MODULE NameLayer -----------------------------
(***************************************************************************)
(* Nets whose joins match by name (nu-nets), as the verifier's two exact   *)
(* routes read them: analysis/name-fragment.ts (which places carry names,  *)
(* and what each transition does to a name), analysis/name-marking.ts,     *)
(* name-state-class.ts and name-state-class-graph.ts (Route B: a state-    *)
(* class graph with a partition of the tokens into name symbols), and      *)
(* z3/name-coloured-encoder.ts with the check of z3/slot-bound-lp.ts       *)
(* (Route A: names as a bounded set of colours).                           *)
(*                                                                         *)
(* A name layer gives every live symbol its signature: how many tokens of  *)
(* each coloured place carry it.                                           *)
(***************************************************************************)
EXTENDS FlatNet, StateClassGraph

isJoin(t) == t.keys # {}

hasMatch(net) == \E t \in Range(net.trans) : isJoin(t)

-----------------------------------------------------------------------------
(* name-fragment.ts.                                                       *)

\* What the executor writes by itself on a timeout: a forward, or a unit without a name.
NoInput == 0

timeoutWrites(t) ==
  IF t.out = NoOut THEN {}
  ELSE UNION {{[to |-> LeafName(l), from |-> IF l.type = "place" THEN NoInput ELSE l.from] :
                 l \in Range(LeavesOf[n.child])} : n \in Timeouts(t.out)}

declaredMints(net, budgetPlaces, explicit) ==
  explicit \cup {t.name : t \in {u \in Range(net.trans) : InputPlaces(u) \cap budgetPlaces # {}}}

colouredPlaces(net, mode, carriers) ==
  UNION {t.keys : t \in Range(net.trans)}
    \cup IF mode = "extended" THEN carriers \cup UNION {t.relays : t \in Range(net.trans)} ELSE {}

OutcomePlaces(t) == UNION {DOMAIN o : o \in Range(outcomes(t))}

ColouredTimeouts(t, C) == {w \in timeoutWrites(t) : w.to \in C}

fixedCount(spec) == ~Drains(spec)

relaysOf(t, mode) == IF mode = "extended" THEN t.relays ELSE {}

\* A join writes a coloured place as a relay alone and takes coloured places by key alone.
joinAdmitted(t, C, mode) ==
  /\ OutcomePlaces(t) \cap C \subseteq relaysOf(t, mode)
  /\ \A w \in ColouredTimeouts(t, C) : w.from \in t.keys
  /\ InputPlaces(t) \cap C \subseteq t.keys
  /\ \A p \in t.keys : \E s \in InputOn(t, p) : fixedCount(s)

\* A consumer takes one coloured token, whose name it relays or drops.
consumeAdmitted(t, C, mode) ==
  /\ mode = "extended"
  /\ \E p \in C : {s \in t.ins : s.place \in C} = InputOn(t, p) /\ Cardinality(InputOn(t, p)) = 1
       /\ \A s \in InputOn(t, p) : fixedCount(s) /\ requiredCount(s) = 1
       /\ \A w \in ColouredTimeouts(t, C) : w.from = p

mintAdmitted(t, C, mints) == t.name \in mints /\ ColouredTimeouts(t, C) = {}

roleOf(t, C) ==
  CASE isJoin(t)                     -> "join"
    [] InputPlaces(t) \cap C # {}    -> "consume"
    [] OutcomePlaces(t) \cap C # {}  -> "mint"
    [] OTHER                         -> "ordinary"

Admitted(t, C, mode, mints) ==
  /\ \A o \in Range(outcomes(t)) : \A p \in DOMAIN o \cap C : o[p] = OneToken
  /\ (t.resets \cup t.reads \cup t.inhs) \cap C = {}
  /\ CASE roleOf(t, C) = "join"    -> joinAdmitted(t, C, mode)
       [] roleOf(t, C) = "consume" -> consumeAdmitted(t, C, mode)
       [] roleOf(t, C) = "mint"    -> mintAdmitted(t, C, mints)
       [] OTHER                    -> TRUE

\* classify(): whether the net is in the fragment, and its coloured places.
classify(net, mode, carriers, mints, matchless) ==
  LET C == colouredPlaces(net, mode, carriers) IN
  [admitted |-> (matchless \/ hasMatch(net)) /\ \A t \in Range(net.trans) : Admitted(t, C, mode, mints),
   coloured |-> C, mode |-> mode]

everyTransition(net) == NamesOf(net.trans)

-----------------------------------------------------------------------------
(* name-marking.ts.  A symbol no token carries is not in the layer.        *)

NoNames == <<>>

Signature(names, C, s) == IF s \in DOMAIN names THEN names[s] ELSE [p \in C |-> 0]

\* add() and remove(): the signature of one symbol changed.
WithSignature(names, s, sig) ==
  LET live == (DOMAIN names \ {s}) \cup IF \E p \in DOMAIN sig : sig[p] > 0 THEN {s} ELSE {}
  IN [x \in live |-> IF x = s THEN sig ELSE names[x]]

AddSymbol(names, C, s, places) ==
  WithSignature(names, s, [p \in C |-> Signature(names, C, s)[p] + IF p \in places THEN 1 ELSE 0])

RemoveSymbol(names, C, s, count) ==
  WithSignature(names, s, [p \in C |-> names[s][p] - IF p \in DOMAIN count THEN count[p] ELSE 0])

symbolsIn(names, p) == {s \in DOMAIN names : names[s][p] > 0}

aligned(names, places) == Cardinality(UNION {symbolsIn(names, p) : p \in places}) <= 1

\* Two layers have the same key if one is a renaming of the other.
canonicalKey(names, C) ==
  [sig \in Range(names) |-> Cardinality({s \in DOMAIN names : names[s] = sig})]

-----------------------------------------------------------------------------
(* name-state-class-graph.ts.                                              *)

KeyCounts(t) == [p \in t.keys |-> requiredCount(CHOOSE s \in InputOn(t, p) : TRUE)]

\* Mutant: a name on one key place enables the join.
OnSomeKey(names, t) ==
  {s \in DOMAIN names : \E p \in t.keys : names[s][p] >= KeyCounts(t)[p]}

enablingSymbols(names, t) ==
  {s \in DOMAIN names : \A p \in t.keys : names[s][p] >= KeyCounts(t)[p]}

nameEnabled(t, names) == isJoin(t) => enablingSymbols(names, t) # {}

\* One symbol of each signature: the others give the same key.
distinctSignatures(symbols, names) ==
  {s \in symbols : ~\E r \in symbols : r < s /\ names[r] = names[s]}

NameStep(between, after, next) == [between |-> between, after |-> after, next |-> next]

JoinSteps(frag, t, names, outs, next) ==
  {LET between == RemoveSymbol(names, frag.coloured, s, KeyCounts(t))
   IN NameStep(between, AddSymbol(between, frag.coloured, s, outs \cap relaysOf(t, frag.mode)), next)
     : s \in distinctSignatures(enablingSymbols(names, t), names)}

ColouredInput(t, C) == CHOOSE p \in InputPlaces(t) : p \in C

ConsumeSteps(frag, t, names, outs, next) ==
  LET in == ColouredInput(t, frag.coloured) IN
  {LET between == RemoveSymbol(names, frag.coloured, s, in :> 1)
   IN NameStep(between, AddSymbol(between, frag.coloured, s, outs \cap frag.coloured), next)
     : s \in distinctSignatures(symbolsIn(names, in), names)}

\* One fresh symbol for every coloured place the branch writes.
MintStep(frag, names, outs, next) ==
  IF outs \cap frag.coloured = {} THEN NameStep(names, names, next)
  ELSE NameStep(names, AddSymbol(names, frag.coloured, next, outs \cap frag.coloured), next + 1)

nameSuccessors(frag, t, names, outs, next) ==
  CASE roleOf(t, frag.coloured) = "join"    -> JoinSteps(frag, t, names, outs, next)
    [] roleOf(t, frag.coloured) = "consume" -> ConsumeSteps(frag, t, names, outs, next)
    [] roleOf(t, frag.coloured) = "mint"    -> {MintStep(frag, names, outs, next)}
    [] OTHER                                -> {NameStep(names, names, next)}

\* Conflict priority: what the eager executor would never fire first.
consumedDemand(t, p) == FoldSet(LAMBDA s, n : n + requiredCount(s), 0, InputOn(t, p))

\* Mutant: two transitions compete for a place whatever it holds.
SharesAnyInput(h, l, m) == InputPlaces(h) \cap InputPlaces(l) # {}

sharesConsumedInput(h, l, m) ==
  \E p \in InputPlaces(h) \cap InputPlaces(l) : Tokens(m, p) < consumedDemand(h, p) + consumedDemand(l, p)

willFire(h, names, C) ==
  CASE roleOf(h, C) = "join"    -> enablingSymbols(names, h) # {}
    [] roleOf(h, C) = "consume" -> symbolsIn(names, ColouredInput(h, C)) # {}
    [] OTHER                    -> TRUE

priorityDominated(l, c, C) ==
  \E h \in Range(c.base.enabled) :
    /\ h.name # l.name /\ h.prio > l.prio
    /\ Tokens(c.base.marking, inFlightPlace(h.name)) = 0
    /\ c.base.ready[h.name] <= c.base.ready[l.name]
    /\ willFire(h, c.names, C)
    /\ sharesConsumedInput(h, l, c.base.marking)

\* computeSuccessor() behind an EnablingGate: a join holds a clock only while a name enables it.
GatedSettle(net, c, t, step, between, after, env) ==
  LET enabled == SelectSeq(findEnabledTransitions(net, after, env), LAMBDA u : nameEnabled(u, step.after))
      kept    == {u.name : u \in {v \in Range(c.enabled) :
                    Persists(c, t, v, between, after, env) /\ nameEnabled(v, step.between) /\ nameEnabled(v, step.after)}}
  IN NextClass(net, c, t, after, enabled, kept, FALSE)

gatedSuccessor(net, c, t, outcome, step, env) ==
  LET between == consumeInputs(c.marking, t, env)
  IN GatedSettle(net, c, t, step, between, produceOutputs(c.marking, between, t, outcome, env), env)

NameClass(base, names) == [base |-> base, names |-> names]

\* internBase() and internNames(): marking, zone and ready times; the canonical key.
classId(c, C) == <<classKey(c.base), c.base.ready, canonicalKey(c.names, C)>>

\* build() explores the net under an environment, up to `max` classes, with or without conflict
\* priority, and stops at the first class that violates a reachability-safety property.
BuildOptions(env, max, priority, property) ==
  [env |-> env, max |-> max, priority |-> priority, property |-> property]

isNameAlignment(property) == property.type \in {"name-aligned", "quiescent-name-aligned"}

StopAt(c, property) ==
  IF property.type = "name-aligned" THEN ~aligned(c.names, property.places)
  ELSE safetyViolation(c.base.marking, property)

StartNames(net, m, opts) ==
  LET c == NameClass(initialStateClass(net, m, opts.env, FALSE), NoNames) IN
  [classes |-> <<c>>, edges |-> <<>>, expanded |-> 0, sym |-> 1,
   complete |-> ~StopAt(c, opts.property), stopped |-> StopAt(c, opts.property)]

IndexOfClass(g, id, C) == SelectInSeq(g.classes, LAMBDA c : classId(c, C) = id)

AddClass(g, at, from, t, c, property) ==
  LET to   == IF at = 0 THEN Len(g.classes) + 1 ELSE at
      stop == at = 0 /\ StopAt(c, property)
  IN [g EXCEPT !.classes  = IF at = 0 THEN Append(@, c) ELSE @,
               !.edges    = Append(@, [from |-> from, t |-> t, to |-> to]),
               !.expanded = IF stop THEN from - 1 ELSE @,
               !.complete = @ /\ ~stop,
               !.stopped  = stop]

AddStep(net, g, frag, from, c, t, outcome, step, opts) ==
  LET next == gatedSuccessor(net, c.base, t, outcome, step, opts.env)
      h    == [g EXCEPT !.sym = step.next]
  IN IF g.stopped THEN g
     ELSE IF next.zone.empty THEN h
     ELSE AddClass(h, IndexOfClass(g, classId(NameClass(next, step.after), frag.coloured), frag.coloured),
                   from, t.name, NameClass(next, step.after), opts.property)

AddOutcome(net, g, frag, from, c, t, outcome, opts) ==
  FoldLeft(LAMBDA h, step : AddStep(net, h, frag, from, c, t, outcome, step, opts), g,
           SetToSeq(nameSuccessors(frag, t, c.names, DOMAIN outcome, g.sym)))

ExpandNames(net, g, frag, from, c, opts) ==
  FoldLeft(LAMBDA h, t : FoldLeft(LAMBDA i, o : AddOutcome(net, i, frag, from, c, t, o, opts), h, outcomes(t)),
           [g EXCEPT !.expanded = from],
           SelectSeq(c.base.enabled, LAMBDA t : opts.priority = "none" \/ ~priorityDominated(t, c, frag.coloured)))

NamesExpanded(net, g, frag, opts) ==
  ExpandNames(net, g, frag, g.expanded + 1, g.classes[g.expanded + 1], opts)

-----------------------------------------------------------------------------
(* nu-scg-verifier.ts: the first class that witnesses a violation.         *)

LabelsFrom(g, i) == {g.edges[k].t : k \in {e \in DOMAIN g.edges : g.edges[e].from = i}}

RestsWith(g, reapable, i) == i <= g.expanded /\ LabelsFrom(g, i) \subseteq reapable

decide(g, property, sinks, reapable) ==
  SelectInSeq([i \in DOMAIN g.classes |-> i], LAMBDA i :
    LET c == g.classes[i] IN
    IF isReachabilitySafety(property) \/ property.type = "name-aligned" THEN StopAt(c, property)
    ELSE /\ RestsWith(g, reapable, i)
         /\ IF property.type = "quiescent-name-aligned" THEN ~aligned(c.names, property.places)
            ELSE quiescentViolation(c.base.marking, property, sinks))

-----------------------------------------------------------------------------
(* name-coloured-encoder.ts: Route A.  A state has a count for every       *)
(* uncoloured place and one for every colour of a coloured place.          *)

SlotCap == 2147483647

\* slot-bound-lp.ts checkCover(): a weighting that no row increases bounds the coloured tokens.
checkCover(flat, C, cover) ==
  /\ cover.d >= 1
  /\ \A p \in flat.places : cover.y[p] >= IF p \in C THEN cover.d ELSE 0
  /\ \A ft \in Range(flat.ts) : Dot(cover.y, Change(ft)) <= 0

slotBound(m, cover) == Dot(cover.y, m) \div cover.d

TransitionOf(net, ft) == CHOOSE t \in Range(net.trans) : t.name = ft.src

RowIn(ft, C) == {p \in C : ft.pre[p] > 0}

RowOut(ft, C) == {p \in C : ft.post[p] > 0}

\* A row's class, by its own columns; the match and the relays are its transition's.
rowClass(t, ft, C) ==
  CASE isJoin(t)           -> "join"
    [] RowIn(ft, C) # {}   -> "consume"
    [] RowOut(ft, C) # {}  -> "mint"
    [] OTHER               -> "untouched"

rowAdmitted(t, ft, C, mode, mints) ==
  /\ (ft.inhs \cup ft.reads \cup Clears(ft)) \cap C = {}
  /\ CASE rowClass(t, ft, C) = "join" ->
            /\ RowIn(ft, C) # {} /\ RowIn(ft, C) \subseteq t.keys
            /\ RowOut(ft, C) \subseteq relaysOf(t, mode)
            /\ \A p \in RowIn(ft, C) : ft.pre[p] = 1
            /\ \A w \in ColouredTimeouts(t, C) : w.from \in t.keys
       [] rowClass(t, ft, C) = "consume" ->
            /\ mode = "extended"
            /\ \E p \in C : RowIn(ft, C) = {p} /\ ft.pre[p] = 1 /\ \A w \in ColouredTimeouts(t, C) : w.from = p
       [] rowClass(t, ft, C) = "mint" -> mintAdmitted(t, C, mints)
       [] OTHER -> TRUE
  /\ \A p \in RowOut(ft, C) : ft.post[p] = 1

\* buildColouredPlan(): the plan for a proposed weighting; -1 slots if there is none.
NoPlan == -1

buildColouredPlan(net, flat, m, mints, mode, carriers, cover) ==
  LET C == colouredPlaces(net, mode, carriers) IN
  IF /\ C # {} /\ C \subseteq flat.places /\ \A p \in C : m[p] = 0
     /\ \A ft \in Range(flat.ts) : rowAdmitted(TransitionOf(net, ft), ft, C, mode, mints)
     /\ checkCover(flat, C, cover) /\ slotBound(m, cover) <= SlotCap
     /\ slotBound(m, cover) > 0 \/ C # flat.places
    THEN slotBound(m, cover) ELSE NoPlan

\* The encoding's states: [m: the uncoloured places, col: the colours of each coloured place].
ColouredStart(m, C, k) ==
  [m |-> [p \in DOMAIN m \ C |-> m[p]], col |-> [pc \in C \X (1..k) |-> 0]]

uncolouredEnabled(ft, s, C) ==
  /\ \A p \in DOMAIN s.m : s.m[p] >= ft.pre[p]
  /\ \A p \in ft.inhs : s.m[p] = 0
  /\ \A p \in ft.reads : s.m[p] >= 1

freshColour(ft, s, C, c) == \A p \in C : s.col[<<p, c>>] = 0

colourEnabled(t, ft, s, C, c) ==
  CASE rowClass(t, ft, C) = "mint"      -> freshColour(ft, s, C, c)
    [] rowClass(t, ft, C) = "untouched" -> TRUE
    [] OTHER                            -> \A p \in RowIn(ft, C) : s.col[<<p, c>>] >= 1

\* encodeRule(): uncoloured columns by the row, colour c by what it takes and writes.
ColouredFire(ft, s, C, c) ==
  [m   |-> [p \in DOMAIN s.m |-> IF p \in Clears(ft) THEN ft.post[p] ELSE s.m[p] + ft.post[p] - ft.pre[p]],
   col |-> [pc \in DOMAIN s.col |-> IF pc[2] = c THEN s.col[pc] + ft.post[pc[1]] - ft.pre[pc[1]] ELSE s.col[pc]]]

\* An untouched row has one rule; every other has one per colour.
ColoursOf(t, ft, C, k) == IF rowClass(t, ft, C) = "untouched" THEN {0} ELSE 1..k

ColouredSteps(net, flat, s, C, k) ==
  UNION {LET t == TransitionOf(net, ft) IN
         {ColouredFire(ft, s, C, c) : c \in {d \in ColoursOf(t, ft, C, k) : colourEnabled(t, ft, s, C, d)}}
           : ft \in {r \in Range(flat.ts) : uncolouredEnabled(r, s, C)}}

aggregate(s, C, k) ==
  [p \in DOMAIN s.m \cup C |-> IF p \in C THEN FoldSet(LAMBDA c, n : n + s.col[<<p, c>>], 0, 1..k) ELSE s.m[p]]

encodeColouredQuiescent(net, flat, s, C, k) ==
  \A ft \in Range(flat.ts) :
    ft.reapable \/ ~uncolouredEnabled(ft, s, C)
      \/ ~\E c \in ColoursOf(TransitionOf(net, ft), ft, C, k) : colourEnabled(TransitionOf(net, ft), ft, s, C, c)

encodeViolation(net, flat, s, C, k, property, sinks) ==
  IF isReachabilitySafety(property) THEN safetyViolation(aggregate(s, C, k), property)
  ELSE encodeColouredQuiescent(net, flat, s, C, k) /\ quiescentViolation(aggregate(s, C, k), property, sinks)

RECURSIVE ColouredReach(_, _, _, _, _, _)
ColouredReach(net, flat, C, k, seen, frontier) ==
  LET next == UNION {ColouredSteps(net, flat, s, C, k) : s \in frontier} \ seen
  IN IF next = {} THEN seen ELSE ColouredReach(net, flat, C, k, seen \cup next, next)

encodeColoured(net, flat, m, C, k) == LET s == ColouredStart(m, C, k) IN ColouredReach(net, flat, C, k, {s}, {s})
=============================================================================
