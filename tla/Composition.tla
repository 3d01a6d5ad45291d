---------------------------- MODULE Composition ----------------------------
(***************************************************************************)
(* Building a net from parts: PetriNetBuilder (src/typescript/src/core/    *)
(* petri-net.ts), SubnetDef and Instance (subnet-def.ts, instance.ts),     *)
(* fusion sets and the arc rewriting of internal/subnet-rewriter.ts.       *)
(*                                                                         *)
(* A name is the sequence of its segments: 'a/x' is <<"a", "x">>.  Places  *)
(* are their names.  A transition object is a record; one object of an     *)
(* author is the record itself, and a rebuilt one differs from it.  An     *)
(* output specification is the list of its AND branches and of its timeout *)
(* nodes.  A call that throws ends the construction.                       *)
(*                                                                         *)
(* parts and glue are history: which authored transitions, at which        *)
(* instance path, went into a transition, and which names were made one    *)
(* place.  The code reads neither.                                         *)
(***************************************************************************)
EXTENDS Integers, SequencesExt, FiniteSetsExt

CONSTANTS Authored,   \* the transitions written by hand, by identifier
          Defs,       \* the subnet definitions, by name
          Script,     \* Script[level]: the calls a program may make, each once
          CallBound   \* CallBound[level]: how many of them it makes

VARIABLES builder,    \* the PetriNetBuilder in use
          inner,      \* the SubnetDef retrofitted from the last net built, or NoDef
          called,     \* the calls made on the builder
          level,      \* how many nets were built and nested
          net,        \* the net build() or verify() returned, or NoNet
          rejected    \* a call threw

vars == <<builder, inner, called, level, net, rejected>>

NoMap == [x \in {} |-> x]

Resolve(remap, p) == IF p \in DOMAIN remap THEN remap[p] ELSE p

-----------------------------------------------------------------------------
(* core/transition.ts: a transition and what build() refuses.              *)

NoOut == [branches |-> <<>>, late |-> <<>>]

BranchPlaces(out) == UNION {Range(b) : b \in Range(out.branches)}

LatePlaces(out) == UNION {{leaf.to : leaf \in Range(l)} : l \in Range(out.late)}

outputPlaces(t) == BranchPlaces(t.out) \cup LatePlaces(t.out)

inputPlaces(t) == {s.place : s \in Range(t.ins)}

ArcPlaces(t) == inputPlaces(t) \cup outputPlaces(t) \cup t.reads \cup t.inhs \cup t.resets

Distinct(s) == Cardinality(Range(s)) = Len(s)

\* A fault in any of these and TransitionBuilder.build() throws.  "conflict" stands for
\* the throw of a merge of two input arcs.
Buildable(t) ==
  /\ Distinct([i \in DOMAIN t.ins |-> t.ins[i].place])
  /\ \A s \in Range(t.ins) : s.type # "conflict" /\ s.n >= 1
  /\ \A b \in Range(t.out.branches) : Distinct(b)
  /\ Len(t.out.late) <= 1
  /\ \A l \in Range(t.out.late) : \A leaf \in Range(l) : leaf.forward => leaf.from \in inputPlaces(t)
  /\ Distinct([i \in DOMAIN t.out.branches |-> Range(t.out.branches[i])])
  /\ Distinct(t.keys) /\ Range(t.keys) \subseteq inputPlaces(t)
  /\ Distinct(t.relays) /\ Range(t.relays) \subseteq outputPlaces(t)

\* isPassthrough(): no action was bound.
Passthrough(t) == t.acts = <<>>

-----------------------------------------------------------------------------
(* internal/subnet-rewriter.ts: a transition rebuilt over other places.    *)

rewriteIn(spec, remap) == [spec EXCEPT !.place = Resolve(remap, @)]

rewriteOut(out, remap) ==
  [branches |-> [i \in DOMAIN out.branches |->
                   [j \in DOMAIN out.branches[i] |-> Resolve(remap, out.branches[i][j])]],
   late     |-> [i \in DOMAIN out.late |->
                   [j \in DOMAIN out.late[i] |->
                      [out.late[i][j] EXCEPT !.to = Resolve(remap, @), !.from = Resolve(remap, @)]]]]

rewriteArcs(places, remap) == {Resolve(remap, p) : p \in places}

\* Mutant: an identity entry is dropped by itself.
AliasWithoutIdentity(t, remap) ==
  LET keys == IF DOMAIN t.alias # {} THEN DOMAIN t.alias ELSE ArcPlaces(t)
  IN [d \in {k \in keys : Resolve(remap, Resolve(t.alias, k)) # k} |->
        Resolve(remap, Resolve(t.alias, d))]

\* Declared place -> actual place.  The first rewrite records every arc place; later ones
\* move the actual side.  A map that is the identity everywhere is dropped as a whole.
buildPlaceAlias(t, remap) ==
  LET keys  == IF DOMAIN t.alias # {} THEN DOMAIN t.alias ELSE ArcPlaces(t)
      alias == [d \in keys |-> Resolve(remap, Resolve(t.alias, d))]
  IN IF (remap = NoMap /\ t.alias = NoMap) \/ \A d \in keys : alias[d] = d THEN NoMap ELSE alias

Rewritten(t, name, remap) ==
  [t EXCEPT !.name = name,
            !.alias = buildPlaceAlias(t, remap),
            !.ins = [i \in DOMAIN @ |-> rewriteIn(@[i], remap)],
            !.out = rewriteOut(@, remap),
            !.inhs = rewriteArcs(@, remap), !.reads = rewriteArcs(@, remap),
            !.resets = rewriteArcs(@, remap),
            !.keys = [i \in DOMAIN @ |-> Resolve(remap, @[i])],
            !.relays = [i \in DOMAIN @ |-> Resolve(remap, @[i])]]

substitutePlaces(t, remap) == Rewritten(t, t.name, remap)

rewriteTransition(t, prefix, remap) ==
  [Rewritten(t, <<prefix>> \o t.name, remap) EXCEPT
     !.parts = [i \in DOMAIN @ |-> [@[i] EXCEPT !.at = <<prefix>> \o @]]]

-----------------------------------------------------------------------------
(* Input arcs that meet on one place (normalizeInputArcs).                 *)

Summable(s) == s.type \in {"one", "exactly"}

mergeInPair(a, b) ==
  CASE a.type = "all" /\ b.type = "all"           -> a
    [] a.type = "at-least" /\ b.type = "at-least" -> IF a.n >= b.n THEN a ELSE b
    [] Summable(a) /\ Summable(b)                 -> [a EXCEPT !.type = "exactly", !.n = @ + b.n]
    [] OTHER                                      -> [a EXCEPT !.type = "conflict"]

AddArc(arcs, arc) ==
  LET at == SelectInSeq(arcs, LAMBDA s : s.place = arc.place)
  IN IF at = 0 THEN Append(arcs, arc) ELSE [arcs EXCEPT ![at] = mergeInPair(@, arc)]

normalizeInputArcs(arcs) == FoldLeft(AddArc, <<>>, arcs)

-----------------------------------------------------------------------------
(* Channel composition (mergeTransitions): the caller's transition and the *)
(* instance's become one.                                                  *)

mergeTimings(a, b) == IF a = "immediate" THEN b ELSE a

TimingsConflict(a, b) == "immediate" \notin {a, b} /\ a # b

\* An identity entry asserts nothing.
mergePlaceAlias(a, b) ==
  IF a = NoMap THEN b ELSE IF b = NoMap THEN a
  ELSE [d \in DOMAIN a \cup DOMAIN b |-> IF d \notin DOMAIN b \/ (d \in DOMAIN a /\ a[d] # d) THEN a[d] ELSE b[d]]

AliasesConflict(a, b) ==
  \E d \in DOMAIN a \cap DOMAIN b : a[d] # b[d] /\ a[d] # d /\ b[d] # d

arcKinds(t, p) ==
  {k \in {"input", "inhibitor", "read", "reset"} :
     p \in CASE k = "input" -> inputPlaces(t) [] k = "inhibitor" -> t.inhs
             [] k = "read"  -> t.reads        [] k = "reset"     -> t.resets}

KindsConflict(a, b) ==
  \E p \in ArcPlaces(a) \cap ArcPlaces(b) :
    arcKinds(a, p) # {} /\ arcKinds(b, p) # {} /\ arcKinds(a, p) # arcKinds(b, p)

MergeRefused(caller, instance) ==
  \/ TimingsConflict(caller.timing, instance.timing)
  \/ caller.keys # <<>> /\ instance.keys # <<>>
  \/ AliasesConflict(caller.alias, instance.alias)
  \/ KindsConflict(caller, instance)

mergeOutputs(a, b) ==
  IF a = NoOut THEN b ELSE IF b = NoOut THEN a
  ELSE [branches |-> FlattenSeq([i \in DOMAIN a.branches |->
                       [j \in DOMAIN b.branches |-> a.branches[i] \o b.branches[j]]]),
        late |-> a.late \o b.late]

mergeTransitions(caller, instance) ==
  [caller EXCEPT !.ins = normalizeInputArcs(@ \o instance.ins),
                 !.out = mergeOutputs(@, instance.out),
                 !.inhs = @ \cup instance.inhs, !.reads = @ \cup instance.reads,
                 !.resets = @ \cup instance.resets,
                 !.timing = mergeTimings(@, instance.timing),
                 !.acts = @ \o instance.acts,
                 !.keys = @ \o instance.keys, !.relays = @ \o instance.relays,
                 !.alias = mergePlaceAlias(@, instance.alias),
                 !.parts = @ \o instance.parts]

-----------------------------------------------------------------------------
(* subnet-def.ts and instance.ts: a body copied under a prefix.            *)

NoDef == [body |-> <<>>]

Def(name) == IF name = "inner" THEN inner ELSE Defs[name]

renamePlace(p, prefix) == <<prefix>> \o p

PlaceRemap(body, prefix) == [p \in body.places |-> renamePlace(p, prefix)]

renameNet(body, prefix) ==
  [body EXCEPT !.places = {renamePlace(p, prefix) : p \in @},
               !.trans = {rewriteTransition(t, prefix, PlaceRemap(body, prefix)) : t \in @},
               !.glue = {<<renamePlace(g[1], prefix), renamePlace(g[2], prefix)>> : g \in @}]

validatePrefix(prefix) == prefix # ""

\* instantiate(): the handles are the renamed port place and the renamed transition's name.
instantiate(def, prefix) ==
  [prefix |-> prefix, def |-> def, body |-> renameNet(def.body, prefix),
   ports  |-> [n \in DOMAIN def.ports |-> renamePlace(def.ports[n].place, prefix)],
   chans  |-> [n \in DOMAIN def.chans |-> <<prefix>> \o def.chans[n]]]

\* Instance.bindActions(): acts are keyed by the names before the prefix.
rebuildWithAction(t, act) == [t EXCEPT !.acts = <<act>>]

bindActions(instance, acts) ==
  [instance EXCEPT !.body.trans =
     {IF Tail(t.name) \in DOMAIN acts THEN rebuildWithAction(t, acts[Tail(t.name)]) ELSE t : t \in @}]

UnknownAction(instance, acts) ==
  ~(DOMAIN acts \subseteq {Tail(t.name) : t \in instance.body.trans})

-----------------------------------------------------------------------------
(* petri-net.ts: the builder.                                              *)

EmptyBuilder ==
  [places |-> {}, trans |-> {}, fusions |-> {}, contributions |-> {}, terminals |-> {},
   retired |-> {}, glue |-> {}, owed |-> {}]

PartsOf(ts) == UNION {Range(t.parts) : t \in ts}

\* transition(): a transition and the places of its arcs.
AddTransitions(b, ts) ==
  [b EXCEPT !.trans = @ \cup ts, !.places = @ \cup UNION {ArcPlaces(t) : t \in ts}]

\* terminal(): a place that ends the run.
AddTerminal(b, p) == [b EXCEPT !.terminals = @ \cup {p}, !.places = @ \cup {p}]

\* rejectPortBindingCollision(): two ports of one transition meet on a host place.
rejectPortBindingCollision(t, remap) ==
  \/ ~Distinct([i \in DOMAIN t.ins |-> Resolve(remap, t.ins[i].place)])
  \/ \E b \in Range(rewriteOut(t.out, remap).branches) : ~Distinct(b)

\* One channel binding over st: the builder's transitions, the instance's not yet added
\* and whether a call threw.  The caller's object leaves the builder if it is there.
MergeChannel(st, instance, channel, caller) ==
  LET found  == {t \in st.rewritten : channel \in DOMAIN instance.chans /\ t.name = instance.chans[channel]}
      chosen == CHOOSE t \in found : TRUE
      merged == mergeTransitions(caller, chosen)
  IN IF st.threw \/ found = {} \/ MergeRefused(caller, chosen) \/ ~Buildable(merged)
       THEN [st EXCEPT !.threw = TRUE]
       ELSE [st EXCEPT !.rewritten = @ \ {chosen}, !.trans = (@ \ {caller}) \cup {merged}]

retiredPorts(instance, mergeMap) ==
  {p \in Range(instance.ports) : p \in DOMAIN mergeMap /\ mergeMap[p] # p}

\* chans: <<channel, identifier of the caller's transition>> pairs in binding order.
Composed(b, instance, mergeMap, chans) ==
  LET body      == instance.body
      rewritten == {substitutePlaces(t, mergeMap) : t \in body.trans}
      callers   == {Authored[c[2]] : c \in Range(chans)}
      st        == FoldLeft(LAMBDA s, c : MergeChannel(s, instance, c[1], Authored[c[2]]),
                            [trans |-> b.trans, rewritten |-> rewritten, threw |-> FALSE], chans)
      added     == AddTransitions([b EXCEPT !.trans = {}], st.trans \cup st.rewritten)
  IN [threw   |-> \/ st.threw \/ body.terminals # {}
                  \/ \E t \in body.trans : rejectPortBindingCollision(t, mergeMap)
                  \/ \E t \in rewritten : ~Buildable(t),
      builder |-> [added EXCEPT
        !.retired = @ \cup retiredPorts(instance, mergeMap),
        !.glue = @ \cup body.glue \cup {<<p, mergeMap[p]>> : p \in DOMAIN mergeMap},
        !.owed = @ \cup PartsOf(body.trans \cup callers)]]

\* composeInternal(): bind is keyed by port name.
composeInternal(b, instance, bind, chans) ==
  LET known    == DOMAIN bind \subseteq DOMAIN instance.ports
      mergeMap == [p \in {instance.ports[n] : n \in DOMAIN bind \cap DOMAIN instance.ports} |->
                     bind[CHOOSE n \in DOMAIN bind : instance.ports[n] = p]]
      result   == Composed(b, instance, mergeMap, chans)
  IN [result EXCEPT !.threw = @ \/ ~known]

\* composeAuto(): a port goes to the place it was declared with; without ports, a body
\* place goes to the builder's place of its own name.
composeAuto(b, instance) ==
  LET def      == instance.def
      inferred == {p \in def.body.places : p \in b.places}
      mergeMap == [p \in {renamePlace(q, instance.prefix) : q \in inferred} |-> Tail(p)]
      result   == IF DOMAIN def.ports # {}
                    THEN composeInternal(b, instance, [n \in DOMAIN def.ports |-> def.ports[n].place], <<>>)
                    ELSE Composed(b, instance, mergeMap, <<>>)
  IN [result EXCEPT !.threw = @ \/ DOMAIN def.chans # {}]

\* composeDirect(): no prefix; places meet by name.
composeDirect(b, name, def) ==
  LET body     == def.body
      mergeMap == [p \in body.places \cap b.places |-> p]
      nodes    == body.places \cup {t.name : t \in body.trans}
      added    == AddTransitions([b EXCEPT !.places = @ \cup body.places],
                                 {substitutePlaces(t, mergeMap) : t \in body.trans})
  IN [threw   |-> \/ body.terminals # {} \/ DOMAIN def.chans # {}
                  \/ \E t \in body.trans, u \in b.trans : t.name = u.name,
      builder |-> [added EXCEPT !.contributions = @ \cup (nodes \X {name}),
                                !.glue = @ \cup body.glue,
                                !.owed = @ \cup PartsOf(body.trans)]]

-----------------------------------------------------------------------------
(* build(): fusion, then what a net must not be.                           *)

\* A fusion set is the sequence of its members, the canonical one first.
canonical(set) == set[1]

nonCanonical(set) == Range(Tail(set))

FusionsOverlap(b) ==
  \E s, u \in b.fusions : s # u /\ Range(s) \cap Range(u) # {}

fusionMap(b) ==
  [p \in UNION {nonCanonical(s) : s \in b.fusions} |->
     canonical(CHOOSE s \in b.fusions : p \in nonCanonical(s))]

fusionTouchesInputs(t, fused) == inputPlaces(t) \cap DOMAIN fused # {}

\* A transition whose inputs no fusion touches keeps its arcs as they are.
applyFusion(t, fused) ==
  LET rebuilt == substitutePlaces(t, fused)
  IN IF fusionTouchesInputs(t, fused) THEN [rebuilt EXCEPT !.ins = normalizeInputArcs(@)] ELSE rebuilt

\* Mutant: only input and output arcs are looked at.
RejectsFlowArcs(b, ts) == \E t \in ts : (inputPlaces(t) \cup outputPlaces(t)) \cap b.retired # {}

rejectBoundPortReferences(b, ts) == \E t \in ts : ArcPlaces(t) \cap b.retired # {}

requireWellFormedTerminals(terminals, ts) ==
  \A t \in ts : (inputPlaces(t) \cup t.reads) \cap terminals = {}

\* A node one subnet contributed belongs to it; a shared one to none.
resolveSubnetMembership(b) ==
  {c \in b.contributions : \A d \in b.contributions : d[1] = c[1] => d[2] = c[2]}

\* Mutant: the entries of fused places stay.
MembershipKept(membership, fused) == membership

filterFusedMembership(membership, fused) == {c \in membership : c[1] \notin fused}

\* History: the names glued into one place, a block each.
JoinBlocks(g, blocks) ==
  LET met == {block \in blocks : g[1] \in block \/ g[2] \in block}
  IN (blocks \ met) \cup {{g[1], g[2]} \cup UNION met}

BlocksOf(glue) == FoldSet(JoinBlocks, {}, glue)

buildWithFusion(b) ==
  LET fused     == fusionMap(b)
      ts        == {applyFusion(t, fused) : t \in b.trans}
      terminals == rewriteArcs(b.terminals, fused)
      glued     == {<<p, fused[p]>> : p \in DOMAIN fused \ b.retired}
  IN [threw |-> \/ FusionsOverlap(b) \/ \E t \in ts : ~Buildable(t)
                \/ rejectBoundPortReferences(b, ts) \/ ~requireWellFormedTerminals(terminals, ts),
      net   |-> [places     |-> (b.places \ DOMAIN fused) \cup terminals \cup UNION {ArcPlaces(t) : t \in ts},
                 trans      |-> ts,
                 terminals  |-> terminals,
                 membership |-> filterFusedMembership(resolveSubnetMembership(b), DOMAIN fused),
                 glue       |-> b.glue \cup glued,
                 blocks     |-> BlocksOf(b.glue \cup glued),
                 owed       |-> b.owed,
                 env        |-> {}]]

\* subnetOf(): the owning subnet, or the longest prefix that is an instance.
ScopesOf(n) == {SubSeq(n, 1, k) : k \in 1..(Len(n) - 1)}

transitionPrefixes(m) == UNION {ScopesOf(t.name) : t \in m.trans}

subnetOf(m, n) ==
  LET owners    == {c[2] : c \in {d \in m.membership : d[1] = n}}
      instances == ScopesOf(n) \cap transitionPrefixes(m)
  IN IF owners # {} THEN owners
     ELSE {i \in instances : \A j \in instances : Len(j) <= Len(i)}

-----------------------------------------------------------------------------
(* A program's calls.                                                      *)

NoNet == [places |-> {}]

Calls(kind) == {c \in Script[level] \ called : c.kind = kind}

Building == net = NoNet /\ ~rejected

MayCall == Building /\ Cardinality(called) < CallBound[level]

Return(call, result) ==
  /\ rejected' = result.threw
  /\ builder' = IF result.threw THEN builder ELSE result.builder
  /\ called' = called \cup {call}
  /\ UNCHANGED <<inner, level, net>>

AddTransition ==
  /\ MayCall
  /\ \E c \in Calls("add") :
       LET b == AddTransitions(builder, {Authored[c.t]})
       IN Return(c, [threw |-> FALSE, builder |-> [b EXCEPT !.owed = @ \cup PartsOf({Authored[c.t]})]])

\* compose(instance, bindings), the instance's actions bound before.
Compose ==
  /\ MayCall
  /\ \E c \in Calls("compose") :
       LET instance == instantiate(Def(c.def), c.prefix)
           result   == composeInternal(builder, bindActions(instance, c.acts), c.bind, c.chans)
       IN Return(c, [result EXCEPT !.threw = @ \/ ~validatePrefix(c.prefix) \/ UnknownAction(instance, c.acts)])

ComposeAuto ==
  /\ MayCall
  /\ \E c \in Calls("auto") : Return(c, composeAuto(builder, instantiate(Def(c.def), c.prefix)))

ComposeDirect ==
  /\ MayCall
  /\ \E c \in Calls("direct") : Return(c, composeDirect(builder, c.def, Def(c.def)))

Fuse ==
  /\ MayCall
  /\ \E c \in Calls("fuse") :
       Return(c, [threw |-> Len(c.members) = 0,
                  builder |-> [builder EXCEPT !.fusions = @ \cup {c.members}]])

Terminal ==
  /\ MayCall
  /\ \E c \in Calls("terminal") :
       Return(c, [threw |-> FALSE, builder |-> AddTerminal(builder, c.place)])

Build ==
  /\ Building /\ called # {}
  /\ LET result == buildWithFusion(builder) IN
     /\ rejected' = result.threw
     /\ net' = IF result.threw THEN net ELSE result.net
  /\ UNCHANGED <<builder, inner, called, level>>

\* SubnetDef.fromNet(): the net becomes a definition for the next builder.
FromNet ==
  /\ net # NoNet /\ ~rejected /\ level + 1 \in DOMAIN Script
  /\ \E c \in {s \in Script[level + 1] : s.kind = "interface"} :
       /\ rejected' = ~({c.ports[n].place : n \in DOMAIN c.ports} \subseteq net.places
                        /\ Range(c.chans) \subseteq {t.name : t \in net.trans})
       /\ inner' = [body |-> net, ports |-> c.ports, chans |-> c.chans]
       /\ called' = {c}
  /\ builder' = EmptyBuilder
  /\ level' = level + 1
  /\ net' = NoNet

\* PetriNet.bindActions(): a transition the map does not name gets the passthrough action.
BindActions ==
  /\ net # NoNet /\ ~rejected
  /\ \E c \in Calls("bind") :
       /\ net' = [net EXCEPT !.trans =
            {IF t.name \in DOMAIN c.acts THEN rebuildWithAction(t, c.acts[t.name]) ELSE [t EXCEPT !.acts = <<>>] : t \in @}]
       /\ called' = called \cup {c}
  /\ UNCHANGED <<builder, inner, level, rejected>>

\* requireOutputProducingActions()
RequireActions(ts) == \A t \in ts : t.out # NoOut => ~Passthrough(t)

Supplied(port) == port.dir \in {"input", "inout"}

\* SubnetDef.verify(): the definition alone between harness places, an input generator
\* for every port that takes tokens.
Verify ==
  /\ Building /\ called = {}
  /\ \E c \in Calls("verify") :
       LET def    == Def(c.def)
           sut    == instantiate(def, "sut")
           synth  == composeInternal(EmptyBuilder, sut, [n \in DOMAIN def.ports |-> <<"harness", n>>], <<>>)
           result == buildWithFusion(synth.builder)
           needs  == {n \in DOMAIN def.ports : Supplied(def.ports[n])}
       IN /\ rejected' = (~(needs \subseteq c.generators) \/ synth.threw \/ result.threw
                          \/ ~RequireActions(result.net.trans))
          /\ net' = IF rejected' THEN net ELSE [result.net EXCEPT !.env = {<<"harness", n>> : n \in needs}]
          /\ called' = {c}
  /\ UNCHANGED <<builder, inner, level>>

Init ==
  /\ builder = EmptyBuilder /\ inner = NoDef /\ called = {} /\ level = 1
  /\ net = NoNet /\ rejected = FALSE

Next ==
  \/ AddTransition \/ Compose \/ ComposeAuto \/ ComposeDirect \/ Fuse \/ Terminal
  \/ Build \/ FromNet \/ BindActions \/ Verify

Spec == Init /\ [][Next]_vars

-----------------------------------------------------------------------------
(* What a built net must be, from the history alone: every authored        *)
(* transition at every instance path, over the places as they were glued.  *)

\* The names that are one place with n.
Class(n) == {n} \cup UNION {block \in net.blocks : n \in block}

Classes(places) == {Class(p) : p \in places}

\* The class of the place a part declares as p.
PartClass(part, p) == Class(part.at \o p)

PartClasses(part, places) == {PartClass(part, p) : p \in places}

AuthoredArcs(part) == Authored[part.orig].ins

\* The input arcs of the parts that ended on class c.
DemandsOn(parts, c) ==
  FlattenSeq([i \in DOMAIN parts |->
    SelectSeq(AuthoredArcs(parts[i]), LAMBDA s : PartClass(parts[i], s.place) = c)])

AllOfType(specs, types) == \A s \in Range(specs) : s.type \in types

\* Fixed draws add up, drains take everything and wait for the largest minimum.
DemandMet(spec, specs) ==
  \/ /\ AllOfType(specs, {"one", "exactly"}) /\ spec.type \in {"one", "exactly"}
     /\ spec.n = FoldLeft(LAMBDA n, s : n + s.n, 0, specs)
  \/ AllOfType(specs, {"all"}) /\ spec.type = "all"
  \/ /\ AllOfType(specs, {"at-least"}) /\ spec.type = "at-least"
     /\ spec.n = Max({s.n : s \in Range(specs)})

InputsExact(t) ==
  /\ Classes(inputPlaces(t)) = UNION {PartClasses(part, {s.place : s \in Range(AuthoredArcs(part))}) : part \in Range(t.parts)}
  /\ \A s \in Range(t.ins) : DemandMet(s, DemandsOn(t.parts, Class(s.place)))

BranchSets(out, Of(_)) == {{Of(p) : p \in Range(b)} : b \in Range(out.branches)}

PartBranches(part) == BranchSets(Authored[part.orig].out, LAMBDA p : PartClass(part, p))

\* Every part with outputs writes one of its branches.
OutputsExact(t) ==
  LET writers == SelectSeq(t.parts, LAMBDA part : Authored[part.orig].out # NoOut)
      either(A, part) == {a \cup b : a \in A, b \in PartBranches(part)}
  IN BranchSets(t.out, Class) = IF writers = <<>> THEN {} ELSE FoldLeft(either, {{}}, writers)

TestsExact(t) ==
  /\ Classes(t.reads) = UNION {PartClasses(part, Authored[part.orig].reads) : part \in Range(t.parts)}
  /\ Classes(t.inhs) = UNION {PartClasses(part, Authored[part.orig].inhs) : part \in Range(t.parts)}
  /\ Classes(t.resets) = UNION {PartClasses(part, Authored[part.orig].resets) : part \in Range(t.parts)}
  /\ Classes(Range(t.keys)) = UNION {PartClasses(part, Range(Authored[part.orig].keys)) : part \in Range(t.parts)}
  /\ Classes(Range(t.relays)) = UNION {PartClasses(part, Range(Authored[part.orig].relays)) : part \in Range(t.parts)}

NamesInUse == UNION {ArcPlaces(t) : t \in net.trans}

\* Membership names nodes of the net only, and a transition that came under a prefix or
\* with a subnet has an owner, exactly one.
OwnersExist ==
  /\ {c[1] : c \in net.membership} \subseteq net.places \cup {t.name : t \in net.trans}
  /\ \A t \in net.trans :
       (Len(t.name) > 1 \/ \E c \in net.membership : c[1] = t.name) => Cardinality(subnetOf(net, t.name)) = 1
  /\ NamesInUse \subseteq net.places /\ net.terminals \subseteq net.places

\* build(), applyComposition(), applyFusion(): whatever the order of the calls, the net
\* is the parts over the glued places: no part is lost or there twice, its arcs end on
\* the places they were written for, one place has one name, and the ownership tables
\* (resolveSubnetMembership(), filterFusedMembership()) name what is there.
FlatNetExact ==
  net # NoNet =>
    /\ PartsOf(net.trans) = net.owed
    /\ \A t, u \in net.trans : t # u => Range(t.parts) \cap Range(u.parts) = {}
    /\ \A t \in net.trans : InputsExact(t) /\ OutputsExact(t) /\ TestsExact(t)
    /\ \A p, q \in NamesInUse : q \in Class(p) => p = q
    /\ OwnersExist

\* Where the action of a part finds the place it declares as p (TransitionContext.resolve).
Reaches(t, part, p) ==
  LET actual == Resolve(t.alias, p) IN actual \in PartClass(part, p) /\ actual \in ArcPlaces(t)

DeclaredReached(t) ==
  \A part \in Range(t.parts) : \A p \in ArcPlaces(Authored[part.orig]) : Reaches(t, part, p)

\* buildPlaceAlias(): through every renaming, binding and fusion, an action still
\* reaches the places its author declared.
ActionsReachPlaces ==
  net # NoNet => \A t \in net.trans : Len(t.parts) = 1 => DeclaredReached(t)
=============================================================================
