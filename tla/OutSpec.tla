------------------------------ MODULE OutSpec ------------------------------
(***************************************************************************)
(* Output specifications: src/typescript/src/core/out.ts, the build-time   *)
(* checks of core/transition.ts and the validation of                      *)
(* runtime/executor-support.ts.  A node is a record with a `type`; places  *)
(* stand for their names.  Branch indices count from 0.  The walks are     *)
(* recursive functions on Specs, which holds every subtree of its members. *)
(***************************************************************************)
EXTENDS Integers, SequencesExt

CONSTANT Specs   \* output specifications a transition is given

IsLeaf(out) == out.type \in {"place", "forward-input"}

LeafName(out) == IF out.type = "place" THEN out.place ELSE out.to

Children(out) ==
  CASE IsLeaf(out)          -> <<>>
    [] out.type = "timeout" -> <<out.child>>
    [] OTHER                -> out.children

ASSUME SpecsAssumption == \A out \in Specs : Range(Children(out)) \subseteq Specs

Names == {LeafName(out) : out \in {s \in Specs : IsLeaf(s)}}

None == -1

-----------------------------------------------------------------------------
(* The tree walks.                                                         *)

Nodes[out \in Specs] == {out} \cup UNION {Nodes[c] : c \in Range(Children(out))}

\* allPlaces(), specNames(), BranchAnalysis.universe()
AllPlaces[out \in Specs] ==
  IF IsLeaf(out) THEN {LeafName(out)} ELSE UNION {AllPlaces[c] : c \in Range(Children(out))}

\* Some branch names a place twice: two children of an AND have one in common.
DuplicateInBranch[out \in Specs] ==
  LET cs == Children(out) IN
  \/ \E c \in Range(cs) : DuplicateInBranch[c]
  \/ out.type = "and" /\ \E i, j \in DOMAIN cs : i < j /\ AllPlaces[cs[i]] \cap AllPlaces[cs[j]] # {}

\* Mutant: a Timeout is looked for at the root only.
RootTimeouts(out) == IF out.type = "timeout" THEN {out} ELSE {}

Timeouts(out) == {n \in Nodes[out] : n.type = "timeout"}

CountTimeouts[out \in Specs] ==
  FoldLeft(LAMBDA n, c : n + CountTimeouts[c], IF out.type = "timeout" THEN 1 ELSE 0, Children(out))

ContainsXor(out) == \E n \in Nodes[out] : n.type = "xor"

BareForwardInput[out \in Specs] ==
  \/ out.type = "forward-input"
  \/ out.type \in {"and", "xor"} /\ \E c \in Range(out.children) : BareForwardInput[c]

\* findForwardInputs()
ForwardInputs(out) == {n \in Nodes[out] : n.type = "forward-input"}

\* enumerateBranches(): one set of places per assignment.
CrossProduct(a, b) == FlattenSeq([i \in DOMAIN a |-> [j \in DOMAIN b |-> a[i] \cup b[j]]])

EnumerateBranches[out \in Specs] ==
  LET below == [k \in DOMAIN Children(out) |-> EnumerateBranches[Children(out)[k]]] IN
  CASE IsLeaf(out)       -> <<{LeafName(out)}>>
    [] out.type = "and"  -> FoldLeft(CrossProduct, <<{}>>, below)
    [] OTHER             -> FlattenSeq(below)

-----------------------------------------------------------------------------
(* ambiguousBranches(): the first two equal branches, without enumerating. *)

BranchCount[out \in Specs] ==
  CASE IsLeaf(out)      -> 1
    [] out.type = "and" -> FoldLeft(LAMBDA n, c : n * BranchCount[c], 1, out.children)
    [] OTHER            -> FoldLeft(LAMBDA n, c : n + BranchCount[c], 0, Children(out))

\* Branches of an XOR before its k-th child; branches of an AND per step of its k-th.
Offset(cs, k) == FoldLeft(LAMBDA n, c : n + BranchCount[c], 0, SubSeq(cs, 1, k - 1))

Stride(cs, k) == FoldLeft(LAMBDA n, c : n * BranchCount[c], 1, SubSeq(cs, k + 1, Len(cs)))

\* The branch of an XOR at the first child with a local index; of an AND at its last
\* child with one, the later children at their first branch.
FirstLocal(cs, local, k) == IF k = 0 THEN None ELSE Offset(cs, k) + local[k]

LastLocal(cs, local, k) == IF k = 0 THEN None ELSE Stride(cs, k) * local[k]

Found(index) == index # None

\* decodeInto(): the places of the branch at an index.
Decode[out \in Specs, index \in Nat] ==
  LET cs == Children(out)
      k  == SelectLastInSeq([j \in DOMAIN cs |-> Offset(cs, j)], LAMBDA n : n <= index)
  IN CASE IsLeaf(out)      -> {LeafName(out)}
       [] out.type = "and" ->
            UNION {Decode[cs[j], (index \div Stride(cs, j)) % BranchCount[cs[j]]] : j \in DOMAIN cs}
       [] OTHER            -> Decode[cs[k], index - Offset(cs, k)]

\* The part of S that falls to the k-th child of an AND, the first to name it; to k = 0,
\* what no child names.
PartOf(cs, S, k) == {p \in S : SelectInSeq(cs, LAMBDA c : p \in AllPlaces[c]) = k}

\* The smallest index of a branch whose set is S.
FirstIndexOf[out \in Specs, S \in SUBSET Names] ==
  LET cs == Children(out)
      at == [k \in DOMAIN cs |->
               FirstIndexOf[cs[k], IF out.type = "and" THEN PartOf(cs, S, k) ELSE S]]
  IN CASE IsLeaf(out)      -> IF S = {LeafName(out)} THEN 0 ELSE None
       [] out.type = "and" ->
            IF None \in Range(at) \/ PartOf(cs, S, 0) # {} THEN None
            ELSE FoldLeft(LAMBDA n, k : n + Stride(cs, k) * at[k], 0, [k \in DOMAIN cs |-> k])
       [] OTHER            -> FirstLocal(cs, at, SelectInSeq(at, Found))

CanBeEmpty[out \in Specs] ==
  CASE IsLeaf(out)      -> FALSE
    [] out.type = "and" -> \A c \in Range(out.children) : CanBeEmpty[c]
    [] OTHER            -> \E c \in Range(Children(out)) : CanBeEmpty[c]

\* branchesWithin(): the branches inside a set of places, with their indices, in order.
BranchesWithin[out \in Specs, within \in SUBSET Names] ==
  LET cs    == Children(out)
      below == [k \in DOMAIN cs |-> BranchesWithin[cs[k], within]]
      step(a, k) ==
        FlattenSeq([i \in DOMAIN a |-> [j \in DOMAIN below[k] |->
          <<a[i][1] + below[k][j][1] * Stride(cs, k), a[i][2] \cup below[k][j][2]>>]])
  IN CASE IsLeaf(out) -> IF LeafName(out) \in within THEN <<<<0, {LeafName(out)}>>>> ELSE <<>>
       [] out.type = "and" -> FoldLeft(step, <<<<0, {}>>>>, [k \in DOMAIN cs |-> k])
       [] OTHER ->
            FlattenSeq([k \in DOMAIN cs |-> [j \in DOMAIN below[k] |->
              <<below[k][j][1] + Offset(cs, k), below[k][j][2]>>]])

\* Mutant: only earlier alternatives with the same places are rivals.
RivalsSame(earlier, child) == SelectSeq(earlier, LAMBDA e : AllPlaces[e] = AllPlaces[child])

Rivals(earlier, child) ==
  SelectSeq(earlier, LAMBDA e :
    \/ AllPlaces[e] \cap AllPlaces[child] # {}
    \/ CanBeEmpty[child] /\ CanBeEmpty[e])

\* The k-th branch inside the rivals' places, unless the child has a collision of its
\* own before it.
Earlier(inside, k, bound) ==
  IF k = 0 \/ (Found(bound) /\ inside[k][1] > bound) THEN None ELSE inside[k][1]

ClaimedBy(rivals, inside, bound) ==
  Earlier(inside,
          SelectInSeq(inside, LAMBDA b : \E r \in rivals : Found(FirstIndexOf[r, b[2]])),
          bound)

FirstClaimedEarlier(earlier, child, bound) ==
  LET rivals == Range(Rivals(earlier, child))
  IN ClaimedBy(rivals, BranchesWithin[child, UNION {AllPlaces[r] : r \in rivals}], bound)

OrElse(index, other) == IF Found(index) THEN index ELSE other

FirstCollision[out \in Specs] ==
  LET cs    == Children(out)
      local == [k \in DOMAIN cs |->
                  LET own == FirstCollision[cs[k]] IN
                  IF out.type # "xor" THEN own
                  ELSE OrElse(FirstClaimedEarlier(SubSeq(cs, 1, k - 1), cs[k], own), own)]
  IN IF out.type = "and"
       THEN LastLocal(cs, local, SelectLastInSeq(local, Found))
       ELSE FirstLocal(cs, local, SelectInSeq(local, Found))

AmbiguousBranches(out) ==
  LET j == FirstCollision[out] IN
  IF j = None THEN <<>> ELSE <<FirstIndexOf[out, Decode[out, j]], j>>

\* The checks of a transition's build(), in its order; `inputs` are its input places.
Builds(out, inputs) ==
  /\ ~DuplicateInBranch[out]
  /\ CountTimeouts[out] <= 1
  /\ \A t \in Timeouts(out) : ~ContainsXor(t.child)
  /\ ~BareForwardInput[out]
  /\ \A f \in ForwardInputs(out) : f.from \in inputs
  /\ AmbiguousBranches(out) = <<>>

-----------------------------------------------------------------------------
(* validateOutSpec().                                                      *)

\* Mutant: one of each claim is kept.
CapAtOne(claims) ==
  FoldLeft(LAMBDA kept, c : IF c \in Range(kept) THEN kept ELSE Append(kept, c), <<>>, claims)

\* At most two of each claim: enough to tell one from several.
CapMultiplicity(claims) ==
  FoldLeft(LAMBDA kept, c : IF Cardinality({k \in DOMAIN kept : kept[k] = c}) >= 2
                              THEN kept ELSE Append(kept, c), <<>>, claims)

\* The claims of the assignments that claim nothing outside `produced`.
ClaimsWithin[out \in Specs, produced \in SUBSET Names] ==
  LET below == [k \in DOMAIN Children(out) |-> ClaimsWithin[Children(out)[k], produced]]
      join(acc, claims) == CapMultiplicity(CrossProduct(acc, claims))
  IN CASE IsLeaf(out)          -> IF LeafName(out) \in produced THEN <<{LeafName(out)}>> ELSE <<>>
       [] out.type = "and"     -> FoldLeft(join, <<{}>>, below)
       [] out.type = "xor"     -> CapMultiplicity(FlattenSeq(below))
       [] out.type = "timeout" -> below[1]

\* The claims that explain what was produced: equal size means equal set.
Exact(out, produced) ==
  SelectSeq(ClaimsWithin[out, produced],
            LAMBDA c : Cardinality(c) = Cardinality(produced \cap AllPlaces[out]))

\* validateOutSpec() returns the one exact claim, or throws OutViolationError.
Conforms(out, produced) == Len(Exact(out, produced)) = 1

-----------------------------------------------------------------------------
(* produceTimeoutOutput(): the bag the executor deposits for a timed-out    *)
(* firing that consumed taken[p] tokens from each input p.                  *)

\* Mutant: a forward puts down one token, whatever was consumed.
ForwardsOne(leaf, taken) == 1

Forwards(leaf, taken) == IF leaf.type = "place" THEN 1 ELSE taken[leaf.from]

LeavesOf[out \in Specs] ==
  IF IsLeaf(out) THEN <<out>>
  ELSE FlattenSeq([k \in DOMAIN Children(out) |-> LeavesOf[Children(out)[k]]])

TimeoutOutput(out, taken, p) ==
  FoldLeft(LAMBDA n, l : n + IF LeafName(l) = p THEN Forwards(l, taken) ELSE 0, 0, LeavesOf[out])
=============================================================================
