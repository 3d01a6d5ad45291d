---------------------------- MODULE FiniteMaxima ----------------------------
(***************************************************************************)
(* Maxima of functions on finite sets, for the proofs about the restart    *)
(* thresholds of an executor and the eviction order of the debug server.   *)
(* An induction over finite sets, done with a minimal counterexample.      *)
(***************************************************************************)
EXTENDS Integers, FiniteSetTheorems, WellFoundedInduction, TLAPS

\* A non-empty set of subsets of a finite set has a smallest member.
LEMMA FiniteMinimal ==
  ASSUME NEW S, IsFiniteSet(S), NEW T \in SUBSET SUBSET S, T # {}
  PROVE  \E x \in T : \A y \in T : y \subseteq x => y = x
<1>1. T \subseteq FiniteSubsetsOf(S)
  BY FS_Subset DEF FiniteSubsetsOf
<1>2. PICK x \in T : \A y \in T : ~ (<<y, x>> \in StrictSubsetOrdering(S))
  BY <1>1, WFMin, FS_StrictSubsetOrderingWellFounded
<1> QED
  BY <1>2 DEF StrictSubsetOrdering

\* A function with values in the integers reaches its maximum on a finite set.
LEMMA FiniteMax ==
  ASSUME NEW S, IsFiniteSet(S), S # {}, NEW f \in [S -> Int]
  PROVE  \E x \in S : \A y \in S : f[y] <= f[x]
<1> DEFINE HasMax(U) == \E x \in U : \A y \in U : f[y] <= f[x]
           T == {U \in SUBSET S : U # {} /\ ~HasMax(U)}
<1>1. T \in SUBSET SUBSET S
  OBVIOUS
<1>2. ASSUME T # {} PROVE FALSE
  <2>1. PICK U \in T : \A V \in T : V \subseteq U => V = U
    <3>1. ASSUME NEW W \in SUBSET SUBSET S, W # {}
          PROVE  \E x \in W : \A y \in W : y \subseteq x => y = x
      BY <3>1, FiniteMinimal
    <3> HIDE DEF T
    <3> QED
      BY <1>1, <1>2, <3>1
  <2>2. PICK x \in U : TRUE
    OBVIOUS
  <2>3. x \in S /\ \A y \in U : f[y] \in Int
    OBVIOUS
  <2>4. U \ {x} \notin T
    BY <2>1, <2>2
  <2>5. CASE U \ {x} = {}
    BY <2>2, <2>3, <2>5
  <2>6. CASE U \ {x} # {}
    <3>1. PICK z \in U \ {x} : \A y \in U \ {x} : f[y] <= f[z]
      BY <2>4, <2>6
    <3>2. CASE f[x] <= f[z]
      BY <3>1, <3>2
    <3>3. CASE ~(f[x] <= f[z])
      <4>1. \A y \in U : f[y] <= f[x]
        BY <2>2, <2>3, <3>1, <3>3
      <4> QED
        BY <2>2, <4>1
    <3> QED
      BY <3>2, <3>3
  <2> QED
    BY <2>5, <2>6
<1> QED
  BY <1>2
=============================================================================
