---------------------------- MODULE CompiledNet ----------------------------
(***************************************************************************)
(* The compiled, immutable form of a net: src/typescript/src/runtime/      *)
(* compiled-net.ts, with the input cardinalities of core/in.ts and the     *)
(* firing intervals of core/timing.ts.                                     *)
(*                                                                         *)
(* A net is a set of places and transitions 1..NumTransitions (the number  *)
(* is the transition id, which is the declaration order).  A token is      *)
(* counted, its value is not: nothing the executor decides here depends on *)
(* a value (the nu-net joins, which do, have a module of their own).       *)
(***************************************************************************)
EXTENDS Integers, FiniteSets

CONSTANTS
  Places,           \* every place the net mentions
  NumTransitions,   \* transition ids are 1..NumTransitions
  Required,         \* Required[t][p]: requiredCount of t's input spec on p, 0 if none
  TakesAll,         \* TakesAll[t]: input places of kind 'all' or 'at-least'
  Reads,            \* Reads[t], Inhibitors[t], Resets[t]: places of those arcs
  Inhibitors,
  Resets,
  Terminals,        \* the terminal places the net declares
  Priority,         \* Priority[t]
  Timing            \* Timing[t] = [type, lo, hi]: the firing interval

Transitions == 1..NumTransitions

TimingTypes == {"immediate", "deadline", "delayed", "window", "exact"}

\* in.ts rejects a count below one and timing.ts an empty interval; a place is
\* drained only by an input arc ('all'/'at-least') that also requires it.
ASSUME NetAssumption ==
  /\ IsFiniteSet(Places)
  /\ NumTransitions \in Nat
  /\ Required \in [Transitions -> [Places -> Nat]]
  /\ TakesAll \in [Transitions -> SUBSET Places]
  /\ \A t \in Transitions : \A p \in TakesAll[t] : Required[t][p] > 0
  /\ Reads \in [Transitions -> SUBSET Places]
  /\ Inhibitors \in [Transitions -> SUBSET Places]
  /\ Resets \in [Transitions -> SUBSET Places]
  /\ Terminals \in SUBSET Places
  /\ Priority \in [Transitions -> Int]
  /\ Timing \in [Transitions -> [type : TimingTypes, lo : Nat, hi : Nat]]
  /\ \A t \in Transitions : Timing[t].lo <= Timing[t].hi

-----------------------------------------------------------------------------
(* timing.ts: what the runtime asks of an interval.                        *)

Earliest(t) == IF Timing[t].type \in {"immediate", "deadline"} THEN 0 ELSE Timing[t].lo

HasDeadline(t) == Timing[t].type \in {"deadline", "window", "exact"}

\* Only asked of a transition with a deadline: MAX_DURATION_MS is never compared.
Latest(t) == Timing[t].hi

\* Reaped when late: exact() is enforced softly (TIME-006).
HardDeadline(t) == HasDeadline(t) /\ Timing[t].type # "exact"

-----------------------------------------------------------------------------
(* The masks and indices the constructor computes.                         *)

InputPlaces(t) == {p \in Places : Required[t][p] > 0}

NeedsMask(t) == InputPlaces(t) \cup Reads[t]

ConsumptionPlaces(t) == InputPlaces(t) \cup Resets[t]

\* Mutant: the reverse index forgets inhibitor arcs.
AffectedWithoutInhibitors(p) ==
  {t \in Transitions : p \in NeedsMask(t) \cup Resets[t]}

AffectedTransitions(p) ==
  {t \in Transitions : p \in NeedsMask(t) \cup Inhibitors[t] \cup Resets[t]}

\* Built only when some input is not 'one'; it then covers every input, and an
\* input of kind 'one' asks for nothing its presence bit has not shown.
CardinalityCheck(t) == {p \in InputPlaces(t) : Required[t][p] > 1}

\* The two-phase presence and inhibitor test against a presence bitmap.
CanEnableBitmap(t, bitmap) ==
  /\ NeedsMask(t) \subseteq bitmap
  /\ Inhibitors[t] \cap bitmap = {}

-----------------------------------------------------------------------------
(* Consumption: how many tokens one firing takes from a place.  The code    *)
(* removes one token at a time and stops early on an empty queue, so a      *)
(* presence bit that lies would make a firing take less than it requires.   *)

ConsumptionCount(t, p, available) ==
  IF p \in Resets[t] \cup TakesAll[t] \/ available < Required[t][p]
    THEN available
    ELSE Required[t][p]

\* The meaning of the arcs, as the reference the runtime is compared with: it
\* reads the token counts only, never a bitmap, a flag or a threshold.
ArcsSatisfied(t, m) ==
  /\ \A p \in Places : m[p] >= Required[t][p]
  /\ \A p \in Reads[t] : m[p] > 0
  /\ \A p \in Inhibitors[t] : m[p] = 0

-----------------------------------------------------------------------------
(* restartThresholds(): below this count a firing may have disabled another *)
(* transition through the place (TIME-012).                                 *)

Requirers(p) == {t \in Transitions : p \in NeedsMask(t)}

Requirement(t, p) == IF Required[t][p] > 0 THEN Required[t][p] ELSE 1

\* Mutant: every place counts as having a single requirer.
NoRestartThreshold(p) == 0

RestartThreshold(p) ==
  IF Cardinality(Requirers(p)) < 2 /\ \A t \in Transitions : p \notin Resets[t]
    THEN 0
    ELSE CHOOSE n \in {0} \cup {Requirement(t, p) : t \in Requirers(p)} :
           \A t \in Requirers(p) : Requirement(t, p) <= n
=============================================================================
