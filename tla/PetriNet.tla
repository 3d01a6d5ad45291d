------------------------------ MODULE PetriNet ------------------------------
(***************************************************************************)
(* What every executor of this repository promises: the token game of the  *)
(* net it was given, with asynchronous firings.  No bitmap, no dirty set,  *)
(* no queue, no phase: a transition starts only when its arcs are          *)
(* satisfied by the tokens themselves, takes all its tokens at once, and   *)
(* puts all its outputs down at once; nothing moves once a terminal place  *)
(* is marked.  Only host code that throws in the middle of a firing or of  *)
(* a completion leaves less: what it had taken is lost, what it had not    *)
(* yet put down never comes.                                               *)
(***************************************************************************)
EXTENDS CompiledNet

CONSTANTS
  InitialMarkings, EnvPlaces, Productions,
  Faulty,      \* transitions whose firing and completion run host code that may throw
  Correlated   \* Correlated[t]: the inputs a join picks its tokens from by name

VARIABLES
  m,      \* tokens per place
  busy,   \* transitions with a firing under way: at most one each
  held    \* held[t]: the tokens that firing has taken

netVars == <<m, busy, held>>

Nothing == [p \in Places |-> 0]

Plus(a, b) == [p \in Places |-> a[p] + b[p]]

Minus(a, b) == [p \in Places |-> a[p] - b[p]]

Running == \A p \in Terminals : m[p] = 0

\* t may take n of the tokens of p: of a correlated place that is to give all, all of a name.
MayTake(t, p, n) ==
  IF p \in (Correlated[t] \cap TakesAll[t]) \ Resets[t] THEN Required[t][p] <= n /\ n <= m[p]
  ELSE n = IF p \in ConsumptionPlaces(t) THEN ConsumptionCount(t, p, m[p]) ELSE 0

NetInit ==
  /\ m \in InitialMarkings
  /\ busy = {}
  /\ held = [t \in Transitions |-> Nothing]

Start(t) ==
  /\ Running
  /\ t \notin busy
  /\ ArcsSatisfied(t, m)
  /\ m' \in [Places -> Nat]
  /\ \A p \in Places : MayTake(t, p, m[p] - m'[p])
  /\ busy' = busy \cup {t}
  /\ held' = [held EXCEPT ![t] = Minus(m, m')]

\* The firing is over, its tokens are gone.
Finish(t) ==
  /\ t \in busy
  /\ busy' = busy \ {t}
  /\ held' = [held EXCEPT ![t] = Nothing]

Complete(t) == Running /\ Finish(t) /\ \E bag \in Productions[t] : m' = Plus(m, bag)

\* A failed action loses what the firing took.
Fail(t) == Finish(t) /\ m' = m

\* The outputs come to an end before the last of them: the place got no more than the bag has.
CutShort(t) ==
  /\ Running
  /\ t \in Faulty
  /\ Finish(t)
  /\ m' \in [Places -> Nat]
  /\ \E bag \in Productions[t] : \A p \in Places : m[p] <= m'[p] /\ m'[p] <= m[p] + bag[p]

\* A firing that throws while taking its tokens leaves what it has not taken: of an input any
\* part, for its tokens go one by one, of a place it only resets all or nothing.
GivenBack(t, p, n) ==
  \/ n = 0
  \/ n = held[t][p]
  \/ p \in InputPlaces(t) /\ 0 <= n /\ n <= held[t][p]

Abort(t) ==
  /\ t \in Faulty
  /\ Finish(t)
  /\ m' \in [Places -> Nat]
  /\ \A p \in Places : GivenBack(t, p, m'[p] - m[p])

Arrive(p) ==
  /\ Running
  /\ m' = [m EXCEPT ![p] = @ + 1]
  /\ UNCHANGED <<busy, held>>

NetNext ==
  \/ \E t \in Transitions : Start(t) \/ Complete(t) \/ CutShort(t) \/ Fail(t) \/ Abort(t)
  \/ \E p \in EnvPlaces : Arrive(p)

NetSpec == NetInit /\ [][NetNext]_netVars
=============================================================================
