------------------------------- MODULE Firing -------------------------------
(***************************************************************************)
(* One firing from the start of its action to its deposit: the context the *)
(* action writes to (core/transition-context.ts, core/token-output.ts),    *)
(* the race of the action against its timeout and the settlement in        *)
(* processCompletedTransitions() of runtime/bitmap-net-executor.ts.        *)
(*                                                                         *)
(* The executor cannot stop an action: it may write at any time, after its *)
(* timeout or after its promise has settled too.  Tokens are counted per   *)
(* place; the transition is built from a specification first.              *)
(***************************************************************************)
EXTENDS OutSpec

CONSTANTS
  Consumed,    \* Consumed[p]: the tokens the firing has taken from input p
  MaxWrites    \* bound: writes of the action

ASSUME FiringAssumption == MaxWrites \in Nat /\ \A p \in DOMAIN Consumed : Consumed[p] \in Nat

VARIABLES
  spec,        \* t.outputSpec
  phase,       \* "new", "rejected" (not built), "running", "queued", "done", "failed"
  written,     \* tokens in the context's writeTarget
  detached,    \* writeTarget.detached
  harvest,     \* the collector that replaces it on a timeout
  action,      \* "running", "resolved", "error", or "falsy": rejected with such a value
  outcome,     \* "pending", "action" or "timeout": who won the race
  deposited,   \* what the firing has put into the marking
  writes       \* how often the action has written

vars == <<spec, phase, written, detached, harvest, action, outcome, deposited, writes>>

Outputs == AllPlaces[spec]

NoTokens == [p \in Outputs |-> 0]

Produced(bag) == {p \in Outputs : bag[p] > 0}

-----------------------------------------------------------------------------
\* The specifications a transition can be built with.
Built == {s \in Specs : Builds(s, DOMAIN Consumed)}

\* What validateOutSpec() accepts of each.
Accepted == [s \in Built |-> {produced \in SUBSET AllPlaces[s] : Conforms(s, produced)}]

Init ==
  /\ spec \in Specs
  /\ phase = "new"
  /\ written = NoTokens
  /\ detached = FALSE
  /\ harvest = NoTokens
  /\ action = "running"
  /\ outcome = "pending"
  /\ deposited = NoTokens
  /\ writes = 0

\* build() and the start of a firing.
Build ==
  /\ phase = "new"
  /\ phase' = IF spec \in Built THEN "running" ELSE "rejected"
  /\ UNCHANGED <<spec, written, detached, harvest, action, outcome, deposited, writes>>

\* output() of an action, whatever has become of its firing: dropped once detached.
Write(p) ==
  /\ phase \notin {"new", "rejected"}
  /\ writes < MaxWrites
  /\ writes' = writes + 1
  /\ written' = IF detached THEN written ELSE [written EXCEPT ![p] = @ + 1]
  /\ UNCHANGED <<spec, phase, detached, harvest, action, outcome, deposited>>

\* The action's promise settles; it ends the firing unless the timeout already has.
ActionSettles(how) ==
  /\ phase \notin {"new", "rejected"}
  /\ action = "running"
  /\ action' = how
  /\ IF outcome = "pending"
       THEN outcome' = "action" /\ phase' = "queued"
       ELSE UNCHANGED <<outcome, phase>>
  /\ UNCHANGED <<spec, written, detached, harvest, deposited, writes>>

\* detachForTimeout()
Detach == detached' = TRUE

\* The timeout wins: sever first, then produce the Timeout's child.
TimerFires ==
  /\ phase = "running"
  /\ \E t \in Timeouts(spec) :
       harvest' = [p \in Outputs |-> TimeoutOutput(t.child, Consumed, p)]
  /\ Detach
  /\ outcome' = "timeout"
  /\ phase' = "queued"
  /\ UNCHANGED <<spec, written, action, deposited, writes>>

\* Mutant: the timeout branch is merged with what the action had written.
Merged == [p \in Outputs |-> written[p] + harvest[p]]

\* TransitionContext.rawOutput()
RawOutput == IF detached THEN harvest ELSE written

\* processCompletedTransitions(): only a truthy error counts as one.
Complete ==
  /\ phase = "queued"
  /\ IF ~(outcome = "action" /\ action = "error") /\ Produced(RawOutput) \in Accepted[spec]
       THEN phase' = "done" /\ deposited' = RawOutput
       ELSE phase' = "failed" /\ UNCHANGED deposited
  /\ UNCHANGED <<spec, written, detached, harvest, action, outcome, writes>>

Settles == \E how \in {"resolved", "error", "falsy"} : ActionSettles(how)

Next ==
  \/ Build
  \/ \E p \in Outputs : Write(p)
  \/ Settles
  \/ TimerFires
  \/ Complete

\* The loop processes a queued completion and an armed timer fires; the action owes
\* nothing, it may hang for ever.
FairSpec == Init /\ [][Next]_vars /\ WF_vars(Build) /\ WF_vars(TimerFires) /\ WF_vars(Complete)
-----------------------------------------------------------------------------
(* Properties.                                                             *)

\* IO-012: ambiguousBranches() finds, without enumerating, the pair of branches that
\* enumerating and comparing them in order would find.
AmbiguityExact ==
  phase = "new" /\ ~DuplicateInBranch[spec] =>
    LET bs == EnumerateBranches[spec]
        js == {j \in DOMAIN bs : \E i \in DOMAIN bs : i < j /\ bs[i] = bs[j]}
    IN AmbiguousBranches(spec) =
         IF js = {} THEN <<>>
         ELSE <<Min({i \in DOMAIN bs : bs[i] = bs[Min(js)]}) - 1, Min(js) - 1>>

\* An assignment picks one child at each XOR it reaches: the picks, in order, and the
\* places it claims.
Assignments[out \in Specs] ==
  LET cs == Children(out)
      both(A, c) == {[picks |-> a.picks \o b.picks, claim |-> a.claim \cup b.claim] :
                       a \in A, b \in Assignments[c]}
  IN CASE IsLeaf(out) -> {[picks |-> <<>>, claim |-> {LeafName(out)}]}
       [] out.type = "xor" ->
            UNION {{[picks |-> <<k>> \o a.picks, claim |-> a.claim] : a \in Assignments[cs[k]]} :
                     k \in DOMAIN cs}
       [] OTHER -> FoldLeft(both, {[picks |-> <<>>, claim |-> {}]}, cs)

\* IO-015: validation accepts what was produced exactly when one assignment, and only
\* one, claims that very set - with the pruning and the collapsed claims of the code,
\* and for specifications no build accepts too.
ValidationExact ==
  phase = "new" => \A produced \in SUBSET Outputs :
    Conforms(spec, produced) <=>
      Cardinality({a \in Assignments[spec] : a.claim = produced}) = 1

\* IO-013, IO-014: a deposit is the timeout's or the action's, never a mixture; a
\* timed-out firing puts down every token its forwards owe.
OutcomesDoNotMix ==
  phase = "done" =>
    IF outcome = "timeout"
      THEN \A t \in Timeouts(spec) : \A p \in Outputs :
             deposited[p] = IF p \notin AllPlaces[t.child] THEN 0
                            ELSE IF \E f \in ForwardInputs(t.child) : f.to = p
                              THEN Consumed[(CHOOSE f \in ForwardInputs(t.child) : f.to = p).from]
                              ELSE 1
      ELSE \A p \in Outputs : deposited[p] <= written[p]

\* A firing with a Timeout ends, even if its action hangs.
TimeoutEndsFiring ==
  phase = "running" /\ CountTimeouts[spec] > 0 ~> phase \in {"done", "failed"}
=============================================================================
