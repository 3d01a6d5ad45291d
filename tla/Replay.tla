------------------------------- MODULE Replay -------------------------------
(***************************************************************************)
(* The event-sourcing half of the debug UI: what one net event does to the *)
(* state on screen, the checkpoints of a replay, seeking, breakpoints, the *)
(* event log's filter and the search cursor.  Pure operators; DebugUI uses *)
(* them in its actions.                                                    *)
(*                                                                         *)
(* An event is [type, name, tok] (name is the place or the transition), a  *)
(* marking snapshot [type, marking] with the tokens of the places that     *)
(* hold any.  The view a fold builds is [marking, enabled, inFlight].      *)
(***************************************************************************)
EXTENDS Integers, Sequences, FiniteSets, FiniteSetsExt, SequencesExt

CONSTANTS
  NetPlaces,           \* places of the net under debug
  checkpointInterval   \* replay events between two checkpoints

ASSUME IntervalPositive == checkpointInterval \in Nat \ {0}

NoToken == "none"

emptyMarking == [p \in NetPlaces |-> <<>>]

EmptyView == [marking |-> emptyMarking, enabled |-> {}, inFlight |-> {}]

Ended == {"TransitionCompleted", "TransitionFailed", "TransitionTimedOut", "ActionTimedOut"}

\* The two transition sets after e: the same switch arms in both folds.
TransitionSets(v, e) ==
  CASE e.type = "TransitionEnabled" -> [v EXCEPT !.enabled = @ \cup {e.name}]
    [] e.type = "TransitionStarted" ->
         [v EXCEPT !.enabled = @ \ {e.name}, !.inFlight = @ \cup {e.name}]
    [] e.type \in Ended -> [v EXCEPT !.inFlight = @ \ {e.name}]
    [] OTHER -> v

\* The marking a snapshot stands for: a place it does not list is empty.
SnapshotMarking(e) ==
  [p \in NetPlaces |-> IF p \in DOMAIN e.marking THEN e.marking[p] ELSE <<>>]

\* A TokenAdded without its token is skipped.
applyEventToState(v, e) ==
  CASE e.type = "TokenAdded" ->
         IF e.tok = NoToken THEN v ELSE [v EXCEPT !.marking[e.name] = Append(@, e.tok)]
    [] e.type = "TokenRemoved" ->
         [v EXCEPT !.marking[e.name] = IF @ = <<>> THEN @ ELSE Tail(@)]
    [] e.type = "MarkingSnapshot" -> [v EXCEPT !.marking = SnapshotMarking(e)]
    [] OTHER -> TransitionSets(v, e)

\* The fold of the checkpoints pushes whatever the event carries.  It works in place: what that
\* does to the snapshot it took its arrays from is Rewritten below.
applyEventToTemp(v, e) ==
  CASE e.type = "TokenAdded" -> [v EXCEPT !.marking[e.name] = Append(@, e.tok)]
    [] e.type = "TokenRemoved" ->
         [v EXCEPT !.marking[e.name] = IF @ = <<>> THEN @ ELSE Tail(@)]
    [] e.type = "MarkingSnapshot" -> [v EXCEPT !.marking = SnapshotMarking(e)]
    [] OTHER -> TransitionSets(v, e)

\* The reference the properties compare with: the first n events, one by one.
ViewAfter(events, n) == FoldLeft(applyEventToState, EmptyView, SubSeq(events, 1, n))

-----------------------------------------------------------------------------
Snapshots(events, first, last) == {i \in first..last : events[i].type = "MarkingSnapshot"}

\* events after the fold of the checkpoints went from start to upto.  Its marking takes a
\* snapshot's own arrays, and every push and shift up to the next snapshot goes into them.
Rewritten(events, start, upto) ==
  LET lastOf(i) == LET next == Snapshots(events, i + 1, upto)
                   IN IF next = {} THEN upto ELSE Min(next) - 1
      after(i)  == FoldLeft(applyEventToTemp, EmptyView, SubSeq(events, i, lastOf(i))).marking
  IN [i \in DOMAIN events |->
        IF i \in Snapshots(events, start + 1, upto)
        THEN [events[i] EXCEPT !.marking = [p \in DOMAIN @ |-> after(i)[p]]]
        ELSE events[i]]

\* The places at which a snapshot of before is not what it was.
RewrittenPlaces(before, after) ==
  {p \in NetPlaces : \E i \in Snapshots(before, 1, Len(before)) :
                       p \in DOMAIN before[i].marking /\ before[i].marking[p] # after[i].marking[p]}

Checkpoint(seed, events, start, i) ==
  [index |-> i, view |-> FoldLeft(applyEventToTemp, seed, SubSeq(events, start + 1, i))]

\* Mutant: the fold resumes after the last checkpoint, from an empty state.
BuildCheckpointsMutant(checkpoints, events, fromIndex) ==
  LET start == IF checkpoints # <<>> THEN Last(checkpoints).index ELSE 0
      at == SetToSortSeq({i \in (start + 1)..Len(events) : i % checkpointInterval = 0}, <)
  IN checkpoints \o [k \in 1..Len(at) |-> Checkpoint(EmptyView, events, start, at[k])]

Resumes(checkpoints, fromIndex) == fromIndex > 0 /\ checkpoints # <<>>

\* Where the fold of the checkpoints starts.
FoldStart(checkpoints, fromIndex) ==
  IF Resumes(checkpoints, fromIndex) THEN Last(checkpoints).index ELSE 0

\* The checkpoints of the events before fromIndex are kept, and the fold resumes at (a clone of)
\* the last one.  A checkpoint is a clone too.
buildCheckpoints(checkpoints, events, fromIndex) ==
  LET start == FoldStart(checkpoints, fromIndex)
      seed  == IF Resumes(checkpoints, fromIndex) THEN Last(checkpoints).view ELSE EmptyView
      due   == {i \in (start + 1)..Len(events) : i % checkpointInterval = 0}
      at    == SetToSortSeq(due, <)
  IN checkpoints \o [k \in 1..Len(at) |-> Checkpoint(seed, events, start, at[k])]

\* The nearest checkpoint at or before the target, then the events between; the view stops at
\* the last event there is, the index it is filed under (DebugUI's eventIndex) does not.
seekToIndex(checkpoints, events, target) ==
  LET k     == SelectLastInSeq(checkpoints, LAMBDA c : c.index <= target)
      start == IF k = 0 THEN 0 ELSE checkpoints[k].index
      seed  == IF k = 0 THEN EmptyView ELSE checkpoints[k].view
      end   == IF target < Len(events) THEN target ELSE Len(events)
  IN FoldLeft(applyEventToState, seed, SubSeq(events, start + 1, end))

-----------------------------------------------------------------------------
BreakpointType ==
  [TRANSITION_ENABLED |-> "TransitionEnabled", TRANSITION_START |-> "TransitionStarted",
   TRANSITION_COMPLETE |-> "TransitionCompleted", TRANSITION_FAIL |-> "TransitionFailed",
   TOKEN_ADDED |-> "TokenAdded", TOKEN_REMOVED |-> "TokenRemoved"]

AnyTarget == "any"

\* A breakpoint is [id, type, target, enabled]; an instance breakpoint's target is a name prefix,
\* so it holds the set of the instance's transitions here.
matchesBreakpoint(bp, e) ==
  IF bp.type = "INSTANCE_TRANSITION"
  THEN e.type = "TransitionStarted" /\ e.name \in bp.members
  ELSE /\ e.type = BreakpointType[bp.type]
       /\ bp.target = AnyTarget \/ bp.target = e.name

checkClientBreakpoints(e, list) ==
  \E i \in DOMAIN list : list[i].enabled /\ matchesBreakpoint(list[i], e)

-----------------------------------------------------------------------------
\* A filter is [types, excludeTypes], each empty when it does not restrict.
matchesFilter(e, f) ==
  /\ f.types # {} => e.type \in f.types
  /\ e.type \notin f.excludeTypes

NoFilter == [types |-> {}, excludeTypes |-> {}]

\* The rows of the event log: the events already played that pass the filter.
buildFilteredIndices(events, f, eventIndex) ==
  {i \in 1..Len(events) : i <= eventIndex /\ matchesFilter(events[i], f)}

NoTerm == "none"
EmptySearch == [term |-> NoTerm, matches |-> <<>>, current |-> 0]

\* Matches in order; the cursor is 1-based here, 0 where the code has -1.
computeSearchMatches(term, events, eventIndex) ==
  LET hits == {i \in 1..Len(events) : i <= eventIndex /\ events[i].type = term}
  IN IF term = NoTerm THEN EmptySearch
     ELSE [term |-> term, matches |-> SetToSortSeq(hits, <), current |-> IF hits = {} THEN 0 ELSE 1]

nextSearchMatch(s) ==
  IF s.matches = <<>> THEN s ELSE [s EXCEPT !.current = (@ % Len(s.matches)) + 1]

prevSearchMatch(s) ==
  IF s.matches = <<>> THEN s
  ELSE [s EXCEPT !.current = ((@ - 2 + Len(s.matches)) % Len(s.matches)) + 1]
=============================================================================
