----------------------------- MODULE DebugUIMC ------------------------------
(***************************************************************************)
(* Instances of DebugUI: two sessions of a one-transition net, "a" longer  *)
(* than two batches and with a checkpoint inside the second.               *)
(***************************************************************************)
EXTENDS DebugUI, TLC

MCNetPlaces == {"in", "out"}

Added(p, tok) == [type |-> "TokenAdded", name |-> p, tok |-> tok]
Removed(p, tok) == [type |-> "TokenRemoved", name |-> p, tok |-> tok]
Event(type, t) == [type |-> type, name |-> t]
Snapshot(tok) == [type |-> "MarkingSnapshot", marking |-> [in |-> <<tok>>]]

MCHistory ==
  [a |-> <<Snapshot("a1"), Event("TransitionStarted", "a_t"), Removed("in", "a1"),
           Added("out", "a2"), Event("TransitionCompleted", "a_t")>>,
   b |-> <<Snapshot("b1"), Event("TransitionStarted", "b_t")>>]

MCBreakpoints ==
  {[id |-> "bp1", type |-> "TOKEN_REMOVED", target |-> AnyTarget, enabled |-> TRUE, members |-> {}],
   [id |-> "bp2", type |-> "INSTANCE_TRANSITION", target |-> AnyTarget, enabled |-> TRUE,
    members |-> {"a_t"}]}

MCStray ==
  {[type |-> "unknown"], Subscribed("a", "live"), [type |-> "filterApplied"],
   [type |-> "breakpointHit"], [type |-> "breakpointList", list |-> <<>>],
   [type |-> "breakpointSet"], [type |-> "breakpointCleared"], [type |-> "error"]}

Kinds ==
  {"fault", "close", "stray", "play", "move", "breakpoint", "search", "panel", "select", "link", "total"}
Spends(f) == [k \in Kinds |-> IF k \in DOMAIN f THEN f[k] ELSE 0]

\* A change of session while the connection is lost or an action throws; a frame nobody asked for;
\* a panel used, a search; a replay played, moved and stopped, and one with a breakpoint.
MCBudgets ==
  {Spends([total |-> 3, select |-> 2, close |-> 1]),
   Spends([total |-> 3, select |-> 2, fault |-> 1]),
   Spends([total |-> 2, select |-> 1, stray |-> 1]),
   Spends([total |-> 1, select |-> 1, link |-> 1]),
   Spends([total |-> 2, select |-> 1, panel |-> 1]),
   Spends([total |-> 3, select |-> 1, search |-> 2]),
   Spends([total |-> 3, select |-> 1, play |-> 1, fault |-> 1, move |-> 1]),
   Spends([total |-> 4, select |-> 1, play |-> 2, breakpoint |-> 1]),
   Spends([total |-> 4, select |-> 1, play |-> 2, move |-> 1])}
=============================================================================
