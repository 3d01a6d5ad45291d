---------------------------- MODULE DebugServerMC ---------------------------
(***************************************************************************)
(* Instances of DebugServer: two clients, three session ids over two       *)
(* places in the registry, stores that keep four events, a snapshot of    *)
(* the marking cache every second event.                                   *)
(***************************************************************************)
EXTENDS DebugServer, TLC

MCNetPlaces == {"in", "out"}

Run(x, y, t) ==
  <<[type |-> "MarkingSnapshot", marking |-> [in |-> <<x>>]],
    [type |-> "TransitionStarted", name |-> t],
    [type |-> "TokenRemoved", name |-> "in", tok |-> x],
    [type |-> "TokenAdded", name |-> "out", tok |-> y],
    [type |-> "TransitionCompleted", name |-> t]>>
MCScripts == <<Run("x", "y", "t"), Run("u", "v", "r")>>

Unrestricted ==
  [types |-> {}, excludeTypes |-> {}, transitions |-> {}, excludeTransitions |-> {},
   places |-> {}, excludePlaces |-> {}]
MCFilters ==
  {Unrestricted, [Unrestricted EXCEPT !.transitions = {"t"}], [Unrestricted EXCEPT !.excludePlaces = {"in"}]}

MCBreakpoints ==
  {[id |-> "bp", type |-> "TOKEN_REMOVED", target |-> AnyTarget, enabled |-> TRUE, members |-> {}]}

MCArchiveStarts == [a |-> -2, b |-> -1, c |-> 0]

Kinds == {"register", "append", "command", "client", "archive", "total"}
Spends(f) == [k \in Kinds |-> IF k \in DOMAIN f THEN f[k] ELSE 0]

\* The registry alone; a session followed while it grows past its capacity, clients coming and
\* going; archives.
MCBudgets ==
  {Spends([total |-> 5, register |-> 5]),
   Spends([total |-> 8, register |-> 1, append |-> 5, command |-> 2]),
   Spends([total |-> 5, register |-> 1, append |-> 2, command |-> 3]),
   Spends([total |-> 5, register |-> 1, append |-> 2, command |-> 2, client |-> 2]),
   Spends([total |-> 4, register |-> 2, append |-> 1, command |-> 2, archive |-> 1])}
=============================================================================
