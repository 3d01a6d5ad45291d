--------------------------- MODULE BitmapExecutor ---------------------------
(***************************************************************************)
(* The orchestrator of src/typescript/src/runtime/bitmap-net-executor.ts.  *)
(*                                                                         *)
(* One JavaScript thread runs the loop of executeLoop(); everything else   *)
(* runs only where the loop lets it:                                       *)
(*   - an action's promise settles, a timer or the run budget expires, and *)
(*     host code runs, only while the loop is suspended in awaitWork()     *)
(*     (pc "flush" and "parked"), before run() and after it has ended;     *)
(*   - host code also runs synchronously INSIDE the loop: every            *)
(*     EventStore.append and the synchronous prefix of every action.  A    *)
(*     step that hands control to the host sets callout, and only then may *)
(*     inject(), drain() or close() come next.                             *)
(* Each action below is one stretch of the loop between two such points.   *)
(***************************************************************************)
EXTENDS CompiledNet, Sequences

CONSTANTS
  InitialMarkings,  \* markings the executor may be constructed with
  EnvPlaces,        \* options.environmentPlaces
  Productions,      \* Productions[t]: the token bags an action of t may output
  MayFail,          \* transitions whose action may reject or break its output spec
  MayThrow,         \* transitions that may meet a throw of the clock or the context provider
  MayReject,        \* environment places whose deposit may meet a throw of the clock
  Tolerance,        \* options.deadlineToleranceMs
  BudgetPolicies,   \* policies of a run(timeoutMs, ..) budget; {} for no budget
  MaxInject,        \* bound: external events the host injects
  MaxNow            \* bound: how far the firing clock moves of its own accord

ASSUME ExecutorAssumption ==
  /\ InitialMarkings \subseteq [Places -> Nat]
  /\ EnvPlaces \subseteq Places
  /\ Productions \in [Transitions -> SUBSET [Places -> Nat]]
  /\ MayFail \subseteq Transitions
  /\ MayThrow \subseteq Transitions
  /\ MayReject \subseteq EnvPlaces
  /\ Tolerance \in Nat
  /\ BudgetPolicies \subseteq {"abandon", "close"}
  /\ MaxInject \in Nat
  /\ MaxNow \in Nat

VARIABLES
  pc,               \* where the loop is
  callout,          \* the last step handed control to host code
  marking,          \* tokens per place
  bitmap,           \* markingBitmap, as the set of places whose bit is set
  dirty,            \* dirtySet
  enabled,          \* enabledFlags
  enabledCount,     \* enabledTransitionCount
  enabledAt,        \* enabledAtMs; Never stands for -Infinity
  restartPending,   \* restartPendingWords
  flight,           \* inFlight: Idle, or what the action of the flight has done
  output,           \* flight.context.rawOutput(): tokens still to be deposited
  consumed,         \* flight.consumed: tokens the firing has taken
  completionQueue,
  externalQueue,    \* places of the queued external events
  externalCursor,
  prefix,           \* len of processExternalEvents(): the prefix it walks
  ready,            \* readyBuffer: what this cycle still has to fire
  firing,           \* the transition being fired or completed
  arcs,             \* reset places fireTransition() has yet to empty
  produced,         \* outputs of the completion at hand that have landed
  unsettled,
  terminalReached,
  draining,
  closed,
  reason,           \* TerminationReason
  wakeUpPending,    \* the latch
  wakeUpResolve,    \* a waiter is installed
  timer,            \* when the armed timer is due; Never if none is
  woken,            \* the race of awaitWork() has settled
  now,              \* the firing clock
  cycleNow,         \* cycleNowMs
  gap,              \* history: disabled since its clock was last started
  accepted,         \* history: external events taken into the queue
  admitted,         \* history: ... whose promise was resolved with true
  refused           \* history: ... whose promise was resolved with false, or rejected

tokens  == <<marking, bitmap>>
sched   == <<dirty, enabled, enabledCount, enabledAt, restartPending, gap>>
flights == <<flight, output, consumed, completionQueue>>
ext     == <<externalQueue, externalCursor, prefix, accepted, admitted, refused>>
pass    == <<ready, firing, arcs, produced, unsettled>>
life    == <<terminalReached, draining, closed, reason>>
wait    == <<wakeUpPending, wakeUpResolve, timer, woken>>
clock   == <<now, cycleNow>>
vars    == <<pc, callout, tokens, sched, flights, ext, pass, life, wait, clock>>

Never == -1
NoTransition == 0
Empty == [p \in Places |-> 0]

PcValues == {"new", "completions", "deposit", "external", "admit", "update",
             "deadlines", "decide", "fire", "consume", "start", "await",
             "flush", "parked", "exit", "ended"}

\* Where host code that is not called by the loop itself can run.
Yielded == pc \in {"new", "flush", "parked", "ended"}

InFlight == {t \in Transitions : flight[t] # "idle"}

Marked(m) == {p \in Places : m[p] > 0}

\* canEnable(): presence and inhibitor bits, then token counts.
CanEnable(t, bits, m) ==
  /\ CanEnableBitmap(t, bits)
  /\ \A p \in CardinalityCheck(t) : m[p] >= Required[t][p]

-----------------------------------------------------------------------------
Init ==
  /\ pc = "new"
  /\ callout = FALSE
  /\ marking \in InitialMarkings
  /\ bitmap = {}
  /\ dirty = {}
  /\ enabled = {}
  /\ enabledCount = 0
  /\ enabledAt = [t \in Transitions |-> Never]
  /\ restartPending = {}
  /\ flight = [t \in Transitions |-> "idle"]
  /\ output = [t \in Transitions |-> Empty]
  /\ consumed = [t \in Transitions |-> Empty]
  /\ completionQueue = <<>>
  /\ externalQueue = <<>>
  /\ externalCursor = 0
  /\ prefix = 0
  /\ ready = {}
  /\ firing = NoTransition
  /\ arcs = {}
  /\ produced = Empty
  /\ unsettled = FALSE
  /\ terminalReached = FALSE
  /\ draining = FALSE
  /\ closed = FALSE
  /\ reason = "running"
  /\ wakeUpPending = FALSE
  /\ wakeUpResolve = FALSE
  /\ timer = Never
  /\ woken = FALSE
  /\ now = 0
  /\ cycleNow = 0
  /\ gap = {}
  /\ accepted = 0
  /\ admitted = 0
  /\ refused = 0

\* run(): initializeMarkingBitmap(), markAllDirty(), checkInitialTerminals().
Run ==
  /\ pc = "new"
  /\ bitmap' = Marked(marking)
  /\ dirty' = Transitions
  /\ terminalReached' = (Terminals \cap Marked(marking) # {})
  /\ pc' = IF terminalReached' THEN "exit" ELSE "completions"
  /\ callout' = TRUE
  /\ UNCHANGED <<marking, enabled, enabledCount, enabledAt, restartPending, gap,
                 draining, closed, reason, flights, ext, pass, wait, clock>>

-----------------------------------------------------------------------------
(* Deposits, shared by completions and external events.                    *)

\* addToken(), setBit(), markDirty() and the terminal latch.
AddToken(p) ==
  /\ marking' = [marking EXCEPT ![p] = @ + 1]
  /\ bitmap' = bitmap \cup {p}
  /\ terminalReached' = (terminalReached \/ p \in Terminals)
  /\ gap' = gap \cup {u \in enabled : ~ArcsSatisfied(u, marking')}

-----------------------------------------------------------------------------
(* processCompletedTransitions().  The queue cannot grow during the walk, so *)
(* taking its head stands for advancing the index.                          *)

\* The flight is unregistered; a rejected action or an output-spec violation
\* loses the consumed tokens and only re-evaluates the transition.
CompleteFailed ==
  /\ pc = "completions"
  /\ completionQueue # <<>>
  /\ LET t == Head(completionQueue) IN
       /\ flight[t] = "failed"
       /\ flight' = [flight EXCEPT ![t] = "idle"]
       /\ consumed' = [consumed EXCEPT ![t] = Empty]
       /\ dirty' = dirty \cup {t}
  /\ completionQueue' = Tail(completionQueue)
  /\ callout' = TRUE
  /\ UNCHANGED <<pc, tokens, enabled, enabledCount, enabledAt, restartPending, gap,
                 output, ext, pass, life, wait, clock>>

CompleteOk ==
  /\ pc = "completions"
  /\ completionQueue # <<>>
  /\ LET t == Head(completionQueue) IN
       /\ flight[t] = "done"
       /\ flight' = [flight EXCEPT ![t] = "idle"]
       /\ firing' = t
  /\ completionQueue' = Tail(completionQueue)
  /\ unsettled' = TRUE
  /\ pc' = "deposit"
  /\ callout' = TRUE
  /\ UNCHANGED <<tokens, sched, output, consumed, ext, ready, arcs, produced, life, wait,
                 clock>>

\* One output entry.  The order of the entries is the action's own choice.
Deposit ==
  /\ pc = "deposit"
  /\ \E p \in Places :
       /\ output[firing][p] > 0
       /\ output' = [output EXCEPT ![firing][p] = @ - 1]
       /\ produced' = [produced EXCEPT ![p] = @ + 1]
       /\ AddToken(p)
       /\ dirty' = dirty \cup AffectedTransitions(p)
  /\ callout' = TRUE
  /\ UNCHANGED <<pc, enabled, enabledCount, enabledAt, restartPending, flight, consumed,
                 completionQueue, ext, ready, firing, arcs, unsettled, draining, closed,
                 reason, wait, clock>>

\* Mutant: the terminal latch is not tested between completions.
GoesOn == FALSE

\* The break of the walk.
StopsWalk == terminalReached

\* The completion is over, in the try or in its catch.  Behind a terminal deposit the
\* queue is cleared: the abandoned flights stay registered.
EndCompletion ==
  /\ output' = [output EXCEPT ![firing] = Empty]
  /\ consumed' = [consumed EXCEPT ![firing] = Empty]
  /\ produced' = Empty
  /\ dirty' = dirty \cup {firing}
  /\ firing' = NoTransition
  /\ unsettled' = FALSE
  /\ completionQueue' = IF StopsWalk THEN <<>> ELSE completionQueue
  /\ pc' = IF StopsWalk THEN "exit" ELSE "completions"
  /\ callout' = TRUE
  /\ UNCHANGED <<tokens, enabled, enabledCount, enabledAt, restartPending, gap,
                 flight, ext, ready, arcs, life, wait, clock>>

\* Every output has landed.
SettleCompletion == pc = "deposit" /\ output[firing] = Empty /\ EndCompletion

\* The clock throws when a token that has just landed is reported: the outputs behind it
\* are abandoned.
DepositThrow == pc = "deposit" /\ firing \in MayThrow /\ produced # Empty /\ EndCompletion

CompletionsDone ==
  /\ pc = "completions"
  /\ completionQueue = <<>>
  /\ pc' = "external"
  /\ callout' = FALSE
  /\ UNCHANGED <<tokens, sched, flights, ext, pass, life, wait, clock>>

-----------------------------------------------------------------------------
(* processExternalEvents().                                                *)

SkipExternal ==
  /\ pc = "external"
  /\ externalQueue = <<>> \/ closed
  /\ pc' = "update"
  /\ callout' = FALSE
  /\ UNCHANGED <<tokens, sched, flights, ext, pass, life, wait, clock>>

\* One event of the fixed prefix: cursor, deposit, token-added, resolve(true); when the
\* clock throws for the report, the token has landed and the promise is rejected.
Admit ==
  /\ \/ /\ pc = "external"
        /\ externalQueue # <<>> /\ ~closed
        /\ prefix' = Len(externalQueue)
     \/ /\ pc = "admit"
        /\ externalCursor < prefix /\ ~terminalReached
        /\ prefix' = prefix
  /\ pc' = "admit"
  /\ externalCursor' = externalCursor + 1
  /\ LET p == externalQueue[externalCursor + 1] IN
       /\ AddToken(p)
       /\ dirty' = dirty \cup AffectedTransitions(p)
       /\ \/ admitted' = admitted + 1 /\ refused' = refused
          \/ p \in MayReject /\ refused' = refused + 1 /\ admitted' = admitted
  /\ callout' = TRUE
  /\ UNCHANGED <<enabled, enabledCount, enabledAt, restartPending, flights,
                 externalQueue, accepted, pass, draining, closed, reason, wait, clock>>

\* Mutant: the whole queue is cleared.
NothingLeft == <<>>

\* Only what was deposited leaves the queue: an inject() made by a token-added
\* handler has landed behind the prefix.
Undeposited == SubSeq(externalQueue, externalCursor + 1, Len(externalQueue))

AdmitDone ==
  /\ pc = "admit"
  /\ externalCursor = prefix \/ terminalReached
  /\ externalQueue' = Undeposited
  /\ externalCursor' = 0
  /\ prefix' = 0
  /\ pc' = IF terminalReached THEN "exit" ELSE "update"
  /\ callout' = FALSE
  /\ UNCHANGED <<tokens, sched, flights, accepted, admitted, refused, pass, life, wait, clock>>

-----------------------------------------------------------------------------
(* updateDirtyTransitions().  The scan changes no token and host code called *)
(* from its events cannot change what it reads, so it is one step.           *)

UpdateDirtyTransitions ==
  LET scan      == dirty \ InFlight
      on        == {t \in scan : CanEnable(t, bitmap, marking)}
      off       == (scan \ on) \cap enabled
      started   == on \ enabled
      restarted == on \cap enabled \cap restartPending
  IN
  /\ pc = "update"
  /\ dirty' = {}
  /\ enabled' = (enabled \ off) \cup started
  /\ enabledCount' = enabledCount + Cardinality(started) - Cardinality(off)
  /\ enabledAt' = [t \in Transitions |->
                     IF t \in started \cup restarted THEN now
                     ELSE IF t \in off THEN Never ELSE enabledAt[t]]
  /\ restartPending' = {}
  /\ gap' = gap \ (started \cup restarted \cup off)
  /\ pc' = "deadlines"
  /\ callout' = (started \cup restarted # {})
  /\ UNCHANGED <<tokens, flights, ext, pass, life, wait, clock>>

\* Enabled past its hard deadline and the grace band.
Late ==
  {t \in enabled \ InFlight : HardDeadline(t) /\ now - enabledAt[t] > Latest(t) + Tolerance}

\* The cycle's single clock reading, then enforceDeadlines(): a late transition is
\* switched off, and stays off until something marks it dirty.
EnforceDeadlines ==
  /\ pc = "deadlines"
  /\ cycleNow' = now
  /\ enabled' = enabled \ Late
  /\ enabledCount' = enabledCount - Cardinality(Late)
  /\ enabledAt' = [t \in Transitions |-> IF t \in Late THEN Never ELSE enabledAt[t]]
  /\ gap' = gap \ Late
  /\ pc' = "decide"
  /\ callout' = (Late # {})
  /\ UNCHANGED <<tokens, dirty, restartPending, flights, ext, pass, life, wait, now>>

\* Mutant: quiescence is decided while actions are in flight.
TerminateIgnoringFlights ==
  /\ completionQueue = <<>>
  /\ closed \/ (enabledCount = 0 /\ (EnvPlaces = {} \/ draining))

\* shouldTerminate()
ShouldTerminate ==
  /\ InFlight = {}
  /\ completionQueue = <<>>
  /\ closed \/ (enabledCount = 0 /\ (EnvPlaces = {} \/ draining))

-----------------------------------------------------------------------------
(* fireReadyTransitions().                                                 *)

\* allImmediate && allSamePriority: fireReadyImmediate() instead of the sort.
FastPath ==
  /\ \A t \in Transitions : Timing[t].type = "immediate"
  /\ \A t, u \in Transitions : Priority[t] = Priority[u]

ReadyTransitions(at) ==
  {t \in enabled \ InFlight : FastPath \/ Earliest(t) <= at - enabledAt[t]}

\* Priority descending, enablement time ascending, declaration order.
Precedes(t, u) ==
  IF FastPath \/ (Priority[t] = Priority[u] /\ enabledAt[t] = enabledAt[u])
    THEN t < u
    ELSE IF Priority[t] = Priority[u] THEN enabledAt[t] < enabledAt[u]
                                      ELSE Priority[t] > Priority[u]

Decide ==
  /\ pc = "decide"
  /\ IF ShouldTerminate
       THEN pc' = "exit" /\ ready' = {}
       ELSE pc' = "fire" /\ ready' = ReadyTransitions(cycleNow)
  /\ callout' = FALSE
  /\ UNCHANGED <<tokens, sched, flights, ext, firing, arcs, produced, unsettled, life, wait, clock>>

IsNext(t) ==
  /\ pc = "fire"
  /\ t \in ready
  /\ \A u \in ready \ {t} : Precedes(t, u)

\* enabledFlags, enabledTransitionCount and enabledAtMs move together.
SwitchOff(t) ==
  /\ enabled' = enabled \ {t}
  /\ enabledCount' = enabledCount - 1
  /\ enabledAt' = [enabledAt EXCEPT ![t] = Never]

\* Mutant: the ready list is trusted.
FlagStillSet(t) == t \in enabled

\* The re-check before each firing of the pass.
StillEnabled(t) == t \in enabled /\ CanEnable(t, bitmap, marking)

\* An earlier firing of this pass took what it needed.
FireSkip ==
  /\ \E t \in Transitions :
       /\ IsNext(t)
       /\ ~StillEnabled(t)
       /\ SwitchOff(t)
       /\ gap' = gap \ {t}
       /\ ready' = ready \ {t}
  /\ callout' = FALSE
  /\ UNCHANGED <<pc, tokens, dirty, restartPending, flights, ext, firing, arcs, produced,
                 unsettled, life, wait, clock>>

\* fireTransitionContained() raises unsettled before the first input is taken.
FireBegin ==
  /\ \E t \in Transitions :
       /\ IsNext(t)
       /\ StillEnabled(t)
       /\ firing' = t
       /\ arcs' = Resets[t]
       /\ ready' = ready \ {t}
  /\ unsettled' = TRUE
  /\ pc' = "consume"
  /\ callout' = FALSE
  /\ UNCHANGED <<tokens, produced, sched, flights, ext, life, wait, clock>>

\* An input that has not given what it is to give, as long as it has a token.
Owed(p) ==
  /\ marking[p] > 0
  /\ p \in TakesAll[firing] \/ consumed[firing][p] < Required[firing][p]

\* Inputs are served one by one, each to its end.
Served(p) ==
  /\ Owed(p)
  /\ consumed[firing][p] > 0 \/ \A q \in Places : Owed(q) => consumed[firing][q] = 0

Remove(p, n) ==
  /\ marking' = [marking EXCEPT ![p] = @ - n]
  /\ consumed' = [consumed EXCEPT ![firing][p] = @ + n]

\* Input arcs come first and give a token at a time, each reported before the next; then
\* a reset place is emptied at once and its tokens are reported.
Consume ==
  /\ pc = "consume"
  /\ \E p \in Places :
       \/ Served(p) /\ Remove(p, 1) /\ UNCHANGED arcs
       \/ /\ p \in arcs
          /\ \A q \in Places : ~Owed(q)
          /\ Remove(p, marking[p])
          /\ arcs' = arcs \ {p}
  /\ callout' = TRUE
  /\ UNCHANGED <<pc, bitmap, sched, flight, output, completionQueue, ext, ready, firing,
                 produced, unsettled, life, wait, clock>>

\* flagIntermediateDisablements() over every consumed place that fell below its
\* threshold.  The code reconciles place by place; a transition it passes because
\* a later place's bit is still set is flagged when that place comes up.
Disabled(t, bits) ==
  {u \in enabled \ (InFlight \cup {t}) :
     \E p \in ConsumptionPlaces(t) :
       /\ marking[p] < RestartThreshold(p)
       /\ u \in AffectedTransitions(p)
       /\ ~CanEnable(u, bits, marking)}

\* Mutant: the bits of places only reset are left standing.
ReconcileInputsOnly(t) ==
  LET emptied == {p \in InputPlaces(t) : marking[p] = 0} IN
  /\ bitmap' = bitmap \ emptied
  /\ restartPending' = restartPending \cup Disabled(t, bitmap')

\* updateBitmapAfterConsumption()
UpdateBitmapAfterConsumption(t) ==
  LET emptied == {p \in ConsumptionPlaces(t) : marking[p] = 0} IN
  /\ bitmap' = bitmap \ emptied
  /\ restartPending' = restartPending \cup Disabled(t, bitmap')

DirtiedBy(t) == UNION {AffectedTransitions(p) : p \in ConsumptionPlaces(t)}

\* History: enabled transitions whose arcs the current marking does not satisfy.
LeftDisabled(t) == {u \in enabled \ {t} : ~ArcsSatisfied(u, marking)}

\* Every input has given its tokens and every reset place is empty.
AllTaken == arcs = {} /\ \A p \in Places : ~Owed(p)

\* Nothing is left to take: reconcile, transition-started, invoke the action.
FireStart ==
  /\ pc = "consume"
  /\ AllTaken
  /\ UpdateBitmapAfterConsumption(firing)
  /\ dirty' = dirty \cup DirtiedBy(firing)
  /\ gap' = gap \cup LeftDisabled(firing)
  /\ pc' = "start"
  /\ callout' = TRUE
  /\ UNCHANGED <<marking, enabled, enabledCount, enabledAt, flights, ext, pass, life,
                 wait, clock>>

\* inFlight.set() is the last thing fireTransition() does.
FireRegister ==
  /\ pc = "start"
  /\ flight' = [flight EXCEPT ![firing] = "running"]
  /\ SwitchOff(firing)
  /\ gap' = gap \ {firing}
  /\ firing' = NoTransition
  /\ unsettled' = FALSE
  /\ pc' = "fire"
  /\ callout' = FALSE
  /\ UNCHANGED <<tokens, dirty, restartPending, output, consumed, completionQueue, ext,
                 ready, arcs, produced, life, wait, clock>>

\* The catch of fireTransitionContained(): what was taken is lost, of an input that gives
\* several tokens perhaps a part; the bitmap is reconciled with whatever the marking now
\* holds, the transition is dirty.  The first thing that can throw is the report of the
\* first removed token.
FireThrow ==
  /\ pc \in {"consume", "start"}
  /\ firing \in MayThrow
  /\ consumed[firing] # Empty \/ AllTaken
  /\ UpdateBitmapAfterConsumption(firing)
  /\ SwitchOff(firing)
  /\ dirty' = dirty \cup DirtiedBy(firing) \cup {firing}
  /\ gap' = (gap \cup LeftDisabled(firing)) \ {firing}
  /\ consumed' = [consumed EXCEPT ![firing] = Empty]
  /\ firing' = NoTransition
  /\ arcs' = {}
  /\ unsettled' = FALSE
  /\ pc' = "fire"
  /\ callout' = TRUE
  /\ UNCHANGED <<marking, flight, output, completionQueue, ext, ready, produced, life, wait,
                 clock>>

HasDirtyBits == dirty # {}

\* if (hasDirtyBits()) continue
FireDone ==
  /\ pc = "fire"
  /\ ready = {}
  /\ pc' = IF HasDirtyBits THEN "completions" ELSE "await"
  /\ callout' = FALSE
  /\ UNCHANGED <<tokens, sched, flights, ext, pass, life, wait, clock>>

-----------------------------------------------------------------------------
(* awaitWork().                                                            *)

\* isWorkReady(), and the test awaitWork() makes before and after the flush.
WorkQueued == completionQueue # <<>> \/ (~closed /\ externalQueue # <<>>)

AwaitEnter ==
  /\ pc = "await"
  /\ pc' = IF WorkQueued THEN "completions" ELSE "flush"
  /\ callout' = FALSE
  /\ UNCHANGED <<tokens, sched, flights, ext, pass, life, wait, clock>>

\* millisUntilNextTimedTransition(): every boundary of an enabled transition.
Boundaries ==
  {enabledAt[t] + Earliest(t) : t \in enabled}
    \cup {enabledAt[t] + Latest(t) : t \in {u \in enabled : HasDeadline(u)}}

BoundaryDue == \E b \in Boundaries : b <= now

\* Mutant: no timer is armed.
NoTimer == {Never}

\* Armed only for a boundary in the future: a due one gives 0, none Infinity.
NextTimer ==
  IF Boundaries = {} \/ BoundaryDue
    THEN {Never}
    ELSE {b \in Boundaries : \A c \in Boundaries : b <= c}

\* After the microtask flush: the ways not to park.
StayAwake ==
  \/ wakeUpPending
  \/ WorkQueued
  \/ closed /\ InFlight = {}
  \/ ~closed /\ BoundaryDue /\ InFlight = {}

FlushReturn ==
  /\ pc = "flush"
  /\ StayAwake
  /\ wakeUpPending' = FALSE
  /\ pc' = "completions"
  /\ callout' = FALSE
  /\ UNCHANGED <<tokens, sched, flights, ext, pass, life, wakeUpResolve, timer, woken, clock>>

\* Races the in-flight promises; unless closed, a waiter and a timer too.
Park ==
  /\ pc = "flush"
  /\ ~StayAwake
  /\ wakeUpResolve' = ~closed
  /\ timer' \in IF closed THEN {Never} ELSE NextTimer
  /\ woken' = FALSE
  /\ pc' = "parked"
  /\ callout' = FALSE
  /\ UNCHANGED <<tokens, sched, flights, ext, pass, life, wakeUpPending, clock>>

Resume ==
  /\ pc = "parked"
  /\ woken
  /\ wakeUpResolve' = FALSE
  /\ timer' = Never
  /\ woken' = FALSE
  /\ pc' = "completions"
  /\ callout' = FALSE
  /\ UNCHANGED <<tokens, sched, flights, ext, pass, life, wakeUpPending, clock>>

\* Mutant: queued events are left behind.
LeavePendingExternalEvents == UNCHANGED <<externalQueue, refused>>

\* drainPendingExternalEvents()
DrainPendingExternalEvents ==
  /\ refused' = refused + Len(externalQueue)
  /\ externalQueue' = <<>>

\* After the loop: refuse what is queued, name the reason.
Exit ==
  /\ pc = "exit"
  /\ DrainPendingExternalEvents
  /\ reason' = IF reason # "running" THEN reason
               ELSE IF terminalReached THEN "terminal"
               ELSE IF closed THEN "closed" ELSE "quiescent"
  /\ pc' = "ended"
  /\ callout' = TRUE
  /\ UNCHANGED <<tokens, sched, flights, externalCursor, prefix, accepted, admitted, pass,
                 terminalReached, draining, closed, wait, clock>>

-----------------------------------------------------------------------------
(* What happens to the executor from outside the loop.                     *)

\* Mutant: edge-triggered, a signal raised while not parked is dropped.
WakeUpUnlatched ==
  /\ woken' = (woken \/ wakeUpResolve)
  /\ UNCHANGED <<wakeUpPending, wakeUpResolve, timer>>

\* wakeUp(): resolve the waiter, or latch.
WakeUp ==
  /\ woken' = (woken \/ wakeUpResolve)
  /\ wakeUpPending' = (wakeUpPending \/ ~wakeUpResolve)
  /\ UNCHANGED <<wakeUpResolve, timer>>

\* The action's promise settles: queue the completion, wake up, and resolve the
\* flight's own promise, which every parked race holds.
ActionSettles(t) ==
  /\ Yielded
  /\ flight[t] = "running"
  /\ \/ /\ t \in MayFail
        /\ flight' = [flight EXCEPT ![t] = "failed"]
        /\ UNCHANGED output
     \/ \E bag \in Productions[t] :
          /\ flight' = [flight EXCEPT ![t] = "done"]
          /\ output' = [output EXCEPT ![t] = bag]
  /\ completionQueue' = Append(completionQueue, t)
  /\ woken' = (pc = "parked")
  /\ wakeUpPending' = (wakeUpPending \/ ~wakeUpResolve)
  /\ UNCHANGED <<pc, callout, tokens, sched, consumed, ext, pass, life, wakeUpResolve,
                 timer, clock>>

TimerFires ==
  /\ pc = "parked"
  /\ timer # Never
  /\ timer <= now
  /\ ~woken
  /\ woken' = TRUE
  /\ UNCHANGED <<pc, callout, tokens, sched, flights, ext, pass, life, wakeUpPending,
                 wakeUpResolve, timer, clock>>

\* The clock may move between any two reads.  Past the bound it still passes every
\* boundary of an enabled transition that has one to wait for.
Tick ==
  /\ \/ now < MaxNow
     \/ \E t \in enabled : /\ Timing[t].type # "immediate"
                          /\ now <= enabledAt[t] + Timing[t].hi + Tolerance
  /\ now' = now + 1
  /\ UNCHANGED <<pc, callout, tokens, sched, flights, ext, pass, life, wait, cycleNow>>

HostRuns == Yielded \/ callout

Refuses == closed \/ draining \/ terminalReached

\* inject() and injectNoAwait().  A refused call changes nothing.
Inject(p) ==
  /\ HostRuns
  /\ accepted < MaxInject
  /\ ~Refuses
  /\ externalQueue' = Append(externalQueue, p)
  /\ accepted' = accepted + 1
  /\ WakeUp
  /\ UNCHANGED <<pc, callout, tokens, sched, flights, externalCursor, prefix, admitted,
                 refused, pass, life, clock>>

\* A second drain() or close() only repeats the wake-up.
Drain ==
  /\ HostRuns
  /\ ~draining
  /\ draining' = TRUE
  /\ WakeUp
  /\ UNCHANGED <<pc, callout, tokens, sched, flights, ext, pass, terminalReached, closed,
                 reason, clock>>

Close ==
  /\ HostRuns
  /\ ~closed
  /\ draining' = TRUE
  /\ closed' = TRUE
  /\ WakeUp
  /\ UNCHANGED <<pc, callout, tokens, sched, flights, ext, pass, terminalReached, reason,
                 clock>>

\* run(timeoutMs, onTimeout): the caller's promise rejects; the loop goes on.
BudgetExpires(policy) ==
  /\ pc = "parked"
  /\ reason = "running"
  /\ reason' = "stopped"
  /\ IF policy = "close"
       THEN draining' = TRUE /\ closed' = TRUE /\ WakeUp
       ELSE UNCHANGED <<draining, closed, wait>>
  /\ UNCHANGED <<pc, callout, tokens, sched, flights, ext, pass, terminalReached, clock>>

-----------------------------------------------------------------------------
Orchestrate ==
  \/ Run
  \/ CompleteFailed \/ CompleteOk \/ Deposit \/ SettleCompletion \/ DepositThrow
  \/ CompletionsDone
  \/ SkipExternal \/ Admit \/ AdmitDone
  \/ UpdateDirtyTransitions \/ EnforceDeadlines \/ Decide
  \/ FireSkip \/ FireBegin \/ Consume \/ FireStart \/ FireRegister \/ FireDone
  \/ AwaitEnter \/ FlushReturn \/ Park \/ Resume \/ Exit

Terminated == pc = "ended" /\ UNCHANGED vars

Next ==
  \/ Orchestrate
  \/ FireThrow
  \/ \E t \in Transitions : ActionSettles(t)
  \/ TimerFires
  \/ Tick
  \/ \E p \in EnvPlaces : Inject(p)
  \/ Drain
  \/ Close
  \/ \E policy \in BudgetPolicies : BudgetExpires(policy)
  \/ Terminated

Spec == Init /\ [][Next]_vars

\* The thread never stops in the middle of synchronous code and resumes a settled
\* await; time passes and an armed timer fires; an action settles, its reaction
\* running at one of the loop's suspensions.  The host owes nothing.
Fairness ==
  /\ WF_vars(Orchestrate)
  /\ WF_vars(Tick)
  /\ WF_vars(TimerFires)
  /\ \A t \in Transitions : SF_vars(ActionSettles(t))

FairSpec == Spec /\ Fairness
-----------------------------------------------------------------------------
(* Properties.                                                             *)

NatBag == [Places -> Nat]

(* The types, one definition per group of variables.                       *)

TokensTyped == marking \in NatBag /\ bitmap \in SUBSET Places

SchedTyped ==
  /\ dirty \in SUBSET Transitions
  /\ enabled \in SUBSET Transitions
  /\ enabledCount \in Int
  /\ enabledAt \in [Transitions -> Nat \cup {Never}]
  /\ restartPending \in SUBSET Transitions
  /\ gap \in SUBSET Transitions

FlightsTyped ==
  /\ flight \in [Transitions -> {"idle", "running", "failed", "done"}]
  /\ output \in [Transitions -> NatBag]
  /\ consumed \in [Transitions -> NatBag]
  /\ completionQueue \in Seq(Transitions)

ExtTyped ==
  /\ externalQueue \in Seq(EnvPlaces)
  /\ externalCursor \in Nat
  /\ prefix \in Nat
  /\ accepted \in Nat
  /\ admitted \in Nat
  /\ refused \in Nat

PassTyped ==
  /\ ready \in SUBSET Transitions
  /\ firing \in Transitions \cup {NoTransition}
  /\ arcs \in SUBSET Places
  /\ produced \in NatBag
  /\ unsettled \in BOOLEAN

LifeTyped ==
  /\ terminalReached \in BOOLEAN
  /\ draining \in BOOLEAN
  /\ closed \in BOOLEAN
  /\ reason \in {"running", "quiescent", "terminal", "closed", "stopped"}

WaitTyped ==
  /\ wakeUpPending \in BOOLEAN
  /\ wakeUpResolve \in BOOLEAN
  /\ timer \in Nat \cup {Never}
  /\ woken \in BOOLEAN

ClockTyped == now \in Nat /\ cycleNow \in Nat

\* Every variable keeps its type, at every point of the loop.
TypeOK ==
  /\ pc \in PcValues
  /\ callout \in BOOLEAN
  /\ TokensTyped
  /\ SchedTyped
  /\ FlightsTyped
  /\ ExtTyped
  /\ PassTyped
  /\ LifeTyped
  /\ WaitTyped
  /\ ClockTyped

\* markingBitmap is the marking's shadow: outside the window in which a firing
\* removes its tokens, a bit is set exactly when the place holds a token, also
\* after a firing that threw half-way (fireTransitionContained's reconciliation).
BitmapFaithful ==
  pc \notin {"new", "consume"} => bitmap = Marked(marking)

\* The flag of t is what the tokens call for, or a hard deadline took it down.
FlagRight(t) ==
  /\ t \in enabled => ArcsSatisfied(t, marking)
  /\ ArcsSatisfied(t, marking) /\ ~HardDeadline(t) => t \in enabled

\* Dirty-set completeness: a transition nobody marked for re-evaluation and that
\* is not in flight has the flag the tokens themselves call for; only a hard
\* deadline may have switched it off while its arcs stay satisfied.
EnablementTracksMarking ==
  pc \notin {"new", "consume"} =>
    \A t \in Transitions \ (dirty \cup InFlight \cup {firing}) :
      FlagRight(t)

\* What the phase of the loop says about the transition being fired or completed:
\* it is known, still flagged, and everything the pass has yet to fire is flagged.
FiringPhase ==
  /\ IF pc \in {"deposit", "consume", "start"} THEN firing \in Transitions
                                                ELSE firing = NoTransition
  /\ pc \in {"consume", "start"} => firing \in enabled \ ready
  /\ pc = "consume" => arcs \subseteq Resets[firing]
  /\ ready \subseteq enabled
  /\ ready # {} => pc \in {"fire", "consume", "start"}

\* ... and how far the walk of the external queue has come.
WalkPhase ==
  /\ pc = "admit" => externalCursor <= prefix /\ prefix <= Len(externalQueue)
  /\ pc # "admit" => externalCursor = 0

PhaseOK == FiringPhase /\ WalkPhase

\* While tokens are being removed the bitmap may only claim too much, and only for
\* the places the firing takes from.
BitmapCovers ==
  pc = "consume" =>
    /\ Marked(marking) \subseteq bitmap
    /\ \A p \in bitmap : p \in ConsumptionPlaces(firing) \/ marking[p] > 0

\* While tokens are being removed, a transition the firing does not touch keeps the
\* flag its arcs call for.
UntouchedStaysExact ==
  pc = "consume" =>
    \A t \in Transitions \ (dirty \cup InFlight \cup {firing} \cup DirtiedBy(firing)) :
      FlagRight(t)

\* enabledTransitionCount, on which termination is decided, counts the flags
\* through every path that switches one on or off.
EnabledCountExact == enabledCount = Cardinality(enabled)

\* The inductive invariant behind the three: what the loop knows at every step.
LoopInvariant ==
  /\ TypeOK
  /\ PhaseOK
  /\ BitmapFaithful
  /\ BitmapCovers
  /\ EnablementTracksMarking
  /\ UntouchedStaysExact
  /\ EnabledCountExact

\* What a flight holds belongs to it: an in-flight transition is never flagged, only
\* a firing, a flight or a completion being deposited holds tokens, and the outputs
\* of a settled action, landed or not, are among those it may produce.
FlightsOwned ==
  /\ enabled \cap InFlight = {}
  /\ firing \notin InFlight
  /\ unsettled <=> pc \in {"deposit", "consume", "start"}
  /\ pc # "consume" => arcs = {}
  /\ pc = "consume" => \A p \in arcs \ InputPlaces(firing) : consumed[firing][p] = 0
  /\ pc # "deposit" => produced = Empty
  /\ pc = "deposit" =>
       \E bag \in Productions[firing] :
         \A p \in Places : bag[p] = produced[p] + output[firing][p]
  /\ \A t \in Transitions :
       /\ t \notin InFlight \cup {firing} => consumed[t] = Empty
       /\ flight[t] # "done" /\ ~(pc = "deposit" /\ t = firing) => output[t] = Empty
       /\ flight[t] = "done" => output[t] \in Productions[t]

\* A queued completion is that of a settled flight, and no flight is queued twice.
QueueOwned ==
  \A i \in 1..Len(completionQueue) :
    /\ flight[completionQueue[i]] \in {"failed", "done"}
    /\ \A j \in 1..Len(completionQueue) : completionQueue[i] = completionQueue[j] => i = j

\* The terminal latch is the truth about the terminal places, and once it is up the
\* loop only finishes the completion or the event it is at; during a completion they
\* hold what that completion has put there.
TerminalLatched ==
  /\ pc # "new" => (terminalReached <=> \E p \in Terminals : marking[p] > 0)
  /\ pc = "deposit" => \A p \in Terminals : marking[p] = produced[p]
  /\ terminalReached => pc \in {"deposit", "admit", "exit", "ended"}

\* Every accepted event is admitted, refused or still behind the cursor.
EventsAccounted ==
  accepted + externalCursor = admitted + refused + Len(externalQueue)

\* Nothing to re-evaluate, nothing in flight, nothing flagged.
AtRest == dirty = {} /\ InFlight = {} /\ enabled = {}

\* The loop ends only in a state that accepts no event, and at rest unless it was
\* told to stop; the reason it names is the one it ended for.
EndPhase ==
  /\ pc \in {"deadlines", "decide"} => dirty = {}
  /\ pc \in {"exit", "ended"} => Refuses \/ EnvPlaces = {}
  /\ pc = "exit" /\ ~terminalReached /\ ~closed => AtRest
  /\ pc # "ended" => reason \in {"running", "stopped"}
  /\ reason = "quiescent" => AtRest
  /\ reason = "terminal" => terminalReached
  /\ pc = "ended" => externalQueue = <<>>

\* There is a reason to go on: shouldTerminate() would not hold even if nothing
\* were queued, or a firing is under way, or a transition waits for re-evaluation.
WorthRunning ==
  \/ pc \in {"consume", "start"}
  \/ dirty # {}
  \/ InFlight # {}
  \/ ~closed /\ enabled # {}
  \/ ~closed /\ ~draining /\ EnvPlaces # {}

\* What the loop knows from its decision to go on until it has parked: it has a
\* reason to, or somebody who took the reason away has raised the latch.
WaitPhase ==
  /\ pc # "parked" => ~wakeUpResolve /\ ~woken
  /\ pc \in {"await", "flush", "parked"} => dirty = {}
  /\ pc \in {"fire", "consume", "start", "await", "flush"} => WorthRunning \/ wakeUpPending
  /\ pc = "parked" /\ ~woken =>
       /\ WorthRunning
       /\ ~WorkQueued
       /\ wakeUpResolve \/ (closed /\ InFlight # {})

\* The second inductive invariant, on top of the first.
ExecutorInvariant ==
  /\ FlightsOwned
  /\ QueueOwned
  /\ TerminalLatched
  /\ EventsAccounted
  /\ EndPhase
  /\ WaitPhase

\* What keeps t from firing: a place it needs holds too little, or an inhibitor is
\* marked.
Short(t, p) == marking[p] < Required[t][p] \/ (p \in Reads[t] /\ marking[p] = 0)

Blocked(t) == \E p \in Inhibitors[t] : marking[p] > 0

\* The stretch of the loop that works on the cycle's single clock reading.
Passing == pc \in {"decide", "fire", "consume", "start"}

\* A flagged transition's clock was started in the past, before the reading of the
\* pass, and what the pass fires is within its interval at that reading.
ClocksRight ==
  /\ \A t \in enabled : enabledAt[t] <= now
  /\ Passing =>
       \A t \in enabled :
         /\ enabledAt[t] <= cycleNow
         /\ HardDeadline(t) => cycleNow - enabledAt[t] <= Latest(t) + Tolerance
         /\ t \in ready \cup {firing} => Earliest(t) <= cycleNow - enabledAt[t]

\* A flagged transition whose arcs are, or were, unsatisfied awaits re-evaluation,
\* and the evaluation will notice: its clock is due for a restart, or an inhibitor
\* stays marked until then.  Within a pass tokens only leave, so it is still short.
GapNoticed ==
  /\ gap \subseteq enabled \cap dirty
  /\ firing \notin gap
  /\ pc = "deposit" => firing \notin enabled
  /\ \A t \in gap : t \in restartPending \/ (~Passing /\ Blocked(t))
  /\ Passing => \A t \in gap : \E p \in Places : Short(t, p)

\* Any other flagged transition has its arcs satisfied; while a firing removes its
\* tokens it can be short only of those.
GapComplete ==
  \A t \in enabled \ (gap \cup {firing}) :
    /\ pc # "consume" => ArcsSatisfied(t, marking)
    /\ pc = "consume" =>
         /\ ~Blocked(t)
         /\ \A p \in Places : Short(t, p) => p \in ConsumptionPlaces(firing)

\* The third inductive invariant: what makes a firing timely.
TimingInvariant == ClocksRight /\ GapNoticed /\ GapComplete

\* No lost wake-up: while the loop is parked and nothing has woken it, there is
\* nothing for it to do: no queued work it would take, no transition to
\* re-evaluate, and shouldTerminate() is false - whichever of inject(), drain(),
\* close() and the completions came between its checks and its waiter.
NoLostWakeUp ==
  pc = "parked" /\ ~woken => ~WorkQueued /\ dirty = {} /\ ~ShouldTerminate

\* Mutant: accepted events that are still queued are forgotten.
ActionInFlightIgnoresQueue == InFlight # {} \/ unsettled

\* actionInFlight of snapshot()
ActionInFlight == InFlight # {} \/ unsettled \/ Len(externalQueue) > externalCursor

\* ENV-014: wherever host code can call snapshot(), a capture reported as a
\* restore point misses no token: none held by a firing, none of an output still
\* to land, none of an accepted external event.
RestorePointComplete ==
  HostRuns /\ ~draining /\ ~closed /\ ~ActionInFlight =>
    /\ \A t \in Transitions : consumed[t] = Empty /\ output[t] = Empty
    /\ accepted = admitted + refused

\* TIME-012 and the firing interval: a transition starts only when its clock was
\* (re)started after the last marking, intermediate ones included, that disabled
\* it, not before its earliest time and not after a hard deadline's grace band.
FiringOnTime ==
  pc \in {"consume", "start"} =>
    /\ firing \notin gap
    /\ Earliest(firing) <= cycleNow - enabledAt[firing]
    /\ HardDeadline(firing) => cycleNow - enabledAt[firing] <= Latest(firing) + Tolerance

\* Every accepted injection is settled, once, by the time the run has ended.
NoOrphanedInjection ==
  pc = "ended" => externalQueue = <<>> /\ accepted = admitted + refused

\* EXEC-041: 'quiescent' means nothing can fire and nothing is in flight,
\* 'terminal' that a terminal place is marked.
ReasonTruthful ==
  pc = "ended" =>
    /\ reason = "quiescent" =>
         /\ InFlight = {}
         /\ \A t \in Transitions : ArcsSatisfied(t, marking) => HardDeadline(t)
    /\ reason = "terminal" => \E p \in Terminals : marking[p] > 0

\* The loop implements the token game: a firing under way has taken all its
\* tokens, a completion being deposited has put none of them down yet.
Lesser(a, b) == IF a < b THEN a ELSE b

StillToTake ==
  [p \in Places |->
     IF pc # "consume" THEN 0
     ELSE IF p \in arcs \cup TakesAll[firing] THEN marking[p]
     ELSE IF Owed(p) THEN Lesser(marking[p], Required[firing][p] - consumed[firing][p])
     ELSE 0]

Firings == InFlight \cup (IF pc \in {"consume", "start", "deposit"} THEN {firing} ELSE {})

netMarking == [p \in Places |-> marking[p] - StillToTake[p] - produced[p]]

netHeld ==
  [t \in Transitions |->
     IF t \notin Firings THEN Empty
     ELSE [p \in Places |-> consumed[t][p] + IF t = firing THEN StillToTake[p] ELSE 0]]

Net == INSTANCE PetriNet WITH
  Correlated <- [t \in Transitions |-> {}],
  Faulty <- MayThrow,
  m <- netMarking, busy <- Firings, held <- netHeld

\* Every behaviour of the executor, its caches and its interleavings included,
\* is a behaviour of the net.
ImplementsNet == Net!NetSpec

\* Whatever the host accepted is settled in the end.
InjectionsSettle ==
  \A n \in 1..MaxInject : accepted >= n ~> admitted + refused >= n

\* ENV-011: a drained executor ends.
DrainTerminates == draining ~> pc = "ended"

\* An enabled transition fires or loses its enablement, or the run ends.
EnabledProgress ==
  \A t \in Transitions : t \in enabled ~> (t \notin enabled \/ pc = "ended")
=============================================================================
