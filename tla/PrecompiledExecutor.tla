------------------------ MODULE PrecompiledExecutor -------------------------
(***************************************************************************)
(* The second executor, src/typescript/src/runtime/                        *)
(* precompiled-net-executor.ts: the loop of the bitmap executor over the   *)
(* arrays of PrecompiledNet, with the token queues and the match caches of *)
(* its nu-joins in the state.                                              *)
(*                                                                         *)
(* As in BitmapExecutor, host code runs where the loop is suspended and    *)
(* inside every event the loop emits (callout).  A token is a number, its  *)
(* creation time too, and a correlation name.  A match cache is modelled   *)
(* by the tokens it was given: MatchEngine shows that its answer is then   *)
(* the canonical one.                                                      *)
(***************************************************************************)
EXTENDS PrecompiledNet, FiniteSetsExt

CONSTANTS
  Names,            \* correlation names: numbers, 0 for none
  InitialQueues,    \* queues the executor may be constructed with
  EnvPlaces,        \* options.environmentPlaces, also one the program does not know
  Productions,      \* Productions[t]: sequences of [pid, name] an action of t may output
  Relays,           \* Relays[t]: output places whose tokens must carry the matched name
  MayFail,          \* transitions whose action may reject or break its output spec
  MayThrow,         \* transitions whose firing or completion may throw: a key function of their
                    \* join, the clock, the context provider
  Tolerance,        \* options.deadlineToleranceMs
  MaxInject, MaxNow, MaxTokens   \* bounds

Never == -1
NoTransition == 0
NoName == 0

\* A token: its number, which is its age too, and its name.
Token == [id : Nat, name : Names \cup {NoName}]

\* Numbers up to this one are those of initial tokens.
FirstMinted == MaxTokens \div 2

\* A number stands for one occurrence of a token in its queue, so no queue starts with one
\* twice; later tokens get later numbers.
ASSUME QueueAssumption ==
  /\ NoName \notin Names
  /\ InitialQueues \subseteq [Places -> Seq(Token)]
  /\ \A qs \in InitialQueues : \A p \in Places : \A i, j \in DOMAIN qs[p] :
       /\ qs[p][i].id = qs[p][j].id => i = j
       /\ qs[p][i].id <= FirstMinted
  /\ EnvPlaces \subseteq Nat
  /\ Productions \in [Transitions -> SUBSET Seq([pid : Nat, name : {"matched", "fresh"}])]
  /\ Relays \in [Transitions -> SUBSET Places]
  /\ MayFail \cup MayThrow \subseteq Transitions
  /\ Tolerance \in Nat /\ MaxInject \in Nat /\ MaxNow \in Nat /\ MaxTokens \in Nat

VARIABLES
  pc, callout,
  queues,           \* tokenQueues
  bits,             \* markingBitmap
  retained,         \* unknownPlaceTokens
  dirty,            \* dirtyBitmap
  enabled,          \* enabledFlags
  enabledCount,     \* enabledTransitionCount
  enabledAt,        \* enabledAtMs
  restart,          \* restartPending
  flight,           \* flight[t]: idle, running, done or failed
  output,           \* what an action has still to deposit
  consumed,         \* inFlightConsumed, per place; it is told of until the completion is over
  matched,          \* inFlightMatched
  seen,             \* read places whose front token the action was given
  completionQueue,
  inFlightCount,
  cache,            \* matchCaches: cache[t] is <<>> for null, <<[place -> tokens]>> otherwise
  externalQueue,
  cursor, prefix,   \* externalCursor, and the prefix processExternalEvents() walks
  injected,         \* inject() calls so far
  ready,            \* readyBuffer: what this pass still has to fire
  firing,           \* the transition being fired or completed; unsettled is firing # NoTransition
  op,               \* the next opcode of its program
  produced,         \* tokens the completion under way has put down, per place
  cycleNow,
  life,             \* [terminal, draining, closed, reason]
  wait,             \* [latch, waiter, timer, woken]
  now, minted

tokens  == <<queues, bits, cache>>
sched   == <<dirty, enabled, enabledCount, enabledAt, restart>>
flights == <<flight, output, consumed, matched, seen, completionQueue, inFlightCount>>
ext     == <<externalQueue, cursor, prefix, injected>>
pass    == <<ready, firing, op, produced>>
clock   == <<now, cycleNow>>
vars    == <<pc, callout, tokens, retained, sched, flights, ext, pass, life, wait, clock, minted>>

Ids(s) == {s[i].id : i \in DOMAIN s}
InFlight == {t \in Transitions : flight[t] # "idle"}
None == [p \in Places |-> 0]
Yielded == pc \in {"new", "flush", "parked", "ended"}

-----------------------------------------------------------------------------
(* Joins: findBinding() over the queues, or over what the cache was given.  *)

\* The tokens of s that are in S, in their order.
Kept(s, S) ==
  LET kept[i \in 0..Len(s)] ==
        IF i = 0 THEN <<>> ELSE IF s[i] \in S THEN Append(kept[i - 1], s[i]) ELSE kept[i - 1]
  IN kept[Len(s)]

Named(s, n) == Kept(s, {tok \in Range(s) : tok.name = n})
Correlating(s) == Kept(s, {tok \in Range(s) : tok.name # NoName})
Without(s, gone) == Kept(s, {tok \in Range(s) : tok.id \notin Ids(gone)})

\* The names every correlated input has enough tokens of, with the age of their oldest token.
Candidates(t, source) ==
  [n \in {n \in Names : \A p \in Keys[t] : Len(Named(source[p], n)) >= Required[t][p]} |->
     Min(UNION {Ids(Named(source[p], n)) : p \in Keys[t]})]

OldestOf(c) == IF DOMAIN c = {} THEN NoName ELSE CHOOSE n \in DOMAIN c : \A o \in DOMAIN c : c[n] <= c[o]

BindingIn(t, source) == OldestOf(Candidates(t, source))

Binding(t) == BindingIn(t, IF cache[t] = <<>> THEN queues ELSE cache[t][1])

\* initMatchCaches(): every correlated input gives up a fixed number and has no other taker.
Eligible(t) ==
  /\ Keys[t] # {}
  /\ \A p \in Keys[t] :
       /\ p \notin TakesAll[t]
       /\ \A u \in Transitions : p \notin Resets[u] /\ (u # t => p \notin InputPlaces(u))

initMatchCaches(qs) ==
  [t \in Transitions |-> IF Eligible(t) THEN <<[p \in Keys[t] |-> Correlating(qs[p])]>> ELSE <<>>]

cacheAddToken(p, tok) ==
  [t \in Transitions |->
     IF cache[t] # <<>> /\ p \in Keys[t] /\ tok.name # NoName
     THEN <<[cache[t][1] EXCEPT ![p] = Append(@, tok)]>> ELSE cache[t]]

\* consume(name): the required number of the name from every input.
CacheConsumed(c, t, n) ==
  IF c = <<>> \/ n = NoName THEN c
  ELSE <<[p \in Keys[t] |-> Without(c[1][p], SubSeq(Named(c[1][p], n), 1, Required[t][p]))]>>

canEnable(t, snapshot) ==
  /\ canEnableSparse(t, snapshot)
  /\ \A p \in CardinalityCheck(t) : Len(queues[p]) >= Required[t][p]
  /\ Keys[t] # {} => Binding(t) # NoName

-----------------------------------------------------------------------------
(* The dirty set, a bitmap over the transitions.                            *)

NoneDirty == [w \in transitionWords |-> {}]

\* markAllDirty(): full words, and the remainder in the last one.
markAllDirty ==
  [w \in transitionWords |->
     LET lastBits == NumTransitions % WORD_SIZE
     IN IF w + 1 \in transitionWords \/ lastBits = 0 THEN Bits ELSE 0..(lastBits - 1)]

DirtyBits == {t \in Transitions : HasBit(dirty, t - 1)}

MarkedDirty(S) == [w \in transitionWords |-> dirty[w] \cup BitsIn({t - 1 : t \in S}, w)]

-----------------------------------------------------------------------------
Init ==
  /\ pc = "new" /\ callout = FALSE
  /\ queues \in InitialQueues
  /\ bits = [w \in placeWords |-> {}]
  /\ retained = <<>>
  /\ dirty = NoneDirty /\ enabled = {} /\ enabledCount = 0
  /\ enabledAt = [t \in Transitions |-> Never] /\ restart = {}
  /\ flight = [t \in Transitions |-> "idle"] /\ output = [t \in Transitions |-> <<>>]
  /\ consumed = [t \in Transitions |-> [p \in Places |-> <<>>]]
  /\ matched = [t \in Transitions |-> NoName] /\ seen = [t \in Transitions |-> {}]
  /\ completionQueue = <<>> /\ inFlightCount = 0
  /\ cache = initMatchCaches(queues)
  /\ externalQueue = <<>> /\ cursor = 0 /\ prefix = 0 /\ injected = 0
  /\ ready = {} /\ firing = NoTransition /\ op = 0 /\ produced = None /\ cycleNow = 0
  /\ life = [terminal |-> FALSE, draining |-> FALSE, closed |-> FALSE, reason |-> "running"]
  /\ wait = [latch |-> FALSE, waiter |-> FALSE, timer |-> Never, woken |-> FALSE]
  /\ now = 0
  /\ minted = FirstMinted

\* run(): the bitmap of the initial tokens, everything dirty, initial terminals.
Run ==
  /\ pc = "new"
  /\ bits' = MaskOf({p \in Places : queues[p] # <<>>})
  /\ dirty' = markAllDirty
  /\ life' = [life EXCEPT !.terminal = \E p \in Terminals : queues[p] # <<>>]
  /\ pc' = IF life'.terminal THEN "exit" ELSE "completions"
  /\ callout' = TRUE
  /\ UNCHANGED <<queues, cache, retained, enabled, enabledCount, enabledAt, restart, flights, ext,
                 pass, wait, clock, minted>>

-----------------------------------------------------------------------------
\* produceToken(): the cache first, then queue, bit, dirty set and terminal latch.
produceToken(p, tok) ==
  /\ IF p \in Places
     THEN /\ cache' = cacheAddToken(p, tok)
          /\ queues' = [queues EXCEPT ![p] = Append(@, tok)]
          /\ bits' = SetBit(bits, p)
          /\ dirty' = MarkedDirty(AffectedTransitions(p))
          /\ life' = [life EXCEPT !.terminal = @ \/ p \in Terminals]
          /\ UNCHANGED retained
     ELSE /\ retained' = Append(retained, tok)
          /\ UNCHANGED <<tokens, dirty, life>>
  /\ UNCHANGED <<enabled, enabledCount, enabledAt, restart>>

Unregister(t) ==
  /\ flight' = [flight EXCEPT ![t] = "idle"]
  /\ inFlightCount' = inFlightCount - 1
  /\ completionQueue' = Tail(completionQueue)
  /\ matched' = [matched EXCEPT ![t] = NoName]
  /\ seen' = [seen EXCEPT ![t] = {}]

Released(t) == [consumed EXCEPT ![t] = [p \in Places |-> <<>>]]

\* validateRelays(): every token into a relay target carries the matched name.
RelaysHold(t) ==
  \A i \in DOMAIN output[t] : output[t][i].pid \in Relays[t] => output[t][i].tok.name = matched[t]

CompletionOf(t) == pc = "completions" /\ completionQueue # <<>> /\ t = Head(completionQueue)

\* The action rejected, broke its output spec or a relay.
CompleteFailed(t) ==
  /\ CompletionOf(t)
  /\ flight[t] = "failed" \/ ~RelaysHold(t)
  /\ Unregister(t)
  /\ consumed' = Released(t)
  /\ output' = [output EXCEPT ![t] = <<>>]
  /\ dirty' = MarkedDirty({t})
  /\ callout' = TRUE
  /\ UNCHANGED <<pc, tokens, retained, enabled, enabledCount, enabledAt, restart, ext, pass, life,
                 wait, clock, minted>>

CompleteOk(t) ==
  /\ CompletionOf(t)
  /\ flight[t] = "done" /\ RelaysHold(t)
  /\ Unregister(t)
  /\ firing' = t
  /\ pc' = "deposit"
  /\ callout' = FALSE
  /\ UNCHANGED <<tokens, retained, sched, output, consumed, ext, ready, op, produced, life, wait,
                 clock, minted>>

Deposit ==
  /\ pc = "deposit"
  /\ output[firing] # <<>>
  /\ LET out == Head(output[firing])
     IN /\ produceToken(out.pid, out.tok)
        /\ produced' = IF out.pid \in Places THEN [produced EXCEPT ![out.pid] = @ + 1] ELSE produced
  /\ output' = [output EXCEPT ![firing] = Tail(@)]
  /\ callout' = TRUE
  /\ UNCHANGED <<pc, flight, consumed, matched, seen, completionQueue, inFlightCount, ext, ready,
                 firing, op, wait, clock, minted>>

\* Behind a terminal deposit the queue is dropped, its flights stay counted.
EndCompletion ==
  /\ dirty' = MarkedDirty({firing})
  /\ firing' = NoTransition
  /\ output' = [output EXCEPT ![firing] = <<>>]
  /\ consumed' = Released(firing)
  /\ produced' = None
  /\ completionQueue' = IF life.terminal THEN <<>> ELSE completionQueue
  /\ pc' = IF life.terminal THEN "exit" ELSE "completions"
  /\ callout' = TRUE
  /\ UNCHANGED <<tokens, retained, enabled, enabledCount, enabledAt, restart, flight, matched, seen,
                 inFlightCount, ext, ready, op, life, wait, clock, minted>>

SettleCompletion == pc = "deposit" /\ output[firing] = <<>> /\ EndCompletion

\* A token for p is shown to the matcher of a join, whose key function may throw: then nothing
\* of the token has been put down.
KeyThrows(p) == \E t \in MayThrow : cache[t] # <<>> /\ p \in Keys[t]

\* The catch of processCompletedTransitions(): a key function throws before the next token
\* lands, or the clock throws for the report of the last one.  What has landed stays.
DepositThrow ==
  /\ pc = "deposit"
  /\ \/ output[firing] # <<>> /\ KeyThrows(Head(output[firing]).pid)
     \/ firing \in MayThrow /\ callout
  /\ EndCompletion

\* processExternalEvents() walks the prefix that was there when it began.
BeginExternal ==
  /\ pc = "completions" /\ completionQueue = <<>>
  /\ prefix' = IF life.closed THEN 0 ELSE Len(externalQueue)
  /\ pc' = "external"
  /\ callout' = FALSE
  /\ UNCHANGED <<tokens, retained, sched, flights, externalQueue, cursor, injected, pass, life,
                 wait, clock, minted>>

Admit ==
  /\ pc = "external" /\ cursor < prefix /\ ~life.terminal
  /\ produceToken(externalQueue[cursor + 1].pid, externalQueue[cursor + 1].tok)
  /\ cursor' = cursor + 1
  /\ callout' = TRUE
  /\ UNCHANGED <<pc, flights, externalQueue, prefix, injected, pass, wait, clock, minted>>

\* A key function throws: reject(), and nothing of the token has been put down.
AdmitThrow ==
  /\ pc = "external" /\ cursor < prefix /\ ~life.terminal
  /\ KeyThrows(externalQueue[cursor + 1].pid)
  /\ cursor' = cursor + 1
  /\ callout' = FALSE
  /\ UNCHANGED <<pc, tokens, retained, sched, flights, externalQueue, prefix, injected, pass, life,
                 wait, clock, minted>>

\* Only what this pass deposited.
Undeposited == SubSeq(externalQueue, cursor + 1, Len(externalQueue))

EndExternal ==
  /\ pc = "external" /\ (cursor = prefix \/ life.terminal)
  /\ externalQueue' = Undeposited
  /\ cursor' = 0 /\ prefix' = 0
  /\ pc' = IF life.terminal THEN "exit" ELSE "update"
  /\ callout' = FALSE
  /\ UNCHANGED <<tokens, retained, sched, flights, injected, pass, life, wait, clock, minted>>

-----------------------------------------------------------------------------
\* updateDirtyTransitions(): no token moves during the scan.
updateDirtyTransitions ==
  LET scan == DirtyBits \ InFlight
      on == {t \in scan : canEnable(t, bits)}
      off == (scan \ on) \cap enabled
      fresh == (on \ enabled) \cup (on \cap restart)
  IN /\ pc = "update"
     /\ dirty' = NoneDirty /\ restart' = {}
     /\ enabled' = (enabled \ off) \cup on
     /\ enabledCount' = enabledCount + Cardinality(on \ enabled) - Cardinality(off)
     /\ enabledAt' = [t \in Transitions |-> IF t \in fresh THEN now
                                            ELSE IF t \in off THEN Never ELSE enabledAt[t]]
     /\ pc' = "deadlines"
     /\ callout' = (fresh # {})
     /\ UNCHANGED <<tokens, retained, flights, ext, pass, life, wait, clock, minted>>

\* enabledFlags, enabledTransitionCount and enabledAtMs move together.
SwitchOff(S) ==
  /\ enabled' = enabled \ S
  /\ enabledCount' = enabledCount - Cardinality(S)
  /\ enabledAt' = [t \in Transitions |-> IF t \in S THEN Never ELSE enabledAt[t]]

enforceDeadlines ==
  LET late == {t \in enabled \ InFlight :
                 anyDeadlines /\ HardDeadline(t) /\ now - enabledAt[t] > Latest(t) + Tolerance}
  IN /\ pc = "deadlines"
     /\ cycleNow' = now
     /\ SwitchOff(late)
     /\ pc' = "decide"
     /\ callout' = (late # {})
     /\ UNCHANGED <<tokens, retained, dirty, restart, flights, ext, pass, life, wait, now, minted>>

shouldTerminate ==
  /\ inFlightCount = 0 /\ completionQueue = <<>>
  /\ life.closed \/ (enabledCount = 0 /\ (EnvPlaces = {} \/ life.draining))

FastPath == allImmediate /\ allSamePriority

ReadyTransitions == {t \in enabled \ InFlight : FastPath \/ Earliest(t) <= cycleNow - enabledAt[t]}

\* The fast path fires in declaration order; otherwise priority, enablement time, declaration.
Precedes(t, u) ==
  IF FastPath \/ (Priority[t] = Priority[u] /\ enabledAt[t] = enabledAt[u]) THEN t < u
  ELSE IF Priority[t] = Priority[u] THEN enabledAt[t] < enabledAt[u]
  ELSE Priority[t] > Priority[u]

Decide ==
  /\ pc = "decide"
  /\ pc' = IF shouldTerminate THEN "exit" ELSE "fire"
  /\ ready' = IF shouldTerminate THEN {} ELSE ReadyTransitions
  /\ callout' = FALSE
  /\ UNCHANGED <<tokens, retained, sched, flights, ext, firing, op, produced, life, wait, clock,
                 minted>>

IsNext(t) == pc = "fire" /\ t \in ready /\ \A u \in ready \ {t} : Precedes(t, u)

\* An earlier firing of this pass took what it needed.
FireSkip(t) ==
  /\ IsNext(t)
  /\ ~canEnable(t, bits)
  /\ SwitchOff({t})
  /\ ready' = ready \ {t}
  /\ callout' = FALSE
  /\ UNCHANGED <<pc, tokens, retained, dirty, restart, flights, ext, firing, op, produced, life,
                 wait, clock, minted>>

-----------------------------------------------------------------------------
(* fireTransitionContained(): the program of the transition, opcode by      *)
(* opcode.  An input opcode takes a token at a time and reports it before   *)
(* the next, a reset empties its place first and then reports.  A join goes *)
(* the same way with its name.                                              *)

FireBegin(t) ==
  /\ IsNext(t)
  /\ canEnable(t, bits)
  /\ LET n == IF Keys[t] = {} THEN NoName ELSE Binding(t)
     IN /\ cache' = [cache EXCEPT ![t] = CacheConsumed(@, t, n)]
        /\ matched' = [matched EXCEPT ![t] = n]
  /\ firing' = t /\ op' = 1 /\ ready' = ready \ {t}
  /\ pc' = "consume"
  /\ callout' = FALSE
  /\ UNCHANGED <<queues, bits, retained, sched, flight, output, consumed, seen, completionQueue,
                 inFlightCount, ext, produced, life, wait, clock, minted>>

Program == programs[firing]

\* Tokens an opcode has still to take: the oldest, of the bound name where the place is
\* correlated.
TakenBy(t, o, qs) ==
  LET n == matched[t]
      pool == IF o.op # "RESET" /\ o.pid \in Keys[t] /\ n # NoName THEN Named(qs[o.pid], n)
              ELSE qs[o.pid]
      want == CASE o.op = "CONSUME_ONE" -> 1
                [] o.op = "CONSUME_N" -> Required[t][o.pid] - Len(consumed[t][o.pid])
                [] OTHER -> Len(pool)
  IN SubSeq(pool, 1, IF want <= Len(pool) THEN want ELSE Len(pool))

ExecuteOp ==
  /\ \/ pc = "consume" /\ op <= Program.resetOpsStart
     \/ pc = "reset" /\ op <= Len(Program.ops)
  /\ LET o == Program.ops[op]
         due == TakenBy(firing, o, queues)
         taken == IF o.op = "RESET" THEN due ELSE SubSeq(due, 1, 1)
     IN /\ queues' = [queues EXCEPT ![o.pid] = Without(@, taken)]
        /\ consumed' = [consumed EXCEPT ![firing][o.pid] = @ \o taken]
        /\ op' = IF o.op = "RESET" \/ Len(due) <= 1 THEN op + 1 ELSE op
        /\ callout' = (taken # <<>>)
  /\ UNCHANGED <<pc, bits, cache, retained, sched, flight, output, matched, seen, completionQueue,
                 inFlightCount, ext, ready, firing, produced, life, wait, clock, minted>>

\* Mutant: a reset place is drained before it is peeked.
PeekLate(t) ==
  {p \in Reads[t] \ Resets[t] : queues[p] # <<>>}

\* The places whose front token the action will see.
peekReadArcs(t) == {p \in Reads[t] : queues[p] # <<>>}

PeekReads ==
  /\ pc = "consume" /\ op > Program.resetOpsStart
  /\ seen' = [seen EXCEPT ![firing] = peekReadArcs(firing)]
  /\ pc' = "reset"
  /\ callout' = FALSE
  /\ UNCHANGED <<tokens, retained, sched, flight, output, consumed, matched, completionQueue,
                 inFlightCount, ext, pass, life, wait, clock, minted>>

\* Mutant: a place drained by its reset arc keeps its bit.
EmptiedInputs(t) ==
  [w \in placeWords |-> bits[w] \ BitsIn({p \in InputPlaces(t) : queues[p] = <<>>}, w)]

Emptied(t) ==
  [w \in placeWords |-> bits[w] \ BitsIn({p \in ConsumptionPlaces(t) : queues[p] = <<>>}, w)]

\* flagIntermediateDisablements(), for the places left below their threshold.
Flagged(t) ==
  {u \in enabled \ (InFlight \cup {t}) :
     \E p \in ConsumptionPlaces(t) :
       /\ Len(queues[p]) < RestartThreshold(p)
       /\ u \in AffectedTransitions(p)
       /\ ~canEnable(u, Emptied(t))}

DirtiedBy(t) == UNION {AffectedTransitions(p) : p \in ConsumptionPlaces(t)}

\* The bits, and the clocks to restart, once the tokens are gone.
updateBitmapAfterConsumption(t) ==
  /\ bits' = Emptied(t)
  /\ restart' = restart \cup Flagged(t)

\* ... transition-started, and the action is called.
FireStart ==
  /\ pc = "reset" /\ op > Len(Program.ops)
  /\ updateBitmapAfterConsumption(firing)
  /\ dirty' = MarkedDirty(DirtiedBy(firing))
  /\ pc' = "start"
  /\ callout' = TRUE
  /\ UNCHANGED <<queues, cache, retained, enabled, enabledCount, enabledAt, flights, ext, pass,
                 life, wait, clock, minted>>

FireRegister ==
  /\ pc = "start"
  /\ flight' = [flight EXCEPT ![firing] = "running"]
  /\ inFlightCount' = inFlightCount + 1
  /\ SwitchOff({firing})
  /\ firing' = NoTransition /\ op' = 0
  /\ pc' = "fire"
  /\ callout' = FALSE
  /\ UNCHANGED <<tokens, retained, dirty, restart, output, consumed, matched, seen,
                 completionQueue, ext, ready, produced, life, wait, clock, minted>>

\* Mutant: the match cache outlives a firing that threw.
CacheAfterThrow(t) == cache

\* matchCaches[tid] = null
DroppedCache(t) == [cache EXCEPT ![t] = <<>>]

\* A key function throws while a join picks its next token, the clock does when a removal is
\* reported, or the context provider when the action is called: the catch of
\* fireTransitionContained() reconciles, drops the matcher, marks t dirty.  What the opcodes
\* have not taken stays, also the rest of an input that gives several tokens.
FireThrow ==
  /\ \/ pc = "consume" /\ Keys[firing] # {}
     \/ pc \in {"consume", "reset"} /\ callout
     \/ pc = "start"
  /\ firing \in MayThrow
  /\ updateBitmapAfterConsumption(firing)
  /\ dirty' = MarkedDirty({firing} \cup DirtiedBy(firing))
  /\ SwitchOff({firing})
  /\ cache' = DroppedCache(firing)
  /\ consumed' = [consumed EXCEPT ![firing] = [p \in Places |-> <<>>]]
  /\ seen' = [seen EXCEPT ![firing] = {}]
  /\ matched' = [matched EXCEPT ![firing] = NoName]
  /\ firing' = NoTransition /\ op' = 0
  /\ pc' = "fire"
  /\ callout' = TRUE
  /\ UNCHANGED <<queues, retained, flight, output, completionQueue, inFlightCount, ext, ready,
                 produced, life, wait, clock, minted>>

FireDone ==
  /\ pc = "fire" /\ ready = {}
  /\ pc' = IF DirtyBits # {} THEN "completions" ELSE "await"
  /\ callout' = FALSE
  /\ UNCHANGED <<tokens, retained, sched, flights, ext, pass, life, wait, clock, minted>>

-----------------------------------------------------------------------------
(* awaitWork() and the end of the loop.                                     *)

WorkQueued == completionQueue # <<>> \/ (~life.closed /\ externalQueue # <<>>)

AwaitEnter ==
  /\ pc = "await"
  /\ pc' = IF WorkQueued THEN "completions" ELSE "flush"
  /\ callout' = FALSE
  /\ UNCHANGED <<tokens, retained, sched, flights, ext, pass, life, wait, clock, minted>>

\* millisUntilNextTimedTransition(), as instants.
Boundaries ==
  {enabledAt[t] + Earliest(t) : t \in enabled}
    \cup {enabledAt[t] + Latest(t) : t \in {u \in enabled : HasDeadline(u)}}

BoundaryDue == \E b \in Boundaries : b <= now

StayAwake ==
  \/ wait.latch
  \/ WorkQueued
  \/ inFlightCount = 0 /\ (life.closed \/ BoundaryDue)

FlushReturn ==
  /\ pc = "flush" /\ StayAwake
  /\ wait' = [wait EXCEPT !.latch = FALSE]
  /\ pc' = "completions"
  /\ callout' = FALSE
  /\ UNCHANGED <<tokens, retained, sched, flights, ext, pass, life, clock, minted>>

Park ==
  /\ pc = "flush" /\ ~StayAwake
  /\ wait' = [wait EXCEPT !.waiter = ~life.closed,
                          !.timer = IF life.closed \/ BoundaryDue \/ Boundaries = {} THEN Never
                                    ELSE Min(Boundaries)]
  /\ pc' = "parked"
  /\ callout' = FALSE
  /\ UNCHANGED <<tokens, retained, sched, flights, ext, pass, life, clock, minted>>

Resume ==
  /\ pc = "parked" /\ wait.woken
  /\ wait' = [wait EXCEPT !.waiter = FALSE, !.timer = Never, !.woken = FALSE]
  /\ pc' = "completions"
  /\ callout' = FALSE
  /\ UNCHANGED <<tokens, retained, sched, flights, ext, pass, life, clock, minted>>

\* Queued events are refused, the reason named, the last snapshot reported.
Exit ==
  /\ pc = "exit"
  /\ externalQueue' = <<>>
  /\ life' = [life EXCEPT !.reason = IF @ # "running" THEN @ ELSE IF life.terminal THEN "terminal"
                                     ELSE IF life.closed THEN "closed" ELSE "quiescent"]
  /\ pc' = "ended"
  /\ callout' = TRUE
  /\ UNCHANGED <<tokens, retained, sched, flights, cursor, prefix, injected, pass, wait, clock,
                 minted>>

-----------------------------------------------------------------------------
(* From outside the loop.                                                   *)

HostRuns == Yielded \/ callout

\* wakeUp(): resolve the waiter, or latch.
WokenUp == IF wait.waiter THEN [wait EXCEPT !.woken = TRUE] ELSE [wait EXCEPT !.latch = TRUE]

Minted(n) == minted + n <= MaxTokens /\ minted' = minted + n

\* The tokens an action outputs, the relayed ones under the name it was matched on.
Written(t, out) ==
  [i \in DOMAIN out |->
     [pid |-> out[i].pid,
      tok |-> [id |-> minted + i, name |-> IF out[i].name = "matched" THEN matched[t] ELSE NoName]]]

ActionSettles(t) ==
  /\ Yielded /\ flight[t] = "running"
  /\ completionQueue' = Append(completionQueue, t)
  /\ \/ /\ t \in MayFail
        /\ flight' = [flight EXCEPT ![t] = "failed"]
        /\ UNCHANGED <<output, minted>>
     \/ \E out \in Productions[t] :
          /\ Minted(Len(out))
          /\ flight' = [flight EXCEPT ![t] = "done"]
          /\ output' = [output EXCEPT ![t] = Written(t, out)]
  /\ wait' = [WokenUp EXCEPT !.woken = pc = "parked"]
  /\ UNCHANGED <<pc, callout, tokens, retained, sched, consumed, matched, seen, inFlightCount, ext,
                 pass, life, clock>>

TimerFires ==
  /\ pc = "parked" /\ wait.timer # Never /\ wait.timer <= now /\ ~wait.woken
  /\ wait' = [wait EXCEPT !.woken = TRUE]
  /\ UNCHANGED <<pc, callout, tokens, retained, sched, flights, ext, pass, life, clock, minted>>

Tick ==
  /\ now < MaxNow
  /\ now' = now + 1
  /\ UNCHANGED <<pc, callout, tokens, retained, sched, flights, ext, pass, life, wait, cycleNow,
                 minted>>

\* inject() and injectNoAwait(); a refused call changes nothing.
Inject(p, n) ==
  /\ HostRuns /\ injected < MaxInject
  /\ ~(life.closed \/ life.draining \/ life.terminal)
  /\ Minted(1)
  /\ injected' = injected + 1
  /\ externalQueue' = Append(externalQueue, [pid |-> p, tok |-> [id |-> minted + 1, name |-> n]])
  /\ wait' = WokenUp
  /\ UNCHANGED <<pc, callout, tokens, retained, sched, flights, cursor, prefix, pass, life, clock>>

Drain ==
  /\ HostRuns /\ ~life.draining
  /\ life' = [life EXCEPT !.draining = TRUE]
  /\ wait' = WokenUp
  /\ UNCHANGED <<pc, callout, tokens, retained, sched, flights, ext, pass, clock, minted>>

Close ==
  /\ HostRuns /\ ~life.closed
  /\ life' = [life EXCEPT !.draining = TRUE, !.closed = TRUE]
  /\ wait' = WokenUp
  /\ UNCHANGED <<pc, callout, tokens, retained, sched, flights, ext, pass, clock, minted>>

-----------------------------------------------------------------------------
Orchestrate ==
  \/ Run
  \/ \E t \in Transitions : CompleteFailed(t) \/ CompleteOk(t)
  \/ Deposit \/ SettleCompletion \/ DepositThrow
  \/ BeginExternal \/ Admit \/ AdmitThrow \/ EndExternal
  \/ updateDirtyTransitions \/ enforceDeadlines \/ Decide
  \/ \E t \in Transitions : FireSkip(t) \/ FireBegin(t)
  \/ ExecuteOp \/ PeekReads \/ FireStart \/ FireRegister \/ FireDone
  \/ AwaitEnter \/ FlushReturn \/ Park \/ Resume \/ Exit

Terminated == pc = "ended" /\ UNCHANGED vars

Next ==
  \/ Orchestrate
  \/ FireThrow
  \/ \E t \in Transitions : ActionSettles(t)
  \/ TimerFires
  \/ Tick
  \/ \E p \in EnvPlaces, n \in Names \cup {NoName} : Inject(p, n)
  \/ Drain
  \/ Close
  \/ Terminated

Spec == Init /\ [][Next]_vars

-----------------------------------------------------------------------------
(* Properties.                                                             *)

Counts(qs) == [p \in Places |-> Len(qs[p])]

\* The queues alone, by the arcs and the names, enable t.
CallsFor(t) == ArcsSatisfied(t, Counts(queues)) /\ (Keys[t] # {} => BindingIn(t, queues) # NoName)

\* Words, sparse masks, caches and dirty bits say the same as the queues: a transition that is
\* not marked dirty and not in flight carries the flag its arcs and its join call for.
FlagsExact ==
  pc \notin {"new", "consume", "reset"} =>
    /\ \A p \in Places : HasBit(bits, p) <=> queues[p] # <<>>
    /\ \A t \in Transitions \ (DirtyBits \cup InFlight \cup {firing}) :
         /\ t \in enabled => CallsFor(t)
         /\ CallsFor(t) /\ ~HardDeadline(t) => t \in enabled
    /\ enabledCount = Cardinality(enabled)

\* initMatchCaches(): "the cache can never desync" - outside a firing of the join, a matcher
\* that is still in use holds exactly the correlating tokens of its places.
MatchersInStep ==
  \A t \in Transitions :
    cache[t] # <<>> /\ ~(pc = "consume" /\ firing = t) =>
      \A p \in Keys[t] : cache[t][1][p] = Correlating(queues[p])

\* What an action that has been called may rely on (EXEC-013, NU-020): its required tokens, of
\* one name on the correlated inputs, and a token to read on every read place that its own
\* inputs left one on, whatever its resets then drained.
ActionSeesItsTokens ==
  pc = "start" =>
    LET t == firing
    IN /\ \A p \in InputPlaces(t) : Len(consumed[t][p]) >= Required[t][p]
       /\ \A p \in Keys[t] : \A i \in 1..Required[t][p] :
            consumed[t][p][i].name = matched[t] /\ matched[t] # NoName
       /\ Reads[t] \ InputPlaces(t) \subseteq seen[t]

\* What the rest of the program of the firing under way takes from p: all there is if a reset
\* is to come, what the input opcode would take otherwise.
ToDrain(p) ==
  \/ pc = "consume" /\ p \in Resets[firing]
  \/ pc = "reset" /\ \E i \in op..Len(Program.ops) : Program.ops[i].pid = p

ToTake(p) == pc = "consume" /\ \E i \in op..Len(InputSpecs[firing]) : InputSpecs[firing][i] = p

StillToTake ==
  [p \in Places |->
     IF ToDrain(p) THEN Len(queues[p])
     ELSE IF ToTake(p) THEN Len(TakenBy(firing, [op |-> OpcodeOf(firing, p), pid |-> p], queues))
     ELSE 0]

\* How many of the entries of out go to p.
Landing(out, p) == Cardinality({i \in DOMAIN out : out[i].pid = p})

Firings == InFlight \cup (IF pc \in {"consume", "reset", "start", "deposit"} THEN {firing} ELSE {})

\* A completion shows when it is over: until then what it has put down is not there.
netMarking == [p \in Places |-> Len(queues[p]) - StillToTake[p] - produced[p]]

\* Whose firing or completion may be cut short: the key function of the join that takes a token
\* is asked when the token is put down.
Faulty ==
  MayThrow \cup {t \in Transitions :
                  \E out \in Productions[t], u \in MayThrow :
                    \E i \in DOMAIN out : out[i].pid \in Keys[u]}

netHeld ==
  [t \in Transitions |-> [p \in Places |->
     IF t \notin Firings THEN 0
     ELSE Len(consumed[t][p]) + IF t = firing THEN StillToTake[p] ELSE 0]]

Net == INSTANCE PetriNet WITH
  InitialMarkings <- {Counts(q) : q \in InitialQueues},
  EnvPlaces   <- EnvPlaces \cap Places,
  Productions <- [t \in Transitions |-> {[p \in Places |-> Landing(out, p)] : out \in Productions[t]}],
  Faulty      <- Faulty,
  Correlated  <- Keys,
  m <- netMarking, busy <- Firings, held <- netHeld

\* The flat-array executor plays the same token game as the bitmap executor.
PlaysTheNet == Net!NetSpec
=============================================================================
