# libpetri in TLA+

libpetri executes, debugs, composes and verifies coloured, timed Petri nets. The same written
specification (`src/spec/`) is implemented in TypeScript, Java, Rust and Python; these models
follow the TypeScript implementation (`src/typescript/src/`), whose scheduler is a single
JavaScript thread with explicit suspension points, and the debug client (`src/debug-ui/src/`).
Paths below are relative to `src/typescript/src/` unless they start with `src/`.

Contents: [inventory](#inventory), [modules](#modules-and-their-correspondence-to-the-code),
[runs](#runs), [bounds](#bounds), [fairness](#fairness), [proofs](#proofs),
[findings](#findings), [observations](#observations), [what is not modelled](#not-modelled),
[plan](#plan).

## Inventory

| component | state it keeps | operations | hard behaviour |
|---|---|---|---|
| `runtime/bitmap-net-executor.ts` | marking and its presence bitmap, dirty set, enabled flags and their counter, enablement clocks, in-flight firings, completion and external queues, shutdown flags, wake-up latch and waiter | `run`, `inject*`, `drain`, `close`, `snapshot`; the loop: complete, admit, update dirty, enforce deadlines, fire, await | actions, timers and host calls interleave with the loop; host code also runs *inside* it (every event append, every action's synchronous prefix); firings fail half-way |
| `runtime/precompiled-net-executor.ts`, `runtime/precompiled-net.ts` | token queues by place number, 32-bit masks, compiled consume programs, ready queues, match caches | as above | signed words; the order of consuming, peeking and resetting inside a firing; the same hand-maintained caches in other arrays |
| `runtime/compiled-net.ts`, `core/in.ts`, `core/timing.ts` | masks, reverse index, thresholds, intervals | `canEnableBitmap`, `affectedTransitions`, `consumptionCount`, `restartThresholds` | an arc missing from the reverse index is a transition that is never looked at again |
| `runtime/match-engine.ts` | per-name FIFO min-queues, a deque of ready names, a lazily cleaned heap | `add`, `consume`, `best`; `selectMatchName`, `findBinding` | a cache beside the marking, fed by hand; ties and out-of-order creation times; key functions that throw |
| `core/out.ts`, `runtime/executor-support.ts` | none (trees) | build checks, `enumerateBranches`, `ambiguousBranches`, `validateOutSpec`, `produceTimeoutOutput` | searches that avoid enumerating an exponential set |
| `core/transition-context.ts`, `core/token-output.ts` | the collector an action writes to, the one the executor harvests, the place aliases | `output`, `detachForTimeout`, `rawOutput`, `resolve` | an action that lost against its timeout goes on writing |
| `core/petri-net.ts`, `subnet-def.ts`, `instance.ts`, `internal/subnet-rewriter.ts` | the builder: parts, bindings, fusion sets, aliases, membership | `compose`, `bindPort`, `bindChannel`, `fuse`, `build`, `bindActions` | renamings applied on top of renamings, in any order of calls |
| `debug/` | event stores with a live tail, session registry, marking cache, archives, per-client subscriptions | append, subscribe, unsubscribe, seek, play, filter, breakpoints, import, disconnect | broadcasts in microtasks between commands; eviction; cached snapshots of a growing store |
| `src/debug-ui/src/` | a Petri net of its own, socket, replay buffer and checkpoints, timer, page | its transitions and the browser callbacks | answers that come late or unasked, connection loss, session switches |
| `verification/analysis/` | state classes (difference bound matrices), graphs, stubborn sets, components | successors, bounded build, SCCs | clocks of transitions disabled and re-enabled; reductions that must keep deadlocks |
| `verification/smt-verifier.ts`, `encoding/`, `invariant/`, `z3/`, `state-space-cache.ts` | the prepared net, the graph cache | `verify`: a ladder of routes | each route may answer only where its assumptions hold |
| `verification/analysis/name-*.ts`, `nu-scg-verifier.ts` | name markings, name-aware graph | the exact routes for joins by name | symmetric names, pruning by priority |
| `verification/open-net/` | contract, closure, what has been found | `verifyOpenNet` | two routes that must decide the same contract |
| `export/`, `viewer/`, `doclet/`, `render-dom/`, other languages, Lean | - | - | see [not modelled](#not-modelled) |

How they interact: an executor compiles a net once, then owns the marking. Actions run
asynchronously and settle a promise whose reaction queues a completion and wakes the loop. Hosts
call `inject`, `drain`, `close` and `snapshot` from anywhere their code runs. Every state change
is appended to the event store synchronously; the debug server wraps that store, broadcasts its
tail to clients and answers their commands; the client is a net run by the library's own
executor. The verifier reads the same nets and claims something about every run of the executor.

The hazards of this code, each at its line with the properties that watch it, are in
`PROJECT.json` under `hazards`.

## Modules and their correspondence to the code

| module | models |
|---|---|
| `CompiledNet` | masks as sets, reverse index, consumption counts, restart thresholds, intervals; `ArcsSatisfied` is the reference meaning of the arcs |
| `PetriNet` | abstract specification: the token game with asynchronous firings, no caches, no phases |
| `BitmapExecutor`, `BitmapExecutorMC` | the first executor, the nets of its runs |
| `BitmapExecutorProofs`, `BitmapExecutorSafety` | its theorems: the loop's caches; the promises to the host, the refinement of `PetriNet`, the clocks |
| `PrecompiledNet`, `PrecompiledExecutor`, `PrecompiledExecutorMC` | the second executor: masks as words, token queues, consume programs, matchers |
| `PrecompiledExecutorProofs`, `PrecompiledExecutorRefinement` | its theorems: words, flags and counter, matchers, the tokens of a firing; the refinement of `PetriNet` |
| `ReadyHeap`, `MatchEngine`, `MatchEngineMC` | the nu-net join, one transition at a time |
| `OutSpec`, `Firing`, `FiringMC` | output specifications as trees; one firing's context, its race against the timeout, its settlement |
| `Replay` | what an event does to a displayed state; checkpoints, seeking, filters, search |
| `DebugServer`, `DebugServerMC` | event stores, registry, handler, marking cache, archives |
| `DebugServerProofs`, `DebugCacheProofs` | its theorems: listeners and the registry's capacity, the marking cache |
| `FiniteMaxima` | maxima over finite sets, for the proofs of the executors and the server |
| `DebugNet`, `DebugUI`, `DebugUIMC` | the client's net and the executor's cycle over it; its actions, callbacks and server |
| `DebugUIProofs` | its theorems: the phases of the session, the router's permit, nothing waits at rest |
| `VerifierNet` | nets as the analyses read them: branch outcomes, terminals, rest sets, in-flight splits, reaping, closures |
| `StateClassGraph`, `GraphBuild`, `GraphBuildMC` | difference bound matrices, successors, stubborn sets, SCCs; the construction step by step |
| `FlatNet` | the flat net, incidence, place invariants, siphons and traps, the checks of linear proofs |
| `Verifier`, `OpenNet`, `VerifierMC` | `SmtVerifier.verify()` phase by phase with its cache; `verifyOpenNet()` on top of it |
| `NameLayer`, `NuVerifier`, `NuVerifierMC` | the name-aware graph and its decision |
| `Composition`, `CompositionMC` | net builder, subnet definitions, instances, ports, channels, fusion |

**BitmapExecutor.** The fields of the class are the variables, under the class's names where TLA+
allows; `gap`, `accepted`, `admitted` and `refused` are history. `pc` names the phase of
`executeLoop()`. One action is one stretch of the loop that no host code can interrupt:
`CompleteFailed/CompleteOk/Deposit/SettleCompletion/CompletionsDone` are
`processCompletedTransitions()`, one deposit per step because each is reported;
`SkipExternal/Admit/AdmitDone` are `processExternalEvents()` with its prefix and cursor;
`FireSkip/FireBegin/Consume/FireStart/FireRegister` a firing, which takes one token at a time
because each is reported before the next goes, with `FireThrow` the containment of one that throws
at any of them, so that an `exactly(2)` or `all` input may be left half taken; `DepositThrow` ends a
completion behind any output, and a second leg of `Admit` rejects an event whose token has landed.
What throws there is the clock: `epochMs()` is evaluated outside the `try` of `emitEvent`. It is
modelled where the code contains it (`MayThrow`, `MayReject`); anywhere else it ends `run()`.
`AwaitEnter/FlushReturn/Park/Resume` are `awaitWork()`. `ActionSettles`, `TimerFires`, `Tick`,
`BudgetExpires` and the host's `Inject`, `Drain`, `Close` come from outside and are enabled only
where JavaScript can run them: while the loop is suspended, before and after the run, and, for the
host, wherever the last step set `callout`. A place holds a number of tokens; an action outputs one
of the bags `Productions[t]`.

**PrecompiledExecutor.** The same loop over the arrays of `PrecompiledNet`. Tokens have a number,
which is their age, and a name, because queues, peeks and matchers are about which token is where. A
word is the set of its bits; the result of `&` is a set of bits with a sign, which is what the
code's `>>> 0` is there for. `InputSpecs` and `ResetArcs` give the order of declaration the opcode
programs follow. The ready queues of a pass are one set, fired in the order `Precedes`. A match
cache is the tokens it was given; `MatchEngine` shows that its answer is then the canonical one.
`PlaysTheNet` instantiates `PetriNet` with a second refinement mapping. A token's number stands for
one occurrence in a queue: the code removes tokens by position, the model by number, and
`QueueAssumption` therefore asks that no initial queue has a number twice. The net of `PetriNet` is
uncoloured, so what a join takes depends on names it does not see: for a correlated input that gives
`all`, `MayTake` allows any number from the required one up to all (every token *of one name*), for
every other arc it asks for the exact count. An input opcode takes a token at a time, and the
matched loop asks the key function again for each: `FireThrow` may come between any two. A reset
empties its place in one call. So a firing that throws leaves any part of an input, and all or
nothing of a place it only resets (`GivenBack` in `PetriNet`). `KeyThrows` is the call in
`cacheAddToken()`, before the token enters its queue: it abandons the outputs of a completion that
are still to land (`DepositThrow`, `CutShort` in `PetriNet`) or rejects an accepted event
(`AdmitThrow`, no step of the net). `Faulty` are the transitions that can meet such a throw; no
other transition may abort or be cut short in `PetriNet`.

**MatchEngine.** `place` is the marking of the correlated inputs as sequences of names and
creation times; `matcher` is the `IncrementalMatcher` with its queues, deque and heap as the code
has them, stale entries included.

**OutSpec and Firing.** The tree walks are recursive functions on the set of specifications,
which is closed under subtrees, and follow the code's case analysis (strides, offsets, rivals).
`Firing` starts with a build, then lets the action write, settle, fail or hang against the timer.

**DebugServer.** Everything runs on one thread. An append queues its broadcast as a microtask, so
commands and further appends may come in between; reading an archive is an await. What a client
makes of the messages is `Replay`. `clientConnected` has no guard, as in the code: under an id in
use it replaces the client and cancels nothing, and the listeners it drops are marked `stray`
([observations](#observations)). What a stray listener sends goes to a sink no command reaches any
more and is not followed.

**DebugUI.** All transitions of `buildDebugNet()` with their arcs and declaration order, one
action each. Every action but `t_render_dot` and `t_toggle_subnets` is synchronous, so its outputs
are deposited in the next cycle, and the executor runs to rest in microtasks between two browser
callbacks: callbacks are enabled only `AtRest`. An action whose throw shows in what is modelled has
a second leg; where it would not show (a modal, the speed buttons) one leg stands for both. The
repaints have no `try` around them: their second leg spends the dirty flag and the frame and leaves
the panel as it was, which `screen.lost` records until the next repaint that succeeds. The fold of
the checkpoints works on a snapshot's own arrays: `Rewritten` gives what that leaves in the buffer,
and `replay.rewritten` the places at which some event there is no longer what the server sent. The
server is the queue of answers on the socket, which may be late, refused, unasked or cut off.

**StateClassGraph, GraphBuild.** The operators follow the files under `verification/analysis/`;
`GraphBuild` expands one class per step and compares with states that carry integer clocks.

**Verifier.** `prepare()` derives what every route reads; then one action per phase: early linear
bound, enumeration with the cache, structural check, linear bound, state equation with its
refinements, bounded runs, the fixpoint query with its replay and certificate check, timing of
the counterexample. The solver is external: it proposes anything within the bounds or nothing, and
the code's own re-checks (`checkInductiveExact`, `checkRankingExact`, `checkCertificate`, the
replayer) are modelled. The reference is the executor on the caller's net, with actions that take
time between consumption and deposit.

**OpenNet.** `closeOpenNet()` adds sources, arrivals, declines and the neighbours' transitions;
`GraphRoute` decides where the untimed graph closes; `AskPart/PartAnswered/Conclude` put each
part of the contract to `Verifier` as a query of its own. The reference runs the subnet next to an
environment that delivers tokens, without any closure.

**NuVerifier.** Route B one class at a time, Route A behind `applyNuGuard()`; when the call has
ended, the executor runs the net with real names on its tokens.

**Composition.** A name is the sequence of its segments. `parts` and `glue` are history: which
authored transitions went into a transition, which names were made one place. The properties
compare the flat net with that account.

The map in `PROJECT.json` gives the lines each definition stands for. A helper whose lines lie
inside those of a definition already listed is not listed apart.

## Runs

| run | instance | shows |
|---|---|---|
| `shop` | environment place, inhibitor, reset, read, `all` and `exactly` inputs, a conflict, a terminal, failing firings, firings and completions that throw at any token, events rejected by the clock, a budget; 3 injections | bitmap, dirty-set completeness, no lost wake-up, restore points, settled injections, true reasons, refinement of `PetriNet` |
| `timed_live` | an immediate transition that takes and returns what an exact and a window transition need | no firing early or late; under fairness enabled transitions progress, injections settle, drain ends the run |
| `precompiled` | five places in words of two bits, a join with a relay, read and reset of one place, a hard window; keys that throw in a firing, a deposit or an admission | flags, matchers, peeked tokens, refinement of `PetriNet` |
| `match` | two joins, one with a greedy and a shared input; 2 names, 3 creation times, 5 deposits | canonical binding, exact consumption |
| `firing` | all 3244 trees of two levels over three places and a forward; 3 writes | ambiguity search and validation against their definitions, outcomes do not mix, a budget ends a hanging action |
| `debug_server` | 2 clients, 3 session ids over 2 registry places, stores of 4 events | listeners are owned (or stray, by a replaced connection), live streams exact, cached markings exact while the store is complete |
| `debug_ui` | 2 sessions, batches of 3, checkpoints every 2 events | one session phase, no stuck token, replay exact where the buffer was not rewritten, display truthful but for a panel whose last repaint threw |
| `state_classes` | five nets with every combination of four intervals, cut off at several sizes, with and without stubborn sets | graph exact, deadlocks kept, liveness analysis exact |
| `verifier` | some 60 queries on a dozen nets, two calls in a row; some 60 contracts on a dozen subnets | proven verdicts sound, violations real, cache transparent, laws true, contracts decided alike on both routes |
| `nu_verifier` | joins with forks, mints, relays, consumers, priorities, late steps, terminals, an environment | proven verdicts hold of executor runs, violations are real in the unordered token game |
| `compose` | four subnets joined, merged, fused and nested, two levels, up to 5 and 4 calls in any order | flat net and ownership exact, actions reach their places |
| `nu_pruning` | three transitions, expects a violation | see [findings](#findings) |

Every property of a passing run has a mutant in `PROJECT.json`: a definition changed the way a
plausible bug would change it, under which the run fails.

## Bounds

* `MaxInject` bounds host events: two suffice for a walk of the queue to be overtaken, three for a
  third to arrive in the next phase. `MaxNow` bounds how far the clock moves by itself; past it
  time still passes every boundary of an enabled timed transition. `MaxTokens` bounds the
  identities of tokens in `precompiled`.
* `WORD_SIZE = 2` instead of 32 makes a three-transition net span words and set a sign bit.
* `MaxAdds` (5) is enough for two ready names, a stale entry, an inversion and the way back to the
  deque; `MaxWrites` (3) covers every subset of three places. Two levels of nodes make every case
  of the branch searches meet every other.
* The debugger runs have one budget per scenario (`Budgets`): how many registrations, appends,
  commands, disconnections, faults, clicks it may spend. `MaxEvents = 4` with a snapshot every
  second event lets a store overflow around a cached snapshot.
* Verifier: `Box` (4) bounds the tokens of a place, `CountBound` (3) firing counts, `RankBound`
  (4) ranking weights, `MaxRefinements` (2), `MaxCalls` (2: the second call meets the cache of the
  first). The nets stay within them except where an environment is unbounded. `Infinity` is 1000,
  above every time and count that occurs. `Pool` has three names, one more than any property of
  the run tells apart; `EnvSupply` bounds an unbounded environment.

`CHECK_DEADLOCK FALSE` is set where the modelled system really may stop: all deposits made, the
firing settled, the script or budget spent, the calls answered. The executor runs check deadlock;
their only final state is `ended`, which stutters explicitly.

## Fairness

`BitmapExecutor!Fairness`: weak fairness of the loop (a JavaScript thread does not stop in the
middle of synchronous code, and a settled await resumes), of the clock and of an armed timer;
strong fairness of each action's settlement, because its reaction can run only at the loop's
suspensions, which come and go. That every action settles is an assumption about user code; the
liveness statements are about the executor given that. The host owes nothing: no fairness on
`Inject`, `Drain`, `Close` or the budget. `FireThrow` is not fair either.

`Firing!FairSpec` assumes the opposite of the action: it owes nothing and may hang. Only the
build, the timer and the processing of a queued completion are fair.

The other runs check safety only.

## Proofs

TLAPS proves the theorems below for every value of the constants that satisfies the named
assumptions: `NetAssumption` (a finite set of places, typed arcs, non-empty intervals) and
`ExecutorAssumption` for the first executor, `WordAssumption` (words of at least one bit, places
numbered from 0, joins over inputs, arcs declared once) and `QueueAssumption` (typed initial queues
with distinct token numbers, productions and bounds) for the second, `ServerAssumption` (positive
capacities and interval, a start time per archive) for the debug server; the debug client's proofs
need none of their own. The model checker evaluates all of them. Every inductive invariant was
checked by TLC on the instance of its run before it was proved.

| module | theorems | states, for every run |
|---|---|---|
| `BitmapExecutorProofs` | `LoopInvariantHolds`, `TypeCorrect`, `BitmapIsFaithful`, `DirtySetComplete`, `CountExact` | the caches beside the marking are exact wherever they are read; the marking never goes negative |
| `BitmapExecutorSafety` | `ExecutorInvariantHolds`, `WakeUpNeverLost`, `InjectionsNeverOrphaned`, `RestorePointsComplete`, `ReasonsTruthful`, `RefinesNet`, `TimingInvariantHolds`, `FiringsOnTime` | the loop never sleeps over work, every accepted injection is settled once, a restore point misses no token, the termination reason is true; the executor implements `PetriNet`; a transition starts within its interval, on a clock restarted after the last marking that disabled it |
| `PrecompiledExecutorProofs` | `FlatInvariantHolds`, `FlagsAreExact`, `MatchersStayInStep`, `ActionsSeeTheirTokens` | the second executor's words, flags, counter and matchers agree with its queues wherever they are read; a called action has its tokens |
| `PrecompiledExecutorRefinement` | `PlayInvariantHolds`, `PlaysTheTokenGame` | token numbers are never in two places at once; the second executor implements the same `PetriNet` |
| `DebugServerProofs` | `ServerInvariantHolds`, `ListenersAlwaysOwned` | no listener outlives its subscription unless its connection was replaced under the same id, the registry keeps to its capacity |
| `DebugCacheProofs` | `CacheInvariantHolds`, `CacheAlwaysExact` | the marking cache answers as a replay from scratch while the store is complete |
| `DebugUIProofs` | `UIInvariantHolds`, `SessionPhasesExclusive`, `NothingIsStuck` | the client is in one session phase and mode, the router never loses its permit, at rest no message, frame part or tick waits |

**The loop (`LoopInvariant`).** Neither the bitmap, the dirty set nor the counter is inductive
alone. The bitmap is deliberately wrong while a firing takes its tokens, so `BitmapCovers` says how
wrong it may be: it claims too much, and only for the places of the firing. Flags of transitions
the firing does not touch stay right in that window (`UntouchedStaysExact`); those it does touch
are dirty before anybody looks. `PhaseOK` ties the phase to the transition being fired and to the
walk of the external queue, without which the reconciliation after a throw and the counter of a
completed flight have nothing to stand on. One frame lemma per group of variables names the
actions that change it, so each conjunct is proved against those actions only; `CanEnableExact`
shows that the two-phase test (bits, then counts) equals the meaning of the arcs when the bitmap
is faithful; `UntouchedUnchanged` that a transition outside the reverse index of a place does not
notice it.

**The host (`ExecutorInvariant`).** `FlightsOwned` and `QueueOwned` say who holds the tokens of a
firing and which completions can be queued; `TerminalLatched` that the terminal latch is the
truth about the terminal places; `EventsAccounted` that every accepted injection is admitted,
refused or still queued behind the cursor; `EndPhase` that the loop leaves only in a state that
accepts no event, and at rest unless it was told to stop; `WaitPhase` that from the decision to go
on until it is parked the loop has a reason to, or whoever took the reason away has raised the
latch. The four promises follow from it together with `LoopInvariant`: a parked loop that nobody
has woken and that has work would have had it at the decision, or somebody brought it since, and
both are excluded step by step of the suspension.

**The clocks (`TimingInvariant`).** `FiringOnTime` speaks of markings that are gone: those that
disabled the transition since its flag was raised. `gap` is the set of flagged transitions that met
one, and `GapNoticed` and `GapComplete` relate it to what the executor knows: a transition that
loses its arcs in a pass is flagged by the firing that took its tokens (that firing has fallen below
the restart threshold of the place, a maximum over the transitions that need it:
`ThresholdReached`), one that loses them to a deposit stays inhibited until it is evaluated.

**The refinement.** A firing of the executor takes its tokens one at a time and a completion lands
one output at a time, with host code, which may throw, in between; the net does each at once. The
mapping counts what is still to be taken as taken, and what a completion has put down as not there
until the completion is over, for only then is it known whether it was whole. Then `FireBegin` is
`Start`, `SettleCompletion` is `Complete`, `DepositThrow` is `CutShort` (what landed is between
nothing and one of the bags the action may produce), `CompleteFailed` is `Fail`, `FireThrow` is
`Abort` (an input gives back any part), `Admit` is `Arrive`, and every other step is a stutter.
`PetriNet` is a safety specification; no fairness is carried over.

The second executor implements the same net (`PlaysTheTokenGame`), by the same mapping over queues
of tokens. What is still to be taken is there what the rest of the consume program will take:
everything, where a reset is to come (`ToDrain`), what the opcode would filter out otherwise
(`ToTake`). A filter removes tokens by their number, so the count of what it removes is right only
if no number is in a queue twice, and it stays so only if none that waits to land is in a queue
already. That is `UniqueTokens`: over the queues, the outputs of every firing and the accepted
events behind the cursor, no number occurs twice and none is newer than the last minted
(`UniqueShrinks`, `UniqueGrows`; an output is minted by `Written`, a suffix of the event queue stays
when a walk ends). `HostInvariant` adds what the steps of the net ask for as guards: a queued
completion belongs to one firing that has settled (`CompletionsInFlight`), what it deposits is a
production of its transition (`OutputsWritten`), what is admitted arrives at an environment place
(`ArrivalsKnown`), a marked terminal place is latched (`TerminalLatched`), and until the resets of a
firing begin it holds tokens of its inputs only (`TakesFromInputs`). With `FlatInvariant` these are
`PlayInvariant`; there is one lemma per action of the net and one for each kind of hidden step, and
`NetStep` collects them.

**The flat arrays (`FlatInvariant`).** The three properties of the second executor need each other.
A flag is right only if the join behind it was tested on the right tokens, so `FlagsRight` needs
`MatchersExact`. A matcher gives up the tokens of its join when the firing begins, the queues give
them up opcode by opcode, and what the opcodes find decides whether both agree in the end; so
`MatchersExact` says of a join that is firing that its matcher lacks, for every input whose opcode
is still to come (`Pending`), the first tokens of the bound name, and it needs `FiringSupplied`:
what an input has still to give is in its queue, what it has given is held under the bound name.
That in turn rests on `BitsExact` and the test before the firing, and on `IdleHoldsNothing`, by
which a firing starts with empty hands. `BitsExact` and `Lagging` say what may be wrong while
tokens are on their way out: bits of the places of the firing, claiming too much, and flags of the
transitions the firing will mark. That a queue of a matched join has no other taker, which
`Eligible` establishes at construction, is what keeps a foreign firing from moving it.

Below it are three layers of lemmas. *Words*: a number has its own bit in its own word, the last
word of `markAllDirty()` stops at the last transition, `MaskExact` reads a mask back as a set.
*Sparse masks*: `SparseKinds` and `SparseExact` show that the three forms of a mask, with the
comparisons of signed and unsigned results, decide the two set conditions. *Filters*: `Kept` walks
a queue once; that walk exists and is unique, filtering commutes with appending and with filtering
(`KeptAppend`, `KeptTwice`), so the matcher and the queues pick the same oldest name
(`SameBinding`, `BindingExact`) and the tokens of that name are there (`BindingSupplied`).

**Listeners (`ServerInvariant`).** Beside the shape of the records it says of every listener a
store tells that it belongs to the current subscription of a connected client, or is stray. A step
keeps every subscription with its listener, or takes the listener it drops out of every store; the
one step that does neither, a connection under an id in use, marks the listeners it drops. For the
capacity: of a full registry some session goes, because some session has none before it in the
eviction order (`SomeoneEvicted`), so another may enter.

**The marking cache (`CacheInvariant`).** Exactness of the answers is not inductive; exactness of
each cached snapshot is: entry `j` is the state after `j * SNAPSHOT_INTERVAL` events, *if* the
subscription's store is the one registered and has evicted nothing. Both conditions, once lost, are
lost for good, since stores are never registered twice and the count of evicted events only grows;
so a cache that was extended over another store's events is never believed again. The data part
is `ReplaySplit`: replaying a prefix and then the rest is replaying the whole.

**The debug client (`UIInvariant`).** The properties count tokens, those already produced and not
yet deposited included, so that they hold in the middle of a cycle too. Three of the equations are
conserved by every transition: one token circulates among the router's permit, its dead letter and
the message places (`OneTokenIn(Permit)`), one among the phases of a session, and `SumsHold` ties
modes and `uiState` to the phase. They do not say that nothing waits at rest. `Agenda` does the
first half: what is still to start is enabled, and at rest no transition is and nothing is
produced, so a message that waits must lack what every transition that takes it asks for. For the
message places that is impossible by the equations; for frames it needs `FramesCalm`: from the
animation frame until its parts are worked off no transition can fire that ends or begins a
session, so each part meets the `uiState` the frame found. `SessionHeld` adds that
`shared.currentSession` is the value of every `subscribedSession` token. The table of arcs is
looked up once (the `...Arcs` and `...Rows` lemmas). Of each transition `Kept` asks what can be read
off its arcs and outputs; `StartKeeps` shows that this is enough, `WakeKeeps` the same of a
callback, and `NothingWaits` goes through the places at rest.

The prover cannot use the library's induction theorems, which take an operator as a parameter. The
inductions these proofs need - over subsets of a finite set (`FiniteMaxima`), over the length of
a replay (`ReplayExists`, `SameReplay`) and of a filtered queue (`KeepsExists`, `SameWalk`) - are
done with a least counterexample, whose existence the well-foundedness theorems give for sets.

**Only model-checked**, and why:

* Liveness (`timed_live`, `firing`): fairness and `ENABLED` are out of the prover's reach.
* `GraphBuild`, `Verifier`, `OpenNet`, `NuVerifier` and `Composition`: their modules, or modules
  they use, declare RECURSIVE operators, and what those compute is the content of the properties.
* `Firing` and `MatchEngine`: recursive functions over trees and sorted queues against a reference
  definition, an induction over data.
* `DebugUI!ReplayExact` and `DisplayTruthful`: what folds and filters over a recorded history
  compute, an induction over data.
* `DebugServer!LiveExact` is not a theorem for every script: a live subscriber is sent the state
  *and* the history, and folds the history into it, which ends in the right view when the history
  begins with a marking snapshot, as an executor's does.

## Findings

| run | the code | the comment |
|---|---|---|
| `nu_pruning` | `priorityDominated()` (`verification/analysis/name-state-class-graph.ts:342`) compares the earliest firing times of the whole class. With H (p to r, priority 1, after 2), X (a to b, immediate) and L (b and p to q, priority 0, after 1), `unreachable {q}` is proven; the executor fires X at 0 and L at 1, before H is ready | lines 311-312, "This is fully precise on the zone off-diagonal", and `priority-semantics.ts:38` |

## Observations

Disagreements met while modelling that are described here and not run. The properties are stated
so that they hold of the code as it is.

Executor:

* After `close()` the loop leaves only when nothing is in flight but keeps starting firings, so
  two overlapping self-sustaining transitions keep it alive (ENV-013,
  `src/spec/06-environment-places.md:174`).
* `shouldTerminate()` (`bitmap-net-executor.ts:702`) ignores the external queue when draining: an
  event accepted during the external-events phase is refused by the exit of the same cycle
  (ENV-011, line 141 of the same file).
* With an action in flight the loop suspends, without a timer, on a boundary already due
  (`bitmap-net-executor.ts:1433`, `clock.ts:180`).
* `And(C, Timeout(d, B))` builds, but a timed-out firing of it fails validation and deposits
  nothing (`src/spec/02-input-output-specs.md:308`).
* `if (flight.error)` (`:1228`): an action that rejects with `undefined` is settled as a success
  (`src/spec/04-execution-model.md:228`).
* An inhibitor chain repeats the cycle once per link; the comment at `:563` says at most one extra
  pass.
* `addToken()` of the bitmap executor feeds the matcher after the marking (`:1271`): a key function
  that throws there leaves a token in the place that bitmap, dirty set and terminal latch do not
  know of. The flat-array executor asks the key first. Joins are modelled in the latter, so
  `BitmapFaithful` speaks of nets whose keys do not throw.
* `forwardToHarvest()` deposits every token the context holds for the place, one peeked by a read arc
  of the same place included (`core/transition-context.ts:277-284`); `OutSpec!Forwards` counts the
  consumed ones.

Debug server: a second `clientConnected()` under an id in use (`debug-protocol-handler.ts:49-51`)
replaces the client state without `cancelAll()`: the listeners of the first go on streaming to its
sink until the store closes, out of reach of every unsubscribe and of `clientDisconnected`, whose
comment (line 53) says it cleans up. `ListenersOwned` excepts exactly these. The marking cache is
stale after an eviction or a re-registration (EVT-032, `src/spec/08-events-observability.md:604`),
hence `CacheExactWhileComplete`. Events while a subscription is paused or filtered are lost to its
live stream and indices drift. A broadcast pending to a replaced listener is delivered twice after a
re-subscribe. Re-registering an id may evict another session and leaves the old store open. A
batch's start index ignores evicted events. Sessions with one start time leave in map order
(`debug-session-registry.ts:360-378`); in the model a tie would evict them together, and the start
times of the run are distinct.

Debug client: `applyEventToTemp()` takes a snapshot event's token arrays by reference
(`playback.ts:146-147`) and pushes and shifts in place (lines 115, 120), so building the checkpoints
rewrites the snapshot in the replay buffer. A seek or step back to before the first checkpoint then
shows a marking no event prefix has; every session of an executor begins with a snapshot. With
`Intact == NetPlaces` both `ReplayExact` and `DisplayTruthful` fail, the first with one batch and
one move of the slider; as stated they speak of the transitions always, and of a place while no
snapshot of the buffer was rewritten at it. The repaints (`definition.ts:682-717`) catch nothing: a
throw uses up dirty flag and frame, and the panel stays stale until the state changes again, where
the comment at line 640 has the dirty flag stay until a repaint takes it.

Clicks of a replay act in live mode too; toggling a breakpoint appends a duplicate;
breakpoints never reach the server; seeking, stepping back, restarting and running to the end stop
the timer while `replayPlaying` stays marked; an `error` answer to a subscribe leaves
`subscribing` marked for ever (`definition.ts:389`); a re-mount of the old diagram can finish after
the new session's (`definition.ts:602`); a switch whose unsubscribe throws leaves the old session
streaming.

Composition: `mergePlaceAlias()` (`core/internal/subnet-rewriter.ts:603`) returns the instance's
alias when the caller's is empty, so a hand-written transition merged by a channel loses its
declared places at the next rewrite (`src/spec/11-modular-composition.md:676`); for this reason
`ActionsReachPlaces` is about transitions of one part. One caller transition bound to two channels
is not rejected (line 254), differing non-immediate timings are rejected where lines 296-303
intersect them, fusion sets of one member are not rejected, `PetriNet.bindActions` replaces the
actions of unnamed transitions by passthrough, and a throw in the middle of `compose()` leaves the
builder partly changed (the model ends the construction there).

Verifier: state-class graphs do not preserve "always possibly", so `isGoalLive` can be too strong
on timed nets (`time-petri-net-analyzer.ts:154`); `LivenessExact` is about untimed ones. Timed
graphs use strong deadlines where the executor reaps, as `reaping.ts` documents. A restart of a
transition in flight is a run of the Rust executor only, which the code notes in its reports. Route
B lets consumers and joins pick any name while the executor takes the oldest match: its `violated`
is real for the unordered token game, which is what `NamesViolationReal` says.

## Not modelled

* The Java, Rust and Python engines: other schedulers, other memory models. The Lean development.
* `export/`, `viewer/`, `doclet/`, `render-dom/` and the bundled diagram scripts: formatting,
  layout and rendering of finished nets, no state the other parts read.
* Precompiled executor: the run budget, the `getMarking` cache and `snapshot` (as in the bitmap
  executor, where the first and the last are modelled).
* A clock that throws where no `try` of an executor contains it: it ends `run()`.
* The text of fresh names and their scopes; places unknown to a net in the bitmap executor.
* Debugger: JSON, compression and storage back ends, breakpoints on token values, DOM widgets.
* Verifier: the limit of 50 places of the structural check (`structural-check.ts:84`), below which
  all nets of the runs stay; the SMT-LIB text and the solver process; the simplex that finds a slot
  bound (any weighting the cover check accepts is tried); reports and port traces; nu-joins,
  carriers and mints in an open net.
* The system clock's rounding: `Tick` moves time by whole units between any two reads.

## Plan

Done: 1. executor and token game; 2. the loop invariant and its consequences; 3. match engine;
4. output specifications and firings; 5. second executor; 6. debug server and client; 7. state
classes, verifier, names, open nets; 8. composition; 9. proofs of the first executor's promises to
its host, of its clocks and of its refinement; 10. proofs about the debug server's listeners,
capacity and marking cache; 11. proofs about the second executor's flags, matchers and firings;
12. unique token numbers in the second executor, and the proof that it plays the net; 13. throws at
every token of a firing, a completion and an admission of both executors, in the models and in the
refinement proofs; replaced connections; the rewritten replay buffer and repaints that throw.

Left, in this order:

14. `LiveExact` for scripts that begin with a marking snapshot;
15. snapshot and restore as a round trip, with fresh names across a restore;
16. nu-joins in open nets, which ask `NuVerifier` instead of `Verifier`.
