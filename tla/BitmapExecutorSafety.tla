------------------------ MODULE BitmapExecutorSafety ------------------------
(***************************************************************************)
(* What BitmapExecutor promises its host, for every net, host and bound:   *)
(* no lost wake-up, no orphaned injection, complete restore points, a      *)
(* truthful termination reason, firings on time; and that it plays the     *)
(* net: BitmapExecutor implements PetriNet.                                *)
(*                                                                         *)
(* The inductive invariant is LoopInvariant (BitmapExecutorProofs) with    *)
(* ExecutorInvariant on top of it, one lemma per part:                     *)
(*   FlightsOwned     (OwnedStep)       QueueOwned  (QueueStep)            *)
(*   TerminalLatched  (LatchStep)       EventsAccounted (AccountStep)      *)
(*   EndPhase         (EndStep)         WaitPhase   (WaitStep)             *)
(* The clocks stand on both: TimingInvariant, by                           *)
(*   ClocksRight (ClocksStep)   the interval, at the cycle's clock reading *)
(*   GapNoticed and GapComplete (GapStep)   the restarts: a transition     *)
(*     that loses its arcs in a pass is flagged by the firing that took    *)
(*     its tokens (ThresholdReached, DisabledFlagged), one that loses them *)
(*     to a deposit stays inhibited until it is evaluated.                 *)
(* The restart threshold is a maximum over a finite set, which exists by   *)
(* FiniteMax (FiniteMaxima).                                               *)
(***************************************************************************)
EXTENDS BitmapExecutorProofs, FiniteMaxima

USE DEF tokens, sched, flights, ext, pass, life, wait, clock

-----------------------------------------------------------------------------
(* What flights and firings hold.                                          *)

\* Only these steps touch what FlightsOwned reads.
LEMMA OwnedFrame ==
  ASSUME [Next]_vars
  PROVE  \/ CompleteFailed \/ CompleteOk \/ Deposit \/ SettleCompletion \/ DepositThrow
         \/ UpdateDirtyTransitions \/ EnforceDeadlines \/ FireSkip
         \/ FireBegin \/ Consume \/ FireStart \/ FireRegister \/ FireThrow
         \/ \E t \in Transitions : ActionSettles(t)
         \/ /\ UNCHANGED <<enabled, flights, firing, arcs, produced, unsettled>>
            /\ \/ pc' = pc
               \/ /\ pc \notin {"deposit", "consume", "start"}
                  /\ pc' \notin {"deposit", "consume", "start"}
  BY DEF Next, Orchestrate, vars, Terminated, Run, CompletionsDone, SkipExternal, Admit,
    AdmitDone, Decide, FireDone, AwaitEnter, FlushReturn, Park, Resume, Exit, TimerFires,
    Tick, Inject, Drain, Close, BudgetExpires

\* Tokens change hands only between a firing, its flight and its completion.
LEMMA OwnedStep == LoopInvariant /\ FlightsOwned /\ [Next]_vars => FlightsOwned'
<1> SUFFICES ASSUME LoopInvariant, FlightsOwned, [Next]_vars PROVE FlightsOwned'
  OBVIOUS
<1> USE DEF FlightsOwned, InFlight
<1>0. /\ TypeOK /\ FiringPhase
      /\ flight \in [Transitions -> {"idle", "running", "failed", "done"}]
      /\ output \in [Transitions -> NatBag]
      /\ consumed \in [Transitions -> NatBag]
      /\ completionQueue \in Seq(Transitions)
      /\ enabled \in SUBSET Transitions
      /\ NoTransition \notin Transitions
  BY DEF LoopInvariant, PhaseOK, TypeOK, FlightsTyped, SchedTyped, NoTransition, Transitions
<1>1. CASE CompleteFailed
  <2>1. Head(completionQueue) \in Transitions
    BY <1>0, <1>1, HeadTailProperties DEF CompleteFailed
  <2>2. firing = NoTransition
    BY <1>0, <1>1 DEF CompleteFailed, FiringPhase
  <2> QED
    BY <1>0, <1>1, <2>1, <2>2 DEF CompleteFailed
<1>2. CASE CompleteOk
  <2>1. Head(completionQueue) \in Transitions
    BY <1>0, <1>2, HeadTailProperties DEF CompleteOk
  <2>2. firing = NoTransition
    BY <1>0, <1>2 DEF CompleteOk, FiringPhase
  <2> QED
    <3>1. /\ output'[firing'] \in Productions[firing']
          /\ \A p \in Places : output'[firing'][p] = produced'[p] + output'[firing'][p]
      BY <1>0, <1>2, <2>1, <2>2 DEF CompleteOk, Empty, NatBag
    <3> QED
      BY <1>0, <1>2, <2>1, <2>2, <3>1 DEF CompleteOk
<1>3. CASE Deposit
  <2>1. /\ pc = "deposit" /\ firing \in Transitions
        /\ UNCHANGED <<pc, enabled, flight, consumed, firing, arcs, unsettled>>
        /\ \A t \in Transitions \ {firing} : output'[t] = output[t]
    BY <1>0, <1>3 DEF Deposit, FiringPhase
  <2>2. PICK bag \in Productions[firing] :
          \A p \in Places : bag[p] = produced[p] + output[firing][p]
    BY <2>1
  <2>3. PICK q \in Places : /\ output' = [output EXCEPT ![firing][q] = @ - 1]
                            /\ produced' = [produced EXCEPT ![q] = @ + 1]
    BY <1>3 DEF Deposit
  <2>4. \A p \in Places : produced[p] \in Nat /\ output[firing][p] \in Nat
    BY <1>0, <2>1 DEF TypeOK, PassTyped, NatBag
  <2>5. /\ produced'[q] = produced[q] + 1 /\ output'[firing][q] = output[firing][q] - 1
        /\ \A p \in Places \ {q} : /\ produced'[p] = produced[p]
                                   /\ output'[firing][p] = output[firing][p]
    BY <1>0, <2>1, <2>3 DEF TypeOK, PassTyped, NatBag
  <2>6. \A p \in Places : bag[p] = produced'[p] + output'[firing][p]
    BY <2>2, <2>4, <2>5
  <2> QED
    BY <1>0, <2>1, <2>2, <2>6
<1>4. CASE SettleCompletion \/ DepositThrow
  BY <1>0, <1>4 DEF SettleCompletion, DepositThrow, EndCompletion, FiringPhase
<1>5. CASE UpdateDirtyTransitions \/ EnforceDeadlines \/ FireSkip
  <2>1. enabled' \subseteq enabled \cup (Transitions \ InFlight)
    BY <1>0, <1>5 DEF UpdateDirtyTransitions, EnforceDeadlines, FireSkip, SwitchOff,
                      TypeOK, SchedTyped
  <2>2. /\ UNCHANGED <<flight, output, consumed, firing, arcs, produced, unsettled>>
        /\ pc \notin {"deposit", "consume", "start"}
        /\ pc' \notin {"deposit", "consume", "start"}
    BY <1>5 DEF UpdateDirtyTransitions, EnforceDeadlines, FireSkip, IsNext
  <2> QED
    BY <2>1, <2>2
<1>6. CASE FireBegin
  <2>1. PICK t \in ready : firing' = t /\ arcs' = Resets[t]
    BY <1>6 DEF FireBegin, IsNext
  <2>2. /\ t \in enabled /\ t \in Transitions /\ t \notin InFlight
        /\ consumed[t] = Empty
        /\ firing = NoTransition
    BY <1>0, <1>6, <2>1 DEF FiringPhase, FireBegin, IsNext
  <2>3. arcs' \subseteq Places
    BY <2>1, <2>2, NetAssumption DEF NetAssumption
  <2> QED
    BY <1>0, <1>6, <2>1, <2>2, <2>3 DEF FireBegin, IsNext, Empty
<1>7. CASE Consume
  <2>1. PICK p \in Places :
          /\ \E n : consumed' = [consumed EXCEPT ![firing][p] = @ + n]
          /\ \/ Served(p) /\ arcs' = arcs
             \/ arcs' = arcs \ {p}
    BY <1>7 DEF Consume, Remove
  <2>2. /\ firing \in Transitions
        /\ pc = "consume"
        /\ UNCHANGED <<pc, enabled, flight, output, firing, produced, unsettled>>
    BY <1>0, <1>7 DEF Consume, FiringPhase
  <2>3. Served(p) => p \in InputPlaces(firing)
    BY <1>0, <2>2, NetAssumption DEF Served, Owed, InputPlaces, NetAssumption, NatBag
  <2>4. arcs' \subseteq arcs /\ p \notin arcs' \ InputPlaces(firing)
    BY <2>1, <2>3
  <2>5. /\ \A t \in Transitions \ {firing} : consumed'[t] = consumed[t]
        /\ \A q \in Places \ {p} : consumed'[firing][q] = consumed[firing][q]
        /\ arcs \subseteq Places
    BY <1>0, <2>1, <2>2 DEF NatBag, TypeOK, PassTyped
  <2>6. \A q \in arcs' \ InputPlaces(firing) : consumed'[firing][q] = 0
    BY <2>2, <2>4, <2>5
  <2>7. InputPlaces(firing)' = InputPlaces(firing)
    BY <2>2 DEF InputPlaces
  <2> QED
    BY <1>0, <2>2, <2>5, <2>6, <2>7
<1>8. CASE FireStart
  BY <1>0, <1>8 DEF FireStart, AllTaken, FiringPhase
<1>9. CASE FireRegister
  <2>1. firing \in Transitions
    BY <1>0, <1>9 DEF FireRegister, FiringPhase
  <2> QED
    BY <1>0, <1>9, <2>1 DEF FireRegister, SwitchOff
<1>10. CASE FireThrow
  <2>1. firing \in Transitions
    BY <1>0, <1>10 DEF FireThrow, FiringPhase
  <2> QED
    BY <1>0, <1>10, <2>1 DEF FireThrow, SwitchOff
<1>11. ASSUME NEW t \in Transitions, ActionSettles(t) PROVE FlightsOwned'
  <2>1. /\ pc \notin {"deposit", "consume", "start"}
        /\ UNCHANGED <<pc, enabled, consumed, firing, arcs, produced, unsettled>>
        /\ flight[t] = "running"
        /\ \/ /\ flight' = [flight EXCEPT ![t] = "failed"]
              /\ UNCHANGED output
           \/ \E bag \in Productions[t] :
                /\ flight' = [flight EXCEPT ![t] = "done"]
                /\ output' = [output EXCEPT ![t] = bag]
    BY <1>11 DEF ActionSettles, Yielded
  <2>2. InFlight' = InFlight
    BY <1>0, <2>1
  <2>3. \A u \in Transitions \ {t} : flight'[u] = flight[u] /\ output'[u] = output[u]
    BY <1>0, <2>1
  <2>4. /\ flight'[t] # "done" => output'[t] = Empty
        /\ flight'[t] = "done" => output'[t] \in Productions[t]
    BY <1>0, <2>1
  <2> QED
    BY <1>0, <2>1, <2>2, <2>3, <2>4
<1>12. CASE /\ UNCHANGED <<enabled, flights, firing, arcs, produced, unsettled>>
            /\ \/ pc' = pc
               \/ /\ pc \notin {"deposit", "consume", "start"}
                  /\ pc' \notin {"deposit", "consume", "start"}
  BY <1>12 DEF InputPlaces
<1> QED
  BY <1>1, <1>2, <1>3, <1>4, <1>5, <1>6, <1>7, <1>8, <1>9, <1>10, <1>11, <1>12, OwnedFrame

-----------------------------------------------------------------------------
(* The completion queue.                                                   *)

\* A step completes the head of the queue, clears it behind a terminal deposit,
\* appends to it, registers a flight, or leaves the queue and the flights alone.
LEMMA QueueFrame ==
  ASSUME [Next]_vars
  PROVE  \/ CompleteFailed \/ CompleteOk \/ SettleCompletion \/ DepositThrow \/ FireRegister
         \/ \E t \in Transitions : ActionSettles(t)
         \/ UNCHANGED <<flight, completionQueue>>
  BY FlightsFrame DEF Deposit, Consume, FireThrow

\* The queue holds settled flights, each once.
LEMMA QueueStep ==
  LoopInvariant /\ FlightsOwned /\ QueueOwned /\ [Next]_vars => QueueOwned'
<1> SUFFICES ASSUME LoopInvariant, FlightsOwned, QueueOwned, [Next]_vars PROVE QueueOwned'
  OBVIOUS
<1> USE DEF QueueOwned
<1>0. /\ flight \in [Transitions -> {"idle", "running", "failed", "done"}]
      /\ completionQueue \in Seq(Transitions)
  BY DEF LoopInvariant, TypeOK, FlightsTyped
<1>1. CASE CompleteFailed \/ CompleteOk
  <2>1. /\ completionQueue # <<>>
        /\ completionQueue' = Tail(completionQueue)
        /\ flight' = [flight EXCEPT ![Head(completionQueue)] = "idle"]
    BY <1>1 DEF CompleteFailed, CompleteOk
  <2>2. /\ Len(completionQueue) \in Nat \ {0}
        /\ Len(completionQueue') = Len(completionQueue) - 1
        /\ Head(completionQueue) = completionQueue[1]
    BY <1>0, <2>1, HeadTailProperties, LenProperties, EmptySeq
  <2>3. \A i \in 1..Len(completionQueue') :
          /\ completionQueue'[i] = completionQueue[i + 1]
          /\ i + 1 \in 1..Len(completionQueue)
    BY <1>0, <2>1, <2>2, HeadTailProperties
  <2>4. \A i \in 1..Len(completionQueue) : completionQueue[i] \in Transitions
    BY <1>0, ElementOfSeq
  <2>5. \A i \in 1..Len(completionQueue') : completionQueue'[i] # completionQueue[1]
    BY <2>2, <2>3
  <2>6. \A i \in 1..Len(completionQueue') :
          flight'[completionQueue'[i]] \in {"failed", "done"}
    BY <1>0, <2>1, <2>2, <2>3, <2>4, <2>5
  <2> QED
    BY <2>2, <2>3, <2>6
<1>2. CASE SettleCompletion \/ DepositThrow
  <2>1. UNCHANGED flight /\ completionQueue' \in {<<>>, completionQueue}
    BY <1>2 DEF SettleCompletion, DepositThrow, EndCompletion
  <2> QED
    BY <1>0, <2>1, EmptySeq
<1>3. CASE FireRegister
  <2>1. /\ flight' = [flight EXCEPT ![firing] = "running"]
        /\ UNCHANGED completionQueue
    BY <1>3 DEF FireRegister
  <2>2. \A i \in 1..Len(completionQueue) :
          completionQueue[i] \in Transitions /\ completionQueue[i] # firing
    BY <1>0, ElementOfSeq DEF FlightsOwned, InFlight
  <2> QED
    BY <1>0, <2>1, <2>2
<1>4. ASSUME NEW t \in Transitions, ActionSettles(t) PROVE QueueOwned'
  <2>1. /\ flight[t] = "running"
        /\ completionQueue' = Append(completionQueue, t)
        /\ \/ flight' = [flight EXCEPT ![t] = "failed"]
           \/ flight' = [flight EXCEPT ![t] = "done"]
    BY <1>4 DEF ActionSettles
  <2>2. /\ Len(completionQueue) \in Nat
        /\ Len(completionQueue') = Len(completionQueue) + 1
        /\ completionQueue'[Len(completionQueue) + 1] = t
        /\ \A i \in 1..Len(completionQueue) : completionQueue'[i] = completionQueue[i]
    BY <1>0, <2>1, AppendProperties, LenProperties
  <2>3. \A i \in 1..Len(completionQueue) :
          completionQueue[i] \in Transitions /\ completionQueue[i] # t
    BY <1>0, <2>1, ElementOfSeq
  <2>4. \A i \in 1..Len(completionQueue) : flight'[completionQueue[i]] = flight[completionQueue[i]]
    BY <1>0, <2>1, <2>3
  <2>5. flight'[t] \in {"failed", "done"}
    BY <1>0, <2>1
  <2>6. \A i \in 1..Len(completionQueue') :
          i \in 1..Len(completionQueue) \/ i = Len(completionQueue) + 1
    BY <2>2
  <2> QED
    BY <2>2, <2>3, <2>4, <2>5, <2>6
<1>5. CASE UNCHANGED <<flight, completionQueue>>
  BY <1>5
<1> QED
  BY <1>1, <1>2, <1>3, <1>4, <1>5, QueueFrame

-----------------------------------------------------------------------------
(* The terminal latch.                                                     *)

\* Only these steps touch the tokens or the latch; the others leave the phases in
\* which the latch may be up only towards the end of the run.
LEMMA LatchFrame ==
  ASSUME [Next]_vars
  PROVE  \/ Run \/ CompleteOk \/ Deposit \/ Admit \/ Consume
         \/ /\ UNCHANGED <<marking, terminalReached>>
            /\ pc' = "new" <=> pc = "new"
            /\ pc' = "deposit" => pc = "deposit" /\ UNCHANGED produced
            /\ terminalReached /\ pc \in {"deposit", "admit", "exit", "ended"}
                 => pc' \in {"deposit", "admit", "exit", "ended"}
  BY DEF Next, Orchestrate, vars, Terminated, CompleteFailed, SettleCompletion, DepositThrow,
    EndCompletion, StopsWalk, CompletionsDone, SkipExternal, AdmitDone, UpdateDirtyTransitions,
    EnforceDeadlines, Decide, FireSkip, FireBegin, IsNext, FireStart, FireRegister,
    FireDone, FireThrow, AwaitEnter, FlushReturn, Park, Resume, Exit, ActionSettles,
    TimerFires, Tick, Inject, Drain, Close, BudgetExpires

\* The latch is up exactly when a terminal place is marked, from run() on.
LEMMA LatchStep ==
  LoopInvariant /\ FlightsOwned /\ TerminalLatched /\ [Next]_vars => TerminalLatched'
<1> SUFFICES ASSUME LoopInvariant, FlightsOwned, TerminalLatched, [Next]_vars
             PROVE  TerminalLatched'
  OBVIOUS
<1> USE DEF TerminalLatched
<1>0. /\ marking \in NatBag
      /\ Terminals \subseteq Places
      /\ TypeOK /\ PhaseOK
  BY NetAssumption DEF LoopInvariant, TypeOK, TokensTyped, NetAssumption
<1>1. CASE Run
  BY <1>0, <1>1 DEF Run, Marked
<1>2. CASE Deposit \/ Admit
  <2>1. PICK p \in Places : /\ marking' = [marking EXCEPT ![p] = @ + 1]
                            /\ terminalReached' = (terminalReached \/ p \in Terminals)
    <3>1. CASE Deposit
      BY <3>1 DEF Deposit, AddToken
    <3>2. CASE Admit
      <4>1. externalQueue[externalCursor + 1] \in Places
        BY <1>0, <3>2, ElementOfSeq, LenProperties, EmptySeq, ExecutorAssumption
        DEF Admit, TypeOK, ExtTyped, PhaseOK, WalkPhase, ExecutorAssumption
      <4> QED
        BY <3>2, <4>1 DEF Admit, AddToken
    <3> QED
      BY <1>2, <3>1, <3>2
  <2>2. \A q \in Places : marking'[q] > 0 <=> marking[q] > 0 \/ q = p
    BY <1>0, <2>1 DEF NatBag
  <2>3. pc # "new" /\ pc' \in {"deposit", "admit"}
    BY <1>2 DEF Deposit, Admit
  <2>4. ASSUME pc' = "deposit" PROVE \A q \in Terminals : marking'[q] = produced'[q]
    <3>1. PICK q \in Places : /\ marking' = [marking EXCEPT ![q] = @ + 1]
                              /\ produced' = [produced EXCEPT ![q] = @ + 1]
      BY <1>2, <2>4 DEF Deposit, Admit, AddToken
    <3>2. \A r \in Terminals : r \in Places /\ marking[r] = produced[r]
      BY <1>0, <1>2, <2>4 DEF Deposit, Admit
    <3> QED
      BY <1>0, <3>1, <3>2 DEF TypeOK, PassTyped, NatBag
  <2> QED
    BY <1>0, <2>1, <2>2, <2>3, <2>4
<1>3. CASE Consume
  <2>1. pc = "consume" /\ pc' = "consume" /\ UNCHANGED terminalReached
    BY <1>3 DEF Consume
  <2>2. PICK p \in Places, n \in Nat :
          n <= marking[p] /\ marking' = [marking EXCEPT ![p] = @ - n]
    BY <1>0, <1>3, RemovalBounded DEF Remove
  <2>4. \A q \in Places : marking[q] = 0 => marking'[q] = 0
    BY <1>0, <2>2 DEF NatBag
  <2>5. \A q \in Places : marking[q] \in Nat
    BY <1>0 DEF NatBag
  <2> QED
    BY <1>0, <2>1, <2>4, <2>5
<1>4. CASE CompleteOk
  <2>1. /\ pc = "completions" /\ pc' = "deposit"
        /\ UNCHANGED <<marking, produced, terminalReached>>
    BY <1>4 DEF CompleteOk
  <2>2. produced = Empty
    BY <2>1 DEF FlightsOwned
  <2>3. ~terminalReached /\ \A p \in Terminals : marking[p] = 0 /\ produced[p] = 0
    BY <1>0, <2>1, <2>2 DEF NatBag, Empty
  <2> QED
    BY <2>1, <2>3
<1>5. CASE /\ UNCHANGED <<marking, terminalReached>>
           /\ pc' = "new" <=> pc = "new"
           /\ pc' = "deposit" => pc = "deposit" /\ UNCHANGED produced
           /\ terminalReached /\ pc \in {"deposit", "admit", "exit", "ended"}
                => pc' \in {"deposit", "admit", "exit", "ended"}
  BY <1>5
<1> QED
  BY <1>1, <1>2, <1>3, <1>4, <1>5, LatchFrame

-----------------------------------------------------------------------------
(* The account of external events.                                         *)

\* No step loses an event or settles one twice.
LEMMA AccountStep == LoopInvariant /\ EventsAccounted /\ [Next]_vars => EventsAccounted'
<1> SUFFICES ASSUME LoopInvariant, EventsAccounted, [Next]_vars PROVE EventsAccounted'
  OBVIOUS
<1> USE DEF EventsAccounted
<1>0. /\ ExtTyped /\ WalkPhase
      /\ Len(externalQueue) \in Nat
  BY LenProperties DEF LoopInvariant, TypeOK, ExtTyped, PhaseOK
<1>1. CASE Admit
  BY <1>0, <1>1 DEF Admit, ExtTyped
<1>2. CASE AdmitDone
  <2>1. externalCursor \in Nat /\ externalCursor <= Len(externalQueue)
    BY <1>0, <1>2 DEF AdmitDone, WalkPhase, ExtTyped
  <2>2. Len(Undeposited) = Len(externalQueue) - externalCursor
    BY <1>0, <2>1, SubSeqProperties DEF Undeposited, ExtTyped
  <2> QED
    BY <1>0, <1>2, <2>1, <2>2 DEF AdmitDone, ExtTyped
<1>3. CASE Exit
  BY <1>0, <1>3, EmptySeq DEF Exit, DrainPendingExternalEvents, WalkPhase, ExtTyped
<1>4. ASSUME NEW p \in EnvPlaces, Inject(p) PROVE EventsAccounted'
  BY <1>0, <1>4, AppendProperties DEF Inject, ExtTyped
<1>5. CASE UNCHANGED ext
  BY <1>5
<1> QED
  BY <1>1, <1>2, <1>3, <1>4, <1>5, ExtFrame

-----------------------------------------------------------------------------
(* How the run ends.                                                       *)

\* Steps that neither decide the end of the run nor touch what it rests on.
LEMMA EndFrame ==
  ASSUME [Next]_vars
  PROVE  \/ Run \/ SettleCompletion \/ DepositThrow \/ AdmitDone \/ UpdateDirtyTransitions
         \/ EnforceDeadlines \/ Decide \/ Exit \/ Drain \/ Close
         \/ \E t \in Transitions : ActionSettles(t)
         \/ \E p \in EnvPlaces : Inject(p)
         \/ \E policy \in BudgetPolicies : BudgetExpires(policy)
         \/ UNCHANGED <<pc, dirty, enabled, flight, externalQueue, life>>
         \/ /\ pc \notin {"exit", "ended"}
            /\ pc' \notin {"deadlines", "decide", "exit", "ended"}
            /\ UNCHANGED reason
  BY DEF Next, Orchestrate, vars, Terminated, CompleteFailed, CompleteOk, Deposit,
    CompletionsDone, SkipExternal, Admit, FireSkip, FireBegin, IsNext, Consume, FireStart,
    FireRegister, FireDone, FireThrow, AwaitEnter, FlushReturn, Park, Resume, TimerFires,
    Tick

\* The run ends for the reason it names, and in the state that reason promises.
LEMMA EndStep ==
  LoopInvariant /\ TerminalLatched /\ EndPhase /\ [Next]_vars => EndPhase'
<1> SUFFICES ASSUME LoopInvariant, TerminalLatched, EndPhase, [Next]_vars PROVE EndPhase'
  OBVIOUS
<1> USE DEF EndPhase, AtRest, Refuses
<1>1. CASE Run \/ SettleCompletion \/ DepositThrow \/ AdmitDone
  BY <1>1 DEF Run, SettleCompletion, DepositThrow, EndCompletion, StopsWalk, AdmitDone
<1>2. CASE UpdateDirtyTransitions \/ EnforceDeadlines
  BY <1>2 DEF UpdateDirtyTransitions, EnforceDeadlines
<1>3. CASE Decide
  <2>1. /\ pc = "decide" /\ pc' = (IF ShouldTerminate THEN "exit" ELSE "fire")
        /\ UNCHANGED <<dirty, enabled, flight, life, externalQueue>>
    BY <1>3 DEF Decide
  <2>2. enabledCount = 0 => enabled = {}
    BY TransitionsFinite, FS_EmptySet
    DEF LoopInvariant, EnabledCountExact, TypeOK, SchedTyped
  <2> QED
    BY <2>1, <2>2 DEF ShouldTerminate, InFlight
<1>4. CASE Exit
  BY <1>4 DEF Exit, DrainPendingExternalEvents, InFlight
<1>5. CASE Drain \/ Close
  BY <1>5 DEF Drain, Close, InFlight
<1>6. ASSUME NEW t \in Transitions, ActionSettles(t) PROVE EndPhase'
  <2>1. /\ InFlight # {}
        /\ UNCHANGED <<pc, dirty, enabled, life, externalQueue>>
        /\ pc \in {"new", "flush", "parked", "ended"}
    BY <1>6 DEF ActionSettles, InFlight, Yielded
  <2> QED
    BY <2>1
<1>7. ASSUME NEW p \in EnvPlaces, Inject(p) PROVE EndPhase'
  <2>1. /\ ~Refuses
        /\ UNCHANGED <<pc, dirty, enabled, flight, life>>
    BY <1>7 DEF Inject
  <2> QED
    BY <1>7, <2>1 DEF InFlight
<1>8. ASSUME NEW policy \in BudgetPolicies, BudgetExpires(policy) PROVE EndPhase'
  BY <1>8 DEF BudgetExpires
<1>9. CASE UNCHANGED <<pc, dirty, enabled, flight, externalQueue, life>>
  BY <1>9 DEF InFlight
<1>10. CASE /\ pc \notin {"exit", "ended"}
            /\ pc' \notin {"deadlines", "decide", "exit", "ended"}
            /\ UNCHANGED reason
  BY <1>10
<1> QED
  BY <1>1, <1>2, <1>3, <1>4, <1>5, <1>6, <1>7, <1>8, <1>9, <1>10, EndFrame

-----------------------------------------------------------------------------
(* The wait.                                                               *)

WaitPcs == {"fire", "consume", "start", "await", "flush", "parked"}

\* Steps outside the part of the cycle that leads to the wait leave the latch, the
\* waiter and the timer alone.
LEMMA WaitingFrame ==
  ASSUME [Next]_vars
  PROVE  \/ Decide \/ FireSkip \/ FireBegin \/ Consume \/ FireStart \/ FireRegister
         \/ FireThrow \/ FireDone \/ AwaitEnter \/ FlushReturn \/ Park \/ Resume
         \/ TimerFires \/ Drain \/ Close
         \/ \E t \in Transitions : ActionSettles(t)
         \/ \E p \in EnvPlaces : Inject(p)
         \/ \E policy \in BudgetPolicies : BudgetExpires(policy)
         \/ UNCHANGED <<pc, dirty, enabled, flights, ext, life, wait>>
         \/ pc \notin WaitPcs /\ pc' \notin WaitPcs /\ UNCHANGED wait
  BY DEF WaitPcs, Next, Orchestrate, vars, Terminated, Run, CompleteFailed, CompleteOk,
    Deposit, SettleCompletion, DepositThrow, EndCompletion, CompletionsDone, SkipExternal, Admit, AdmitDone,
    UpdateDirtyTransitions, EnforceDeadlines, Exit, Tick

\* Whoever takes the loop's last reason to go on away leaves a signal behind, and
\* whoever gives a parked loop something to do resolves its wait.
LEMMA WaitStep ==
  LoopInvariant /\ FlightsOwned /\ QueueOwned /\ WaitPhase /\ [Next]_vars => WaitPhase'
<1> SUFFICES ASSUME LoopInvariant, FlightsOwned, QueueOwned, WaitPhase, [Next]_vars
             PROVE  WaitPhase'
  OBVIOUS
<1> USE DEF WaitPhase, WorthRunning
<1>0. /\ TypeOK /\ FiringPhase
      /\ flight \in [Transitions -> {"idle", "running", "failed", "done"}]
      /\ completionQueue \in Seq(Transitions)
      /\ enabled \in SUBSET Transitions
      /\ NoTransition \notin Transitions
  BY DEF LoopInvariant, PhaseOK, TypeOK, FlightsTyped, SchedTyped, NoTransition, Transitions
<1>1. CASE Decide
  <2>1. /\ pc = "decide" /\ pc' = (IF ShouldTerminate THEN "exit" ELSE "fire")
        /\ UNCHANGED <<dirty, enabled, flight, life, wait>>
    BY <1>1 DEF Decide
  <2>2. enabled = {} => enabledCount = 0
    BY FS_EmptySet DEF LoopInvariant, EnabledCountExact
  <2>3. completionQueue # <<>> => InFlight # {}
    <3>1. ASSUME completionQueue # <<>> PROVE completionQueue[1] \in InFlight
      <4>1. 1 \in 1..Len(completionQueue)
        BY <1>0, <3>1, LenProperties, EmptySeq
      <4> QED
        BY <1>0, <4>1, ElementOfSeq DEF QueueOwned, InFlight
    <3> QED
      BY <3>1
  <2>4. ~ShouldTerminate => WorthRunning
    BY <2>1, <2>2, <2>3 DEF ShouldTerminate
  <2> QED
    BY <2>1, <2>4 DEF InFlight
<1>2. CASE FireSkip
  <2>1. PICK t \in Transitions : /\ t \in ready
                                 /\ ~StillEnabled(t)
    BY <1>2 DEF FireSkip, IsNext
  <2>2. /\ pc = "fire" /\ UNCHANGED <<pc, dirty, wait>>
        /\ t \in enabled /\ firing = NoTransition
    BY <1>0, <1>2, <2>1 DEF FireSkip, IsNext, FiringPhase
  <2>3. ~ArcsSatisfied(t, marking)
    BY <2>1, <2>2, CanEnableExact
    DEF StillEnabled, LoopInvariant, BitmapFaithful, TypeOK, TokensTyped
  <2>4. t \in dirty
    BY <1>0, <2>2, <2>3
    DEF LoopInvariant, EnablementTracksMarking, FlagRight, FlightsOwned
  <2> QED
    BY <2>2, <2>4
<1>3. CASE FireBegin \/ Consume \/ FireStart
  BY <1>3 DEF FireBegin, IsNext, Consume, FireStart
<1>4. CASE FireRegister
  <2>1. firing \in InFlight' /\ UNCHANGED wait /\ pc = "start" /\ pc' = "fire"
    BY <1>0, <1>4 DEF FireRegister, FiringPhase, InFlight
  <2> QED
    BY <2>1
<1>5. CASE FireThrow
  BY <1>5 DEF FireThrow
<1>6. CASE FireDone \/ AwaitEnter \/ FlushReturn
  BY <1>6 DEF FireDone, HasDirtyBits, AwaitEnter, FlushReturn, InFlight
<1>7. CASE Park
  <2>1. /\ pc = "flush" /\ pc' = "parked"
        /\ ~StayAwake
        /\ UNCHANGED <<dirty, enabled, flights, ext, life>>
        /\ wakeUpResolve' = ~closed
    BY <1>7 DEF Park
  <2>2. /\ WorthRunning /\ ~WorkQueued
        /\ closed => InFlight # {}
    BY <2>1 DEF StayAwake
  <2> QED
    BY <2>1, <2>2 DEF InFlight, WorkQueued
<1>8. CASE Resume \/ TimerFires
  BY <1>8 DEF Resume, TimerFires
<1>9. ASSUME NEW t \in Transitions, ActionSettles(t) PROVE WaitPhase'
  <2>1. /\ pc \in {"new", "flush", "parked", "ended"}
        /\ UNCHANGED <<pc, dirty, wakeUpResolve>>
        /\ woken' = (pc = "parked")
        /\ wakeUpPending' = (wakeUpPending \/ ~wakeUpResolve)
    BY <1>9 DEF ActionSettles, Yielded
  <2> QED
    BY <2>1
<1>10. ASSUME NEW p \in EnvPlaces, Inject(p) PROVE WaitPhase'
  BY <1>10 DEF Inject, WakeUp, Refuses, InFlight, WorkQueued
<1>11. CASE Drain \/ Close
  <2>1. /\ UNCHANGED <<pc, dirty, flight, completionQueue, externalQueue, wakeUpResolve>>
        /\ closed => closed'
        /\ woken' = (woken \/ wakeUpResolve)
        /\ wakeUpPending' = (wakeUpPending \/ ~wakeUpResolve)
    BY <1>11 DEF Drain, Close, WakeUp
  <2>2. CASE pc # "parked"
    BY <2>1, <2>2
  <2>3. CASE pc = "parked" /\ wakeUpResolve
    BY <2>1, <2>3
  <2>4. CASE pc = "parked" /\ ~wakeUpResolve
    BY <2>1, <2>4 DEF InFlight, WorkQueued
  <2> QED
    BY <2>2, <2>3, <2>4
<1>12. ASSUME NEW policy \in BudgetPolicies, BudgetExpires(policy) PROVE WaitPhase'
  BY <1>12 DEF BudgetExpires, WakeUp, InFlight, WorkQueued
<1>13. CASE UNCHANGED <<pc, dirty, enabled, flights, ext, life, wait>>
  BY <1>13 DEF InFlight, WorkQueued
<1>14. CASE pc \notin WaitPcs /\ pc' \notin WaitPcs /\ UNCHANGED wait
  BY <1>14 DEF WaitPcs
<1> QED
  BY <1>1, <1>2, <1>3, <1>4, <1>5, <1>6, <1>7, <1>8, <1>9, <1>10, <1>11, <1>12, <1>13,
     <1>14, WaitingFrame

-----------------------------------------------------------------------------
(* The theorems.                                                           *)

\* The executor starts in the second invariant, too.
LEMMA ExecutorInvariantInit == Init => ExecutorInvariant
<1> SUFFICES ASSUME Init PROVE ExecutorInvariant
  OBVIOUS
<1>1. InFlight = {} /\ 0 \notin Transitions
  BY DEF Init, InFlight, Transitions
<1>2. FlightsOwned
  BY <1>1 DEF Init, FlightsOwned
<1>3. QueueOwned /\ EventsAccounted
  BY EmptySeq DEF Init, QueueOwned, EventsAccounted
<1>4. TerminalLatched /\ EndPhase /\ WaitPhase
  BY DEF Init, TerminalLatched, EndPhase, WaitPhase
<1> QED
  BY <1>2, <1>3, <1>4 DEF ExecutorInvariant

\* Every step keeps both.
LEMMA ExecutorInvariantStep ==
  LoopInvariant /\ ExecutorInvariant /\ [Next]_vars => ExecutorInvariant'
  BY OwnedStep, QueueStep, LatchStep, AccountStep, EndStep, WaitStep DEF ExecutorInvariant

\* The second inductive invariant holds throughout every run of every net.
THEOREM ExecutorInvariantHolds == Spec => []ExecutorInvariant
  BY LoopInvariantHolds, ExecutorInvariantInit, ExecutorInvariantStep, PTL DEF Spec

\* No wake-up is lost between the checks of awaitWork() and its waiter, whatever
\* inject(), drain(), close(), a budget or a completion does in between.
THEOREM WakeUpNeverLost == Spec => []NoLostWakeUp
<1>1. LoopInvariant /\ ExecutorInvariant => NoLostWakeUp
  <2> SUFFICES ASSUME LoopInvariant, ExecutorInvariant, pc = "parked", ~woken
               PROVE  ~WorkQueued /\ dirty = {} /\ ~ShouldTerminate
    BY DEF NoLostWakeUp
  <2>1. ~WorkQueued /\ dirty = {} /\ WorthRunning
    BY DEF ExecutorInvariant, WaitPhase
  <2>2. enabledCount = 0 => enabled = {}
    BY TransitionsFinite, FS_EmptySet
    DEF LoopInvariant, EnabledCountExact, TypeOK, SchedTyped
  <2> QED
    BY <2>1, <2>2 DEF ShouldTerminate, WorthRunning
<1> QED
  BY <1>1, LoopInvariantHolds, ExecutorInvariantHolds, PTL

\* By the end of the run every accepted injection has been settled, once: none is
\* left in the queue behind the drain of drainPendingExternalEvents().
THEOREM InjectionsNeverOrphaned == Spec => []NoOrphanedInjection
<1>1. LoopInvariant /\ ExecutorInvariant => NoOrphanedInjection
  BY EmptySeq
  DEF LoopInvariant, TypeOK, ExtTyped, PhaseOK, WalkPhase, ExecutorInvariant, EndPhase,
      EventsAccounted, NoOrphanedInjection
<1> QED
  BY <1>1, LoopInvariantHolds, ExecutorInvariantHolds, PTL

\* A snapshot() that reports a restore point has captured every token: the account of
\* the external queue is even, and nobody but a flight or a firing holds tokens.
THEOREM RestorePointsComplete == Spec => []RestorePointComplete
<1>1. LoopInvariant /\ ExecutorInvariant => RestorePointComplete
  <2> SUFFICES ASSUME LoopInvariant, ExecutorInvariant, ~ActionInFlight
               PROVE  /\ \A t \in Transitions : consumed[t] = Empty /\ output[t] = Empty
                      /\ accepted = admitted + refused
    BY DEF RestorePointComplete
  <2>1. /\ InFlight = {} /\ ~unsettled
        /\ ~(Len(externalQueue) > externalCursor)
    BY DEF ActionInFlight
  <2>2. firing \notin Transitions /\ pc # "deposit"
    BY <2>1 DEF LoopInvariant, PhaseOK, FiringPhase, ExecutorInvariant, FlightsOwned,
                NoTransition, Transitions
  <2>3. \A t \in Transitions : consumed[t] = Empty /\ output[t] = Empty
    BY <2>1, <2>2 DEF ExecutorInvariant, FlightsOwned, InFlight
  <2>4. /\ Len(externalQueue) \in Nat
        /\ externalCursor <= Len(externalQueue)
    BY LenProperties DEF LoopInvariant, TypeOK, ExtTyped, PhaseOK, WalkPhase
  <2>5. accepted = admitted + refused
    BY <2>1, <2>4 DEF LoopInvariant, TypeOK, ExtTyped, ExecutorInvariant, EventsAccounted
  <2> QED
    BY <2>3, <2>5
<1> QED
  BY <1>1, LoopInvariantHolds, ExecutorInvariantHolds, PTL

\* The reason of the run is the truth about the state it ended in (EXEC-041).
THEOREM ReasonsTruthful == Spec => []ReasonTruthful
<1>1. LoopInvariant /\ ExecutorInvariant => ReasonTruthful
  <2> SUFFICES ASSUME LoopInvariant, ExecutorInvariant, pc = "ended"
               PROVE  ReasonTruthful
    BY DEF ReasonTruthful
  <2>1. firing \notin Transitions
    BY DEF LoopInvariant, PhaseOK, FiringPhase, NoTransition, Transitions
  <2>2. ASSUME reason = "quiescent"
        PROVE  /\ InFlight = {}
               /\ \A t \in Transitions : ArcsSatisfied(t, marking) => HardDeadline(t)
    BY <2>1, <2>2 DEF LoopInvariant, EnablementTracksMarking, FlagRight,
                      ExecutorInvariant, EndPhase, AtRest
  <2>3. ASSUME reason = "terminal" PROVE \E p \in Terminals : marking[p] > 0
    BY <2>3 DEF ExecutorInvariant, EndPhase, TerminalLatched
  <2> QED
    BY <2>2, <2>3 DEF ReasonTruthful
<1> QED
  BY <1>1, LoopInvariantHolds, ExecutorInvariantHolds, PTL

-----------------------------------------------------------------------------
(* The refinement.  A firing takes its tokens one by one and a completion   *)
(* puts its outputs down one by one, with host code running in between that *)
(* may throw; the net does each at once.  The mapping counts what is still  *)
(* to be taken as taken, and hides what a completion has put down until the *)
(* completion is over, so that                                              *)
(*   FireBegin is Start                 SettleCompletion is Complete        *)
(*   CompleteFailed is Fail             DepositThrow is CutShort            *)
(*   FireThrow is Abort                 Admit is Arrive                     *)
(* and every other step leaves the net as it is.                            *)

-----------------------------------------------------------------------------
(* The operators of the net, and the mapping.                              *)

\* The net's operators are those the executor was compiled with.
LEMMA SameOperators ==
  ASSUME NEW t, NEW p, NEW n, NEW m
  PROVE  /\ Net!ConsumptionPlaces(t) = ConsumptionPlaces(t)
         /\ Net!InputPlaces(t) = InputPlaces(t)
         /\ Net!ConsumptionCount(t, p, n) = ConsumptionCount(t, p, n)
         /\ Net!ArcsSatisfied(t, m) <=> ArcsSatisfied(t, m)
         /\ Net!Transitions = Transitions
         /\ Net!Nothing = Empty
  BY DEF Net!ConsumptionPlaces, Net!InputPlaces, Net!ConsumptionCount, Net!ArcsSatisfied,
         Net!Transitions, Net!Nothing, ConsumptionPlaces, InputPlaces, ConsumptionCount,
         ArcsSatisfied, Transitions, Empty

\* The numbers the mapping is made of.
LEMMA Counts ==
  ASSUME LoopInvariant, NEW p \in Places
  PROVE  /\ marking[p] \in Nat /\ produced[p] \in Nat
         /\ \A t \in Transitions : /\ consumed[t][p] \in Nat
                                   /\ output[t][p] \in Nat
                                   /\ Required[t][p] \in Nat
  BY NetAssumption
  DEF NetAssumption, LoopInvariant, TypeOK, TokensTyped, FlightsTyped, PassTyped, NatBag

\* What is still to be taken is a number of tokens that are there.
LEMMA PendingTyped ==
  ASSUME LoopInvariant, NEW p \in Places
  PROVE  StillToTake[p] \in Nat /\ StillToTake[p] <= marking[p]
<1>1. CASE pc = "consume"
  <2>1. firing \in Transitions
    BY <1>1 DEF LoopInvariant, PhaseOK, FiringPhase
  <2>2. /\ marking[p] \in Nat /\ consumed[firing][p] \in Nat /\ Required[firing][p] \in Nat
    BY <2>1, Counts
  <2> QED
    BY <1>1, <2>2 DEF StillToTake, Owed, Lesser
<1>2. CASE pc # "consume"
  BY <1>2, Counts DEF StillToTake
<1> QED
  BY <1>1, <1>2

\* Outside a firing's removals only what a completion has put down is hidden.
LEMMA LandingShown ==
  LoopInvariant /\ pc # "consume" => netMarking = [p \in Places |-> marking[p] - produced[p]]
<1> SUFFICES ASSUME LoopInvariant, pc # "consume"
             PROVE  netMarking = [p \in Places |-> marking[p] - produced[p]]
  OBVIOUS
<1>1. \A p \in Places : marking[p] - StillToTake[p] - produced[p] = marking[p] - produced[p]
  BY Counts DEF StillToTake
<1> QED
  BY <1>1 DEF netMarking

\* The same of the state a step leads to.
LEMMA LandingShownNext ==
  LoopInvariant' /\ (pc # "consume")'
    => (netMarking = [p \in Places |-> marking[p] - produced[p]])'
  BY LandingShown, PTL

\* Outside a firing's removals and a completion's deposits the mapping shows the
\* marking itself.
LEMMA MarkingShown ==
  LoopInvariant /\ ExecutorInvariant /\ pc \notin {"consume", "deposit"} => netMarking = marking
<1> SUFFICES ASSUME LoopInvariant, ExecutorInvariant, pc \notin {"consume", "deposit"}
             PROVE  netMarking = marking
  OBVIOUS
<1>1. produced = Empty
  BY DEF ExecutorInvariant, FlightsOwned
<1>2. \A p \in Places : marking[p] - produced[p] = marking[p]
  BY <1>1, Counts DEF Empty
<1> QED
  BY <1>2, LandingShown DEF LoopInvariant, TypeOK, TokensTyped, NatBag

\* The same of the state a step leads to.
LEMMA MarkingShownNext ==
  LoopInvariant' /\ ExecutorInvariant' /\ (pc \notin {"consume", "deposit"})'
    => (netMarking = marking)'
  BY MarkingShown, PTL

\* As long as the latch is down, the net runs.
LEMMA RunningShown ==
  ASSUME LoopInvariant, ExecutorInvariant, ~terminalReached,
         pc \notin {"new", "consume", "deposit"}
  PROVE  Net!Running
<1>1. \A p \in Terminals : marking[p] = 0
  BY NetAssumption
  DEF ExecutorInvariant, TerminalLatched, LoopInvariant, TypeOK, TokensTyped, NatBag,
      NetAssumption
<1> QED
  BY <1>1, MarkingShown DEF Net!Running

\* Outside a firing's removals the mapping shows what each flight, firing or completion
\* has consumed.
LEMMA HeldShown ==
  LoopInvariant /\ pc # "consume"
    => netHeld = [t \in Transitions |-> IF t \in Firings THEN consumed[t] ELSE Empty]
<1> SUFFICES ASSUME LoopInvariant, pc # "consume"
             PROVE  netHeld = [t \in Transitions |->
                                 IF t \in Firings THEN consumed[t] ELSE Empty]
  OBVIOUS
<1>1. ASSUME NEW t \in Transitions
      PROVE  [p \in Places |-> consumed[t][p] + IF t = firing THEN StillToTake[p] ELSE 0]
               = consumed[t]
  <2>1. consumed[t] \in NatBag
    BY DEF LoopInvariant, TypeOK, FlightsTyped
  <2>2. \A p \in Places : consumed[t][p] + (IF t = firing THEN StillToTake[p] ELSE 0)
                             = consumed[t][p]
    BY <2>1 DEF StillToTake, NatBag
  <2> QED
    BY <2>1, <2>2 DEF NatBag
<1> QED
  BY <1>1 DEF netHeld

\* The same of the state a step leads to.
LEMMA HeldShownNext ==
  LoopInvariant' /\ (pc # "consume")'
    => (netHeld = [t \in Transitions |-> IF t \in Firings THEN consumed[t] ELSE Empty])'
  BY HeldShown, PTL

-----------------------------------------------------------------------------
(* The steps of the net.                                                   *)

\* FireBegin is Start: canEnable() said yes of a faithful bitmap, the flight is not
\* registered and no terminal place is marked.
LEMMA BeginIsStart ==
  ASSUME LoopInvariant, ExecutorInvariant, FireBegin
  PROVE  \E t \in Transitions : Net!Start(t)
<1>1. PICK t \in Transitions : /\ t \in ready
                               /\ StillEnabled(t)
                               /\ firing' = t
                               /\ arcs' = Resets[t]
  BY DEF FireBegin, IsNext
<1>2. /\ pc = "fire" /\ pc' = "consume"
      /\ UNCHANGED <<marking, flight, output, consumed, produced>>
      /\ marking \in NatBag
      /\ t \notin InFlight
      /\ consumed \in [Transitions -> NatBag]
      /\ firing \notin Transitions
      /\ produced = Empty
  BY <1>1 DEF FireBegin, IsNext, LoopInvariant, TypeOK, TokensTyped, FlightsTyped, PhaseOK,
              FiringPhase, ExecutorInvariant, FlightsOwned, NoTransition, Transitions
<1>3. consumed[t] = Empty
  BY <1>1, <1>2 DEF ExecutorInvariant, FlightsOwned
<1>4. Net!Running
  BY <1>2, RunningShown DEF ExecutorInvariant, TerminalLatched
<1>5. netMarking = marking
  BY <1>2, MarkingShown
<1>6. Firings = InFlight /\ Firings' = InFlight \cup {t}
  BY <1>1, <1>2 DEF Firings, InFlight
<1>7. ArcsSatisfied(t, marking)
  BY <1>1, <1>2, CanEnableExact DEF StillEnabled, LoopInvariant, BitmapFaithful
<1> DEFINE taken == [p \in Places |-> IF p \in ConsumptionPlaces(t)
                                       THEN ConsumptionCount(t, p, marking[p]) ELSE 0]
<1>8. ASSUME NEW p \in Places
      PROVE  /\ StillToTake'[p] = taken[p]
             /\ produced'[p] = 0
             /\ taken[p] \in Nat /\ taken[p] <= marking[p]
             /\ marking[p] \in Nat
  <2>1. /\ marking[p] \in Nat /\ Required[t][p] \in Nat
        /\ p \in TakesAll[t] => Required[t][p] > 0
    BY <1>2, NetAssumption DEF NatBag, NetAssumption
  <2>2. taken[p] = IF p \in ConsumptionPlaces(t) THEN ConsumptionCount(t, p, marking[p]) ELSE 0
    OBVIOUS
  <2>3. taken[p] \in Nat /\ taken[p] <= marking[p]
    <3> HIDE DEF taken
    <3> QED
      BY <2>1, <2>2, ConsumptionBounded
  <2>4. /\ Owed(p)' <=> marking[p] > 0 /\ (p \in TakesAll[t] \/ 0 < Required[t][p])
        /\ consumed'[t][p] = 0
    BY <1>1, <1>2, <1>3 DEF Owed, Empty
  <2>5. StillToTake'[p] = IF p \in Resets[t] \cup TakesAll[t] THEN marking[p]
                          ELSE IF marking[p] > 0 /\ 0 < Required[t][p]
                                 THEN Lesser(marking[p], Required[t][p]) ELSE 0
    <3>1. StillToTake'[p] = IF p \in Resets[t] \cup TakesAll[t] THEN marking[p]
                            ELSE IF Owed(p)'
                                   THEN Lesser(marking[p], Required[t][p] - consumed'[t][p])
                                   ELSE 0
      BY <1>1, <1>2 DEF StillToTake
    <3> QED
      BY <2>1, <2>4, <3>1
  <2>6. StillToTake'[p] = taken[p]
    <3> HIDE DEF taken
    <3> QED
      BY <2>1, <2>2, <2>5
      DEF ConsumptionPlaces, InputPlaces, ConsumptionCount, Lesser
  <2> QED
    BY <1>2, <2>1, <2>3, <2>6 DEF Empty
<1>9. \A p \in Places : netMarking'[p] = marking[p] - taken[p] /\ netMarking'[p] \in Nat
  <2> HIDE DEF taken
  <2>1. netMarking' = [p \in Places |-> marking[p] - taken[p] - 0]
    BY <1>2, <1>8 DEF netMarking
  <2> QED
    BY <1>8, <2>1
<1>10. netMarking' \in [Places -> Nat]
  BY <1>9 DEF netMarking
<1>11. \A p \in Places : netMarking[p] - netMarking'[p] = taken[p]
  <2> HIDE DEF taken
  <2> QED
    BY <1>5, <1>8, <1>9
<1>12. \A p \in Places : Net!MayTake(t, p, netMarking[p] - netMarking'[p])
  BY <1>1, <1>5, <1>11, SameOperators DEF Net!MayTake
<1>13. netHeld' = [netHeld EXCEPT ![t] = Net!Minus(netMarking, netMarking')]
  <2> HIDE DEF taken
  <2>1. \A p \in Places : consumed[t][p] + taken[p] = taken[p]
    BY <1>3, <1>8 DEF Empty
  <2>2. Net!Minus(netMarking, netMarking') = [p \in Places |-> taken[p]]
    BY <1>11 DEF Net!Minus
  <2>3. netHeld'[t] = [p \in Places |-> taken[p]]
    BY <1>1, <1>2, <1>6, <1>8, <2>1 DEF netHeld
  <2>4. \A u \in Transitions \ {t} : netHeld'[u] = netHeld[u]
    BY <1>1, <1>2, <1>6 DEF netHeld
  <2> QED
    BY <2>2, <2>3, <2>4 DEF netHeld
<1> QED
  BY <1>2, <1>4, <1>5, <1>6, <1>7, <1>10, <1>12, <1>13, SameOperators DEF Net!Start

\* The end of a completion, reached or thrown, is the end of the net's firing: what has
\* landed comes to light, and the net was running until then.
LEMMA EndingShown ==
  ASSUME LoopInvariant, LoopInvariant', ExecutorInvariant, ExecutorInvariant',
         pc = "deposit", EndCompletion
  PROVE  /\ firing \in Transitions
         /\ Net!Running
         /\ Net!Finish(firing)
         /\ netMarking' \in [Places -> Nat]
         /\ \A p \in Places : /\ netMarking[p] \in Int
                              /\ netMarking'[p] = netMarking[p] + produced[p]
<1>1. /\ pc' \in {"exit", "completions"}
      /\ UNCHANGED <<marking, flight>>
      /\ consumed' = [consumed EXCEPT ![firing] = Empty]
      /\ firing \in Transitions /\ firing \notin InFlight
      /\ consumed \in [Transitions -> NatBag]
      /\ marking \in NatBag
  BY DEF EndCompletion, LoopInvariant, TypeOK, FlightsTyped, TokensTyped, PhaseOK,
         FiringPhase, ExecutorInvariant, FlightsOwned
<1>2. netMarking = [p \in Places |-> marking[p] - produced[p]]
  BY LandingShown
<1>3. netMarking' = marking
  BY <1>1, MarkingShownNext
<1>4. \A p \in Places : /\ netMarking[p] \in Int
                        /\ netMarking'[p] = netMarking[p] + produced[p]
  BY <1>2, <1>3, Counts
<1>5. Net!Running
  <2>1. \A p \in Terminals : p \in Places /\ marking[p] = produced[p]
    BY NetAssumption DEF NetAssumption, ExecutorInvariant, TerminalLatched
  <2>2. \A p \in Terminals : netMarking[p] = 0
    BY <1>2, <2>1, Counts
  <2> QED
    BY <2>2 DEF Net!Running
<1>6. Firings = InFlight \cup {firing} /\ Firings' = InFlight
  BY <1>1 DEF Firings, InFlight
<1>7. /\ netHeld = [t \in Transitions |-> IF t \in Firings THEN consumed[t] ELSE Empty]
      /\ netHeld' = [t \in Transitions |-> IF t \in Firings' THEN consumed'[t] ELSE Empty]
  BY <1>1, HeldShown, HeldShownNext
<1>8. netHeld' = [netHeld EXCEPT ![firing] = Net!Nothing]
  BY <1>1, <1>6, <1>7, SameOperators
<1> QED
  BY <1>1, <1>3, <1>4, <1>5, <1>6, <1>8 DEF Net!Finish, NatBag

\* What the end of a completion brings to light is part of a bag the action may produce.
LEMMA PartOfBag ==
  ASSUME LoopInvariant, ExecutorInvariant, pc = "deposit", firing \in Transitions
  PROVE  \E bag \in Productions[firing] : \A p \in Places :
           /\ bag[p] \in Nat /\ produced[p] \in Nat /\ produced[p] <= bag[p]
           /\ output[firing] = Empty => bag[p] = produced[p]
<1>1. PICK bag \in Productions[firing] :
        \A p \in Places : bag[p] = produced[p] + output[firing][p]
  BY DEF ExecutorInvariant, FlightsOwned
<1>2. \A p \in Places : output[firing][p] \in Nat /\ produced[p] \in Nat
  BY Counts
<1>3. output[firing] = Empty => \A p \in Places : output[firing][p] = 0
  BY DEF Empty
<1> QED
  BY <1>1, <1>2, <1>3

\* SettleCompletion is Complete: everything the action produced has landed.
LEMMA SettleIsComplete ==
  ASSUME LoopInvariant, LoopInvariant', ExecutorInvariant, ExecutorInvariant',
         SettleCompletion
  PROVE  \E t \in Transitions : Net!Complete(t)
<1>1. /\ pc = "deposit" /\ EndCompletion /\ output[firing] = Empty
  BY DEF SettleCompletion
<1>2. /\ firing \in Transitions /\ Net!Running /\ Net!Finish(firing)
      /\ netMarking' \in [Places -> Nat]
      /\ \A p \in Places : netMarking'[p] = netMarking[p] + produced[p]
  BY <1>1, EndingShown
<1>3. PICK bag \in Productions[firing] : \A p \in Places : bag[p] = produced[p]
  BY <1>1, <1>2, PartOfBag
<1>4. netMarking' = Net!Plus(netMarking, bag)
  BY <1>2, <1>3 DEF Net!Plus
<1> QED
  BY <1>2, <1>3, <1>4 DEF Net!Complete

\* DepositThrow is CutShort: some of what the action produced has landed.
LEMMA DepositThrowIsCutShort ==
  ASSUME LoopInvariant, LoopInvariant', ExecutorInvariant, ExecutorInvariant', DepositThrow
  PROVE  \E t \in Transitions : Net!CutShort(t)
<1>1. /\ pc = "deposit" /\ EndCompletion /\ firing \in MayThrow
  BY DEF DepositThrow
<1>2. /\ firing \in Transitions /\ Net!Running /\ Net!Finish(firing)
      /\ netMarking' \in [Places -> Nat]
      /\ \A p \in Places : /\ netMarking[p] \in Int
                           /\ netMarking'[p] = netMarking[p] + produced[p]
  BY <1>1, EndingShown
<1>3. PICK bag \in Productions[firing] :
        \A p \in Places : bag[p] \in Nat /\ produced[p] \in Nat /\ produced[p] <= bag[p]
  BY <1>1, <1>2, PartOfBag
<1>4. \A p \in Places : /\ netMarking[p] <= netMarking'[p]
                        /\ netMarking'[p] <= netMarking[p] + bag[p]
  BY <1>2, <1>3
<1> QED
  BY <1>1, <1>2, <1>4 DEF Net!CutShort

\* CompleteFailed is Fail.
LEMMA FailedIsFail ==
  ASSUME LoopInvariant, LoopInvariant', ExecutorInvariant, ExecutorInvariant', CompleteFailed
  PROVE  \E t \in Transitions : Net!Fail(t)
<1>1. PICK t \in Transitions : /\ flight[t] = "failed"
                               /\ flight' = [flight EXCEPT ![t] = "idle"]
                               /\ consumed' = [consumed EXCEPT ![t] = Empty]
  BY HeadTailProperties DEF CompleteFailed, LoopInvariant, TypeOK, FlightsTyped
<1>2. /\ pc = "completions" /\ pc' = "completions"
      /\ UNCHANGED marking
      /\ flight \in [Transitions -> {"idle", "running", "failed", "done"}]
      /\ consumed \in [Transitions -> NatBag]
  BY DEF CompleteFailed, LoopInvariant, TypeOK, FlightsTyped
<1>3. t \in InFlight /\ InFlight' = InFlight \ {t}
  BY <1>1, <1>2 DEF InFlight
<1>4. netMarking' = netMarking
  BY <1>2, MarkingShown, MarkingShownNext
<1>5. /\ Firings = InFlight /\ Firings' = InFlight'
      /\ netHeld = [u \in Transitions |-> IF u \in Firings THEN consumed[u] ELSE Empty]
      /\ netHeld' = [u \in Transitions |-> IF u \in Firings' THEN consumed'[u] ELSE Empty]
  BY <1>2, HeldShown, HeldShownNext DEF Firings, InFlight
<1>6. netHeld' = [netHeld EXCEPT ![t] = Net!Nothing]
  BY <1>1, <1>2, <1>3, <1>5, SameOperators
<1> QED
  BY <1>3, <1>4, <1>5, <1>6 DEF Net!Fail, Net!Finish

\* FireThrow is Abort: what the firing has not taken stays, what it has taken is lost.  Of a
\* place it only resets it has taken all or nothing.
LEMMA ThrowIsAbort ==
  ASSUME LoopInvariant, LoopInvariant', ExecutorInvariant, ExecutorInvariant', FireThrow
  PROVE  \E t \in Transitions : Net!Abort(t)
<1>1. /\ pc \in {"consume", "start"} /\ pc' = "fire"
      /\ firing \in Transitions /\ firing \notin InFlight /\ firing \in MayThrow
      /\ UNCHANGED <<marking, flight>>
      /\ consumed' = [consumed EXCEPT ![firing] = Empty]
      /\ marking \in NatBag
      /\ consumed \in [Transitions -> NatBag]
      /\ pc = "consume" => \A p \in arcs \ InputPlaces(firing) : consumed[firing][p] = 0
      /\ produced = Empty
  BY DEF FireThrow, LoopInvariant, TypeOK, TokensTyped, FlightsTyped, PhaseOK,
         FiringPhase, ExecutorInvariant, FlightsOwned
<1>2. Firings = InFlight \cup {firing} /\ Firings' = InFlight
  BY <1>1 DEF Firings, InFlight
<1>3. netMarking' = marking
  BY <1>1, MarkingShownNext
<1>4. ASSUME NEW p \in Places
      PROVE  /\ netHeld[firing][p] = consumed[firing][p] + StillToTake[p]
             /\ netMarking'[p] - netMarking[p] = StillToTake[p]
             /\ StillToTake[p] \in Nat
             /\ consumed[firing][p] \in Nat
  <2>1. /\ marking[p] \in Nat /\ produced[p] = 0 /\ consumed[firing][p] \in Nat
    BY <1>1, Counts DEF Empty
  <2>2. StillToTake[p] \in Nat
    BY PendingTyped
  <2>3. netMarking[p] = marking[p] - StillToTake[p] - produced[p]
    BY DEF netMarking
  <2>4. netHeld[firing][p] = consumed[firing][p] + StillToTake[p]
    <3>1. netHeld[firing] = [q \in Places |-> consumed[firing][q] + StillToTake[q]]
      BY <1>1, <1>2 DEF netHeld
    <3> QED
      BY <3>1
  <2> QED
    BY <1>3, <2>1, <2>2, <2>3, <2>4
<1>5. ASSUME NEW p \in Places \ InputPlaces(firing)
      PROVE  StillToTake[p] = 0 \/ consumed[firing][p] = 0
  <2>1. CASE pc = "start"
    BY <2>1 DEF StillToTake
  <2>2. CASE pc = "consume" /\ p \in arcs
    BY <1>1, <2>2
  <2>3. CASE pc = "consume" /\ p \notin arcs
    <3>1. Required[firing][p] = 0 /\ p \notin TakesAll[firing]
      <4>1. Required[firing][p] \in Nat /\ ~(Required[firing][p] > 0)
        BY <1>1, Counts DEF InputPlaces
      <4> QED
        BY <1>1, <4>1, NetAssumption DEF NetAssumption
    <3>2. ~Owed(p)
      BY <1>1, <3>1, Counts DEF Owed
    <3> QED
      BY <2>3, <3>1, <3>2 DEF StillToTake
  <2> QED
    BY <1>1, <2>1, <2>2, <2>3
<1>6. ASSUME NEW p \in Places PROVE Net!GivenBack(firing, p, netMarking'[p] - netMarking[p])
  <2>1. CASE p \in InputPlaces(firing)
    BY <1>4, <2>1, SameOperators DEF Net!GivenBack
  <2>2. CASE p \notin InputPlaces(firing)
    BY <1>4, <1>5, <2>2 DEF Net!GivenBack
  <2> QED
    BY <2>1, <2>2
<1>7. netHeld' = [netHeld EXCEPT ![firing] = Net!Nothing]
  <2>1. netHeld' = [u \in Transitions |-> IF u \in Firings' THEN consumed'[u] ELSE Empty]
    BY <1>1, HeldShownNext
  <2>2. ASSUME NEW u \in Transitions \ {firing}
        PROVE  netHeld[u] = IF u \in InFlight THEN consumed[u] ELSE Empty
    <3>1. consumed[u] \in NatBag
      BY <1>1
    <3>2. [p \in Places |-> consumed[u][p] + 0] = consumed[u]
      BY <3>1 DEF NatBag
    <3> QED
      BY <1>2, <3>2 DEF netHeld
  <2>3. netHeld'[firing] = Empty
    BY <1>1, <1>2, <2>1
  <2>4. \A u \in Transitions \ {firing} : netHeld'[u] = netHeld[u]
    BY <1>1, <1>2, <2>1, <2>2
  <2> QED
    BY <2>1, <2>3, <2>4, SameOperators DEF netHeld
<1>8. Net!Finish(firing)
  BY <1>1, <1>2, <1>7 DEF Net!Finish
<1>9. netMarking' \in [Places -> Nat]
  BY <1>1, <1>3 DEF NatBag
<1> QED
  BY <1>1, <1>6, <1>8, <1>9 DEF Net!Abort

\* Admit is Arrive, also when the promise of the event is rejected: the event's place is an
\* environment place and the net still runs.
LEMMA AdmitIsArrive ==
  ASSUME LoopInvariant, LoopInvariant', ExecutorInvariant, ExecutorInvariant', Admit
  PROVE  \E p \in EnvPlaces : Net!Arrive(p)
<1> DEFINE p == externalQueue[externalCursor + 1]
<1>1. p \in EnvPlaces
  BY ElementOfSeq, LenProperties, EmptySeq
  DEF Admit, LoopInvariant, TypeOK, ExtTyped, PhaseOK, WalkPhase
<1>2. /\ pc \in {"external", "admit"} /\ pc' = "admit"
      /\ marking' = [marking EXCEPT ![p] = @ + 1]
      /\ UNCHANGED <<flight, consumed>>
  BY DEF Admit, AddToken
<1>3. ~terminalReached
  BY DEF Admit, ExecutorInvariant, TerminalLatched
<1>4. netMarking = marking /\ netMarking' = marking'
  BY <1>2, MarkingShown, MarkingShownNext
<1>5. /\ Firings' = Firings
      /\ netHeld' = netHeld
  <2>1. Firings' = Firings
    BY <1>2 DEF Firings, InFlight
  <2> QED
    BY <1>2, <2>1, HeldShown, HeldShownNext
<1>6. Net!Running
  BY <1>2, <1>3, RunningShown
<1> QED
  BY <1>1, <1>2, <1>4, <1>5, <1>6 DEF Net!Arrive

-----------------------------------------------------------------------------
(* The steps the net does not see.                                         *)

\* One removal takes from the place it removes from what still counted as to be taken there,
\* and nothing from any other.
LEMMA RemovalTakes ==
  ASSUME LoopInvariant, Consume
  PROVE  \E p \in Places, n \in Nat :
           /\ Remove(p, n)
           /\ StillToTake'[p] = StillToTake[p] - n
           /\ \A q \in Places \ {p} : StillToTake'[q] = StillToTake[q]
<1>1. PICK p \in Places :
        \/ Served(p) /\ Remove(p, 1) /\ UNCHANGED arcs
        \/ p \in arcs /\ (\A q \in Places : ~Owed(q)) /\ Remove(p, marking[p]) /\ arcs' = arcs \ {p}
  BY DEF Consume
<1>2. /\ pc = "consume" /\ UNCHANGED <<pc, firing>>
      /\ firing \in Transitions
      /\ marking \in NatBag /\ consumed \in [Transitions -> NatBag]
  BY DEF Consume, LoopInvariant, TypeOK, TokensTyped, FlightsTyped, PhaseOK, FiringPhase
<1>3. \A q \in Places : /\ marking[q] \in Nat
                        /\ consumed[firing][q] \in Nat
                        /\ Required[firing][q] \in Nat
                        /\ q \in TakesAll[firing] => Required[firing][q] > 0
  BY <1>2, Counts, NetAssumption DEF NetAssumption
<1>4. ASSUME NEW n, Remove(p, n), arcs' \in {arcs, arcs \ {p}}, NEW q \in Places \ {p}
      PROVE  StillToTake'[q] = StillToTake[q]
  <2>1. /\ marking'[q] = marking[q]
        /\ consumed'[firing'][q] = consumed[firing][q]
        /\ q \in arcs' <=> q \in arcs
    BY <1>2, <1>4 DEF Remove, NatBag
  <2> QED
    BY <1>2, <2>1 DEF StillToTake, Owed
<1>5. CASE Served(p) /\ Remove(p, 1) /\ UNCHANGED arcs
  <2>1. /\ marking'[p] = marking[p] - 1
        /\ consumed'[firing'][p] = consumed[firing][p] + 1
        /\ Owed(p)
    BY <1>2, <1>5 DEF Remove, NatBag, Served
  <2>2. StillToTake[p] = IF p \in arcs \cup TakesAll[firing] THEN marking[p]
                         ELSE Lesser(marking[p], Required[firing][p] - consumed[firing][p])
    BY <1>2, <2>1 DEF StillToTake
  <2>3. StillToTake'[p] = IF p \in arcs \cup TakesAll[firing] THEN marking'[p]
                          ELSE IF Owed(p)'
                          THEN Lesser(marking'[p], Required[firing][p] - consumed'[firing'][p])
                          ELSE 0
    BY <1>2, <1>5 DEF StillToTake
  <2>4. Owed(p)' <=> /\ marking'[p] > 0
                     /\ p \in TakesAll[firing] \/ consumed'[firing'][p] < Required[firing][p]
    BY <1>2 DEF Owed
  <2>5. StillToTake'[p] = StillToTake[p] - 1
    BY <1>3, <2>1, <2>2, <2>3, <2>4 DEF Owed, Lesser
  <2> QED
    BY <1>4, <1>5, <2>5
<1>6. CASE p \in arcs /\ (\A q \in Places : ~Owed(q)) /\ Remove(p, marking[p]) /\ arcs' = arcs \ {p}
  <2>1. marking'[p] = 0
    BY <1>2, <1>3, <1>6 DEF Remove, NatBag
  <2>2. StillToTake[p] = marking[p] /\ StillToTake'[p] = 0
    BY <1>2, <1>6, <2>1 DEF StillToTake, Owed
  <2>3. marking[p] \in Nat /\ StillToTake'[p] = StillToTake[p] - marking[p]
    BY <1>3, <2>2
  <2> QED
    BY <1>4, <1>6, <2>3
<1> QED
  BY <1>1, <1>5, <1>6

\* Consume moves tokens that already count as taken.
LEMMA ConsumeHidden ==
  ASSUME LoopInvariant, LoopInvariant', ExecutorInvariant, Consume
  PROVE  UNCHANGED <<netMarking, Firings, netHeld>>
<1>1. PICK p \in Places, n \in Nat :
        /\ Remove(p, n)
        /\ StillToTake'[p] = StillToTake[p] - n
        /\ \A q \in Places \ {p} : StillToTake'[q] = StillToTake[q]
  BY RemovalTakes
<1>2. /\ pc = "consume" /\ UNCHANGED <<pc, flight, firing, produced>>
      /\ firing \in Transitions
      /\ marking \in NatBag /\ consumed \in [Transitions -> NatBag]
  BY DEF Consume, LoopInvariant, TypeOK, TokensTyped, FlightsTyped, PhaseOK, FiringPhase
<1>3. Firings' = Firings
  BY <1>2 DEF Firings, InFlight
<1>4. /\ marking'[p] = marking[p] - n
      /\ consumed'[firing][p] = consumed[firing][p] + n
      /\ \A q \in Places \ {p} : /\ marking'[q] = marking[q]
                                 /\ consumed'[firing][q] = consumed[firing][q]
      /\ \A t \in Transitions \ {firing} : consumed'[t] = consumed[t]
  BY <1>1, <1>2 DEF Remove, NatBag
<1>5. \A q \in Places : /\ marking[q] \in Nat /\ consumed[firing][q] \in Nat
                        /\ StillToTake[q] \in Nat /\ produced[q] \in Nat
  BY <1>2, Counts, PendingTyped
<1>6. \A q \in Places : marking'[q] - StillToTake'[q] = marking[q] - StillToTake[q]
  BY <1>1, <1>4, <1>5
<1>7. netMarking' = netMarking
  BY <1>2, <1>6 DEF netMarking
<1>8. \A q \in Places : consumed'[firing][q] + StillToTake'[q]
                          = consumed[firing][q] + StillToTake[q]
  BY <1>1, <1>4, <1>5
<1>9. ASSUME NEW t \in Transitions PROVE netHeld'[t] = netHeld[t]
  <2>1. CASE t = firing
    BY <1>2, <1>3, <1>8, <2>1 DEF netHeld
  <2>2. CASE t # firing
    BY <1>2, <1>3, <1>4, <2>2 DEF netHeld
  <2> QED
    BY <2>1, <2>2
<1>10. netHeld' = netHeld
  BY <1>9 DEF netHeld
<1> QED
  BY <1>3, <1>7, <1>10

\* The completion of a flight takes over what the flight holds; nothing has landed yet.
LEMMA OkHidden ==
  ASSUME LoopInvariant, LoopInvariant', ExecutorInvariant, CompleteOk
  PROVE  UNCHANGED <<netMarking, Firings, netHeld>>
<1>1. PICK t \in Transitions : /\ flight[t] = "done"
                               /\ flight' = [flight EXCEPT ![t] = "idle"]
                               /\ firing' = t
  BY HeadTailProperties DEF CompleteOk, LoopInvariant, TypeOK, FlightsTyped
<1>2. /\ pc = "completions" /\ pc' = "deposit"
      /\ UNCHANGED <<marking, produced, consumed>>
      /\ flight \in [Transitions -> {"idle", "running", "failed", "done"}]
  BY DEF CompleteOk, LoopInvariant, TypeOK, FlightsTyped
<1>3. Firings' = Firings
  BY <1>1, <1>2 DEF Firings, InFlight
<1>4. netMarking' = netMarking
  BY <1>2 DEF netMarking, StillToTake
<1>5. netHeld' = netHeld
  BY <1>2, <1>3, HeldShown, HeldShownNext
<1> QED
  BY <1>3, <1>4, <1>5

\* Deposit puts down tokens that stay hidden until the completion is over.
LEMMA DepositHidden ==
  ASSUME LoopInvariant, LoopInvariant', Deposit
  PROVE  UNCHANGED <<netMarking, Firings, netHeld>>
<1>1. PICK p \in Places :
        /\ produced' = [produced EXCEPT ![p] = @ + 1]
        /\ marking' = [marking EXCEPT ![p] = @ + 1]
  BY DEF Deposit, AddToken
<1>2. /\ pc = "deposit" /\ UNCHANGED <<pc, flight, consumed, firing>>
      /\ marking \in NatBag /\ produced \in NatBag
  BY DEF Deposit, LoopInvariant, TypeOK, TokensTyped, PassTyped
<1>3. \A q \in Places : marking[q] \in Nat /\ produced[q] \in Nat
  BY <1>2 DEF NatBag
<1>4. /\ marking'[p] = marking[p] + 1 /\ produced'[p] = produced[p] + 1
      /\ \A q \in Places \ {p} : marking'[q] = marking[q] /\ produced'[q] = produced[q]
  BY <1>1, <1>2 DEF NatBag
<1>5. \A q \in Places : marking'[q] - produced'[q] = marking[q] - produced[q]
  BY <1>3, <1>4
<1>6. /\ netMarking = [q \in Places |-> marking[q] - produced[q]]
      /\ netMarking' = [q \in Places |-> marking'[q] - produced'[q]]
  BY <1>2, LandingShown, LandingShownNext
<1>7. netMarking' = netMarking
  BY <1>5, <1>6
<1>8. Firings' = Firings
  BY <1>2 DEF Firings, InFlight
<1> QED
  BY <1>2, <1>7, <1>8, HeldShown, HeldShownNext

\* Once nothing is owed, nothing is left to take; registering the flight hands its
\* tokens from the firing to the flight.
LEMMA StartHidden ==
  ASSUME LoopInvariant, LoopInvariant', ExecutorInvariant, FireStart \/ FireRegister
  PROVE  UNCHANGED <<netMarking, Firings, netHeld>>
<1>1. /\ UNCHANGED <<marking, consumed, produced>>
      /\ firing \in Transitions
      /\ flight \in [Transitions -> {"idle", "running", "failed", "done"}]
  BY DEF FireStart, FireRegister, LoopInvariant, TypeOK, FlightsTyped, PhaseOK, FiringPhase
<1>2. Firings' = Firings
  BY <1>1 DEF Firings, InFlight, FireStart, FireRegister
<1>3. StillToTake = Empty
  <2>1. CASE FireRegister
    BY <2>1 DEF StillToTake, Empty, FireRegister
  <2>2. CASE FireStart
    <3>1. ASSUME NEW p \in Places PROVE StillToTake[p] = 0
      <4>1. p \notin arcs /\ ~Owed(p) /\ marking[p] \in Nat
        BY <2>2, Counts DEF FireStart, AllTaken
      <4> QED
        BY <4>1 DEF StillToTake, Owed
    <3> QED
      BY <3>1 DEF StillToTake, Empty
  <2> QED
    BY <2>1, <2>2
<1>4. StillToTake' = Empty
  BY DEF StillToTake, Empty, FireStart, FireRegister
<1>5. netMarking' = netMarking
  BY <1>1, <1>3, <1>4 DEF netMarking
<1>6. netHeld' = netHeld
  BY <1>1, <1>2, <1>3, <1>4 DEF netHeld, Empty
<1> QED
  BY <1>2, <1>5, <1>6

\* The remaining steps touch no token and no registration.
LEMMA HiddenFrame ==
  ASSUME [Next]_vars
  PROVE  \/ FireBegin \/ CompleteOk \/ CompleteFailed \/ FireThrow \/ Admit
         \/ Consume \/ Deposit \/ FireStart \/ FireRegister \/ SettleCompletion
         \/ DepositThrow
         \/ \E t \in Transitions : ActionSettles(t)
         \/ UNCHANGED <<pc, marking, flights, firing, arcs, produced>>
         \/ /\ UNCHANGED <<marking, flights>>
            /\ pc \notin {"deposit", "consume", "start"}
            /\ pc' \notin {"deposit", "consume", "start"}
  BY DEF Next, Orchestrate, vars, Terminated, Run, CompletionsDone, SkipExternal, AdmitDone,
    UpdateDirtyTransitions, EnforceDeadlines, Decide, FireSkip, IsNext, FireDone,
    AwaitEnter, FlushReturn, Park, Resume, Exit, TimerFires, Tick, Inject, Drain, Close,
    BudgetExpires

\* A step away from firings and deposits that keeps the tokens and the flights keeps the net.
LEMMA QuietHidden ==
  ASSUME LoopInvariant, LoopInvariant', ExecutorInvariant, ExecutorInvariant',
         UNCHANGED <<marking, consumed, InFlight>>,
         pc \notin {"deposit", "consume", "start"}, pc' \notin {"deposit", "consume", "start"}
  PROVE  UNCHANGED <<netMarking, Firings, netHeld>>
<1>1. netMarking' = netMarking
  BY MarkingShown, MarkingShownNext
<1>2. Firings' = Firings
  BY DEF Firings
<1> QED
  BY <1>1, <1>2, HeldShown, HeldShownNext

\* Every step of the executor is a step of the net or leaves the net as it is.
LEMMA NetStep ==
  LoopInvariant /\ LoopInvariant' /\ ExecutorInvariant /\ ExecutorInvariant' /\ [Next]_vars
    => [Net!NetNext]_(Net!netVars)
<1> SUFFICES ASSUME LoopInvariant, LoopInvariant', ExecutorInvariant, ExecutorInvariant',
                    [Next]_vars
             PROVE  Net!NetNext \/ UNCHANGED <<netMarking, Firings, netHeld>>
  BY DEF Net!netVars
<1>1. CASE FireBegin
  BY <1>1, BeginIsStart, SameOperators DEF Net!NetNext
<1>2. CASE SettleCompletion
  BY <1>2, SettleIsComplete, SameOperators DEF Net!NetNext
<1>3. CASE DepositThrow
  BY <1>3, DepositThrowIsCutShort, SameOperators DEF Net!NetNext
<1>4. CASE CompleteFailed
  BY <1>4, FailedIsFail, SameOperators DEF Net!NetNext
<1>5. CASE FireThrow
  BY <1>5, ThrowIsAbort, SameOperators DEF Net!NetNext
<1>6. CASE Admit
  BY <1>6, AdmitIsArrive DEF Net!NetNext
<1>7. CASE Consume \/ CompleteOk \/ Deposit \/ FireStart \/ FireRegister
  BY <1>7, ConsumeHidden, OkHidden, DepositHidden, StartHidden
<1>8. ASSUME NEW t \in Transitions, ActionSettles(t)
      PROVE  UNCHANGED <<netMarking, Firings, netHeld>>
  <2>1. /\ UNCHANGED <<pc, marking, consumed>>
        /\ pc \notin {"deposit", "consume", "start"}
    BY <1>8 DEF ActionSettles, Yielded
  <2>2. InFlight' = InFlight
    BY <1>8 DEF ActionSettles, InFlight, LoopInvariant, TypeOK, FlightsTyped
  <2> QED
    BY <2>1, <2>2, QuietHidden
<1>9. CASE UNCHANGED <<pc, marking, flights, firing, arcs, produced>>
  <2>1. StillToTake' = StillToTake /\ Firings' = Firings
    BY <1>9 DEF StillToTake, Owed, Firings, InFlight
  <2> QED
    BY <1>9, <2>1 DEF netMarking, netHeld
<1>10. CASE /\ UNCHANGED <<marking, flights>>
            /\ pc \notin {"deposit", "consume", "start"}
            /\ pc' \notin {"deposit", "consume", "start"}
  <2>1. InFlight' = InFlight
    BY <1>10 DEF InFlight
  <2> QED
    BY <1>10, <2>1, QuietHidden
<1> QED
  BY <1>1, <1>2, <1>3, <1>4, <1>5, <1>6, <1>7, <1>8, <1>9, <1>10, HiddenFrame

\* The initial states of the executor are initial states of the net.
LEMMA NetStart == Init => Net!NetInit
<1> SUFFICES ASSUME Init PROVE Net!NetInit
  OBVIOUS
<1>1. LoopInvariant /\ ExecutorInvariant /\ pc = "new" /\ InFlight = {}
  BY LoopInvariantInit, ExecutorInvariantInit DEF Init, InFlight
<1>2. netMarking \in InitialMarkings
  BY <1>1, MarkingShown DEF Init
<1>3. Firings = {}
  BY <1>1 DEF Firings
<1>4. netHeld = [t \in Transitions |-> Empty]
  BY <1>1, <1>3, HeldShown
<1> QED
  BY <1>2, <1>3, <1>4, SameOperators DEF Net!NetInit

\* The executor implements the token game: whatever its caches, queues, callbacks and
\* failures do, also a clock or a context provider that throws between any two tokens of a
\* firing or of a completion, every behaviour of the loop is a behaviour of the net.
THEOREM RefinesNet == Spec => ImplementsNet
<1>1. Net!NetInit /\ [][Net!NetNext]_(Net!netVars) => ImplementsNet
  BY DEF ImplementsNet, Net!NetSpec
<1> QED
  BY <1>1, NetStart, NetStep, LoopInvariantHolds, ExecutorInvariantHolds, PTL DEF Spec

-----------------------------------------------------------------------------
(* The restart threshold.                                                  *)

\* restartThresholds(): a firing of t that leaves in p less than another transition
\* u needs there has fallen below the threshold of p.
LEMMA ThresholdReached ==
  ASSUME NEW t \in Transitions, NEW u \in Transitions, u # t,
         NEW p \in ConsumptionPlaces(t), u \in Requirers(p)
  PROVE  RestartThreshold(p) \in Nat /\ Requirement(u, p) <= RestartThreshold(p)
<1>1. p \in Places
  BY NetAssumption DEF NetAssumption, ConsumptionPlaces, InputPlaces
<1>2. \A v \in Transitions : Requirement(v, p) \in Nat
  BY <1>1, NetAssumption DEF NetAssumption, Requirement
<1>3. ~(Cardinality(Requirers(p)) < 2 /\ \A v \in Transitions : p \notin Resets[v])
  <2> SUFFICES ASSUME \A v \in Transitions : p \notin Resets[v]
               PROVE  ~(Cardinality(Requirers(p)) < 2)
    OBVIOUS
  <2>1. t \in Requirers(p)
    BY DEF Requirers, NeedsMask, ConsumptionPlaces
  <2>2. /\ IsFiniteSet(Requirers(p)) /\ Cardinality(Requirers(p)) \in Nat
        /\ {t, u} \subseteq Requirers(p)
    BY <2>1, TransitionsFinite DEF Requirers
  <2>3. Cardinality({t, u}) <= Cardinality(Requirers(p))
    BY <2>2, FS_Subset
  <2>4. Cardinality({t, u}) = 2
    <3>1. Cardinality({t}) = 1 /\ IsFiniteSet({t})
      BY FS_Singleton
    <3>2. {t, u} = {t} \cup {u}
      OBVIOUS
    <3> QED
      BY <3>1, <3>2, FS_AddElement
  <2> QED
    BY <2>2, <2>3, <2>4
<1>4. \E n \in {0} \cup {Requirement(v, p) : v \in Requirers(p)} :
        \A v \in Requirers(p) : Requirement(v, p) <= n
  <2> DEFINE f == [v \in Requirers(p) |-> Requirement(v, p)]
  <2>1. IsFiniteSet(Requirers(p)) /\ Requirers(p) # {}
    BY TransitionsFinite DEF Requirers
  <2>2. f \in [Requirers(p) -> Int]
    BY <1>2 DEF Requirers
  <2>3. PICK v \in Requirers(p) : \A w \in Requirers(p) : f[w] <= f[v]
    <3> HIDE DEF f
    <3> QED
      BY <2>1, <2>2, FiniteMax
  <2>4. \A w \in Requirers(p) : Requirement(w, p) <= Requirement(v, p)
    BY <2>3
  <2> QED
    BY <2>4
<1>5. /\ RestartThreshold(p) \in {0} \cup {Requirement(v, p) : v \in Requirers(p)}
      /\ \A v \in Requirers(p) : Requirement(v, p) <= RestartThreshold(p)
  BY <1>3, <1>4 DEF RestartThreshold
<1> QED
  BY <1>2, <1>5 DEF Requirers

-----------------------------------------------------------------------------
(* Short, blocked or satisfied.                                            *)

\* The arcs are satisfied when nothing is short and no inhibitor is marked.
LEMMA SatisfiedMeans ==
  ASSUME NEW t \in Transitions, marking \in NatBag
  PROVE  ArcsSatisfied(t, marking) <=> ~Blocked(t) /\ \A p \in Places : ~Short(t, p)
<1>1. \A p \in Places : marking[p] \in Nat /\ Required[t][p] \in Nat
  BY NetAssumption DEF NetAssumption, NatBag
<1>2. Reads[t] \subseteq Places /\ Inhibitors[t] \subseteq Places
  BY NetAssumption DEF NetAssumption
<1> QED
  BY <1>1, <1>2 DEF ArcsSatisfied, Blocked, Short

\* canEnable() against the bits of the marking itself is false for a short transition.
LEMMA ShortCannot ==
  ASSUME NEW t \in Transitions, marking \in NatBag, NEW p \in Places, Short(t, p)
  PROVE  ~CanEnable(t, Marked(marking), marking)
<1>1. marking[p] \in Nat /\ Required[t][p] \in Nat
  BY NetAssumption DEF NetAssumption, NatBag
<1> QED
  BY <1>1 DEF Short, CanEnable, CanEnableBitmap, CardinalityCheck, NeedsMask, InputPlaces,
              Marked

\* flagIntermediateDisablements(): what a firing leaves short of a place it took from
\* is flagged for a restart and for re-evaluation.
LEMMA DisabledFlagged ==
  ASSUME NEW t \in Transitions, NEW u \in enabled \ InFlight, u \in Transitions, u # t,
         marking \in NatBag, NEW p \in ConsumptionPlaces(t), Short(u, p)
  PROVE  u \in Disabled(t, Marked(marking)) /\ u \in DirtiedBy(t)
<1>1. p \in Places
  BY NetAssumption DEF NetAssumption, ConsumptionPlaces, InputPlaces
<1>2. marking[p] \in Nat /\ Required[u][p] \in Nat
  BY <1>1, NetAssumption DEF NetAssumption, NatBag
<1>3. u \in Requirers(p) /\ marking[p] < Requirement(u, p)
  BY <1>1, <1>2 DEF Short, Requirers, NeedsMask, InputPlaces, Requirement
<1>4. Requirement(u, p) \in Nat
  BY <1>2 DEF Requirement
<1>5. marking[p] < RestartThreshold(p)
  BY <1>2, <1>3, <1>4, ThresholdReached
<1>6. u \in AffectedTransitions(p)
  BY <1>3 DEF Requirers, AffectedTransitions
<1>7. ~CanEnable(u, Marked(marking), marking)
  BY <1>1, ShortCannot
<1> QED
  BY <1>5, <1>6, <1>7 DEF Disabled, DirtiedBy

-----------------------------------------------------------------------------
(* The clocks.                                                             *)

\* Only these steps touch a clock, a flag or what the pass is about to fire.
LEMMA ClocksFrame ==
  ASSUME [Next]_vars
  PROVE  \/ UpdateDirtyTransitions \/ EnforceDeadlines \/ Decide \/ FireSkip
         \/ FireBegin \/ FireRegister \/ FireThrow \/ Tick
         \/ /\ UNCHANGED <<enabled, enabledAt, now, cycleNow>>
            /\ Passing' => Passing /\ UNCHANGED <<ready, firing>>
  BY DEF Next, Orchestrate, vars, Terminated, Passing, Run, CompleteFailed, CompleteOk,
    Deposit, SettleCompletion, DepositThrow, EndCompletion, CompletionsDone, SkipExternal, Admit, AdmitDone, Consume,
    FireStart, FireDone, AwaitEnter, FlushReturn, Park, Resume, Exit, ActionSettles,
    TimerFires, Inject, Drain, Close, BudgetExpires

\* The types the arithmetic of the clocks needs.
LEMMA ClockTypes ==
  ASSUME TypeOK
  PROVE  /\ now \in Nat /\ cycleNow \in Nat /\ Tolerance \in Nat
         /\ enabled \in SUBSET Transitions
         /\ enabledAt \in [Transitions -> Nat \cup {-1}]
         /\ \A t \in Transitions : /\ enabledAt[t] \in Int
                                   /\ Earliest(t) \in Nat
                                   /\ Latest(t) \in Nat
<1>1. /\ now \in Nat /\ cycleNow \in Nat /\ Tolerance \in Nat
      /\ enabled \in SUBSET Transitions
      /\ enabledAt \in [Transitions -> Nat \cup {-1}]
  BY ExecutorAssumption DEF ExecutorAssumption, TypeOK, ClockTyped, SchedTyped, Never
<1>2. \A t \in Transitions : Timing[t].lo \in Nat /\ Timing[t].hi \in Nat
  BY NetAssumption DEF NetAssumption
<1>3. ASSUME NEW t \in Transitions
      PROVE  enabledAt[t] \in Int /\ Earliest(t) \in Nat /\ Latest(t) \in Nat
  BY <1>1, <1>2 DEF Earliest, Latest
<1> QED
  BY <1>1, <1>3

\* A clock is read once per pass; what is late then is switched off, what is early is
\* not in the ready list, and only a flag that goes up starts a clock.
LEMMA ClocksStep ==
  LoopInvariant /\ ExecutorInvariant /\ ClocksRight /\ [Next]_vars => ClocksRight'
<1> SUFFICES ASSUME LoopInvariant, ExecutorInvariant, ClocksRight, [Next]_vars
             PROVE  ClocksRight'
  OBVIOUS
<1> USE DEF ClocksRight
<1>0. /\ TypeOK /\ FiringPhase
      /\ enabled \cap InFlight = {}
      /\ NoTransition \notin Transitions
  BY DEF LoopInvariant, PhaseOK, ExecutorInvariant, FlightsOwned, NoTransition, Transitions
<1>1. /\ now \in Nat /\ cycleNow \in Nat /\ Tolerance \in Nat
      /\ enabled \in SUBSET Transitions
      /\ enabledAt \in [Transitions -> Nat \cup {-1}]
      /\ \A t \in Transitions : /\ enabledAt[t] \in Int
                                /\ Earliest(t) \in Nat
                                /\ Latest(t) \in Nat
  BY <1>0, ClockTypes
<1>2. CASE UpdateDirtyTransitions
  <2>1. /\ ~Passing' /\ now' = now
        /\ \A t \in enabled' : t \in Transitions
                               /\ (enabledAt'[t] = now
                                   \/ (t \in enabled /\ enabledAt'[t] = enabledAt[t]))
    BY <1>0, <1>1, <1>2 DEF UpdateDirtyTransitions, Passing, TypeOK, SchedTyped
  <2> QED
    BY <1>1, <2>1
<1>3. CASE EnforceDeadlines
  <2>1. /\ enabled' = enabled \ Late
        /\ now' = now /\ cycleNow' = now
        /\ UNCHANGED <<ready, firing>>
        /\ pc = "deadlines"
        /\ \A t \in enabled' : enabledAt'[t] = enabledAt[t]
    BY <1>1, <1>3 DEF EnforceDeadlines
  <2>2. ready = {} /\ firing = NoTransition
    BY <1>0, <2>1 DEF FiringPhase
  <2>3. ASSUME NEW t \in enabled', HardDeadline(t)
        PROVE  now - enabledAt[t] <= Latest(t) + Tolerance
    BY <1>0, <1>1, <2>1, <2>3 DEF Late
  <2> QED
    BY <1>0, <1>1, <2>1, <2>2, <2>3
<1>4. CASE Decide
  <2>1. /\ UNCHANGED <<enabled, enabledAt, now, cycleNow, firing>>
        /\ ready' \subseteq ReadyTransitions(cycleNow)
        /\ Passing /\ firing = NoTransition
    BY <1>0, <1>4 DEF Decide, Passing, FiringPhase
  <2>2. ASSUME NEW t \in ReadyTransitions(cycleNow)
        PROVE  Earliest(t) <= cycleNow - enabledAt[t]
    <3>1. t \in enabled /\ t \in Transitions /\ enabledAt[t] <= cycleNow
      BY <1>1, <2>1 DEF ReadyTransitions
    <3>2. CASE FastPath
      BY <1>1, <3>1, <3>2 DEF FastPath, Earliest
    <3> QED
      BY <3>2 DEF ReadyTransitions
  <2> QED
    BY <1>0, <1>1, <2>1, <2>2
<1>5. CASE FireSkip \/ FireRegister \/ FireThrow
  <2>1. /\ UNCHANGED <<now, cycleNow>>
        /\ Passing
        /\ ready' \subseteq ready
        /\ firing' = NoTransition
    BY <1>0, <1>5 DEF FireSkip, FireRegister, FireThrow, IsNext, Passing, FiringPhase
  <2>2. PICK u \in Transitions : SwitchOff(u)
    BY <1>0, <1>5 DEF FireSkip, FireRegister, FireThrow, FiringPhase
  <2>3. \A t \in enabled' : t \in enabled /\ enabledAt'[t] = enabledAt[t]
    BY <1>1, <2>2 DEF SwitchOff
  <2> QED
    BY <1>0, <1>1, <2>1, <2>3
<1>6. CASE FireBegin
  <2>1. /\ UNCHANGED <<enabled, enabledAt, now, cycleNow>>
        /\ Passing
        /\ ready' \subseteq ready
        /\ firing' \in ready
    BY <1>6 DEF FireBegin, IsNext, Passing
  <2> QED
    BY <2>1
<1>7. CASE Tick
  <2>1. /\ UNCHANGED <<pc, enabled, enabledAt, cycleNow, ready, firing>>
        /\ now' = now + 1
    BY <1>7 DEF Tick
  <2> QED
    BY <1>1, <2>1 DEF Passing
<1>8. CASE /\ UNCHANGED <<enabled, enabledAt, now, cycleNow>>
           /\ Passing' => Passing /\ UNCHANGED <<ready, firing>>
  BY <1>8
<1> QED
  BY <1>2, <1>3, <1>4, <1>5, <1>6, <1>7, <1>8, ClocksFrame

-----------------------------------------------------------------------------
(* Gaps: the markings that disable a flagged transition.                   *)

\* Only these steps touch what the two gap invariants read, or enter a pass.
LEMMA GapFrame ==
  ASSUME [Next]_vars
  PROVE  \/ CompleteOk \/ Deposit \/ SettleCompletion \/ DepositThrow \/ Admit
         \/ UpdateDirtyTransitions \/ EnforceDeadlines \/ FireSkip \/ FireBegin
         \/ Consume \/ FireStart \/ FireRegister \/ FireThrow
         \/ /\ UNCHANGED <<marking, enabled, restartPending, gap, firing>>
            /\ dirty \subseteq dirty' \/ dirty' = Transitions
            /\ Passing' => Passing
            /\ pc' = pc \/ (pc \notin {"consume", "deposit"} /\ pc' \notin {"consume", "deposit"})
  BY DEF Next, Orchestrate, vars, Terminated, Passing, Run, CompleteFailed,
    CompletionsDone, SkipExternal, AdmitDone, Decide, FireDone, AwaitEnter, FlushReturn,
    Park, Resume, Exit, ActionSettles, TimerFires, Tick, Inject, Drain, Close,
    BudgetExpires

\* A deposit disables a flagged transition only through an inhibitor, which keeps it
\* blocked, and dirty, until the next evaluation.
LEMMA GapDeposit ==
  ASSUME LoopInvariant, LoopInvariant', ExecutorInvariant, GapNoticed, GapComplete,
         Deposit \/ Admit
  PROVE  GapNoticed' /\ GapComplete'
<1>0. /\ marking \in NatBag /\ enabled \in SUBSET Transitions
      /\ enabled \cap InFlight = {}
      /\ NoTransition \notin Transitions
      /\ TypeOK /\ PhaseOK
  BY DEF LoopInvariant, TypeOK, TokensTyped, SchedTyped, ExecutorInvariant, FlightsOwned,
         NoTransition, Transitions
<1>1. PICK p \in Places : AddToken(p) /\ dirty' = dirty \cup AffectedTransitions(p)
  <2>1. CASE Deposit
    BY <2>1 DEF Deposit
  <2>2. CASE Admit
    <3>1. externalQueue[externalCursor + 1] \in Places
      BY <1>0, <2>2, ElementOfSeq, LenProperties, EmptySeq, ExecutorAssumption
      DEF Admit, TypeOK, ExtTyped, PhaseOK, WalkPhase, ExecutorAssumption
    <3> QED
      BY <2>2, <3>1 DEF Admit
  <2> QED
    BY <2>1, <2>2
<1>2. /\ UNCHANGED <<enabled, restartPending, flight, firing>>
      /\ pc \in {"deposit", "external", "admit"} /\ pc' \in {"deposit", "admit"}
      /\ pc' = "deposit" => pc = "deposit"
      /\ firing \notin enabled
  BY <1>0 DEF Deposit, Admit, GapNoticed, PhaseOK, FiringPhase
<1>3. gap' = gap \cup {u \in enabled : ~ArcsSatisfied(u, marking')}
  BY <1>1 DEF AddToken
<1>4. /\ marking' \in NatBag
      /\ \A q \in Places : /\ marking[q] \in Nat /\ marking'[q] \in Nat
                           /\ marking[q] <= marking'[q]
  BY <1>0, <1>1 DEF AddToken, NatBag
<1>5. \A t \in Transitions : /\ Inhibitors[t] \subseteq Places /\ Reads[t] \subseteq Places
                             /\ \A q \in Places : Required[t][q] \in Nat
  BY NetAssumption DEF NetAssumption
<1>6. ASSUME NEW t \in enabled, ~ArcsSatisfied(t, marking') PROVE t \in dirty'
  <2>1. t \notin InFlight' /\ t # firing' /\ t \in enabled' /\ t \in Transitions
    BY <1>0, <1>2 DEF InFlight
  <2> QED
    BY <1>2, <1>6, <2>1 DEF LoopInvariant, EnablementTracksMarking, FlagRight
<1>7. ASSUME NEW t \in enabled, ArcsSatisfied(t, marking), ~ArcsSatisfied(t, marking')
      PROVE  Blocked(t)'
  BY <1>0, <1>4, <1>5, <1>7 DEF ArcsSatisfied, Blocked
<1>8. ASSUME NEW t \in enabled, Blocked(t) PROVE Blocked(t)'
  <2>1. PICK q \in Inhibitors[t] : marking[q] > 0
    BY <1>8 DEF Blocked
  <2>2. q \in Places
    BY <1>0, <1>5
  <2>3. marking'[q] > 0
    BY <1>4, <2>1, <2>2
  <2> QED
    BY <2>1, <2>3 DEF Blocked
<1>9. ASSUME NEW t \in gap'
      PROVE  t \in enabled \cap dirty' /\ (t \in restartPending \/ Blocked(t)')
  <2>1. CASE t \in gap
    BY <1>1, <1>8, <2>1 DEF GapNoticed
  <2>2. CASE t \notin gap
    <3>1. t \in enabled /\ ~ArcsSatisfied(t, marking') /\ t # firing
      BY <1>2, <1>3, <2>2
    <3>2. ArcsSatisfied(t, marking)
      BY <1>2, <2>2, <3>1 DEF GapComplete
    <3> QED
      BY <1>6, <1>7, <3>1, <3>2
  <2> QED
    BY <2>1, <2>2
<1>10. GapNoticed'
  BY <1>2, <1>9 DEF GapNoticed, Passing
<1>11. GapComplete'
  BY <1>2, <1>3 DEF GapComplete
<1> QED
  BY <1>10, <1>11

\* A firing that has taken its tokens, all of them or up to a throw, flags whatever
\* it left short; what it left blocked was blocked before.
LEMMA GapFire ==
  ASSUME LoopInvariant, LoopInvariant', ExecutorInvariant, GapNoticed, GapComplete,
         FireStart \/ FireThrow
  PROVE  GapNoticed' /\ GapComplete'
<1>0. /\ marking \in NatBag /\ enabled \in SUBSET Transitions
      /\ enabled \cap InFlight = {}
      /\ NoTransition \notin Transitions
      /\ firing \in Transitions
  BY DEF LoopInvariant, TypeOK, TokensTyped, SchedTyped, ExecutorInvariant, FlightsOwned,
         NoTransition, Transitions, FireStart, FireThrow, PhaseOK, FiringPhase
<1>1. /\ UNCHANGED marking
      /\ pc \in {"consume", "start"} /\ pc' \in {"fire", "start"}
      /\ dirty \cup DirtiedBy(firing) \subseteq dirty'
      /\ gap' \subseteq gap \cup LeftDisabled(firing)
      /\ restartPending' = restartPending \cup Disabled(firing, bitmap')
  BY DEF FireStart, FireThrow, UpdateBitmapAfterConsumption
<1>2. \/ enabled' = enabled /\ firing' = firing /\ gap' = gap \cup LeftDisabled(firing)
      \/ /\ enabled' = enabled \ {firing}
         /\ firing' = NoTransition
         /\ gap' = (gap \cup LeftDisabled(firing)) \ {firing}
  BY DEF FireStart, FireThrow, SwitchOff
<1>3. bitmap' = Marked(marking)
  BY <1>1 DEF LoopInvariant, BitmapFaithful
<1>4. ASSUME NEW u \in LeftDisabled(firing), u \notin gap
      PROVE  u \in restartPending' /\ u \in dirty' /\ \E p \in Places : Short(u, p)
  <2>1. /\ u \in enabled \ InFlight /\ u \in Transitions /\ u # firing
        /\ ~ArcsSatisfied(u, marking)
    BY <1>0 DEF LeftDisabled
  <2>2. /\ pc = "consume" /\ ~Blocked(u)
        /\ \A p \in Places : Short(u, p) => p \in ConsumptionPlaces(firing)
    BY <1>1, <1>4, <2>1 DEF GapComplete
  <2>3. PICK p \in Places : Short(u, p)
    BY <1>0, <2>1, <2>2, SatisfiedMeans
  <2>4. p \in ConsumptionPlaces(firing)
    BY <2>2, <2>3
  <2>5. u \in Disabled(firing, Marked(marking)) /\ u \in DirtiedBy(firing)
    BY <1>0, <2>1, <2>3, <2>4, DisabledFlagged
  <2> QED
    BY <1>1, <1>3, <2>3, <2>5
<1>5. ASSUME NEW t \in gap
      PROVE  t \in restartPending /\ t \in dirty /\ \E p \in Places : Short(t, p)
  BY <1>1 DEF GapNoticed, Passing
<1>6. \A t \in gap' : /\ t \in restartPending' /\ t \in dirty'
                      /\ \E p \in Places : Short(t, p)
  BY <1>1, <1>4, <1>5
<1>7. \A t \in Transitions, p \in Places : Short(t, p) => Short(t, p)'
  BY <1>1 DEF Short
<1>8. gap' \subseteq enabled' /\ firing' \notin gap'
  BY <1>0, <1>2 DEF GapNoticed, LeftDisabled
<1>9. GapNoticed'
  <2>1. \A t \in gap' : \E p \in Places : Short(t, p)'
    BY <1>0, <1>2, <1>6, <1>7, <1>8
  <2> QED
    BY <1>1, <1>6, <1>8, <2>1 DEF GapNoticed
<1>10. GapComplete'
  <2> SUFFICES ASSUME NEW t \in enabled' \ (gap' \cup {firing'})
               PROVE  ArcsSatisfied(t, marking')
    BY <1>1 DEF GapComplete
  <2>1. t \in enabled /\ t # firing /\ t \notin LeftDisabled(firing)
    BY <1>0, <1>2
  <2> QED
    BY <1>1, <2>1 DEF LeftDisabled
<1> QED
  BY <1>9, <1>10

\* While tokens leave, what is short stays short, and what is not blocked is not
\* blocked by that.
LEMMA GapConsume ==
  ASSUME LoopInvariant, GapNoticed, GapComplete, Consume
  PROVE  GapNoticed' /\ GapComplete'
<1>0. /\ marking \in NatBag /\ enabled \in SUBSET Transitions
      /\ TypeOK /\ PhaseOK
  BY DEF LoopInvariant, TypeOK, TokensTyped, SchedTyped
<1>1. PICK p \in Places, n \in Nat :
        /\ p \in ConsumptionPlaces(firing)
        /\ n <= marking[p]
        /\ marking' = [marking EXCEPT ![p] = @ - n]
  BY <1>0, RemovalBounded DEF Remove
<1>2. pc = "consume" /\ UNCHANGED <<pc, sched, firing>>
  BY DEF Consume
<1>3. \A q \in Places : marking[q] \in Nat
  BY <1>0 DEF NatBag
<1>5. \A q \in Places : /\ marking'[q] \in Nat
                        /\ marking'[q] <= marking[q]
                        /\ q # p => marking'[q] = marking[q]
  BY <1>0, <1>1, <1>3 DEF NatBag
<1>6. \A t \in Transitions : /\ Inhibitors[t] \subseteq Places
                             /\ \A q \in Places : Required[t][q] \in Nat
  BY NetAssumption DEF NetAssumption
<1>7. \A t \in Transitions, q \in Places : Short(t, q) => Short(t, q)'
  BY <1>3, <1>5, <1>6 DEF Short
<1>8. \A t \in Transitions, q \in Places : Short(t, q)' /\ q # p => Short(t, q)
  BY <1>5 DEF Short
<1>9. \A t \in Transitions : Blocked(t)' => Blocked(t)
  BY <1>3, <1>5, <1>6 DEF Blocked
<1>10. GapNoticed'
  <2>1. \A t \in gap : t \in Transitions /\ t \in restartPending /\ \E q \in Places : Short(t, q)
    BY <1>0, <1>2 DEF GapNoticed, Passing
  <2>2. \A t \in gap : \E q \in Places : Short(t, q)'
    BY <1>7, <2>1
  <2> QED
    BY <1>2, <2>1, <2>2 DEF GapNoticed
<1>11. GapComplete'
  BY <1>0, <1>1, <1>2, <1>8, <1>9 DEF GapComplete
<1> QED
  BY <1>10, <1>11

\* Every step keeps the two gap invariants.
LEMMA GapStep ==
  LoopInvariant /\ ExecutorInvariant /\ GapNoticed /\ GapComplete /\ [Next]_vars
    => GapNoticed' /\ GapComplete'
<1> SUFFICES ASSUME LoopInvariant, ExecutorInvariant, GapNoticed, GapComplete, [Next]_vars
             PROVE  GapNoticed' /\ GapComplete'
  OBVIOUS
<1>0. /\ LoopInvariant'
      /\ marking \in NatBag /\ enabled \in SUBSET Transitions
      /\ completionQueue \in Seq(Transitions)
      /\ NoTransition \notin Transitions
      /\ FiringPhase
      /\ enabled \cap InFlight = {}
      /\ pc \in {"deadlines", "decide"} => dirty = {}
  BY LoopInvariantStep
  DEF LoopInvariant, TypeOK, TokensTyped, SchedTyped, FlightsTyped, PhaseOK,
      ExecutorInvariant, FlightsOwned, EndPhase, NoTransition, Transitions
<1>1. CASE CompleteOk
  <2>1. /\ pc = "completions" /\ pc' = "deposit"
        /\ UNCHANGED <<marking, sched>>
        /\ firing' = Head(completionQueue) /\ flight[firing'] = "done"
        /\ firing' \in Transitions
    BY <1>0, <1>1, HeadTailProperties DEF CompleteOk
  <2>2. firing' \notin enabled /\ firing = NoTransition
    BY <1>0, <2>1 DEF InFlight, FiringPhase
  <2> QED
    BY <1>0, <2>1, <2>2 DEF GapNoticed, GapComplete, Passing, Blocked
<1>2. CASE Deposit \/ Admit
  BY <1>0, <1>2, GapDeposit
<1>3. CASE SettleCompletion \/ DepositThrow
  <2>1. /\ pc = "deposit" /\ pc' \in {"exit", "completions"}
        /\ UNCHANGED <<marking, enabled, restartPending, gap>>
        /\ firing' = NoTransition /\ dirty \subseteq dirty'
    BY <1>3 DEF SettleCompletion, DepositThrow, EndCompletion
  <2> QED
    BY <1>0, <2>1 DEF GapNoticed, GapComplete, Passing, Blocked
<1>4. CASE UpdateDirtyTransitions
  <2>1. /\ pc = "update" /\ pc' = "deadlines" /\ UNCHANGED <<marking, flight, firing>>
        /\ firing = NoTransition /\ bitmap = Marked(marking) /\ dirty' = {}
    BY <1>0, <1>4 DEF UpdateDirtyTransitions, FiringPhase, LoopInvariant, BitmapFaithful
  <2>2. gap' = {}
    <3>1. ASSUME NEW t \in gap PROVE t \notin gap'
      <4>1. t \in enabled /\ t \in dirty \ InFlight /\ t \in Transitions
        BY <1>0, <3>1 DEF GapNoticed
      <4>2. CASE CanEnable(t, bitmap, marking)
        <5>1. ~Blocked(t)
          BY <1>0, <2>1, <4>1, <4>2, CanEnableExact, SatisfiedMeans
        <5>2. t \in restartPending
          BY <3>1, <5>1 DEF GapNoticed
        <5> QED
          BY <1>4, <4>1, <4>2, <5>2 DEF UpdateDirtyTransitions
      <4>3. CASE ~CanEnable(t, bitmap, marking)
        BY <1>4, <4>1, <4>3 DEF UpdateDirtyTransitions
      <4> QED
        BY <4>2, <4>3
    <3> QED
      BY <1>4, <3>1 DEF UpdateDirtyTransitions
  <2>3. ASSUME NEW t \in enabled' PROVE ArcsSatisfied(t, marking')
    <3>1. ExecutorInvariant'
      BY ExecutorInvariantStep
    <3>2. t \in Transitions /\ t \notin InFlight' /\ t # firing'
      BY <1>0, <2>1, <3>1 DEF ExecutorInvariant, FlightsOwned, LoopInvariant, TypeOK, SchedTyped
    <3> QED
      BY <1>0, <2>1, <3>2 DEF LoopInvariant, EnablementTracksMarking, FlagRight
  <2> QED
    BY <1>0, <2>1, <2>2, <2>3 DEF GapNoticed, GapComplete
<1>5. CASE EnforceDeadlines
  <2>1. /\ pc = "deadlines" /\ pc' = "decide" /\ UNCHANGED <<marking, firing>>
        /\ enabled' \subseteq enabled /\ gap' \subseteq gap
    BY <1>5 DEF EnforceDeadlines
  <2>2. gap = {}
    BY <1>0, <2>1 DEF GapNoticed
  <2> QED
    BY <1>0, <2>1, <2>2 DEF GapNoticed, GapComplete
<1>6. CASE FireSkip \/ FireRegister
  <2>1. PICK t \in Transitions : /\ enabled' = enabled \ {t} /\ gap' = gap \ {t}
                                 /\ firing \in {t, NoTransition}
    BY <1>0, <1>6 DEF FireSkip, FireRegister, IsNext, SwitchOff, FiringPhase
  <2>2. /\ UNCHANGED <<marking, dirty, restartPending>>
        /\ pc \in {"fire", "start"} /\ pc' = "fire" /\ firing' = NoTransition
    BY <1>0, <1>6 DEF FireSkip, FireRegister, IsNext, FiringPhase
  <2>3. \A u \in gap : u \in restartPending /\ \E p \in Places : Short(u, p)
    BY <2>2 DEF GapNoticed, Passing
  <2>4. GapNoticed'
    BY <1>0, <2>1, <2>2, <2>3 DEF GapNoticed, Short
  <2>5. GapComplete'
    BY <1>0, <2>1, <2>2 DEF GapComplete
  <2> QED
    BY <2>4, <2>5
<1>7. CASE FireBegin
  <2>1. /\ pc = "fire" /\ pc' = "consume" /\ UNCHANGED <<marking, sched>>
        /\ firing = NoTransition /\ bitmap = Marked(marking)
        /\ firing' \in ready /\ StillEnabled(firing')
    BY <1>0, <1>7 DEF FireBegin, IsNext, FiringPhase, LoopInvariant, BitmapFaithful
  <2>2. firing' \in Transitions
    BY <1>0, <2>1 DEF FiringPhase
  <2>3. \A t \in gap : t \in restartPending /\ \E p \in Places : Short(t, p)
    BY <2>1 DEF GapNoticed, Passing
  <2>4. firing' \notin gap
    BY <1>0, <2>1, <2>2, <2>3, ShortCannot DEF StillEnabled
  <2>5. GapNoticed'
    BY <2>1, <2>3, <2>4 DEF GapNoticed, Short
  <2>6. ASSUME NEW t \in enabled \ (gap \cup {firing'})
        PROVE  ~Blocked(t) /\ \A p \in Places : ~Short(t, p)
    <3>1. t \in Transitions /\ ArcsSatisfied(t, marking)
      BY <1>0, <2>1 DEF GapComplete
    <3> QED
      BY <1>0, <3>1, SatisfiedMeans
  <2>7. GapComplete'
    BY <2>1, <2>6 DEF GapComplete, Blocked, Short
  <2> QED
    BY <2>5, <2>7
<1>8. CASE Consume
  BY <1>8, GapConsume
<1>9. CASE FireStart \/ FireThrow
  BY <1>0, <1>9, GapFire
<1>10. CASE /\ UNCHANGED <<marking, enabled, restartPending, gap, firing>>
            /\ dirty \subseteq dirty' \/ dirty' = Transitions
            /\ Passing' => Passing
            /\ pc' = pc \/ (pc \notin {"consume", "deposit"} /\ pc' \notin {"consume", "deposit"})
  <2>1. \A t \in gap : t \in enabled /\ t \in dirty' /\ t \in Transitions
    BY <1>0, <1>10 DEF GapNoticed
  <2>2. GapNoticed'
    BY <1>10, <2>1 DEF GapNoticed, Blocked, Short
  <2>3. GapComplete'
    BY <1>10 DEF GapComplete, Blocked, Short
  <2> QED
    BY <2>2, <2>3
<1> QED
  BY <1>1, <1>2, <1>3, <1>4, <1>5, <1>6, <1>7, <1>8, <1>9, <1>10, GapFrame

-----------------------------------------------------------------------------
(* Theorems.                                                               *)

\* No flag is up at first.
LEMMA TimingInvariantInit == Init => TimingInvariant
  BY DEF Init, TimingInvariant, ClocksRight, GapNoticed, GapComplete

\* The third invariant is inductive on top of the other two.
LEMMA TimingInvariantStep ==
  LoopInvariant /\ ExecutorInvariant /\ TimingInvariant /\ [Next]_vars => TimingInvariant'
  BY ClocksStep, GapStep DEF TimingInvariant

\* The third inductive invariant holds throughout every run of every net.
THEOREM TimingInvariantHolds == Spec => []TimingInvariant
  BY LoopInvariantHolds, ExecutorInvariantHolds, TimingInvariantInit, TimingInvariantStep,
     PTL DEF Spec

\* No transition starts early, none after a hard deadline's grace band, and none on a
\* clock that a marking in between, deposited or left by another firing, should have
\* restarted (fireReadyTransitions(), enforceDeadlines(), restartThresholds()).
THEOREM FiringsOnTime == Spec => []FiringOnTime
<1>1. LoopInvariant /\ TimingInvariant => FiringOnTime
  BY DEF LoopInvariant, PhaseOK, FiringPhase, TimingInvariant, ClocksRight, GapNoticed,
         Passing, FiringOnTime
<1> QED
  BY <1>1, LoopInvariantHolds, TimingInvariantHolds, PTL
=============================================================================
