------------------------ MODULE BitmapExecutorProofs ------------------------
(***************************************************************************)
(* Proofs about BitmapExecutor, for every net, every host and every bound. *)
(*                                                                         *)
(* The inductive invariant is LoopInvariant.  Its parts lean on each other *)
(* in this order, and the lemmas follow it:                                *)
(*   TypeOK and PhaseOK     (TypeStep, PhaseStep)                          *)
(*   BitmapFaithful and BitmapCovers                 (BitmapStep)          *)
(*   EnabledCountExact                               (CountStep)           *)
(*   EnablementTracksMarking and UntouchedStaysExact (EnablementStep),     *)
(*     by CanEnableExact (with a faithful bitmap, canEnable() is the net's *)
(*     own enabling rule) and UntouchedUnchanged (a change of one place    *)
(*     cannot alter a transition its reverse index does not name).         *)
(***************************************************************************)
EXTENDS BitmapExecutor, FiniteSetTheorems, SequenceTheorems, TLAPS

\* The groups of variables an action leaves alone.
USE DEF tokens, sched, flights, ext, pass, life, wait, clock

-----------------------------------------------------------------------------
(* Lemmas about the operators of the net.                                  *)

\* A firing never takes more than there is.
LEMMA ConsumptionBounded ==
  ASSUME NEW t \in Transitions, NEW p \in Places, NEW n \in Nat
  PROVE  /\ ConsumptionCount(t, p, n) \in Nat
         /\ ConsumptionCount(t, p, n) <= n
  BY NetAssumption DEF NetAssumption, ConsumptionCount

\* A step of a firing's removals takes from one of the firing's places no more than is there.
LEMMA RemovalBounded ==
  ASSUME TypeOK, PhaseOK, Consume
  PROVE  \E p \in Places, n \in Nat :
           /\ p \in ConsumptionPlaces(firing)
           /\ n <= marking[p]
           /\ Remove(p, n)
<1>1. PICK p \in Places :
        \/ Served(p) /\ Remove(p, 1)
        \/ p \in arcs /\ Remove(p, marking[p])
  BY DEF Consume
<1>2. /\ firing \in Transitions /\ arcs \subseteq Resets[firing]
      /\ \A q \in Places : marking[q] \in Nat /\ consumed[firing][q] \in Nat
  BY DEF Consume, TypeOK, TokensTyped, FlightsTyped, NatBag, PhaseOK, FiringPhase
<1>3. ASSUME Served(p) PROVE 1 <= marking[p] /\ p \in InputPlaces(firing)
  BY <1>2, <1>3, NetAssumption DEF Served, Owed, InputPlaces, NetAssumption
<1>4. CASE Served(p) /\ Remove(p, 1)
  BY <1>3, <1>4 DEF ConsumptionPlaces
<1>5. CASE p \in arcs /\ Remove(p, marking[p])
  <2>1. p \in ConsumptionPlaces(firing) /\ marking[p] \in Nat /\ marking[p] <= marking[p]
    BY <1>2, <1>5 DEF ConsumptionPlaces
  <2> QED
    BY <1>5, <2>1
<1> QED
  BY <1>1, <1>4, <1>5

\* The empty bag is a bag.
LEMMA EmptyIsBag == Empty \in NatBag
  BY DEF Empty, NatBag

\* The transitions form a finite set, and so do the flags.
LEMMA TransitionsFinite ==
  ASSUME NEW S \in SUBSET Transitions
  PROVE  IsFiniteSet(S) /\ Cardinality(S) \in Nat
<1>1. IsFiniteSet(Transitions)
  BY NetAssumption, FS_Interval DEF NetAssumption, Transitions
<1>2. IsFiniteSet(S)
  BY <1>1, FS_Subset
<1> QED
  BY <1>2, FS_CardinalityType

\* A boundary of an enabled transition is a date (or the date of no clock).
LEMMA BoundariesTyped ==
  ASSUME SchedTyped
  PROVE  Boundaries \subseteq Nat \cup {Never}
<1>1. ASSUME NEW t \in enabled
      PROVE  /\ t \in Transitions
             /\ enabledAt[t] \in Nat \cup {-1}
             /\ Earliest(t) \in Nat
             /\ Latest(t) \in Nat
  BY NetAssumption DEF NetAssumption, SchedTyped, Earliest, Latest, Never
<1>2. \A t \in enabled : /\ enabledAt[t] + Earliest(t) \in Nat \cup {-1}
                        /\ enabledAt[t] + Latest(t) \in Nat \cup {-1}
  BY <1>1
<1> QED
  BY <1>2 DEF Boundaries, Never

-----------------------------------------------------------------------------
(* Frames: which actions touch which group of variables.                   *)

\* Only these steps touch the tokens.
LEMMA TokensFrame ==
  ASSUME [Next]_vars
  PROVE  \/ UNCHANGED tokens
         \/ Run \/ Deposit \/ Admit \/ Consume \/ FireStart \/ FireThrow
  BY DEF Next, Orchestrate, vars, Terminated, CompleteFailed, CompleteOk, SettleCompletion, DepositThrow, EndCompletion,
    CompletionsDone, SkipExternal, AdmitDone, UpdateDirtyTransitions, EnforceDeadlines,
    Decide, FireSkip, FireBegin, FireRegister, FireDone, AwaitEnter, FlushReturn, Park,
    Resume, Exit, ActionSettles, TimerFires, Tick, Inject, Drain, Close, BudgetExpires

\* Only these steps touch the enablement state.
LEMMA SchedFrame ==
  ASSUME [Next]_vars
  PROVE  \/ UNCHANGED sched
         \/ Run \/ CompleteFailed \/ Deposit \/ SettleCompletion \/ DepositThrow \/ Admit
         \/ UpdateDirtyTransitions \/ EnforceDeadlines
         \/ FireSkip \/ FireStart \/ FireRegister \/ FireThrow
  BY DEF Next, Orchestrate, vars, Terminated, CompleteOk, CompletionsDone, SkipExternal,
    AdmitDone, Decide, FireBegin, Consume, FireDone, AwaitEnter, FlushReturn, Park,
    Resume, Exit, ActionSettles, TimerFires, Tick, Inject, Drain, Close, BudgetExpires

\* Only these steps touch the flights.
LEMMA FlightsFrame ==
  ASSUME [Next]_vars
  PROVE  \/ UNCHANGED flights
         \/ CompleteFailed \/ CompleteOk \/ Deposit \/ SettleCompletion \/ DepositThrow
         \/ Consume \/ FireRegister \/ FireThrow
         \/ \E t \in Transitions : ActionSettles(t)
  BY DEF Next, Orchestrate, vars, Terminated, Run, CompletionsDone, SkipExternal, Admit,
    AdmitDone, UpdateDirtyTransitions, EnforceDeadlines, Decide, FireSkip, FireBegin,
    FireStart, FireDone, AwaitEnter, FlushReturn, Park, Resume, Exit, TimerFires, Tick,
    Inject, Drain, Close, BudgetExpires

\* Only these steps touch the external queue and its accounting.
LEMMA ExtFrame ==
  ASSUME [Next]_vars
  PROVE  \/ UNCHANGED ext
         \/ Admit \/ AdmitDone \/ Exit
         \/ \E p \in EnvPlaces : Inject(p)
  BY DEF Next, Orchestrate, vars, Terminated, Run, CompleteFailed, CompleteOk, Deposit,
    SettleCompletion, DepositThrow, EndCompletion, CompletionsDone, SkipExternal, UpdateDirtyTransitions,
    EnforceDeadlines, Decide, FireSkip, FireBegin, Consume, FireStart, FireRegister,
    FireDone, FireThrow, AwaitEnter, FlushReturn, Park, Resume, ActionSettles,
    TimerFires, Tick, Drain, Close, BudgetExpires

\* Only these steps touch the local state of a pass.
LEMMA PassFrame ==
  ASSUME [Next]_vars
  PROVE  \/ UNCHANGED pass
         \/ CompleteOk \/ Deposit \/ SettleCompletion \/ DepositThrow \/ Decide
         \/ FireSkip \/ FireBegin \/ Consume \/ FireRegister \/ FireThrow
  BY DEF Next, Orchestrate, vars, Terminated, Run, CompleteFailed,
    CompletionsDone, SkipExternal, Admit, AdmitDone, UpdateDirtyTransitions,
    EnforceDeadlines, FireStart, FireDone, AwaitEnter, FlushReturn, Park, Resume, Exit,
    ActionSettles, TimerFires, Tick, Inject, Drain, Close, BudgetExpires

\* Only these steps touch the lifecycle flags.
LEMMA LifeFrame ==
  ASSUME [Next]_vars
  PROVE  \/ UNCHANGED life
         \/ Run \/ Deposit \/ Admit \/ Exit \/ Drain \/ Close
         \/ \E policy \in BudgetPolicies : BudgetExpires(policy)
  BY DEF Next, Orchestrate, vars, Terminated, CompleteFailed, CompleteOk, SettleCompletion, DepositThrow, EndCompletion,
    CompletionsDone, SkipExternal, AdmitDone, UpdateDirtyTransitions, EnforceDeadlines,
    Decide, FireSkip, FireBegin, Consume, FireStart, FireRegister, FireDone, FireThrow,
    AwaitEnter, FlushReturn, Park, Resume, ActionSettles, TimerFires, Tick, Inject

\* Only these steps touch the latch, the waiter and the timer.
LEMMA WaitFrame ==
  ASSUME [Next]_vars
  PROVE  \/ UNCHANGED wait
         \/ FlushReturn \/ Park \/ Resume \/ TimerFires \/ Drain \/ Close
         \/ \E t \in Transitions : ActionSettles(t)
         \/ \E p \in EnvPlaces : Inject(p)
         \/ \E policy \in BudgetPolicies : BudgetExpires(policy)
  BY DEF Next, Orchestrate, vars, Terminated, Run, CompleteFailed, CompleteOk, Deposit,
    SettleCompletion, DepositThrow, EndCompletion, CompletionsDone, SkipExternal, Admit, AdmitDone,
    UpdateDirtyTransitions, EnforceDeadlines, Decide, FireSkip, FireBegin, Consume,
    FireStart, FireRegister, FireDone, FireThrow, AwaitEnter, Exit, Tick

\* Only these steps touch the clock readings and the repeat counter.
LEMMA ClockFrame ==
  ASSUME [Next]_vars
  PROVE  UNCHANGED clock \/ EnforceDeadlines \/ FireDone \/ Tick
  BY DEF Next, Orchestrate, vars, Terminated, Run, CompleteFailed, CompleteOk, Deposit,
    SettleCompletion, DepositThrow, EndCompletion, CompletionsDone, SkipExternal, Admit, AdmitDone,
    UpdateDirtyTransitions, Decide, FireSkip, FireBegin, Consume, FireStart,
    FireRegister, FireThrow, AwaitEnter, FlushReturn, Park, Resume, Exit, ActionSettles,
    TimerFires, Inject, Drain, Close, BudgetExpires

-----------------------------------------------------------------------------
(* Type correctness.                                                       *)

\* Init is well typed.
LEMMA TypeInit == Init => TypeOK
<1> SUFFICES ASSUME Init PROVE TypeOK
  OBVIOUS
<1>1. TokensTyped
  BY ExecutorAssumption DEF ExecutorAssumption, Init, TokensTyped, NatBag
<1>2. SchedTyped
  BY DEF Init, SchedTyped
<1>3. FlightsTyped
  BY EmptySeq, EmptyIsBag DEF Init, FlightsTyped
<1>4. ExtTyped
  BY EmptySeq DEF Init, ExtTyped
<1>5. PassTyped /\ LifeTyped /\ WaitTyped /\ ClockTyped
  BY EmptyIsBag DEF Init, PassTyped, LifeTyped, WaitTyped, ClockTyped
<1> QED
  BY <1>1, <1>2, <1>3, <1>4, <1>5 DEF Init, TypeOK, PcValues

\* The tokens stay countable: a firing takes no more than there is.
LEMMA TokensStep == TypeOK /\ PhaseOK /\ [Next]_vars => TokensTyped'
<1> SUFFICES ASSUME TypeOK, PhaseOK, [Next]_vars PROVE TokensTyped'
  OBVIOUS
<1> USE DEF TypeOK, TokensTyped, NatBag
<1>1. CASE Run
  BY <1>1 DEF Run, Marked
<1>2. CASE Deposit
  BY <1>2 DEF Deposit, AddToken
<1>3. CASE Admit
  <2>1. externalQueue[externalCursor + 1] \in EnvPlaces
    BY <1>3, ElementOfSeq, LenProperties, EmptySeq DEF Admit, ExtTyped, PhaseOK, WalkPhase
  <2> QED
    BY <1>3, <2>1, ExecutorAssumption DEF Admit, AddToken, ExecutorAssumption
<1>4. CASE Consume
  <2>1. PICK p \in Places, n \in Nat : n <= marking[p] /\ Remove(p, n)
    BY <1>4, RemovalBounded
  <2> QED
    BY <1>4, <2>1 DEF Consume, Remove
<1>5. CASE FireStart \/ FireThrow
  BY <1>5 DEF FireStart, FireThrow, UpdateBitmapAfterConsumption
<1>6. CASE UNCHANGED tokens
  BY <1>6
<1> QED
  BY <1>1, <1>2, <1>3, <1>4, <1>5, <1>6, TokensFrame

\* The enablement state stays well typed.
LEMMA SchedStep == TypeOK /\ PhaseOK /\ [Next]_vars => SchedTyped'
<1> SUFFICES ASSUME TypeOK, PhaseOK, [Next]_vars PROVE SchedTyped'
  OBVIOUS
<1> USE DEF TypeOK, SchedTyped, AffectedTransitions
<1>1. CASE Run
  BY <1>1 DEF Run
<1>2. CASE CompleteFailed
  BY <1>2, HeadTailProperties DEF CompleteFailed, FlightsTyped
<1>3. CASE Deposit
  BY <1>3 DEF Deposit, AddToken
<1>4. CASE SettleCompletion \/ DepositThrow
  BY <1>4 DEF SettleCompletion, DepositThrow, EndCompletion, PhaseOK, FiringPhase
<1>5. CASE Admit
  BY <1>5 DEF Admit, AddToken
<1>6. CASE UpdateDirtyTransitions
  BY <1>6, TransitionsFinite DEF UpdateDirtyTransitions, ClockTyped
<1>7. CASE EnforceDeadlines
  BY <1>7, TransitionsFinite DEF EnforceDeadlines, Late
<1>8. CASE FireSkip
  BY <1>8 DEF FireSkip, SwitchOff, Never
<1>9. CASE FireStart
  BY <1>9
  DEF FireStart, UpdateBitmapAfterConsumption, Disabled, DirtiedBy, LeftDisabled
<1>10. CASE FireRegister
  BY <1>10 DEF FireRegister, SwitchOff, Never, PhaseOK, FiringPhase
<1>11. CASE FireThrow
  BY <1>11 DEF FireThrow, SwitchOff, UpdateBitmapAfterConsumption, Disabled, DirtiedBy,
               LeftDisabled, PhaseOK, FiringPhase
<1>12. CASE UNCHANGED sched
  BY <1>12
<1> QED
  BY <1>1, <1>2, <1>3, <1>4, <1>5, <1>6, <1>7, <1>8, <1>9, <1>10, <1>11, <1>12, SchedFrame

\* The flights stay well typed.
LEMMA FlightsStep == TypeOK /\ PhaseOK /\ [Next]_vars => FlightsTyped'
<1> SUFFICES ASSUME TypeOK, PhaseOK, [Next]_vars PROVE FlightsTyped'
  OBVIOUS
<1> USE DEF TypeOK, FlightsTyped
<1>1. CASE CompleteFailed
  BY <1>1, HeadTailProperties, EmptyIsBag DEF CompleteFailed
<1>2. CASE CompleteOk
  BY <1>2, HeadTailProperties DEF CompleteOk
<1>3. CASE Deposit
  BY <1>3 DEF Deposit, NatBag, PhaseOK, FiringPhase
<1>4. CASE SettleCompletion \/ DepositThrow
  BY <1>4, EmptyIsBag, EmptySeq DEF SettleCompletion, DepositThrow, EndCompletion
<1>5. CASE Consume
  <2>1. PICK p \in Places, n \in Nat : Remove(p, n)
    BY <1>5, RemovalBounded
  <2>2. firing \in Transitions
    BY <1>5 DEF Consume, PhaseOK, FiringPhase
  <2>3. consumed' \in [Transitions -> NatBag]
    BY <2>1, <2>2 DEF NatBag, Remove
  <2> QED
    BY <1>5, <2>3 DEF Consume
<1>6. CASE FireRegister
  BY <1>6 DEF FireRegister
<1>7. CASE FireThrow
  BY <1>7, EmptyIsBag DEF FireThrow
<1>8. ASSUME NEW t \in Transitions, ActionSettles(t) PROVE FlightsTyped'
  <2>1. completionQueue' \in Seq(Transitions)
    BY <1>8, AppendProperties DEF ActionSettles
  <2>2. \A bag \in Productions[t] : bag \in NatBag
    BY ExecutorAssumption DEF ExecutorAssumption, NatBag
  <2> QED
    BY <1>8, <2>1, <2>2 DEF ActionSettles
<1>9. CASE UNCHANGED flights
  BY <1>9
<1> QED
  BY <1>1, <1>2, <1>3, <1>4, <1>5, <1>6, <1>7, <1>8, <1>9, FlightsFrame

\* The external queue and its accounting stay well typed.
LEMMA ExtStep == TypeOK /\ PhaseOK /\ [Next]_vars => ExtTyped'
<1> SUFFICES ASSUME TypeOK, PhaseOK, [Next]_vars PROVE ExtTyped'
  OBVIOUS
<1> USE DEF TypeOK, ExtTyped
<1>1. CASE Admit
  BY <1>1, LenProperties DEF Admit
<1>2. CASE AdmitDone
  <2>1. Undeposited \in Seq(EnvPlaces)
    BY SubSeqProperties, ElementOfSeq, LenProperties DEF Undeposited
  <2> QED
    BY <1>2, <2>1 DEF AdmitDone
<1>3. CASE Exit
  BY <1>3, EmptySeq, LenProperties DEF Exit, DrainPendingExternalEvents
<1>4. ASSUME NEW p \in EnvPlaces, Inject(p) PROVE ExtTyped'
  BY <1>4, AppendProperties DEF Inject
<1>5. CASE UNCHANGED ext
  BY <1>5
<1> QED
  BY <1>1, <1>2, <1>3, <1>4, <1>5, ExtFrame

\* The local state of a pass stays well typed.
LEMMA PassStep == TypeOK /\ PhaseOK /\ [Next]_vars => PassTyped'
<1> SUFFICES ASSUME TypeOK, PhaseOK, [Next]_vars PROVE PassTyped'
  OBVIOUS
<1> USE DEF TypeOK, PassTyped
<1>1. CASE CompleteOk
  BY <1>1, HeadTailProperties DEF CompleteOk, FlightsTyped
<1>2. CASE SettleCompletion \/ DepositThrow \/ FireSkip \/ Consume \/ FireRegister \/ FireThrow
  BY <1>2, EmptyIsBag
  DEF SettleCompletion, DepositThrow, EndCompletion, FireSkip, Consume, FireRegister, FireThrow
<1>3. CASE Decide
  BY <1>3 DEF Decide, ReadyTransitions, SchedTyped
<1>4. CASE FireBegin
  BY <1>4, NetAssumption DEF FireBegin, NetAssumption
<1>5. CASE Deposit
  BY <1>5 DEF Deposit, NatBag
<1>6. CASE UNCHANGED pass
  BY <1>6
<1> QED
  BY <1>1, <1>2, <1>3, <1>4, <1>5, <1>6, PassFrame

\* The lifecycle flags, the latch and the clock readings stay well typed.
LEMMA RestStep == TypeOK /\ [Next]_vars => LifeTyped' /\ WaitTyped' /\ ClockTyped'
<1> SUFFICES ASSUME TypeOK, [Next]_vars PROVE LifeTyped' /\ WaitTyped' /\ ClockTyped'
  OBVIOUS
<1> USE DEF TypeOK
<1>1. LifeTyped'
  BY LifeFrame
  DEF LifeTyped, Run, Deposit, Admit, AddToken, Exit, Drain, Close, BudgetExpires
<1>2. WaitTyped'
  <2>1. CASE FlushReturn \/ Resume \/ TimerFires
    BY <2>1 DEF FlushReturn, Resume, TimerFires, WaitTyped
  <2>2. CASE Park
    BY <2>2, BoundariesTyped DEF Park, NextTimer, WaitTyped, LifeTyped
  <2>3. ASSUME NEW t \in Transitions, ActionSettles(t) PROVE WaitTyped'
    BY <2>3 DEF ActionSettles, WaitTyped
  <2>4. ASSUME WakeUp PROVE WaitTyped'
    BY <2>4 DEF WakeUp, WaitTyped
  <2>5. CASE UNCHANGED wait
    BY <2>5 DEF WaitTyped
  <2> QED
    BY <2>1, <2>2, <2>3, <2>4, <2>5, WaitFrame DEF Drain, Close, Inject, BudgetExpires
<1>3. ClockTyped'
  <2>1. CASE EnforceDeadlines
    BY <2>1 DEF EnforceDeadlines, ClockTyped
  <2>2. CASE FireDone
    BY <2>2 DEF FireDone, ClockTyped
  <2>3. CASE Tick
    BY <2>3 DEF Tick, ClockTyped
  <2>4. CASE UNCHANGED clock
    BY <2>4 DEF ClockTyped
  <2> QED
    BY <2>1, <2>2, <2>3, <2>4, ClockFrame
<1> QED
  BY <1>1, <1>2, <1>3

\* Where the loop may go next.
LEMMA ControlStep == TypeOK /\ [Next]_vars => pc' \in PcValues /\ callout' \in BOOLEAN
  BY DEF TypeOK, PcValues, Next, Orchestrate, vars, Terminated, Run, CompleteFailed,
    CompleteOk, Deposit, SettleCompletion, DepositThrow, EndCompletion, CompletionsDone, SkipExternal, Admit,
    AdmitDone, UpdateDirtyTransitions, EnforceDeadlines, Decide, FireSkip, FireBegin,
    Consume, FireStart, FireRegister, FireDone, FireThrow, AwaitEnter, FlushReturn, Park,
    Resume, Exit, ActionSettles, TimerFires, Tick, Inject, Drain, Close, BudgetExpires

\* Every step keeps every type.
LEMMA TypeStep == TypeOK /\ PhaseOK /\ [Next]_vars => TypeOK'
  BY TokensStep, SchedStep, FlightsStep, ExtStep, PassStep, RestStep, ControlStep DEF TypeOK

-----------------------------------------------------------------------------
(* The phases of the loop.                                                 *)

\* Only two steps enter or leave the walk of the external queue.
LEMMA WalkFrame ==
  ASSUME [Next]_vars
  PROVE  Admit \/ AdmitDone \/ pc' = pc \/ (pc # "admit" /\ pc' # "admit")
  BY DEF Next, Orchestrate, vars, Terminated, Run, CompleteFailed, CompleteOk, Deposit,
    SettleCompletion, DepositThrow, EndCompletion, CompletionsDone, SkipExternal, UpdateDirtyTransitions,
    EnforceDeadlines, Decide, FireSkip, FireBegin, IsNext, Consume, FireStart, FireRegister,
    FireDone, FireThrow, AwaitEnter, FlushReturn, Park, Resume, Exit, ActionSettles,
    TimerFires, Tick, Inject, Drain, Close, BudgetExpires

\* Only these steps begin a completion or a firing, touch the flags or the pass, or
\* leave the firing phases with something still to fire.
LEMMA FiringFrame ==
  ASSUME [Next]_vars, FiringPhase
  PROVE  \/ CompleteOk \/ SettleCompletion \/ DepositThrow \/ UpdateDirtyTransitions \/ EnforceDeadlines
         \/ Decide \/ FireSkip \/ FireBegin \/ Consume \/ FireStart \/ FireRegister
         \/ FireThrow
         \/ /\ UNCHANGED <<enabled, ready, firing, arcs>>
            /\ \/ pc' = pc
               \/ /\ ready = {}
                  /\ pc \notin {"deposit", "consume", "start"}
                  /\ pc' \notin {"deposit", "consume", "start"}
  BY DEF FiringPhase, Next, Orchestrate, vars, Terminated, Run, CompleteFailed, Deposit,
    CompletionsDone, SkipExternal, Admit, AdmitDone, FireDone, AwaitEnter, FlushReturn,
    Park, Resume, Exit, ActionSettles, TimerFires, Tick, Inject, Drain, Close,
    BudgetExpires

\* The walk of the external queue stays within the prefix it was started with, and
\* the prefix within the queue, whatever is injected meanwhile.
LEMMA WalkStep == TypeOK /\ WalkPhase /\ [Next]_vars => WalkPhase'
<1> SUFFICES ASSUME TypeOK, WalkPhase, [Next]_vars PROVE WalkPhase'
  OBVIOUS
<1> USE DEF TypeOK, ExtTyped, WalkPhase
<1>1. CASE Admit
  BY <1>1, LenProperties, EmptySeq DEF Admit
<1>2. CASE AdmitDone
  BY <1>2 DEF AdmitDone
<1>3. CASE Exit
  BY <1>3 DEF Exit
<1>4. ASSUME NEW p \in EnvPlaces, Inject(p) PROVE WalkPhase'
  BY <1>4, AppendProperties, LenProperties DEF Inject
<1>5. CASE UNCHANGED ext /\ (pc' = pc \/ (pc # "admit" /\ pc' # "admit"))
  BY <1>5
<1> QED
  BY <1>1, <1>2, <1>3, <1>4, <1>5, ExtFrame, WalkFrame

\* The transition under way stays known and flagged until it is registered,
\* skipped or given up.
LEMMA FiringStep == TypeOK /\ FiringPhase /\ [Next]_vars => FiringPhase'
<1> SUFFICES ASSUME TypeOK, FiringPhase, [Next]_vars PROVE FiringPhase'
  OBVIOUS
<1> USE DEF FiringPhase
<1>1. CASE CompleteOk
  BY <1>1, HeadTailProperties DEF CompleteOk, TypeOK, FlightsTyped
<1>2. CASE SettleCompletion \/ DepositThrow
  BY <1>2 DEF SettleCompletion, DepositThrow, EndCompletion
<1>3. CASE UpdateDirtyTransitions \/ EnforceDeadlines
  BY <1>3 DEF UpdateDirtyTransitions, EnforceDeadlines
<1>4. CASE Decide
  BY <1>4 DEF Decide, ReadyTransitions
<1>5. CASE FireSkip
  BY <1>5 DEF FireSkip, SwitchOff, IsNext
<1>6. CASE FireBegin
  BY <1>6 DEF FireBegin, IsNext
<1>7. CASE Consume
  BY <1>7 DEF Consume
<1>8. CASE FireStart
  BY <1>8 DEF FireStart
<1>9. CASE FireRegister \/ FireThrow
  BY <1>9 DEF FireRegister, FireThrow, SwitchOff
<1>10. CASE /\ UNCHANGED <<enabled, ready, firing, arcs>>
            /\ \/ pc' = pc
               \/ /\ ready = {}
                  /\ pc \notin {"deposit", "consume", "start"}
                  /\ pc' \notin {"deposit", "consume", "start"}
  BY <1>10
<1> QED
  BY <1>1, <1>2, <1>3, <1>4, <1>5, <1>6, <1>7, <1>8, <1>9, <1>10, FiringFrame

\* Every step keeps the phases in order.
LEMMA PhaseStep == TypeOK /\ PhaseOK /\ [Next]_vars => PhaseOK'
  BY WalkStep, FiringStep DEF PhaseOK

-----------------------------------------------------------------------------
(* The presence bitmap.                                                    *)

\* The bitmap is only rebuilt, extended or reconciled by the steps that touch the
\* tokens; no other step begins the window in which they come apart, or ends it.
LEMMA BitmapFrame ==
  ASSUME [Next]_vars
  PROVE  \/ Run \/ Deposit \/ Admit \/ FireBegin \/ Consume \/ FireStart \/ FireThrow
         \/ /\ UNCHANGED <<tokens, firing>>
            /\ pc = "consume" <=> pc' = "consume"
            /\ pc = "new" <=> pc' = "new"
         \/ /\ UNCHANGED tokens
            /\ pc \notin {"new", "consume"} /\ pc' \notin {"new", "consume"}
  BY DEF Next, Orchestrate, vars, Terminated, CompleteFailed, CompleteOk, SettleCompletion, DepositThrow, EndCompletion,
    CompletionsDone, SkipExternal, AdmitDone, UpdateDirtyTransitions, EnforceDeadlines,
    Decide, FireSkip, FireRegister, FireDone, AwaitEnter, FlushReturn, Park, Resume,
    Exit, ActionSettles, TimerFires, Tick, Inject, Drain, Close, BudgetExpires

\* The bitmap keeps up with the marking: deposits set the bit they mark, removals
\* only touch places the firing reconciles before anyone reads the bitmap again.
LEMMA BitmapStep ==
  TypeOK /\ PhaseOK /\ BitmapFaithful /\ BitmapCovers /\ [Next]_vars
    => BitmapFaithful' /\ BitmapCovers'
<1> SUFFICES ASSUME TypeOK, PhaseOK, BitmapFaithful, BitmapCovers, [Next]_vars
             PROVE  BitmapFaithful' /\ BitmapCovers'
  OBVIOUS
<1> USE DEF BitmapFaithful, BitmapCovers, Marked
<1>1. CASE Run
  BY <1>1 DEF Run
<1>2. CASE Deposit \/ Admit
  <2>1. PICK p \in Places : marking' = [marking EXCEPT ![p] = @ + 1]
                            /\ bitmap' = bitmap \cup {p}
    <3>1. CASE Deposit
      BY <3>1 DEF Deposit, AddToken
    <3>2. CASE Admit
      <4>1. externalQueue[externalCursor + 1] \in Places
        BY <3>2, ElementOfSeq, LenProperties, EmptySeq, ExecutorAssumption
        DEF Admit, TypeOK, ExtTyped, PhaseOK, WalkPhase, ExecutorAssumption
      <4> QED
        BY <3>2, <4>1 DEF Admit, AddToken
    <3> QED
      BY <1>2, <3>1, <3>2
  <2>2. bitmap = Marked(marking) /\ pc' \notin {"new", "consume"}
    BY <1>2 DEF Deposit, Admit
  <2> QED
    BY <2>1, <2>2 DEF TypeOK, TokensTyped, NatBag
<1>3. CASE FireBegin
  BY <1>3 DEF FireBegin, IsNext
<1>4. CASE Consume
  <2>1. PICK p \in Places, n \in Nat :
          /\ p \in ConsumptionPlaces(firing)
          /\ n <= marking[p]
          /\ marking' = [marking EXCEPT ![p] = @ - n]
    BY <1>4, RemovalBounded DEF Remove
  <2>2. marking[p] \in Nat
    BY DEF TypeOK, TokensTyped, NatBag
  <2>3. pc = "consume" /\ pc' = "consume" /\ UNCHANGED <<bitmap, firing>>
    BY <1>4 DEF Consume
  <2>4. Marked(marking)' \subseteq Marked(marking)
    BY <2>1, <2>2 DEF TypeOK, TokensTyped, NatBag
  <2>5. \A q \in Places \ {p} : marking'[q] = marking[q]
    BY <2>1, <2>2 DEF TypeOK, TokensTyped, NatBag
  <2> QED
    BY <2>1, <2>2, <2>3, <2>4, <2>5 DEF TypeOK, TokensTyped
<1>5. CASE FireStart \/ FireThrow
  <2>1. /\ bitmap' = bitmap \ {p \in ConsumptionPlaces(firing) : marking[p] = 0}
        /\ UNCHANGED marking
        /\ pc' \notin {"new", "consume"}
        /\ pc \in {"consume", "start"}
    BY <1>5 DEF FireStart, FireThrow, UpdateBitmapAfterConsumption
  <2>2. \A p \in Places : marking[p] \in Nat
    BY DEF TypeOK, TokensTyped, NatBag
  <2>3. /\ Marked(marking) \subseteq bitmap
        /\ \A p \in bitmap : p \in ConsumptionPlaces(firing) \/ marking[p] > 0
    BY <2>1
  <2>4. bitmap' = Marked(marking)
    BY <2>1, <2>2, <2>3 DEF TypeOK, TokensTyped
  <2> QED
    BY <2>1, <2>4
<1>6. CASE /\ UNCHANGED <<tokens, firing>>
           /\ pc = "consume" <=> pc' = "consume"
           /\ pc = "new" <=> pc' = "new"
  BY <1>6 DEF ConsumptionPlaces, InputPlaces
<1>7. CASE /\ UNCHANGED tokens
           /\ pc \notin {"new", "consume"} /\ pc' \notin {"new", "consume"}
  BY <1>7
<1> QED
  BY <1>1, <1>2, <1>3, <1>4, <1>5, <1>6, <1>7, BitmapFrame

-----------------------------------------------------------------------------
(* The count of the flags.                                                 *)

\* The size of a disjoint union.
LEMMA DisjointCount ==
  ASSUME NEW S, IsFiniteSet(S), NEW T, IsFiniteSet(T), S \cap T = {}
  PROVE  Cardinality(S \cup T) = Cardinality(S) + Cardinality(T)
<1>1. Cardinality(S \cup T) = Cardinality(S) + Cardinality(T) - Cardinality({})
  BY FS_Union
<1>2. Cardinality({}) = 0 /\ Cardinality(S) \in Nat /\ Cardinality(T) \in Nat
  BY FS_EmptySet, FS_CardinalityType
<1> QED
  BY <1>1, <1>2

\* Switching a raised flag off and taking one from the count agree.
LEMMA SwitchOffCounts ==
  ASSUME NEW t \in Transitions, t \in enabled, enabled \in SUBSET Transitions,
         EnabledCountExact, SwitchOff(t)
  PROVE  EnabledCountExact'
<1>1. IsFiniteSet(enabled)
  BY TransitionsFinite
<1>2. Cardinality(enabled \ {t}) = Cardinality(enabled) - 1
  BY <1>1, FS_RemoveElement
<1> QED
  BY <1>2 DEF SwitchOff, EnabledCountExact

\* The count follows the flags through every path.
LEMMA CountStep ==
  TypeOK /\ PhaseOK /\ EnabledCountExact /\ [Next]_vars => EnabledCountExact'
<1> SUFFICES ASSUME TypeOK, PhaseOK, EnabledCountExact, [Next]_vars
             PROVE  EnabledCountExact'
  OBVIOUS
<1>0. enabled \in SUBSET Transitions /\ IsFiniteSet(enabled)
  BY TransitionsFinite DEF TypeOK, SchedTyped
<1>1. CASE UpdateDirtyTransitions
  <2> DEFINE scan    == dirty \ InFlight
             on      == {t \in scan : CanEnable(t, bitmap, marking)}
             off     == (scan \ on) \cap enabled
             started == on \ enabled
  <2>1. /\ started \in SUBSET Transitions
        /\ off \in SUBSET enabled
        /\ off \in SUBSET Transitions
        /\ (enabled \ off) \in SUBSET Transitions
        /\ (enabled \ off) \cap started = {}
        /\ enabled \cap off = off
    BY <1>0 DEF TypeOK, SchedTyped
  <2>2. /\ enabled' = (enabled \ off) \cup started
        /\ enabledCount' = enabledCount + Cardinality(started) - Cardinality(off)
    BY <1>1 DEF UpdateDirtyTransitions
  <2> HIDE DEF scan, on, off, started
  <2>3. /\ IsFiniteSet(started) /\ Cardinality(started) \in Nat
        /\ IsFiniteSet(off) /\ Cardinality(off) \in Nat
        /\ IsFiniteSet(enabled \ off) /\ Cardinality(enabled \ off) \in Nat
        /\ Cardinality(enabled) \in Nat
    BY <1>0, <2>1, TransitionsFinite
  <2>4. Cardinality(enabled \ off) = Cardinality(enabled) - Cardinality(off)
    BY <1>0, <2>1, FS_Difference
  <2>5. Cardinality((enabled \ off) \cup started)
          = Cardinality(enabled \ off) + Cardinality(started)
    BY <2>1, <2>3, DisjointCount
  <2> QED
    BY <2>2, <2>3, <2>4, <2>5 DEF EnabledCountExact
<1>2. CASE EnforceDeadlines
  <2>1. Late \in SUBSET Transitions /\ enabled \cap Late = Late
    BY <1>0 DEF Late
  <2>2. /\ Cardinality(Late) \in Nat
        /\ Cardinality(enabled) \in Nat
        /\ Cardinality(enabled \ Late) = Cardinality(enabled) - Cardinality(Late)
    BY <1>0, <2>1, TransitionsFinite, FS_Difference
  <2> QED
    BY <1>2, <2>2 DEF EnforceDeadlines, EnabledCountExact
<1>3. CASE FireSkip
  BY <1>0, <1>3, SwitchOffCounts DEF FireSkip, IsNext, PhaseOK, FiringPhase
<1>4. CASE FireRegister \/ FireThrow
  BY <1>0, <1>4, SwitchOffCounts DEF FireRegister, FireThrow, PhaseOK, FiringPhase
<1>5. CASE UNCHANGED <<enabled, enabledCount>>
  BY <1>5 DEF EnabledCountExact
<1> QED
  BY <1>1, <1>2, <1>3, <1>4, <1>5, SchedFrame
  DEF Run, CompleteFailed, Deposit, SettleCompletion, DepositThrow, EndCompletion, Admit, FireStart

-----------------------------------------------------------------------------
(* Enablement.                                                             *)

\* With a faithful bitmap, canEnable() decides the enabling rule of the net.
LEMMA CanEnableExact ==
  ASSUME NEW t \in Transitions, marking \in NatBag, bitmap = Marked(marking)
  PROVE  CanEnable(t, bitmap, marking) <=> ArcsSatisfied(t, marking)
<1>1. \A p \in Places : marking[p] \in Nat /\ Required[t][p] \in Nat
  BY NetAssumption DEF NetAssumption, NatBag
<1>2. Reads[t] \subseteq Places /\ Inhibitors[t] \subseteq Places
  BY NetAssumption DEF NetAssumption
<1>3. ASSUME CanEnable(t, bitmap, marking) PROVE ArcsSatisfied(t, marking)
  BY <1>1, <1>2, <1>3
  DEF CanEnable, CanEnableBitmap, CardinalityCheck, NeedsMask, InputPlaces, Marked,
      ArcsSatisfied
<1>4. ASSUME ArcsSatisfied(t, marking) PROVE CanEnable(t, bitmap, marking)
  BY <1>1, <1>2, <1>4
  DEF CanEnable, CanEnableBitmap, CardinalityCheck, NeedsMask, InputPlaces, Marked,
      ArcsSatisfied
<1> QED
  BY <1>3, <1>4

\* Changing the tokens of one place cannot change a transition that the reverse
\* index does not list there.
LEMMA UntouchedUnchanged ==
  ASSUME NEW t \in Transitions, NEW p \in Places, t \notin AffectedTransitions(p),
         NEW m \in NatBag, NEW n \in NatBag, \A q \in Places \ {p} : n[q] = m[q]
  PROVE  ArcsSatisfied(t, n) <=> ArcsSatisfied(t, m)
<1>1. /\ Required[t][p] = 0
      /\ p \notin Reads[t]
      /\ p \notin Inhibitors[t]
  BY NetAssumption DEF NetAssumption, AffectedTransitions, NeedsMask, InputPlaces
<1>2. /\ Reads[t] \subseteq Places \ {p}
      /\ Inhibitors[t] \subseteq Places \ {p}
  BY <1>1, NetAssumption DEF NetAssumption
<1>3. m[p] >= Required[t][p] /\ n[p] >= Required[t][p]
  BY <1>1 DEF NatBag
<1> QED
  BY <1>2, <1>3 DEF ArcsSatisfied

\* Steps that leave everything the enablement properties read alone.
LEMMA EnablementFrame ==
  ASSUME [Next]_vars
  PROVE  \/ Run \/ CompleteFailed \/ CompleteOk \/ Deposit \/ SettleCompletion \/ DepositThrow \/ Admit
         \/ UpdateDirtyTransitions \/ EnforceDeadlines
         \/ FireSkip \/ FireBegin \/ Consume \/ FireStart \/ FireRegister \/ FireThrow
         \/ \E t \in Transitions : ActionSettles(t)
         \/ /\ UNCHANGED <<marking, enabled, dirty, flight, firing>>
            /\ pc' = pc \/ (pc \notin {"new", "consume"} /\ pc' \notin {"new", "consume"})
  BY DEF Next, Orchestrate, vars, Terminated, CompletionsDone, SkipExternal, AdmitDone,
    Decide, FireDone, AwaitEnter, FlushReturn, Park, Resume, Exit, TimerFires, Tick,
    Inject, Drain, Close, BudgetExpires

\* The flags stay right for every transition that nobody has to re-evaluate.
LEMMA EnablementStep ==
  LoopInvariant /\ [Next]_vars => EnablementTracksMarking' /\ UntouchedStaysExact'
<1> SUFFICES ASSUME LoopInvariant, [Next]_vars
             PROVE  EnablementTracksMarking' /\ UntouchedStaysExact'
  OBVIOUS
<1> USE DEF LoopInvariant
<1>0. marking \in NatBag /\ marking' \in NatBag
  BY TypeStep DEF TypeOK, TokensTyped
<1>1. CASE Run
  BY <1>1 DEF Run, EnablementTracksMarking, UntouchedStaysExact
<1>2. CASE CompleteFailed
  <2>1. InFlight \subseteq InFlight' \cup dirty' /\ dirty \subseteq dirty'
    BY <1>2 DEF CompleteFailed, InFlight, TypeOK, FlightsTyped
  <2>2. UNCHANGED <<marking, enabled, firing, pc>> /\ pc = "completions"
    BY <1>2 DEF CompleteFailed
  <2> QED
    BY <2>1, <2>2 DEF EnablementTracksMarking, UntouchedStaysExact, FlagRight
<1>3. CASE CompleteOk
  <2>1. InFlight \subseteq InFlight' \cup {firing'} /\ firing \notin Transitions
    BY <1>3 DEF CompleteOk, InFlight, TypeOK, FlightsTyped, PhaseOK, FiringPhase,
                NoTransition, Transitions
  <2>2. /\ UNCHANGED <<marking, enabled, dirty>>
        /\ pc = "completions" /\ pc' = "deposit"
    BY <1>3 DEF CompleteOk
  <2> QED
    BY <2>1, <2>2 DEF EnablementTracksMarking, UntouchedStaysExact, FlagRight
<1>4. CASE Deposit \/ Admit
  <2>1. PICK p \in Places : /\ marking' = [marking EXCEPT ![p] = @ + 1]
                            /\ dirty' = dirty \cup AffectedTransitions(p)
    <3>1. CASE Deposit
      BY <3>1 DEF Deposit, AddToken
    <3>2. CASE Admit
      <4>1. externalQueue[externalCursor + 1] \in Places
        BY <3>2, ElementOfSeq, LenProperties, EmptySeq, ExecutorAssumption
        DEF Admit, TypeOK, ExtTyped, PhaseOK, WalkPhase, ExecutorAssumption
      <4> QED
        BY <3>2, <4>1 DEF Admit, AddToken
    <3> QED
      BY <1>4, <3>1, <3>2
  <2>2. /\ UNCHANGED <<enabled, flight, firing>>
        /\ pc \notin {"new", "consume"} /\ pc' \notin {"new", "consume"}
    BY <1>4 DEF Deposit, Admit
  <2>3. \A q \in Places \ {p} : marking'[q] = marking[q]
    BY <1>0, <2>1 DEF NatBag
  <2>4. \A t \in Transitions \ AffectedTransitions(p) :
          ArcsSatisfied(t, marking') <=> ArcsSatisfied(t, marking)
    BY <1>0, <2>3, UntouchedUnchanged
  <2> QED
    BY <2>1, <2>2, <2>4
    DEF EnablementTracksMarking, UntouchedStaysExact, FlagRight, InFlight
<1>5. CASE SettleCompletion \/ DepositThrow
  BY <1>5 DEF SettleCompletion, DepositThrow, EndCompletion, EnablementTracksMarking, UntouchedStaysExact, FlagRight,
              InFlight
<1>6. CASE UpdateDirtyTransitions
  <2>1. \A t \in Transitions : CanEnable(t, bitmap, marking) <=> ArcsSatisfied(t, marking)
    BY <1>0, <1>6, CanEnableExact DEF UpdateDirtyTransitions, BitmapFaithful
  <2>2. /\ UNCHANGED <<marking, flight, firing>>
        /\ pc = "update" /\ pc' = "deadlines"
    BY <1>6 DEF UpdateDirtyTransitions
  <2>3. \A t \in Transitions \ InFlight :
          t \in enabled' <=> IF t \in dirty THEN CanEnable(t, bitmap, marking)
                                            ELSE t \in enabled
    BY <1>6 DEF UpdateDirtyTransitions
  <2> QED
    BY <2>1, <2>2, <2>3
    DEF EnablementTracksMarking, UntouchedStaysExact, FlagRight, InFlight
<1>7. CASE EnforceDeadlines
  BY <1>7 DEF EnforceDeadlines, Late, EnablementTracksMarking, UntouchedStaysExact,
              FlagRight, InFlight
<1>8. CASE FireSkip
  <2>1. PICK t \in Transitions : /\ t \in ready
                                 /\ ~StillEnabled(t)
                                 /\ enabled' = enabled \ {t}
    BY <1>8 DEF FireSkip, IsNext, SwitchOff
  <2>2. /\ UNCHANGED <<marking, dirty, flight, firing, pc>>
        /\ pc = "fire"
    BY <1>8 DEF FireSkip, IsNext
  <2>3. ~ArcsSatisfied(t, marking)
    BY <1>0, <2>1, <2>2, CanEnableExact
    DEF StillEnabled, PhaseOK, FiringPhase, BitmapFaithful
  <2> QED
    BY <2>1, <2>2, <2>3
    DEF EnablementTracksMarking, UntouchedStaysExact, FlagRight, InFlight
<1>9. CASE FireBegin
  <2>1. /\ UNCHANGED <<marking, enabled, dirty, flight>>
        /\ pc = "fire" /\ pc' = "consume"
        /\ firing \notin Transitions
    BY <1>9 DEF FireBegin, IsNext, PhaseOK, FiringPhase, NoTransition, Transitions
  <2> QED
    BY <2>1 DEF EnablementTracksMarking, UntouchedStaysExact, FlagRight, InFlight
<1>10. CASE Consume
  <2>1. PICK p \in Places, n \in Nat :
          /\ p \in ConsumptionPlaces(firing)
          /\ marking' = [marking EXCEPT ![p] = @ - n]
    BY <1>10, RemovalBounded DEF Remove
  <2>2. /\ UNCHANGED <<enabled, dirty, flight, firing, pc>>
        /\ pc = "consume"
    BY <1>10 DEF Consume
  <2>3. \A q \in Places \ {p} : marking'[q] = marking[q]
    BY <1>0, <2>1 DEF NatBag
  <2>4. ASSUME NEW t \in Transitions \ DirtiedBy(firing)
        PROVE  ArcsSatisfied(t, marking') <=> ArcsSatisfied(t, marking)
    <3>1. t \notin AffectedTransitions(p)
      BY <2>1 DEF DirtiedBy
    <3> QED
      BY <1>0, <2>3, <3>1, UntouchedUnchanged
  <2>5. DirtiedBy(firing)' = DirtiedBy(firing)
    BY <2>2 DEF DirtiedBy, AffectedTransitions, ConsumptionPlaces, InputPlaces, NeedsMask
  <2> QED
    BY <2>2, <2>4, <2>5
    DEF EnablementTracksMarking, UntouchedStaysExact, FlagRight, InFlight
<1>11. CASE FireStart
  BY <1>11 DEF FireStart, EnablementTracksMarking, UntouchedStaysExact, FlagRight, InFlight
<1>12. CASE FireRegister
  <2>1. InFlight' = InFlight \cup {firing}
    BY <1>12 DEF FireRegister, InFlight, TypeOK, FlightsTyped, PhaseOK, FiringPhase
  <2>2. /\ UNCHANGED <<marking, dirty>>
        /\ enabled' = enabled \ {firing}
        /\ pc = "start" /\ pc' = "fire"
    BY <1>12 DEF FireRegister, SwitchOff
  <2> QED
    BY <2>1, <2>2 DEF EnablementTracksMarking, UntouchedStaysExact, FlagRight
<1>13. CASE FireThrow
  <2>1. /\ UNCHANGED <<marking, flight>>
        /\ dirty' = dirty \cup DirtiedBy(firing) \cup {firing}
        /\ enabled' = enabled \ {firing}
        /\ pc \in {"consume", "start"} /\ pc' = "fire"
    BY <1>13 DEF FireThrow, SwitchOff
  <2> QED
    BY <2>1 DEF EnablementTracksMarking, UntouchedStaysExact, FlagRight, InFlight
<1>14. ASSUME NEW t \in Transitions, ActionSettles(t)
       PROVE  EnablementTracksMarking' /\ UntouchedStaysExact'
  <2>1. InFlight' = InFlight
    BY <1>14 DEF ActionSettles, InFlight, TypeOK, FlightsTyped
  <2>2. /\ UNCHANGED <<marking, enabled, dirty, firing, pc>>
        /\ pc # "consume"
    BY <1>14 DEF ActionSettles, Yielded
  <2> QED
    BY <2>1, <2>2 DEF EnablementTracksMarking, UntouchedStaysExact, FlagRight
<1>15. CASE /\ UNCHANGED <<marking, enabled, dirty, flight, firing>>
            /\ pc' = pc \/ (pc \notin {"new", "consume"} /\ pc' \notin {"new", "consume"})
  <2>1. DirtiedBy(firing)' = DirtiedBy(firing)
    BY <1>15 DEF DirtiedBy, AffectedTransitions, ConsumptionPlaces, InputPlaces, NeedsMask
  <2> QED
    BY <1>15, <2>1
    DEF EnablementTracksMarking, UntouchedStaysExact, FlagRight, InFlight
<1> QED
  BY <1>1, <1>2, <1>3, <1>4, <1>5, <1>6, <1>7, <1>8, <1>9, <1>10, <1>11, <1>12, <1>13,
     <1>14, <1>15, EnablementFrame

-----------------------------------------------------------------------------
(* The theorems.                                                           *)

\* The executor starts in its invariant.
LEMMA LoopInvariantInit == Init => LoopInvariant
<1> SUFFICES ASSUME Init PROVE LoopInvariant
  OBVIOUS
<1>1. EnabledCountExact
  BY FS_EmptySet DEF Init, EnabledCountExact
<1>2. PhaseOK
  BY DEF Init, PhaseOK, FiringPhase, WalkPhase
<1> QED
  BY <1>1, <1>2, TypeInit
  DEF Init, LoopInvariant, BitmapFaithful, BitmapCovers, EnablementTracksMarking,
      UntouchedStaysExact

\* Every step of the loop, an action, the host or the clock keeps the invariant.
LEMMA LoopInvariantStep == LoopInvariant /\ [Next]_vars => LoopInvariant'
  BY TypeStep, PhaseStep, BitmapStep, CountStep, EnablementStep DEF LoopInvariant

\* The inductive invariant holds throughout every run of every net.
THEOREM LoopInvariantHolds == Spec => []LoopInvariant
  BY LoopInvariantInit, LoopInvariantStep, PTL DEF Spec

\* Type correctness of the executor: in particular no token count goes negative and
\* the count of flags stays a number, whatever the net, the host and the actions do.
THEOREM TypeCorrect == Spec => []TypeOK
<1>1. LoopInvariant => TypeOK
  BY DEF LoopInvariant
<1> QED
  BY <1>1, LoopInvariantHolds, PTL

\* The presence bitmap never lies where it is read, also after a firing that threw
\* half-way (fireTransitionContained() and updateBitmapAfterConsumption()).
THEOREM BitmapIsFaithful == Spec => []BitmapFaithful
<1>1. LoopInvariant => BitmapFaithful
  BY DEF LoopInvariant
<1> QED
  BY <1>1, LoopInvariantHolds, PTL

\* The dirty set is complete: what updateDirtyTransitions() would not look at is
\* already right (markDirty() and the reverse index of compiled-net.ts).
THEOREM DirtySetComplete == Spec => []EnablementTracksMarking
<1>1. LoopInvariant => EnablementTracksMarking
  BY DEF LoopInvariant
<1> QED
  BY <1>1, LoopInvariantHolds, PTL

\* enabledTransitionCount, on which shouldTerminate() decides, never drifts.
THEOREM CountExact == Spec => []EnabledCountExact
<1>1. LoopInvariant => EnabledCountExact
  BY DEF LoopInvariant
<1> QED
  BY <1>1, LoopInvariantHolds, PTL
=============================================================================
