-------------------- MODULE PrecompiledExecutorRefinement --------------------
(***************************************************************************)
(* PrecompiledExecutor implements PetriNet, for every net, every word      *)
(* size, every host and every bound.                                       *)
(*                                                                         *)
(* As for the bitmap executor, the mapping counts what is still to be      *)
(* taken as taken, and what a completion has put down as not yet there:    *)
(*   FireBegin is Start         SettleCompletion is Complete               *)
(*   CompleteFailed is Fail     DepositThrow is CutShort                   *)
(*   FireThrow is Abort         Admit is Arrive                            *)
(* A queue loses tokens by their number, so the mapping can only be right  *)
(* if no number is on its way twice: the second invariant below.           *)
(***************************************************************************)
EXTENDS PrecompiledExecutorProofs

USE DEF tokens, sched, flights, ext, pass, clock

-----------------------------------------------------------------------------
(* What the host and the loop owe each other.                              *)

\* A completion is queued once, for a firing that is in flight.
CompletionsInFlight ==
  \A i \in DOMAIN completionQueue :
    /\ flight[completionQueue[i]] \in {"done", "failed"}
    /\ \A j \in DOMAIN completionQueue : completionQueue[i] = completionQueue[j] => i = j

\* The output of t goes where out says.
Writes(t, out) == DOMAIN output[t] = DOMAIN out /\ \A i \in DOMAIN out : output[t][i].pid = out[i].pid

\* A firing that is done has a production of its transition to deposit.
OutputsWritten ==
  \A t \in Transitions : flight[t] = "done" => \E out \in Productions[t] : Writes(t, out)

\* What a completion has put down and what it has still to put down are a production.
DepositOwned ==
  IF pc = "deposit"
  THEN /\ flight[firing] = "idle"
       /\ \E out \in Productions[firing] :
            \A p \in Places : Landing(out, p) = produced[p] + Landing(output[firing], p)
  ELSE produced = None

\* What was injected was injected into an environment place.
ArrivalsKnown == \A i \in DOMAIN externalQueue : externalQueue[i].pid \in EnvPlaces

\* The latch says whether a terminal place is marked, and then the loop goes no further.
TerminalLatched ==
  /\ life = [terminal |-> life.terminal, draining |-> life.draining, closed |-> life.closed,
             reason |-> life.reason]
  /\ life.terminal => pc \in {"deposit", "external", "exit", "ended"}
  /\ pc # "new" /\ ~life.terminal => \A p \in Terminals : queues[p] = <<>>
  /\ pc = "deposit" => \A p \in Terminals : Len(queues[p]) = produced[p]

\* A place that is only reset gives nothing before its reset.
TakesFromInputs ==
  Consuming =>
    \A p \in Places \ InputPlaces(firing) :
      pc = "consume" \/ ToDrain(p) => consumed[firing][p] = <<>>

\* Queueing, and taking from the front, keep a queue of completions one.
LEMMA CompletionsStep ==
  ASSUME TypeOK, TypeOK', PhaseOK, CompletionsInFlight, [Next]_vars
  PROVE  CompletionsInFlight'
<1>1. completionQueue \in Seq(Transitions) /\ flight \in [Transitions -> {"idle", "running", "done", "failed"}]
  BY DEF TypeOK, FlightsTyped
<1>2. PICK cq, n : cq = completionQueue /\ n = Len(cq)
  OBVIOUS
<1>3. /\ n \in Nat /\ DOMAIN cq = 1..n /\ \A i \in 1..n : cq[i] \in Transitions
  BY <1>1, <1>2, LenProperties, ElementOfSeq
<1>4. \A i \in 1..n : flight[cq[i]] \in {"done", "failed"} /\ \A j \in 1..n : cq[i] = cq[j] => i = j
  BY <1>2, <1>3 DEF CompletionsInFlight
<1>5. CASE UNCHANGED <<completionQueue, flight>>
  BY <1>5 DEF CompletionsInFlight
<1>6. CASE completionQueue' = <<>>
  BY <1>6 DEF CompletionsInFlight
<1>7. ASSUME NEW t \in Transitions, CompletionOf(t), Unregister(t) PROVE CompletionsInFlight'
  <2>1. /\ cq # <<>> /\ t = Head(cq) /\ completionQueue' = Tail(cq)
        /\ flight' = [flight EXCEPT ![t] = "idle"]
    BY <1>2, <1>7 DEF CompletionOf, Unregister
  <2>2. PICK r : r = Tail(cq)
    OBVIOUS
  <2>3. /\ n > 0 /\ t = cq[1] /\ r \in Seq(Transitions) /\ Len(r) = n - 1
        /\ \A i \in 1..(n - 1) : r[i] = cq[i + 1]
    BY <1>1, <1>2, <1>3, <2>1, <2>2, HeadTailProperties, EmptySeq
  <2>4. DOMAIN r = 1..(n - 1)
    BY <2>3, LenProperties
  <2>5. ASSUME NEW i \in 1..(n - 1)
        PROVE  /\ flight'[r[i]] \in {"done", "failed"}
               /\ \A j \in 1..(n - 1) : r[i] = r[j] => i = j
    <3>1. i + 1 \in 1..n /\ 1 \in 1..n /\ i + 1 # 1 /\ r[i] = cq[i + 1] /\ cq[i + 1] \in Transitions
      BY <1>3, <2>3
    <3>2. r[i] # t
      BY <1>4, <2>3, <3>1
    <3>3. flight'[r[i]] = flight[cq[i + 1]]
      BY <1>1, <2>1, <3>1, <3>2
    <3>4. ASSUME NEW j \in 1..(n - 1), r[i] = r[j] PROVE i = j
      <4>1. j + 1 \in 1..n /\ cq[i + 1] = cq[j + 1]
        BY <1>3, <2>3, <3>1, <3>4
      <4>2. i + 1 = j + 1
        BY <1>4, <3>1, <4>1
      <4> QED
        BY <4>2
    <3> QED
      BY <1>4, <3>1, <3>3, <3>4
  <2> QED
    BY <2>1, <2>2, <2>4, <2>5 DEF CompletionsInFlight
<1>8. ASSUME NEW t \in Transitions, ActionSettles(t) PROVE CompletionsInFlight'
  <2>1. /\ flight[t] = "running" /\ completionQueue' = Append(cq, t)
        /\ \/ flight' = [flight EXCEPT ![t] = "failed"]
           \/ flight' = [flight EXCEPT ![t] = "done"]
    BY <1>2, <1>8 DEF ActionSettles
  <2>2. PICK r : r = Append(cq, t)
    OBVIOUS
  <2>3. /\ r \in Seq(Transitions) /\ Len(r) = n + 1 /\ r[n + 1] = t
        /\ \A i \in 1..n : r[i] = cq[i]
    BY <1>1, <1>2, <2>2, AppendProperties
  <2>4. DOMAIN r = 1..(n + 1)
    BY <2>3, LenProperties
  <2>5. \A i \in 1..n : cq[i] # t
    BY <1>4, <2>1
  <2>6. flight'[t] \in {"done", "failed"} /\ \A u \in Transitions : u # t => flight'[u] = flight[u]
    BY <1>1, <2>1
  <2>7. ASSUME NEW i \in 1..(n + 1)
        PROVE  /\ flight'[r[i]] \in {"done", "failed"}
               /\ \A j \in 1..(n + 1) : r[i] = r[j] => i = j
    <3>1. \A j \in 1..(n + 1) : j \in 1..n \/ j = n + 1
      BY <1>3
    <3>2. CASE i = n + 1
      BY <2>3, <2>5, <2>6, <3>1, <3>2
    <3>3. CASE i \in 1..n
      <4>1. r[i] = cq[i] /\ r[i] # t /\ r[i] \in Transitions
        BY <1>3, <2>3, <2>5, <3>3
      <4>2. flight'[r[i]] \in {"done", "failed"}
        BY <1>4, <2>6, <3>3, <4>1
      <4>3. \A j \in 1..(n + 1) : r[i] = r[j] => i = j
        BY <1>4, <2>3, <3>1, <3>3, <4>1
      <4> QED
        BY <4>2, <4>3
    <3> QED
      BY <3>1, <3>2, <3>3
  <2>8. completionQueue' = r
    BY <2>1, <2>2
  <2> QED
    BY <2>4, <2>7, <2>8, Zenon DEF CompletionsInFlight
<1>9. CASE FireRegister
  <2>1. flight' = [flight EXCEPT ![firing] = "running"] /\ completionQueue' = cq /\ pc = "start"
    BY <1>2, <1>9 DEF FireRegister
  <2>2. firing \in Transitions /\ flight[firing] = "idle"
    BY <2>1, NoneFires DEF PhaseOK, FiringPcs, InFlight
  <2>3. \A i \in 1..n : flight'[cq[i]] = flight[cq[i]]
    BY <1>1, <1>3, <1>4, <2>1, <2>2
  <2> QED
    BY <1>3, <1>4, <2>1, <2>3 DEF CompletionsInFlight
<1>10. CASE CompletionEnds
  BY <1>5, <1>6, <1>10 DEF CompletionEnds, EndCompletion
<1>11. CASE Waits
  BY <1>5, <1>11, WaitsFrame, Zenon
<1>12. CASE \/ Run \/ Deposit \/ BeginExternal \/ AdmitThrow \/ Admit \/ EndExternal \/ updateDirtyTransitions
            \/ enforceDeadlines \/ Decide \/ ExecuteOp \/ PeekReads \/ FireStart \/ FireThrow \/ Exit
  BY <1>5, <1>12, Zenon DEF Run, Deposit, BeginExternal, AdmitThrow, Admit, EndExternal, updateDirtyTransitions,
     enforceDeadlines, Decide, ExecuteOp, PeekReads, FireStart, FireThrow, Exit
<1>13. ASSUME NEW t \in Transitions, FireSkip(t) \/ FireBegin(t) PROVE CompletionsInFlight'
  BY <1>5, <1>13 DEF FireSkip, FireBegin
<1>14. ASSUME NEW t \in Transitions, CompleteFailed(t) \/ CompleteOk(t) PROVE CompletionsInFlight'
  BY <1>7, <1>14 DEF CompleteFailed, CompleteOk
<1>15. ASSUME NEW p \in EnvPlaces, NEW k \in Names \cup {NoName}, Inject(p, k) PROVE CompletionsInFlight'
  BY <1>5, <1>15 DEF Inject
<1> QED
  BY <1>8, <1>9, <1>10, <1>11, <1>12, <1>13, <1>14, <1>15, StepCases

\* An action writes one of its productions, and the loop deposits what it wrote.
LEMMA OutputsStep ==
  ASSUME TypeOK, PhaseOK, OutputsWritten, DepositOwned, [Next]_vars
  PROVE  OutputsWritten'
<1>1. /\ flight \in [Transitions -> {"idle", "running", "done", "failed"}]
      /\ output \in [Transitions -> Seq(Deposits)]
  BY DEF TypeOK, FlightsTyped
<1>2. ASSUME UNCHANGED <<flight, output>> PROVE OutputsWritten'
  BY <1>2 DEF OutputsWritten, Writes
<1>3. CASE Deposit \/ CompletionEnds
  <2>1. /\ firing \in Transitions /\ flight[firing] = "idle" /\ flight' = flight
        /\ output' = [output EXCEPT ![firing] = output'[firing]]
    BY <1>1, <1>3 DEF Deposit, CompletionEnds, EndCompletion, PhaseOK, DepositOwned
  <2>2. ASSUME NEW t \in Transitions, flight'[t] = "done" PROVE output'[t] = output[t]
    <3>1. t # firing
      BY <2>1, <2>2
    <3> QED
      BY <1>1, <2>1, <3>1
  <2> QED
    BY <2>1, <2>2 DEF OutputsWritten, Writes
<1>4. ASSUME NEW t \in Transitions, CompleteFailed(t) \/ CompleteOk(t) PROVE OutputsWritten'
  <2>1. /\ flight' = [flight EXCEPT ![t] = "idle"]
        /\ output' = output \/ output' = [output EXCEPT ![t] = <<>>]
    BY <1>4 DEF CompleteFailed, CompleteOk, Unregister, CompletionOf
  <2>2. flight'[t] = "idle" /\ \A u \in Transitions : u # t => flight'[u] = flight[u] /\ output'[u] = output[u]
    BY <1>1, <2>1
  <2> QED
    BY <2>1, <2>2 DEF OutputsWritten, Writes
<1>5. ASSUME NEW t \in Transitions, ActionSettles(t) PROVE OutputsWritten'
  <2>2. CASE flight' = [flight EXCEPT ![t] = "failed"] /\ output' = output
    <3>1. \A u \in Transitions : flight'[u] = "done" => flight[u] = "done"
      BY <1>1, <2>2
    <3> QED
      BY <2>2, <3>1 DEF OutputsWritten, Writes
  <2>3. ASSUME NEW out \in Productions[t], flight' = [flight EXCEPT ![t] = "done"],
               output' = [output EXCEPT ![t] = Written(t, out)]
        PROVE  OutputsWritten'
    <3>1. /\ output'[t] = Written(t, out)
          /\ \A u \in Transitions : u # t => flight'[u] = flight[u] /\ output'[u] = output[u]
      BY <1>1, <2>3
    <3>2. DOMAIN output'[t] = DOMAIN out /\ \A i \in DOMAIN out : output'[t][i].pid = out[i].pid
      BY <3>1 DEF Written
    <3> QED
      BY <3>1, <3>2 DEF OutputsWritten, Writes
  <2> QED
    BY <1>5, <2>2, <2>3 DEF ActionSettles
<1>6. CASE FireRegister
  <2>1. flight' = [flight EXCEPT ![firing] = "running"] /\ output' = output
    BY <1>6 DEF FireRegister
  <2>2. \A u \in Transitions : flight'[u] = "done" => flight[u] = "done"
    BY <1>1, <2>1
  <2> QED
    BY <2>1, <2>2 DEF OutputsWritten, Writes
<1>7. CASE Waits
  BY <1>2, <1>7, WaitsFrame, Zenon
<1>8. CASE \/ Run \/ BeginExternal \/ AdmitThrow \/ Admit \/ EndExternal \/ updateDirtyTransitions
           \/ enforceDeadlines \/ Decide \/ ExecuteOp \/ PeekReads \/ FireStart \/ FireThrow \/ Exit
  BY <1>2, <1>8, Zenon DEF Run, BeginExternal, AdmitThrow, Admit, EndExternal, updateDirtyTransitions,
     enforceDeadlines, Decide, ExecuteOp, PeekReads, FireStart, FireThrow, Exit
<1>9. ASSUME NEW t \in Transitions, FireSkip(t) \/ FireBegin(t) PROVE OutputsWritten'
  BY <1>2, <1>9 DEF FireSkip, FireBegin, IsNext
<1>10. ASSUME NEW p \in EnvPlaces, NEW k \in Names \cup {NoName}, Inject(p, k) PROVE OutputsWritten'
  BY <1>2, <1>10 DEF Inject
<1> QED
  BY <1>3, <1>4, <1>5, <1>6, <1>7, <1>8, <1>9, <1>10, StepCases

\* An output that loses its first deposit loses one landing where that deposit goes.
LEMMA LandingTail ==
  ASSUME NEW out \in Seq(Deposits), out # <<>>, NEW p
  PROVE  /\ Landing(out, p) \in Nat /\ Landing(Tail(out), p) \in Nat
         /\ Landing(out, p) = Landing(Tail(out), p) + IF Head(out).pid = p THEN 1 ELSE 0
<1>1. PICK n, r : n = Len(out) /\ r = Tail(out)
  OBVIOUS
<1>2. /\ n \in Nat \ {0} /\ DOMAIN out = 1..n /\ Head(out) = out[1]
      /\ r \in Seq(Deposits) /\ Len(r) = n - 1 /\ \A i \in 1..(n - 1) : r[i] = out[i + 1]
  BY <1>1, LenProperties, HeadTailProperties, EmptySeq
<1>3. DOMAIN r = 1..(n - 1)
  BY <1>2, LenProperties
<1>4. PICK S, T, R : S = {i \in DOMAIN out : out[i].pid = p} /\ T = {i \in DOMAIN r : r[i].pid = p} /\ R = S \ {1}
  OBVIOUS
<1>5. IsFiniteSet(S) /\ IsFiniteSet(T)
  <2>1. IsFiniteSet(1..n) /\ IsFiniteSet(1..(n - 1))
    BY <1>2, FS_Interval
  <2>2. S \subseteq 1..n /\ T \subseteq 1..(n - 1)
    BY <1>2, <1>3, <1>4
  <2> QED
    BY <2>1, <2>2, FS_Subset
<1>6. PICK f : f = [i \in T |-> i + 1]
  OBVIOUS
<1>7. f \in Bijection(T, R)
  <2>1. ASSUME NEW i \in T PROVE f[i] = i + 1 /\ i + 1 \in R /\ i \in Int
    BY <1>2, <1>3, <1>4, <1>6
  <2>2. ASSUME NEW j \in R PROVE \E i \in T : f[i] = j
    <3>1. j \in 1..n /\ j # 1 /\ out[j].pid = p
      BY <1>2, <1>4
    <3>2. j - 1 \in 1..(n - 1) /\ (j - 1) + 1 = j
      BY <1>2, <3>1
    <3>3. j - 1 \in T
      BY <1>2, <1>3, <1>4, <3>1, <3>2
    <3> QED
      BY <1>6, <3>2, <3>3
  <2>3. f \in [T -> R]
    BY <1>6, <2>1
  <2>4. \A i, j \in T : f[i] = f[j] => i = j
    BY <2>1
  <2> QED
    BY <2>2, <2>3, <2>4 DEF Bijection, Injection, Surjection, IsInjective
<1>8. Cardinality(R) = Cardinality(T)
  BY <1>5, <1>7, FS_Bijection DEF ExistsBijection
<1>9. Cardinality(R) = IF 1 \in S THEN Cardinality(S) - 1 ELSE Cardinality(S)
  BY <1>4, <1>5, FS_RemoveElement
<1>10. 1 \in S <=> Head(out).pid = p
  BY <1>2, <1>4
<1>11. Cardinality(S) \in Nat /\ Cardinality(T) \in Nat
  BY <1>5, FS_CardinalityType
<1>12. Landing(out, p) = Cardinality(S) /\ Landing(r, p) = Cardinality(T)
  BY <1>4 DEF Landing
<1> QED
  BY <1>1, <1>8, <1>9, <1>10, <1>11, <1>12

\* What is empty lands nowhere, and a number of tokens lands.
LEMMA LandingTyped ==
  ASSUME NEW out \in Seq(Deposits), NEW p
  PROVE  Landing(out, p) \in Nat /\ (out = <<>> => Landing(out, p) = 0)
<1>1. CASE out = <<>>
  <2>1. {i \in DOMAIN out : out[i].pid = p} = {}
    BY <1>1
  <2> QED
    BY <2>1, FS_EmptySet DEF Landing
<1>2. CASE out # <<>>
  BY <1>2, LandingTail
<1> QED
  BY <1>1, <1>2

\* What was written lands where the production says.
LEMMA LandingWritten ==
  ASSUME NEW t, NEW out, Writes(t, out), NEW p
  PROVE  Landing(output[t], p) = Landing(out, p)
<1>1. {i \in DOMAIN output[t] : output[t][i].pid = p} = {i \in DOMAIN out : out[i].pid = p}
  BY DEF Writes
<1> QED
  BY <1>1 DEF Landing

\* A completion starts with a production, and every token of it lands or is still to land.
LEMMA DepositOwnedStep ==
  ASSUME TypeOK, PhaseOK, OutputsWritten, DepositOwned, [Next]_vars
  PROVE  DepositOwned'
<1>1. /\ flight \in [Transitions -> {"idle", "running", "done", "failed"}]
      /\ output \in [Transitions -> Seq(Deposits)] /\ produced \in [Places -> Nat]
  BY DEF TypeOK, FlightsTyped, LoopTyped
<1>2. CASE pc # "deposit" /\ pc' # "deposit" /\ produced' = produced
  BY <1>2 DEF DepositOwned
<1>3. CASE UNCHANGED <<pc, firing, flight, output, produced>>
  BY <1>3 DEF DepositOwned
<1>4. CASE Deposit
  <2>1. /\ pc = "deposit" /\ firing \in Transitions /\ UNCHANGED <<pc, firing, flight>>
        /\ output[firing] # <<>> /\ output' = [output EXCEPT ![firing] = Tail(output[firing])]
    BY <1>4 DEF Deposit, PhaseOK
  <2>2. PICK out, q : out = output[firing] /\ q = Head(out).pid
    OBVIOUS
  <2>3. produced' = IF q \in Places THEN [produced EXCEPT ![q] = produced[q] + 1] ELSE produced
    BY <1>4, <2>2 DEF Deposit
  <2>4. out \in Seq(Deposits) /\ out # <<>> /\ output'[firing] = Tail(out)
    BY <1>1, <2>1, <2>2
  <2>5. ASSUME NEW p \in Places
        PROVE  produced'[p] + Landing(output'[firing], p) = produced[p] + Landing(output[firing], p)
    <3>1. /\ Landing(out, p) \in Nat /\ Landing(Tail(out), p) \in Nat
          /\ Landing(out, p) = Landing(Tail(out), p) + IF q = p THEN 1 ELSE 0
      BY <2>2, <2>4, LandingTail
    <3>2. produced[p] \in Nat /\ produced'[p] = produced[p] + IF q = p THEN 1 ELSE 0
      BY <1>1, <2>3
    <3>3. PICK x, y : x = Landing(out, p) /\ y = Landing(Tail(out), p)
      OBVIOUS
    <3>4. x \in Nat /\ y \in Nat /\ x = y + IF q = p THEN 1 ELSE 0
      BY <3>1, <3>3
    <3>5. produced'[p] + y = produced[p] + x
      BY <3>2, <3>4
    <3> QED
      BY <2>2, <2>4, <3>3, <3>5
  <2>6. PICK bag \in Productions[firing] :
          \A p \in Places : Landing(bag, p) = produced[p] + Landing(output[firing], p)
    BY <2>1 DEF DepositOwned
  <2>7. \A p \in Places : Landing(bag, p) = produced'[p] + Landing(output'[firing], p)
    BY <2>5, <2>6
  <2> QED
    BY <2>1, <2>7 DEF DepositOwned
<1>5. ASSUME NEW t \in Transitions, CompleteOk(t) PROVE DepositOwned'
  <2>1. /\ pc = "completions" /\ pc' = "deposit" /\ firing' = t /\ flight[t] = "done"
        /\ flight' = [flight EXCEPT ![t] = "idle"] /\ UNCHANGED <<output, produced>>
    BY <1>5 DEF CompleteOk, CompletionOf, Unregister
  <2>2. PICK out \in Productions[t] : Writes(t, out)
    BY <2>1 DEF OutputsWritten
  <2>3. produced = None
    BY <2>1 DEF DepositOwned
  <2>4. ASSUME NEW p \in Places PROVE Landing(out, p) = produced'[p] + Landing(output'[t], p)
    <3>1. Landing(output[t], p) = Landing(out, p)
      BY <2>2, LandingWritten
    <3>2. Landing(output[t], p) \in Nat
      BY <1>1, LandingTyped
    <3>3. produced'[p] = 0
      BY <2>1, <2>3 DEF None
    <3> QED
      BY <2>1, <3>1, <3>2, <3>3
  <2>5. flight'[t] = "idle"
    BY <1>1, <2>1
  <2> QED
    BY <2>1, <2>4, <2>5 DEF DepositOwned
<1>6. CASE CompletionEnds
  BY <1>6 DEF CompletionEnds, EndCompletion, DepositOwned
<1>7. CASE Waits
  <2>1. /\ UNCHANGED <<flight, output, produced, firing>>
        /\ \/ pc' = pc
           \/ pc \in {"fire", "await", "flush", "parked"} /\ pc' \in {"completions", "await", "flush", "parked"}
    BY <1>7, WaitsFrame
  <2> QED
    BY <1>2, <1>3, <2>1
<1>8. CASE \/ Run \/ BeginExternal \/ AdmitThrow \/ Admit \/ EndExternal \/ updateDirtyTransitions
           \/ enforceDeadlines \/ Decide
  BY <1>2, <1>8 DEF Run, BeginExternal, AdmitThrow, Admit, EndExternal, updateDirtyTransitions,
     enforceDeadlines, Decide
<1>9. CASE ExecuteOp \/ PeekReads \/ FireStart \/ FireRegister \/ FireThrow \/ Exit
  BY <1>2, <1>9 DEF ExecuteOp, PeekReads, FireStart, FireRegister, FireThrow, Exit
<1>10. ASSUME NEW t \in Transitions, CompleteFailed(t) \/ FireSkip(t) \/ FireBegin(t) PROVE DepositOwned'
  BY <1>2, <1>10 DEF CompleteFailed, CompletionOf, FireSkip, FireBegin, IsNext
<1>11. ASSUME NEW t \in Transitions, ActionSettles(t) PROVE DepositOwned'
  BY <1>2, <1>11 DEF ActionSettles, Yielded
<1>12. ASSUME NEW p \in EnvPlaces, NEW k \in Names \cup {NoName}, Inject(p, k) PROVE DepositOwned'
  BY <1>3, <1>12 DEF Inject
<1> QED
  BY <1>4, <1>5, <1>6, <1>7, <1>8, <1>9, <1>10, <1>11, <1>12, StepCases

\* Nothing but inject() fills the external queue.
LEMMA ArrivalsStep ==
  ASSUME TypeOK, ArrivalsKnown, [Next]_vars
  PROVE  ArrivalsKnown'
<1>1. externalQueue \in Seq(Deposits) /\ Len(externalQueue) \in Nat /\ cursor \in Nat
  BY LenProperties DEF TypeOK, ExternalTyped
<1>2. PICK q, n : q = externalQueue /\ n = Len(q)
  OBVIOUS
<1>3. n \in Nat /\ DOMAIN q = 1..n /\ \A i \in 1..n : q[i].pid \in EnvPlaces
  BY <1>1, <1>2, LenProperties DEF ArrivalsKnown
<1>4. CASE externalQueue' = externalQueue
  BY <1>4 DEF ArrivalsKnown
<1>5. CASE EndExternal
  <2>1. externalQueue' = SubSeq(q, cursor + 1, n)
    BY <1>2, <1>5 DEF EndExternal, Undeposited
  <2>2. PICK r : r = SubSeq(q, cursor + 1, n)
    OBVIOUS
  <2>3. \A i \in (cursor + 1)..n : q[i] \in Deposits
    BY <1>1, <1>2, ElementOfSeq
  <2>4. /\ r \in Seq(Deposits)
        /\ Len(r) = IF cursor + 1 <= n THEN n - (cursor + 1) + 1 ELSE 0
        /\ \A i \in 1..(n - (cursor + 1) + 1) : r[i] = q[cursor + 1 + i - 1]
    BY <1>1, <1>3, <2>2, <2>3, SubSeqProperties
  <2>5. DOMAIN r = 1..Len(r)
    BY <2>4, LenProperties
  <2>6. ASSUME NEW i \in DOMAIN r PROVE r[i].pid \in EnvPlaces
    <3>1. cursor + i \in 1..n /\ r[i] = q[cursor + i]
      BY <1>1, <1>3, <2>4, <2>5, <2>6
    <3> QED
      BY <1>3, <3>1
  <2> QED
    BY <2>1, <2>2, <2>6 DEF ArrivalsKnown
<1>6. CASE Exit
  <2>1. externalQueue' = <<>>
    BY <1>6 DEF Exit
  <2> QED
    BY <2>1 DEF ArrivalsKnown
<1>7. ASSUME NEW p \in EnvPlaces, NEW k \in Names \cup {NoName}, Inject(p, k) PROVE ArrivalsKnown'
  <2>1. PICK x : x = [pid |-> p, tok |-> [id |-> minted + 1, name |-> k]]
    OBVIOUS
  <2>2. externalQueue' = Append(q, x) /\ x.pid = p
    BY <1>2, <1>7, <2>1 DEF Inject
  <2>3. PICK r : r = Append(q, x)
    OBVIOUS
  <2>4. DOMAIN r = 1..(n + 1) /\ r[n + 1] = x /\ \A i \in 1..n : r[i] = q[i]
    BY <1>1, <1>2, <1>3, <2>3
  <2>5. \A i \in 1..(n + 1) : i \in 1..n \/ i = n + 1
    BY <1>3
  <2> QED
    BY <1>3, <2>2, <2>3, <2>4, <2>5 DEF ArrivalsKnown
<1>8. CASE Waits
  BY <1>4, <1>8, WaitsFrame, Zenon
<1>9. CASE \/ Run \/ Deposit \/ CompletionEnds \/ BeginExternal \/ AdmitThrow \/ Admit \/ updateDirtyTransitions
           \/ enforceDeadlines \/ Decide \/ ExecuteOp \/ PeekReads \/ FireStart \/ FireRegister \/ FireThrow
  BY <1>4, <1>9, Zenon DEF Run, Deposit, CompletionEnds, EndCompletion, BeginExternal, AdmitThrow, Admit, updateDirtyTransitions,
     enforceDeadlines, Decide, ExecuteOp, PeekReads, FireStart, FireRegister, FireThrow
<1>10. ASSUME NEW t \in Transitions,
              CompleteFailed(t) \/ CompleteOk(t) \/ FireSkip(t) \/ FireBegin(t) \/ ActionSettles(t)
       PROVE  ArrivalsKnown'
  BY <1>4, <1>10 DEF CompleteFailed, CompleteOk, FireSkip, FireBegin, ActionSettles
<1> QED
  BY <1>5, <1>6, <1>7, <1>8, <1>9, <1>10, StepCases

\* Latching a terminal token that is put down.
LEMMA LatchDeposit ==
  ASSUME TypeOK, NEW p \in Nat, NEW tok \in Token, produceToken(p, tok), pc # "new", TerminalLatched
  PROVE  /\ life' = [terminal |-> life'.terminal, draining |-> life'.draining, closed |-> life'.closed,
                     reason |-> life'.reason]
         /\ ~life'.terminal => \A q \in Terminals : queues'[q] = <<>>
         /\ \A q \in Terminals : Len(queues'[q]) = Len(queues[q]) + IF q = p THEN 1 ELSE 0
<1>1. /\ p \in Places => queues' = [queues EXCEPT ![p] = Append(queues[p], tok)]
      /\ p \notin Places => queues' = queues
  BY ProduceEffect
<1>2. /\ p \in Places => life' = [life EXCEPT !.terminal = life.terminal \/ p \in Terminals]
      /\ p \notin Places => life' = life
  BY DEF produceToken
<1>3. Terminals \subseteq Places /\ queues \in [Places -> Seq(Token)]
  BY NetAssumption DEF TypeOK, TokensTyped
<1>4. ASSUME NEW q \in Terminals PROVE Len(queues'[q]) = Len(queues[q]) + IF q = p THEN 1 ELSE 0
  <2>1. queues[q] \in Seq(Token) /\ Len(queues[q]) \in Nat
    BY <1>3, LenProperties
  <2>2. CASE q = p
    <3>1. queues'[q] = Append(queues[q], tok)
      BY <1>1, <1>3, <2>2
    <3> QED
      BY <2>1, <2>2, <3>1, AppendProperties
  <2>3. CASE q # p
    <3>1. queues'[q] = queues[q]
      BY <1>1, <1>3, <2>3
    <3> QED
      BY <2>1, <2>3, <3>1
  <2> QED
    BY <2>2, <2>3
<1>5. CASE p \notin Places
  BY <1>1, <1>2, <1>4, <1>5 DEF TerminalLatched
<1>6. CASE p \in Places
  <2>1. life' = [terminal |-> life'.terminal, draining |-> life'.draining, closed |-> life'.closed,
                 reason |-> life'.reason]
    BY <1>2, <1>6 DEF TerminalLatched
  <2>2. life'.terminal = (life.terminal \/ p \in Terminals)
    BY <1>2, <1>6 DEF TerminalLatched
  <2>3. ASSUME ~life'.terminal, NEW q \in Terminals PROVE queues'[q] = <<>>
    <3>1. ~life.terminal /\ q # p
      BY <2>2, <2>3
    <3>2. queues'[q] = queues[q]
      BY <1>1, <1>3, <1>6, <3>1
    <3> QED
      BY <3>1, <3>2 DEF TerminalLatched
  <2> QED
    BY <1>4, <2>1, <2>3
<1> QED
  BY <1>5, <1>6

\* A step latches the first token of a terminal place, and the loop does not go on behind it.
LEMMA TerminalStep ==
  ASSUME TypeOK, PhaseOK, DepositOwned, TerminalLatched, [Next]_vars
  PROVE  TerminalLatched'
<1>1. life = [terminal |-> life.terminal, draining |-> life.draining, closed |-> life.closed,
              reason |-> life.reason]
  BY DEF TerminalLatched
<1>2. ASSUME UNCHANGED <<queues, life>>, pc # "new", pc' # "deposit",
             life.terminal => pc' \in {"deposit", "external", "exit", "ended"}
      PROVE  TerminalLatched'
  BY <1>2 DEF TerminalLatched
<1>3. CASE UNCHANGED <<queues, life, pc, produced>>
  BY <1>3 DEF TerminalLatched
<1>4. CASE Run
  <2>1. /\ pc' = IF life'.terminal THEN "exit" ELSE "completions"
        /\ life' = [life EXCEPT !.terminal = \E p \in Terminals : queues[p] # <<>>]
        /\ queues' = queues
    BY <1>4 DEF Run
  <2>2. life'.terminal = (\E p \in Terminals : queues[p] # <<>>)
    BY <1>1, <2>1
  <2>3. life' = [terminal |-> life'.terminal, draining |-> life'.draining, closed |-> life'.closed,
                 reason |-> life'.reason]
    BY <1>1, <2>1
  <2> QED
    BY <2>1, <2>2, <2>3 DEF TerminalLatched
<1>5. CASE Deposit
  <2>1. /\ pc = "deposit" /\ pc' = pc /\ output[firing] # <<>>
        /\ produceToken(Head(output[firing]).pid, Head(output[firing]).tok)
    BY <1>5 DEF Deposit
  <2>2. PICK p, tok : p = Head(output[firing]).pid /\ tok = Head(output[firing]).tok
    OBVIOUS
  <2>3. p \in Nat /\ tok \in Token /\ produceToken(p, tok)
    BY <2>1, <2>2, DepositTyped
  <2>4. /\ life' = [terminal |-> life'.terminal, draining |-> life'.draining, closed |-> life'.closed,
                    reason |-> life'.reason]
        /\ ~life'.terminal => \A q \in Terminals : queues'[q] = <<>>
        /\ \A q \in Terminals : Len(queues'[q]) = Len(queues[q]) + IF q = p THEN 1 ELSE 0
    BY <2>1, <2>3, LatchDeposit
  <2>5. produced' = IF p \in Places THEN [produced EXCEPT ![p] = produced[p] + 1] ELSE produced
    BY <1>5, <2>2 DEF Deposit
  <2>6. Terminals \subseteq Places /\ produced \in [Places -> Nat]
    BY NetAssumption DEF TypeOK, LoopTyped
  <2>7. ASSUME NEW q \in Terminals PROVE Len(queues'[q]) = produced'[q]
    <3>1. produced'[q] = produced[q] + IF q = p THEN 1 ELSE 0
      BY <2>5, <2>6
    <3>2. Len(queues[q]) = produced[q]
      BY <2>1 DEF TerminalLatched
    <3> QED
      BY <2>4, <3>1, <3>2
  <2> QED
    BY <2>1, <2>4, <2>7 DEF TerminalLatched
<1>6. CASE Admit
  <2>1. /\ pc = "external" /\ pc' = pc /\ cursor < prefix
        /\ produceToken(externalQueue[cursor + 1].pid, externalQueue[cursor + 1].tok)
    BY <1>6 DEF Admit
  <2>2. PICK p, tok : p = externalQueue[cursor + 1].pid /\ tok = externalQueue[cursor + 1].tok
    OBVIOUS
  <2>3. p \in Nat /\ tok \in Token /\ produceToken(p, tok)
    BY <2>1, <2>2, DepositTyped
  <2>4. /\ life' = [terminal |-> life'.terminal, draining |-> life'.draining, closed |-> life'.closed,
                    reason |-> life'.reason]
        /\ ~life'.terminal => \A q \in Terminals : queues'[q] = <<>>
    BY <2>1, <2>3, LatchDeposit
  <2> QED
    BY <2>1, <2>4 DEF TerminalLatched
<1>7. CASE ExecuteOp
  <2>1. /\ UNCHANGED <<pc, life>> /\ pc \in {"consume", "reset"}
        /\ \E p \in ConsumptionPlaces(firing), taken \in Seq(Token) : p \in Places /\ OpTakes(p, taken)
    BY <1>7, OpEffect DEF ExecuteOp
  <2>2. PICK p \in Places, taken \in Seq(Token) : OpTakes(p, taken)
    BY <2>1
  <2>3. queues' = [queues EXCEPT ![p] = Without(queues[p], taken)] /\ queues \in [Places -> Seq(Token)]
    BY <2>2 DEF OpTakes, TypeOK, TokensTyped
  <2>4. Without(<<>>, taken) = <<>>
    BY KeptEmpty DEF Without
  <2>5. \A q \in Places : queues[q] = <<>> => queues'[q] = <<>>
    BY <2>3, <2>4
  <2>6. Terminals \subseteq Places
    BY NetAssumption
  <2> QED
    BY <2>1, <2>5, <2>6 DEF TerminalLatched
<1>8. CASE Exit
  <2>1. /\ queues' = queues /\ pc = "exit" /\ pc' = "ended"
        /\ \E r : life' = [life EXCEPT !.reason = r]
    BY <1>8 DEF Exit
  <2>2. PICK r : life' = [life EXCEPT !.reason = r]
    BY <2>1
  <2>3. life'.terminal = life.terminal
    BY <1>1, <2>2
  <2>4. life' = [terminal |-> life'.terminal, draining |-> life'.draining, closed |-> life'.closed,
                 reason |-> life'.reason]
    BY <1>1, <2>2
  <2> QED
    BY <2>1, <2>3, <2>4 DEF TerminalLatched
<1>9. CASE Drain \/ Close
  <2>1. UNCHANGED <<queues, pc, produced>>
    BY <1>9 DEF Drain, Close
  <2>2. \E d, c : life' = [terminal |-> life.terminal, draining |-> d, closed |-> c, reason |-> life.reason]
    <3>1. CASE Drain
      <4>1. life' = [life EXCEPT !.draining = TRUE]
        BY <3>1 DEF Drain
      <4>2. life' = [terminal |-> life.terminal, draining |-> TRUE, closed |-> life.closed, reason |-> life.reason]
        BY <1>1, <4>1
      <4> QED
        BY <4>2
    <3>2. CASE Close
      <4>1. life' = [life EXCEPT !.draining = TRUE, !.closed = TRUE]
        BY <3>2 DEF Close
      <4>2. life' = [terminal |-> life.terminal, draining |-> TRUE, closed |-> TRUE, reason |-> life.reason]
        BY <1>1, <4>1
      <4> QED
        BY <4>2
    <3> QED
      BY <1>9, <3>1, <3>2
  <2>3. PICK d, c : life' = [terminal |-> life.terminal, draining |-> d, closed |-> c, reason |-> life.reason]
    BY <2>2
  <2>4. /\ life'.terminal = life.terminal
        /\ life' = [terminal |-> life'.terminal, draining |-> life'.draining, closed |-> life'.closed,
                    reason |-> life'.reason]
    BY <2>3
  <2> QED
    BY <2>1, <2>4 DEF TerminalLatched
<1>10. CASE Waits /\ ~(Drain \/ Close)
  <2>1. UNCHANGED <<queues, life, produced>>
    BY <1>10 DEF Waits, FireDone, AwaitEnter, FlushReturn, Park, Resume, TimerFires, Tick, vars
  <2>2. \/ pc' = pc
        \/ pc \in {"fire", "await", "flush", "parked"} /\ pc' \in {"completions", "await", "flush", "parked"}
    BY <1>10, WaitsFrame
  <2> QED
    BY <1>2, <1>3, <2>1, <2>2 DEF TerminalLatched
<1>11. CASE CompletionEnds \/ EndExternal \/ AdmitThrow
  BY <1>2, <1>11 DEF CompletionEnds, EndCompletion, EndExternal, AdmitThrow
<1>12. CASE \/ BeginExternal \/ updateDirtyTransitions \/ enforceDeadlines \/ Decide \/ PeekReads
            \/ FireStart \/ FireRegister \/ FireThrow
  <2>1. /\ UNCHANGED <<queues, life>>
        /\ pc \in {"completions", "update", "deadlines", "decide", "consume", "reset", "start"}
        /\ pc' # "deposit"
    BY <1>12 DEF BeginExternal, updateDirtyTransitions, enforceDeadlines, Decide, PeekReads,
       FireStart, FireRegister, FireThrow
  <2> QED
    BY <1>2, <2>1 DEF TerminalLatched
<1>13. ASSUME NEW t \in Transitions, CompleteFailed(t) \/ FireSkip(t) \/ FireBegin(t)
       PROVE  TerminalLatched'
  <2>1. UNCHANGED <<queues, life>> /\ pc \in {"completions", "fire"} /\ pc' # "deposit"
    BY <1>13 DEF CompleteFailed, FireSkip, FireBegin, IsNext, CompletionOf
  <2> QED
    BY <1>2, <2>1 DEF TerminalLatched
<1>a. ASSUME NEW t \in Transitions, CompleteOk(t) PROVE TerminalLatched'
  <2>1. UNCHANGED <<queues, life, produced>> /\ pc = "completions" /\ pc' = "deposit"
    BY <1>a DEF CompleteOk, CompletionOf
  <2>2. produced = None /\ ~life.terminal
    BY <2>1 DEF DepositOwned, TerminalLatched
  <2>3. \A p \in Terminals : p \in Places /\ queues[p] = <<>>
    BY <2>1, <2>2, NetAssumption DEF TerminalLatched
  <2>4. \A p \in Terminals : Len(queues'[p]) = produced'[p]
    BY <2>1, <2>2, <2>3, EmptySeq DEF None
  <2> QED
    BY <2>1, <2>2, <2>3, <2>4 DEF TerminalLatched
<1>14. ASSUME NEW t \in Transitions, ActionSettles(t) PROVE TerminalLatched'
  BY <1>3, <1>14 DEF ActionSettles
<1>15. ASSUME NEW p \in EnvPlaces, NEW k \in Names \cup {NoName}, Inject(p, k) PROVE TerminalLatched'
  BY <1>3, <1>15 DEF Inject
<1> QED
  BY <1>4, <1>5, <1>6, <1>7, <1>8, <1>9, <1>10, <1>11, <1>12, <1>13, <1>a, <1>14, <1>15, StepCases

\* The inputs are taken first.
LEMMA TakesStep ==
  ASSUME TypeOK, PhaseOK, IdleHoldsNothing, TakesFromInputs, [Next]_vars
  PROVE  TakesFromInputs'
<1>1. CASE pc' \notin {"consume", "reset"}
  BY <1>1 DEF TakesFromInputs, Consuming
<1>2. CASE UNCHANGED <<pc, op, firing, consumed>>
  <2>1. ASSUME NEW p \in Places PROVE ToDrain(p)' <=> ToDrain(p)
    BY <1>2 DEF ToDrain, Program
  <2> QED
    BY <1>2, <2>1 DEF TakesFromInputs, Consuming
<1>3. CASE ExecuteOp
  <2>1. /\ firing \in Transitions /\ UNCHANGED <<pc, firing>>
        /\ \E p \in ConsumptionPlaces(firing), taken \in Seq(Token) : p \in Places /\ OpTakes(p, taken)
    BY <1>3, OpEffect
  <2>2. CASE pc = "reset"
    <3>1. PICK p \in Places, taken \in Seq(Token) : OpTakes(p, taken)
      BY <2>1
    <3>2. PICK ops, n, m : ops = Program.ops /\ n = Len(ops) /\ m = Len(InputSpecs[firing])
      OBVIOUS
    <3>3. /\ op \in 1..n /\ p = ops[op].pid /\ op' = op + 1
          /\ consumed' = [consumed EXCEPT ![firing] = [consumed[firing] EXCEPT ![p] = consumed[firing][p] \o taken]]
      BY <2>2, <3>1, <3>2 DEF OpTakes
    <3>4. /\ n \in Nat /\ m \in Nat /\ op \in (m + 1)..(n + 1)
          /\ \A i, j \in (m + 1)..n : ops[i].pid = ops[j].pid => i = j
      BY <2>1, <2>2, <3>2, ProgramShape DEF PhaseOK, Program
    <3>5. consumed \in [Transitions -> [Places -> Seq(Token)]]
      BY DEF TypeOK, FlightsTyped
    <3>6. ASSUME NEW q \in Places \ InputPlaces(firing), ToDrain(q)' PROVE consumed'[firing][q] = <<>>
      <4>1. PICK i \in (op + 1)..n : ops[i].pid = q
        BY <2>1, <2>2, <3>2, <3>3, <3>6 DEF ToDrain, Program
      <4>2. i \in (m + 1)..n /\ op \in (m + 1)..n /\ i # op /\ i \in op..n
        BY <3>3, <3>4
      <4>3. q # p
        BY <3>3, <3>4, <4>1, <4>2
      <4>4. ToDrain(q)
        BY <2>2, <3>2, <4>1, <4>2 DEF ToDrain
      <4>5. consumed[firing][q] = <<>>
        BY <2>2, <4>4 DEF TakesFromInputs, Consuming
      <4> QED
        BY <2>1, <3>3, <3>5, <4>3, <4>5
    <3> QED
      BY <2>1, <2>2, <3>6 DEF TakesFromInputs, Consuming
  <2>3. CASE pc = "consume"
    <3>1. PICK p \in Places, taken \in Seq(Token) : OpTakes(p, taken)
      BY <2>1
    <3>2. /\ p \in InputPlaces(firing)
          /\ consumed' = [consumed EXCEPT ![firing] = [consumed[firing] EXCEPT ![p] = consumed[firing][p] \o taken]]
      BY <2>3, <3>1 DEF OpTakes
    <3>3. consumed \in [Transitions -> [Places -> Seq(Token)]]
      BY DEF TypeOK, FlightsTyped
    <3>4. \A q \in Places : q # p => consumed'[firing][q] = consumed[firing][q]
      BY <2>1, <3>2, <3>3
    <3> QED
      BY <2>1, <2>3, <3>2, <3>4 DEF TakesFromInputs, Consuming
  <2> QED
    BY <1>3, <2>2, <2>3 DEF ExecuteOp
<1>a. CASE PeekReads
  BY <1>a DEF PeekReads, TakesFromInputs, Consuming
<1>4. ASSUME NEW t \in Transitions, FireBegin(t) PROVE TakesFromInputs'
  <2>1. firing' = t /\ consumed' = consumed /\ pc = "fire" /\ t \in ready
    BY <1>4 DEF FireBegin, IsNext
  <2>2. flight[t] = "idle"
    BY <2>1 DEF PhaseOK, InFlight
  <2>3. consumed[t] = [p \in Places |-> <<>>]
    BY <2>1, <2>2 DEF IdleHoldsNothing, FiringPcs, PhaseOK
  <2>4. \A p \in Places : consumed'[firing'][p] = <<>>
    BY <2>1, <2>3
  <2> QED
    BY <2>4 DEF TakesFromInputs
<1>5. CASE Waits
  BY <1>1, <1>2, <1>5, WaitsFrame
<1>6. CASE Run \/ CompletionEnds \/ EndExternal \/ BeginExternal \/ AdmitThrow \/ updateDirtyTransitions
  BY <1>1, <1>6 DEF Run, CompletionEnds, EndCompletion, EndExternal, BeginExternal, AdmitThrow, updateDirtyTransitions
<1>7. CASE enforceDeadlines \/ Decide \/ FireStart \/ FireRegister \/ FireThrow \/ Exit
  BY <1>1, <1>7 DEF enforceDeadlines, Decide, FireStart, FireRegister, FireThrow, Exit
<1>8. CASE Deposit \/ Admit
  BY <1>1, <1>8 DEF Deposit, Admit
<1>9. ASSUME NEW t \in Transitions, CompleteFailed(t) \/ CompleteOk(t) \/ FireSkip(t) PROVE TakesFromInputs'
  BY <1>1, <1>9 DEF CompleteFailed, CompleteOk, FireSkip, CompletionOf, IsNext
<1>10. ASSUME NEW t \in Transitions, ActionSettles(t) PROVE TakesFromInputs'
  BY <1>2, <1>10 DEF ActionSettles
<1>11. ASSUME NEW p \in EnvPlaces, NEW k \in Names \cup {NoName}, Inject(p, k) PROVE TakesFromInputs'
  BY <1>2, <1>11 DEF Inject
<1> QED
  BY <1>3, <1>a, <1>4, <1>5, <1>6, <1>7, <1>8, <1>9, <1>10, <1>11, StepCases

HostInvariant ==
  /\ CompletionsInFlight /\ OutputsWritten /\ DepositOwned /\ ArrivalsKnown
  /\ TerminalLatched /\ TakesFromInputs

\* What the mapping rests on.
PlayInvariant == FlatInvariant /\ HostInvariant

\* At the start nothing is in flight, accepted or latched.
LEMMA HostInit == Init => HostInvariant
<1> SUFFICES ASSUME Init PROVE HostInvariant
  OBVIOUS
<1>1. CompletionsInFlight /\ ArrivalsKnown /\ TakesFromInputs
  BY DEF Init, CompletionsInFlight, ArrivalsKnown, TakesFromInputs, Consuming
<1>2. OutputsWritten /\ DepositOwned
  BY DEF Init, OutputsWritten, DepositOwned
<1>3. TerminalLatched
  BY DEF Init, TerminalLatched
<1> QED
  BY <1>1, <1>2, <1>3 DEF HostInvariant

\* Every step keeps what the mapping rests on.
LEMMA PlayStep == PlayInvariant /\ [Next]_vars => PlayInvariant'
<1> SUFFICES ASSUME PlayInvariant, [Next]_vars PROVE PlayInvariant'
  OBVIOUS
<1>1. FlatInvariant /\ FlatInvariant'
  BY Inductive DEF PlayInvariant
<1>2. TypeOK /\ TypeOK' /\ PhaseOK /\ IdleHoldsNothing
  BY <1>1 DEF FlatInvariant
<1>3. HostInvariant'
  BY <1>2, CompletionsStep, OutputsStep, DepositOwnedStep, ArrivalsStep, TerminalStep, TakesStep
  DEF PlayInvariant, HostInvariant
<1> QED
  BY <1>1, <1>3 DEF PlayInvariant

\* No token is in two places, no completion is queued twice, and no terminal place is marked
\* behind the back of the loop.
THEOREM PlayInvariantHolds == Spec => []PlayInvariant
<1>1. Init => PlayInvariant
  BY InitHolds, HostInit DEF PlayInvariant
<1> QED
  BY <1>1, PlayStep, PTL DEF Spec

-----------------------------------------------------------------------------
(* The mapping.                                                            *)

\* The net's operators are those the executor was compiled with.
LEMMA SameOperators ==
  ASSUME NEW t, NEW p, NEW n, NEW m
  PROVE  /\ Net!ConsumptionPlaces(t) = ConsumptionPlaces(t)
         /\ Net!InputPlaces(t) = InputPlaces(t)
         /\ Net!ConsumptionCount(t, p, n) = ConsumptionCount(t, p, n)
         /\ Net!ArcsSatisfied(t, m) <=> ArcsSatisfied(t, m)
         /\ Net!Transitions = Transitions
         /\ Net!Nothing = [q \in Places |-> 0]
  BY DEF Net!ConsumptionPlaces, Net!InputPlaces, Net!ConsumptionCount, Net!ArcsSatisfied,
         Net!Transitions, Net!Nothing, ConsumptionPlaces, InputPlaces, ConsumptionCount,
         ArcsSatisfied, Transitions

\* Filtering makes no queue longer.
LEMMA NamedShorter ==
  ASSUME NEW s \in Seq(Token), Distinct(s), NEW n
  PROVE  Len(Named(s, n)) \in Nat /\ Len(s) \in Nat /\ Len(Named(s, n)) <= Len(s)
<1>1. Named(s, n) = Kept(s, OfName(n)) /\ Named(s, n) \in Seq(Token)
  BY PartsKept, PartsTyped
<1>2. PICK k : k = Named(s, n)
  OBVIOUS
<1>3. k \in Seq(Token) /\ Distinct(k) /\ \A i \in DOMAIN k : \E j \in DOMAIN s : k[i] = s[j]
  BY <1>1, <1>2, KeptDistinct, KeptMembers
<1>4. Ids(k) \subseteq Ids(s)
  BY <1>3 DEF Ids
<1>5. /\ IsFiniteSet(Ids(s)) /\ Cardinality(Ids(s)) = Len(s)
      /\ IsFiniteSet(Ids(k)) /\ Cardinality(Ids(k)) = Len(k)
  BY <1>3, DistinctCount
<1>6. Cardinality(Ids(k)) <= Cardinality(Ids(s))
  BY <1>4, <1>5, FS_Subset
<1> QED
  BY <1>2, <1>3, <1>5, <1>6, LenProperties

\* What the opcode of an input takes from its place.
Takes(t, p) == TakenBy(t, [op |-> OpcodeOf(t, p), pid |-> p], queues)

\* They are distinct tokens of the place.
LEMMA TakesDistinct ==
  ASSUME queues \in [Places -> Seq(Token)], consumed \in [Transitions -> [Places -> Seq(Token)]],
         NEW t \in Transitions, NEW p \in InputPlaces(t), Distinct(queues[p])
  PROVE  /\ Takes(t, p) \in Seq(Token) /\ Distinct(Takes(t, p)) /\ Ids(Takes(t, p)) \subseteq Ids(queues[p])
         /\ Len(Takes(t, p)) \in Nat /\ Len(queues[p]) \in Nat /\ Len(Takes(t, p)) <= Len(queues[p])
<1>1. PICK o : o = [op |-> OpcodeOf(t, p), pid |-> p]
  OBVIOUS
<1>2. p \in Places
  BY ArcsTyped
<1>3. /\ Pool(t, p) \in Seq(Token)
      /\ \E k \in 0..Len(Pool(t, p)) :
           TakenBy(t, o, queues) = SubSeq(Pool(t, p), 1, k) /\ Len(TakenBy(t, o, queues)) = k
  BY <1>1, TakenByInput
<1>4. Takes(t, p) = TakenBy(t, o, queues)
  BY <1>1 DEF Takes
<1>5. PICK k \in 0..Len(Pool(t, p)) : Takes(t, p) = SubSeq(Pool(t, p), 1, k) /\ Len(Takes(t, p)) = k
  BY <1>3, <1>4
<1>6. queues[p] \in Seq(Token)
  BY <1>2
<1>7. /\ Distinct(Pool(t, p)) /\ Ids(Pool(t, p)) \subseteq Ids(queues[p])
      /\ Len(Pool(t, p)) \in Nat /\ Len(queues[p]) \in Nat /\ Len(Pool(t, p)) <= Len(queues[p])
  <2>1. CASE Pool(t, p) = queues[p]
    BY <1>6, <2>1, LenProperties
  <2>2. CASE Pool(t, p) = Named(queues[p], matched[t])
    <3>1. PICK s, r, n : s = queues[p] /\ n = matched[t] /\ r = Named(s, n)
      OBVIOUS
    <3>2. r = Kept(s, OfName(n)) /\ s \in Seq(Token) /\ Distinct(s)
      BY <1>6, <3>1, PartsKept
    <3>3. Distinct(r) /\ \A i \in DOMAIN r : \E j \in DOMAIN s : r[i] = s[j]
      BY <3>2, KeptDistinct, KeptMembers
    <3>4. Ids(r) \subseteq Ids(s)
      BY <3>3 DEF Ids
    <3>5. Len(r) \in Nat /\ Len(s) \in Nat /\ Len(r) <= Len(s)
      BY <3>1, <3>2, NamedShorter
    <3>6. Pool(t, p) = r /\ queues[p] = s
      BY <2>2, <3>1
    <3> QED
      BY <3>3, <3>4, <3>5, <3>6
  <2> QED
    BY <2>1, <2>2 DEF Pool
<1>8. /\ SubSeq(Pool(t, p), 1, k) \in Seq(Token) /\ Distinct(SubSeq(Pool(t, p), 1, k))
      /\ Ids(SubSeq(Pool(t, p), 1, k)) \subseteq Ids(Pool(t, p))
  BY <1>3, <1>7, PrefixOfKept
<1> QED
  BY <1>5, <1>7, <1>8

NotTaking == pc \notin {"consume", "reset"}
Quiet == pc \notin {"consume", "reset", "deposit"}

\* Outside a firing that takes its tokens the net shows what the executor holds.
ShownHeld ==
  /\ \A p \in Places : StillToTake[p] = 0
  /\ netHeld = [t \in Transitions |-> [p \in Places |-> IF t \notin Firings THEN 0 ELSE Len(consumed[t][p])]]

\* So it is while no opcode of a firing is still to come.
LEMMA HeldShown == TypeOK /\ NotTaking => ShownHeld
<1> SUFFICES ASSUME TypeOK, NotTaking PROVE ShownHeld
  OBVIOUS
<1>1. \A p \in Places : StillToTake[p] = 0
  BY DEF NotTaking, StillToTake, ToDrain, ToTake
<1>2. consumed \in [Transitions -> [Places -> Seq(Token)]]
  BY DEF TypeOK, FlightsTyped
<1>3. ASSUME NEW t \in Transitions, NEW p \in Places
      PROVE  (Len(consumed[t][p]) + IF t = firing THEN StillToTake[p] ELSE 0) = Len(consumed[t][p])
  <2>1. Len(consumed[t][p]) \in Nat
    BY <1>2, LenProperties
  <2> QED
    BY <1>1, <2>1
<1>4. netHeld = [t \in Transitions |-> [p \in Places |-> IF t \notin Firings THEN 0 ELSE Len(consumed[t][p])]]
  BY <1>3 DEF netHeld
<1> QED
  BY <1>1, <1>4 DEF ShownHeld

\* Outside firings and deposits the marking is what the queues hold.
ShownMarking == netMarking = Counts(queues)

\* So it is while nothing is still to be taken and no completion is under way.
LEMMA MarkingShown == TypeOK /\ DepositOwned /\ Quiet => ShownMarking
<1> SUFFICES ASSUME TypeOK, DepositOwned, Quiet PROVE ShownMarking
  OBVIOUS
<1>1. \A p \in Places : StillToTake[p] = 0 /\ produced[p] = 0
  BY DEF Quiet, StillToTake, ToDrain, ToTake, DepositOwned, None
<1>2. \A p \in Places : Len(queues[p]) \in Nat
  BY LenProperties DEF TypeOK, TokensTyped
<1> QED
  BY <1>1, <1>2 DEF ShownMarking, netMarking, Counts

\* As long as no terminal token is latched the net is running.
LEMMA NetRunning ==
  ASSUME TypeOK, DepositOwned, Quiet, TerminalLatched, pc # "new", ~life.terminal
  PROVE  Net!Running
<1>1. netMarking = Counts(queues)
  BY MarkingShown DEF ShownMarking
<1>2. \A p \in Terminals : p \in Places /\ queues[p] = <<>>
  BY NetAssumption DEF TerminalLatched
<1>3. \A p \in Terminals : netMarking[p] = 0
  BY <1>1, <1>2 DEF Counts
<1> QED
  BY <1>3 DEF Net!Running

\* Nothing the mapping reads has changed.
LEMMA HiddenFrame ==
  ASSUME UNCHANGED <<pc, queues, flight, consumed, matched, firing, op, produced>>
  PROVE  UNCHANGED <<netMarking, Firings, netHeld>>
<1>1. Firings' = Firings
  BY DEF Firings, InFlight
<1>2. StillToTake' = StillToTake
  BY DEF StillToTake, ToDrain, ToTake, TakenBy, Program
<1>3. netMarking' = netMarking
  BY <1>2 DEF netMarking
<1>4. netHeld' = netHeld
  BY <1>1, <1>2 DEF netHeld
<1> QED
  BY <1>1, <1>3, <1>4

\* From one quiet phase to another nothing is taken, deposited, started or ended.
LEMMA HiddenQuiet ==
  ASSUME TypeOK, TypeOK', DepositOwned, DepositOwned', Quiet, Quiet', UNCHANGED <<queues, consumed>>,
         Firings' = Firings
  PROVE  UNCHANGED <<netMarking, Firings, netHeld>>
<1>1. ShownMarking /\ ShownMarking'
  BY MarkingShown, PTL
<1>2. NotTaking /\ NotTaking'
  BY DEF Quiet, NotTaking
<1>3. ShownHeld /\ ShownHeld'
  BY <1>2, HeldShown, PTL
<1>4. netMarking' = netMarking
  BY <1>1 DEF ShownMarking, Counts
<1>5. netHeld' = netHeld
  BY <1>3 DEF ShownHeld
<1> QED
  BY <1>4, <1>5

\* A firing that is over is no longer shown to hold anything.
LEMMA FinishShown ==
  ASSUME TypeOK, TypeOK', PhaseOK, NotTaking', NEW t \in Transitions, t \in Firings, Firings' = Firings \ {t},
         \A u \in Transitions : u # t => consumed'[u] = consumed[u],
         ~NotTaking => firing = t
  PROVE  Net!Finish(t)
<1>1. ShownHeld'
  BY HeldShown, PTL
<1>2. netHeld' = [u \in Transitions |-> [p \in Places |-> IF u \notin Firings' THEN 0 ELSE Len(consumed'[u][p])]]
  BY <1>1 DEF ShownHeld
<1>3. consumed \in [Transitions -> [Places -> Seq(Token)]]
  BY DEF TypeOK, FlightsTyped
<1>4. ASSUME NEW u \in Transitions, u # t PROVE netHeld'[u] = netHeld[u]
  <2>1. netHeld'[u] = [p \in Places |-> IF u \notin Firings' THEN 0 ELSE Len(consumed'[u][p])]
    BY <1>2
  <2>2. netHeld[u] = [p \in Places |-> IF u \notin Firings THEN 0
                                       ELSE Len(consumed[u][p]) + IF u = firing THEN StillToTake[p] ELSE 0]
    BY DEF netHeld
  <2>3. ASSUME NEW p \in Places
        PROVE  (Len(consumed[u][p]) + IF u = firing THEN StillToTake[p] ELSE 0) = Len(consumed[u][p])
    <3>1. Len(consumed[u][p]) \in Nat
      BY <1>3, LenProperties
    <3>2. CASE NotTaking
      <4>1. StillToTake[p] = 0
        BY <3>2, HeldShown DEF ShownHeld
      <4> QED
        BY <3>1, <4>1
    <3>3. CASE ~NotTaking
      <4>1. u # firing
        BY <1>4, <3>3
      <4> QED
        BY <3>1, <4>1
    <3> QED
      BY <3>2, <3>3
  <2>4. (u \in Firings' <=> u \in Firings) /\ consumed'[u] = consumed[u]
    BY <1>4
  <2> QED
    BY <2>1, <2>2, <2>3, <2>4
<1>5. netHeld'[t] = [p \in Places |-> 0]
  BY <1>2
<1>6. netHeld' = [netHeld EXCEPT ![t] = [p \in Places |-> 0]]
  <2>1. DOMAIN netHeld = Transitions /\ netHeld = [u \in Transitions |-> netHeld[u]]
    BY DEF netHeld
  <2>2. netHeld' = [u \in Transitions |-> netHeld'[u]]
    BY <1>2
  <2> QED
    BY <1>4, <1>5, <2>1, <2>2
<1>7. Net!Nothing = [q \in Places |-> 0]
  BY SameOperators
<1> QED
  BY <1>6, <1>7 DEF Net!Finish

\* A completion that fails is the failure of its firing.
LEMMA FailedIsFail ==
  ASSUME PlayInvariant, PlayInvariant', NEW t \in Transitions, CompleteFailed(t)
  PROVE  Net!Fail(t)
<1>1. TypeOK /\ TypeOK' /\ PhaseOK /\ DepositOwned /\ DepositOwned' /\ CompletionsInFlight
  BY DEF PlayInvariant, FlatInvariant, HostInvariant
<1>2. /\ pc = "completions" /\ pc' = pc /\ completionQueue # <<>> /\ t = Head(completionQueue)
      /\ flight' = [flight EXCEPT ![t] = "idle"] /\ queues' = queues
      /\ consumed' = [consumed EXCEPT ![t] = [p \in Places |-> <<>>]]
  BY DEF CompleteFailed, CompletionOf, Unregister, Released
<1>3. flight \in [Transitions -> {"idle", "running", "done", "failed"}]
      /\ consumed \in [Transitions -> [Places -> Seq(Token)]] /\ completionQueue \in Seq(Transitions)
  BY <1>1 DEF TypeOK, FlightsTyped
<1>4. flight[t] \in {"done", "failed"}
  <2>1. 1 \in DOMAIN completionQueue /\ t = completionQueue[1]
    BY <1>2, <1>3, LenProperties, HeadTailProperties, EmptySeq
  <2> QED
    BY <1>1, <2>1 DEF CompletionsInFlight
<1>5. t \in Firings /\ Firings' = Firings \ {t}
  BY <1>2, <1>3, <1>4 DEF Firings, InFlight
<1>6. Quiet /\ Quiet' /\ NotTaking /\ NotTaking'
  BY <1>2 DEF Quiet, NotTaking
<1>7. \A u \in Transitions : u # t => consumed'[u] = consumed[u]
  BY <1>2, <1>3
<1>8. Net!Finish(t)
  BY <1>1, <1>5, <1>6, <1>7, FinishShown
<1>9. ShownMarking /\ ShownMarking'
  BY <1>1, <1>6, MarkingShown, PTL
<1>10. netMarking' = netMarking
  BY <1>2, <1>9 DEF ShownMarking, Counts
<1> QED
  BY <1>8, <1>10 DEF Net!Fail

\* A completion that begins to put down its tokens is still a firing for the net.
LEMMA OkHidden ==
  ASSUME PlayInvariant, PlayInvariant', NEW t \in Transitions, CompleteOk(t)
  PROVE  UNCHANGED <<netMarking, Firings, netHeld>>
<1>1. TypeOK /\ TypeOK' /\ PhaseOK /\ DepositOwned
  BY DEF PlayInvariant, FlatInvariant, HostInvariant
<1>2. /\ pc = "completions" /\ pc' = "deposit" /\ firing' = t /\ flight[t] = "done"
      /\ flight' = [flight EXCEPT ![t] = "idle"] /\ UNCHANGED <<queues, consumed, produced>>
  BY DEF CompleteOk, CompletionOf, Unregister
<1>3. flight \in [Transitions -> {"idle", "running", "done", "failed"}]
  BY <1>1 DEF TypeOK, FlightsTyped
<1>4. Firings' = Firings
  BY <1>2, <1>3 DEF Firings, InFlight
<1>5. NotTaking /\ NotTaking'
  BY <1>2 DEF NotTaking
<1>6. ShownHeld /\ ShownHeld'
  BY <1>1, <1>5, HeldShown, PTL
<1>7. netMarking' = netMarking
  BY <1>2, <1>6 DEF ShownHeld, netMarking
<1>8. netHeld' = netHeld
  BY <1>2, <1>4, <1>6 DEF ShownHeld
<1> QED
  BY <1>4, <1>7, <1>8

\* An injected token arrives, where the net knows its place.
LEMMA AdmitIsArrive ==
  ASSUME PlayInvariant, PlayInvariant', Admit
  PROVE  (\E p \in EnvPlaces \cap Places : Net!Arrive(p)) \/ UNCHANGED <<netMarking, Firings, netHeld>>
<1>1. TypeOK /\ TypeOK' /\ PhaseOK /\ DepositOwned /\ DepositOwned' /\ ArrivalsKnown /\ TerminalLatched
  BY DEF PlayInvariant, FlatInvariant, HostInvariant
<1>2. /\ pc = "external" /\ pc' = pc /\ cursor < prefix /\ ~life.terminal
      /\ produceToken(externalQueue[cursor + 1].pid, externalQueue[cursor + 1].tok)
      /\ UNCHANGED <<flight, consumed, firing>>
  BY DEF Admit
<1>3. PICK p, tok : p = externalQueue[cursor + 1].pid /\ tok = externalQueue[cursor + 1].tok
  OBVIOUS
<1>4. p \in Nat /\ tok \in Token /\ produceToken(p, tok)
  BY <1>1, <1>2, <1>3, DepositTyped
<1>5. p \in EnvPlaces
  <2>1. cursor + 1 \in DOMAIN externalQueue
    BY <1>1, <1>2, LenProperties DEF TypeOK, ExternalTyped
  <2> QED
    BY <1>1, <1>3, <2>1 DEF ArrivalsKnown
<1>6. /\ p \in Places => queues' = [queues EXCEPT ![p] = Append(queues[p], tok)]
      /\ p \notin Places => queues' = queues
  BY <1>1, <1>4, ProduceEffect
<1>7. Quiet /\ Quiet' /\ NotTaking /\ NotTaking' /\ Firings' = Firings
  BY <1>2 DEF Quiet, NotTaking, Firings, InFlight
<1>8. CASE p \notin Places
  BY <1>1, <1>2, <1>6, <1>7, <1>8, HiddenQuiet
<1>9. CASE p \in Places
  <2>1. queues \in [Places -> Seq(Token)] /\ queues[p] \in Seq(Token) /\ Len(queues[p]) \in Nat
    BY <1>1, <1>9, LenProperties DEF TypeOK, TokensTyped
  <2>2. Len(queues'[p]) = Len(queues[p]) + 1 /\ \A q \in Places : q # p => queues'[q] = queues[q]
    BY <1>4, <1>6, <1>9, <2>1, AppendProperties
  <2>3. netMarking = Counts(queues) /\ netMarking' = Counts(queues')
    <3>1. ShownMarking /\ ShownMarking'
      BY <1>1, <1>7, MarkingShown, PTL
    <3> QED
      BY <3>1 DEF ShownMarking, Counts
  <2>4. netMarking' = [netMarking EXCEPT ![p] = netMarking[p] + 1]
    BY <1>9, <2>2, <2>3 DEF Counts
  <2>5. netHeld' = netHeld
    <3>1. ShownHeld /\ ShownHeld'
      BY <1>1, <1>7, HeldShown, PTL
    <3> QED
      BY <1>2, <1>7, <3>1 DEF ShownHeld
  <2>6. Net!Running
    BY <1>1, <1>2, <1>7, NetRunning
  <2>7. Net!Arrive(p)
    BY <1>7, <2>4, <2>5, <2>6 DEF Net!Arrive
  <2> QED
    BY <1>5, <1>9, <2>7
<1> QED
  BY <1>8, <1>9

\* A token that a completion puts down does not show before the completion is over.
LEMMA DepositHidden ==
  ASSUME PlayInvariant, PlayInvariant', Deposit
  PROVE  UNCHANGED <<netMarking, Firings, netHeld>>
<1>1. TypeOK /\ TypeOK' /\ PhaseOK
  BY DEF PlayInvariant, FlatInvariant
<1>2. /\ pc = "deposit" /\ pc' = pc /\ output[firing] # <<>>
      /\ produceToken(Head(output[firing]).pid, Head(output[firing]).tok)
      /\ produced' = IF Head(output[firing]).pid \in Places
                     THEN [produced EXCEPT ![Head(output[firing]).pid] = produced[Head(output[firing]).pid] + 1]
                     ELSE produced
      /\ UNCHANGED <<flight, consumed, firing>>
  BY DEF Deposit
<1>3. PICK p, tok : p = Head(output[firing]).pid /\ tok = Head(output[firing]).tok
  OBVIOUS
<1>4. p \in Nat /\ tok \in Token /\ produceToken(p, tok)
  BY <1>1, <1>2, <1>3, DepositTyped
<1>5. /\ p \in Places => queues' = [queues EXCEPT ![p] = Append(queues[p], tok)]
      /\ p \notin Places => queues' = queues
      /\ produced' = IF p \in Places THEN [produced EXCEPT ![p] = produced[p] + 1] ELSE produced
  BY <1>1, <1>2, <1>3, <1>4, ProduceEffect
<1>6. NotTaking /\ NotTaking' /\ Firings' = Firings
  BY <1>2 DEF NotTaking, Firings, InFlight
<1>7. ShownHeld /\ ShownHeld'
  BY <1>1, <1>6, HeldShown, PTL
<1>8. queues \in [Places -> Seq(Token)] /\ produced \in [Places -> Nat]
  BY <1>1 DEF TypeOK, LoopTyped, TokensTyped
<1>9. ASSUME NEW q \in Places PROVE netMarking'[q] = netMarking[q]
  <2>1. PICK d \in 0..1 : d = IF p = q THEN 1 ELSE 0
    OBVIOUS
  <2>2. produced[q] \in Nat /\ produced'[q] = produced[q] + d
    BY <1>5, <1>8, <2>1
  <2>3. StillToTake[q] = 0 /\ StillToTake'[q] = 0
    BY <1>7 DEF ShownHeld
  <2>4. Len(queues[q]) \in Nat /\ Len(queues'[q]) = Len(queues[q]) + d
    <3>1. Len(queues[q]) \in Nat /\ queues[q] \in Seq(Token)
      BY <1>8, LenProperties
    <3>2. CASE p = q
      <4>1. queues'[q] = Append(queues[q], tok)
        BY <1>5, <1>8, <3>2
      <4> QED
        BY <1>4, <2>1, <3>1, <3>2, <4>1, AppendProperties
    <3>3. CASE p # q
      <4>1. queues'[q] = queues[q]
        BY <1>5, <1>8, <3>3
      <4> QED
        BY <2>1, <3>1, <3>3, <4>1
    <3> QED
      BY <3>2, <3>3
  <2>5. /\ netMarking[q] = Len(queues[q]) - StillToTake[q] - produced[q]
        /\ netMarking'[q] = Len(queues'[q]) - StillToTake'[q] - produced'[q]
    BY DEF netMarking
  <2>6. PICK x, y \in Nat : x = Len(queues[q]) /\ y = produced[q]
    BY <2>2, <2>4
  <2>7. netMarking[q] = x - 0 - y /\ netMarking'[q] = (x + d) - 0 - (y + d)
    BY <2>2, <2>3, <2>4, <2>5, <2>6
  <2> QED
    BY <2>7
<1>10. netMarking' = netMarking
  <2>1. netMarking' = [q \in Places |-> netMarking'[q]] /\ netMarking = [q \in Places |-> netMarking[q]]
    BY DEF netMarking
  <2> QED
    BY <1>9, <2>1
<1>11. netHeld' = netHeld
  BY <1>2, <1>6, <1>7 DEF ShownHeld
<1> QED
  BY <1>6, <1>10, <1>11

\* The end of a completion, reached or thrown, is the end of the net's firing: what has landed
\* comes to light, and the net was running until then.
LEMMA EndingShown ==
  ASSUME PlayInvariant, PlayInvariant', CompletionEnds
  PROVE  /\ firing \in Transitions
         /\ Net!Running
         /\ Net!Finish(firing)
         /\ netMarking' \in [Places -> Nat]
         /\ \A p \in Places : /\ netMarking[p] \in Int /\ produced[p] \in Nat
                              /\ netMarking'[p] = netMarking[p] + produced[p]
<1>1. /\ TypeOK /\ TypeOK' /\ PhaseOK /\ DepositOwned /\ DepositOwned' /\ TerminalLatched
  BY DEF PlayInvariant, FlatInvariant, HostInvariant
<1>2. /\ pc = "deposit" /\ pc' \in {"exit", "completions"}
      /\ consumed' = [consumed EXCEPT ![firing] = [p \in Places |-> <<>>]]
      /\ UNCHANGED <<queues, flight>>
  BY DEF CompletionEnds, EndCompletion, Released
<1>3. /\ firing \in Transitions /\ flight[firing] = "idle"
      /\ queues \in [Places -> Seq(Token)] /\ produced \in [Places -> Nat]
      /\ consumed \in [Transitions -> [Places -> Seq(Token)]]
  BY <1>1, <1>2 DEF PhaseOK, DepositOwned, TypeOK, TokensTyped, LoopTyped, FlightsTyped
<1>4. NotTaking /\ NotTaking' /\ Quiet' /\ firing \in Firings /\ Firings' = Firings \ {firing}
  BY <1>2, <1>3 DEF NotTaking, Quiet, Firings, InFlight
<1>5. ShownHeld /\ ShownMarking'
  BY <1>1, <1>4, HeldShown, MarkingShown, PTL
<1>6. Net!Finish(firing)
  <2>1. \A u \in Transitions : u # firing => consumed'[u] = consumed[u]
    BY <1>2, <1>3
  <2> QED
    BY <1>1, <1>3, <1>4, <2>1, FinishShown
<1>7. ASSUME NEW p \in Places
      PROVE  /\ netMarking[p] = Len(queues[p]) - produced[p] /\ netMarking'[p] = Len(queues[p])
             /\ Len(queues[p]) \in Nat /\ produced[p] \in Nat
  <2>1. Len(queues[p]) \in Nat /\ produced[p] \in Nat /\ StillToTake[p] = 0
    BY <1>3, <1>5, LenProperties DEF ShownHeld
  <2>2. netMarking[p] = Len(queues[p]) - StillToTake[p] - produced[p]
    BY DEF netMarking
  <2>3. netMarking'[p] = Len(queues[p])
    BY <1>2, <1>5 DEF ShownMarking, Counts
  <2> QED
    BY <2>1, <2>2, <2>3
<1>8. \A p \in Places : netMarking[p] \in Int /\ netMarking'[p] = netMarking[p] + produced[p]
  BY <1>7
<1>9. netMarking' \in [Places -> Nat]
  BY <1>7 DEF netMarking
<1>10. Net!Running
  <2>1. \A p \in Terminals : p \in Places /\ Len(queues[p]) = produced[p]
    BY <1>1, <1>2, NetAssumption DEF TerminalLatched
  <2>2. \A p \in Terminals : netMarking[p] = 0
    BY <1>7, <2>1
  <2> QED
    BY <2>2 DEF Net!Running
<1> QED
  BY <1>3, <1>6, <1>8, <1>9, <1>10

\* SettleCompletion is Complete: everything the action produced has landed.
LEMMA SettleIsComplete ==
  ASSUME PlayInvariant, PlayInvariant', CompletionEnds, SettleCompletion
  PROVE  Net!Complete(firing)
<1>1. /\ firing \in Transitions /\ Net!Running /\ Net!Finish(firing)
      /\ netMarking' \in [Places -> Nat]
      /\ \A p \in Places : netMarking'[p] = netMarking[p] + produced[p] /\ produced[p] \in Nat
  BY EndingShown
<1>2. PICK out \in Productions[firing] :
        \A p \in Places : Landing(out, p) = produced[p] + Landing(output[firing], p)
  BY DEF PlayInvariant, HostInvariant, DepositOwned, CompletionEnds
<1>3. \A p \in Places : Landing(output[firing], p) = 0
  BY LandingTyped, EmptySeq DEF SettleCompletion
<1>4. PICK bag : bag = [p \in Places |-> Landing(out, p)]
  OBVIOUS
<1>5. \A p \in Places : bag[p] = produced[p]
  BY <1>1, <1>2, <1>3, <1>4
<1>6. netMarking' = Net!Plus(netMarking, bag)
  BY <1>1, <1>5 DEF Net!Plus
<1>7. bag \in [u \in Transitions |-> {[p \in Places |-> Landing(o, p)] : o \in Productions[u]}][firing]
  BY <1>1, <1>2, <1>4
<1> QED
  BY <1>1, <1>6, <1>7 DEF Net!Complete

\* DepositThrow is CutShort: some of what the action produced has landed.
LEMMA DepositThrowIsCutShort ==
  ASSUME PlayInvariant, PlayInvariant', CompletionEnds, DepositThrow
  PROVE  Net!CutShort(firing)
<1>1. /\ firing \in Transitions /\ Net!Running /\ Net!Finish(firing)
      /\ netMarking' \in [Places -> Nat]
      /\ \A p \in Places : /\ netMarking[p] \in Int /\ produced[p] \in Nat
                           /\ netMarking'[p] = netMarking[p] + produced[p]
  BY EndingShown
<1>2. TypeOK /\ output[firing] \in Seq(Deposits)
  BY <1>1 DEF PlayInvariant, FlatInvariant, TypeOK, FlightsTyped
<1>3. PICK out \in Productions[firing] :
        \A p \in Places : Landing(out, p) = produced[p] + Landing(output[firing], p)
  BY DEF PlayInvariant, HostInvariant, DepositOwned, CompletionEnds
<1>4. \A p \in Places : Landing(output[firing], p) \in Nat
  BY <1>2, LandingTyped
<1>5. PICK bag : bag = [p \in Places |-> Landing(out, p)]
  OBVIOUS
<1>6. ASSUME NEW p \in Places
      PROVE  netMarking[p] <= netMarking'[p] /\ netMarking'[p] <= netMarking[p] + bag[p]
  BY <1>1, <1>3, <1>4, <1>5
<1>7. bag \in [u \in Transitions |-> {[p \in Places |-> Landing(o, p)] : o \in Productions[u]}][firing]
  BY <1>1, <1>3, <1>5
<1>8. firing \in Faulty
  <2>1. CASE firing \in MayThrow
    BY <2>1 DEF Faulty
  <2>2. CASE output[firing] # <<>> /\ KeyThrows(Head(output[firing]).pid)
    <3>1. PICK q : q = Head(output[firing]).pid
      OBVIOUS
    <3>2. PICK u \in MayThrow : q \in Keys[u]
      BY <2>2, <3>1 DEF KeyThrows
    <3>3. q \in Places
      BY <3>2, QueueAssumption, WordAssumption DEF QueueAssumption, WordAssumption
    <3>4. Landing(output[firing], q) # 0
      <4>1. /\ Landing(Tail(output[firing]), q) \in Nat
            /\ Landing(output[firing], q) = Landing(Tail(output[firing]), q) + 1
        BY <1>2, <2>2, <3>1, LandingTail
      <4> QED
        BY <4>1
    <3>5. Landing(out, q) # 0
      BY <1>1, <1>3, <1>4, <3>3, <3>4
    <3>6. {i \in DOMAIN out : out[i].pid = q} # {}
      BY <3>5, FS_EmptySet DEF Landing
    <3>7. PICK i \in DOMAIN out : out[i].pid \in Keys[u]
      BY <3>2, <3>6
    <3> QED
      BY <1>1, <3>2, <3>7 DEF Faulty
  <2> QED
    BY <2>1, <2>2 DEF DepositThrow
<1> QED
  BY <1>1, <1>6, <1>7, <1>8 DEF Net!CutShort

\* A firing that is registered has long been started.
LEMMA RegisterHidden ==
  ASSUME PlayInvariant, PlayInvariant', FireRegister
  PROVE  UNCHANGED <<netMarking, Firings, netHeld>>
<1>1. TypeOK /\ TypeOK' /\ PhaseOK /\ DepositOwned /\ DepositOwned'
  BY DEF PlayInvariant, FlatInvariant, HostInvariant
<1>2. /\ pc = "start" /\ pc' = "fire" /\ flight' = [flight EXCEPT ![firing] = "running"]
      /\ UNCHANGED <<queues, consumed>>
  BY DEF FireRegister
<1>3. firing \in Transitions /\ flight \in [Transitions -> {"idle", "running", "done", "failed"}]
  BY <1>1, <1>2 DEF PhaseOK, FiringPcs, TypeOK, FlightsTyped
<1>4. Firings' = Firings
  BY <1>2, <1>3 DEF Firings, InFlight
<1>5. Quiet /\ Quiet'
  BY <1>2 DEF Quiet
<1> QED
  BY <1>1, <1>2, <1>4, <1>5, HiddenQuiet

\* What is still to be taken, while the inputs are.
LEMMA StillConsuming ==
  ASSUME pc = "consume", NEW p \in Places
  PROVE  StillToTake[p] = IF p \in Resets[firing] THEN Len(queues[p])
                          ELSE IF Pending(p) THEN Len(Takes(firing, p)) ELSE 0
<1>1. (ToDrain(p) <=> p \in Resets[firing]) /\ (ToTake(p) <=> Pending(p))
  BY DEF ToDrain, ToTake, Pending
<1> QED
  BY <1>1 DEF StillToTake, Takes

\* And behind them.
LEMMA StillResetting ==
  ASSUME pc = "reset", NEW p \in Places
  PROVE  StillToTake[p] = IF \E i \in op..Len(Program.ops) : Program.ops[i].pid = p THEN Len(queues[p]) ELSE 0
<1>1. (ToDrain(p) <=> \E i \in op..Len(Program.ops) : Program.ops[i].pid = p) /\ ~ToTake(p)
  BY DEF ToDrain, ToTake
<1> QED
  BY <1>1 DEF StillToTake

\* What is shown while a firing takes its tokens.
LEMMA TakingShown ==
  ASSUME DepositOwned, ~NotTaking, NEW p \in Places
  PROVE  /\ netMarking[p] = Len(queues[p]) - StillToTake[p] - 0
         /\ firing \in Transitions => netHeld[firing][p] = Len(consumed[firing][p]) + StillToTake[p]
<1>1. produced[p] = 0 /\ firing \in Firings
  BY DEF NotTaking, DepositOwned, None, Firings
<1> QED
  BY <1>1 DEF netMarking, netHeld

\* Between the inputs and the resets nothing is taken.
LEMMA PeekHidden ==
  ASSUME PlayInvariant, PlayInvariant', PeekReads
  PROVE  UNCHANGED <<netMarking, Firings, netHeld>>
<1>1. TypeOK /\ TypeOK' /\ PhaseOK
  BY DEF PlayInvariant, FlatInvariant
<1>2. /\ pc = "consume" /\ pc' = "reset" /\ op > Program.resetOpsStart
      /\ UNCHANGED <<queues, flight, consumed, firing, op, matched, produced>>
  BY DEF PeekReads
<1>3. firing \in Transitions /\ op \in Nat
  BY <1>1, <1>2 DEF PhaseOK, FiringPcs, TypeOK, LoopTyped
<1>4. PICK n, ops : n = Len(InputSpecs[firing]) /\ ops = programs[firing].ops
  OBVIOUS
<1>5. /\ programs[firing].resetOpsStart = n /\ n \in Nat /\ Len(ops) \in Nat
      /\ \A i \in 1..Len(ops) : i > n => ops[i].pid \in Resets[firing]
      /\ \A p \in Resets[firing] : \E i \in (n + 1)..Len(ops) : ops[i].pid = p
  BY <1>3, <1>4, ProgramShape
<1>6. op = n + 1
  <2>1. op \in 1..(n + 1) /\ op > n
    BY <1>1, <1>2, <1>4, <1>5 DEF PhaseOK, Program
  <2> QED
    BY <1>5, <2>1
<1>7. ASSUME NEW p \in Places PROVE StillToTake'[p] = StillToTake[p]
  <2>1. (\E i \in op..Len(ops) : ops[i].pid = p) <=> p \in Resets[firing]
    BY <1>5, <1>6
  <2>2. ~Pending(p)
    BY <1>1, <1>2, NothingPending
  <2>3. StillToTake[p] = IF p \in Resets[firing] THEN Len(queues[p]) ELSE 0
    BY <1>2, <2>2, StillConsuming
  <2>4. (ToDrain(p))' <=> p \in Resets[firing]
    BY <1>2, <1>4, <2>1 DEF ToDrain, Program
  <2>5. ~(ToTake(p))'
    BY <1>2 DEF ToTake
  <2>6. StillToTake'[p] = IF p \in Resets[firing] THEN Len(queues[p]) ELSE 0
    BY <1>2, <2>4, <2>5 DEF StillToTake
  <2> QED
    BY <2>3, <2>6
<1>8. StillToTake' = StillToTake
  BY <1>7 DEF StillToTake
<1>9. Firings' = Firings
  BY <1>2 DEF Firings, InFlight
<1>10. netMarking' = netMarking
  BY <1>2, <1>8 DEF netMarking
<1>11. netHeld' = netHeld
  BY <1>2, <1>8, <1>9 DEF netHeld
<1> QED
  BY <1>9, <1>10, <1>11

\* When the program has run nothing is left to take.
LEMMA StartHidden ==
  ASSUME PlayInvariant, PlayInvariant', FireStart
  PROVE  UNCHANGED <<netMarking, Firings, netHeld>>
<1>1. TypeOK /\ TypeOK' /\ PhaseOK
  BY DEF PlayInvariant, FlatInvariant
<1>2. /\ pc = "reset" /\ pc' = "start" /\ op > Len(Program.ops)
      /\ UNCHANGED <<queues, flight, consumed, firing, produced>>
  BY DEF FireStart
<1>3. firing \in Transitions /\ op \in Nat /\ Len(Program.ops) \in Nat
  BY <1>1, <1>2, ProgramLengths DEF PhaseOK, FiringPcs, TypeOK, LoopTyped, Program
<1>4. \A p \in Places : StillToTake[p] = 0
  <2>1. op..Len(Program.ops) = {}
    BY <1>2, <1>3
  <2> QED
    BY <1>2, <2>1, StillResetting
<1>5. \A p \in Places : StillToTake'[p] = 0
  BY <1>2 DEF StillToTake, ToDrain, ToTake
<1>6. StillToTake' = StillToTake
  BY <1>4, <1>5 DEF StillToTake
<1>7. Firings' = Firings
  BY <1>2 DEF Firings, InFlight
<1>8. netMarking' = netMarking
  BY <1>2, <1>6 DEF netMarking
<1>9. netHeld' = netHeld
  BY <1>2, <1>6, <1>7 DEF netHeld
<1> QED
  BY <1>7, <1>8, <1>9

\* An opcode moves d tokens from its queue to its firing, and d fewer are to be taken.
Moved(q, d) ==
  /\ Len(queues'[q]) = Len(queues[q]) - d
  /\ StillToTake'[q] = StillToTake[q] - d
  /\ Len(consumed'[firing][q]) = Len(consumed[firing][q]) + d

\* Only inputs are pending.
LEMMA PendingInput ==
  ASSUME TypeOK, PhaseOK, pc = "consume", NEW p, Pending(p)
  PROVE  p \in InputPlaces(firing)
<1>1. firing \in Transitions /\ op \in 1..(Len(InputSpecs[firing]) + 1)
  BY DEF PhaseOK, FiringPcs
<1>2. /\ Len(InputSpecs[firing]) \in Nat
      /\ \A i \in 1..Len(InputSpecs[firing]) : InputSpecs[firing][i] \in InputPlaces(firing)
  BY <1>1, ProgramShape
<1>3. PICK i \in op..Len(InputSpecs[firing]) : InputSpecs[firing][i] = p
  BY DEF Pending
<1>4. i \in 1..Len(InputSpecs[firing])
  BY <1>1, <1>2, <1>3
<1> QED
  BY <1>2, <1>3, <1>4

\* What the pending inputs have still to give: all of it, or what is missing.
DueCounted ==
  pc = "consume" =>
    \A p \in InputPlaces(firing) : Pending(p) =>
      /\ p \in TakesAll[firing] => Len(Takes(firing, p)) = Len(Pool(firing, p))
      /\ p \notin TakesAll[firing] =>
           Len(Takes(firing, p)) = Required[firing][p] - Len(consumed[firing][p])

\* So it is.
LEMMA DueKnown == PlayInvariant => DueCounted
<1> SUFFICES ASSUME PlayInvariant, pc = "consume", NEW p \in InputPlaces(firing), Pending(p)
             PROVE  /\ p \in TakesAll[firing] => Len(Takes(firing, p)) = Len(Pool(firing, p))
                    /\ p \notin TakesAll[firing] =>
                         Len(Takes(firing, p)) = Required[firing][p] - Len(consumed[firing][p])
  BY DEF DueCounted
<1>1. /\ TypeOK /\ PhaseOK /\ FiringSupplied /\ firing \in Transitions
      /\ queues \in [Places -> Seq(Token)] /\ consumed \in [Transitions -> [Places -> Seq(Token)]]
  BY DEF PlayInvariant, FlatInvariant, TypeOK, TokensTyped, FlightsTyped, PhaseOK, FiringPcs
<1>2. /\ Len(consumed[firing][p]) + Len(Pool(firing, p)) >= Required[firing][p]
      /\ p \notin TakesAll[firing] => Len(consumed[firing][p]) < Required[firing][p]
  <2>1. InputReady(p)
    BY <1>1 DEF FiringSupplied, FiringPcs
  <2> QED
    BY <1>1, <2>1, PoolSupplied DEF InputReady
<1>3. PICK o : o = [op |-> OpcodeOf(firing, p), pid |-> p]
  OBVIOUS
<1>4. Takes(firing, p) = TakenBy(firing, o, queues)
  BY <1>3 DEF Takes
<1> QED
  BY <1>1, <1>2, <1>3, <1>4, TakenByInput

\* The place of the opcode, and the others.
LEMMA OpMoves ==
  ASSUME PlayInvariant, PlayInvariant', ExecuteOp, NEW q \in Places
  PROVE  \E d \in Nat : Moved(q, d)
<1>1. TypeOK /\ TypeOK' /\ PhaseOK /\ UniqueTokens /\ FiringSupplied
  BY DEF PlayInvariant, FlatInvariant
<1>2. /\ firing \in Transitions /\ op \in Nat /\ UNCHANGED <<pc, matched, firing>>
      /\ \E p \in ConsumptionPlaces(firing), taken \in Seq(Token) : p \in Places /\ OpTakes(p, taken)
  BY <1>1, OpEffect
<1>3. PICK p \in Places, taken \in Seq(Token) : OpTakes(p, taken)
  BY <1>2
<1>4. /\ queues \in [Places -> Seq(Token)] /\ \A r \in Places : Distinct(queues[r])
      /\ consumed \in [Transitions -> [Places -> Seq(Token)]] /\ matched \in [Transitions -> Names \cup {NoName}]
  BY <1>1 DEF TypeOK, TokensTyped, FlightsTyped, UniqueTokens, Unique
<1>5. /\ queues'[p] = Without(queues[p], taken) /\ consumed'[firing][p] = consumed[firing][p] \o taken
      /\ q # p => queues'[q] = queues[q] /\ consumed'[firing][q] = consumed[firing][q]
  BY <1>2, <1>3, <1>4 DEF OpTakes
<1>6. /\ Len(queues[q]) \in Nat /\ Len(consumed[firing][q]) \in Nat /\ Len(taken) \in Nat
      /\ queues[p] \in Seq(Token) /\ Len(queues[p]) \in Nat /\ Distinct(queues[p])
      /\ consumed[firing][p] \in Seq(Token) /\ Len(consumed[firing][p]) \in Nat
  BY <1>2, <1>4, LenProperties
<1>7. Len(consumed'[firing][p]) = Len(consumed[firing][p]) + Len(taken)
  BY <1>5, <1>6, ConcatProperties
<1>8. Pending(q)' <=> ToTake(q)'
  BY DEF Pending, ToTake
<1>9. ASSUME pc = "consume" PROVE \E d \in Nat : Moved(q, d)
  <2>1. PICK pool, given, need, after :
          /\ pool = Pool(firing, p) /\ given = Len(consumed[firing][p]) /\ need = Required[firing][p]
          /\ after = Len(Pool(firing, p)')
    OBVIOUS
  <2>2. /\ p \in InputPlaces(firing) /\ Pending(p) /\ InputReady(p)
        /\ Pending(q)' <=> Pending(q) /\ (q # p \/ op' = op)
        /\ pool \in Seq(Token) /\ Len(pool) \in Nat /\ given \in Nat /\ need \in Nat
        /\ Len(taken) = IF Len(pool) = 0 THEN 0 ELSE 1
        /\ Len(queues'[p]) = Len(queues[p]) - Len(taken)
        /\ Pool(firing, p)' = IF Len(pool) = 0 THEN <<>> ELSE Tail(pool)
        /\ \E k \in 0..Len(pool) :
             /\ Len(Due(p)) = k
             /\ op' = IF k <= 1 THEN op + 1 ELSE op
             /\ p \in TakesAll[firing] => k = Len(pool)
             /\ p \notin TakesAll[firing] => k = need - given
    BY <1>1, <1>3, <1>9, <2>1, OpDue
  <2>3. StillToTake[q] = IF q \in Resets[firing] THEN Len(queues[q])
                         ELSE IF Pending(q) THEN Len(Takes(firing, q)) ELSE 0
    BY <1>9, StillConsuming
  <2>4. (ToDrain(q))' <=> q \in Resets[firing]
    BY <1>2, <1>9 DEF ToDrain
  <2>5. StillToTake'[q] = IF q \in Resets[firing] THEN Len(queues'[q])
                          ELSE IF Pending(q)' THEN Len(Takes(firing, q)') ELSE 0
    <3>1. StillToTake'[q] = IF (ToDrain(q))' THEN Len(queues'[q])
                            ELSE IF (ToTake(q))' THEN Len(Takes(firing, q)') ELSE 0
      BY DEF StillToTake, Takes
    <3> QED
      BY <1>8, <2>4, <3>1
  <2>6. CASE q # p
    <3>1. Takes(firing, q)' = Takes(firing, q)
      <4>1. PICK o : o = [op |-> OpcodeOf(firing, q), pid |-> q]
        OBVIOUS
      <4>2. o.pid = q
        BY <4>1
      <4>3. TakenBy(firing, o, queues)' = TakenBy(firing, o, queues)
        BY <1>2, <1>5, <2>6, <4>2 DEF TakenBy
      <4>4. Takes(firing, q)' = TakenBy(firing, o, queues)'
        BY <1>2, <4>1 DEF Takes
      <4>5. Takes(firing, q) = TakenBy(firing, o, queues)
        BY <4>1 DEF Takes
      <4> QED
        BY <4>3, <4>4, <4>5
    <3>2. StillToTake'[q] = StillToTake[q]
      BY <1>5, <2>2, <2>3, <2>5, <2>6, <3>1
    <3>3. StillToTake[q] \in Int
      <4>1. Pending(q) => q \in InputPlaces(firing)
        BY <1>1, <1>9, PendingInput
      <4>2. q \in InputPlaces(firing) => Len(Takes(firing, q)) \in Nat
        BY <1>2, <1>4, TakesDistinct
      <4> QED
        BY <1>6, <2>3, <4>1, <4>2
    <3>4. Moved(q, 0)
      BY <1>5, <1>6, <2>6, <3>2, <3>3 DEF Moved
    <3> QED
      BY <3>4
  <2>7. CASE q = p
    <3>1. PICK k \in 0..Len(pool) :
            /\ Len(Due(p)) = k
            /\ op' = IF k <= 1 THEN op + 1 ELSE op
            /\ p \in TakesAll[firing] => k = Len(pool)
            /\ p \notin TakesAll[firing] => k = need - given
      BY <2>2
    <3>2. Len(Takes(firing, p)) = k
      BY <3>1 DEF Takes, Due
    <3>3. /\ p \notin TakesAll[firing] => given < need
          /\ Len(queues'[p]) = Len(queues[p]) - Len(taken)
      BY <2>1, <2>2 DEF InputReady
    <3>4. StillToTake'[q] = StillToTake[q] - Len(taken)
      <4>1. CASE q \in Resets[firing]
        BY <1>6, <2>3, <2>5, <2>7, <3>3, <4>1
      <4>2. CASE q \notin Resets[firing] /\ op' # op
        <5>1. k <= 1 /\ ~Pending(q)'
          BY <1>2, <2>2, <2>7, <3>1, <4>2
        <5>2. k = Len(taken)
          BY <2>2, <3>1, <3>3, <5>1
        <5> QED
          BY <1>6, <2>2, <2>3, <2>5, <2>7, <3>2, <4>2, <5>1, <5>2
      <4>3. CASE q \notin Resets[firing] /\ op' = op
        <5>1. k >= 2 /\ Pending(p)' /\ Len(pool) # 0 /\ Len(taken) = 1
          BY <1>2, <2>2, <2>7, <3>1, <4>3
        <5>2. after = Len(pool) - 1
          BY <2>1, <2>2, <5>1, EmptySeq, HeadTailProperties
        <5>3. DueCounted'
          BY DueKnown, PTL
        <5>4. /\ p \in TakesAll[firing] => Len(Takes(firing, p)') = after
              /\ p \notin TakesAll[firing] => Len(Takes(firing, p)') = need - Len(consumed'[firing][p])
          BY <1>2, <1>9, <2>1, <2>2, <5>1, <5>3 DEF DueCounted
        <5>5. Len(consumed'[firing][p]) = given + 1
          BY <1>7, <2>1, <5>1
        <5>6. Len(Takes(firing, p)') = k - 1
          BY <2>2, <3>1, <5>2, <5>4, <5>5
        <5> QED
          BY <2>2, <2>3, <2>5, <2>7, <3>2, <4>3, <5>1, <5>6
      <4> QED
        BY <4>1, <4>2, <4>3
    <3>5. Moved(q, Len(taken))
      BY <1>7, <2>7, <3>3, <3>4 DEF Moved
    <3> QED
      BY <1>6, <3>5
  <2> QED
    BY <2>6, <2>7
<1>10. ASSUME pc = "reset" PROVE \E d \in Nat : Moved(q, d)
  <2>1. /\ op \in 1..Len(Program.ops) /\ p = Program.ops[op].pid /\ p \in Resets[firing]
        /\ taken = queues[p] /\ op' = op + 1
    BY <1>3, <1>10 DEF OpTakes
  <2>2. PICK ops, n : ops = Program.ops /\ n = Len(ops)
    OBVIOUS
  <2>3. n \in Nat
    BY <1>2, <2>2, ProgramLengths DEF Program
  <2>4. StillToTake[q] = IF \E i \in op..n : ops[i].pid = q THEN Len(queues[q]) ELSE 0
    BY <1>10, <2>2, StillResetting
  <2>5. StillToTake'[q] = IF \E i \in (op + 1)..n : ops[i].pid = q THEN Len(queues'[q]) ELSE 0
    <3>1. (ToDrain(q))' <=> \E i \in (op + 1)..n : ops[i].pid = q
      BY <1>2, <1>10, <2>1, <2>2 DEF ToDrain, Program
    <3>2. ~(ToTake(q))'
      BY <1>2, <1>10 DEF ToTake
    <3> QED
      BY <3>1, <3>2 DEF StillToTake
  <2>6. CASE q # p
    <3>1. (\E i \in (op + 1)..n : ops[i].pid = q) <=> (\E i \in op..n : ops[i].pid = q)
      <4>1. \A i \in op..n : i = op \/ i \in (op + 1)..n
        BY <1>2, <2>3
      <4>2. \A i \in (op + 1)..n : i \in op..n
        BY <1>2, <2>3
      <4> QED
        BY <2>1, <2>2, <2>6, <4>1, <4>2
    <3>2. StillToTake'[q] = StillToTake[q] /\ StillToTake[q] \in Nat
      BY <1>5, <1>6, <2>4, <2>5, <2>6, <3>1
    <3>3. Moved(q, 0)
      BY <1>5, <1>6, <2>6, <3>2 DEF Moved
    <3> QED
      BY <3>3
  <2>7. CASE q = p
    <3>1. Len(queues'[p]) = Len(queues[p]) - Len(taken) /\ Len(taken) = Len(queues[p])
      <4>1. Distinct(taken) /\ Ids(taken) \subseteq Ids(queues[p])
        BY <1>6, <2>1
      <4>2. Len(Without(queues[p], taken)) = Len(queues[p]) - Len(taken)
        BY <1>6, <4>1, WithoutCount
      <4>3. Len(taken) = Len(queues[p])
        BY <2>1
      <4> QED
        BY <1>5, <4>2, <4>3
    <3>2. StillToTake[q] = Len(queues[p])
      <4>1. op \in op..n
        BY <1>2, <2>1, <2>2
      <4> QED
        BY <2>1, <2>2, <2>4, <2>7, <4>1
    <3>3. StillToTake'[q] = 0
      BY <1>6, <2>5, <2>7, <3>1
    <3>4. Moved(q, Len(taken))
      <4>1. StillToTake'[q] = StillToTake[q] - Len(taken)
        BY <1>6, <3>1, <3>2, <3>3
      <4> QED
        BY <1>7, <2>7, <3>1, <4>1 DEF Moved
    <3> QED
      BY <1>6, <3>4
  <2> QED
    BY <2>6, <2>7
<1> QED
  BY <1>9, <1>10 DEF ExecuteOp

\* What an opcode takes the net has taken already.
LEMMA OpHidden ==
  ASSUME PlayInvariant, PlayInvariant', ExecuteOp
  PROVE  UNCHANGED <<netMarking, Firings, netHeld>>
<1>1. TypeOK /\ TypeOK' /\ PhaseOK /\ DepositOwned
  BY DEF PlayInvariant, FlatInvariant, HostInvariant
<1>2. /\ firing \in Transitions /\ UNCHANGED <<pc, flight, firing, produced>>
      /\ \E p \in ConsumptionPlaces(firing), taken \in Seq(Token) : p \in Places /\ OpTakes(p, taken)
  BY <1>1, OpEffect
<1>3. pc \in {"consume", "reset"}
  BY DEF ExecuteOp
<1>4. ~NotTaking /\ ~NotTaking' /\ Firings' = Firings
  BY <1>2, <1>3 DEF NotTaking, Firings, InFlight
<1>5. /\ queues \in [Places -> Seq(Token)]
      /\ consumed \in [Transitions -> [Places -> Seq(Token)]]
  BY <1>1 DEF TypeOK, TokensTyped, FlightsTyped
<1>6. ASSUME NEW q \in Places
      PROVE  netMarking'[q] = netMarking[q] /\ netHeld'[firing][q] = netHeld[firing][q]
  <2>1. PICK d \in Nat : Moved(q, d)
    BY OpMoves
  <2>2. Len(queues[q]) \in Nat /\ Len(consumed[firing][q]) \in Nat
    BY <1>2, <1>5, LenProperties
  <2>3. StillToTake[q] \in Int
    <3>1. CASE pc = "consume"
      <4>1. Pending(q) => q \in InputPlaces(firing)
        BY <1>1, <3>1, PendingInput
      <4>2. q \in InputPlaces(firing) => Len(Takes(firing, q)) \in Nat
        BY <1>1, <1>2, <1>5, TakesDistinct DEF PlayInvariant, UniqueTokens, Unique
      <4> QED
        BY <2>2, <3>1, <4>1, <4>2, StillConsuming
    <3>2. CASE pc = "reset"
      BY <2>2, <3>2, StillResetting
    <3> QED
      BY <1>3, <3>1, <3>2
  <2>4. netMarking[q] = Len(queues[q]) - StillToTake[q] /\ netHeld[firing][q] = Len(consumed[firing][q]) + StillToTake[q]
    BY <1>1, <1>2, <1>4, <2>2, <2>3, TakingShown
  <2>5. PICK x, y, z : x = Len(queues[q]) /\ y = StillToTake[q] /\ z = Len(consumed[firing][q])
    OBVIOUS
  <2>6. /\ netMarking'[q] = Len(queues'[q]) - StillToTake'[q] - produced'[q] /\ produced'[q] = 0
        /\ netHeld'[firing][q] = Len(consumed'[firing][q]) + StillToTake'[q]
    BY <1>1, <1>2, <1>3, <1>4 DEF netMarking, netHeld, DepositOwned, None, Firings
  <2>7. x \in Int /\ y \in Int /\ z \in Int
    BY <2>2, <2>3, <2>5
  <2>8. netMarking'[q] = x - d - (y - d) - 0 /\ netHeld'[firing][q] = z + d + (y - d)
    BY <2>1, <2>5, <2>6 DEF Moved
  <2>9. netMarking[q] = x - y /\ netHeld[firing][q] = z + y
    BY <2>4, <2>5
  <2> QED
    BY <2>7, <2>8, <2>9
<1>7. ASSUME NEW u \in Transitions, u # firing PROVE netHeld'[u] = netHeld[u]
  <2>1. consumed'[u] = consumed[u]
    BY <1>2, <1>5, <1>7 DEF OpTakes
  <2> QED
    BY <1>2, <1>4, <1>7, <2>1 DEF netHeld
<1>8. netMarking' = netMarking
  <2>1. netMarking' = [q \in Places |-> netMarking'[q]] /\ netMarking = [q \in Places |-> netMarking[q]]
    BY DEF netMarking
  <2> QED
    BY <1>6, <2>1
<1>9. netHeld' = netHeld
  <2>1. /\ netHeld' = [u \in Transitions |-> netHeld'[u]] /\ netHeld = [u \in Transitions |-> netHeld[u]]
        /\ netHeld'[firing] = [q \in Places |-> netHeld'[firing][q]]
        /\ netHeld[firing] = [q \in Places |-> netHeld[firing][q]]
    BY <1>2 DEF netHeld
  <2>2. netHeld'[firing] = netHeld[firing]
    BY <1>6, <2>1
  <2> QED
    BY <1>7, <2>1, <2>2
<1> QED
  BY <1>4, <1>8, <1>9

-----------------------------------------------------------------------------
(* Start and abort.                                                        *)

AtFirstOp == pc = "consume" /\ op = 1 /\ consumed[firing] = [p \in Places |-> <<>>]

\* What the program is about to take is what the net may take.
ReadyToTake ==
  \A p \in Places :
    /\ StillToTake[p] \in Nat /\ StillToTake[p] <= Len(queues[p]) /\ Len(queues[p]) \in Nat
    /\ IF p \in (Keys[firing] \cap TakesAll[firing]) \ Resets[firing]
       THEN Required[firing][p] <= StillToTake[p]
       ELSE StillToTake[p] = IF p \in ConsumptionPlaces(firing)
                             THEN ConsumptionCount(firing, p, Len(queues[p])) ELSE 0

\* At the first opcode the program is to take from every place what the net allows.
LEMMA FirstOpReady == PlayInvariant /\ AtFirstOp => ReadyToTake
<1> SUFFICES ASSUME PlayInvariant, AtFirstOp, NEW p \in Places
    PROVE  /\ StillToTake[p] \in Nat /\ StillToTake[p] <= Len(queues[p]) /\ Len(queues[p]) \in Nat
           /\ IF p \in (Keys[firing] \cap TakesAll[firing]) \ Resets[firing]
              THEN Required[firing][p] <= StillToTake[p]
              ELSE StillToTake[p] = IF p \in ConsumptionPlaces(firing)
                                    THEN ConsumptionCount(firing, p, Len(queues[p])) ELSE 0
  BY DEF ReadyToTake
<1>1. /\ TypeOK /\ PhaseOK /\ FiringSupplied /\ pc = "consume" /\ op = 1
      /\ queues \in [Places -> Seq(Token)] /\ Distinct(queues[p])
      /\ consumed \in [Transitions -> [Places -> Seq(Token)]] /\ Len(consumed[firing][p]) = 0
  BY EmptySeq DEF PlayInvariant, FlatInvariant, AtFirstOp, TypeOK, TokensTyped, FlightsTyped, UniqueTokens, Unique
<1>2. PICK t : t = firing
  OBVIOUS
<1>3. t \in Transitions /\ Required[t][p] \in Nat
  BY <1>1, <1>2, ArcsTyped DEF PhaseOK, FiringPcs
<1>4. Pending(p) <=> p \in InputPlaces(t)
  <2>1. Pending(p) => p \in InputPlaces(t)
    BY <1>1, <1>2, PendingInput
  <2>2. p \in InputPlaces(t) => Pending(p)
    BY <1>1, <1>2, <1>3, SpecsExact DEF Pending
  <2> QED
    BY <2>1, <2>2
<1>5. Len(queues[p]) \in Nat /\ queues[p] \in Seq(Token)
  BY <1>1, LenProperties
<1>6. StillToTake[p] = IF p \in Resets[t] THEN Len(queues[p])
                       ELSE IF p \in InputPlaces(t) THEN Len(Takes(t, p)) ELSE 0
  BY <1>1, <1>2, <1>4, StillConsuming
<1>7. CASE p \in Resets[t]
  BY <1>2, <1>5, <1>6, <1>7 DEF ConsumptionPlaces, ConsumptionCount
<1>8. CASE p \notin Resets[t] /\ p \notin InputPlaces(t)
  <2>1. p \notin Keys[t]
    BY <1>3, <1>8, ArcsTyped
  <2> QED
    BY <1>2, <1>5, <1>6, <1>8, <2>1 DEF ConsumptionPlaces
<1>9. CASE p \notin Resets[t] /\ p \in InputPlaces(t)
  <2>1. Pending(p) /\ Len(Pool(t, p)) \in Nat
    <3>1. Pool(t, p) \in Seq(Token)
      BY <1>1, <1>3, <1>9, TakenByInput
    <3> QED
      BY <1>4, <1>9, <3>1, LenProperties
  <2>2. Len(Pool(t, p)) >= Required[t][p]
    <3>1. 0 + Len(Pool(t, p)) >= Required[t][p]
      BY <1>1, <1>2, <1>9, <2>1, PoolSupplied
    <3> QED
      BY <1>3, <2>1, <3>1
  <2>3. /\ p \in TakesAll[t] => Len(Takes(t, p)) = Len(Pool(t, p))
        /\ p \notin TakesAll[t] => Len(Takes(t, p)) = Required[t][p]
    <3>1. /\ p \in TakesAll[t] => Len(Takes(t, p)) = Len(Pool(t, p))
          /\ p \notin TakesAll[t] => Len(Takes(t, p)) = Required[t][p] - 0
      BY <1>1, <1>2, <1>9, <2>1, DueKnown DEF DueCounted
    <3> QED
      BY <1>3, <3>1
  <2>5. Len(Takes(t, p)) \in Nat /\ Len(Takes(t, p)) <= Len(queues[p])
    BY <1>1, <1>3, <1>9, TakesDistinct
  <2>6. StillToTake[p] = Len(Takes(t, p)) /\ p \in ConsumptionPlaces(t)
    BY <1>6, <1>9 DEF ConsumptionPlaces
  <2>7. Len(Takes(t, p)) >= Required[t][p]
    BY <1>3, <2>2, <2>3
  <2>8. CASE p \in TakesAll[t] /\ p \in Keys[t]
    BY <1>2, <1>3, <1>5, <1>9, <2>5, <2>6, <2>7, <2>8
  <2>9. CASE p \in TakesAll[t] /\ p \notin Keys[t]
    <3>1. Pool(t, p) = queues[p]
      BY <2>9 DEF Pool
    <3>2. Len(Takes(t, p)) = Len(queues[p])
      BY <2>3, <2>9, <3>1
    <3> QED
      BY <1>2, <1>5, <1>9, <2>6, <2>9, <3>2 DEF ConsumptionCount
  <2>10. CASE p \notin TakesAll[t]
    <3>2. Len(Takes(t, p)) = Required[t][p]
      BY <2>3, <2>10
    <3>3. ~(Len(queues[p]) < Required[t][p])
      BY <1>3, <1>5, <2>5, <3>2
    <3> QED
      BY <1>2, <1>3, <1>5, <1>9, <2>5, <2>6, <2>10, <3>2, <3>3 DEF ConsumptionCount
  <2> QED
    BY <2>8, <2>9, <2>10
<1> QED
  BY <1>7, <1>8, <1>9

\* A firing begins where the net may start it, and takes what the net may take.
LEMMA BeginIsStart ==
  ASSUME PlayInvariant, PlayInvariant', NEW t \in Transitions, FireBegin(t)
  PROVE  Net!Start(t)
<1>1. /\ TypeOK /\ TypeOK' /\ PhaseOK /\ BitsExact /\ MatchersExact /\ IdleHoldsNothing
      /\ DepositOwned /\ TerminalLatched
  BY DEF PlayInvariant, FlatInvariant, HostInvariant
<1>2. /\ pc = "fire" /\ pc' = "consume" /\ op' = 1 /\ firing' = t /\ t \in ready
      /\ canEnable(t, bits) /\ UNCHANGED <<queues, flight, consumed, produced>>
  BY DEF FireBegin, IsNext
<1>3. Quiet /\ NotTaking /\ ~NotTaking'
  BY <1>2 DEF Quiet, NotTaking
<1>4. t \notin InFlight /\ flight[t] = "idle"
  BY <1>1, <1>2 DEF PhaseOK, InFlight
<1>5. t \notin Firings /\ Firings' = Firings \cup {t}
  BY <1>2, <1>4 DEF Firings, InFlight
<1>6. Net!Running
  <2>1. ~life.terminal
    BY <1>1, <1>2 DEF TerminalLatched
  <2> QED
    BY <1>1, <1>2, <1>3, <2>1, NetRunning
<1>7. netMarking = Counts(queues) /\ ShownHeld
  BY <1>1, <1>3, MarkingShown, HeldShown DEF ShownMarking
<1>8. Net!ArcsSatisfied(t, netMarking)
  <2>1. CallsFor(t)
    BY <1>1, <1>2, TestExact
  <2> QED
    BY <1>7, <2>1, SameOperators DEF CallsFor
<1>9. ReadyToTake'
  <2>1. consumed[t] = [p \in Places |-> <<>>]
    BY <1>1, <1>2, <1>4 DEF IdleHoldsNothing, FiringPcs, PhaseOK
  <2>2. AtFirstOp'
    BY <1>2, <2>1 DEF AtFirstOp
  <2> QED
    BY <2>2, FirstOpReady, PTL
<1>10. ASSUME NEW p \in Places
       PROVE  /\ StillToTake'[p] \in Nat /\ StillToTake'[p] <= Len(queues[p]) /\ Len(queues[p]) \in Nat
              /\ IF p \in (Keys[t] \cap TakesAll[t]) \ Resets[t]
                 THEN Required[t][p] <= StillToTake'[p]
                 ELSE StillToTake'[p] = IF p \in ConsumptionPlaces(t)
                                        THEN ConsumptionCount(t, p, Len(queues[p])) ELSE 0
  BY <1>2, <1>9 DEF ReadyToTake
<1>11. ASSUME NEW p \in Places
       PROVE  /\ netMarking[p] = Len(queues[p]) /\ netMarking'[p] = Len(queues[p]) - StillToTake'[p]
              /\ netMarking'[p] \in Nat /\ netMarking[p] - netMarking'[p] = StillToTake'[p]
  <2>1. netMarking[p] = Len(queues[p])
    BY <1>7 DEF Counts
  <2>2. netMarking'[p] = Len(queues[p]) - StillToTake'[p] - 0
    BY <1>1, <1>2 DEF netMarking, DepositOwned, None
  <2> QED
    BY <1>10, <2>1, <2>2
<1>12. netMarking' \in [Places -> Nat]
  BY <1>11 DEF netMarking
<1>13. ASSUME NEW p \in Places PROVE Net!MayTake(t, p, netMarking[p] - netMarking'[p])
  <2>1. /\ Net!ConsumptionPlaces(t) = ConsumptionPlaces(t)
        /\ Net!ConsumptionCount(t, p, Len(queues[p])) = ConsumptionCount(t, p, Len(queues[p]))
    BY SameOperators
  <2>2. netMarking[p] - netMarking'[p] = StillToTake'[p] /\ netMarking[p] = Len(queues[p])
    BY <1>11
  <2> QED
    BY <1>10, <2>1, <2>2 DEF Net!MayTake
<1>14. consumed[t] = [p \in Places |-> <<>>]
  BY <1>1, <1>2, <1>4 DEF IdleHoldsNothing, FiringPcs, PhaseOK
<1>15. netHeld' = [netHeld EXCEPT ![t] = Net!Minus(netMarking, netMarking')]
  <2>1. Net!Minus(netMarking, netMarking') = [p \in Places |-> netMarking[p] - netMarking'[p]]
    BY DEF Net!Minus
  <2>2. netHeld'[t] = [p \in Places |-> netMarking[p] - netMarking'[p]]
    <3>1. netHeld'[t] = [p \in Places |-> Len(consumed'[t][p]) + StillToTake'[p]]
      BY <1>2, <1>5 DEF netHeld
    <3>2. ASSUME NEW p \in Places PROVE Len(consumed'[t][p]) + StillToTake'[p] = netMarking[p] - netMarking'[p]
      BY <1>2, <1>10, <1>11, <1>14
    <3> QED
      BY <3>1, <3>2
  <2>3. ASSUME NEW u \in Transitions, u # t PROVE netHeld'[u] = netHeld[u]
    <3>1. netHeld[u] = [p \in Places |-> IF u \notin Firings THEN 0 ELSE Len(consumed[u][p])]
      BY <1>7 DEF ShownHeld
    <3>2. netHeld'[u] = [p \in Places |-> IF u \notin Firings' THEN 0 ELSE Len(consumed'[u][p]) + 0]
      BY <1>2, <2>3 DEF netHeld
    <3>3. \A p \in Places : Len(consumed[u][p]) \in Nat
      BY <1>1, LenProperties DEF TypeOK, FlightsTyped
    <3>4. (u \in Firings' <=> u \in Firings) /\ consumed' = consumed
      BY <1>2, <1>5, <2>3
    <3> QED
      BY <3>1, <3>2, <3>3, <3>4
  <2>4. netHeld' = [u \in Transitions |-> netHeld'[u]] /\ netHeld = [u \in Transitions |-> netHeld[u]]
    BY DEF netHeld
  <2> QED
    BY <2>1, <2>2, <2>3, <2>4
<1> QED
  BY <1>5, <1>6, <1>8, <1>12, <1>13, <1>15 DEF Net!Start

\* A firing that throws leaves in the queues what it had not taken.
LEMMA ThrowIsAbort ==
  ASSUME PlayInvariant, PlayInvariant', FireThrow
  PROVE  \E t \in Transitions : Net!Abort(t)
<1>1. TypeOK /\ TypeOK' /\ PhaseOK /\ DepositOwned /\ DepositOwned' /\ TakesFromInputs
  BY DEF PlayInvariant, FlatInvariant, HostInvariant
<1>2. /\ pc \in {"consume", "reset", "start"} /\ pc' = "fire" /\ UNCHANGED <<queues, flight, produced>>
      /\ firing \in MayThrow
      /\ consumed' = [consumed EXCEPT ![firing] = [p \in Places |-> <<>>]]
  BY DEF FireThrow
<1>3. PICK t : t = firing
  OBVIOUS
<1>4. /\ t \in Transitions /\ t \notin InFlight
      /\ queues \in [Places -> Seq(Token)] /\ consumed \in [Transitions -> [Places -> Seq(Token)]]
  BY <1>1, <1>2, <1>3 DEF PhaseOK, FiringPcs, TypeOK, TokensTyped, FlightsTyped
<1>5. t \in Firings /\ Firings' = Firings \ {t}
  BY <1>2, <1>3, <1>4 DEF Firings, InFlight
<1>6. Quiet' /\ NotTaking'
  BY <1>2 DEF Quiet, NotTaking
<1>7. Net!Finish(t)
  <2>1. \A u \in Transitions : u # t => consumed'[u] = consumed[u]
    BY <1>2, <1>3, <1>4
  <2> QED
    BY <1>1, <1>3, <1>4, <1>5, <1>6, <2>1, FinishShown
<1>8. netMarking' = Counts(queues)
  <2>1. ShownMarking'
    BY <1>1, <1>6, MarkingShown, PTL
  <2> QED
    BY <1>2, <2>1 DEF ShownMarking, Counts
<1>9. ASSUME NEW p \in Places
      PROVE  /\ netMarking'[p] \in Nat
             /\ Net!GivenBack(t, p, netMarking'[p] - netMarking[p])
  <2>1. PICK q, y, c : q = Len(queues[p]) /\ y = StillToTake[p] /\ c = Len(consumed[t][p])
    OBVIOUS
  <2>2. q \in Nat /\ c \in Nat
    BY <1>4, <2>1, LenProperties
  <2>3. netMarking'[p] = q /\ netMarking[p] = q - y - 0 /\ netHeld[t][p] = c + y
    BY <1>1, <1>2, <1>3, <1>4, <1>5, <1>8, <2>1 DEF Counts, netMarking, netHeld, DepositOwned, None
  <2>4. /\ y \in Nat
        /\ y = 0 \/ c = 0 \/ p \in InputPlaces(t)
    <3>1. CASE pc = "start"
      <4>1. y = 0
        BY <1>1, <2>1, <3>1, HeldShown DEF NotTaking, ShownHeld
      <4> QED
        BY <4>1
    <3>2. CASE pc = "consume"
      <4>1. y = IF p \in Resets[t] THEN q ELSE IF Pending(p) THEN Len(Takes(t, p)) ELSE 0
        BY <1>3, <2>1, <3>2, StillConsuming
      <4>2. Pending(p) => p \in InputPlaces(t) /\ Len(Takes(t, p)) \in Nat
        <5>1. Pending(p) => p \in InputPlaces(t)
          BY <1>1, <1>3, <3>2, PendingInput
        <5>2. p \in InputPlaces(t) => Len(Takes(t, p)) \in Nat
          BY <1>4, TakesDistinct DEF PlayInvariant, FlatInvariant, UniqueTokens, Unique
        <5> QED
          BY <5>1, <5>2
      <4>3. p \notin InputPlaces(t) => c = 0
        BY <1>1, <1>3, <2>1, <3>2, EmptySeq DEF TakesFromInputs, Consuming
      <4> QED
        BY <2>2, <4>1, <4>2, <4>3
    <3>3. CASE pc = "reset"
      <4>1. ToDrain(p) /\ p \notin InputPlaces(t) => c = 0
        BY <1>1, <1>3, <2>1, <3>3, EmptySeq DEF TakesFromInputs, Consuming
      <4>2. y = IF ToDrain(p) THEN q ELSE 0
        BY <2>1, <3>3 DEF StillToTake, ToTake
      <4> QED
        BY <2>2, <4>1, <4>2
    <3> QED
      BY <1>2, <3>1, <3>2, <3>3
  <2>5. netMarking'[p] - netMarking[p] = y
    BY <2>2, <2>3, <2>4
  <2>6. y = 0 \/ y = netHeld[t][p] \/ (p \in InputPlaces(t) /\ 0 <= y /\ y <= netHeld[t][p])
    BY <2>2, <2>3, <2>4
  <2> QED
    BY <2>2, <2>3, <2>5, <2>6, SameOperators DEF Net!GivenBack
<1>10. netMarking' \in [Places -> Nat]
  BY <1>8, <1>9 DEF Counts
<1>11. Net!Abort(t)
  <2>1. t \in Faulty
    BY <1>2, <1>3 DEF Faulty
  <2> QED
    BY <1>7, <1>9, <1>10, <2>1 DEF Net!Abort
<1> QED
  BY <1>4, <1>11

-----------------------------------------------------------------------------
(* The theorem.                                                            *)

\* Every step of the executor is a step of the net or leaves the net as it is.
LEMMA NetStep == PlayInvariant /\ PlayInvariant' /\ [Next]_vars => [Net!NetNext]_(Net!netVars)
<1> SUFFICES ASSUME PlayInvariant, PlayInvariant', [Next]_vars
             PROVE  Net!NetNext \/ UNCHANGED <<netMarking, Firings, netHeld>>
  BY DEF Net!netVars
<1>1. TypeOK /\ TypeOK' /\ PhaseOK /\ PhaseOK' /\ DepositOwned /\ DepositOwned'
  BY DEF PlayInvariant, FlatInvariant, HostInvariant
<1>2. ASSUME NEW t \in Transitions, FireBegin(t) PROVE Net!NetNext
  BY <1>2, BeginIsStart, SameOperators DEF Net!NetNext
<1>3. ASSUME CompletionEnds, SettleCompletion \/ DepositThrow PROVE Net!NetNext
  <2>1. firing \in Transitions
    BY <1>3, EndingShown
  <2> QED
    BY <1>3, <2>1, SettleIsComplete, DepositThrowIsCutShort, SameOperators DEF Net!NetNext
<1>4. ASSUME NEW t \in Transitions, CompleteFailed(t) PROVE Net!NetNext
  BY <1>4, FailedIsFail, SameOperators DEF Net!NetNext
<1>5. CASE FireThrow
  BY <1>5, ThrowIsAbort, SameOperators DEF Net!NetNext
<1>6. CASE Admit
  BY <1>6, AdmitIsArrive DEF Net!NetNext
<1>7. CASE \/ ExecuteOp \/ PeekReads \/ FireStart \/ FireRegister \/ Deposit
           \/ \E t \in Transitions : CompleteOk(t)
  BY <1>7, OpHidden, PeekHidden, StartHidden, RegisterHidden, DepositHidden, OkHidden
<1>8. ASSUME NEW t \in Transitions, ActionSettles(t) PROVE UNCHANGED <<netMarking, Firings, netHeld>>
  <2>1. /\ UNCHANGED <<pc, queues, consumed, firing>> /\ Yielded /\ flight[t] = "running"
        /\ flight' = [flight EXCEPT ![t] = "failed"] \/ flight' = [flight EXCEPT ![t] = "done"]
    BY <1>8 DEF ActionSettles
  <2>2. flight \in [Transitions -> {"idle", "running", "done", "failed"}]
    BY <1>1 DEF TypeOK, FlightsTyped
  <2>3. Firings' = Firings /\ Quiet /\ Quiet'
    BY <2>1, <2>2 DEF Firings, InFlight, Quiet, Yielded
  <2> QED
    BY <1>1, <2>1, <2>3, HiddenQuiet
<1>9. ASSUME UNCHANGED <<queues, flight, consumed>>,
             pc \notin {"consume", "reset", "start", "deposit"}, pc' \notin {"consume", "reset", "start", "deposit"}
      PROVE  UNCHANGED <<netMarking, Firings, netHeld>>
  <2>1. Firings' = Firings /\ Quiet /\ Quiet'
    BY <1>9 DEF Firings, InFlight, Quiet
  <2> QED
    BY <1>1, <1>9, <2>1, HiddenQuiet
<1>10. CASE Waits
  <2>1. /\ UNCHANGED <<queues, flights, pass>>
        /\ \/ pc' = pc
           \/ pc \in {"fire", "await", "flush", "parked"} /\ pc' \in {"completions", "await", "flush", "parked"}
    BY <1>10, WaitsFrame
  <2> QED
    BY <1>9, <2>1, HiddenFrame
<1>11. CASE \/ Run \/ BeginExternal \/ AdmitThrow \/ EndExternal \/ updateDirtyTransitions \/ enforceDeadlines
            \/ Decide \/ Exit
  <2>1. /\ UNCHANGED <<queues, flight, consumed>>
        /\ pc \in {"new", "completions", "external", "update", "deadlines", "decide", "exit"}
        /\ pc' \in {"completions", "external", "update", "deadlines", "decide", "fire", "exit", "ended"}
    BY <1>11 DEF Run, BeginExternal, AdmitThrow, EndExternal, updateDirtyTransitions, enforceDeadlines, Decide, Exit
  <2> QED
    BY <1>9, <2>1
<1>12. ASSUME NEW t \in Transitions, FireSkip(t) PROVE UNCHANGED <<netMarking, Firings, netHeld>>
  <2>1. UNCHANGED <<pc, queues, flight, consumed, matched, firing, op, produced>>
    BY <1>12 DEF FireSkip
  <2> QED
    BY <2>1, HiddenFrame
<1>13. ASSUME NEW p \in EnvPlaces, NEW n \in Names \cup {NoName}, Inject(p, n)
       PROVE  UNCHANGED <<netMarking, Firings, netHeld>>
  <2>1. UNCHANGED <<pc, queues, flight, consumed, matched, firing, op, produced>>
    BY <1>13 DEF Inject
  <2> QED
    BY <2>1, HiddenFrame
<1> QED
  BY <1>2, <1>3, <1>4, <1>5, <1>6, <1>7, <1>8, <1>10, <1>11, <1>12, <1>13, StepCases

\* The initial states of the executor are initial states of the net.
LEMMA NetStart == Init => Net!NetInit
<1> SUFFICES ASSUME Init PROVE Net!NetInit
  OBVIOUS
<1>1. TypeOK /\ DepositOwned
  BY InitHolds, HostInit DEF FlatInvariant, HostInvariant
<1>2. /\ pc = "new" /\ queues \in InitialQueues /\ flight = [t \in Transitions |-> "idle"]
  BY DEF Init
<1>3. Quiet /\ NotTaking /\ Firings = {}
  BY <1>2 DEF Quiet, NotTaking, Firings, InFlight
<1>4. netMarking = Counts(queues)
  BY <1>1, <1>3, MarkingShown DEF ShownMarking
<1>5. netHeld = [t \in Transitions |-> [p \in Places |-> 0]]
  BY <1>1, <1>3, HeldShown DEF ShownHeld
<1> QED
  BY <1>2, <1>3, <1>4, <1>5, SameOperators DEF Net!NetInit

\* The flat-array executor plays the token game: whatever its opcode programs, match caches,
\* callbacks and failures do, every behaviour of precompiled-net-executor.ts is one of the net.
THEOREM PlaysTheTokenGame == Spec => PlaysTheNet
<1>1. Net!NetInit /\ [][Net!NetNext]_(Net!netVars) => PlaysTheNet
  BY DEF PlaysTheNet, Net!NetSpec
<1> QED
  BY <1>1, NetStart, NetStep, PlayInvariantHolds, PTL DEF Spec
=============================================================================
