---------------------------- MODULE DebugUIProofs ----------------------------
(***************************************************************************)
(* The debug client keeps the equations of its net, for every server,      *)
(* every session history, every order of callbacks and any number of       *)
(* throws: the session is in one phase, the router never loses its permit, *)
(* and when the executor rests nothing waits that it could have worked off.*)
(***************************************************************************)
EXTENDS DebugUI, SequenceTheorems, TLAPS

-----------------------------------------------------------------------------
(* Queues.                                                                 *)

\* A sequence, of whatever values.
IsQueue(s) == \E S : s \in Seq(S)

\* Every element of s is v.
HoldsOnly(s, v) == \A i \in DOMAIN s : s[i] = v

\* Its length, and that only the empty one has none.
LEMMA QueueLength ==
  ASSUME NEW s, IsQueue(s)
  PROVE  Len(s) \in Nat /\ (Len(s) = 0 <=> s = <<>>) /\ DOMAIN s = 1..Len(s)
<1>1. PICK S : s \in Seq(S)
  BY DEF IsQueue
<1> QED
  BY <1>1, LenProperties, EmptySeq

\* The empty sequence is one.
LEMMA QueueEmpty == IsQueue(<<>>) /\ Len(<<>>) = 0 /\ \A v : HoldsOnly(<<>>, v)
<1>1. <<>> \in Seq({})
  OBVIOUS
<1> QED
  BY <1>1 DEF IsQueue, HoldsOnly

\* A value added at the end.
LEMMA QueueAppend ==
  ASSUME NEW s, IsQueue(s), NEW x
  PROVE  /\ IsQueue(Append(s, x)) /\ Len(Append(s, x)) = Len(s) + 1
         /\ \A v : HoldsOnly(s, v) /\ x = v => HoldsOnly(Append(s, x), v)
<1>1. PICK S : s \in Seq(S)
  BY DEF IsQueue
<1>2. s \in Seq(S \cup {x}) /\ x \in S \cup {x}
  BY <1>1
<1> DEFINE T == S \cup {x}
<1>3. /\ Append(s, x) \in Seq(T) /\ Len(Append(s, x)) = Len(s) + 1
      /\ \A i \in 1..Len(s) : Append(s, x)[i] = s[i]
      /\ Append(s, x)[Len(s) + 1] = x
  <2> HIDE DEF T
  <2> QED
    BY <1>2, AppendProperties DEF T
<1>4. DOMAIN Append(s, x) = 1..(Len(s) + 1) /\ DOMAIN s = 1..Len(s) /\ Len(s) \in Nat
  BY <1>1, <1>3, LenProperties
<1> QED
  BY <1>3, <1>4 DEF IsQueue, HoldsOnly

\* One value alone.
LEMMA SingletonQueue ==
  ASSUME NEW x
  PROVE  IsQueue(<<x>>) /\ Len(<<x>>) = 1
<1>1. <<x>> \in Seq({x})
  OBVIOUS
<1> QED
  BY <1>1 DEF IsQueue

\* The first value.
LEMMA QueueHead ==
  ASSUME NEW s, IsQueue(s), s # <<>>
  PROVE  Head(s) = s[1]
<1>1. PICK S : s \in Seq(S)
  BY DEF IsQueue
<1> QED
  BY <1>1, HeadTailProperties

\* The first value taken away.
LEMMA QueueTail ==
  ASSUME NEW s, IsQueue(s), s # <<>>
  PROVE  /\ IsQueue(Tail(s)) /\ Len(Tail(s)) = Len(s) - 1
         /\ \A v : HoldsOnly(s, v) => HoldsOnly(Tail(s), v)
<1>1. PICK S : s \in Seq(S)
  BY DEF IsQueue
<1>2. /\ Tail(s) \in Seq(S) /\ Len(Tail(s)) = Len(s) - 1
      /\ \A i \in 1..Len(Tail(s)) : Tail(s)[i] = s[i + 1]
  BY <1>1, HeadTailProperties
<1>3. DOMAIN Tail(s) = 1..Len(Tail(s)) /\ DOMAIN s = 1..Len(s) /\ Len(s) \in Nat
  BY <1>1, <1>2, LenProperties
<1> QED
  BY <1>2, <1>3 DEF IsQueue, HoldsOnly

\* One queue after the other.
LEMMA QueueConcat ==
  ASSUME NEW s, NEW r, IsQueue(s), IsQueue(r)
  PROVE  /\ IsQueue(s \o r) /\ Len(s \o r) = Len(s) + Len(r)
         /\ \A v : HoldsOnly(s, v) /\ HoldsOnly(r, v) => HoldsOnly(s \o r, v)
<1>1. PICK S : s \in Seq(S)
  BY DEF IsQueue
<1>2. PICK R : r \in Seq(R)
  BY DEF IsQueue
<1>3. s \in Seq(S \cup R) /\ r \in Seq(S \cup R)
  BY <1>1, <1>2
<1>4. /\ s \o r \in Seq(S \cup R) /\ Len(s \o r) = Len(s) + Len(r)
      /\ \A i \in 1..(Len(s) + Len(r)) : (s \o r)[i] = IF i <= Len(s) THEN s[i] ELSE r[i - Len(s)]
  BY <1>3, ConcatProperties
<1>5. /\ DOMAIN (s \o r) = 1..(Len(s) + Len(r)) /\ DOMAIN s = 1..Len(s) /\ DOMAIN r = 1..Len(r)
      /\ Len(s) \in Nat /\ Len(r) \in Nat
  BY <1>1, <1>2, <1>4, LenProperties
<1> QED
  BY <1>4, <1>5 DEF IsQueue, HoldsOnly

-----------------------------------------------------------------------------
(* The executor's cycle.                                                   *)

\* A queue in every place.
Queues(f) == f = [p \in UIPlaces |-> f[p]] /\ \A p \in UIPlaces : IsQueue(f[p])

\* What is still to start can start, and the executor rests only when nothing can.
Agenda ==
  /\ ready \subseteq EnabledTransitions(m, Awaiting)
  /\ AtRest => produced = Nothing /\ EnabledTransitions(m, Awaiting) = {}
  /\ Awaiting \subseteq {"t_render_dot", "t_toggle_subnets"}

\* No token is lost between what a transition left and produced and the next marking.
LEMMA CycleCounts ==
  ASSUME NEW mk, NEW prod, NEW rest, NEW busy, Queues(mk), Queues(prod), Cycle(mk, prod, rest, busy)
  PROVE  /\ Queues(m') /\ Queues(produced')
         /\ \A p \in UIPlaces : Tokens(p)' = Len(mk[p]) + Len(prod[p])
         /\ \A p \in UIPlaces : \A v : HoldsOnly(mk[p], v) /\ HoldsOnly(prod[p], v) =>
              HoldsOnly(m'[p], v) /\ HoldsOnly(produced'[p], v)
<1>1. CASE rest = {}
  <2>1. /\ m' = [p \in UIPlaces |-> mk[p] \o prod[p]]
        /\ produced' = [p \in UIPlaces |-> <<>>]
    BY <1>1 DEF Cycle, Deposit, Nothing
  <2>2. \A p \in UIPlaces : m'[p] = mk[p] \o prod[p] /\ produced'[p] = <<>>
    BY <2>1
  <2>3. ASSUME NEW p \in UIPlaces
        PROVE  /\ IsQueue(m'[p]) /\ IsQueue(produced'[p])
               /\ Tokens(p)' = Len(mk[p]) + Len(prod[p])
               /\ \A v : HoldsOnly(mk[p], v) /\ HoldsOnly(prod[p], v) =>
                    HoldsOnly(m'[p], v) /\ HoldsOnly(produced'[p], v)
    <3>1. IsQueue(mk[p]) /\ IsQueue(prod[p])
      BY DEF Queues
    <3>2. /\ IsQueue(m'[p]) /\ Len(m'[p]) = Len(mk[p]) + Len(prod[p])
          /\ \A v : HoldsOnly(mk[p], v) /\ HoldsOnly(prod[p], v) => HoldsOnly(m'[p], v)
      BY <2>2, <3>1, QueueConcat
    <3>3. IsQueue(produced'[p]) /\ Len(produced'[p]) = 0 /\ \A v : HoldsOnly(produced'[p], v)
      BY <2>2, QueueEmpty
    <3>4. Len(mk[p]) \in Nat /\ Len(prod[p]) \in Nat
      BY <3>1, QueueLength
    <3> QED
      BY <3>2, <3>3, <3>4 DEF Tokens
  <2>4. m' = [p \in UIPlaces |-> m'[p]] /\ produced' = [p \in UIPlaces |-> produced'[p]]
    BY <2>1
  <2> QED
    BY <2>3, <2>4 DEF Queues
<1>2. CASE rest # {}
  <2>1. m' = mk /\ produced' = prod
    BY <1>2 DEF Cycle
  <2> QED
    BY <2>1 DEF Tokens, Queues
<1> QED
  BY <1>1, <1>2

\* The agenda after a step of the cycle.
LEMMA CycleAgenda ==
  ASSUME NEW mk, NEW prod, NEW rest, NEW busy, Cycle(mk, prod, rest, busy),
         rest \subseteq EnabledTransitions(mk, busy)
  PROVE  /\ ready' \subseteq EnabledTransitions(m', busy)
         /\ ready' = {} => produced' = Nothing /\ EnabledTransitions(m', busy) = {}
  BY DEF Cycle

\* How many tokens an action outputs to p.
Put(outs, p) == IF p \in DOMAIN outs THEN 1 ELSE 0

\* The tokens of two queues after one of them lost and the other gained some.
LEMMA Sums ==
  ASSUME NEW a \in Nat, NEW b \in Nat, NEW c, NEW d, NEW e \in {0, 1}, NEW f \in {0, 1}
  PROVE  /\ c = a - e /\ d = b + f => c + d = (a + b) - e + f
         /\ c \in Nat /\ c <= a /\ d = b + f => c + d <= (a + b) + f
  OBVIOUS

\* What a transition was enabled by, and what its start does to the tokens of every place.
LEMMA StartMoves ==
  ASSUME Queues(m), Queues(produced), Agenda, NEW t, NEW outs, NEW busy, Start(t, outs, busy)
  PROVE  /\ t \in DOMAIN Arcs /\ t \notin Awaiting
         /\ \A p \in Arcs[t].one \cup Arcs[t].all \cup Arcs[t].reads : m[p] # <<>>
         /\ \A p \in Arcs[t].inhibitors : m[p] = <<>>
         /\ Queues(m') /\ Queues(produced')
         /\ \A p \in UIPlaces \ (Arcs[t].all \cup Arcs[t].resets) :
              Tokens(p)' = Tokens(p) - (IF p \in Arcs[t].one THEN 1 ELSE 0) + Put(outs, p)
         /\ \A p \in UIPlaces : Tokens(p)' <= Tokens(p) + Put(outs, p)
         /\ \A p \in UIPlaces : \A v :
              /\ HoldsOnly(m[p], v) /\ HoldsOnly(produced[p], v)
              /\ p \in DOMAIN outs => outs[p] = v
              => HoldsOnly(m'[p], v) /\ HoldsOnly(produced'[p], v)
         /\ ready' \subseteq EnabledTransitions(m', busy)
         /\ ready' = {} => produced' = Nothing /\ EnabledTransitions(m', busy) = {}
<1>1. t \in EnabledTransitions(m, Awaiting)
  BY DEF Start, Turn, Agenda
<1>2. /\ t \in DOMAIN Arcs /\ t \notin Awaiting
      /\ \A p \in Arcs[t].one \cup Arcs[t].all \cup Arcs[t].reads : m[p] # <<>>
      /\ \A p \in Arcs[t].inhibitors : m[p] = <<>>
  BY <1>1, Zenon DEF EnabledTransitions, Enabled, Tested, Marked
<1>3. PICK mk : mk = Consume(m, t)
  OBVIOUS
<1>4. PICK prod : prod = WithOutputs(produced, outs)
  OBVIOUS
<1>5. PICK rest : rest = {u \in ready \ {t} : Enabled(mk, busy, u)}
  OBVIOUS
<1>6. Cycle(mk, prod, rest, busy)
  BY <1>3, <1>4, <1>5, Zenon DEF Start
<1>7. rest \subseteq EnabledTransitions(mk, busy)
  BY <1>5 DEF Agenda, EnabledTransitions
<1>8. ASSUME NEW p \in UIPlaces
      PROVE  /\ IsQueue(mk[p]) /\ IsQueue(m[p]) /\ Len(mk[p]) <= Len(m[p])
             /\ p \notin Arcs[t].all \cup Arcs[t].resets =>
                  Len(mk[p]) = Len(m[p]) - (IF p \in Arcs[t].one THEN 1 ELSE 0)
             /\ \A v : HoldsOnly(m[p], v) => HoldsOnly(mk[p], v)
  <2>1. mk[p] = CASE p \in Arcs[t].one -> Tail(m[p])
                  [] p \in Arcs[t].all \cup Arcs[t].resets -> <<>>
                  [] OTHER -> m[p]
    BY <1>3 DEF Consume
  <2>2. IsQueue(m[p]) /\ Len(m[p]) \in Nat
    BY QueueLength DEF Queues
  <2>3. CASE p \in Arcs[t].one
    <3>1. mk[p] = Tail(m[p]) \/ mk[p] = <<>>
      BY <2>1, <2>3
    <3>2. m[p] # <<>>
      BY <1>2, <2>3
    <3>3. CASE mk[p] = Tail(m[p])
      BY <2>2, <2>3, <3>2, <3>3, QueueTail
    <3>4. CASE mk[p] = <<>>
      <4>1. p \in Arcs[t].all \cup Arcs[t].resets \/ mk[p] = Tail(m[p])
        BY <2>1, <2>3
      <4>2. CASE p \in Arcs[t].all \cup Arcs[t].resets
        BY <2>2, <3>4, <4>2, QueueEmpty
      <4> QED
        BY <3>3, <4>1, <4>2
    <3> QED
      BY <3>1, <3>3, <3>4
  <2>4. CASE p \notin Arcs[t].one /\ p \in Arcs[t].all \cup Arcs[t].resets
    <3>1. mk[p] = <<>>
      BY <2>1, <2>4
    <3> QED
      BY <2>2, <2>4, <3>1, QueueEmpty
  <2>5. CASE p \notin Arcs[t].one /\ p \notin Arcs[t].all \cup Arcs[t].resets
    <3>1. mk[p] = m[p]
      BY <2>1, <2>5
    <3> QED
      BY <2>2, <2>5, <3>1
  <2> QED
    BY <2>3, <2>4, <2>5
<1>9. ASSUME NEW p \in UIPlaces
      PROVE  /\ IsQueue(prod[p]) /\ Len(prod[p]) = Len(produced[p]) + Put(outs, p)
             /\ \A v : HoldsOnly(produced[p], v) /\ (p \in DOMAIN outs => outs[p] = v)
                       => HoldsOnly(prod[p], v)
  <2>1. prod[p] = IF p \in DOMAIN outs THEN Append(produced[p], outs[p]) ELSE produced[p]
    BY <1>4 DEF WithOutputs
  <2>2. IsQueue(produced[p]) /\ Len(produced[p]) \in Nat
    BY QueueLength DEF Queues
  <2>3. CASE p \in DOMAIN outs
    BY <2>1, <2>2, <2>3, QueueAppend DEF Put
  <2>4. CASE p \notin DOMAIN outs
    BY <2>1, <2>2, <2>4 DEF Put
  <2> QED
    BY <2>3, <2>4
<1>10. Queues(mk) /\ Queues(prod)
  <2>1. mk = [p \in UIPlaces |-> mk[p]] /\ prod = [p \in UIPlaces |-> prod[p]]
    BY <1>3, <1>4 DEF Consume, WithOutputs
  <2> QED
    BY <1>8, <1>9, <2>1 DEF Queues
<1>11. /\ Queues(m') /\ Queues(produced')
       /\ \A p \in UIPlaces : Tokens(p)' = Len(mk[p]) + Len(prod[p])
       /\ \A p \in UIPlaces : \A v : HoldsOnly(mk[p], v) /\ HoldsOnly(prod[p], v) =>
            HoldsOnly(m'[p], v) /\ HoldsOnly(produced'[p], v)
  BY <1>6, <1>10, CycleCounts
<1>12. ASSUME NEW p \in UIPlaces
       PROVE  /\ Len(m[p]) \in Nat /\ Len(mk[p]) \in Nat /\ Len(produced[p]) \in Nat
              /\ Tokens(p) = Len(m[p]) + Len(produced[p]) /\ Put(outs, p) \in {0, 1}
  BY <1>8, QueueLength DEF Queues, Tokens, Put
<1>13. /\ ready' \subseteq EnabledTransitions(m', busy)
       /\ ready' = {} => produced' = Nothing /\ EnabledTransitions(m', busy) = {}
  BY <1>6, <1>7, CycleAgenda
<1>14. ASSUME NEW p \in UIPlaces
       PROVE  /\ p \notin Arcs[t].all \cup Arcs[t].resets =>
                   Tokens(p)' = Tokens(p) - (IF p \in Arcs[t].one THEN 1 ELSE 0) + Put(outs, p)
              /\ Tokens(p)' <= Tokens(p) + Put(outs, p)
  <2>1. PICK a : a = Len(m[p])
    OBVIOUS
  <2>2. PICK b : b = Len(produced[p])
    OBVIOUS
  <2>3. PICK c : c = Len(mk[p])
    OBVIOUS
  <2>4. PICK d : d = Len(prod[p])
    OBVIOUS
  <2>5. PICK e : e = IF p \in Arcs[t].one THEN 1 ELSE 0
    OBVIOUS
  <2>6. PICK f : f = Put(outs, p)
    OBVIOUS
  <2>7. a \in Nat /\ b \in Nat /\ c \in Nat /\ e \in {0, 1} /\ f \in {0, 1}
    BY <1>12, <2>1, <2>2, <2>3, <2>5, <2>6
  <2>8. c <= a /\ d = b + f /\ (p \notin Arcs[t].all \cup Arcs[t].resets => c = a - e)
    BY <1>8, <1>9, <2>1, <2>2, <2>3, <2>4, <2>5, <2>6
  <2>9. Tokens(p)' = c + d /\ Tokens(p) = a + b
    BY <1>11, <1>12, <2>1, <2>2, <2>3, <2>4
  <2>10. /\ p \notin Arcs[t].all \cup Arcs[t].resets => c + d = (a + b) - e + f
         /\ c + d <= (a + b) + f
    BY <2>7, <2>8, Sums
  <2> QED
    BY <2>5, <2>6, <2>9, <2>10
<1>16. ASSUME NEW p \in UIPlaces, NEW v, HoldsOnly(m[p], v), HoldsOnly(produced[p], v),
              p \in DOMAIN outs => outs[p] = v
       PROVE  HoldsOnly(m'[p], v) /\ HoldsOnly(produced'[p], v)
  BY <1>8, <1>9, <1>11, <1>16
<1> QED
  BY <1>2, <1>11, <1>13, <1>14, <1>16

-----------------------------------------------------------------------------
(* What a transition moves.                                                *)

Phases == {"noSession", "subscribing", "subscribedSession"}
Permit == {"routerReady", "deadLetter"} \cup Routes
Frames == {"rafTick", "frameHighlight", "frameLog", "frameMarking"}

\* How many tokens t, with outputs to the places of D, adds to a place that it does not empty.
Gain(t, D, p) == (IF p \in D THEN 1 ELSE 0) - (IF p \in Arcs[t].one THEN 1 ELSE 0)

\* The token of places, if t takes it, goes on to one of them.
HandsOn(t, D, places) ==
  \/ Arcs[t].one \cap places = {} /\ D \cap places = {}
  \/ \E a, b \in places : Arcs[t].one \cap places = {a} /\ D \cap places = {b}

\* The equations of the net: t leaves their difference as it is.
KeepsSums(t, D) ==
  /\ Gain(t, D, "subscribedSession") =
       Gain(t, D, "liveSession") + Gain(t, D, "replaySession")
  /\ Gain(t, D, "replaySession") = Gain(t, D, "replayPaused") + Gain(t, D, "replayPlaying")
                                     + Gain(t, D, "breakpointPaused")
  /\ Gain(t, D, "uiState") = Gain(t, D, "subscribedSession")
  /\ Gain(t, D, "breakpoints") = 0 /\ Gain(t, D, "filterState") = 0

\* t asks for a message, a connection or a change of session: no frame is under way then.
Stirs(t) ==
  \/ Tested[t] \cap ({"idle", "wsMessage", "deadLetter"} \cup Routes) # {}
  \/ {"connecting", "wsOpenSignal"} \subseteq Tested[t]
  \/ {"userSelectSession", "subscribedSession", "connected"} \subseteq Tested[t]

\* t brings none of these about, and a frame only from a tick and with the state it found.
Quiet(t, D) ==
  /\ D \cap {"idle", "wsMessage", "wsOpenSignal", "connecting", "connected", "userSelectSession",
             "subscribedSession"} = {}
  /\ Gain(t, D, "uiState") = 0 /\ Gain(t, D, "routerReady") = 0
  /\ D \cap Frames = {} \/ {"rafTick", "uiState"} \subseteq Tested[t]

\* What the arcs of t and its outputs show: it keeps the invariant whenever it starts.
Kept(t, D) ==
  /\ Arcs[t].all \cup Arcs[t].resets \subseteq
       {"rafTick", "highlightDirty", "logDirty", "markingDirty", "svgReady", "selectedPlace"}
  /\ HandsOn(t, D, Permit) /\ HandsOn(t, D, Phases) /\ KeepsSums(t, D)
  /\ (Stirs(t) /\ D \cap Frames = {}) \/ Quiet(t, D)

\* The places of the messages.
LEMMA RoutePlaces ==
  Routes = {"msgSessionList", "msgSubscribed", "msgUnsubscribed", "msgEvent", "msgEventBatch",
            "msgMarkingSnapshot", "msgPlaybackState", "msgFilterApplied", "msgBreakpointHit",
            "msgBreakpointList", "msgBreakpointSet", "msgBreakpointCleared", "msgError",
            "msgArchiveList", "msgArchiveImported"}
  BY DEF Routes, messageRoutes

-----------------------------------------------------------------------------
(* The invariant.                                                          *)

Idle(p) == Tokens(p) = 0

\* Nothing is under way that ends a session or starts one.
Calm ==
  /\ Idle("idle") /\ Idle("wsMessage") /\ Tokens("routerReady") = 1
  /\ Idle("connecting") \/ Idle("wsOpenSignal")
  /\ Idle("userSelectSession") \/ Idle("subscribedSession") \/ Idle("connected")

\* A frame is worked off before anything else begins, with the state it found.
FramesCalm ==
  \A p \in Frames : Tokens(p) # 0 => Calm /\ (p # "rafTick" => Tokens("uiState") = 1)

\* The equations of the net.
SumsHold ==
  /\ Tokens("subscribedSession") = Tokens("liveSession") + Tokens("replaySession")
  /\ Tokens("replaySession") =
       Tokens("replayPaused") + Tokens("replayPlaying") + Tokens("breakpointPaused")
  /\ Tokens("uiState") = Tokens("subscribedSession")
  /\ Tokens("breakpoints") = 1 /\ Tokens("filterState") = 1

\* shared.currentSession is the session of the marking.
SessionHeld ==
  HoldsOnly(m["subscribedSession"], session) /\ HoldsOnly(produced["subscribedSession"], session)

UIInvariant ==
  /\ Queues(m) /\ Queues(produced) /\ Agenda
  /\ OneTokenIn(Permit) /\ OneTokenIn(Phases) /\ SumsHold /\ SessionHeld /\ FramesCalm

\* The places the invariant names are places of the net.
LEMMA NamedPlaces ==
  /\ Permit \subseteq UIPlaces /\ Phases \subseteq UIPlaces /\ Frames \subseteq UIPlaces
  /\ {"idle", "wsMessage", "connecting", "connected", "wsOpenSignal", "userSelectSession",
      "liveSession", "replaySession", "replayPaused", "replayPlaying", "breakpointPaused",
      "uiState", "breakpoints", "filterState", "stateDirty", "autoStepTick", "svgReady",
      "deepLink", "highlightDirty", "logDirty", "markingDirty"} \subseteq UIPlaces
  BY DEF Permit, Phases, Frames, UIPlaces, InnerPlaces, allEnvironmentPlaces, ReplayModes

\* Every place holds some number of tokens, and a marked one at least one.
LEMMA TokensCounted ==
  ASSUME Queues(m), Queues(produced), NEW p \in UIPlaces
  PROVE  /\ Tokens(p) \in Nat /\ (m[p] # <<>> => Tokens(p) >= 1)
         /\ produced[p] = <<>> => (Tokens(p) = 0 <=> m[p] = <<>>)
         /\ Tokens(p) = 0 => m[p] = <<>> /\ produced[p] = <<>>
<1>1. IsQueue(m[p]) /\ IsQueue(produced[p])
  BY DEF Queues
<1>2. PICK a : a = Len(m[p])
  OBVIOUS
<1>3. PICK b : b = Len(produced[p])
  OBVIOUS
<1>4. /\ a \in Nat /\ b \in Nat /\ (a = 0 <=> m[p] = <<>>) /\ (b = 0 <=> produced[p] = <<>>)
      /\ Tokens(p) = a + b
  BY <1>1, <1>2, <1>3, QueueLength DEF Tokens
<1> QED
  BY <1>4

\* A transition that hands the token of places on leaves one there.
LEMMA HandedOn ==
  ASSUME NEW t, NEW D, NEW places, OneTokenIn(places), HandsOn(t, D, places),
         \A p \in places : Tokens(p) \in Nat /\ (p \in Arcs[t].one => Tokens(p) >= 1),
         \A p \in places : Tokens(p)' = Tokens(p) + Gain(t, D, p)
  PROVE  OneTokenIn(places)'
<1>1. PICK h \in places : Tokens(h) = 1 /\ \A q \in places \ {h} : Tokens(q) = 0
  BY DEF OneTokenIn
<1>2. CASE Arcs[t].one \cap places = {} /\ D \cap places = {}
  <2>1. \A p \in places : Tokens(p)' = Tokens(p)
    BY <1>2 DEF Gain
  <2> QED
    BY <1>1, <2>1 DEF OneTokenIn
<1>3. CASE \E a, b \in places : Arcs[t].one \cap places = {a} /\ D \cap places = {b}
  <2>1. PICK a, b \in places : Arcs[t].one \cap places = {a} /\ D \cap places = {b}
    BY <1>3
  <2>2. a = h
    BY <1>1, <2>1
  <2>3. Tokens(b)' = 1
    BY <1>1, <2>1, <2>2 DEF Gain
  <2>4. \A q \in places \ {b} : Tokens(q)' = 0
    BY <1>1, <2>1, <2>2 DEF Gain
  <2> QED
    BY <2>3, <2>4 DEF OneTokenIn
<1> QED
  BY <1>2, <1>3 DEF HandsOn
-----------------------------------------------------------------------------
(* Steps.                                                                  *)

\* The same counts after a step.
LEMMA TokensCountedNext ==
  ASSUME Queues(m)', Queues(produced)', NEW p \in UIPlaces
  PROVE  /\ Tokens(p)' \in Nat
         /\ Tokens(p)' = 0 => m'[p] = <<>> /\ produced'[p] = <<>>
<1>1. IsQueue(m'[p]) /\ IsQueue(produced'[p])
  BY DEF Queues
<1>2. PICK a : a = Len(m'[p])
  OBVIOUS
<1>3. PICK b : b = Len(produced'[p])
  OBVIOUS
<1>4. /\ a \in Nat /\ b \in Nat /\ (a = 0 <=> m'[p] = <<>>) /\ (b = 0 <=> produced'[p] = <<>>)
      /\ Tokens(p)' = a + b
  BY <1>1, <1>2, <1>3, QueueLength DEF Tokens
<1> QED
  BY <1>4

\* What becomes of the session the marking names: kept, given up, or the one just subscribed to.
NamesSession(t, outs) ==
  \/ session' = session /\ "subscribedSession" \notin DOMAIN outs
  \/ "subscribedSession" \in Arcs[t].one /\ "subscribedSession" \notin DOMAIN outs
  \/ /\ "subscribing" \in Arcs[t].one
     /\ "subscribedSession" \in DOMAIN outs /\ outs["subscribedSession"] = session'

\* A transition whose arcs and outputs keep the net's equations keeps the invariant.
LEMMA StartKeeps ==
  ASSUME UIInvariant, NEW t, NEW outs, NEW busy, Start(t, outs, busy), DOMAIN awaiting' = busy,
         busy \subseteq {"t_render_dot", "t_toggle_subnets"}, Kept(t, DOMAIN outs),
         NamesSession(t, outs)
  PROVE  UIInvariant'
<1>1. /\ Queues(m) /\ Queues(produced) /\ Agenda /\ OneTokenIn(Permit) /\ OneTokenIn(Phases)
      /\ SumsHold /\ SessionHeld /\ FramesCalm
  BY DEF UIInvariant
<1>2. PICK D : D = DOMAIN outs
  OBVIOUS
<1>3. /\ t \in DOMAIN Arcs
      /\ \A p \in Tested[t] : m[p] # <<>>
      /\ Arcs[t].one \subseteq Tested[t]
      /\ Queues(m)' /\ Queues(produced)'
      /\ \A p \in UIPlaces \ (Arcs[t].all \cup Arcs[t].resets) :
           Tokens(p)' = Tokens(p) - (IF p \in Arcs[t].one THEN 1 ELSE 0) + Put(outs, p)
      /\ \A p \in UIPlaces : Tokens(p)' <= Tokens(p) + Put(outs, p)
      /\ \A p \in UIPlaces : \A v :
           /\ HoldsOnly(m[p], v) /\ HoldsOnly(produced[p], v)
           /\ p \in DOMAIN outs => outs[p] = v
           => HoldsOnly(m'[p], v) /\ HoldsOnly(produced'[p], v)
      /\ ready' \subseteq EnabledTransitions(m', busy)
      /\ ready' = {} => produced' = Nothing /\ EnabledTransitions(m', busy) = {}
  BY <1>1, StartMoves DEF Tested
<1>4. Agenda'
  BY <1>3 DEF Agenda, Awaiting, AtRest
<1> DEFINE Emptied == {"rafTick", "highlightDirty", "logDirty", "markingDirty", "svgReady",
                       "selectedPlace"}
<1>5. /\ Arcs[t].all \cup Arcs[t].resets \subseteq Emptied
      /\ HandsOn(t, D, Permit) /\ HandsOn(t, D, Phases) /\ KeepsSums(t, D)
      /\ (Stirs(t) /\ D \cap Frames = {}) \/ Quiet(t, D)
  BY <1>2 DEF Kept
<1>6. ASSUME NEW p \in UIPlaces
      PROVE  /\ Tokens(p) \in Nat /\ Tokens(p)' \in Nat
             /\ p \in Tested[t] => Tokens(p) >= 1
             /\ p \in Arcs[t].one => Tokens(p) >= 1
             /\ p \notin Emptied => Tokens(p)' = Tokens(p) + Gain(t, D, p)
             /\ Tokens(p)' <= Tokens(p) + (IF p \in D THEN 1 ELSE 0)
             /\ p \notin D => Tokens(p)' <= Tokens(p)
  <2>1. Tokens(p) \in Nat /\ Tokens(p)' \in Nat /\ (m[p] # <<>> => Tokens(p) >= 1)
    BY <1>1, <1>3, TokensCounted, TokensCountedNext
  <2>2. Put(outs, p) = IF p \in D THEN 1 ELSE 0
    BY <1>2 DEF Put
  <2>3. /\ p \notin Emptied =>
             Tokens(p)' = Tokens(p) - (IF p \in Arcs[t].one THEN 1 ELSE 0) + Put(outs, p)
        /\ Tokens(p)' <= Tokens(p) + Put(outs, p)
        /\ p \in Tested[t] => m[p] # <<>>
        /\ p \in Arcs[t].one => p \in Tested[t]
    <3> HIDE DEF Emptied
    <3> QED
      BY <1>3, <1>5
  <2> HIDE DEF Emptied
  <2> QED
    BY <2>1, <2>2, <2>3 DEF Gain
<1>7. Permit \cap Emptied = {} /\ Phases \cap Emptied = {}
  BY RoutePlaces DEF Permit, Phases
<1>8. OneTokenIn(Permit)'
  <2>1. \A p \in Permit : Tokens(p) \in Nat /\ (p \in Arcs[t].one => Tokens(p) >= 1)
    BY <1>6, NamedPlaces
  <2>2. \A p \in Permit : Tokens(p)' = Tokens(p) + Gain(t, D, p)
    <3> HIDE DEF Emptied
    <3> QED
      BY <1>6, <1>7, NamedPlaces
  <2> QED
    BY <1>1, <1>5, <2>1, <2>2, HandedOn
<1>9. OneTokenIn(Phases)'
  <2>1. \A p \in Phases : Tokens(p) \in Nat /\ (p \in Arcs[t].one => Tokens(p) >= 1)
    BY <1>6, NamedPlaces
  <2>2. \A p \in Phases : Tokens(p)' = Tokens(p) + Gain(t, D, p)
    <3> HIDE DEF Emptied
    <3> QED
      BY <1>6, <1>7, NamedPlaces
  <2> QED
    BY <1>1, <1>5, <2>1, <2>2, HandedOn
<1>10. \A p \in {"subscribedSession", "liveSession", "replaySession", "replayPaused",
                 "replayPlaying", "breakpointPaused", "uiState", "breakpoints", "filterState"} :
         Tokens(p) \in Nat /\ Tokens(p)' = Tokens(p) + Gain(t, D, p) /\ Gain(t, D, p) \in Int
  BY <1>6, NamedPlaces DEF Gain, Phases
<1>11. SumsHold'
  BY <1>1, <1>5, <1>10 DEF SumsHold, KeepsSums
<1>12. SessionHeld'
  <2>1. "subscribedSession" \in UIPlaces
    BY NamedPlaces DEF Phases
  <2>2. CASE session' = session /\ "subscribedSession" \notin DOMAIN outs
    BY <1>1, <1>3, <2>1, <2>2 DEF SessionHeld
  <2>3. CASE "subscribedSession" \in Arcs[t].one /\ "subscribedSession" \notin DOMAIN outs
    <3>1. Tokens("subscribedSession") = 1
      BY <1>1, <1>6, <2>1, <2>3 DEF OneTokenIn, Phases
    <3>2. Tokens("subscribedSession")' = 0
      BY <1>2, <1>10, <2>3, <3>1 DEF Gain
    <3> QED
      BY <1>3, <2>1, <3>2, TokensCountedNext, QueueEmpty DEF SessionHeld
  <2>4. CASE /\ "subscribing" \in Arcs[t].one
             /\ "subscribedSession" \in DOMAIN outs /\ outs["subscribedSession"] = session'
    <3>1. "subscribing" \in UIPlaces
      BY NamedPlaces DEF Phases
    <3>2. Tokens("subscribedSession") = 0
      BY <1>1, <1>6, <2>4, <3>1 DEF OneTokenIn, Phases
    <3>3. m["subscribedSession"] = <<>> /\ produced["subscribedSession"] = <<>>
      BY <1>1, <2>1, <3>2, TokensCounted
    <3>4. /\ HoldsOnly(m["subscribedSession"], session')
          /\ HoldsOnly(produced["subscribedSession"], session')
      BY <3>3, QueueEmpty
    <3>5. /\ HoldsOnly(m'["subscribedSession"], session')
          /\ HoldsOnly(produced'["subscribedSession"], session')
      BY <1>3, <2>1, <2>4, <3>4
    <3> QED
      BY <3>5 DEF SessionHeld
  <2> QED
    BY <2>2, <2>3, <2>4 DEF NamesSession
<1>13. FramesCalm'
  <2>1. \A p \in Frames : p \in UIPlaces
    BY NamedPlaces
  <2>2. CASE Stirs(t) /\ D \cap Frames = {}
    <3>1. ASSUME Calm
          PROVE  FALSE
      <4>1. ASSUME NEW q \in Tested[t], q \in {"idle", "wsMessage", "deadLetter"} \cup Routes
            PROVE  FALSE
        <5>1. q \in UIPlaces /\ "routerReady" \in Permit /\ "deadLetter" \in Permit
          BY <4>1, NamedPlaces DEF Permit
        <5>2. Tokens(q) >= 1
          BY <1>6, <5>1
        <5>3. CASE q \in {"idle", "wsMessage"}
          BY <3>1, <5>2, <5>3 DEF Calm, Idle
        <5>4. CASE q \in {"deadLetter"} \cup Routes
          <6>1. q \in Permit /\ q # "routerReady"
            BY <5>4, RoutePlaces DEF Permit
          <6>2. Tokens("routerReady") = 1
            BY <3>1 DEF Calm
          <6> QED
            BY <1>1, <5>1, <5>2, <6>1, <6>2 DEF OneTokenIn
        <5> QED
          BY <4>1, <5>3, <5>4
      <4>2. /\ {"connecting", "wsOpenSignal", "userSelectSession", "subscribedSession", "connected"}
                 \subseteq UIPlaces
        BY NamedPlaces DEF Phases
      <4>3. ASSUME {"connecting", "wsOpenSignal"} \subseteq Tested[t]
            PROVE  FALSE
        BY <1>6, <3>1, <4>2, <4>3 DEF Calm, Idle
      <4>4. ASSUME {"userSelectSession", "subscribedSession", "connected"} \subseteq Tested[t]
            PROVE  FALSE
        BY <1>6, <3>1, <4>2, <4>4 DEF Calm, Idle
      <4> QED
        BY <2>2, <4>1, <4>3, <4>4 DEF Stirs
    <3>2. \A p \in Frames : Tokens(p)' = 0
      BY <1>1, <1>6, <2>1, <2>2, <3>1 DEF FramesCalm
    <3> QED
      BY <3>2 DEF FramesCalm
  <2>3. CASE Quiet(t, D)
    <3>1. {"idle", "wsMessage", "wsOpenSignal", "connecting", "connected", "userSelectSession",
           "subscribedSession", "uiState", "routerReady", "rafTick"} \subseteq UIPlaces
      BY NamedPlaces DEF Permit, Phases, Frames
    <3>2. ASSUME Calm
          PROVE  Calm'
      <4>1. \A p \in {"idle", "wsMessage", "wsOpenSignal", "connecting", "connected",
                      "userSelectSession", "subscribedSession"} : Idle(p) => Idle(p)'
        <5> TAKE p \in {"idle", "wsMessage", "wsOpenSignal", "connecting", "connected",
                        "userSelectSession", "subscribedSession"}
        <5>1. p \in UIPlaces /\ p \notin D
          BY <2>3, <3>1 DEF Quiet
        <5>2. Tokens(p) \in Nat /\ Tokens(p)' \in Nat /\ Tokens(p)' <= Tokens(p)
          BY <1>6, <5>1
        <5> QED
          BY <5>2 DEF Idle
      <4>2. Tokens("routerReady")' = Tokens("routerReady") + Gain(t, D, "routerReady")
        BY <1>6, <3>1
      <4> QED
        BY <2>3, <3>2, <4>1, <4>2 DEF Calm, Quiet
    <3>3. Tokens("uiState")' = Tokens("uiState")
      BY <1>10, <2>3 DEF Quiet
    <3>4. Tokens("uiState") \in Nat /\ Tokens("uiState") <= 1
      BY <1>1, <1>10 DEF OneTokenIn, Phases, SumsHold
    <3>5. ASSUME NEW p \in Frames, Tokens(p)' # 0
          PROVE  Calm' /\ (p # "rafTick" => Tokens("uiState")' = 1)
      <4>1. CASE D \cap Frames = {}
        <5>1. Tokens(p) # 0
          BY <1>6, <2>1, <3>5, <4>1
        <5> QED
          BY <1>1, <3>2, <3>3, <5>1 DEF FramesCalm
      <4>2. CASE {"rafTick", "uiState"} \subseteq Tested[t]
        <5>1. Tokens("rafTick") >= 1 /\ Tokens("uiState") >= 1 /\ Tokens("rafTick") \in Nat
          BY <1>6, <3>1, <4>2
        <5>2. Calm
          BY <1>1, <5>1 DEF FramesCalm, Frames
        <5> QED
          BY <3>2, <3>3, <3>4, <5>1, <5>2
      <4> QED
        BY <2>3, <4>1, <4>2 DEF Quiet
    <3> QED
      BY <3>5 DEF FramesCalm
  <2> QED
    BY <1>5, <2>2, <2>3
<1> QED
  BY <1>3, <1>4, <1>8, <1>9, <1>11, <1>12, <1>13 DEF UIInvariant
-----------------------------------------------------------------------------
(* The rows of the net.  Each lemma is about A so that the table is looked *)
(* into once and not at every name.                                        *)

\* The arcs of the connection and the session phases.
LEMMA SessionArcs ==
  ASSUME NEW A, A = Arcs
  PROVE  /\ {"t_connect", "t_on_open", "t_on_close_connecting", "t_on_close_connected",
             "t_subscribe", "t_switch_from_live", "t_switch_from_replay_paused",
             "t_switch_from_replay_playing", "t_switch_from_breakpoint",
             "t_abandon_subscribe"} \subseteq DOMAIN A
         /\ A["t_connect"] = One({"idle"})
         /\ A["t_on_open"] = One({"connecting", "wsOpenSignal"})
         /\ A["t_on_close_connecting"] = One({"connecting", "wsCloseSignal"})
         /\ A["t_on_close_connected"] = One({"connected", "wsCloseSignal"})
         /\ A["t_subscribe"] = Reading(One({"noSession", "userSelectSession"}), {"connected"})
         /\ A["t_switch_from_live"] = switchFrom({"liveSession"})
         /\ A["t_switch_from_replay_paused"] = switchFrom({"replaySession", "replayPaused"})
         /\ A["t_switch_from_replay_playing"] = switchFrom({"replaySession", "replayPlaying"})
         /\ A["t_switch_from_breakpoint"] = switchFrom({"replaySession", "breakpointPaused"})
         /\ A["t_abandon_subscribe"] = Inhibited(One({"subscribing"}), "connected")
  BY DEF Arcs

\* The arcs of the message router.
LEMMA RouterArcs ==
  ASSUME NEW A, A = Arcs
  PROVE  /\ {"t_route_message", "t_log_dead_letter", "t_on_subscribed", "t_drop_subscribed",
             "t_on_unsubscribed", "t_on_session_list", "t_on_session_list_deep_link",
             "t_on_event", "t_drop_event", "t_on_event_batch", "t_on_replay_event_batch",
             "t_drop_event_batch", "t_on_marking_snapshot", "t_drop_marking_snapshot",
             "t_on_playback_state", "t_on_breakpoint_hit", "t_on_bp_list", "t_on_bp_set",
             "t_on_bp_cleared", "t_on_filter_applied", "t_on_error"} \subseteq DOMAIN A
         /\ A["t_route_message"] = One({"wsMessage", "routerReady"})
         /\ A["t_log_dead_letter"] = One({"deadLetter"})
         /\ A["t_on_subscribed"] = One({"msgSubscribed", "subscribing"})
         /\ A["t_drop_subscribed"] = dropWithout("msgSubscribed", "subscribing")
         /\ A["t_on_unsubscribed"] = onMessage("msgUnsubscribed")
         /\ A["t_on_session_list"] = Inhibited(One({"msgSessionList"}), "deepLink")
         /\ A["t_on_session_list_deep_link"] = One({"msgSessionList", "deepLink"})
         /\ A["t_on_event"] = onSessionMessage("msgEvent", {})
         /\ A["t_drop_event"] = dropWithout("msgEvent", "subscribedSession")
         /\ A["t_on_event_batch"] = onSessionMessage("msgEventBatch", {"liveSession"})
         /\ A["t_on_replay_event_batch"] = onSessionMessage("msgEventBatch", {"replaySession"})
         /\ A["t_drop_event_batch"] = dropWithout("msgEventBatch", "subscribedSession")
         /\ A["t_on_marking_snapshot"] = onSessionMessage("msgMarkingSnapshot", {})
         /\ A["t_drop_marking_snapshot"] = dropWithout("msgMarkingSnapshot", "subscribedSession")
         /\ A["t_on_playback_state"] = onMessage("msgPlaybackState")
         /\ A["t_on_breakpoint_hit"] = onMessage("msgBreakpointHit")
         /\ A["t_on_bp_list"] = One({"msgBreakpointList", "breakpoints"})
         /\ A["t_on_bp_set"] = onMessage("msgBreakpointSet")
         /\ A["t_on_bp_cleared"] = onMessage("msgBreakpointCleared")
         /\ A["t_on_filter_applied"] = onMessage("msgFilterApplied")
         /\ A["t_on_error"] = onMessage("msgError")
  BY DEF Arcs

\* The arcs of the diagram and the panels.
LEMMA RepaintArcs ==
  ASSUME NEW A, A = Arcs
  PROVE  /\ {"t_render_dot", "t_toggle_subnets", "t_fan_out_dirty", "t_frame", "t_idle_frame",
             "t_update_highlighting", "t_skip_highlighting", "t_await_diagram",
             "t_update_event_log", "t_skip_event_log", "t_update_marking",
             "t_skip_marking"} \subseteq DOMAIN A
         /\ A["t_render_dot"] = Resetting(One({"dotSource"}), "svgReady")
         /\ A["t_toggle_subnets"] = One({"userToggleSubnets"})
         /\ A["t_fan_out_dirty"] = One({"stateDirty"})
         /\ A["t_frame"] = Reading(All(One({}), "rafTick"), {"uiState"})
         /\ A["t_idle_frame"] = Inhibited(All(One({}), "rafTick"), "uiState")
         /\ A["t_update_highlighting"] =
              Reading(All(One({"frameHighlight"}), "highlightDirty"), {"svgReady", "uiState"})
         /\ A["t_skip_highlighting"] = skipFrame("frameHighlight", "highlightDirty")
         /\ A["t_await_diagram"] = skipFrame("frameHighlight", "svgReady")
         /\ A["t_update_event_log"] =
              Reading(All(One({"frameLog"}), "logDirty"), {"uiState", "filterState"})
         /\ A["t_skip_event_log"] = skipFrame("frameLog", "logDirty")
         /\ A["t_update_marking"] =
              Reading(All(One({"frameMarking"}), "markingDirty"), {"uiState"})
         /\ A["t_skip_marking"] = skipFrame("frameMarking", "markingDirty")
  BY DEF Arcs

\* The arcs of replay playback and live control.
LEMMA PlaybackArcs ==
  ASSUME NEW A, A = Arcs
  PROVE  /\ {"t_replay_play", "t_replay_play_from_bp", "t_replay_auto_step", "t_replay_pause",
             "t_drop_stale_tick", "t_replay_step_fwd", "t_replay_step_back",
             "t_replay_seek", "t_replay_restart", "t_replay_run_to_end", "t_live_pause",
             "t_live_resume", "t_live_step_fwd", "t_live_step_back"} \subseteq DOMAIN A
         /\ A["t_replay_play"] = startPlaying("replayPaused")
         /\ A["t_replay_play_from_bp"] = startPlaying("breakpointPaused")
         /\ A["t_replay_auto_step"] =
              Reading(One({"autoStepTick", "replayPlaying", "uiState"}), {"breakpoints"})
         /\ A["t_replay_pause"] = One({"replayPlaying", "userClickPause"})
         /\ A["t_drop_stale_tick"] = Inhibited(One({"autoStepTick"}), "replayPlaying")
         /\ A["t_replay_step_fwd"] = onReplayCommand("userClickStepFwd")
         /\ A["t_replay_step_back"] = onReplayCommand("userClickStepBack")
         /\ A["t_replay_seek"] = onReplayCommand("userSeekSlider")
         /\ A["t_replay_restart"] = onReplayCommand("userClickRestart")
         /\ A["t_replay_run_to_end"] = onReplayCommand("userClickRunToEnd")
         /\ A["t_live_pause"] = liveControl("userClickPause")
         /\ A["t_live_resume"] = liveControl("userClickPlay")
         /\ A["t_live_step_fwd"] = liveControl("userClickStepFwd")
         /\ A["t_live_step_back"] = liveControl("userClickStepBack")
  BY DEF Arcs

\* The arcs of the inspectors and the archives.
LEMMA ToolsArcs ==
  ASSUME NEW A, A = Arcs
  PROVE  /\ {"t_inspect_place", "t_open_modal", "t_close_modal", "t_set_breakpoint",
             "t_clear_breakpoint", "t_apply_filter", "t_search", "t_search_next",
             "t_search_prev", "t_set_speed", "t_open_archive_browser",
             "t_on_archive_list", "t_import_archive", "t_upload_archive",
             "t_on_archive_imported", "t_filter_net_name"} \subseteq DOMAIN A
         /\ A["t_inspect_place"] =
              Resetting(Reading(One({"userClickPlace"}), {"uiState"}), "selectedPlace")
         /\ A["t_open_modal"] = One({"modalClosed", "userOpenModal"})
         /\ A["t_close_modal"] = One({"modalOpen", "userCloseModal"})
         /\ A["t_set_breakpoint"] = onBreakpointEdit("userSetBreakpoint")
         /\ A["t_clear_breakpoint"] = onBreakpointEdit("userClearBreakpoint")
         /\ A["t_apply_filter"] = One({"filterState", "userApplyFilter"})
         /\ A["t_search"] = Reading(One({"searchState", "userSearch"}), {"uiState"})
         /\ A["t_search_next"] = One({"searchState", "userSearchNext"})
         /\ A["t_search_prev"] = One({"searchState", "userSearchPrev"})
         /\ A["t_set_speed"] = One({"userSetSpeed"})
         /\ A["t_open_archive_browser"] = Reading(One({"userOpenArchiveBrowser"}), {"connected"})
         /\ A["t_on_archive_list"] = onMessage("msgArchiveList")
         /\ A["t_import_archive"] = Reading(One({"userImportArchive"}), {"connected"})
         /\ A["t_upload_archive"] = Reading(One({"userUploadArchive"}), {"connected"})
         /\ A["t_on_archive_imported"] = One({"msgArchiveImported"})
         /\ A["t_filter_net_name"] = One({"userFilterNetName"})
  BY DEF Arcs

\* t with its arcs.
Row(t, one, all, reads, inhibitors, resets) ==
  /\ t \in DOMAIN Arcs
  /\ Arcs[t].one = one /\ Arcs[t].all = all /\ Arcs[t].reads = reads
  /\ Arcs[t].inhibitors = inhibitors /\ Arcs[t].resets = resets

\* The arcs of the connection and the session phases, by kind.
LEMMA SessionRows ==
  /\ Row("t_connect", {"idle"}, {}, {}, {}, {})
  /\ Row("t_on_open", {"connecting", "wsOpenSignal"}, {}, {}, {}, {})
  /\ Row("t_on_close_connecting", {"connecting", "wsCloseSignal"}, {}, {}, {}, {})
  /\ Row("t_on_close_connected", {"connected", "wsCloseSignal"}, {}, {}, {}, {})
  /\ Row("t_subscribe", {"noSession", "userSelectSession"}, {}, {"connected"}, {}, {})
  /\ Row("t_switch_from_live",
         {"subscribedSession", "userSelectSession", "uiState", "liveSession"}, {}, {"connected"},
         {}, {})
  /\ Row("t_switch_from_replay_paused",
         {"subscribedSession", "userSelectSession", "uiState", "replaySession", "replayPaused"},
         {}, {"connected"}, {}, {})
  /\ Row("t_switch_from_replay_playing",
         {"subscribedSession", "userSelectSession", "uiState", "replaySession", "replayPlaying"},
         {}, {"connected"}, {}, {})
  /\ Row("t_switch_from_breakpoint",
         {"subscribedSession", "userSelectSession", "uiState", "replaySession",
         "breakpointPaused"}, {}, {"connected"}, {}, {})
  /\ Row("t_abandon_subscribe", {"subscribing"}, {}, {}, {"connected"}, {})
  BY SessionArcs DEF Row, One, Reading, switchFrom, Inhibited

\* The arcs of the message router, by kind.
LEMMA RouterRows ==
  /\ Row("t_route_message", {"wsMessage", "routerReady"}, {}, {}, {}, {})
  /\ Row("t_log_dead_letter", {"deadLetter"}, {}, {}, {}, {})
  /\ Row("t_on_subscribed", {"msgSubscribed", "subscribing"}, {}, {}, {}, {})
  /\ Row("t_drop_subscribed", {"msgSubscribed"}, {}, {}, {"subscribing"}, {})
  /\ Row("t_on_unsubscribed", {"msgUnsubscribed"}, {}, {}, {}, {})
  /\ Row("t_on_session_list", {"msgSessionList"}, {}, {}, {"deepLink"}, {})
  /\ Row("t_on_session_list_deep_link", {"msgSessionList", "deepLink"}, {}, {}, {}, {})
  /\ Row("t_on_event", {"msgEvent", "uiState"}, {}, {"subscribedSession"}, {}, {})
  /\ Row("t_drop_event", {"msgEvent"}, {}, {}, {"subscribedSession"}, {})
  /\ Row("t_on_event_batch",
         {"msgEventBatch", "uiState"}, {}, {"subscribedSession", "liveSession"}, {}, {})
  /\ Row("t_on_replay_event_batch",
         {"msgEventBatch", "uiState"}, {}, {"subscribedSession", "replaySession"}, {}, {})
  /\ Row("t_drop_event_batch", {"msgEventBatch"}, {}, {}, {"subscribedSession"}, {})
  /\ Row("t_on_marking_snapshot",
         {"msgMarkingSnapshot", "uiState"}, {}, {"subscribedSession"}, {}, {})
  /\ Row("t_drop_marking_snapshot", {"msgMarkingSnapshot"}, {}, {}, {"subscribedSession"}, {})
  /\ Row("t_on_playback_state", {"msgPlaybackState"}, {}, {}, {}, {})
  /\ Row("t_on_breakpoint_hit", {"msgBreakpointHit"}, {}, {}, {}, {})
  /\ Row("t_on_bp_list", {"msgBreakpointList", "breakpoints"}, {}, {}, {}, {})
  /\ Row("t_on_bp_set", {"msgBreakpointSet"}, {}, {}, {}, {})
  /\ Row("t_on_bp_cleared", {"msgBreakpointCleared"}, {}, {}, {}, {})
  /\ Row("t_on_filter_applied", {"msgFilterApplied"}, {}, {}, {}, {})
  /\ Row("t_on_error", {"msgError"}, {}, {}, {}, {})
  BY RouterArcs DEF Row, One, dropWithout, Inhibited, onMessage, onSessionMessage, Reading

\* The arcs of the diagram and the panels, by kind.
LEMMA RepaintRows ==
  /\ Row("t_render_dot", {"dotSource"}, {}, {}, {}, {"svgReady"})
  /\ Row("t_toggle_subnets", {"userToggleSubnets"}, {}, {}, {}, {})
  /\ Row("t_fan_out_dirty", {"stateDirty"}, {}, {}, {}, {})
  /\ Row("t_frame", {}, {"rafTick"}, {"uiState"}, {}, {})
  /\ Row("t_idle_frame", {}, {"rafTick"}, {}, {"uiState"}, {})
  /\ Row("t_update_highlighting",
         {"frameHighlight"}, {"highlightDirty"}, {"svgReady", "uiState"}, {}, {})
  /\ Row("t_skip_highlighting", {"frameHighlight"}, {}, {}, {"highlightDirty"}, {})
  /\ Row("t_await_diagram", {"frameHighlight"}, {}, {}, {"svgReady"}, {})
  /\ Row("t_update_event_log", {"frameLog"}, {"logDirty"}, {"uiState", "filterState"}, {}, {})
  /\ Row("t_skip_event_log", {"frameLog"}, {}, {}, {"logDirty"}, {})
  /\ Row("t_update_marking", {"frameMarking"}, {"markingDirty"}, {"uiState"}, {}, {})
  /\ Row("t_skip_marking", {"frameMarking"}, {}, {}, {"markingDirty"}, {})
<1>1. All(One({}), "rafTick") =
        [one |-> {}, all |-> {"rafTick"}, reads |-> {}, inhibitors |-> {}, resets |-> {}]
  BY DEF All, One
<1>2. All(One({"frameHighlight"}), "highlightDirty") =
        [one |-> {"frameHighlight"}, all |-> {"highlightDirty"}, reads |-> {}, inhibitors |-> {},
         resets |-> {}]
  BY DEF All, One
<1>3. All(One({"frameLog"}), "logDirty") =
        [one |-> {"frameLog"}, all |-> {"logDirty"}, reads |-> {}, inhibitors |-> {}, resets |-> {}]
  BY DEF All, One
<1>4. All(One({"frameMarking"}), "markingDirty") =
        [one |-> {"frameMarking"}, all |-> {"markingDirty"}, reads |-> {}, inhibitors |-> {},
         resets |-> {}]
  BY DEF All, One
<1> QED
  BY <1>1, <1>2, <1>3, <1>4, RepaintArcs DEF Row, One, Resetting, Reading, Inhibited, skipFrame

\* The arcs of replay playback and live control, by kind.
LEMMA PlaybackRows ==
  /\ Row("t_replay_play", {"replayPaused", "userClickPlay"}, {}, {"replaySession"}, {}, {})
  /\ Row("t_replay_play_from_bp",
         {"breakpointPaused", "userClickPlay"}, {}, {"replaySession"}, {}, {})
  /\ Row("t_replay_auto_step",
         {"autoStepTick", "replayPlaying", "uiState"}, {}, {"breakpoints"}, {}, {})
  /\ Row("t_replay_pause", {"replayPlaying", "userClickPause"}, {}, {}, {}, {})
  /\ Row("t_drop_stale_tick", {"autoStepTick"}, {}, {}, {"replayPlaying"}, {})
  /\ Row("t_replay_step_fwd", {"uiState", "userClickStepFwd"}, {}, {"replaySession"}, {}, {})
  /\ Row("t_replay_step_back", {"uiState", "userClickStepBack"}, {}, {"replaySession"}, {}, {})
  /\ Row("t_replay_seek", {"uiState", "userSeekSlider"}, {}, {"replaySession"}, {}, {})
  /\ Row("t_replay_restart", {"uiState", "userClickRestart"}, {}, {"replaySession"}, {}, {})
  /\ Row("t_replay_run_to_end", {"uiState", "userClickRunToEnd"}, {}, {"replaySession"}, {}, {})
  /\ Row("t_live_pause", {"userClickPause"}, {}, {"liveSession"}, {}, {})
  /\ Row("t_live_resume", {"userClickPlay"}, {}, {"liveSession"}, {}, {})
  /\ Row("t_live_step_fwd", {"userClickStepFwd"}, {}, {"liveSession"}, {}, {})
  /\ Row("t_live_step_back", {"userClickStepBack"}, {}, {"liveSession"}, {}, {})
  BY PlaybackArcs DEF Row, startPlaying, One, Reading, Inhibited, onReplayCommand, liveControl

\* The arcs of the inspectors and the archives, by kind.
LEMMA ToolsRows ==
  /\ Row("t_inspect_place", {"userClickPlace"}, {}, {"uiState"}, {}, {"selectedPlace"})
  /\ Row("t_open_modal", {"modalClosed", "userOpenModal"}, {}, {}, {}, {})
  /\ Row("t_close_modal", {"modalOpen", "userCloseModal"}, {}, {}, {}, {})
  /\ Row("t_set_breakpoint", {"breakpoints", "userSetBreakpoint"}, {}, {}, {}, {})
  /\ Row("t_clear_breakpoint", {"breakpoints", "userClearBreakpoint"}, {}, {}, {}, {})
  /\ Row("t_apply_filter", {"filterState", "userApplyFilter"}, {}, {}, {}, {})
  /\ Row("t_search", {"searchState", "userSearch"}, {}, {"uiState"}, {}, {})
  /\ Row("t_search_next", {"searchState", "userSearchNext"}, {}, {}, {}, {})
  /\ Row("t_search_prev", {"searchState", "userSearchPrev"}, {}, {}, {}, {})
  /\ Row("t_set_speed", {"userSetSpeed"}, {}, {}, {}, {})
  /\ Row("t_open_archive_browser", {"userOpenArchiveBrowser"}, {}, {"connected"}, {}, {})
  /\ Row("t_on_archive_list", {"msgArchiveList"}, {}, {}, {}, {})
  /\ Row("t_import_archive", {"userImportArchive"}, {}, {"connected"}, {}, {})
  /\ Row("t_upload_archive", {"userUploadArchive"}, {}, {"connected"}, {}, {})
  /\ Row("t_on_archive_imported", {"msgArchiveImported"}, {}, {}, {}, {})
  /\ Row("t_filter_net_name", {"userFilterNetName"}, {}, {}, {}, {})
<1>1. Reading(One({"userClickPlace"}), {"uiState"}) =
        [one |-> {"userClickPlace"}, all |-> {}, reads |-> {"uiState"}, inhibitors |-> {},
         resets |-> {}]
  BY DEF Reading, One
<1>2. Row("t_inspect_place", {"userClickPlace"}, {}, {"uiState"}, {}, {"selectedPlace"})
  BY <1>1, ToolsArcs DEF Row, Resetting
<1> QED
  BY <1>2, ToolsArcs DEF Row, One, Reading, onBreakpointEdit, onMessage

\* The transitions of the connection and the session phases keep the equations, whatever they
\* produce.
LEMMA SessionKept ==
  /\ Kept("t_connect", {"connecting"})
  /\ Kept("t_connect", {"waitReconnect"})
  /\ Kept("t_on_open", {"connected"})
  /\ Kept("t_on_close_connecting", {"waitReconnect"})
  /\ Kept("t_on_close_connected", {"waitReconnect"})
  /\ Kept("t_subscribe", {"subscribing"})
  /\ Kept("t_subscribe", {"noSession"})
  /\ Kept("t_switch_from_live", {"subscribing"})
  /\ Kept("t_switch_from_live", {"noSession"})
  /\ Kept("t_switch_from_replay_paused", {"subscribing"})
  /\ Kept("t_switch_from_replay_paused", {"noSession"})
  /\ Kept("t_switch_from_replay_playing", {"subscribing"})
  /\ Kept("t_switch_from_replay_playing", {"noSession"})
  /\ Kept("t_switch_from_breakpoint", {"subscribing"})
  /\ Kept("t_switch_from_breakpoint", {"noSession"})
  /\ Kept("t_abandon_subscribe", {"noSession"})
<1>1. Kept("t_connect", {"connecting"}) /\ Kept("t_connect", {"waitReconnect"})
  <2>1. Row("t_connect", {"idle"}, {}, {}, {}, {})
    BY SessionRows
  <2> QED
    BY <2>1, RoutePlaces DEF Row, Kept, HandsOn, KeepsSums, Gain, Stirs, Quiet, Tested, Permit,
                              Phases, Frames
<1>2. Kept("t_on_open", {"connected"})
  <2>1. Row("t_on_open", {"connecting", "wsOpenSignal"}, {}, {}, {}, {})
    BY SessionRows
  <2> QED
    BY <2>1, RoutePlaces DEF Row, Kept, HandsOn, KeepsSums, Gain, Stirs, Quiet, Tested, Permit,
                              Phases, Frames
<1>3. Kept("t_on_close_connecting", {"waitReconnect"})
  <2>1. Row("t_on_close_connecting", {"connecting", "wsCloseSignal"}, {}, {}, {}, {})
    BY SessionRows
  <2> QED
    BY <2>1, RoutePlaces DEF Row, Kept, HandsOn, KeepsSums, Gain, Stirs, Quiet, Tested, Permit,
                              Phases, Frames
<1>4. Kept("t_on_close_connected", {"waitReconnect"})
  <2>1. Row("t_on_close_connected", {"connected", "wsCloseSignal"}, {}, {}, {}, {})
    BY SessionRows
  <2> QED
    BY <2>1, RoutePlaces DEF Row, Kept, HandsOn, KeepsSums, Gain, Stirs, Quiet, Tested, Permit,
                              Phases, Frames
<1>5. Kept("t_subscribe", {"subscribing"}) /\ Kept("t_subscribe", {"noSession"})
  <2>1. Row("t_subscribe", {"noSession", "userSelectSession"}, {}, {"connected"}, {}, {})
    BY SessionRows
  <2> QED
    BY <2>1, RoutePlaces DEF Row, Kept, HandsOn, KeepsSums, Gain, Stirs, Quiet, Tested, Permit,
                              Phases, Frames
<1>6. Kept("t_switch_from_live", {"subscribing"}) /\ Kept("t_switch_from_live", {"noSession"})
  <2>1. Row("t_switch_from_live",
            {"subscribedSession", "userSelectSession", "uiState", "liveSession"}, {},
            {"connected"}, {}, {})
    BY SessionRows
  <2> QED
    BY <2>1, RoutePlaces DEF Row, Kept, HandsOn, KeepsSums, Gain, Stirs, Quiet, Tested, Permit,
                              Phases, Frames
<1>7. /\ Kept("t_switch_from_replay_paused", {"subscribing"})
      /\ Kept("t_switch_from_replay_paused", {"noSession"})
  <2>1. Row("t_switch_from_replay_paused",
            {"subscribedSession", "userSelectSession", "uiState", "replaySession",
            "replayPaused"}, {}, {"connected"}, {}, {})
    BY SessionRows
  <2> QED
    BY <2>1, RoutePlaces DEF Row, Kept, HandsOn, KeepsSums, Gain, Stirs, Quiet, Tested, Permit,
                              Phases, Frames
<1>8. /\ Kept("t_switch_from_replay_playing", {"subscribing"})
      /\ Kept("t_switch_from_replay_playing", {"noSession"})
  <2>1. Row("t_switch_from_replay_playing",
            {"subscribedSession", "userSelectSession", "uiState", "replaySession",
            "replayPlaying"}, {}, {"connected"}, {}, {})
    BY SessionRows
  <2> QED
    BY <2>1, RoutePlaces DEF Row, Kept, HandsOn, KeepsSums, Gain, Stirs, Quiet, Tested, Permit,
                              Phases, Frames
<1>9. /\ Kept("t_switch_from_breakpoint", {"subscribing"})
      /\ Kept("t_switch_from_breakpoint", {"noSession"})
  <2>1. Row("t_switch_from_breakpoint",
            {"subscribedSession", "userSelectSession", "uiState", "replaySession",
            "breakpointPaused"}, {}, {"connected"}, {}, {})
    BY SessionRows
  <2> QED
    BY <2>1, RoutePlaces DEF Row, Kept, HandsOn, KeepsSums, Gain, Stirs, Quiet, Tested, Permit,
                              Phases, Frames
<1>10. Kept("t_abandon_subscribe", {"noSession"})
  <2>1. Row("t_abandon_subscribe", {"subscribing"}, {}, {}, {"connected"}, {})
    BY SessionRows
  <2> QED
    BY <2>1, RoutePlaces DEF Row, Kept, HandsOn, KeepsSums, Gain, Stirs, Quiet, Tested, Permit,
                              Phases, Frames
<1> QED
  BY <1>1, <1>2, <1>3, <1>4, <1>5, <1>6, <1>7, <1>8, <1>9, <1>10

\* The transitions of the message router keep the equations, whatever they produce.
LEMMA RouterKept ==
  /\ Kept("t_log_dead_letter", {"routerReady"})
  /\ Kept("t_drop_subscribed", {"deadLetter"})
  /\ Kept("t_on_unsubscribed", {"routerReady"})
  /\ Kept("t_on_unsubscribed", {"deadLetter"})
  /\ Kept("t_on_session_list", {"routerReady"})
  /\ Kept("t_on_session_list", {"deadLetter"})
  /\ Kept("t_on_session_list_deep_link", {"routerReady", "userSelectSession"})
  /\ Kept("t_on_session_list_deep_link", {"routerReady"})
  /\ Kept("t_on_session_list_deep_link", {"deadLetter"})
  /\ Kept("t_on_event", {"uiState", "stateDirty", "routerReady"})
  /\ Kept("t_on_event", {"uiState", "deadLetter"})
  /\ Kept("t_drop_event", {"deadLetter"})
  /\ Kept("t_on_event_batch", {"uiState", "stateDirty", "routerReady"})
  /\ Kept("t_on_event_batch", {"uiState", "deadLetter"})
  /\ Kept("t_on_replay_event_batch", {"uiState", "stateDirty", "routerReady"})
  /\ Kept("t_on_replay_event_batch", {"uiState", "deadLetter"})
  /\ Kept("t_drop_event_batch", {"deadLetter"})
  /\ Kept("t_on_marking_snapshot", {"uiState", "stateDirty", "routerReady"})
  /\ Kept("t_on_marking_snapshot", {"uiState", "deadLetter"})
  /\ Kept("t_drop_marking_snapshot", {"deadLetter"})
  /\ Kept("t_on_playback_state", {"routerReady"})
  /\ Kept("t_on_playback_state", {"deadLetter"})
  /\ Kept("t_on_breakpoint_hit", {"routerReady"})
  /\ Kept("t_on_breakpoint_hit", {"deadLetter"})
  /\ Kept("t_on_bp_list", {"breakpoints", "routerReady"})
  /\ Kept("t_on_bp_list", {"breakpoints", "deadLetter"})
  /\ Kept("t_on_bp_set", {"routerReady"})
  /\ Kept("t_on_bp_set", {"deadLetter"})
  /\ Kept("t_on_bp_cleared", {"routerReady"})
  /\ Kept("t_on_bp_cleared", {"deadLetter"})
  /\ Kept("t_on_filter_applied", {"routerReady"})
  /\ Kept("t_on_filter_applied", {"deadLetter"})
  /\ Kept("t_on_error", {"routerReady"})
  /\ Kept("t_on_error", {"deadLetter"})
<1>1. Kept("t_log_dead_letter", {"routerReady"})
  <2>1. Row("t_log_dead_letter", {"deadLetter"}, {}, {}, {}, {})
    BY RouterRows
  <2> QED
    BY <2>1, RoutePlaces DEF Row, Kept, HandsOn, KeepsSums, Gain, Stirs, Quiet, Tested, Permit,
                              Phases, Frames
<1>2. Kept("t_drop_subscribed", {"deadLetter"})
  <2>1. Row("t_drop_subscribed", {"msgSubscribed"}, {}, {}, {"subscribing"}, {})
    BY RouterRows
  <2> QED
    BY <2>1, RoutePlaces DEF Row, Kept, HandsOn, KeepsSums, Gain, Stirs, Quiet, Tested, Permit,
                              Phases, Frames
<1>3. Kept("t_on_unsubscribed", {"routerReady"}) /\ Kept("t_on_unsubscribed", {"deadLetter"})
  <2>1. Row("t_on_unsubscribed", {"msgUnsubscribed"}, {}, {}, {}, {})
    BY RouterRows
  <2> QED
    BY <2>1, RoutePlaces DEF Row, Kept, HandsOn, KeepsSums, Gain, Stirs, Quiet, Tested, Permit,
                              Phases, Frames
<1>4. Kept("t_on_session_list", {"routerReady"}) /\ Kept("t_on_session_list", {"deadLetter"})
  <2>1. Row("t_on_session_list", {"msgSessionList"}, {}, {}, {"deepLink"}, {})
    BY RouterRows
  <2> QED
    BY <2>1, RoutePlaces DEF Row, Kept, HandsOn, KeepsSums, Gain, Stirs, Quiet, Tested, Permit,
                              Phases, Frames
<1>5. /\ Kept("t_on_session_list_deep_link", {"routerReady", "userSelectSession"})
      /\ Kept("t_on_session_list_deep_link", {"routerReady"})
      /\ Kept("t_on_session_list_deep_link", {"deadLetter"})
  <2>1. Row("t_on_session_list_deep_link", {"msgSessionList", "deepLink"}, {}, {}, {}, {})
    BY RouterRows
  <2> QED
    BY <2>1, RoutePlaces DEF Row, Kept, HandsOn, KeepsSums, Gain, Stirs, Quiet, Tested, Permit,
                              Phases, Frames
<1>6. /\ Kept("t_on_event", {"uiState", "stateDirty", "routerReady"})
      /\ Kept("t_on_event", {"uiState", "deadLetter"})
  <2>1. Row("t_on_event", {"msgEvent", "uiState"}, {}, {"subscribedSession"}, {}, {})
    BY RouterRows
  <2> QED
    BY <2>1, RoutePlaces DEF Row, Kept, HandsOn, KeepsSums, Gain, Stirs, Quiet, Tested, Permit,
                              Phases, Frames
<1>7. Kept("t_drop_event", {"deadLetter"})
  <2>1. Row("t_drop_event", {"msgEvent"}, {}, {}, {"subscribedSession"}, {})
    BY RouterRows
  <2> QED
    BY <2>1, RoutePlaces DEF Row, Kept, HandsOn, KeepsSums, Gain, Stirs, Quiet, Tested, Permit,
                              Phases, Frames
<1>8. /\ Kept("t_on_event_batch", {"uiState", "stateDirty", "routerReady"})
      /\ Kept("t_on_event_batch", {"uiState", "deadLetter"})
  <2>1. Row("t_on_event_batch",
            {"msgEventBatch", "uiState"}, {}, {"subscribedSession", "liveSession"}, {}, {})
    BY RouterRows
  <2> QED
    BY <2>1, RoutePlaces DEF Row, Kept, HandsOn, KeepsSums, Gain, Stirs, Quiet, Tested, Permit,
                              Phases, Frames
<1>9. /\ Kept("t_on_replay_event_batch", {"uiState", "stateDirty", "routerReady"})
      /\ Kept("t_on_replay_event_batch", {"uiState", "deadLetter"})
  <2>1. Row("t_on_replay_event_batch",
            {"msgEventBatch", "uiState"}, {}, {"subscribedSession", "replaySession"}, {}, {})
    BY RouterRows
  <2> QED
    BY <2>1, RoutePlaces DEF Row, Kept, HandsOn, KeepsSums, Gain, Stirs, Quiet, Tested, Permit,
                              Phases, Frames
<1>10. Kept("t_drop_event_batch", {"deadLetter"})
  <2>1. Row("t_drop_event_batch", {"msgEventBatch"}, {}, {}, {"subscribedSession"}, {})
    BY RouterRows
  <2> QED
    BY <2>1, RoutePlaces DEF Row, Kept, HandsOn, KeepsSums, Gain, Stirs, Quiet, Tested, Permit,
                              Phases, Frames
<1>11. /\ Kept("t_on_marking_snapshot", {"uiState", "stateDirty", "routerReady"})
       /\ Kept("t_on_marking_snapshot", {"uiState", "deadLetter"})
  <2>1. Row("t_on_marking_snapshot",
            {"msgMarkingSnapshot", "uiState"}, {}, {"subscribedSession"}, {}, {})
    BY RouterRows
  <2> QED
    BY <2>1, RoutePlaces DEF Row, Kept, HandsOn, KeepsSums, Gain, Stirs, Quiet, Tested, Permit,
                              Phases, Frames
<1>12. Kept("t_drop_marking_snapshot", {"deadLetter"})
  <2>1. Row("t_drop_marking_snapshot", {"msgMarkingSnapshot"}, {}, {}, {"subscribedSession"}, {})
    BY RouterRows
  <2> QED
    BY <2>1, RoutePlaces DEF Row, Kept, HandsOn, KeepsSums, Gain, Stirs, Quiet, Tested, Permit,
                              Phases, Frames
<1>13. Kept("t_on_playback_state", {"routerReady"}) /\ Kept("t_on_playback_state", {"deadLetter"})
  <2>1. Row("t_on_playback_state", {"msgPlaybackState"}, {}, {}, {}, {})
    BY RouterRows
  <2> QED
    BY <2>1, RoutePlaces DEF Row, Kept, HandsOn, KeepsSums, Gain, Stirs, Quiet, Tested, Permit,
                              Phases, Frames
<1>14. Kept("t_on_breakpoint_hit", {"routerReady"}) /\ Kept("t_on_breakpoint_hit", {"deadLetter"})
  <2>1. Row("t_on_breakpoint_hit", {"msgBreakpointHit"}, {}, {}, {}, {})
    BY RouterRows
  <2> QED
    BY <2>1, RoutePlaces DEF Row, Kept, HandsOn, KeepsSums, Gain, Stirs, Quiet, Tested, Permit,
                              Phases, Frames
<1>15. /\ Kept("t_on_bp_list", {"breakpoints", "routerReady"})
       /\ Kept("t_on_bp_list", {"breakpoints", "deadLetter"})
  <2>1. Row("t_on_bp_list", {"msgBreakpointList", "breakpoints"}, {}, {}, {}, {})
    BY RouterRows
  <2> QED
    BY <2>1, RoutePlaces DEF Row, Kept, HandsOn, KeepsSums, Gain, Stirs, Quiet, Tested, Permit,
                              Phases, Frames
<1>16. Kept("t_on_bp_set", {"routerReady"}) /\ Kept("t_on_bp_set", {"deadLetter"})
  <2>1. Row("t_on_bp_set", {"msgBreakpointSet"}, {}, {}, {}, {})
    BY RouterRows
  <2> QED
    BY <2>1, RoutePlaces DEF Row, Kept, HandsOn, KeepsSums, Gain, Stirs, Quiet, Tested, Permit,
                              Phases, Frames
<1>17. Kept("t_on_bp_cleared", {"routerReady"}) /\ Kept("t_on_bp_cleared", {"deadLetter"})
  <2>1. Row("t_on_bp_cleared", {"msgBreakpointCleared"}, {}, {}, {}, {})
    BY RouterRows
  <2> QED
    BY <2>1, RoutePlaces DEF Row, Kept, HandsOn, KeepsSums, Gain, Stirs, Quiet, Tested, Permit,
                              Phases, Frames
<1>18. Kept("t_on_filter_applied", {"routerReady"}) /\ Kept("t_on_filter_applied", {"deadLetter"})
  <2>1. Row("t_on_filter_applied", {"msgFilterApplied"}, {}, {}, {}, {})
    BY RouterRows
  <2> QED
    BY <2>1, RoutePlaces DEF Row, Kept, HandsOn, KeepsSums, Gain, Stirs, Quiet, Tested, Permit,
                              Phases, Frames
<1>19. Kept("t_on_error", {"routerReady"}) /\ Kept("t_on_error", {"deadLetter"})
  <2>1. Row("t_on_error", {"msgError"}, {}, {}, {}, {})
    BY RouterRows
  <2> QED
    BY <2>1, RoutePlaces DEF Row, Kept, HandsOn, KeepsSums, Gain, Stirs, Quiet, Tested, Permit,
                              Phases, Frames
<1> QED
  BY <1>1, <1>2, <1>3, <1>4, <1>5, <1>6, <1>7, <1>8, <1>9, <1>10, <1>11, <1>12, <1>13, <1>14,
     <1>15, <1>16, <1>17, <1>18, <1>19

\* The transitions of the diagram and the panels keep the equations, whatever they produce.
LEMMA RepaintKept ==
  /\ Kept("t_render_dot", {})
  /\ Kept("t_toggle_subnets", {"highlightDirty"})
  /\ Kept("t_toggle_subnets", {})
  /\ Kept("t_fan_out_dirty", {"highlightDirty", "logDirty", "markingDirty"})
  /\ Kept("t_frame", {"frameHighlight", "frameLog", "frameMarking"})
  /\ Kept("t_idle_frame", {})
  /\ Kept("t_update_highlighting", {})
  /\ Kept("t_skip_highlighting", {})
  /\ Kept("t_await_diagram", {})
  /\ Kept("t_update_event_log", {})
  /\ Kept("t_skip_event_log", {})
  /\ Kept("t_update_marking", {})
  /\ Kept("t_skip_marking", {})
<1>1. Kept("t_render_dot", {})
  <2>1. Row("t_render_dot", {"dotSource"}, {}, {}, {}, {"svgReady"})
    BY RepaintRows
  <2> QED
    BY <2>1, RoutePlaces DEF Row, Kept, HandsOn, KeepsSums, Gain, Stirs, Quiet, Tested, Permit,
                              Phases, Frames
<1>2. Kept("t_toggle_subnets", {"highlightDirty"}) /\ Kept("t_toggle_subnets", {})
  <2>1. Row("t_toggle_subnets", {"userToggleSubnets"}, {}, {}, {}, {})
    BY RepaintRows
  <2> QED
    BY <2>1, RoutePlaces DEF Row, Kept, HandsOn, KeepsSums, Gain, Stirs, Quiet, Tested, Permit,
                              Phases, Frames
<1>3. Kept("t_fan_out_dirty", {"highlightDirty", "logDirty", "markingDirty"})
  <2>1. Row("t_fan_out_dirty", {"stateDirty"}, {}, {}, {}, {})
    BY RepaintRows
  <2> QED
    BY <2>1, RoutePlaces DEF Row, Kept, HandsOn, KeepsSums, Gain, Stirs, Quiet, Tested, Permit,
                              Phases, Frames
<1>4. Kept("t_frame", {"frameHighlight", "frameLog", "frameMarking"})
  <2>1. Row("t_frame", {}, {"rafTick"}, {"uiState"}, {}, {})
    BY RepaintRows
  <2> QED
    BY <2>1, RoutePlaces DEF Row, Kept, HandsOn, KeepsSums, Gain, Stirs, Quiet, Tested, Permit,
                              Phases, Frames
<1>5. Kept("t_idle_frame", {})
  <2>1. Row("t_idle_frame", {}, {"rafTick"}, {}, {"uiState"}, {})
    BY RepaintRows
  <2> QED
    BY <2>1, RoutePlaces DEF Row, Kept, HandsOn, KeepsSums, Gain, Stirs, Quiet, Tested, Permit,
                              Phases, Frames
<1>6. Kept("t_update_highlighting", {})
  <2>1. Row("t_update_highlighting",
            {"frameHighlight"}, {"highlightDirty"}, {"svgReady", "uiState"}, {}, {})
    BY RepaintRows
  <2> QED
    BY <2>1, RoutePlaces DEF Row, Kept, HandsOn, KeepsSums, Gain, Stirs, Quiet, Tested, Permit,
                              Phases, Frames
<1>7. Kept("t_skip_highlighting", {})
  <2>1. Row("t_skip_highlighting", {"frameHighlight"}, {}, {}, {"highlightDirty"}, {})
    BY RepaintRows
  <2> QED
    BY <2>1, RoutePlaces DEF Row, Kept, HandsOn, KeepsSums, Gain, Stirs, Quiet, Tested, Permit,
                              Phases, Frames
<1>8. Kept("t_await_diagram", {})
  <2>1. Row("t_await_diagram", {"frameHighlight"}, {}, {}, {"svgReady"}, {})
    BY RepaintRows
  <2> QED
    BY <2>1, RoutePlaces DEF Row, Kept, HandsOn, KeepsSums, Gain, Stirs, Quiet, Tested, Permit,
                              Phases, Frames
<1>9. Kept("t_update_event_log", {})
  <2>1. Row("t_update_event_log", {"frameLog"}, {"logDirty"}, {"uiState", "filterState"}, {}, {})
    BY RepaintRows
  <2> QED
    BY <2>1, RoutePlaces DEF Row, Kept, HandsOn, KeepsSums, Gain, Stirs, Quiet, Tested, Permit,
                              Phases, Frames
<1>10. Kept("t_skip_event_log", {})
  <2>1. Row("t_skip_event_log", {"frameLog"}, {}, {}, {"logDirty"}, {})
    BY RepaintRows
  <2> QED
    BY <2>1, RoutePlaces DEF Row, Kept, HandsOn, KeepsSums, Gain, Stirs, Quiet, Tested, Permit,
                              Phases, Frames
<1>11. Kept("t_update_marking", {})
  <2>1. Row("t_update_marking", {"frameMarking"}, {"markingDirty"}, {"uiState"}, {}, {})
    BY RepaintRows
  <2> QED
    BY <2>1, RoutePlaces DEF Row, Kept, HandsOn, KeepsSums, Gain, Stirs, Quiet, Tested, Permit,
                              Phases, Frames
<1>12. Kept("t_skip_marking", {})
  <2>1. Row("t_skip_marking", {"frameMarking"}, {}, {}, {"markingDirty"}, {})
    BY RepaintRows
  <2> QED
    BY <2>1, RoutePlaces DEF Row, Kept, HandsOn, KeepsSums, Gain, Stirs, Quiet, Tested, Permit,
                              Phases, Frames
<1> QED
  BY <1>1, <1>2, <1>3, <1>4, <1>5, <1>6, <1>7, <1>8, <1>9, <1>10, <1>11, <1>12

\* The transitions of replay playback and live control keep the equations, whatever they produce.
LEMMA PlaybackKept ==
  /\ Kept("t_replay_play", {"replayPlaying", "autoStepTick"})
  /\ Kept("t_replay_play_from_bp", {"replayPlaying", "autoStepTick"})
  /\ Kept("t_replay_auto_step", {"uiState", "replayPaused"})
  /\ Kept("t_replay_auto_step", {"uiState", "breakpointPaused"})
  /\ Kept("t_replay_auto_step", {"uiState", "stateDirty", "replayPlaying"})
  /\ Kept("t_replay_pause", {"replayPaused"})
  /\ Kept("t_drop_stale_tick", {})
  /\ Kept("t_replay_step_fwd", {"uiState", "stateDirty"})
  /\ Kept("t_replay_step_back", {"uiState", "stateDirty"})
  /\ Kept("t_replay_seek", {"uiState", "stateDirty"})
  /\ Kept("t_replay_restart", {"uiState", "stateDirty"})
  /\ Kept("t_replay_run_to_end", {"uiState", "stateDirty"})
  /\ Kept("t_live_pause", {})
  /\ Kept("t_live_resume", {})
  /\ Kept("t_live_step_fwd", {})
  /\ Kept("t_live_step_back", {})
<1>1. Kept("t_replay_play", {"replayPlaying", "autoStepTick"})
  <2>1. Row("t_replay_play", {"replayPaused", "userClickPlay"}, {}, {"replaySession"}, {}, {})
    BY PlaybackRows
  <2> QED
    BY <2>1, RoutePlaces DEF Row, Kept, HandsOn, KeepsSums, Gain, Stirs, Quiet, Tested, Permit,
                              Phases, Frames
<1>2. Kept("t_replay_play_from_bp", {"replayPlaying", "autoStepTick"})
  <2>1. Row("t_replay_play_from_bp",
            {"breakpointPaused", "userClickPlay"}, {}, {"replaySession"}, {}, {})
    BY PlaybackRows
  <2> QED
    BY <2>1, RoutePlaces DEF Row, Kept, HandsOn, KeepsSums, Gain, Stirs, Quiet, Tested, Permit,
                              Phases, Frames
<1>3. /\ Kept("t_replay_auto_step", {"uiState", "replayPaused"})
      /\ Kept("t_replay_auto_step", {"uiState", "breakpointPaused"})
      /\ Kept("t_replay_auto_step", {"uiState", "stateDirty", "replayPlaying"})
  <2>1. Row("t_replay_auto_step",
            {"autoStepTick", "replayPlaying", "uiState"}, {}, {"breakpoints"}, {}, {})
    BY PlaybackRows
  <2> QED
    BY <2>1, RoutePlaces DEF Row, Kept, HandsOn, KeepsSums, Gain, Stirs, Quiet, Tested, Permit,
                              Phases, Frames
<1>4. Kept("t_replay_pause", {"replayPaused"})
  <2>1. Row("t_replay_pause", {"replayPlaying", "userClickPause"}, {}, {}, {}, {})
    BY PlaybackRows
  <2> QED
    BY <2>1, RoutePlaces DEF Row, Kept, HandsOn, KeepsSums, Gain, Stirs, Quiet, Tested, Permit,
                              Phases, Frames
<1>5. Kept("t_drop_stale_tick", {})
  <2>1. Row("t_drop_stale_tick", {"autoStepTick"}, {}, {}, {"replayPlaying"}, {})
    BY PlaybackRows
  <2> QED
    BY <2>1, RoutePlaces DEF Row, Kept, HandsOn, KeepsSums, Gain, Stirs, Quiet, Tested, Permit,
                              Phases, Frames
<1>6. Kept("t_replay_step_fwd", {"uiState", "stateDirty"})
  <2>1. Row("t_replay_step_fwd", {"uiState", "userClickStepFwd"}, {}, {"replaySession"}, {}, {})
    BY PlaybackRows
  <2> QED
    BY <2>1, RoutePlaces DEF Row, Kept, HandsOn, KeepsSums, Gain, Stirs, Quiet, Tested, Permit,
                              Phases, Frames
<1>7. Kept("t_replay_step_back", {"uiState", "stateDirty"})
  <2>1. Row("t_replay_step_back", {"uiState", "userClickStepBack"}, {}, {"replaySession"}, {}, {})
    BY PlaybackRows
  <2> QED
    BY <2>1, RoutePlaces DEF Row, Kept, HandsOn, KeepsSums, Gain, Stirs, Quiet, Tested, Permit,
                              Phases, Frames
<1>8. Kept("t_replay_seek", {"uiState", "stateDirty"})
  <2>1. Row("t_replay_seek", {"uiState", "userSeekSlider"}, {}, {"replaySession"}, {}, {})
    BY PlaybackRows
  <2> QED
    BY <2>1, RoutePlaces DEF Row, Kept, HandsOn, KeepsSums, Gain, Stirs, Quiet, Tested, Permit,
                              Phases, Frames
<1>9. Kept("t_replay_restart", {"uiState", "stateDirty"})
  <2>1. Row("t_replay_restart", {"uiState", "userClickRestart"}, {}, {"replaySession"}, {}, {})
    BY PlaybackRows
  <2> QED
    BY <2>1, RoutePlaces DEF Row, Kept, HandsOn, KeepsSums, Gain, Stirs, Quiet, Tested, Permit,
                              Phases, Frames
<1>10. Kept("t_replay_run_to_end", {"uiState", "stateDirty"})
  <2>1. Row("t_replay_run_to_end", {"uiState", "userClickRunToEnd"}, {}, {"replaySession"}, {}, {})
    BY PlaybackRows
  <2> QED
    BY <2>1, RoutePlaces DEF Row, Kept, HandsOn, KeepsSums, Gain, Stirs, Quiet, Tested, Permit,
                              Phases, Frames
<1>11. Kept("t_live_pause", {})
  <2>1. Row("t_live_pause", {"userClickPause"}, {}, {"liveSession"}, {}, {})
    BY PlaybackRows
  <2> QED
    BY <2>1, RoutePlaces DEF Row, Kept, HandsOn, KeepsSums, Gain, Stirs, Quiet, Tested, Permit,
                              Phases, Frames
<1>12. Kept("t_live_resume", {})
  <2>1. Row("t_live_resume", {"userClickPlay"}, {}, {"liveSession"}, {}, {})
    BY PlaybackRows
  <2> QED
    BY <2>1, RoutePlaces DEF Row, Kept, HandsOn, KeepsSums, Gain, Stirs, Quiet, Tested, Permit,
                              Phases, Frames
<1>13. Kept("t_live_step_fwd", {})
  <2>1. Row("t_live_step_fwd", {"userClickStepFwd"}, {}, {"liveSession"}, {}, {})
    BY PlaybackRows
  <2> QED
    BY <2>1, RoutePlaces DEF Row, Kept, HandsOn, KeepsSums, Gain, Stirs, Quiet, Tested, Permit,
                              Phases, Frames
<1>14. Kept("t_live_step_back", {})
  <2>1. Row("t_live_step_back", {"userClickStepBack"}, {}, {"liveSession"}, {}, {})
    BY PlaybackRows
  <2> QED
    BY <2>1, RoutePlaces DEF Row, Kept, HandsOn, KeepsSums, Gain, Stirs, Quiet, Tested, Permit,
                              Phases, Frames
<1> QED
  BY <1>1, <1>2, <1>3, <1>4, <1>5, <1>6, <1>7, <1>8, <1>9, <1>10, <1>11, <1>12, <1>13, <1>14

\* The transitions of the inspectors and the archives keep the equations, whatever they produce.
LEMMA ToolsKept ==
  /\ Kept("t_inspect_place", {"selectedPlace"})
  /\ Kept("t_open_modal", {"modalOpen"})
  /\ Kept("t_close_modal", {"modalClosed"})
  /\ Kept("t_set_breakpoint", {"breakpoints"})
  /\ Kept("t_clear_breakpoint", {"breakpoints"})
  /\ Kept("t_apply_filter", {"filterState", "logDirty"})
  /\ Kept("t_search", {"searchState"})
  /\ Kept("t_search_next", {"searchState"})
  /\ Kept("t_search_prev", {"searchState"})
  /\ Kept("t_set_speed", {})
  /\ Kept("t_open_archive_browser", {})
  /\ Kept("t_on_archive_list", {"routerReady"})
  /\ Kept("t_on_archive_list", {"deadLetter"})
  /\ Kept("t_import_archive", {})
  /\ Kept("t_upload_archive", {})
  /\ Kept("t_on_archive_imported", {"routerReady", "userSelectSession"})
  /\ Kept("t_on_archive_imported", {"deadLetter"})
  /\ Kept("t_filter_net_name", {})
<1>1. Kept("t_inspect_place", {"selectedPlace"})
  <2>1. Row("t_inspect_place", {"userClickPlace"}, {}, {"uiState"}, {}, {"selectedPlace"})
    BY ToolsRows
  <2> QED
    BY <2>1, RoutePlaces DEF Row, Kept, HandsOn, KeepsSums, Gain, Stirs, Quiet, Tested, Permit,
                              Phases, Frames
<1>2. Kept("t_open_modal", {"modalOpen"})
  <2>1. Row("t_open_modal", {"modalClosed", "userOpenModal"}, {}, {}, {}, {})
    BY ToolsRows
  <2> QED
    BY <2>1, RoutePlaces DEF Row, Kept, HandsOn, KeepsSums, Gain, Stirs, Quiet, Tested, Permit,
                              Phases, Frames
<1>3. Kept("t_close_modal", {"modalClosed"})
  <2>1. Row("t_close_modal", {"modalOpen", "userCloseModal"}, {}, {}, {}, {})
    BY ToolsRows
  <2> QED
    BY <2>1, RoutePlaces DEF Row, Kept, HandsOn, KeepsSums, Gain, Stirs, Quiet, Tested, Permit,
                              Phases, Frames
<1>4. Kept("t_set_breakpoint", {"breakpoints"})
  <2>1. Row("t_set_breakpoint", {"breakpoints", "userSetBreakpoint"}, {}, {}, {}, {})
    BY ToolsRows
  <2> QED
    BY <2>1, RoutePlaces DEF Row, Kept, HandsOn, KeepsSums, Gain, Stirs, Quiet, Tested, Permit,
                              Phases, Frames
<1>5. Kept("t_clear_breakpoint", {"breakpoints"})
  <2>1. Row("t_clear_breakpoint", {"breakpoints", "userClearBreakpoint"}, {}, {}, {}, {})
    BY ToolsRows
  <2> QED
    BY <2>1, RoutePlaces DEF Row, Kept, HandsOn, KeepsSums, Gain, Stirs, Quiet, Tested, Permit,
                              Phases, Frames
<1>6. Kept("t_apply_filter", {"filterState", "logDirty"})
  <2>1. Row("t_apply_filter", {"filterState", "userApplyFilter"}, {}, {}, {}, {})
    BY ToolsRows
  <2> QED
    BY <2>1, RoutePlaces DEF Row, Kept, HandsOn, KeepsSums, Gain, Stirs, Quiet, Tested, Permit,
                              Phases, Frames
<1>7. Kept("t_search", {"searchState"})
  <2>1. Row("t_search", {"searchState", "userSearch"}, {}, {"uiState"}, {}, {})
    BY ToolsRows
  <2> QED
    BY <2>1, RoutePlaces DEF Row, Kept, HandsOn, KeepsSums, Gain, Stirs, Quiet, Tested, Permit,
                              Phases, Frames
<1>8. Kept("t_search_next", {"searchState"})
  <2>1. Row("t_search_next", {"searchState", "userSearchNext"}, {}, {}, {}, {})
    BY ToolsRows
  <2> QED
    BY <2>1, RoutePlaces DEF Row, Kept, HandsOn, KeepsSums, Gain, Stirs, Quiet, Tested, Permit,
                              Phases, Frames
<1>9. Kept("t_search_prev", {"searchState"})
  <2>1. Row("t_search_prev", {"searchState", "userSearchPrev"}, {}, {}, {}, {})
    BY ToolsRows
  <2> QED
    BY <2>1, RoutePlaces DEF Row, Kept, HandsOn, KeepsSums, Gain, Stirs, Quiet, Tested, Permit,
                              Phases, Frames
<1>10. Kept("t_set_speed", {})
  <2>1. Row("t_set_speed", {"userSetSpeed"}, {}, {}, {}, {})
    BY ToolsRows
  <2> QED
    BY <2>1, RoutePlaces DEF Row, Kept, HandsOn, KeepsSums, Gain, Stirs, Quiet, Tested, Permit,
                              Phases, Frames
<1>11. Kept("t_open_archive_browser", {})
  <2>1. Row("t_open_archive_browser", {"userOpenArchiveBrowser"}, {}, {"connected"}, {}, {})
    BY ToolsRows
  <2> QED
    BY <2>1, RoutePlaces DEF Row, Kept, HandsOn, KeepsSums, Gain, Stirs, Quiet, Tested, Permit,
                              Phases, Frames
<1>12. Kept("t_on_archive_list", {"routerReady"}) /\ Kept("t_on_archive_list", {"deadLetter"})
  <2>1. Row("t_on_archive_list", {"msgArchiveList"}, {}, {}, {}, {})
    BY ToolsRows
  <2> QED
    BY <2>1, RoutePlaces DEF Row, Kept, HandsOn, KeepsSums, Gain, Stirs, Quiet, Tested, Permit,
                              Phases, Frames
<1>13. Kept("t_import_archive", {})
  <2>1. Row("t_import_archive", {"userImportArchive"}, {}, {"connected"}, {}, {})
    BY ToolsRows
  <2> QED
    BY <2>1, RoutePlaces DEF Row, Kept, HandsOn, KeepsSums, Gain, Stirs, Quiet, Tested, Permit,
                              Phases, Frames
<1>14. Kept("t_upload_archive", {})
  <2>1. Row("t_upload_archive", {"userUploadArchive"}, {}, {"connected"}, {}, {})
    BY ToolsRows
  <2> QED
    BY <2>1, RoutePlaces DEF Row, Kept, HandsOn, KeepsSums, Gain, Stirs, Quiet, Tested, Permit,
                              Phases, Frames
<1>15. /\ Kept("t_on_archive_imported", {"routerReady", "userSelectSession"})
       /\ Kept("t_on_archive_imported", {"deadLetter"})
  <2>1. Row("t_on_archive_imported", {"msgArchiveImported"}, {}, {}, {}, {})
    BY ToolsRows
  <2> QED
    BY <2>1, RoutePlaces DEF Row, Kept, HandsOn, KeepsSums, Gain, Stirs, Quiet, Tested, Permit,
                              Phases, Frames
<1>16. Kept("t_filter_net_name", {})
  <2>1. Row("t_filter_net_name", {"userFilterNetName"}, {}, {}, {}, {})
    BY ToolsRows
  <2> QED
    BY <2>1, RoutePlaces DEF Row, Kept, HandsOn, KeepsSums, Gain, Stirs, Quiet, Tested, Permit,
                              Phases, Frames
<1> QED
  BY <1>1, <1>2, <1>3, <1>4, <1>5, <1>6, <1>7, <1>8, <1>9, <1>10, <1>11, <1>12, <1>13, <1>14,
     <1>15, <1>16

\* A message goes to its place, or to the dead letters.
LEMMA RouteKept ==
  /\ Kept("t_route_message", {"deadLetter"})
  /\ \A r \in Routes : Kept("t_route_message", {r})
<1>1. Row("t_route_message", {"wsMessage", "routerReady"}, {}, {}, {}, {})
  BY RouterRows
<1>2. Kept("t_route_message", {"deadLetter"})
  BY <1>1, RoutePlaces DEF Row, Kept, HandsOn, KeepsSums, Gain, Stirs, Tested, Permit, Phases,
                           Frames
<1>3. ASSUME NEW r \in Routes
      PROVE  Kept("t_route_message", {r})
  <2>1. /\ r \in Permit /\ r \notin Phases \cup Frames
        /\ r \notin {"liveSession", "replaySession", "replayPaused", "replayPlaying",
                     "breakpointPaused", "uiState", "breakpoints", "filterState"}
    BY RoutePlaces DEF Permit, Phases, Frames
  <2>2. HandsOn("t_route_message", {r}, Permit)
    <3>1. /\ Arcs["t_route_message"].one \cap Permit = {"routerReady"} /\ {r} \cap Permit = {r}
          /\ "routerReady" \in Permit
      BY <1>1, <2>1, RoutePlaces DEF Row, Permit
    <3> QED
      BY <2>1, <3>1 DEF HandsOn
  <2>3. HandsOn("t_route_message", {r}, Phases)
    BY <1>1, <2>1 DEF Row, HandsOn, Phases
  <2>4. KeepsSums("t_route_message", {r})
    BY <1>1, <2>1 DEF Row, KeepsSums, Gain, Phases
  <2>5. Stirs("t_route_message") /\ {r} \cap Frames = {}
    BY <1>1, <2>1 DEF Row, Stirs, Tested
  <2> QED
    BY <1>1, <2>2, <2>3, <2>4, <2>5 DEF Row, Kept
<1> QED
  BY <1>2, <1>3

\* A subscription brings one session in one mode, or none.
LEMMA SubscribedKept ==
  /\ \A msg : Kept("t_on_subscribed", DOMAIN SessionTokens(msg))
  /\ Kept("t_on_subscribed", {"noSession", "deadLetter"})
<1>1. Row("t_on_subscribed", {"msgSubscribed", "subscribing"}, {}, {}, {}, {})
  BY RouterRows
<1>2. Kept("t_on_subscribed", {"noSession", "deadLetter"})
  BY <1>1, RoutePlaces DEF Row, Kept, HandsOn, KeepsSums, Gain, Stirs, Tested, Permit, Phases,
                           Frames
<1>3. ASSUME NEW msg
      PROVE  Kept("t_on_subscribed", DOMAIN SessionTokens(msg))
  <2>1. \/ DOMAIN SessionTokens(msg) =
             {"subscribedSession", "replaySession", "replayPaused", "uiState", "dotSource",
              "stateDirty", "routerReady"}
        \/ DOMAIN SessionTokens(msg) =
             {"subscribedSession", "liveSession", "uiState", "dotSource", "stateDirty",
              "routerReady"}
    BY DEF SessionTokens
  <2>2. CASE DOMAIN SessionTokens(msg) =
               {"subscribedSession", "replaySession", "replayPaused", "uiState", "dotSource",
                "stateDirty", "routerReady"}
    BY <1>1, <2>2, RoutePlaces DEF Row, Kept, HandsOn, KeepsSums, Gain, Stirs, Tested, Permit,
                                   Phases, Frames
  <2>3. CASE DOMAIN SessionTokens(msg) =
               {"subscribedSession", "liveSession", "uiState", "dotSource", "stateDirty",
                "routerReady"}
    BY <1>1, <2>3, RoutePlaces DEF Row, Kept, HandsOn, KeepsSums, Gain, Stirs, Tested, Permit,
                                   Phases, Frames
  <2> QED
    BY <2>1, <2>2, <2>3
<1> QED
  BY <1>2, <1>3

-----------------------------------------------------------------------------
(* The executor's steps.                                                   *)

\* A transition that fires, or throws.
LEMMA FireKeeps ==
  ASSUME UIInvariant, NEW t, NEW outs, Fire(t, outs) \/ Threw(t, outs), Kept(t, DOMAIN outs),
         NamesSession(t, outs)
  PROVE  UIInvariant'
<1>1. Start(t, outs, Awaiting) /\ awaiting' = awaiting
  BY DEF Fire, Threw
<1>2. DOMAIN awaiting' = Awaiting /\ Awaiting \subseteq {"t_render_dot", "t_toggle_subnets"}
  BY <1>1 DEF Awaiting, UIInvariant, Agenda
<1> QED
  BY <1>1, <1>2, StartKeeps

\* One that has nothing to do with the session.
LEMMA FireApart ==
  ASSUME UIInvariant, NEW t, NEW outs, NEW D, Fire(t, outs) \/ Threw(t, outs), DOMAIN outs = D,
         Kept(t, D), session' = session, "subscribedSession" \notin D
  PROVE  UIInvariant'
  BY FireKeeps DEF NamesSession

\* A handler of a message without a result.
LEMMA MessageKeeps ==
  ASSUME UIInvariant, NEW t, OnMessage(t), session' = session,
         Kept(t, {"routerReady"}), Kept(t, {"deadLetter"})
  PROVE  UIInvariant'
  BY FireApart DEF OnMessage

\* A handler that folds a message into uiState.
LEMMA SessionMessageKeeps ==
  ASSUME UIInvariant, NEW t, NEW next, OnSessionMessage(t, next), session' = session,
         Kept(t, {"uiState", "stateDirty", "routerReady"}), Kept(t, {"uiState", "deadLetter"})
  PROVE  UIInvariant'
  BY FireApart DEF OnSessionMessage

\* A replay command.
LEMMA ReplayCommandKeeps ==
  ASSUME UIInvariant, NEW t, NEW next, OnReplayCommand(t, next), Kept(t, {"uiState", "stateDirty"})
  PROVE  UIInvariant'
  BY FireApart DEF OnReplayCommand

\* A change of session.
LEMMA SwitchKeeps ==
  ASSUME UIInvariant, NEW t, SwitchFrom(t), "subscribedSession" \in Arcs[t].one,
         Kept(t, {"subscribing"}), Kept(t, {"noSession"})
  PROVE  UIInvariant'
<1>1. CASE Fire(t, [subscribing |-> Selection.session])
  BY <1>1, FireKeeps DEF NamesSession
<1>2. CASE Threw(t, [noSession |-> Unit])
  BY <1>2, FireKeeps DEF NamesSession
<1> QED
  BY <1>1, <1>2 DEF SwitchFrom

\* The router.
LEMMA RouteMessageKeeps ==
  ASSUME UIInvariant, t_route_message
  PROVE  UIInvariant'
<1>1. PICK frame : frame = Head(m["wsMessage"])
  OBVIOUS
<1>2. session' = session
  BY DEF t_route_message, outside
<1>3. CASE frame.type \in DOMAIN messageRoutes
  <2>1. PICK r : r = messageRoutes[frame.type]
    OBVIOUS
  <2>2. r \in Routes
    BY <1>3, <2>1 DEF Routes
  <2>3. Fire("t_route_message", [p \in {r} |-> frame])
    BY <1>1, <1>3, <2>1 DEF t_route_message
  <2>4. "subscribedSession" \notin {r}
    BY <2>2, RoutePlaces
  <2> QED
    BY <1>2, <2>2, <2>3, <2>4, RouteKept, FireApart
<1>4. CASE frame.type \notin DOMAIN messageRoutes
  <2>1. Fire("t_route_message", [deadLetter |-> "unknown-type"])
    BY <1>1, <1>4 DEF t_route_message
  <2> QED
    BY <1>2, <2>1, RouteKept, FireApart
<1> QED
  BY <1>3, <1>4

\* An accepted subscription, or a refused one.
LEMMA SubscribedKeeps ==
  ASSUME UIInvariant, t_on_subscribed
  PROVE  UIInvariant'
<1>1. PICK msg : msg = Head(m["msgSubscribed"])
  OBVIOUS
<1>2. CASE TakeSession(msg)
  <2>1. Fire("t_on_subscribed", SessionTokens(msg)) /\ session' = msg.session
    BY <1>2 DEF TakeSession
  <2>2. /\ "subscribedSession" \in DOMAIN SessionTokens(msg)
        /\ SessionTokens(msg)["subscribedSession"] = msg.session
    BY DEF SessionTokens
  <2>3. "subscribing" \in Arcs["t_on_subscribed"].one
    BY RouterRows DEF Row
  <2> QED
    BY <2>1, <2>2, <2>3, SubscribedKept, FireKeeps DEF NamesSession
<1>3. CASE RefuseSession
  BY <1>3, SubscribedKept, FireApart DEF RefuseSession
<1> QED
  BY <1>1, <1>2, <1>3 DEF t_on_subscribed

\* An action that stays in flight.
LEMMA AsyncKeeps ==
  ASSUME UIInvariant, NEW t \in {"t_render_dot", "t_toggle_subnets"}, NEW dot, StartAsync(t, dot),
         Kept(t, {})
  PROVE  UIInvariant'
<1>1. /\ Start(t, NoOutput, Awaiting \cup {t}) /\ DOMAIN awaiting' = Awaiting \cup {t}
      /\ session' = session
  BY DEF StartAsync, outside
<1>2. Awaiting \subseteq {"t_render_dot", "t_toggle_subnets"}
  BY DEF UIInvariant, Agenda
<1>3. DOMAIN NoOutput = {}
  BY DEF NoOutput
<1> QED
  BY <1>1, <1>2, <1>3, StartKeeps DEF NamesSession

\* The connection.
LEMMA ConnectionKeeps ==
  ASSUME UIInvariant, Connection
  PROVE  UIInvariant'
<1>1. CASE t_connect
  BY <1>1, SessionKept, FireApart DEF t_connect
<1>2. CASE t_on_open
  BY <1>2, SessionKept, FireApart DEF t_on_open
<1>3. CASE t_on_close_connecting
  BY <1>3, SessionKept, FireApart DEF t_on_close_connecting, Disconnect
<1>4. CASE t_on_close_connected
  BY <1>4, SessionKept, FireApart DEF t_on_close_connected, Disconnect
<1> QED
  BY <1>1, <1>2, <1>3, <1>4 DEF Connection

\* The session phases.
LEMMA SessionPhaseKeeps ==
  ASSUME UIInvariant, SessionPhase
  PROVE  UIInvariant'
<1>1. CASE t_subscribe
  BY <1>1, SessionKept, FireApart DEF t_subscribe
<1>2. CASE t_switch_from_live
  <2>1. "subscribedSession" \in Arcs["t_switch_from_live"].one
    BY SessionRows DEF Row
  <2> QED
    BY <1>2, <2>1, SessionKept, SwitchKeeps DEF t_switch_from_live
<1>3. CASE t_switch_from_replay_paused
  <2>1. "subscribedSession" \in Arcs["t_switch_from_replay_paused"].one
    BY SessionRows DEF Row
  <2> QED
    BY <1>3, <2>1, SessionKept, SwitchKeeps DEF t_switch_from_replay_paused
<1>4. CASE t_switch_from_replay_playing
  <2>1. "subscribedSession" \in Arcs["t_switch_from_replay_playing"].one
    BY SessionRows DEF Row
  <2> QED
    BY <1>4, <2>1, SessionKept, SwitchKeeps DEF t_switch_from_replay_playing
<1>5. CASE t_switch_from_breakpoint
  <2>1. "subscribedSession" \in Arcs["t_switch_from_breakpoint"].one
    BY SessionRows DEF Row
  <2> QED
    BY <1>5, <2>1, SessionKept, SwitchKeeps DEF t_switch_from_breakpoint
<1>6. CASE t_abandon_subscribe
  BY <1>6, SessionKept, FireApart DEF t_abandon_subscribe, outside
<1> QED
  BY <1>1, <1>2, <1>3, <1>4, <1>5, <1>6 DEF SessionPhase

\* The message router.
LEMMA RouterKeeps ==
  ASSUME UIInvariant, Router
  PROVE  UIInvariant'
<1>1. CASE t_route_message
  BY <1>1, RouteMessageKeeps
<1>2. CASE t_log_dead_letter
  BY <1>2, RouterKept, FireApart DEF t_log_dead_letter, outside
<1>3. CASE t_on_subscribed
  BY <1>3, SubscribedKeeps
<1>4. CASE t_drop_subscribed
  BY <1>4, RouterKept, FireApart DEF t_drop_subscribed, DropWithout, outside
<1>5. CASE t_on_unsubscribed
  BY <1>5, RouterKept, MessageKeeps DEF t_on_unsubscribed, outside
<1>6. CASE t_on_session_list
  BY <1>6, RouterKept, MessageKeeps DEF t_on_session_list, outside
<1>7. CASE t_on_session_list_deep_link
  <2> DEFINE t == "t_on_session_list_deep_link"
             target == Head(m["deepLink"])
  <2>1. CASE target \in Sessions /\ Fire(t, [routerReady |-> Unit,
                      userSelectSession |-> [session |-> target, mode |-> "replay"]])
    BY <1>7, <2>1, RouterKept, FireApart DEF t_on_session_list_deep_link, outside
  <2>2. CASE Fire(t, [routerReady |-> Unit]) \/ Threw(t, [deadLetter |-> Failed])
    BY <1>7, <2>2, RouterKept, FireApart DEF t_on_session_list_deep_link, outside
  <2> QED
    BY <1>7, <2>1, <2>2 DEF t_on_session_list_deep_link
<1>8. CASE t_on_event
  BY <1>8, RouterKept, SessionMessageKeeps DEF t_on_event, outside
<1>9. CASE t_drop_event
  BY <1>9, RouterKept, FireApart DEF t_drop_event, DropWithout, outside
<1>10. CASE t_on_event_batch
  BY <1>10, RouterKept, SessionMessageKeeps DEF t_on_event_batch, outside
<1>11. CASE t_on_replay_event_batch
  BY <1>11, RouterKept, FireApart DEF t_on_replay_event_batch
<1>12. CASE t_drop_event_batch
  BY <1>12, RouterKept, FireApart DEF t_drop_event_batch, DropWithout, outside
<1>13. CASE t_on_marking_snapshot
  BY <1>13, RouterKept, SessionMessageKeeps DEF t_on_marking_snapshot, outside
<1>14. CASE t_drop_marking_snapshot
  BY <1>14, RouterKept, FireApart DEF t_drop_marking_snapshot, DropWithout, outside
<1>15. CASE t_on_playback_state
  BY <1>15, RouterKept, FireApart DEF t_on_playback_state
<1>16. CASE t_on_breakpoint_hit
  BY <1>16, RouterKept, FireApart DEF t_on_breakpoint_hit
<1>17. CASE t_on_bp_list
  BY <1>17, RouterKept, FireApart DEF t_on_bp_list, outside
<1>18. CASE t_on_bp_set
  BY <1>18, RouterKept, MessageKeeps DEF t_on_bp_set, outside
<1>19. CASE t_on_bp_cleared
  BY <1>19, RouterKept, MessageKeeps DEF t_on_bp_cleared, outside
<1>20. CASE t_on_filter_applied
  BY <1>20, RouterKept, MessageKeeps DEF t_on_filter_applied, outside
<1>21. CASE t_on_error
  BY <1>21, RouterKept, MessageKeeps DEF t_on_error, outside
<1>22. CASE t_on_archive_list
  BY <1>22, ToolsKept, MessageKeeps DEF t_on_archive_list, outside
<1>23. CASE t_on_archive_imported
  BY <1>23, ToolsKept, FireApart DEF t_on_archive_imported, outside
<1> QED
  BY <1>1, <1>2, <1>3, <1>4, <1>5, <1>6, <1>7, <1>8, <1>9, <1>10, <1>11, <1>12, <1>13, <1>14,
     <1>15, <1>16, <1>17, <1>18, <1>19, <1>20, <1>21, <1>22, <1>23 DEF Router

\* The diagram and the panels.
LEMMA RepaintKeeps ==
  ASSUME UIInvariant, Repaint
  PROVE  UIInvariant'
<1>1. CASE t_render_dot
  BY <1>1, RepaintKept, AsyncKeeps DEF t_render_dot
<1>2. CASE t_toggle_subnets
  <2>1. CASE Fire("t_toggle_subnets", [highlightDirty |-> Unit]) /\ UNCHANGED outside
    BY <2>1, RepaintKept, FireApart DEF outside
  <2>2. CASE StartAsync("t_toggle_subnets", screen.svg)
    BY <2>2, RepaintKept, AsyncKeeps
  <2> QED
    BY <1>2, <2>1, <2>2 DEF t_toggle_subnets
<1>3. CASE t_fan_out_dirty
  BY <1>3, RepaintKept, FireApart DEF t_fan_out_dirty, Silent, NoOutput, outside
<1>4. CASE t_frame
  BY <1>4, RepaintKept, FireApart DEF t_frame, Silent, NoOutput, outside
<1>5. CASE t_idle_frame
  BY <1>5, RepaintKept, FireApart DEF t_idle_frame, Silent, NoOutput, outside
<1>6. CASE t_update_highlighting
  BY <1>6, RepaintKept, FireApart DEF t_update_highlighting, Paint, NoOutput
<1>7. CASE t_skip_highlighting
  BY <1>7, RepaintKept, FireApart DEF t_skip_highlighting, Silent, NoOutput, outside
<1>8. CASE t_await_diagram
  BY <1>8, RepaintKept, FireApart DEF t_await_diagram, Silent, NoOutput, outside
<1>9. CASE t_update_event_log
  BY <1>9, RepaintKept, FireApart DEF t_update_event_log, Paint, NoOutput
<1>10. CASE t_skip_event_log
  BY <1>10, RepaintKept, FireApart DEF t_skip_event_log, Silent, NoOutput, outside
<1>11. CASE t_update_marking
  BY <1>11, RepaintKept, FireApart DEF t_update_marking, Paint, NoOutput
<1>12. CASE t_skip_marking
  BY <1>12, RepaintKept, FireApart DEF t_skip_marking, Silent, NoOutput, outside
<1> QED
  BY <1>1, <1>2, <1>3, <1>4, <1>5, <1>6, <1>7, <1>8, <1>9, <1>10, <1>11, <1>12 DEF Repaint

\* Replay playback and live control.
LEMMA PlaybackKeeps ==
  ASSUME UIInvariant, Playback
  PROVE  UIInvariant'
<1>1. CASE t_replay_play
  BY <1>1, PlaybackKept, FireApart DEF t_replay_play, StartPlaying
<1>2. CASE t_replay_play_from_bp
  BY <1>2, PlaybackKept, FireApart DEF t_replay_play_from_bp, StartPlaying
<1>3. CASE t_replay_auto_step
  BY <1>3, PlaybackKept, FireApart DEF t_replay_auto_step
<1>4. CASE t_replay_pause
  BY <1>4, PlaybackKept, FireApart DEF t_replay_pause
<1>5. CASE t_drop_stale_tick
  BY <1>5, PlaybackKept, FireApart DEF t_drop_stale_tick, Silent, NoOutput, outside
<1>6. CASE t_replay_step_fwd
  BY <1>6, PlaybackKept, ReplayCommandKeeps DEF t_replay_step_fwd
<1>7. CASE t_replay_step_back
  BY <1>7, PlaybackKept, ReplayCommandKeeps DEF t_replay_step_back
<1>8. CASE t_replay_seek
  BY <1>8, PlaybackKept, ReplayCommandKeeps DEF t_replay_seek
<1>9. CASE t_replay_restart
  BY <1>9, PlaybackKept, ReplayCommandKeeps DEF t_replay_restart
<1>10. CASE t_replay_run_to_end
  BY <1>10, PlaybackKept, ReplayCommandKeeps DEF t_replay_run_to_end
<1>11. CASE t_live_pause
  BY <1>11, PlaybackKept, FireApart DEF t_live_pause, LiveControl, Request, NoOutput
<1>12. CASE t_live_resume
  BY <1>12, PlaybackKept, FireApart DEF t_live_resume, LiveControl, Request, NoOutput
<1>13. CASE t_live_step_fwd
  BY <1>13, PlaybackKept, FireApart DEF t_live_step_fwd, LiveControl, Request, NoOutput
<1>14. CASE t_live_step_back
  BY <1>14, PlaybackKept, FireApart DEF t_live_step_back, LiveControl, Request, NoOutput
<1> QED
  BY <1>1, <1>2, <1>3, <1>4, <1>5, <1>6, <1>7, <1>8, <1>9, <1>10, <1>11, <1>12, <1>13, <1>14
     DEF Playback

\* The inspectors and the archives.
LEMMA ToolsKeep ==
  ASSUME UIInvariant, Tools
  PROVE  UIInvariant'
<1>1. CASE t_inspect_place
  BY <1>1, ToolsKept, FireApart DEF t_inspect_place, Silent, NoOutput, outside
<1>2. CASE t_open_modal
  BY <1>2, ToolsKept, FireApart DEF t_open_modal, Silent, NoOutput, outside
<1>3. CASE t_close_modal
  BY <1>3, ToolsKept, FireApart DEF t_close_modal, Silent, NoOutput, outside
<1>4. CASE t_set_breakpoint
  BY <1>4, ToolsKept, FireApart DEF t_set_breakpoint, OnBreakpointEdit, outside
<1>5. CASE t_clear_breakpoint
  BY <1>5, ToolsKept, FireApart DEF t_clear_breakpoint, OnBreakpointEdit, outside
<1>6. CASE t_apply_filter
  BY <1>6, ToolsKept, FireApart DEF t_apply_filter, Silent, NoOutput, outside
<1>7. CASE t_search
  BY <1>7, ToolsKept, FireApart DEF t_search, Searched, outside
<1>8. CASE t_search_next
  BY <1>8, ToolsKept, FireApart DEF t_search_next, Searched, outside
<1>9. CASE t_search_prev
  BY <1>9, ToolsKept, FireApart DEF t_search_prev, Searched, outside
<1>10. CASE t_set_speed
  BY <1>10, ToolsKept, FireApart DEF t_set_speed, Silent, NoOutput, outside
<1>11. CASE t_open_archive_browser
  BY <1>11, ToolsKept, FireApart DEF t_open_archive_browser, Request, NoOutput
<1>12. CASE t_import_archive
  BY <1>12, ToolsKept, FireApart DEF t_import_archive, Request, NoOutput
<1>13. CASE t_upload_archive
  BY <1>13, ToolsKept, FireApart DEF t_upload_archive, Request, NoOutput
<1>14. CASE t_filter_net_name
  BY <1>14, ToolsKept, FireApart DEF t_filter_net_name, Silent, NoOutput, outside
<1> QED
  BY <1>1, <1>2, <1>3, <1>4, <1>5, <1>6, <1>7, <1>8, <1>9, <1>10, <1>11, <1>12, <1>13, <1>14
     DEF Tools

-----------------------------------------------------------------------------
(* The executor at rest.                                                   *)

\* At rest a place is marked or has no token at all, and nothing is enabled.
LEMMA RestBlocks ==
  ASSUME UIInvariant, AtRest
  PROVE  /\ produced = Nothing
         /\ \A p \in UIPlaces : Tokens(p) \in Nat /\ (Idle(p) <=> m[p] = <<>>)
         /\ \A t, one, all, reads, inhibitors, resets :
              /\ Row(t, one, all, reads, inhibitors, resets)
              /\ t \notin {"t_render_dot", "t_toggle_subnets"}
              /\ one \cup all \cup reads \cup inhibitors \subseteq UIPlaces
              => (\E p \in one \cup all \cup reads : Idle(p)) \/ (\E p \in inhibitors : ~Idle(p))
<1>1. /\ Queues(m) /\ Queues(produced) /\ produced = Nothing
      /\ EnabledTransitions(m, Awaiting) = {}
      /\ Awaiting \subseteq {"t_render_dot", "t_toggle_subnets"}
  BY DEF UIInvariant, Agenda
<1>2. \A p \in UIPlaces : produced[p] = <<>>
  BY <1>1 DEF Nothing
<1>3. \A p \in UIPlaces : Tokens(p) \in Nat /\ (Idle(p) <=> m[p] = <<>>)
  BY <1>1, <1>2, TokensCounted DEF Idle
<1>4. ASSUME NEW t, NEW one, NEW all, NEW reads, NEW inhibitors, NEW resets,
             Row(t, one, all, reads, inhibitors, resets),
             t \notin {"t_render_dot", "t_toggle_subnets"},
             one \cup all \cup reads \cup inhibitors \subseteq UIPlaces
      PROVE  (\E p \in one \cup all \cup reads : Idle(p)) \/ (\E p \in inhibitors : ~Idle(p))
  <2>1. /\ ~Enabled(m, Awaiting, t) /\ t \notin Awaiting
        /\ Tested[t] = one \cup all \cup reads /\ Arcs[t].inhibitors = inhibitors
    BY <1>1, <1>4 DEF EnabledTransitions, Row, Tested
  <2>2. (\E p \in one \cup all \cup reads : m[p] = <<>>) \/ (\E p \in inhibitors : m[p] # <<>>)
    BY <2>1, Zenon DEF Enabled, Marked
  <2> QED
    BY <1>3, <1>4, <2>2
<1> QED
  BY <1>1, <1>3, <1>4

\* No connection to open or close, no session to change.
LEMMA RestSession ==
  ASSUME UIInvariant, AtRest
  PROVE  /\ Idle("idle")
         /\ Idle("connecting") \/ Idle("wsOpenSignal")
         /\ Idle("subscribedSession") \/ Idle("userSelectSession") \/ Idle("uiState")
            \/ Idle("liveSession") \/ Idle("connected")
         /\ Idle("subscribedSession") \/ Idle("userSelectSession") \/ Idle("uiState")
            \/ Idle("replaySession") \/ Idle("replayPaused") \/ Idle("connected")
         /\ Idle("subscribedSession") \/ Idle("userSelectSession") \/ Idle("uiState")
            \/ Idle("replaySession") \/ Idle("replayPlaying") \/ Idle("connected")
         /\ Idle("subscribedSession") \/ Idle("userSelectSession") \/ Idle("uiState")
            \/ Idle("replaySession") \/ Idle("breakpointPaused") \/ Idle("connected")
<1>1. Idle("idle")
  <2>1. Row("t_connect", {"idle"}, {}, {}, {}, {})
    BY SessionRows
  <2>2. {"idle"} \subseteq UIPlaces
    BY NamedPlaces, RoutePlaces DEF Permit, Phases, Frames
  <2> QED
    BY <2>1, <2>2, RestBlocks
<1>2. Idle("connecting") \/ Idle("wsOpenSignal")
  <2>1. Row("t_on_open", {"connecting", "wsOpenSignal"}, {}, {}, {}, {})
    BY SessionRows
  <2>2. {"connecting", "wsOpenSignal"} \subseteq UIPlaces
    BY NamedPlaces, RoutePlaces DEF Permit, Phases, Frames
  <2> QED
    BY <2>1, <2>2, RestBlocks
<1>3. Idle("subscribedSession") \/ Idle("userSelectSession") \/ Idle("uiState")
      \/ Idle("liveSession") \/ Idle("connected")
  <2>1. Row("t_switch_from_live",
            {"subscribedSession", "userSelectSession", "uiState", "liveSession"}, {},
            {"connected"}, {}, {})
    BY SessionRows
  <2>2. {"connected", "liveSession", "subscribedSession", "uiState",
         "userSelectSession"} \subseteq UIPlaces
    BY NamedPlaces, RoutePlaces DEF Permit, Phases, Frames
  <2> QED
    BY <2>1, <2>2, RestBlocks
<1>4. Idle("subscribedSession") \/ Idle("userSelectSession") \/ Idle("uiState")
      \/ Idle("replaySession") \/ Idle("replayPaused") \/ Idle("connected")
  <2>1. Row("t_switch_from_replay_paused",
            {"subscribedSession", "userSelectSession", "uiState", "replaySession",
            "replayPaused"}, {}, {"connected"}, {}, {})
    BY SessionRows
  <2>2. {"connected", "replayPaused", "replaySession", "subscribedSession", "uiState",
         "userSelectSession"} \subseteq UIPlaces
    BY NamedPlaces, RoutePlaces DEF Permit, Phases, Frames
  <2> QED
    BY <2>1, <2>2, RestBlocks
<1>5. Idle("subscribedSession") \/ Idle("userSelectSession") \/ Idle("uiState")
      \/ Idle("replaySession") \/ Idle("replayPlaying") \/ Idle("connected")
  <2>1. Row("t_switch_from_replay_playing",
            {"subscribedSession", "userSelectSession", "uiState", "replaySession",
            "replayPlaying"}, {}, {"connected"}, {}, {})
    BY SessionRows
  <2>2. {"connected", "replayPlaying", "replaySession", "subscribedSession", "uiState",
         "userSelectSession"} \subseteq UIPlaces
    BY NamedPlaces, RoutePlaces DEF Permit, Phases, Frames
  <2> QED
    BY <2>1, <2>2, RestBlocks
<1>6. Idle("subscribedSession") \/ Idle("userSelectSession") \/ Idle("uiState")
      \/ Idle("replaySession") \/ Idle("breakpointPaused") \/ Idle("connected")
  <2>1. Row("t_switch_from_breakpoint",
            {"subscribedSession", "userSelectSession", "uiState", "replaySession",
            "breakpointPaused"}, {}, {"connected"}, {}, {})
    BY SessionRows
  <2>2. {"breakpointPaused", "connected", "replaySession", "subscribedSession", "uiState",
         "userSelectSession"} \subseteq UIPlaces
    BY NamedPlaces, RoutePlaces DEF Permit, Phases, Frames
  <2> QED
    BY <2>1, <2>2, RestBlocks
<1> QED
  BY <1>1, <1>2, <1>3, <1>4, <1>5, <1>6

\* No message to route or to handle.
LEMMA RestRouter ==
  ASSUME UIInvariant, AtRest
  PROVE  /\ Idle("wsMessage") \/ Idle("routerReady")
         /\ Idle("deadLetter")
         /\ Idle("msgSubscribed") \/ Idle("subscribing")
         /\ Idle("msgSubscribed") \/ ~Idle("subscribing")
         /\ Idle("msgUnsubscribed")
         /\ Idle("msgSessionList") \/ ~Idle("deepLink")
         /\ Idle("msgSessionList") \/ Idle("deepLink")
         /\ Idle("msgEvent") \/ Idle("uiState") \/ Idle("subscribedSession")
         /\ Idle("msgEvent") \/ ~Idle("subscribedSession")
         /\ Idle("msgEventBatch") \/ Idle("uiState") \/ Idle("subscribedSession")
            \/ Idle("liveSession")
         /\ Idle("msgEventBatch") \/ Idle("uiState") \/ Idle("subscribedSession")
            \/ Idle("replaySession")
         /\ Idle("msgEventBatch") \/ ~Idle("subscribedSession")
         /\ Idle("msgMarkingSnapshot") \/ Idle("uiState") \/ Idle("subscribedSession")
         /\ Idle("msgMarkingSnapshot") \/ ~Idle("subscribedSession")
         /\ Idle("msgPlaybackState")
         /\ Idle("msgBreakpointHit")
         /\ Idle("msgBreakpointList") \/ Idle("breakpoints")
         /\ Idle("msgBreakpointSet")
         /\ Idle("msgBreakpointCleared")
         /\ Idle("msgFilterApplied")
         /\ Idle("msgError")
         /\ Idle("msgArchiveList")
         /\ Idle("msgArchiveImported")
<1>1. Idle("wsMessage") \/ Idle("routerReady")
  <2>1. Row("t_route_message", {"wsMessage", "routerReady"}, {}, {}, {}, {})
    BY RouterRows
  <2>2. {"routerReady", "wsMessage"} \subseteq UIPlaces
    BY NamedPlaces, RoutePlaces DEF Permit, Phases, Frames
  <2> QED
    BY <2>1, <2>2, RestBlocks
<1>2. Idle("deadLetter")
  <2>1. Row("t_log_dead_letter", {"deadLetter"}, {}, {}, {}, {})
    BY RouterRows
  <2>2. {"deadLetter"} \subseteq UIPlaces
    BY NamedPlaces, RoutePlaces DEF Permit, Phases, Frames
  <2> QED
    BY <2>1, <2>2, RestBlocks
<1>3. Idle("msgSubscribed") \/ Idle("subscribing")
  <2>1. Row("t_on_subscribed", {"msgSubscribed", "subscribing"}, {}, {}, {}, {})
    BY RouterRows
  <2>2. {"msgSubscribed", "subscribing"} \subseteq UIPlaces
    BY NamedPlaces, RoutePlaces DEF Permit, Phases, Frames
  <2> QED
    BY <2>1, <2>2, RestBlocks
<1>4. Idle("msgSubscribed") \/ ~Idle("subscribing")
  <2>1. Row("t_drop_subscribed", {"msgSubscribed"}, {}, {}, {"subscribing"}, {})
    BY RouterRows
  <2>2. {"msgSubscribed", "subscribing"} \subseteq UIPlaces
    BY NamedPlaces, RoutePlaces DEF Permit, Phases, Frames
  <2> QED
    BY <2>1, <2>2, RestBlocks
<1>5. Idle("msgUnsubscribed")
  <2>1. Row("t_on_unsubscribed", {"msgUnsubscribed"}, {}, {}, {}, {})
    BY RouterRows
  <2>2. {"msgUnsubscribed"} \subseteq UIPlaces
    BY NamedPlaces, RoutePlaces DEF Permit, Phases, Frames
  <2> QED
    BY <2>1, <2>2, RestBlocks
<1>6. Idle("msgSessionList") \/ ~Idle("deepLink")
  <2>1. Row("t_on_session_list", {"msgSessionList"}, {}, {}, {"deepLink"}, {})
    BY RouterRows
  <2>2. {"deepLink", "msgSessionList"} \subseteq UIPlaces
    BY NamedPlaces, RoutePlaces DEF Permit, Phases, Frames
  <2> QED
    BY <2>1, <2>2, RestBlocks
<1>7. Idle("msgSessionList") \/ Idle("deepLink")
  <2>1. Row("t_on_session_list_deep_link", {"msgSessionList", "deepLink"}, {}, {}, {}, {})
    BY RouterRows
  <2>2. {"deepLink", "msgSessionList"} \subseteq UIPlaces
    BY NamedPlaces, RoutePlaces DEF Permit, Phases, Frames
  <2> QED
    BY <2>1, <2>2, RestBlocks
<1>8. Idle("msgEvent") \/ Idle("uiState") \/ Idle("subscribedSession")
  <2>1. Row("t_on_event", {"msgEvent", "uiState"}, {}, {"subscribedSession"}, {}, {})
    BY RouterRows
  <2>2. {"msgEvent", "subscribedSession", "uiState"} \subseteq UIPlaces
    BY NamedPlaces, RoutePlaces DEF Permit, Phases, Frames
  <2> QED
    BY <2>1, <2>2, RestBlocks
<1>9. Idle("msgEvent") \/ ~Idle("subscribedSession")
  <2>1. Row("t_drop_event", {"msgEvent"}, {}, {}, {"subscribedSession"}, {})
    BY RouterRows
  <2>2. {"msgEvent", "subscribedSession"} \subseteq UIPlaces
    BY NamedPlaces, RoutePlaces DEF Permit, Phases, Frames
  <2> QED
    BY <2>1, <2>2, RestBlocks
<1>10. Idle("msgEventBatch") \/ Idle("uiState") \/ Idle("subscribedSession") \/ Idle("liveSession")
  <2>1. Row("t_on_event_batch",
            {"msgEventBatch", "uiState"}, {}, {"subscribedSession", "liveSession"}, {}, {})
    BY RouterRows
  <2>2. {"liveSession", "msgEventBatch", "subscribedSession", "uiState"} \subseteq UIPlaces
    BY NamedPlaces, RoutePlaces DEF Permit, Phases, Frames
  <2> QED
    BY <2>1, <2>2, RestBlocks
<1>11. Idle("msgEventBatch") \/ Idle("uiState") \/ Idle("subscribedSession")
       \/ Idle("replaySession")
  <2>1. Row("t_on_replay_event_batch",
            {"msgEventBatch", "uiState"}, {}, {"subscribedSession", "replaySession"}, {}, {})
    BY RouterRows
  <2>2. {"msgEventBatch", "replaySession", "subscribedSession", "uiState"} \subseteq UIPlaces
    BY NamedPlaces, RoutePlaces DEF Permit, Phases, Frames
  <2> QED
    BY <2>1, <2>2, RestBlocks
<1>12. Idle("msgEventBatch") \/ ~Idle("subscribedSession")
  <2>1. Row("t_drop_event_batch", {"msgEventBatch"}, {}, {}, {"subscribedSession"}, {})
    BY RouterRows
  <2>2. {"msgEventBatch", "subscribedSession"} \subseteq UIPlaces
    BY NamedPlaces, RoutePlaces DEF Permit, Phases, Frames
  <2> QED
    BY <2>1, <2>2, RestBlocks
<1>13. Idle("msgMarkingSnapshot") \/ Idle("uiState") \/ Idle("subscribedSession")
  <2>1. Row("t_on_marking_snapshot",
            {"msgMarkingSnapshot", "uiState"}, {}, {"subscribedSession"}, {}, {})
    BY RouterRows
  <2>2. {"msgMarkingSnapshot", "subscribedSession", "uiState"} \subseteq UIPlaces
    BY NamedPlaces, RoutePlaces DEF Permit, Phases, Frames
  <2> QED
    BY <2>1, <2>2, RestBlocks
<1>14. Idle("msgMarkingSnapshot") \/ ~Idle("subscribedSession")
  <2>1. Row("t_drop_marking_snapshot", {"msgMarkingSnapshot"}, {}, {}, {"subscribedSession"}, {})
    BY RouterRows
  <2>2. {"msgMarkingSnapshot", "subscribedSession"} \subseteq UIPlaces
    BY NamedPlaces, RoutePlaces DEF Permit, Phases, Frames
  <2> QED
    BY <2>1, <2>2, RestBlocks
<1>15. Idle("msgPlaybackState")
  <2>1. Row("t_on_playback_state", {"msgPlaybackState"}, {}, {}, {}, {})
    BY RouterRows
  <2>2. {"msgPlaybackState"} \subseteq UIPlaces
    BY NamedPlaces, RoutePlaces DEF Permit, Phases, Frames
  <2> QED
    BY <2>1, <2>2, RestBlocks
<1>16. Idle("msgBreakpointHit")
  <2>1. Row("t_on_breakpoint_hit", {"msgBreakpointHit"}, {}, {}, {}, {})
    BY RouterRows
  <2>2. {"msgBreakpointHit"} \subseteq UIPlaces
    BY NamedPlaces, RoutePlaces DEF Permit, Phases, Frames
  <2> QED
    BY <2>1, <2>2, RestBlocks
<1>17. Idle("msgBreakpointList") \/ Idle("breakpoints")
  <2>1. Row("t_on_bp_list", {"msgBreakpointList", "breakpoints"}, {}, {}, {}, {})
    BY RouterRows
  <2>2. {"breakpoints", "msgBreakpointList"} \subseteq UIPlaces
    BY NamedPlaces, RoutePlaces DEF Permit, Phases, Frames
  <2> QED
    BY <2>1, <2>2, RestBlocks
<1>18. Idle("msgBreakpointSet")
  <2>1. Row("t_on_bp_set", {"msgBreakpointSet"}, {}, {}, {}, {})
    BY RouterRows
  <2>2. {"msgBreakpointSet"} \subseteq UIPlaces
    BY NamedPlaces, RoutePlaces DEF Permit, Phases, Frames
  <2> QED
    BY <2>1, <2>2, RestBlocks
<1>19. Idle("msgBreakpointCleared")
  <2>1. Row("t_on_bp_cleared", {"msgBreakpointCleared"}, {}, {}, {}, {})
    BY RouterRows
  <2>2. {"msgBreakpointCleared"} \subseteq UIPlaces
    BY NamedPlaces, RoutePlaces DEF Permit, Phases, Frames
  <2> QED
    BY <2>1, <2>2, RestBlocks
<1>20. Idle("msgFilterApplied")
  <2>1. Row("t_on_filter_applied", {"msgFilterApplied"}, {}, {}, {}, {})
    BY RouterRows
  <2>2. {"msgFilterApplied"} \subseteq UIPlaces
    BY NamedPlaces, RoutePlaces DEF Permit, Phases, Frames
  <2> QED
    BY <2>1, <2>2, RestBlocks
<1>21. Idle("msgError")
  <2>1. Row("t_on_error", {"msgError"}, {}, {}, {}, {})
    BY RouterRows
  <2>2. {"msgError"} \subseteq UIPlaces
    BY NamedPlaces, RoutePlaces DEF Permit, Phases, Frames
  <2> QED
    BY <2>1, <2>2, RestBlocks
<1>22. Idle("msgArchiveList")
  <2>1. Row("t_on_archive_list", {"msgArchiveList"}, {}, {}, {}, {})
    BY ToolsRows
  <2>2. {"msgArchiveList"} \subseteq UIPlaces
    BY NamedPlaces, RoutePlaces DEF Permit, Phases, Frames
  <2> QED
    BY <2>1, <2>2, RestBlocks
<1>23. Idle("msgArchiveImported")
  <2>1. Row("t_on_archive_imported", {"msgArchiveImported"}, {}, {}, {}, {})
    BY ToolsRows
  <2>2. {"msgArchiveImported"} \subseteq UIPlaces
    BY NamedPlaces, RoutePlaces DEF Permit, Phases, Frames
  <2> QED
    BY <2>1, <2>2, RestBlocks
<1> QED
  BY <1>1, <1>2, <1>3, <1>4, <1>5, <1>6, <1>7, <1>8, <1>9, <1>10, <1>11, <1>12, <1>13, <1>14,
     <1>15, <1>16, <1>17, <1>18, <1>19, <1>20, <1>21, <1>22, <1>23

\* No frame to paint, and no tick of the playback.
LEMMA RestFrames ==
  ASSUME UIInvariant, AtRest
  PROVE  /\ Idle("stateDirty")
         /\ Idle("rafTick") \/ Idle("uiState")
         /\ Idle("rafTick") \/ ~Idle("uiState")
         /\ Idle("frameHighlight") \/ Idle("highlightDirty") \/ Idle("svgReady") \/ Idle("uiState")
         /\ Idle("frameHighlight") \/ ~Idle("highlightDirty")
         /\ Idle("frameHighlight") \/ ~Idle("svgReady")
         /\ Idle("frameLog") \/ Idle("logDirty") \/ Idle("uiState") \/ Idle("filterState")
         /\ Idle("frameLog") \/ ~Idle("logDirty")
         /\ Idle("frameMarking") \/ Idle("markingDirty") \/ Idle("uiState")
         /\ Idle("frameMarking") \/ ~Idle("markingDirty")
         /\ Idle("autoStepTick") \/ Idle("replayPlaying") \/ Idle("uiState") \/ Idle("breakpoints")
         /\ Idle("autoStepTick") \/ ~Idle("replayPlaying")
<1>1. Idle("stateDirty")
  <2>1. Row("t_fan_out_dirty", {"stateDirty"}, {}, {}, {}, {})
    BY RepaintRows
  <2>2. {"stateDirty"} \subseteq UIPlaces
    BY NamedPlaces, RoutePlaces DEF Permit, Phases, Frames
  <2> QED
    BY <2>1, <2>2, RestBlocks
<1>2. Idle("rafTick") \/ Idle("uiState")
  <2>1. Row("t_frame", {}, {"rafTick"}, {"uiState"}, {}, {})
    BY RepaintRows
  <2>2. {"rafTick", "uiState"} \subseteq UIPlaces
    BY NamedPlaces, RoutePlaces DEF Permit, Phases, Frames
  <2> QED
    BY <2>1, <2>2, RestBlocks
<1>3. Idle("rafTick") \/ ~Idle("uiState")
  <2>1. Row("t_idle_frame", {}, {"rafTick"}, {}, {"uiState"}, {})
    BY RepaintRows
  <2>2. {"rafTick", "uiState"} \subseteq UIPlaces
    BY NamedPlaces, RoutePlaces DEF Permit, Phases, Frames
  <2> QED
    BY <2>1, <2>2, RestBlocks
<1>4. Idle("frameHighlight") \/ Idle("highlightDirty") \/ Idle("svgReady") \/ Idle("uiState")
  <2>1. Row("t_update_highlighting",
            {"frameHighlight"}, {"highlightDirty"}, {"svgReady", "uiState"}, {}, {})
    BY RepaintRows
  <2>2. {"frameHighlight", "highlightDirty", "svgReady", "uiState"} \subseteq UIPlaces
    BY NamedPlaces, RoutePlaces DEF Permit, Phases, Frames
  <2> QED
    BY <2>1, <2>2, RestBlocks
<1>5. Idle("frameHighlight") \/ ~Idle("highlightDirty")
  <2>1. Row("t_skip_highlighting", {"frameHighlight"}, {}, {}, {"highlightDirty"}, {})
    BY RepaintRows
  <2>2. {"frameHighlight", "highlightDirty"} \subseteq UIPlaces
    BY NamedPlaces, RoutePlaces DEF Permit, Phases, Frames
  <2> QED
    BY <2>1, <2>2, RestBlocks
<1>6. Idle("frameHighlight") \/ ~Idle("svgReady")
  <2>1. Row("t_await_diagram", {"frameHighlight"}, {}, {}, {"svgReady"}, {})
    BY RepaintRows
  <2>2. {"frameHighlight", "svgReady"} \subseteq UIPlaces
    BY NamedPlaces, RoutePlaces DEF Permit, Phases, Frames
  <2> QED
    BY <2>1, <2>2, RestBlocks
<1>7. Idle("frameLog") \/ Idle("logDirty") \/ Idle("uiState") \/ Idle("filterState")
  <2>1. Row("t_update_event_log", {"frameLog"}, {"logDirty"}, {"uiState", "filterState"}, {}, {})
    BY RepaintRows
  <2>2. {"filterState", "frameLog", "logDirty", "uiState"} \subseteq UIPlaces
    BY NamedPlaces, RoutePlaces DEF Permit, Phases, Frames
  <2> QED
    BY <2>1, <2>2, RestBlocks
<1>8. Idle("frameLog") \/ ~Idle("logDirty")
  <2>1. Row("t_skip_event_log", {"frameLog"}, {}, {}, {"logDirty"}, {})
    BY RepaintRows
  <2>2. {"frameLog", "logDirty"} \subseteq UIPlaces
    BY NamedPlaces, RoutePlaces DEF Permit, Phases, Frames
  <2> QED
    BY <2>1, <2>2, RestBlocks
<1>9. Idle("frameMarking") \/ Idle("markingDirty") \/ Idle("uiState")
  <2>1. Row("t_update_marking", {"frameMarking"}, {"markingDirty"}, {"uiState"}, {}, {})
    BY RepaintRows
  <2>2. {"frameMarking", "markingDirty", "uiState"} \subseteq UIPlaces
    BY NamedPlaces, RoutePlaces DEF Permit, Phases, Frames
  <2> QED
    BY <2>1, <2>2, RestBlocks
<1>10. Idle("frameMarking") \/ ~Idle("markingDirty")
  <2>1. Row("t_skip_marking", {"frameMarking"}, {}, {}, {"markingDirty"}, {})
    BY RepaintRows
  <2>2. {"frameMarking", "markingDirty"} \subseteq UIPlaces
    BY NamedPlaces, RoutePlaces DEF Permit, Phases, Frames
  <2> QED
    BY <2>1, <2>2, RestBlocks
<1>11. Idle("autoStepTick") \/ Idle("replayPlaying") \/ Idle("uiState") \/ Idle("breakpoints")
  <2>1. Row("t_replay_auto_step",
            {"autoStepTick", "replayPlaying", "uiState"}, {}, {"breakpoints"}, {}, {})
    BY PlaybackRows
  <2>2. {"autoStepTick", "breakpoints", "replayPlaying", "uiState"} \subseteq UIPlaces
    BY NamedPlaces, RoutePlaces DEF Permit, Phases, Frames
  <2> QED
    BY <2>1, <2>2, RestBlocks
<1>12. Idle("autoStepTick") \/ ~Idle("replayPlaying")
  <2>1. Row("t_drop_stale_tick", {"autoStepTick"}, {}, {}, {"replayPlaying"}, {})
    BY PlaybackRows
  <2>2. {"autoStepTick", "replayPlaying"} \subseteq UIPlaces
    BY NamedPlaces, RoutePlaces DEF Permit, Phases, Frames
  <2> QED
    BY <2>1, <2>2, RestBlocks
<1> QED
  BY <1>1, <1>2, <1>3, <1>4, <1>5, <1>6, <1>7, <1>8, <1>9, <1>10, <1>11, <1>12

\* Nothing is left that could have been worked off.
LEMMA NothingWaits ==
  ASSUME UIInvariant, AtRest
  PROVE  /\ produced = Nothing /\ Calm
         /\ \A p \in Frames \cup {"stateDirty", "autoStepTick"} : Idle(p)
<1>1. /\ OneTokenIn(Permit) /\ OneTokenIn(Phases) /\ SumsHold /\ FramesCalm
  BY DEF UIInvariant
<1>2. produced = Nothing /\ \A p \in UIPlaces : Tokens(p) \in Nat
  BY RestBlocks
<1>3. \A p \in {"subscribedSession", "liveSession", "replaySession", "replayPaused",
                "replayPlaying", "breakpointPaused", "uiState", "breakpoints", "filterState",
                "connected"} : Tokens(p) \in Nat
  BY <1>2, NamedPlaces DEF Phases
<1>4. /\ Idle("uiState") <=> Idle("subscribedSession")
      /\ Idle("subscribedSession") <=> Idle("liveSession") /\ Idle("replaySession")
      /\ Idle("replaySession") <=>
           Idle("replayPaused") /\ Idle("replayPlaying") /\ Idle("breakpointPaused")
      /\ ~Idle("breakpoints") /\ ~Idle("filterState")
  BY <1>1, <1>3 DEF SumsHold, Idle
<1>5. /\ Idle("idle")
      /\ Idle("connecting") \/ Idle("wsOpenSignal")
      /\ Idle("userSelectSession") \/ Idle("subscribedSession") \/ Idle("connected")
  BY <1>4, RestSession
<1>6. \A p \in Permit \ {"routerReady"} : Idle(p)
  <2>1. /\ Idle("deadLetter") /\ Idle("msgSessionList") /\ Idle("msgSubscribed")
        /\ Idle("msgUnsubscribed") /\ Idle("msgEvent") /\ Idle("msgEventBatch")
        /\ Idle("msgMarkingSnapshot") /\ Idle("msgPlaybackState") /\ Idle("msgFilterApplied")
        /\ Idle("msgBreakpointHit") /\ Idle("msgBreakpointList") /\ Idle("msgBreakpointSet")
        /\ Idle("msgBreakpointCleared") /\ Idle("msgError") /\ Idle("msgArchiveList")
        /\ Idle("msgArchiveImported")
    BY <1>4, RestRouter
  <2> QED
    BY <2>1, RoutePlaces DEF Permit
<1>7. Tokens("routerReady") = 1
  BY <1>1, <1>6 DEF OneTokenIn, Idle
<1>8. Idle("wsMessage")
  BY <1>7, RestRouter DEF Idle
<1>9. Calm
  BY <1>5, <1>7, <1>8 DEF Calm
<1>10. Idle("rafTick") /\ Idle("stateDirty") /\ Idle("autoStepTick")
  BY <1>4, RestFrames
<1>11. ASSUME NEW p \in {"frameHighlight", "frameLog", "frameMarking"}
       PROVE  Idle(p)
  <2>1. SUFFICES ASSUME Tokens(p) # 0
                 PROVE  FALSE
    BY DEF Idle
  <2>2. ~Idle("uiState")
    BY <1>1, <2>1 DEF FramesCalm, Frames, Idle
  <2> QED
    BY <1>4, <2>1, <2>2, RestFrames DEF Idle
<1> QED
  BY <1>2, <1>9, <1>10, <1>11 DEF Frames

-----------------------------------------------------------------------------
(* The browser's callbacks.                                                *)

\* The places the equations count.
Counted ==
  Permit \cup Phases \cup
  {"liveSession", "replaySession", "replayPaused", "replayPlaying", "breakpointPaused", "uiState",
   "breakpoints", "filterState"}

\* None of these places is counted, and none is a frame but a tick that comes alone.
Apart(moved) ==
  /\ moved \cap Counted = {}
  /\ moved \cap Frames = {} \/ moved = {"rafTick"}

\* What wakes the executor moves tokens of such places only.
LEMMA WakeKeeps ==
  ASSUME UIInvariant, AtRest, NEW mk, NEW prod, NEW busy, Queues(mk), Queues(prod),
         Cycle(mk, prod, {}, busy), DOMAIN awaiting' = busy, busy \subseteq Awaiting,
         session' = session, NEW moved, Apart(moved),
         \A q \in UIPlaces \ moved : mk[q] = m[q] /\ prod[q] = <<>>
  PROVE  UIInvariant'
<1>1. /\ Queues(m) /\ Queues(produced) /\ Agenda /\ OneTokenIn(Permit) /\ OneTokenIn(Phases)
      /\ SumsHold /\ SessionHeld /\ FramesCalm
  BY DEF UIInvariant
<1>2. /\ produced = Nothing /\ Calm /\ \A q \in Frames : Idle(q)
  BY NothingWaits
<1>3. /\ Queues(m)' /\ Queues(produced)'
      /\ \A q \in UIPlaces : Tokens(q)' = Len(mk[q]) + Len(prod[q])
      /\ \A q \in UIPlaces : \A v : HoldsOnly(mk[q], v) /\ HoldsOnly(prod[q], v) =>
           HoldsOnly(m'[q], v) /\ HoldsOnly(produced'[q], v)
  BY CycleCounts
<1>4. Agenda'
  <2>1. /\ ready' \subseteq EnabledTransitions(m', busy)
        /\ ready' = {} => produced' = Nothing /\ EnabledTransitions(m', busy) = {}
    BY CycleAgenda
  <2>2. busy \subseteq {"t_render_dot", "t_toggle_subnets"}
    BY <1>1 DEF Agenda
  <2> QED
    BY <2>1, <2>2 DEF Agenda, Awaiting, AtRest
<1>5. ASSUME NEW q \in UIPlaces, q \notin moved
      PROVE  Tokens(q)' = Tokens(q) /\ Tokens(q) \in Nat
  <2>1. produced[q] = prod[q] /\ mk[q] = m[q]
    BY <1>2, <1>5 DEF Nothing
  <2>2. Tokens(q)' = Len(m[q]) + Len(produced[q])
    BY <1>3, <2>1
  <2> QED
    BY <1>1, <2>2, TokensCounted DEF Tokens
<1>6. OneTokenIn(Permit)' /\ OneTokenIn(Phases)'
  <2>1. \A q \in Permit \cup Phases : Tokens(q)' = Tokens(q)
    BY <1>5, NamedPlaces DEF Counted, Apart
  <2> QED
    BY <1>1, <2>1 DEF OneTokenIn
<1>7. SumsHold'
  <2>1. \A q \in {"subscribedSession", "liveSession", "replaySession", "replayPaused",
                  "replayPlaying", "breakpointPaused", "uiState", "breakpoints", "filterState"} :
          Tokens(q)' = Tokens(q)
    BY <1>5, NamedPlaces DEF Counted, Apart, Phases
  <2> QED
    BY <1>1, <2>1 DEF SumsHold
<1>8. SessionHeld'
  <2>1. "subscribedSession" \in UIPlaces /\ "subscribedSession" \notin moved
    BY NamedPlaces DEF Phases, Counted, Apart
  <2>2. prod["subscribedSession"] = <<>> /\ mk["subscribedSession"] = m["subscribedSession"]
    BY <2>1
  <2>3. /\ HoldsOnly(mk["subscribedSession"], session)
        /\ HoldsOnly(prod["subscribedSession"], session)
    BY <1>1, <2>2, QueueEmpty DEF SessionHeld
  <2>4. /\ HoldsOnly(m'["subscribedSession"], session)
        /\ HoldsOnly(produced'["subscribedSession"], session)
    BY <1>3, <2>1, <2>3
  <2> QED
    BY <2>4 DEF SessionHeld
<1>9. FramesCalm'
  <2>1. CASE moved \cap Frames = {}
    <3>1. \A q \in Frames : Tokens(q)' = 0
      BY <1>2, <1>5, <2>1, NamedPlaces DEF Idle
    <3> QED
      BY <3>1 DEF FramesCalm
  <2>2. CASE moved = {"rafTick"}
    <3>1. \A q \in {"idle", "wsMessage", "wsOpenSignal", "connecting", "connected",
                    "userSelectSession", "subscribedSession", "routerReady"} :
            Tokens(q)' = Tokens(q)
      BY <1>5, <2>2, NamedPlaces DEF Phases, Permit
    <3>2. Calm'
      BY <1>2, <3>1 DEF Calm, Idle
    <3>3. \A q \in Frames \ {"rafTick"} : Tokens(q)' = 0
      BY <1>2, <1>5, <2>2, NamedPlaces DEF Idle
    <3> QED
      BY <3>2, <3>3 DEF FramesCalm
  <2> QED
    BY <2>1, <2>2 DEF Apart
<1> QED
  BY <1>3, <1>4, <1>6, <1>7, <1>8, <1>9 DEF UIInvariant

\* Queues of no place, and those of a first output.
LEMMA FirstOutputs ==
  ASSUME NEW outs
  PROVE  /\ Queues(Nothing) /\ Queues(WithOutputs(Nothing, outs))
         /\ \A q \in UIPlaces : q \notin DOMAIN outs => WithOutputs(Nothing, outs)[q] = <<>>
         /\ \A q \in UIPlaces : Nothing[q] = <<>>
<1>1. PICK none : none = Nothing
  OBVIOUS
<1>2. PICK prod : prod = WithOutputs(none, outs)
  OBVIOUS
<1>3. none = [q \in UIPlaces |-> <<>>] /\ \A q \in UIPlaces : none[q] = <<>>
  BY <1>1 DEF Nothing
<1>4. /\ prod = [q \in UIPlaces |-> prod[q]]
      /\ \A q \in UIPlaces : prod[q] = IF q \in DOMAIN outs THEN Append(<<>>, outs[q]) ELSE <<>>
  BY <1>2, <1>3 DEF WithOutputs
<1>5. ASSUME NEW q \in UIPlaces
      PROVE  IsQueue(prod[q]) /\ IsQueue(none[q])
  <2>1. IsQueue(<<>>) /\ none[q] = <<>>
    BY <1>3, QueueEmpty
  <2>2. CASE q \in DOMAIN outs
    BY <1>4, <2>1, <2>2, QueueAppend
  <2>3. CASE q \notin DOMAIN outs
    BY <1>4, <2>1, <2>3
  <2> QED
    BY <2>1, <2>2, <2>3
<1>6. none = [q \in UIPlaces |-> none[q]]
  BY <1>3
<1>7. Queues(none) /\ Queues(prod)
  BY <1>4, <1>5, <1>6 DEF Queues
<1> QED
  BY <1>1, <1>2, <1>3, <1>4, <1>7

\* A token put into an environment place.
LEMMA InjectKeeps ==
  ASSUME UIInvariant, NEW p \in allEnvironmentPlaces, NEW v, Inject(p, v), session' = session
  PROVE  UIInvariant'
<1>1. PICK mk : mk = [m EXCEPT ![p] = Append(@, v)]
  OBVIOUS
<1>2. PICK prod : prod = Nothing
  OBVIOUS
<1>3. /\ AtRest /\ Cycle(mk, prod, {}, Awaiting) /\ DOMAIN awaiting' = Awaiting
      /\ session' = session
  BY <1>1, <1>2 DEF Inject, Awaiting
<1>4. p \in UIPlaces /\ Queues(m)
  BY DEF UIPlaces, UIInvariant
<1>5. /\ mk = [q \in UIPlaces |-> mk[q]] /\ mk[p] = Append(m[p], v)
      /\ \A q \in UIPlaces \ {p} : mk[q] = m[q]
  BY <1>1, <1>4 DEF Queues
<1>6. ASSUME NEW q \in UIPlaces
      PROVE  IsQueue(mk[q])
  <2>1. IsQueue(m[q])
    BY <1>4 DEF Queues
  <2>2. CASE q = p
    BY <1>5, <2>1, <2>2, QueueAppend
  <2>3. CASE q # p
    BY <1>5, <2>1, <2>3
  <2> QED
    BY <2>2, <2>3
<1>7. Queues(mk) /\ Queues(prod) /\ \A q \in UIPlaces : prod[q] = <<>>
  BY <1>2, <1>5, <1>6, FirstOutputs DEF Queues
<1>8. {p} \cap Counted = {} /\ ({p} \cap Frames = {} \/ {p} = {"rafTick"})
  BY RoutePlaces DEF allEnvironmentPlaces, Counted, Permit, Phases, Frames
<1>9. \A q \in UIPlaces \ {p} : mk[q] = m[q] /\ prod[q] = <<>>
  BY <1>5, <1>7
<1>10. PICK moved : moved = {p}
  OBVIOUS
<1>11. /\ Apart(moved)
       /\ \A q \in UIPlaces \ moved : mk[q] = m[q] /\ prod[q] = <<>>
  BY <1>8, <1>9, <1>10 DEF Apart
<1>12. Awaiting \subseteq Awaiting
  OBVIOUS
<1> QED
  BY <1>3, <1>7, <1>11, <1>12, WakeKeeps

\* The end of an action that was in flight.
LEMMA EndKeeps ==
  ASSUME UIInvariant, NEW t, NEW outs, EndAsync(t, outs),
         DOMAIN outs \subseteq {"svgReady", "highlightDirty"}
  PROVE  UIInvariant'
<1>1. PICK prod : prod = WithOutputs(Nothing, outs)
  OBVIOUS
<1>2. /\ AtRest /\ Cycle(m, prod, {}, Awaiting \ {t}) /\ DOMAIN awaiting' = Awaiting \ {t}
      /\ session' = session
  BY <1>1 DEF EndAsync
<1>3. Queues(m) /\ Queues(prod) /\ \A q \in UIPlaces \ DOMAIN outs : prod[q] = <<>>
  BY <1>1, FirstOutputs DEF UIInvariant
<1>4. Apart(DOMAIN outs)
  BY RoutePlaces DEF Apart, Counted, Permit, Phases, Frames
<1> QED
  BY <1>2, <1>3, <1>4, WakeKeeps

\* The delayed transition.
LEMMA ReconnectKeeps ==
  ASSUME UIInvariant, t_reconnect
  PROVE  UIInvariant'
<1>1. PICK mk : mk = [m EXCEPT !["waitReconnect"] = Tail(@)]
  OBVIOUS
<1>2. PICK prod : prod = WithOutputs(Nothing, [idle |-> Unit])
  OBVIOUS
<1>3. /\ AtRest /\ m["waitReconnect"] # <<>> /\ Cycle(mk, prod, {}, Awaiting)
      /\ DOMAIN awaiting' = Awaiting /\ session' = session
  BY <1>1, <1>2 DEF t_reconnect, outside, Awaiting
<1>4. "waitReconnect" \in UIPlaces /\ Queues(m)
  BY DEF UIPlaces, InnerPlaces, UIInvariant
<1>5. /\ mk = [q \in UIPlaces |-> mk[q]] /\ mk["waitReconnect"] = Tail(m["waitReconnect"])
      /\ \A q \in UIPlaces \ {"waitReconnect"} : mk[q] = m[q]
  BY <1>1, <1>4 DEF Queues
<1>6. \A q \in UIPlaces : IsQueue(mk[q])
  BY <1>3, <1>4, <1>5, QueueTail DEF Queues
<1>7. /\ Queues(mk) /\ Queues(prod)
      /\ \A q \in UIPlaces : q \notin DOMAIN [idle |-> Unit] => prod[q] = <<>>
  BY <1>2, <1>5, <1>6, FirstOutputs DEF Queues
<1>8. \A q \in UIPlaces \ {"waitReconnect", "idle"} : mk[q] = m[q] /\ prod[q] = <<>>
  BY <1>5, <1>7
<1>9. /\ {"waitReconnect", "idle"} \cap Counted = {} /\ {"waitReconnect", "idle"} \cap Frames = {}
  BY RoutePlaces DEF Counted, Permit, Phases, Frames
<1>10. PICK moved : moved = {"waitReconnect", "idle"}
  OBVIOUS
<1>11. /\ Apart(moved)
       /\ \A q \in UIPlaces \ moved : mk[q] = m[q] /\ prod[q] = <<>>
  BY <1>8, <1>9, <1>10 DEF Apart
<1>12. Awaiting \subseteq Awaiting
  OBVIOUS
<1> QED
  BY <1>3, <1>7, <1>11, <1>12, WakeKeeps

\* A step that moves no token.
LEMMA UnmovedKeeps ==
  ASSUME UIInvariant, UNCHANGED <<m, produced, ready, awaiting, session>>
  PROVE  UIInvariant'
  BY DEF UIInvariant, Queues, Agenda, AtRest, Awaiting, OneTokenIn, SumsHold, SessionHeld,
         FramesCalm, Calm, Idle, Tokens

\* A user's event.
LEMMA UserKeeps ==
  ASSUME UIInvariant, NEW kind, NEW p \in allEnvironmentPlaces, NEW v, User(kind, p, v)
  PROVE  UIInvariant'
  BY InjectKeeps DEF User, outside

\* The callbacks of the socket, the timer and the frames, and the ends of actions in flight.
LEMMA CallbacksKeep ==
  ASSUME UIInvariant, Callbacks
  PROVE  UIInvariant'
<1>1. {"wsOpenSignal", "wsCloseSignal", "wsMessage", "autoStepTick", "rafTick"}
         \subseteq allEnvironmentPlaces
  BY DEF allEnvironmentPlaces
<1>2. CASE ws_onopen
  BY <1>1, <1>2, InjectKeeps DEF ws_onopen
<1>3. CASE ws_onclose
  BY <1>1, <1>3, InjectKeeps DEF ws_onclose
<1>4. CASE ws_onmessage
  BY <1>1, <1>4, InjectKeeps DEF ws_onmessage
<1>5. CASE StrayFrame
  BY <1>1, <1>5, UserKeeps DEF StrayFrame
<1>6. CASE LiveEvent
  BY <1>6, UnmovedKeeps DEF LiveEvent
<1>7. CASE TimerFires
  BY <1>1, <1>7, InjectKeeps DEF TimerFires
<1>8. CASE tick
  BY <1>1, <1>8, InjectKeeps DEF tick, outside
<1>9. CASE RenderDone
  BY <1>9, EndKeeps DEF RenderDone
<1>10. CASE ToggleDone
  BY <1>10, EndKeeps DEF ToggleDone
<1>11. CASE AsyncThrew
  BY <1>11, EndKeeps DEF AsyncThrew, NoOutput
<1> QED
  BY <1>2, <1>3, <1>4, <1>5, <1>6, <1>7, <1>8, <1>9, <1>10, <1>11 DEF Callbacks

\* The user's acts.
LEMMA UserActsKeep ==
  ASSUME UIInvariant, UserActs
  PROVE  UIInvariant'
<1>1. {"userClickPlay", "userClickPause", "userSeekSlider", "userClickStepFwd",
       "userClickStepBack", "userClickRestart", "userClickRunToEnd", "userSelectSession"}
         \subseteq allEnvironmentPlaces
  BY DEF allEnvironmentPlaces
<1>2. {"userSetBreakpoint", "userClearBreakpoint", "userApplyFilter", "userSearch",
       "userSearchNext", "userSearchPrev", "userClickPlace", "userOpenModal", "userCloseModal",
       "userToggleSubnets", "userSetSpeed", "userOpenArchiveBrowser", "userImportArchive",
       "userUploadArchive", "userFilterNetName"} \subseteq allEnvironmentPlaces
  BY DEF allEnvironmentPlaces
<1>3. CASE btnPause
  BY <1>1, <1>3, UserKeeps DEF btnPause
<1>4. CASE timelineSlider
  BY <1>1, <1>4, UserKeeps DEF timelineSlider
<1>5. CASE Controls
  BY <1>1, <1>5, UserKeeps DEF Controls
<1>6. CASE sessionSelect
  BY <1>1, <1>6, UserKeeps DEF sessionSelect
<1>7. CASE Panels
  BY <1>2, <1>7, UserKeeps DEF Panels
<1> QED
  BY <1>3, <1>4, <1>5, <1>6, <1>7 DEF UserActs

-----------------------------------------------------------------------------
(* The theorems.                                                           *)

\* The page as it is opened.
LEMMA InitHolds == Init => UIInvariant
<1> SUFFICES ASSUME Init
             PROVE  UIInvariant
  OBVIOUS
<1>1. PICK start : start = initialTokens
  OBVIOUS
<1>2. \E link : IsQueue(link) /\ m = [start EXCEPT !["deepLink"] = link]
  <2>1. PICK link \in {<<>>} \cup (IF left.link > 0 THEN {<<s>> : s \in DeepLinks} ELSE {}) :
          m = [initialTokens EXCEPT !["deepLink"] = link]
    BY DEF Init
  <2>2. link = <<>> \/ \E s : link = <<s>>
    OBVIOUS
  <2>3. IsQueue(link)
    BY <2>2, QueueEmpty, SingletonQueue
  <2> QED
    BY <1>1, <2>1, <2>3
<1>3. PICK link : IsQueue(link) /\ m = [start EXCEPT !["deepLink"] = link]
  BY <1>2
<1>4. /\ start = [p \in UIPlaces |-> start[p]]
      /\ \A p \in UIPlaces :
           start[p] = CASE p \in {"idle", "noSession", "routerReady", "modalClosed"} -> <<"*">>
                        [] p = "breakpoints" -> << <<>> >>
                        [] p = "filterState" -> <<NoFilter>>
                        [] p = "searchState" -> <<EmptySearch>>
                        [] OTHER -> <<>>
  BY <1>1 DEF initialTokens
<1>5. ASSUME NEW p \in UIPlaces
      PROVE  /\ IsQueue(start[p])
             /\ p \in {"idle", "noSession", "routerReady", "breakpoints", "filterState"} =>
                  Len(start[p]) = 1
             /\ p \notin {"idle", "noSession", "routerReady", "modalClosed", "breakpoints",
                          "filterState", "searchState"} => start[p] = <<>>
  <2>1. CASE p \in {"idle", "noSession", "routerReady", "modalClosed"}
    BY <1>4, <2>1, SingletonQueue
  <2>2. CASE p = "breakpoints"
    BY <1>4, <2>2, SingletonQueue
  <2>3. CASE p = "filterState"
    BY <1>4, <2>3, SingletonQueue
  <2>4. CASE p = "searchState"
    BY <1>4, <2>4, SingletonQueue
  <2>5. CASE p \notin {"idle", "noSession", "routerReady", "modalClosed", "breakpoints",
                       "filterState", "searchState"}
    BY <1>4, <2>5, QueueEmpty
  <2> QED
    BY <2>1, <2>2, <2>3, <2>4, <2>5
<1>6. /\ m = [p \in UIPlaces |-> m[p]] /\ \A p \in UIPlaces : IsQueue(m[p])
      /\ \A p \in UIPlaces \ {"deepLink"} : m[p] = start[p]
  BY <1>3, <1>4, <1>5
<1>7. Queues(m) /\ Queues(produced) /\ \A p \in UIPlaces : produced[p] = <<>>
  BY <1>6, FirstOutputs DEF Queues, Init
<1>8. Agenda
  <2>1. awaiting = <<>> /\ ready = EnabledTransitions(m, {}) /\ produced = Nothing
    BY DEF Init
  <2>2. Awaiting = {}
    BY <2>1, QueueEmpty, QueueLength DEF Awaiting
  <2> QED
    BY <2>1, <2>2 DEF Agenda, AtRest
<1>9. ASSUME NEW p \in UIPlaces \ {"deepLink"}
      PROVE  /\ p \in {"idle", "noSession", "routerReady", "breakpoints", "filterState"} =>
                  Tokens(p) = 1
             /\ p \notin {"idle", "noSession", "routerReady", "modalClosed", "breakpoints",
                          "filterState", "searchState"} => Tokens(p) = 0
  <2>1. Len(produced[p]) = 0 /\ m[p] = start[p]
    BY <1>6, <1>7, QueueEmpty
  <2>2. CASE p \in {"idle", "noSession", "routerReady", "breakpoints", "filterState"}
    BY <1>5, <2>1, <2>2 DEF Tokens
  <2>3. CASE p \notin {"idle", "noSession", "routerReady", "modalClosed", "breakpoints",
                       "filterState", "searchState"}
    BY <1>5, <2>1, <2>3, QueueEmpty DEF Tokens
  <2>4. CASE p \in {"modalClosed", "searchState"}
    BY <2>4
  <2> QED
    BY <2>2, <2>3, <2>4
<1>10. OneTokenIn(Permit)
  <2>1. Tokens("routerReady") = 1 /\ \A q \in Permit \ {"routerReady"} : Tokens(q) = 0
    BY <1>9, NamedPlaces, RoutePlaces DEF Permit
  <2> QED
    BY <2>1 DEF OneTokenIn, Permit
<1>11. OneTokenIn(Phases)
  <2>1. Tokens("noSession") = 1 /\ \A q \in Phases \ {"noSession"} : Tokens(q) = 0
    BY <1>9, NamedPlaces DEF Phases
  <2> QED
    BY <2>1 DEF OneTokenIn, Phases
<1>12. SumsHold
  <2>1. /\ \A q \in {"subscribedSession", "liveSession", "replaySession", "replayPaused",
                     "replayPlaying", "breakpointPaused", "uiState"} : Tokens(q) = 0
        /\ Tokens("breakpoints") = 1 /\ Tokens("filterState") = 1
    BY <1>9, NamedPlaces DEF Phases
  <2> QED
    BY <2>1 DEF SumsHold
<1>13. SessionHeld
  <2>1. m["subscribedSession"] = <<>> /\ produced["subscribedSession"] = <<>>
    BY <1>5, <1>6, <1>7, NamedPlaces DEF Phases
  <2> QED
    BY <2>1, QueueEmpty DEF SessionHeld
<1>14. FramesCalm
  <2>1. \A p \in Frames : Tokens(p) = 0
    BY <1>9, NamedPlaces DEF Frames
  <2> QED
    BY <2>1 DEF FramesCalm
<1> QED
  BY <1>7, <1>8, <1>10, <1>11, <1>12, <1>13, <1>14 DEF UIInvariant

\* The net's equations hold in every state of the debug client.
THEOREM UIInvariantHolds == Spec => []UIInvariant
<1>1. Init => UIInvariant
  BY InitHolds
<1>2. UIInvariant /\ [Next]_vars => UIInvariant'
  <2> SUFFICES ASSUME UIInvariant, [Next]_vars
               PROVE  UIInvariant'
    OBVIOUS
  <2>1. CASE Executor
    BY <2>1, ConnectionKeeps, SessionPhaseKeeps, RouterKeeps, RepaintKeeps, PlaybackKeeps,
       ToolsKeep DEF Executor
  <2>2. CASE t_reconnect
    BY <2>2, ReconnectKeeps
  <2>3. CASE Callbacks
    BY <2>3, CallbacksKeep
  <2>4. CASE UserActs
    BY <2>4, UserActsKeep
  <2>5. CASE UNCHANGED vars
    BY <2>5, UnmovedKeeps DEF vars
  <2> QED
    BY <2>1, <2>2, <2>3, <2>4, <2>5 DEF Next
<1> QED
  BY <1>1, <1>2, PTL DEF Spec

\* Whatever selects, closes, throws and late answers do, the session is in one phase and a
\* subscribed session in one mode, and shared.currentSession is the session of the marking.
THEOREM SessionPhasesExclusive == Spec => []SessionIsOnePhase
<1>1. UIInvariant => SessionIsOnePhase
  <2> SUFFICES ASSUME UIInvariant
               PROVE  SessionIsOnePhase
    OBVIOUS
  <2>1. /\ Queues(m) /\ OneTokenIn({"noSession", "subscribing", "subscribedSession"})
        /\ SumsHold /\ SessionHeld
    BY DEF UIInvariant, Phases
  <2>2. ASSUME m["subscribedSession"] # <<>>
        PROVE  session = Head(m["subscribedSession"])
    <3>1. IsQueue(m["subscribedSession"])
      BY <2>1, NamedPlaces DEF Queues, Phases
    <3>2. Head(m["subscribedSession"]) = m["subscribedSession"][1]
      BY <2>2, <3>1, QueueHead
    <3>3. 1 \in DOMAIN m["subscribedSession"]
      BY <2>2, <3>1, QueueLength
    <3> QED
      BY <2>1, <3>2, <3>3 DEF SessionHeld, HoldsOnly
  <2> QED
    BY <2>1, <2>2 DEF SessionIsOnePhase, SumsHold
<1> QED
  BY <1>1, UIInvariantHolds, PTL

\* The router keeps its permit whatever throws, and when the executor rests no message, frame,
\* repaint or tick of the playback is left.
THEOREM NothingIsStuck == Spec => []NothingStuck
<1>1. UIInvariant => NothingStuck
  <2> SUFFICES ASSUME UIInvariant
               PROVE  NothingStuck
    OBVIOUS
  <2>1. OneTokenIn({"routerReady", "deadLetter"} \cup Routes)
    BY DEF UIInvariant, Permit
  <2>2. ASSUME AtRest
        PROVE  /\ m["routerReady"] # <<>>
               /\ \A p \in {"wsMessage", "rafTick", "frameHighlight", "frameLog", "frameMarking",
                           "stateDirty", "autoStepTick"} : m[p] = <<>>
    <3>1. Calm /\ \A p \in Frames \cup {"stateDirty", "autoStepTick"} : Idle(p)
      BY <2>2, NothingWaits
    <3>2. \A p \in UIPlaces : Idle(p) <=> m[p] = <<>>
      BY <2>2, RestBlocks
    <3> QED
      BY <3>1, <3>2, NamedPlaces DEF Calm, Idle, Frames, Permit
  <2> QED
    BY <2>1, <2>2 DEF NothingStuck
<1> QED
  BY <1>1, UIInvariantHolds, PTL
=============================================================================
