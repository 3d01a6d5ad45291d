------------------------- MODULE DebugServerProofs --------------------------
(***************************************************************************)
(* No listener of DebugServer outlives its subscription, unless a second   *)
(* connection replaced its client's, and the registry keeps to its         *)
(* capacity, for any number of clients, sessions, scripts and any          *)
(* capacity.                                                               *)
(*                                                                         *)
(* The inductive invariant is ServerInvariant.  A step either keeps every  *)
(* subscription with its listener (OwnedFrame), or it takes the listener   *)
(* of the subscription it drops out of every store (CancelledSubs).  A     *)
(* full registry evicts at least one session before it enters another,     *)
(* since some session has none before it in the eviction order             *)
(* (SomeoneEvicted).                                                       *)
(***************************************************************************)
EXTENDS DebugServer, FiniteMaxima, SequenceTheorems

-----------------------------------------------------------------------------
(* Sequences that grow at the end.                                         *)

\* Append keeps what a sequence has and adds one entry after it.
LEMMA AppendOne ==
  ASSUME NEW s, s \in Seq(Range(s)), NEW e
  PROVE  /\ Append(s, e) \in Seq(Range(Append(s, e)))
         /\ Len(s) \in Nat /\ DOMAIN s = 1..Len(s)
         /\ DOMAIN Append(s, e) = 1..(Len(s) + 1)
         /\ Append(s, e)[Len(s) + 1] = e
         /\ \A i \in DOMAIN s : i # Len(s) + 1 /\ Append(s, e)[i] = s[i]
<1>1. s \in Seq(Range(s) \cup {e})
  BY SeqDef
<1>2. /\ Append(s, e) \in Seq(Range(s) \cup {e}) /\ Len(Append(s, e)) = Len(s) + 1
      /\ Append(s, e)[Len(s) + 1] = e /\ \A i \in 1..Len(s) : Append(s, e)[i] = s[i]
  BY <1>1, AppendProperties
<1>3. DOMAIN s = 1..Len(s) /\ Len(s) \in Nat
  OBVIOUS
<1> QED
  BY <1>1, <1>2, <1>3 DEF Range

\* A function on the domain of a sequence is a sequence of as many entries.
LEMMA SameLength ==
  ASSUME NEW s, s \in Seq(Range(s)), NEW f, f = [i \in DOMAIN s |-> f[i]]
  PROVE  f \in Seq(Range(f)) /\ DOMAIN f = DOMAIN s
<1>1. DOMAIN s = 1..Len(s) /\ Len(s) \in Nat
  OBVIOUS
<1>2. f \in [1..Len(s) -> Range(f)]
  BY <1>1 DEF Range
<1> QED
  BY <1>1, <1>2, SeqDef

-----------------------------------------------------------------------------
(* The capacity of the registry.                                           *)

\* evictIfNecessary(): of a full registry some session goes - an inactive one that started first,
\* or else the session that started first.
LEMMA SomeoneEvicted ==
  ASSUME SessionsTyped, Cardinality(DOMAIN registry) = MaxSessions
  PROVE  evicted(registry) # {}
<1> DEFINE ids == DOMAIN registry
           idle == {s \in ids : ~registry[s].active}
           S == IF idle # {} THEN idle ELSE ids
           f == [s \in S |-> 0 - registry[s].start]
<1>1. IsFiniteSet(ids) /\ Cardinality(ids) \in Nat /\ MaxSessions \in Nat \ {0}
  BY ServerAssumption, FS_CardinalityType DEF SessionsTyped, ServerAssumption
<1>2. ids # {}
  BY <1>1, FS_EmptySet
<1>3. S # {} /\ IsFiniteSet(S) /\ S \subseteq ids
  BY <1>1, <1>2, FS_Subset
<1>4. \A s \in ids : registry[s].start \in Int /\ registry[s].active \in BOOLEAN
  BY DEF SessionsTyped, IsSession
<1>5. f \in [S -> Int]
  BY <1>3, <1>4
<1>6. PICK a \in S : \A b \in S : f[b] <= f[a]
  <2>1. ASSUME NEW W, IsFiniteSet(W), W # {}, NEW g \in [W -> Int]
        PROVE  \E x \in W : \A y \in W : g[y] <= g[x]
    BY <2>1, FiniteMax
  <2> QED
    BY <1>3, <1>5, <2>1
<1>7. \A b \in S : registry[a].start <= registry[b].start
  <2> SUFFICES ASSUME NEW b \in S PROVE registry[a].start <= registry[b].start
    OBVIOUS
  <2>1. f[b] <= f[a] /\ f[b] = 0 - registry[b].start /\ f[a] = 0 - registry[a].start
    BY <1>6
  <2>2. registry[a].start \in Int /\ registry[b].start \in Int
    BY <1>3, <1>4
  <2> HIDE DEF f
  <2> QED
    BY <2>1, <2>2
<1>8. {b \in ids \ {a} : EvictsBefore(registry, b, a)} = {}
  <2> SUFFICES ASSUME NEW b \in ids, EvictsBefore(registry, b, a) PROVE FALSE
    OBVIOUS
  <2>1. CASE idle # {}
    <3>1. a \in idle /\ (b \in idle => registry[a].start <= registry[b].start)
      BY <1>6, <1>7, <2>1
    <3> QED
      BY <1>4, <3>1 DEF EvictsBefore
  <2>2. CASE idle = {}
    <3>1. registry[b].active /\ a \in ids /\ registry[a].start <= registry[b].start
      BY <1>6, <1>7, <2>2
    <3> QED
      BY <1>4, <3>1 DEF EvictsBefore
  <2> QED
    BY <2>1, <2>2
<1>9. Cardinality({b \in ids \ {a} : EvictsBefore(registry, b, a)}) < Cardinality(ids) - MaxSessions + 1
  <2> HIDE DEF ids
  <2>1. Cardinality({}) = 0
    BY FS_EmptySet
  <2>2. 0 < Cardinality(ids) - MaxSessions + 1
    BY <1>1 DEF ids
  <2> QED
    BY <1>8, <2>1, <2>2, Zenon
<1> QED
  BY <1>3, <1>9 DEF evicted

\* Whatever enters the registry finds room.
LEMMA EnterFits ==
  ASSUME SessionsTyped, Cardinality(DOMAIN registry) <= MaxSessions, NEW s, NEW r, NEW st,
         Enter(s, r, st)
  PROVE  IsFiniteSet(DOMAIN registry') /\ Cardinality(DOMAIN registry') <= MaxSessions
<1> DEFINE ids == DOMAIN registry
           rest == ids \ evicted(registry)
<1>1. IsFiniteSet(ids) /\ Cardinality(ids) \in Nat /\ MaxSessions \in Nat \ {0}
  BY ServerAssumption, FS_CardinalityType DEF SessionsTyped, ServerAssumption
<1>2. IsFiniteSet(rest) /\ Cardinality(rest) \in Nat /\ Cardinality(rest) <= Cardinality(ids)
  BY <1>1, FS_Subset, FS_CardinalityType
<1>3. Cardinality(rest) < MaxSessions
  <2>1. CASE Cardinality(ids) < MaxSessions
    BY <1>1, <1>2, <2>1
  <2>2. CASE Cardinality(ids) = MaxSessions
    <3>1. PICK a : a \in evicted(registry) /\ a \in ids
      BY <2>2, SomeoneEvicted DEF evicted
    <3>2. rest \subseteq ids \ {a}
      BY <3>1
    <3>3. /\ IsFiniteSet(ids \ {a}) /\ Cardinality(ids \ {a}) = Cardinality(ids) - 1
      BY <1>1, <3>1, FS_RemoveElement
    <3>4. Cardinality(rest) <= Cardinality(ids \ {a})
      BY <3>2, <3>3, FS_Subset
    <3> QED
      BY <1>1, <1>2, <2>2, <3>3, <3>4
  <2> QED
    BY <1>1, <2>1, <2>2
<1>4. DOMAIN registry' = rest \cup {s}
  BY DEF Enter, With, Without
<1>5. /\ IsFiniteSet(rest \cup {s})
      /\ Cardinality(rest \cup {s}) = Cardinality(rest) \/ Cardinality(rest \cup {s}) = Cardinality(rest) + 1
  BY <1>2, FS_AddElement
<1> QED
  BY <1>1, <1>2, <1>3, <1>4, <1>5

-----------------------------------------------------------------------------
(* What a step may do to an owned listener.                                *)

\* Listeners are only added, and those there keep their client and session.
ListenersKept ==
  /\ DOMAIN listeners \subseteq DOMAIN listeners'
  /\ \A l \in DOMAIN listeners :
       /\ listeners'[l].client = listeners[l].client /\ listeners'[l].session = listeners[l].session
       /\ listeners[l].stray => listeners'[l].stray

\* Client c still has its subscription to s, with the same listener.
SubscriptionKept(c, s) ==
  /\ client'[c].up = client[c].up
  /\ s \in DOMAIN client'[c].subs
  /\ client'[c].subs[s].listener = client[c].subs[s].listener

\* Every listener a store tells was told by a store before.
NoNewSubs ==
  \A k \in DOMAIN stores' : \A l \in stores'[k].subs : \E j \in DOMAIN stores : l \in stores[j].subs

\* An owned listener stays owned unless its own subscription goes; a stray one stays stray.
LEMMA StaysOwned ==
  ASSUME ListenersTyped, ListenersKept, NEW l, Accounted(l),
         Owned(l) => SubscriptionKept(listeners[l].client, listeners[l].session)
  PROVE  Accounted(l)'
<1>1. CASE Owned(l)
  <2>1. SubscriptionKept(listeners[l].client, listeners[l].session)
    BY <1>1
  <2>2. Owned(l)'
    BY <1>1, <2>1
       DEF ListenersTyped, ListenersKept, Owned, SubscriptionKept, HasSub, Subs, SubOf, IsListener
  <2> QED
    BY <2>2 DEF Accounted
<1>2. CASE Stray(l)
  BY <1>2 DEF ListenersKept, Accounted, Stray
<1> QED
  BY <1>1, <1>2 DEF Accounted

\* A step that keeps every subscription keeps the listeners owned.
LEMMA OwnedFrame ==
  ASSUME ServerInvariant, ListenersKept, NoNewSubs,
         \A c \in Clients : \A s \in DOMAIN client[c].subs : SubscriptionKept(c, s)
  PROVE  (\A k \in DOMAIN stores : \A l \in stores[k].subs : Accounted(l))'
<1> SUFFICES ASSUME NEW k \in DOMAIN stores', NEW l \in stores'[k].subs
             PROVE  Accounted(l)'
  OBVIOUS
<1>1. Accounted(l)
  BY DEF ServerInvariant, NoNewSubs
<1>2. Owned(l) => SubscriptionKept(listeners[l].client, listeners[l].session)
  BY DEF Owned, ServerInvariant, ListenersTyped, IsListener, HasSub, Subs
<1> QED
  BY <1>1, <1>2, StaysOwned DEF ServerInvariant

\* cancel() of the subscriptions of c to the sessions in S: the stores keep their other listeners,
\* and tell none of the cancelled ones.
LEMMA CancelledSubs ==
  ASSUME StoresTyped, NEW c, NEW S
  PROVE  /\ Cancelled(stores, c, S) \in Seq(Range(Cancelled(stores, c, S)))
         /\ DOMAIN Cancelled(stores, c, S) = DOMAIN stores
         /\ \A k \in DOMAIN stores :
              /\ IsStore(Cancelled(stores, c, S)[k])
              /\ Cancelled(stores, c, S)[k].subs
                   = stores[k].subs \ {client[c].subs[s].listener : s \in S \cap DOMAIN client[c].subs}
<1> DEFINE gone == {client[c].subs[s].listener : s \in S \cap DOMAIN client[c].subs}
           after == [k \in DOMAIN stores |-> [stores[k] EXCEPT !.subs = @ \ gone]]
<1>1. Cancelled(stores, c, S) = after
  BY DEF Cancelled, Subs
<1>2. after \in Seq(Range(after)) /\ DOMAIN after = DOMAIN stores
  <2> DEFINE g == after
  <2>1. g = [k \in DOMAIN stores |-> g[k]]
    OBVIOUS
  <2>2. stores \in Seq(Range(stores))
    BY DEF StoresTyped
  <2> HIDE DEF g
  <2> QED
    BY <2>1, <2>2, SameLength DEF g
<1>3. ASSUME NEW k \in DOMAIN stores
      PROVE  IsStore(after[k]) /\ after[k].subs = stores[k].subs \ gone
  <2>1. IsStore(stores[k])
    BY DEF StoresTyped
  <2> HIDE DEF gone
  <2> QED
    BY <2>1 DEF IsStore
<1> QED
  BY <1>1, <1>2, <1>3

\* A step that cancels the subscriptions of c to S and keeps every other leaves the listeners owned.
LEMMA CancelOwned ==
  ASSUME ServerInvariant, ListenersKept, NEW c \in Clients, NEW S,
         \A k \in DOMAIN stores' : \A l \in stores'[k].subs :
           \/ Accounted(l)'
           \/ \E j \in DOMAIN stores : l \in Cancelled(stores, c, S)[j].subs,
         \A d \in Clients : \A s \in DOMAIN client[d].subs :
           ~(d = c /\ s \in S) => SubscriptionKept(d, s)
  PROVE  (\A k \in DOMAIN stores : \A l \in stores[k].subs : Accounted(l))'
<1> SUFFICES ASSUME NEW k \in DOMAIN stores', NEW l \in stores'[k].subs, ~(Accounted(l)')
             PROVE  FALSE
  OBVIOUS
<1>1. PICK j \in DOMAIN stores : l \in Cancelled(stores, c, S)[j].subs
  OBVIOUS
<1>2. /\ l \in stores[j].subs
      /\ l \notin {client[c].subs[s].listener : s \in S \cap DOMAIN client[c].subs}
  BY <1>1, CancelledSubs DEF ServerInvariant
<1>0. \A i \in DOMAIN stores : \A e \in stores[i].subs : Accounted(e)
  BY DEF ServerInvariant
<1>3. Accounted(l)
  BY <1>0, <1>2
<1> DEFINE d == listeners[l].client
           s == listeners[l].session
<1>4. Owned(l) => d \in Clients /\ s \in DOMAIN client[d].subs /\ client[d].subs[s].listener = l
  BY DEF Owned, ServerInvariant, ListenersTyped, IsListener, HasSub, Subs, SubOf
<1>5. Owned(l) => ~(d = c /\ s \in S)
  BY <1>2, <1>4
<1> QED
  BY <1>3, <1>4, <1>5, StaysOwned DEF ServerInvariant

-----------------------------------------------------------------------------
(* Commands that change only what the handler keeps of the client.         *)

\* next is a client's state with the subscriptions and listeners of r.
SameListeners(r, next) ==
  /\ IsClient(next)
  /\ next.up = r.up
  /\ DOMAIN next.subs = DOMAIN r.subs
  /\ \A s \in DOMAIN next.subs : next.subs[s].listener = r.subs[s].listener

\* What is kept where it is not named.
LEMMA RestKept ==
  ASSUME ServerInvariant
  PROVE  /\ UNCHANGED stores => NoNewSubs /\ StoresTyped'
         /\ UNCHANGED listeners => ListenersKept /\ ListenersTyped'
         /\ UNCHANGED <<registry, archives, clock>> =>
              SessionsTyped' /\ Cardinality(DOMAIN registry') <= MaxSessions
         /\ UNCHANGED client =>
              ClientsTyped' /\ \A c \in Clients : \A s \in DOMAIN client[c].subs : SubscriptionKept(c, s)
<1>1. UNCHANGED stores => NoNewSubs /\ StoresTyped'
  BY DEF ServerInvariant, NoNewSubs, StoresTyped
<1>2. UNCHANGED listeners => ListenersKept /\ ListenersTyped'
  BY DEF ServerInvariant, ListenersKept, ListenersTyped
<1>3. UNCHANGED <<registry, archives, clock>> =>
        SessionsTyped' /\ Cardinality(DOMAIN registry') <= MaxSessions
  BY DEF ServerInvariant, SessionsTyped
<1>4. UNCHANGED client =>
        ClientsTyped' /\ \A c \in Clients : \A s \in DOMAIN client[c].subs : SubscriptionKept(c, s)
  BY DEF ServerInvariant, ClientsTyped, SubscriptionKept
<1> QED
  BY <1>1, <1>2, <1>3, <1>4

\* The clients' next states, each with the same subscriptions.
LEMMA ClientsStep ==
  ASSUME ServerInvariant, client' = [c \in Clients |-> client'[c]],
         \A c \in Clients : SameListeners(client[c], client'[c])
  PROVE  ClientsTyped' /\ \A c \in Clients : \A s \in DOMAIN client[c].subs : SubscriptionKept(c, s)
BY DEF ClientsTyped, SubscriptionKept, SameListeners

\* Writing fields of a client other than its subscriptions.
LEMMA ClientFields ==
  ASSUME NEW r, IsClient(r), NEW x
  PROVE  /\ IsClient([r EXCEPT !.list = x]) /\ [r EXCEPT !.list = x].up = r.up
         /\ [r EXCEPT !.list = x].subs = r.subs
         /\ IsClient([r EXCEPT !.shown = x]) /\ [r EXCEPT !.shown = x].up = r.up
         /\ [r EXCEPT !.shown = x].subs = r.subs
         /\ IsClient([r EXCEPT !.got = x]) /\ [r EXCEPT !.got = x].up = r.up
         /\ [r EXCEPT !.got = x].subs = r.subs
<1>1. r = [up |-> r.up, gen |-> r.gen, subs |-> r.subs, shown |-> r.shown, got |-> r.got, list |-> r.list]
  BY DEF IsClient
<1>2. ASSUME NEW q, q.up = r.up, q.subs = r.subs,
             q = [up |-> q.up, gen |-> q.gen, subs |-> q.subs, shown |-> q.shown, got |-> q.got,
                  list |-> q.list]
      PROVE  IsClient(q)
  BY <1>2 DEF IsClient
<1>3. IsClient([r EXCEPT !.list = x]) /\ [r EXCEPT !.list = x].up = r.up
      /\ [r EXCEPT !.list = x].subs = r.subs
  BY <1>1, <1>2
<1>4. IsClient([r EXCEPT !.shown = x]) /\ [r EXCEPT !.shown = x].up = r.up
      /\ [r EXCEPT !.shown = x].subs = r.subs
  BY <1>1, <1>2
<1>5. IsClient([r EXCEPT !.got = x]) /\ [r EXCEPT !.got = x].up = r.up
      /\ [r EXCEPT !.got = x].subs = r.subs
  BY <1>1, <1>2
<1> QED
  BY <1>3, <1>4, <1>5

\* Writing one subscription of a client.
LEMMA ClientSub ==
  ASSUME NEW r, IsClient(r), NEW s \in DOMAIN r.subs, NEW sub, IsSubscription(sub)
  PROVE  LET q == [r EXCEPT !.subs[s] = sub]
         IN /\ IsClient(q) /\ q.up = r.up /\ q.subs = [r.subs EXCEPT ![s] = sub]
<1> DEFINE q == [r EXCEPT !.subs[s] = sub]
           h == [r.subs EXCEPT ![s] = sub]
<1>1. r = [up |-> r.up, gen |-> r.gen, subs |-> r.subs, shown |-> r.shown, got |-> r.got, list |-> r.list]
  BY DEF IsClient
<1>2. q = [up |-> r.up, gen |-> r.gen, subs |-> h, shown |-> r.shown, got |-> r.got, list |-> r.list]
  BY <1>1
<1>3. h = [t \in DOMAIN h |-> h[t]] /\ DOMAIN h = DOMAIN r.subs /\ \A t \in DOMAIN h : IsSubscription(h[t])
  BY DEF IsClient
<1> HIDE DEF q, h
<1>4. /\ q = [up |-> q.up, gen |-> q.gen, subs |-> q.subs, shown |-> q.shown, got |-> q.got, list |-> q.list]
      /\ q.up = r.up /\ q.subs = h
  BY <1>2
<1>5. IsClient(q)
  BY <1>3, <1>4 DEF IsClient
<1> QED
  BY <1>4, <1>5 DEF q, h

\* Writing one field of a subscription other than its listener.
LEMMA SubscriptionField ==
  ASSUME NEW sub, IsSubscription(sub), NEW x
  PROVE  /\ IsSubscription([sub EXCEPT !.paused = x]) /\ [sub EXCEPT !.paused = x].listener = sub.listener
         /\ IsSubscription([sub EXCEPT !.missed = x]) /\ [sub EXCEPT !.missed = x].listener = sub.listener
         /\ IsSubscription([sub EXCEPT !.filter = x]) /\ [sub EXCEPT !.filter = x].listener = sub.listener
         /\ IsSubscription([sub EXCEPT !.breakpoints = x]) /\ [sub EXCEPT !.breakpoints = x].listener = sub.listener
         /\ IsSubscription([sub EXCEPT !.eventIndex = x]) /\ [sub EXCEPT !.eventIndex = x].listener = sub.listener
         /\ IsSubscription([sub EXCEPT !.cache = x]) /\ [sub EXCEPT !.cache = x].listener = sub.listener
BY DEF IsSubscription

\* Writing the fields the handlers write together.
LEMMA SubscriptionFields ==
  ASSUME NEW sub, IsSubscription(sub), NEW x, NEW y
  PROVE  /\ IsSubscription([sub EXCEPT !.paused = TRUE, !.missed = TRUE])
         /\ [sub EXCEPT !.paused = TRUE, !.missed = TRUE].listener = sub.listener
         /\ IsSubscription([sub EXCEPT !.filter = x, !.missed = TRUE])
         /\ [sub EXCEPT !.filter = x, !.missed = TRUE].listener = sub.listener
         /\ IsSubscription([sub EXCEPT !.eventIndex = x, !.missed = TRUE])
         /\ [sub EXCEPT !.eventIndex = x, !.missed = TRUE].listener = sub.listener
         /\ IsSubscription([sub EXCEPT !.eventIndex = x, !.cache = y, !.missed = TRUE])
         /\ [sub EXCEPT !.eventIndex = x, !.cache = y, !.missed = TRUE].listener = sub.listener
<1>1. /\ IsSubscription([sub EXCEPT !.paused = TRUE, !.missed = TRUE])
      /\ [sub EXCEPT !.paused = TRUE, !.missed = TRUE].listener = sub.listener
  <2> DEFINE s1 == [sub EXCEPT !.paused = TRUE]
             s2 == [s1 EXCEPT !.missed = TRUE]
  <2>1. [sub EXCEPT !.paused = TRUE, !.missed = TRUE] = s2
    OBVIOUS
  <2>2. IsSubscription(s1) /\ s1.listener = sub.listener
    BY SubscriptionField, Zenon
  <2> HIDE DEF s1
  <2>3. IsSubscription(s2) /\ s2.listener = s1.listener
    BY <2>2, SubscriptionField, Zenon
  <2> HIDE DEF s2
  <2> QED
    BY <2>1, <2>2, <2>3, Zenon
<1>2. /\ IsSubscription([sub EXCEPT !.filter = x, !.missed = TRUE])
      /\ [sub EXCEPT !.filter = x, !.missed = TRUE].listener = sub.listener
  <2> DEFINE s1 == [sub EXCEPT !.filter = x]
             s2 == [s1 EXCEPT !.missed = TRUE]
  <2>1. [sub EXCEPT !.filter = x, !.missed = TRUE] = s2
    OBVIOUS
  <2>2. IsSubscription(s1) /\ s1.listener = sub.listener
    BY SubscriptionField
  <2> HIDE DEF s1
  <2>3. IsSubscription(s2) /\ s2.listener = s1.listener
    BY <2>2, SubscriptionField, Zenon
  <2> HIDE DEF s2
  <2> QED
    BY <2>1, <2>2, <2>3, Zenon
<1>3. /\ IsSubscription([sub EXCEPT !.eventIndex = x, !.missed = TRUE])
      /\ [sub EXCEPT !.eventIndex = x, !.missed = TRUE].listener = sub.listener
  <2> DEFINE s1 == [sub EXCEPT !.eventIndex = x]
             s2 == [s1 EXCEPT !.missed = TRUE]
  <2>1. [sub EXCEPT !.eventIndex = x, !.missed = TRUE] = s2
    OBVIOUS
  <2>2. IsSubscription(s1) /\ s1.listener = sub.listener
    BY SubscriptionField
  <2> HIDE DEF s1
  <2>3. IsSubscription(s2) /\ s2.listener = s1.listener
    BY <2>2, SubscriptionField, Zenon
  <2> HIDE DEF s2
  <2> QED
    BY <2>1, <2>2, <2>3, Zenon
<1>4. /\ IsSubscription([sub EXCEPT !.eventIndex = x, !.cache = y, !.missed = TRUE])
      /\ [sub EXCEPT !.eventIndex = x, !.cache = y, !.missed = TRUE].listener = sub.listener
  <2> DEFINE s1 == [sub EXCEPT !.eventIndex = x]
             s2 == [s1 EXCEPT !.cache = y]
             s3 == [s2 EXCEPT !.missed = TRUE]
  <2>1. [sub EXCEPT !.eventIndex = x, !.cache = y, !.missed = TRUE] = s3
    OBVIOUS
  <2>2. IsSubscription(s1) /\ s1.listener = sub.listener
    BY SubscriptionField
  <2> HIDE DEF s1
  <2>3. IsSubscription(s2) /\ s2.listener = s1.listener
    BY <2>2, SubscriptionField
  <2> HIDE DEF s2
  <2>4. IsSubscription(s3) /\ s3.listener = s2.listener
    BY <2>3, SubscriptionField, Zenon
  <2> HIDE DEF s3
  <2> QED
    BY <2>1, <2>2, <2>3, <2>4, Zenon
<1> QED
  BY <1>1, <1>2, <1>3, <1>4

\* A client's state with its subscriptions as they were.
LEMMA ClientSame ==
  ASSUME NEW r, IsClient(r), NEW x
  PROVE  /\ SameListeners(r, r)
         /\ SameListeners(r, [r EXCEPT !.list = x])
         /\ SameListeners(r, [r EXCEPT !.shown = x])
         /\ SameListeners(r, [r EXCEPT !.got = x])
<1>1. ASSUME NEW q, IsClient(q), q.up = r.up, q.subs = r.subs
      PROVE  SameListeners(r, q)
  BY <1>1 DEF SameListeners
<1> QED
  BY <1>1, ClientFields

LEMMA OnlyClientStep ==
  ASSUME ServerInvariant, NEW c \in Clients, NEW next, SameListeners(client[c], next), OnlyClient(c, next)
  PROVE  ServerInvariant'
<1>1. client' = [d \in Clients |-> client'[d]] /\ \A d \in Clients : SameListeners(client[d], client'[d])
  BY ClientSame DEF ServerInvariant, ClientsTyped, OnlyClient
<1>2. ClientsTyped' /\ \A d \in Clients : \A s \in DOMAIN client[d].subs : SubscriptionKept(d, s)
  BY <1>1, ClientsStep
<1>3. /\ NoNewSubs /\ StoresTyped' /\ ListenersKept /\ ListenersTyped' /\ SessionsTyped'
      /\ Cardinality(DOMAIN registry') <= MaxSessions
  BY RestKept DEF OnlyClient
<1>4. (\A k \in DOMAIN stores : \A l \in stores[k].subs : Accounted(l))'
  BY <1>2, <1>3, OwnedFrame
<1> QED
  BY <1>2, <1>3, <1>4 DEF ServerInvariant

\* A setter writes one field of the subscription, never its listener.
LEMMA SettingStep ==
  ASSUME ServerInvariant, NEW c \in Clients, NEW s, NEW next, Setting(c, s, next),
         HasSub(c, s) => IsSubscription(next) /\ next.listener = SubOf(c, s).listener
  PROVE  ServerInvariant'
<1>1. CASE HasSub(c, s)
  <2>1. SameListeners(client[c], [client[c] EXCEPT !.subs[s] = next])
    <3>1. IsClient(client[c]) /\ s \in DOMAIN client[c].subs /\ IsSubscription(next)
      BY <1>1 DEF ServerInvariant, ClientsTyped, HasSub, Subs
    <3> DEFINE q == [client[c] EXCEPT !.subs[s] = next]
    <3>2. IsClient(q) /\ q.up = client[c].up /\ q.subs = [client[c].subs EXCEPT ![s] = next]
      BY <3>1, ClientSub
    <3> HIDE DEF q
    <3>3. SameListeners(client[c], q)
      BY <1>1, <3>1, <3>2 DEF SameListeners, SubOf, Subs
    <3> QED
      BY <3>3 DEF q
  <2> QED
    BY <1>1, <2>1, OnlyClientStep DEF Setting
<1>2. CASE ~HasSub(c, s)
  BY <1>2, ClientSame, OnlyClientStep DEF Setting, ServerInvariant, ClientsTyped
<1> QED
  BY <1>1, <1>2

LEMMA SettersStep ==
  ASSUME ServerInvariant, NEW c \in Clients, NEW s,
         \/ handlePause(c, s) \/ handleResume(c, s) \/ handleSetFilter(c, s)
         \/ handleSetBreakpoint(c, s) \/ handleClearBreakpoint(c, s)
  PROVE  ServerInvariant'
<1>1. HasSub(c, s) => IsSubscription(SubOf(c, s))
  BY DEF ServerInvariant, ClientsTyped, IsClient, HasSub, SubOf, Subs
<1>2. CASE handlePause(c, s)
  <2> DEFINE next == [SubOf(c, s) EXCEPT !.paused = TRUE, !.missed = TRUE]
  <2>1. HasSub(c, s) => IsSubscription(next) /\ next.listener = SubOf(c, s).listener
    BY <1>1, SubscriptionFields, Zenon
  <2> QED
    BY <1>2, <2>1, SettingStep, Zenon DEF handlePause
<1>3. CASE handleResume(c, s)
  <2> DEFINE next == [SubOf(c, s) EXCEPT !.paused = FALSE]
  <2>1. HasSub(c, s) => IsSubscription(next) /\ next.listener = SubOf(c, s).listener
    BY <1>1, SubscriptionField, Zenon
  <2> QED
    BY <1>3, <2>1, SettingStep DEF handleResume
<1>4. CASE handleSetFilter(c, s)
  <2>1. PICK f \in Filters : Setting(c, s, [SubOf(c, s) EXCEPT !.filter = f, !.missed = TRUE])
    BY <1>4 DEF handleSetFilter
  <2> DEFINE next == [SubOf(c, s) EXCEPT !.filter = f, !.missed = TRUE]
  <2>2. ASSUME HasSub(c, s) PROVE IsSubscription(next) /\ next.listener = SubOf(c, s).listener
    BY <1>1, <2>2, SubscriptionFields, Zenon
  <2> QED
    BY <2>1, <2>2, SettingStep
<1>5. ASSUME NEW x, Setting(c, s, [SubOf(c, s) EXCEPT !.breakpoints = x])
      PROVE  ServerInvariant'
  <2> DEFINE next == [SubOf(c, s) EXCEPT !.breakpoints = x]
  <2>1. HasSub(c, s) => IsSubscription(next) /\ next.listener = SubOf(c, s).listener
    BY <1>1, SubscriptionField, Zenon
  <2> QED
    BY <1>5, <2>1, SettingStep
<1>6. CASE handleSetBreakpoint(c, s)
  BY <1>5, <1>6 DEF handleSetBreakpoint
<1>7. CASE handleClearBreakpoint(c, s)
  BY <1>5, <1>7 DEF handleClearBreakpoint
<1> QED
  BY <1>2, <1>3, <1>4, <1>6, <1>7

\* Writing one field of one subscription of a client, other than its listener.
LEMMA ClientSubField ==
  ASSUME NEW r, IsClient(r), NEW s \in DOMAIN r.subs, NEW x
  PROVE  /\ SameListeners(r, [r EXCEPT !.subs[s].eventIndex = x])
         /\ SameListeners(r, [r EXCEPT !.subs[s].cache = x])
         /\ SameListeners(r, [r EXCEPT !.subs[s].missed = x])
         /\ SameListeners(r, [r EXCEPT !.subs[s].paused = x])
<1>1. IsSubscription(r.subs[s])
  BY DEF IsClient
<1>2. ASSUME NEW sub, IsSubscription(sub), sub.listener = r.subs[s].listener
      PROVE  SameListeners(r, [r EXCEPT !.subs[s] = sub])
  <2> DEFINE q == [r EXCEPT !.subs[s] = sub]
  <2>1. IsClient(q) /\ q.up = r.up /\ q.subs = [r.subs EXCEPT ![s] = sub]
    BY <1>2, ClientSub
  <2> HIDE DEF q
  <2>2. SameListeners(r, q)
    BY <1>2, <2>1 DEF SameListeners
  <2> QED
    BY <2>2 DEF q
<1>3. SameListeners(r, [r EXCEPT !.subs[s].eventIndex = x])
  <2>1. [r EXCEPT !.subs[s].eventIndex = x] = [r EXCEPT !.subs[s] = [r.subs[s] EXCEPT !.eventIndex = x]]
    OBVIOUS
  <2>2. /\ IsSubscription([r.subs[s] EXCEPT !.eventIndex = x])
        /\ [r.subs[s] EXCEPT !.eventIndex = x].listener = r.subs[s].listener
    BY <1>1, SubscriptionField
  <2> QED
    BY <1>2, <2>1, <2>2
<1>4. SameListeners(r, [r EXCEPT !.subs[s].cache = x])
  <2>1. [r EXCEPT !.subs[s].cache = x] = [r EXCEPT !.subs[s] = [r.subs[s] EXCEPT !.cache = x]]
    OBVIOUS
  <2>2. /\ IsSubscription([r.subs[s] EXCEPT !.cache = x])
        /\ [r.subs[s] EXCEPT !.cache = x].listener = r.subs[s].listener
    BY <1>1, SubscriptionField
  <2> QED
    BY <1>2, <2>1, <2>2
<1>5. SameListeners(r, [r EXCEPT !.subs[s].missed = x])
  <2>1. [r EXCEPT !.subs[s].missed = x] = [r EXCEPT !.subs[s] = [r.subs[s] EXCEPT !.missed = x]]
    OBVIOUS
  <2>2. /\ IsSubscription([r.subs[s] EXCEPT !.missed = x])
        /\ [r.subs[s] EXCEPT !.missed = x].listener = r.subs[s].listener
    BY <1>1, SubscriptionField
  <2> QED
    BY <1>2, <2>1, <2>2
<1>6. SameListeners(r, [r EXCEPT !.subs[s].paused = x])
  <2>1. [r EXCEPT !.subs[s].paused = x] = [r EXCEPT !.subs[s] = [r.subs[s] EXCEPT !.paused = x]]
    OBVIOUS
  <2>2. /\ IsSubscription([r.subs[s] EXCEPT !.paused = x])
        /\ [r.subs[s] EXCEPT !.paused = x].listener = r.subs[s].listener
    BY <1>1, SubscriptionField
  <2> QED
    BY <1>2, <2>1, <2>2
<1> QED
  BY <1>3, <1>4, <1>5, <1>6

\* The changes of a client's state compose.
LEMMA SameTransitive ==
  ASSUME NEW r, NEW q, NEW z, SameListeners(r, q), SameListeners(q, z)
  PROVE  SameListeners(r, z)
BY DEF SameListeners

\* Seeking and stepping: the index, the cache, the mark and the shown state.
LEMMA Shown ==
  ASSUME NEW r, IsClient(r), NEW s \in DOMAIN r.subs, NEW index, NEW cache, NEW x
  PROVE  /\ SameListeners(r, [r EXCEPT !.subs[s].eventIndex = index, !.subs[s].missed = TRUE])
         /\ SameListeners(r, [r EXCEPT !.subs[s].paused = TRUE, !.subs[s].missed = TRUE])
         /\ SameListeners(r, [r EXCEPT !.subs[s].eventIndex = index, !.subs[s].cache = cache,
                                       !.subs[s].missed = TRUE, !.shown = x])
<1>1. ASSUME NEW q, SameListeners(r, q), NEW z, SameListeners(q, z)
      PROVE  SameListeners(r, z)
  BY <1>1, SameTransitive
<1>2. ASSUME NEW q, SameListeners(r, q)
      PROVE  IsClient(q) /\ s \in DOMAIN q.subs
  BY <1>2 DEF SameListeners
<1>3. SameListeners(r, [r EXCEPT !.subs[s].eventIndex = index, !.subs[s].missed = TRUE])
  <2> DEFINE r1 == [r EXCEPT !.subs[s].eventIndex = index]
             r2 == [r1 EXCEPT !.subs[s].missed = TRUE]
  <2>1. [r EXCEPT !.subs[s].eventIndex = index, !.subs[s].missed = TRUE] = r2
    OBVIOUS
  <2>2. SameListeners(r, r1)
    BY ClientSubField
  <2> HIDE DEF r1
  <2>3. SameListeners(r1, r2)
    BY <1>2, <2>2, ClientSubField, Zenon
  <2> HIDE DEF r2
  <2> QED
    BY <1>1, <2>1, <2>2, <2>3, Zenon
<1>4. SameListeners(r, [r EXCEPT !.subs[s].paused = TRUE, !.subs[s].missed = TRUE])
  <2> DEFINE r1 == [r EXCEPT !.subs[s].paused = TRUE]
             r2 == [r1 EXCEPT !.subs[s].missed = TRUE]
  <2>1. [r EXCEPT !.subs[s].paused = TRUE, !.subs[s].missed = TRUE] = r2
    OBVIOUS
  <2>2. SameListeners(r, r1)
    BY ClientSubField, Zenon
  <2> HIDE DEF r1
  <2>3. SameListeners(r1, r2)
    BY <1>2, <2>2, ClientSubField, Zenon
  <2> HIDE DEF r2
  <2> QED
    BY <1>1, <2>1, <2>2, <2>3, Zenon
<1>5. SameListeners(r, [r EXCEPT !.subs[s].eventIndex = index, !.subs[s].cache = cache,
                                 !.subs[s].missed = TRUE, !.shown = x])
  <2> DEFINE r1 == [r EXCEPT !.subs[s].eventIndex = index]
             r2 == [r1 EXCEPT !.subs[s].cache = cache]
             r3 == [r2 EXCEPT !.subs[s].missed = TRUE]
             r4 == [r3 EXCEPT !.shown = x]
  <2>1. [r EXCEPT !.subs[s].eventIndex = index, !.subs[s].cache = cache,
                  !.subs[s].missed = TRUE, !.shown = x] = r4
    OBVIOUS
  <2>2. SameListeners(r, r1)
    BY ClientSubField
  <2> HIDE DEF r1
  <2>3. SameListeners(r1, r2)
    BY <1>2, <2>2, ClientSubField
  <2> HIDE DEF r2
  <2>4. SameListeners(r, r2)
    BY <1>1, <2>2, <2>3
  <2>5. SameListeners(r2, r3)
    BY <1>2, <2>4, ClientSubField, Zenon
  <2> HIDE DEF r3
  <2>6. SameListeners(r, r3)
    BY <1>1, <2>4, <2>5
  <2>7. SameListeners(r3, r4)
    BY <1>2, <2>6, ClientSame
  <2> HIDE DEF r4
  <2> QED
    BY <1>1, <2>1, <2>6, <2>7, Zenon
<1> QED
  BY <1>3, <1>4, <1>5

\* Seeking and stepping move a subscription and never touch its listener.
LEMMA MovesStep ==
  ASSUME ServerInvariant, NEW c \in Clients, NEW s,
         \/ handleSeek(c, s) \/ handleStepForward(c, s) \/ handleStepBackward(c, s)
         \/ handleListSessions(c) \/ handleQueries(c)
  PROVE  ServerInvariant'
<1>1. IsClient(client[c]) /\ SameListeners(client[c], client[c])
  BY ClientSame DEF ServerInvariant, ClientsTyped
<1>2. ASSUME NEW next, SameListeners(client[c], next), OnlyClient(c, next)
      PROVE  ServerInvariant'
  BY <1>2, OnlyClientStep
<1>3. ASSUME SessionNotFound(c, s) PROVE ServerInvariant'
  BY <1>1, <1>2, <1>3 DEF SessionNotFound
<1>4. ASSUME NEW index, ShowStateAt(c, s, index) PROVE ServerInvariant'
  <2>1. CASE HasSub(c, s)
    <3>1. PICK cache, x : OnlyClient(c, [client[c] EXCEPT !.subs[s].eventIndex = index,
                    !.subs[s].cache = cache, !.subs[s].missed = TRUE, !.shown = x])
      BY <1>4, <2>1 DEF ShowStateAt
    <3>2. s \in DOMAIN client[c].subs
      BY <2>1 DEF HasSub, Subs
    <3> QED
      BY <1>1, <1>2, <3>1, <3>2, Shown, Zenon
  <2>2. CASE ~HasSub(c, s)
    BY <1>1, <1>2, <1>4, <2>2, ClientSame DEF ShowStateAt
  <2> QED
    BY <2>1, <2>2
<1>5. CASE handleSeek(c, s)
  BY <1>3, <1>4, <1>5 DEF handleSeek
<1>6. CASE handleStepForward(c, s)
  <2>1. CASE SessionNotFound(c, s)
    BY <1>3, <2>1
  <2>2. CASE ~SessionNotFound(c, s)
    <3> DEFINE sent(x) == [client[c] EXCEPT !.shown = x]
               here == IF HasSub(c, s) THEN SubOf(c, s).eventIndex ELSE 0
               seen == IF s \in DOMAIN client[c].shown
                       THEN With(client[c].shown, s, applyEventToState(client[c].shown[s],
                                                       stores[registry[s].store].events[here + 1]))
                       ELSE client[c].shown
               q == sent(seen)
               z == [q EXCEPT !.subs[s].eventIndex = here + 1, !.subs[s].missed = TRUE]
    <3>0. OnlyClient(c, IF here >= Len(stores[registry[s].store].events) THEN client[c]
                        ELSE IF HasSub(c, s) THEN z ELSE q)
      BY <1>6, <2>2 DEF handleStepForward
    <3>1. SameListeners(client[c], q) /\ IsClient(q)
      <4> HIDE DEF seen
      <4>1. SameListeners(client[c], q)
        BY <1>1, ClientSame
      <4> HIDE DEF q
      <4> QED
        BY <4>1 DEF SameListeners
    <3>2. \/ OnlyClient(c, client[c])
          \/ HasSub(c, s) /\ OnlyClient(c, z)
          \/ OnlyClient(c, q)
      <4> HIDE DEF q, z, here
      <4> QED
        BY <3>0
    <3> HIDE DEF q
    <3>3. CASE HasSub(c, s) /\ OnlyClient(c, z)
      <4>1. s \in DOMAIN q.subs
        BY <3>1, <3>3 DEF SameListeners, HasSub, Subs
      <4>2. SameListeners(q, z)
        BY <3>1, <4>1, Shown, Zenon
      <4> HIDE DEF z
      <4> QED
        BY <1>2, <3>1, <3>3, <4>2, SameTransitive
    <3> QED
      BY <1>1, <1>2, <3>1, <3>2, <3>3
  <2> QED
    BY <2>1, <2>2
<1>7. CASE handleStepBackward(c, s)
  BY <1>1, <1>2, <1>3, <1>4, <1>7 DEF handleStepBackward
<1>8. CASE handleListSessions(c)
  BY <1>1, <1>2, <1>8, ClientSame DEF handleListSessions
<1>9. CASE handleQueries(c)
  BY <1>1, <1>2, <1>9 DEF handleQueries
<1> QED
  BY <1>5, <1>6, <1>7, <1>8, <1>9

-----------------------------------------------------------------------------
(* Connections and subscriptions.                                          *)

\* A client's record with other subscriptions.
LEMMA ClientSubs ==
  ASSUME NEW r, IsClient(r), NEW f, f = [t \in DOMAIN f |-> f[t]],
         \A t \in DOMAIN f : IsSubscription(f[t])
  PROVE  LET q == [r EXCEPT !.subs = f]
         IN IsClient(q) /\ q.up = r.up /\ q.subs = f
<1>1. r = [up |-> r.up, gen |-> r.gen, subs |-> r.subs, shown |-> r.shown, got |-> r.got, list |-> r.list]
  BY DEF IsClient
<1> DEFINE q == [r EXCEPT !.subs = f]
<1>2. /\ q = [up |-> q.up, gen |-> q.gen, subs |-> q.subs, shown |-> q.shown, got |-> q.got, list |-> q.list]
      /\ q.up = r.up /\ q.subs = f
  BY <1>1
<1> HIDE DEF q
<1>3. IsClient(q)
  BY <1>2 DEF IsClient
<1> QED
  BY <1>2, <1>3 DEF q

\* clientConnected() and clientDisconnected(): the record starts afresh.
LEMMA NewClientTyped ==
  ASSUME NEW gen
  PROVE  /\ IsClient(NewClient(gen)) /\ IsClient([NewClient(gen) EXCEPT !.up = FALSE])
         /\ DOMAIN NewClient(gen).subs = {} /\ DOMAIN [NewClient(gen) EXCEPT !.up = FALSE].subs = {}
<1>1. NewClient(gen) = [up |-> TRUE, gen |-> gen, subs |-> <<>>, shown |-> <<>>, got |-> <<>>, list |-> <<>>]
  BY DEF NewClient
<1>2. [NewClient(gen) EXCEPT !.up = FALSE]
        = [up |-> FALSE, gen |-> gen, subs |-> <<>>, shown |-> <<>>, got |-> <<>>, list |-> <<>>]
  <2>1. ASSUME NEW up
        PROVE  [NewClient(gen) EXCEPT !.up = up]
                 = [up |-> up, gen |-> gen, subs |-> <<>>, shown |-> <<>>, got |-> <<>>, list |-> <<>>]
    BY <1>1
  <2> QED
    BY <2>1, Zenon
<1>3. DOMAIN (<< >>) = {} /\ << >> = [t \in DOMAIN << >> |-> << >>[t]]
  OBVIOUS
<1> QED
  BY <1>1, <1>2, <1>3 DEF IsClient

\* What clientConnected() makes of a listener.
LEMMA StrayTyped ==
  ASSUME NEW l, IsListener(l), NEW b \in BOOLEAN
  PROVE  LET m == [l EXCEPT !.stray = b]
         IN IsListener(m) /\ m.client = l.client /\ m.session = l.session /\ m.stray = b
BY DEF IsListener

\* A second connection leaves the listeners of the first to themselves.
LEMMA ConnectStep ==
  ASSUME ServerInvariant, NEW c \in Clients, clientConnected(c)
  PROVE  ServerInvariant'
<1> DEFINE gone == {client[c].subs[s].listener : s \in DOMAIN client[c].subs}
<1>1. /\ client' = [client EXCEPT ![c] = NewClient(client[c].gen + 1)]
      /\ UNCHANGED <<stores, registry, archives, clock>>
  BY DEF clientConnected
<1>2. ClientsTyped'
  BY <1>1, NewClientTyped DEF ServerInvariant, ClientsTyped
<1>3. /\ StoresTyped' /\ SessionsTyped' /\ Cardinality(DOMAIN registry') <= MaxSessions
  BY <1>1, RestKept
<1>4. /\ listeners' = [l \in DOMAIN listeners |-> listeners'[l]]
      /\ \A l \in DOMAIN listeners :
           /\ IsListener(listeners'[l])
           /\ listeners'[l].client = listeners[l].client /\ listeners'[l].session = listeners[l].session
           /\ listeners'[l].stray = (listeners[l].stray \/ l \in gone)
  <2>1. listeners' = [l \in DOMAIN listeners |->
                        [listeners[l] EXCEPT !.stray = listeners[l].stray \/ l \in gone]]
    BY DEF clientConnected, Subs
  <2>2. ASSUME NEW l \in DOMAIN listeners
        PROVE  /\ IsListener(listeners'[l])
               /\ listeners'[l].client = listeners[l].client /\ listeners'[l].session = listeners[l].session
               /\ listeners'[l].stray = (listeners[l].stray \/ l \in gone)
    <3>1. IsListener(listeners[l]) /\ (listeners[l].stray \/ l \in gone) \in BOOLEAN
      BY DEF ServerInvariant, ListenersTyped
    <3>2. PICK b \in BOOLEAN : b = (listeners[l].stray \/ l \in gone)
      BY <3>1
    <3>3. listeners'[l] = [listeners[l] EXCEPT !.stray = b]
      BY <2>1, <3>2
    <3> QED
      BY <3>1, <3>2, <3>3, StrayTyped, Zenon
  <2> QED
    BY <2>1, <2>2
<1>5. ListenersTyped' /\ ListenersKept
  BY <1>4, SameLength DEF ServerInvariant, ListenersTyped, ListenersKept
<1>6. (\A k \in DOMAIN stores : \A l \in stores[k].subs : Accounted(l))'
  <2> SUFFICES ASSUME NEW k \in DOMAIN stores, NEW l \in stores[k].subs PROVE Accounted(l)'
    BY <1>1
  <2>1. Accounted(l)
    BY DEF ServerInvariant
  <2>2. CASE l \in gone
    <3>1. l \in DOMAIN listeners
      BY <2>1 DEF Accounted, Owned, Stray
    <3>2. l \in DOMAIN listeners' /\ listeners'[l].stray
      BY <1>4, <2>2, <3>1
    <3> QED
      BY <3>2 DEF Accounted, Stray
  <2>3. CASE l \notin gone
    <3>1. Owned(l) => /\ listeners[l].client \in Clients /\ listeners[l].client # c
                      /\ listeners[l].session \in DOMAIN client[listeners[l].client].subs
      BY <2>3 DEF ServerInvariant, Owned, ListenersTyped, IsListener, HasSub, Subs, SubOf
    <3>2. Owned(l) => SubscriptionKept(listeners[l].client, listeners[l].session)
      BY <1>1, <3>1 DEF ServerInvariant, ClientsTyped, SubscriptionKept
    <3> QED
      BY <1>5, <2>1, <3>2, StaysOwned DEF ServerInvariant
  <2> QED
    BY <2>2, <2>3
<1> QED
  BY <1>2, <1>3, <1>5, <1>6 DEF ServerInvariant

\* A disconnect cancels what the connection subscribed to.
LEMMA DisconnectStep ==
  ASSUME ServerInvariant, NEW c \in Clients, clientDisconnected(c)
  PROVE  ServerInvariant'
<1> DEFINE S == DOMAIN client[c].subs
<1>1. /\ client' = [client EXCEPT ![c] = [NewClient(client[c].gen) EXCEPT !.up = FALSE]]
      /\ stores' = Cancelled(stores, c, S)
  BY DEF clientDisconnected, Subs
<1>2. ClientsTyped'
  BY <1>1, NewClientTyped DEF ServerInvariant, ClientsTyped
<1>3. /\ ListenersKept /\ ListenersTyped' /\ SessionsTyped'
      /\ Cardinality(DOMAIN registry') <= MaxSessions
  BY RestKept DEF clientDisconnected
<1>4. StoresTyped' /\ DOMAIN stores' = DOMAIN stores
  BY <1>1, CancelledSubs DEF ServerInvariant, StoresTyped
<1>5. \A d \in Clients : \A s \in DOMAIN client[d].subs : ~(d = c /\ s \in S) => SubscriptionKept(d, s)
  BY <1>1 DEF ServerInvariant, ClientsTyped, SubscriptionKept
<1>6. (\A k \in DOMAIN stores : \A l \in stores[k].subs : Accounted(l))'
  BY <1>1, <1>3, <1>4, <1>5, CancelOwned
<1> QED
  BY <1>2, <1>3, <1>4, <1>6 DEF ServerInvariant

\* The client's record after it was subscribed to s as sub.
LEMMA SubscribedTyped ==
  ASSUME ServerInvariant, NEW c \in Clients, NEW s, NEW sub, NEW shown, NEW got, IsSubscription(sub),
         SubscribedAs(c, s, sub, shown, got)
  PROVE  /\ ClientsTyped' /\ client'[c].up = client[c].up
         /\ s \in DOMAIN client'[c].subs /\ client'[c].subs[s] = sub
         /\ \A d \in Clients : \A t \in DOMAIN client[d].subs :
              ~(d = c /\ t \in {s}) => SubscriptionKept(d, t)
<1> DEFINE f == With(client[c].subs, s, sub)
           x == With(client[c].shown, s, shown)
           y == With(client[c].got, s, got)
           r1 == [client[c] EXCEPT !.subs = f]
           r2 == [r1 EXCEPT !.shown = x]
           q == [r2 EXCEPT !.got = y]
<1>1. client' = [client EXCEPT ![c] = q]
  BY DEF SubscribedAs, ServerInvariant, ClientsTyped
<1>2. IsClient(client[c]) /\ client = [d \in Clients |-> client[d]]
  BY DEF ServerInvariant, ClientsTyped
<1>3. /\ f = [t \in DOMAIN f |-> f[t]] /\ \A t \in DOMAIN f : IsSubscription(f[t])
      /\ s \in DOMAIN f /\ f[s] = sub
      /\ \A t \in DOMAIN client[c].subs : t # s => t \in DOMAIN f /\ f[t] = client[c].subs[t]
  BY <1>2 DEF With, IsClient
<1> HIDE DEF f, x, y
<1>4. IsClient(q) /\ q.up = client[c].up /\ q.subs = f
  <2>1. IsClient(r1) /\ r1.up = client[c].up /\ r1.subs = f
    BY <1>2, <1>3, ClientSubs
  <2> HIDE DEF r1
  <2>2. IsClient(r2) /\ r2.up = r1.up /\ r2.subs = r1.subs
    BY <2>1, ClientFields
  <2> HIDE DEF r2
  <2>3. IsClient(q) /\ q.up = r2.up /\ q.subs = r2.subs
    BY <2>2, ClientFields
  <2> HIDE DEF q
  <2> QED
    BY <2>1, <2>2, <2>3
<1> HIDE DEF q
<1>5. ClientsTyped'
  BY <1>1, <1>2, <1>4 DEF ServerInvariant, ClientsTyped
<1>6. client'[c] = q /\ \A d \in Clients : d # c => client'[d] = client[d]
  BY <1>1, <1>2
<1> QED
  BY <1>3, <1>4, <1>5, <1>6 DEF SubscriptionKept

LEMMA UnsubscribeStep ==
  ASSUME ServerInvariant, NEW c \in Clients, NEW s, handleUnsubscribe(c, s)
  PROVE  ServerInvariant'
<1> DEFINE f == Without(client[c].subs, {s})
           q == [client[c] EXCEPT !.subs = f]
<1>1. client' = [client EXCEPT ![c] = q] /\ stores' = Cancelled(stores, c, {s})
  BY DEF handleUnsubscribe, ServerInvariant, ClientsTyped
<1>2. IsClient(client[c]) /\ client = [d \in Clients |-> client[d]]
  BY DEF ServerInvariant, ClientsTyped
<1>3. /\ f = [t \in DOMAIN f |-> f[t]] /\ \A t \in DOMAIN f : IsSubscription(f[t])
      /\ \A t \in DOMAIN client[c].subs : t # s => t \in DOMAIN f /\ f[t] = client[c].subs[t]
  BY <1>2 DEF Without, IsClient
<1> HIDE DEF f
<1>4. IsClient(q) /\ q.up = client[c].up /\ q.subs = f
  BY <1>2, <1>3, ClientSubs
<1> HIDE DEF q
<1>5. ClientsTyped'
  BY <1>1, <1>2, <1>4 DEF ServerInvariant, ClientsTyped
<1>6. client'[c] = q /\ \A d \in Clients : d # c => client'[d] = client[d]
  BY <1>1, <1>2
<1>7. /\ ListenersKept /\ ListenersTyped' /\ SessionsTyped'
      /\ Cardinality(DOMAIN registry') <= MaxSessions
  BY RestKept DEF handleUnsubscribe
<1>8. StoresTyped' /\ DOMAIN stores' = DOMAIN stores
  BY <1>1, CancelledSubs DEF ServerInvariant, StoresTyped
<1>9. \A d \in Clients : \A t \in DOMAIN client[d].subs : ~(d = c /\ t \in {s}) => SubscriptionKept(d, t)
  BY <1>3, <1>4, <1>6 DEF SubscriptionKept
<1>10. (\A k \in DOMAIN stores : \A l \in stores[k].subs : Accounted(l))'
  BY <1>1, <1>7, <1>8, <1>9, CancelOwned
<1> QED
  BY <1>5, <1>7, <1>8, <1>10 DEF ServerInvariant

\* addSubscription() makes a subscription with the listener it is given.
LEMMA NewSubscriptionTyped ==
  ASSUME NEW l, NEW k, NEW n, NEW m
  PROVE  /\ IsSubscription(NewSubscription(l, k, n, m)) /\ NewSubscription(l, k, n, m).listener = l
         /\ IsSubscription([NewSubscription(l, k, n, m) EXCEPT !.paused = TRUE])
<1>1. IsSubscription(NewSubscription(l, k, n, m)) /\ NewSubscription(l, k, n, m).listener = l
  <2>1. ASSUME NEW no
        PROVE  LET sub == [listener |-> l, store |-> k, eventIndex |-> n, cache |-> <<>>,
                           breakpoints |-> {}, paused |-> no, filter |-> <<>>, missed |-> m]
               IN IsSubscription(sub) /\ sub.listener = l
    BY DEF IsSubscription
  <2> QED
    BY <2>1, Zenon DEF NewSubscription
<1> DEFINE sub == NewSubscription(l, k, n, m)
<1> HIDE DEF sub
<1>2. IsSubscription([sub EXCEPT !.paused = TRUE])
  BY <1>1, SubscriptionField, Zenon DEF sub
<1> QED
  BY <1>1, <1>2 DEF sub

LEMMA SubscribeReplayStep ==
  ASSUME ServerInvariant, NEW c \in Clients, NEW s, handleSubscribeReplay(c, s)
  PROVE  ServerInvariant'
<1>1. CASE SessionNotFound(c, s)
  BY <1>1, ClientSame, OnlyClientStep DEF SessionNotFound, ServerInvariant, ClientsTyped
<1>2. CASE ~SessionNotFound(c, s)
  <2>1. PICK sub, shown, got : IsSubscription(sub) /\ SubscribedAs(c, s, sub, shown, got)
    <3> DEFINE k == registry[s].store
               history == eventsFrom(stores[k], 0)
    <3>1. SubscribedAs(c, s, [NewSubscription(None, k, Len(history), TRUE) EXCEPT !.paused = TRUE],
                       EmptyView, [i \in DOMAIN history |-> [index |-> i - 1, event |-> history[i]]])
      BY <1>2 DEF handleSubscribeReplay
    <3> HIDE DEF k, history
    <3>2. IsSubscription([NewSubscription(None, k, Len(history), TRUE) EXCEPT !.paused = TRUE])
      BY NewSubscriptionTyped, Zenon
    <3> QED
      BY <3>1, <3>2, Zenon
  <2>2. stores' = Cancelled(stores, c, {s}) /\ UNCHANGED <<registry, listeners, archives, clock>>
    BY <1>2 DEF handleSubscribeReplay
  <2>3. /\ ClientsTyped'
        /\ \A d \in Clients : \A t \in DOMAIN client[d].subs :
             ~(d = c /\ t \in {s}) => SubscriptionKept(d, t)
    BY <2>1, SubscribedTyped
  <2>4. /\ ListenersKept /\ ListenersTyped' /\ SessionsTyped'
        /\ Cardinality(DOMAIN registry') <= MaxSessions
    BY <2>2, RestKept
  <2>5. StoresTyped' /\ DOMAIN stores' = DOMAIN stores
    BY <2>2, CancelledSubs DEF ServerInvariant, StoresTyped
  <2>6. (\A k \in DOMAIN stores : \A l \in stores[k].subs : Accounted(l))'
    BY <2>2, <2>3, <2>4, <2>5, CancelOwned
  <2> QED
    BY <2>3, <2>4, <2>5, <2>6 DEF ServerInvariant
<1> QED
  BY <1>1, <1>2

\* A store that is told of one more listener.
LEMMA StoreSub ==
  ASSUME NEW st, IsStore(st), NEW x
  PROVE  IsStore([st EXCEPT !.subs = x]) /\ [st EXCEPT !.subs = x].subs = x
BY DEF IsStore

LEMMA SubscribeLiveStep ==
  ASSUME ServerInvariant, NEW c \in Clients, NEW s, handleSubscribeLive(c, s)
  PROVE  ServerInvariant'
<1>1. CASE SessionNotFound(c, s)
  BY <1>1, ClientSame, OnlyClientStep DEF SessionNotFound, ServerInvariant, ClientsTyped
<1>2. CASE ~SessionNotFound(c, s)
  <2> DEFINE k == registry[s].store
             before == Cancelled(stores, c, {s})
  <2>0. PICK l : l = Len(listeners) + 1
    OBVIOUS
  <2>1. /\ stores' = [before EXCEPT ![k].subs = @ \cup {l}]
        /\ UNCHANGED <<registry, archives, clock>> /\ client[c].up
    BY <1>2, <2>0 DEF handleSubscribeLive, Command
  <2>2. PICK n : listeners' = Append(listeners, [client |-> c, gen |-> client[c].gen, session |-> s,
                                                 store |-> k, next |-> n, stray |-> FALSE])
    BY <1>2 DEF handleSubscribeLive
  <2>3. PICK sub, shown, got :
          IsSubscription(sub) /\ sub.listener = l /\ SubscribedAs(c, s, sub, shown, got)
    <3> DEFINE history == eventsFrom(stores[k], 0)
               sub == NewSubscription(l, k, Len(history), PredecessorPending(c, s))
    <3>1. SubscribedAs(c, s, sub, FoldLeft(applyEventToState, computeState(stores[k].events), history),
                       [i \in DOMAIN history |-> [index |-> i - 1, event |-> history[i]]])
      BY <1>2, <2>0 DEF handleSubscribeLive
    <3>2. IsSubscription(sub) /\ sub.listener = l
      BY NewSubscriptionTyped, Zenon
    <3> HIDE DEF history, sub
    <3> QED
      BY <3>1, <3>2, Zenon
  <2>4. /\ ClientsTyped' /\ client'[c].up = client[c].up
        /\ s \in DOMAIN client'[c].subs /\ client'[c].subs[s] = sub
        /\ \A d \in Clients : \A t \in DOMAIN client[d].subs :
             ~(d = c /\ t \in {s}) => SubscriptionKept(d, t)
    BY <2>3, SubscribedTyped
  <2>5. SessionsTyped' /\ Cardinality(DOMAIN registry') <= MaxSessions
    BY <2>1, RestKept
  <2>6. /\ ListenersKept /\ ListenersTyped'
        /\ l \in DOMAIN listeners' /\ listeners'[l].client = c /\ listeners'[l].session = s
    <3> DEFINE e == [client |-> c, gen |-> client[c].gen, session |-> s, store |-> k, next |-> n,
                     stray |-> FALSE]
    <3>1. IsListener(e) /\ e.client = c /\ e.session = s
      BY DEF IsListener
    <3> HIDE DEF e
    <3>2. listeners' = Append(listeners, e)
      BY <2>2 DEF e
    <3> QED
      BY <2>0, <3>1, <3>2, AppendOne DEF ServerInvariant, ListenersTyped, ListenersKept
  <2>7. Accounted(l)'
    BY <2>1, <2>3, <2>4, <2>6 DEF Accounted, Owned, HasSub, Subs, SubOf
  <2>8. /\ before \in Seq(Range(before)) /\ DOMAIN before = DOMAIN stores
        /\ \A j \in DOMAIN stores : IsStore(before[j])
    BY CancelledSubs DEF ServerInvariant
  <2> HIDE DEF before, k
  <2>9. /\ stores' = [j \in DOMAIN before |-> stores'[j]]
        /\ \A j \in DOMAIN stores :
             /\ IsStore(stores'[j])
             /\ stores'[j].subs \subseteq before[j].subs \cup {l}
    <3>1. stores' = [before EXCEPT ![k] = [before[k] EXCEPT !.subs = before[k].subs \cup {l}]]
      BY <2>1
    <3>2. DOMAIN stores' = DOMAIN before /\ stores' = [j \in DOMAIN before |-> stores'[j]]
      BY <3>1
    <3>3. ASSUME NEW j \in DOMAIN stores
          PROVE  IsStore(stores'[j]) /\ stores'[j].subs \subseteq before[j].subs \cup {l}
      <4>1. CASE j = k
        <5>1. stores'[j] = [before[j] EXCEPT !.subs = before[j].subs \cup {l}]
          BY <2>8, <3>1, <4>1
        <5>2. IsStore(before[j])
          BY <2>8
        <5>3. PICK subs : subs = before[j].subs \cup {l}
          OBVIOUS
        <5>4. IsStore([before[j] EXCEPT !.subs = subs]) /\ [before[j] EXCEPT !.subs = subs].subs = subs
          BY <5>2, StoreSub
        <5> QED
          BY <5>1, <5>3, <5>4
      <4>2. CASE j # k
        BY <2>8, <3>1, <4>2
      <4> QED
        BY <4>1, <4>2
    <3> QED
      BY <3>2, <3>3
  <2>10. StoresTyped' /\ DOMAIN stores' = DOMAIN stores
    BY <2>8, <2>9, SameLength DEF StoresTyped
  <2>11. \A j \in DOMAIN stores' : \A m \in stores'[j].subs :
           Accounted(m)' \/ \E i \in DOMAIN stores : m \in Cancelled(stores, c, {s})[i].subs
    BY <2>7, <2>9, <2>10 DEF before
  <2>12. (\A j \in DOMAIN stores : \A m \in stores[j].subs : Accounted(m))'
    BY <2>4, <2>6, <2>11, CancelOwned
  <2> QED
    BY <2>4, <2>5, <2>6, <2>10, <2>12 DEF ServerInvariant
<1> QED
  BY <1>1, <1>2

-----------------------------------------------------------------------------
(* The registry and the stores.                                            *)

\* close() empties the listeners of some stores and changes nothing else.
LEMMA ClosedSubs ==
  ASSUME StoresTyped, NEW S
  PROVE  /\ Closed(stores, S) \in Seq(Range(Closed(stores, S)))
         /\ DOMAIN Closed(stores, S) = DOMAIN stores
         /\ \A k \in DOMAIN stores :
              IsStore(Closed(stores, S)[k]) /\ Closed(stores, S)[k].subs \subseteq stores[k].subs
<1> DEFINE g == Closed(stores, S)
<1>1. g = [k \in DOMAIN stores |-> g[k]]
  BY DEF Closed
<1>2. ASSUME NEW k \in DOMAIN stores
      PROVE  IsStore(g[k]) /\ g[k].subs \subseteq stores[k].subs
  <2>1. g[k] = stores[k] \/ g[k] = [stores[k] EXCEPT !.subs = {}]
    BY DEF Closed
  <2>2. IsStore(stores[k])
    BY DEF StoresTyped
  <2>3. IsStore([stores[k] EXCEPT !.subs = {}]) /\ [stores[k] EXCEPT !.subs = {}].subs = {}
    BY <2>2, StoreSub
  <2> HIDE DEF g
  <2> QED
    BY <2>1, <2>2, <2>3
<1>3. stores \in Seq(Range(stores))
  BY DEF StoresTyped
<1> HIDE DEF g
<1>4. g \in Seq(Range(g)) /\ DOMAIN g = DOMAIN stores
  BY <1>1, <1>3, SameLength
<1> QED
  BY <1>2, <1>4 DEF g

\* A session enters with a new store that has no listener.
LEMMA EnterStep ==
  ASSUME ServerInvariant, NEW s, NEW r, IsSession(r), NEW st, IsStore(st), st.subs = {},
         Enter(s, r, st), UNCHANGED archives, clock' \in Int
  PROVE  /\ StoresTyped' /\ NoNewSubs /\ SessionsTyped'
         /\ Cardinality(DOMAIN registry') <= MaxSessions
<1> DEFINE before == Closed(stores, evicted(registry))
<1>1. stores' = Append(before, st) /\ registry' = With(Without(registry, evicted(registry)), s, r)
  BY DEF Enter
<1>2. /\ before \in Seq(Range(before)) /\ DOMAIN before = DOMAIN stores
      /\ \A k \in DOMAIN stores : IsStore(before[k]) /\ before[k].subs \subseteq stores[k].subs
  BY ClosedSubs DEF ServerInvariant
<1> HIDE DEF before
<1>3. /\ stores' \in Seq(Range(stores'))
      /\ \A k \in DOMAIN stores' :
           \/ k \in DOMAIN stores /\ stores'[k] = before[k]
           \/ stores'[k] = st
  BY <1>1, <1>2, AppendOne
<1>4. StoresTyped' /\ NoNewSubs
  BY <1>2, <1>3 DEF StoresTyped, NoNewSubs
<1>5. IsFiniteSet(DOMAIN registry') /\ Cardinality(DOMAIN registry') <= MaxSessions
  BY EnterFits DEF ServerInvariant
<1>6. /\ registry' = [t \in DOMAIN registry' |-> registry'[t]]
      /\ \A t \in DOMAIN registry' : IsSession(registry'[t])
  BY <1>1 DEF With, Without, ServerInvariant, SessionsTyped
<1> QED
  BY <1>4, <1>5, <1>6 DEF SessionsTyped, ServerInvariant

\* The listeners and clients of a step that keeps them.
LEMMA StoresStep ==
  ASSUME ServerInvariant, UNCHANGED <<listeners, client>>, StoresTyped', NoNewSubs, SessionsTyped',
         Cardinality(DOMAIN registry') <= MaxSessions
  PROVE  ServerInvariant'
<1>1. /\ ListenersKept /\ ListenersTyped' /\ ClientsTyped'
      /\ \A c \in Clients : \A s \in DOMAIN client[c].subs : SubscriptionKept(c, s)
  BY RestKept
<1>2. (\A k \in DOMAIN stores : \A l \in stores[k].subs : Accounted(l))'
  BY <1>1, OwnedFrame
<1> QED
  BY <1>1, <1>2 DEF ServerInvariant

\* The new stores of register() and registerImported().
LEMMA NewStoreTyped ==
  ASSUME NEW events, NEW script
  PROVE  IsStore(NewStore(events, script)) /\ NewStore(events, script).subs = {}
BY DEF IsStore, NewStore

\* Writing a session's fields.
LEMMA SessionFields ==
  ASSUME NEW r, IsSession(r), NEW x
  PROVE  IsSession([r EXCEPT !.tag = x]) /\ IsSession([r EXCEPT !.end = x])
<1>1. /\ r = [store |-> r.store, start |-> r.start, active |-> r.active, end |-> r.end, tag |-> r.tag]
      /\ r.start \in Int /\ r.active \in BOOLEAN
  BY DEF IsSession
<1>2. ASSUME NEW q, q.start = r.start, q.active = r.active,
             q = [store |-> q.store, start |-> q.start, active |-> q.active, end |-> q.end, tag |-> q.tag]
      PROVE  IsSession(q)
  BY <1>1, <1>2 DEF IsSession
<1> QED
  BY <1>1, <1>2

\* complete() writes the two fields of the session's end.
LEMMA SessionEnded ==
  ASSUME NEW r, IsSession(r)
  PROVE  IsSession([r EXCEPT !.active = FALSE])
<1>1. /\ r = [store |-> r.store, start |-> r.start, active |-> r.active, end |-> r.end, tag |-> r.tag]
      /\ r.start \in Int
  BY DEF IsSession
<1>2. ASSUME NEW x \in BOOLEAN PROVE IsSession([r EXCEPT !.active = x])
  BY <1>1, <1>2 DEF IsSession
<1> QED
  BY <1>2, Zenon

LEMMA RegistryStep ==
  ASSUME ServerInvariant, NEW s \in SessionIds, NEW t,
         register(s, t) \/ tag(s, t) \/ complete(s) \/ remove(s)
  PROVE  ServerInvariant'
<1>1. CASE register(s, t)
  <2> DEFINE r == [store |-> Len(stores) + 1, start |-> clock, active |-> TRUE, end |-> None, tag |-> t]
             st == NewStore(<<>>, Scripts[(Len(stores) % Len(Scripts)) + 1])
  <2>1. IsSession(r)
    <3>1. ASSUME NEW x \in BOOLEAN
          PROVE  IsSession([store |-> Len(stores) + 1, start |-> clock, active |-> x, end |-> None, tag |-> t])
      BY DEF ServerInvariant, SessionsTyped, IsSession
    <3> QED
      BY <3>1, Zenon
  <2>2. IsStore(st) /\ st.subs = {}
    BY NewStoreTyped
  <2>3. /\ Enter(s, r, st) /\ clock' = clock + 1 /\ UNCHANGED <<listeners, client, archives>>
    BY <1>1 DEF register
  <2> HIDE DEF r, st
  <2>4. clock' \in Int
    BY <2>3 DEF ServerInvariant, SessionsTyped
  <2> QED
    BY <2>1, <2>2, <2>3, <2>4, EnterStep, StoresStep
<1>2. CASE tag(s, t)
  <2>1. registry' = [registry EXCEPT ![s] = [registry[s] EXCEPT !.tag = t]] /\ s \in DOMAIN registry
    BY <1>2 DEF tag
  <2>2. IsSession([registry[s] EXCEPT !.tag = t])
    BY <2>1, SessionFields DEF ServerInvariant, SessionsTyped
  <2>3. SessionsTyped' /\ DOMAIN registry' = DOMAIN registry
    BY <1>2, <2>1, <2>2 DEF tag, ServerInvariant, SessionsTyped
  <2> QED
    BY <1>2, <2>3, RestKept, StoresStep DEF tag, ServerInvariant
<1>3. CASE complete(s)
  <2> DEFINE r1 == [registry[s] EXCEPT !.active = FALSE]
             r2(x) == [r1 EXCEPT !.end = x]
             R1 == [registry EXCEPT ![s] = r1]
  <2>1. s \in DOMAIN registry /\ registry = [u \in DOMAIN registry |-> registry[u]] /\ IsSession(registry[s])
    BY <1>3 DEF complete, ServerInvariant, SessionsTyped
  <2>2. PICK x : registry' = [R1 EXCEPT ![s].end = x]
    BY <1>3 DEF complete
  <2>3. IsSession(r1)
    BY <2>1, SessionEnded
  <2>4. R1[s] = r1 /\ DOMAIN R1 = DOMAIN registry /\ \A u \in DOMAIN registry : u # s => R1[u] = registry[u]
    BY <2>1
  <2> HIDE DEF r1, R1
  <2>5. IsSession(r2(x))
    BY <2>3, SessionFields
  <2>6. /\ registry'[s] = r2(x) /\ DOMAIN registry' = DOMAIN registry
        /\ registry' = [u \in DOMAIN registry |-> registry'[u]]
        /\ \A u \in DOMAIN registry : u # s => registry'[u] = registry[u]
    BY <2>1, <2>2, <2>4
  <2> HIDE DEF r2
  <2>7. SessionsTyped' /\ DOMAIN registry' = DOMAIN registry
    BY <1>3, <2>5, <2>6 DEF complete, ServerInvariant, SessionsTyped
  <2> QED
    BY <1>3, <2>7, RestKept, StoresStep DEF complete, ServerInvariant
<1>4. CASE remove(s)
  <2>1. stores' = Closed(stores, {s}) /\ registry' = Without(registry, {s})
    BY <1>4 DEF remove
  <2>2. StoresTyped' /\ NoNewSubs
    BY <2>1, ClosedSubs DEF ServerInvariant, StoresTyped, NoNewSubs
  <2>3. /\ registry' = [u \in DOMAIN registry' |-> registry'[u]]
        /\ DOMAIN registry' = DOMAIN registry \ {s}
        /\ \A u \in DOMAIN registry' : IsSession(registry'[u])
    BY <2>1 DEF Without, ServerInvariant, SessionsTyped
  <2>4. /\ IsFiniteSet(DOMAIN registry') /\ Cardinality(DOMAIN registry') <= MaxSessions
    <3>1. IsFiniteSet(DOMAIN registry) /\ DOMAIN registry' \subseteq DOMAIN registry
      BY <2>3 DEF ServerInvariant, SessionsTyped
    <3>2. /\ IsFiniteSet(DOMAIN registry') /\ Cardinality(DOMAIN registry') <= Cardinality(DOMAIN registry)
      BY <3>1, FS_Subset
    <3> QED
      BY <3>1, <3>2, ServerAssumption, FS_CardinalityType DEF ServerInvariant, ServerAssumption
  <2>5. SessionsTyped'
    BY <1>4, <2>3, <2>4 DEF remove, SessionsTyped, ServerInvariant
  <2> QED
    BY <1>4, <2>2, <2>4, <2>5, StoresStep DEF remove
<1> QED
  BY <1>1, <1>2, <1>3, <1>4

\* An append keeps the listeners of every store.
LEMMA AppendStep ==
  ASSUME ServerInvariant, append
  PROVE  ServerInvariant'
<1>1. PICK k \in DOMAIN stores : stores' = [stores EXCEPT ![k] = Appended(stores[k])]
  BY DEF append
<1>2. IsStore(stores[k]) /\ stores = [j \in DOMAIN stores |-> stores[j]]
  BY SeqDef DEF ServerInvariant, StoresTyped
<1>3. IsStore(Appended(stores[k])) /\ Appended(stores[k]).subs = stores[k].subs
  <2>1. ASSUME NEW st, IsStore(st), NEW x
        PROVE  /\ IsStore([st EXCEPT !.events = x]) /\ [st EXCEPT !.events = x].subs = st.subs
               /\ IsStore([st EXCEPT !.count = x]) /\ [st EXCEPT !.count = x].subs = st.subs
               /\ IsStore([st EXCEPT !.evicted = x]) /\ [st EXCEPT !.evicted = x].subs = st.subs
    BY <2>1 DEF IsStore
  <2>2. PICK x, y, z : Appended(stores[k])
                         = [[[stores[k] EXCEPT !.events = x] EXCEPT !.count = y] EXCEPT !.evicted = z]
    BY DEF Appended
  <2> DEFINE s1 == [stores[k] EXCEPT !.events = x]
             s2 == [s1 EXCEPT !.count = y]
             s3 == [s2 EXCEPT !.evicted = z]
  <2>3. Appended(stores[k]) = s3
    BY <2>2
  <2>4. IsStore(s1) /\ s1.subs = stores[k].subs
    BY <1>2, <2>1
  <2> HIDE DEF s1
  <2>5. IsStore(s2) /\ s2.subs = s1.subs
    BY <2>1, <2>4
  <2> HIDE DEF s2
  <2>6. IsStore(s3) /\ s3.subs = s2.subs
    BY <2>1, <2>5
  <2> HIDE DEF s3
  <2> QED
    BY <2>3, <2>4, <2>5, <2>6
<1>4. /\ stores' = [j \in DOMAIN stores |-> stores'[j]]
      /\ \A j \in DOMAIN stores : IsStore(stores'[j]) /\ stores'[j].subs = stores[j].subs
  BY <1>1, <1>2, <1>3 DEF ServerInvariant, StoresTyped
<1>5. stores' \in Seq(Range(stores')) /\ DOMAIN stores' = DOMAIN stores
  BY <1>4, SameLength DEF ServerInvariant, StoresTyped
<1>6. StoresTyped' /\ NoNewSubs
  BY <1>4, <1>5 DEF StoresTyped, NoNewSubs
<1> QED
  BY <1>6, RestKept, StoresStep DEF append

\* What a client makes of a broadcast event: it may pause the subscription, and keeps its listener.
LEMMA ReceiveSame ==
  ASSUME ServerInvariant, NEW c \in Clients, NEW l, NEW e
  PROVE  SameListeners(client[c], Receive(c, l, e))
<1> DEFINE s == listeners[l].session
           hit == HasSub(c, s) /\ hitsBreakpoint(SubOf(c, s), e)
           x == IF s \in DOMAIN client[c].shown
                THEN With(client[c].shown, s, applyEventToState(client[c].shown[s], e))
                ELSE client[c].shown
           y == IF s \in DOMAIN client[c].got
                THEN With(client[c].got, s, Append(client[c].got[s],
                                                   [index |-> listeners[l].next, event |-> e]))
                ELSE client[c].got
           r0 == client[c]
           r1 == [r0 EXCEPT !.shown = x]
           r2 == [r0 EXCEPT !.shown = x, !.got = y]
           r3 == [r2 EXCEPT !.subs[s].paused = TRUE, !.subs[s].missed = TRUE]
<1>1. Receive(c, l, e) = IF ~Passes(c, l, e) THEN r0 ELSE IF hit THEN r3 ELSE r2
  BY DEF Receive
<1>2. hit => s \in DOMAIN r0.subs
  BY DEF HasSub, Subs
<1> HIDE DEF x, y, hit, s
<1>3. IsClient(r0)
  BY DEF ServerInvariant, ClientsTyped
<1> HIDE DEF r0
<1>4. SameListeners(r0, r0) /\ SameListeners(r0, r1)
  BY <1>3, ClientSame
<1>5. r2 = [r1 EXCEPT !.got = y]
  OBVIOUS
<1> HIDE DEF r1, r2
<1>6. SameListeners(r1, r2)
  <2>1. IsClient(r1)
    BY <1>4 DEF SameListeners
  <2>2. SameListeners(r1, [r1 EXCEPT !.got = y])
    BY <2>1, ClientSame, Zenon
  <2> QED
    BY <1>5, <2>2, Zenon
<1>7. SameListeners(r0, r2)
  BY <1>4, <1>6, SameTransitive
<1>8. ASSUME hit PROVE SameListeners(r2, r3)
  <2>1. IsClient(r2) /\ s \in DOMAIN r2.subs
    BY <1>2, <1>7, <1>8 DEF SameListeners
  <2> QED
    BY <2>1, Shown, Zenon
<1> HIDE DEF r3
<1>9. hit => SameListeners(r0, r3)
  BY <1>7, <1>8, SameTransitive
<1>10. SameListeners(r0, Receive(c, l, e))
  BY <1>1, <1>4, <1>7, <1>9
<1> QED
  BY <1>10 DEF r0

LEMMA BroadcastStep ==
  ASSUME ServerInvariant, broadcast
  PROVE  ServerInvariant'
<1> DEFINE e == Head(pending).event
<1>1. client' = [c \in Clients |-> IF client[c].up /\ ToldOf(c) # {}
                                   THEN Receive(c, CHOOSE l \in ToldOf(c) : TRUE, e) ELSE client[c]]
  BY DEF broadcast
<1>2. \A c \in Clients : IsClient(client[c])
  BY DEF ServerInvariant, ClientsTyped
<1>3. ASSUME NEW c \in Clients PROVE SameListeners(client[c], client'[c])
  <2>1. SameListeners(client[c], client[c])
    BY <1>2, ClientSame
  <2>2. \A l : SameListeners(client[c], Receive(c, l, e))
    BY ReceiveSame
  <2>3. client'[c] = client[c] \/ \E l : client'[c] = Receive(c, l, e)
    BY <1>1
  <2> QED
    BY <2>1, <2>2, <2>3
<1>4. client' = [c \in Clients |-> client'[c]]
  BY <1>1
<1>5. ClientsTyped' /\ \A c \in Clients : \A s \in DOMAIN client[c].subs : SubscriptionKept(c, s)
  BY <1>3, <1>4, ClientsStep
<1>6. ListenersTyped' /\ ListenersKept
  <2>1. listeners' = [l \in DOMAIN listeners |-> listeners'[l]]
    BY DEF broadcast
  <2>2. listeners' \in Seq(Range(listeners')) /\ DOMAIN listeners' = DOMAIN listeners
    BY <2>1, SameLength DEF ServerInvariant, ListenersTyped
  <2>3. ASSUME NEW l \in DOMAIN listeners
        PROVE  /\ IsListener(listeners'[l]) /\ listeners'[l].client = listeners[l].client
               /\ listeners'[l].session = listeners[l].session
               /\ listeners'[l].stray = listeners[l].stray
    <3>1. IsListener(listeners[l])
      BY DEF ServerInvariant, ListenersTyped
    <3>2. \/ listeners'[l] = listeners[l]
          \/ listeners'[l] = [listeners[l] EXCEPT !.next = listeners[l].next + 1]
      BY DEF broadcast
    <3>3. ASSUME NEW w, IsListener(w), NEW x
          PROVE  /\ IsListener([w EXCEPT !.next = x]) /\ [w EXCEPT !.next = x].client = w.client
                 /\ [w EXCEPT !.next = x].session = w.session
                 /\ [w EXCEPT !.next = x].stray = w.stray
      BY <3>3 DEF IsListener
    <3> DEFINE w == listeners[l]
               z == [w EXCEPT !.next = w.next + 1]
    <3>4. IsListener(z) /\ z.client = w.client /\ z.session = w.session /\ z.stray = w.stray
      BY <3>1, <3>3
    <3> HIDE DEF z
    <3>5. listeners'[l] = w \/ listeners'[l] = z
      BY <3>2 DEF z
    <3> QED
      BY <3>1, <3>4, <3>5
  <2> QED
    BY <2>2, <2>3 DEF ListenersTyped, ListenersKept
<1>7. /\ NoNewSubs /\ StoresTyped' /\ SessionsTyped' /\ Cardinality(DOMAIN registry') <= MaxSessions
  BY RestKept DEF broadcast
<1>8. (\A k \in DOMAIN stores : \A l \in stores[k].subs : Accounted(l))'
  BY <1>5, <1>6, <1>7, OwnedFrame
<1> QED
  BY <1>5, <1>6, <1>7, <1>8 DEF ServerInvariant

-----------------------------------------------------------------------------
(* Archives.                                                               *)

\* registerImported() enters a closed session and sends every client the new list.
LEMMA ImportedStep ==
  ASSUME ServerInvariant, NEW s \in SessionIds, NEW events, registerImported(s, events),
         UNCHANGED <<listeners, archives, clock>>
  PROVE  ServerInvariant'
<1> DEFINE r == [store |-> Len(stores) + 1, start |-> ArchiveStarts[s], active |-> FALSE,
                 end |-> None, tag |-> NoTag]
           st == NewStore(events, events)
<1>1. IsSession(r)
  <2>1. ASSUME NEW x \in BOOLEAN
        PROVE  IsSession([store |-> Len(stores) + 1, start |-> ArchiveStarts[s], active |-> x,
                          end |-> None, tag |-> NoTag])
    BY ServerAssumption DEF ServerAssumption, IsSession
  <2> QED
    BY <2>1, Zenon
<1>2. IsStore(st) /\ st.subs = {}
  BY NewStoreTyped
<1>3. Enter(s, r, st) /\ clock' \in Int
  BY DEF registerImported, ServerInvariant, SessionsTyped
<1> HIDE DEF r, st
<1>4. /\ StoresTyped' /\ NoNewSubs /\ SessionsTyped' /\ Cardinality(DOMAIN registry') <= MaxSessions
  BY <1>1, <1>2, <1>3, EnterStep
<1>5. /\ client' = [c \in Clients |-> client'[c]]
      /\ \A c \in Clients : SameListeners(client[c], client'[c])
  <2>1. \A c \in Clients : IsClient(client[c])
    BY DEF ServerInvariant, ClientsTyped
  <2>2. \A c \in Clients : client'[c] = client[c] \/ \E x : client'[c] = [client[c] EXCEPT !.list = x]
    BY DEF registerImported
  <2> QED
    BY <2>1, <2>2, ClientSame DEF registerImported
<1>6. ClientsTyped' /\ \A c \in Clients : \A t \in DOMAIN client[c].subs : SubscriptionKept(c, t)
  BY <1>5, ClientsStep
<1>7. ListenersTyped' /\ ListenersKept
  BY RestKept
<1>8. (\A k \in DOMAIN stores : \A l \in stores[k].subs : Accounted(l))'
  BY <1>4, <1>6, <1>7, OwnedFrame
<1> QED
  BY <1>4, <1>6, <1>7, <1>8 DEF ServerInvariant

LEMMA ArchiveStep ==
  ASSUME ServerInvariant, Archive
  PROVE  ServerInvariant'
<1>1. ASSUME NEW s \in SessionIds, archive(s) PROVE ServerInvariant'
  <2>1. SessionsTyped' /\ Cardinality(DOMAIN registry') <= MaxSessions
    BY <1>1 DEF archive, With, ServerInvariant, SessionsTyped
  <2> QED
    BY <1>1, <2>1, RestKept, StoresStep DEF archive
<1>2. CASE ImportDone
  BY <1>2, ImportedStep DEF ImportDone, ServerInvariant, SessionsTyped
<1>3. CASE ImportFailed
  BY <1>3, RestKept, StoresStep DEF ImportFailed
<1> QED
  BY <1>1, <1>2, <1>3 DEF Archive

-----------------------------------------------------------------------------
(* The theorems.                                                           *)

\* A handler's step, one case per command.
LEMMA HandlerStep ==
  ASSUME ServerInvariant, Handler
  PROVE  ServerInvariant'
<1> PICK c \in Clients :
      \/ clientConnected(c) \/ clientDisconnected(c) \/ handleListSessions(c) \/ handleQueries(c)
      \/ \E s \in SessionIds :
           \/ handleSubscribeLive(c, s) \/ handleSubscribeReplay(c, s) \/ handleUnsubscribe(c, s)
           \/ handlePause(c, s) \/ handleResume(c, s) \/ handleSetFilter(c, s)
           \/ handleSetBreakpoint(c, s) \/ handleClearBreakpoint(c, s)
           \/ handleSeek(c, s) \/ handleStepForward(c, s) \/ handleStepBackward(c, s)
           \/ handleImportArchive(c, s) \/ handleUploadArchive(c, s)
  BY DEF Handler
<1>1. CASE clientConnected(c) \/ clientDisconnected(c)
  BY <1>1, ConnectStep, DisconnectStep
<1>2. CASE handleListSessions(c) \/ handleQueries(c)
  BY <1>2, MovesStep
<1>3. ASSUME NEW s \in SessionIds,
             handleSubscribeLive(c, s) \/ handleSubscribeReplay(c, s) \/ handleUnsubscribe(c, s)
      PROVE  ServerInvariant'
  BY <1>3, SubscribeLiveStep, SubscribeReplayStep, UnsubscribeStep
<1>4. ASSUME NEW s \in SessionIds,
             \/ handlePause(c, s) \/ handleResume(c, s) \/ handleSetFilter(c, s)
             \/ handleSetBreakpoint(c, s) \/ handleClearBreakpoint(c, s)
      PROVE  ServerInvariant'
  BY <1>4, SettersStep
<1>5. ASSUME NEW s \in SessionIds,
             handleSeek(c, s) \/ handleStepForward(c, s) \/ handleStepBackward(c, s)
      PROVE  ServerInvariant'
  BY <1>5, MovesStep
<1>6. ASSUME NEW s \in SessionIds, handleImportArchive(c, s) PROVE ServerInvariant'
  BY <1>6, RestKept, StoresStep DEF handleImportArchive
<1>7. ASSUME NEW s \in SessionIds, handleUploadArchive(c, s) PROVE ServerInvariant'
  BY <1>7, ImportedStep DEF handleUploadArchive
<1> QED
  BY <1>1, <1>2, <1>3, <1>4, <1>5, <1>6, <1>7

\* The invariant holds of the server that has just started: no store, no session, no listener.
LEMMA ServerInvariantInit ==
  ASSUME Init
  PROVE  ServerInvariant
<1>1. stores = <<>> /\ registry = <<>> /\ listeners = <<>> /\ archives = <<>> /\ clock = 1
  BY DEF Init
<1>2. /\ DOMAIN (<< >>) = {} /\ << >> = [t \in DOMAIN << >> |-> << >>[t]] /\ Range(<< >>) = {}
      /\ << >> \in Seq({})
  BY DEF Range
<1>3. StoresTyped /\ ListenersTyped
  BY <1>1, <1>2 DEF StoresTyped, ListenersTyped
<1>4. ClientsTyped
  <2>1. client = [c \in Clients |-> NewClient(1)]
    BY DEF Init
  <2>2. IsClient(NewClient(1))
    BY NewClientTyped
  <2> QED
    BY <2>1, <2>2 DEF ClientsTyped
<1>5. IsFiniteSet({}) /\ Cardinality({}) = 0
  BY FS_EmptySet
<1>6. SessionsTyped /\ Cardinality(DOMAIN registry) <= MaxSessions
  BY <1>1, <1>2, <1>5, ServerAssumption DEF SessionsTyped, ServerAssumption
<1> QED
  BY <1>1, <1>2, <1>3, <1>4, <1>6 DEF ServerInvariant

\* The inductive invariant of the debug server, for any clients, sessions, scripts and capacities.
THEOREM ServerInvariantHolds == Spec => []ServerInvariant
<1>1. Init => ServerInvariant
  BY ServerInvariantInit
<1>2. ServerInvariant /\ [Next]_vars => ServerInvariant'
  <2> SUFFICES ASSUME ServerInvariant, [Next]_vars PROVE ServerInvariant'
    OBVIOUS
  <2>1. CASE append
    BY <2>1, AppendStep
  <2>2. CASE broadcast
    BY <2>2, BroadcastStep
  <2>3. CASE Registry
    BY <2>3, RegistryStep DEF Registry
  <2>4. CASE Handler
    BY <2>4, HandlerStep
  <2>5. CASE Archive
    BY <2>5, ArchiveStep
  <2>6. CASE UNCHANGED vars
    BY <2>6, RestKept, StoresStep DEF vars
  <2> QED
    BY <2>1, <2>2, <2>3, <2>4, <2>5, <2>6 DEF Next
<1> QED
  BY <1>1, <1>2, PTL DEF Spec

\* ListenersOwned: an unsubscribe, a re-subscribe or a disconnect ends the stream of the listener
\* it replaces - only a second clientConnected() leaves listeners streaming - and the registry never
\* holds more than maxSessions.
THEOREM ListenersAlwaysOwned == Spec => []ListenersOwned
<1>1. ServerInvariant => ListenersOwned
  BY DEF ServerInvariant, Accounted, Owned, Stray, ListenersOwned
<1> QED
  BY <1>1, ServerInvariantHolds, PTL
=============================================================================
