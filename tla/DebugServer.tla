----------------------------- MODULE DebugServer ----------------------------
(***************************************************************************)
(* The server half of the debugger: the event store of each session and    *)
(* its live tail, the session registry with its capacity, archives, and    *)
(* the protocol handler with the state it keeps per client and session.    *)
(*                                                                         *)
(* Everything runs on one thread.  A store broadcasts an event in a        *)
(* microtask, so commands and further appends may run between an append    *)
(* and its broadcast; reading an archive is an await.  What a client makes *)
(* of the messages is the fold of the debug UI (Replay).                   *)
(***************************************************************************)
EXTENDS Replay

CONSTANTS
  Clients, SessionIds,
  Scripts,           \* what executors emit: store k holds a prefix of Scripts[k], cyclically
  MaxEvents,         \* DebugEventStore's maxEvents
  MaxSessions,       \* DebugSessionRegistry's maxSessions
  SNAPSHOT_INTERVAL,
  Filters, Breakpoints,
  ArchiveStarts,     \* start times of imported sessions, older than any live one
  Budgets            \* bounds: [register, append, command, client, archive, total -> Nat]

ASSUME ServerAssumption ==
  /\ MaxEvents \in Nat \ {0} /\ MaxSessions \in Nat \ {0} /\ SNAPSHOT_INTERVAL \in Nat \ {0}
  /\ ArchiveStarts \in [SessionIds -> Int]

VARIABLES
  stores,     \* Seq([events, count, evicted, subs, script]): every DebugEventStore ever made
  registry,   \* [session id -> [store, start, active, end, tag]]: _sessions
  pending,    \* microtasks: Seq([event, to])
  listeners,  \* Seq([client, gen, session, store, next, stray]): every live listener ever made
  client,     \* [Clients -> [up, gen, subs, shown, got, list]]
  archives,   \* [session id -> events]: the archive directory
  imports,    \* retrieve() calls in flight: set of [client, gen, session]
  clock, left

vars == <<stores, registry, pending, listeners, client, archives, imports, clock, left>>

None == 0
NoTag == "untagged"
Tags == {NoTag, "t1"}

Spend(kind) ==
  /\ left[kind] > 0 /\ left.total > 0
  /\ left' = [left EXCEPT ![kind] = @ - 1, !.total = @ - 1]

-----------------------------------------------------------------------------
(* The fold of the events, and the cache of its prefixes.                   *)

applyEvents(v, e) ==
  CASE e.type = "TokenAdded" -> [v EXCEPT !.marking[e.name] = Append(@, e.tok)]
    [] e.type = "TokenRemoved" ->
         [v EXCEPT !.marking[e.name] = IF @ = <<>> THEN @ ELSE Tail(@)]
    [] e.type = "MarkingSnapshot" -> [v EXCEPT !.marking = SnapshotMarking(e)]
    [] e.type = "TransitionEnabled" -> [v EXCEPT !.enabled = @ \cup {e.name}]
    [] e.type = "TransitionStarted" ->
         [v EXCEPT !.enabled = @ \ {e.name}, !.inFlight = @ \cup {e.name}]
    [] e.type \in Ended -> [v EXCEPT !.inFlight = @ \ {e.name}]
    [] OTHER -> v

\* The events one by one, from a state on.
replayDelta(base, delta) ==
  LET after[n \in 0..Len(delta)] == IF n = 0 THEN base ELSE applyEvents(after[n - 1], delta[n])
  IN after[Len(delta)]

computeState(events) == replayDelta(EmptyView, events)

\* Mutant: every new snapshot restarts from the last one that was there.
EnsureCachedMutant(cache, events, target) ==
  LET needed == (IF target < Len(events) THEN target ELSE Len(events)) \div SNAPSHOT_INTERVAL
      base   == IF cache = <<>> THEN EmptyView ELSE Last(cache)
      from(k) == (Len(cache) + k - 1) * SNAPSHOT_INTERVAL
  IN cache \o [k \in 1..(IF needed > Len(cache) THEN needed - Len(cache) ELSE 0) |->
                 replayDelta(base, SubSeq(events, from(k) + 1, from(k) + SNAPSHOT_INTERVAL))]

\* A snapshot every SNAPSHOT_INTERVAL positions, each from the one before; made once and kept.
ensureCachedUpTo(cache, events, target) ==
  LET reach  == IF target < Len(events) THEN target ELSE Len(events)
      needed == reach \div SNAPSHOT_INTERVAL
      base   == IF cache = <<>> THEN EmptyView ELSE Last(cache)
      from   == Len(cache) * SNAPSHOT_INTERVAL
  IN cache \o [k \in 1..(IF needed > Len(cache) THEN needed - Len(cache) ELSE 0) |->
                 replayDelta(base, SubSeq(events, from + 1, from + k * SNAPSHOT_INTERVAL))]

\* State after the first target events, from the nearest snapshot.
computeAt(cache, events, target) ==
  LET end  == IF target < Len(events) THEN target ELSE Len(events)
      slot == IF target \div SNAPSHOT_INTERVAL < Len(cache) THEN target \div SNAPSHOT_INTERVAL
              ELSE Len(cache)
  IN IF slot = 0 THEN computeState(SubSeq(events, 1, end))
     ELSE replayDelta(cache[slot], SubSeq(events, slot * SNAPSHOT_INTERVAL + 1, end))

-----------------------------------------------------------------------------
(* DebugEventStore.                                                         *)

\* script: everything that will be appended to it.
NewStore(events, script) ==
  [events |-> events, count |-> Len(events), evicted |-> 0, subs |-> {}, script |-> script]

Appended(st) ==
  LET evs == Append(st.events, st.script[st.count + 1])
      over == Len(evs) > MaxEvents
  IN [st EXCEPT !.events = IF over THEN Tail(evs) ELSE evs,
                !.count = @ + 1,
                !.evicted = IF over THEN @ + 1 ELSE @]

\* Mutant: off by one where nothing is to be skipped.
EventsFromMutant(st, fromIndex) ==
  LET skip == fromIndex - st.evicted
  IN IF skip < 0 THEN st.events ELSE SubSeq(st.events, skip + 2, Len(st.events))

\* The retained events from an absolute index on.
eventsFrom(st, fromIndex) ==
  LET skip == fromIndex - st.evicted
  IN IF skip <= 0 THEN st.events ELSE SubSeq(st.events, skip + 1, Len(st.events))

\* An executor appends; the subscribers of this moment are told in a microtask.
append ==
  \E k \in DOMAIN stores :
    /\ Spend("append")
    /\ stores[k].count < Len(stores[k].script)
    /\ stores' = [stores EXCEPT ![k] = Appended(@)]
    /\ pending' = IF stores[k].subs = {} THEN pending
                  ELSE Append(pending, [event |-> stores[k].script[stores[k].count + 1],
                                        to |-> stores[k].subs])
    /\ UNCHANGED <<registry, listeners, client, archives, imports, clock>>

-----------------------------------------------------------------------------
(* DebugSessionRegistry.                                                    *)

\* Inactive first, then oldest, until there is room.
EvictsBefore(reg, a, b) ==
  \/ ~reg[a].active /\ reg[b].active
  \/ reg[a].active = reg[b].active /\ reg[a].start < reg[b].start

evicted(reg) ==
  LET ids == DOMAIN reg
      excess == Cardinality(ids) - MaxSessions + 1
  IN {a \in ids : Cardinality({b \in ids \ {a} : EvictsBefore(reg, b, a)}) < excess}

Without(f, S) == [x \in DOMAIN f \ S |-> f[x]]
With(f, x, v) == [y \in DOMAIN f \cup {x} |-> IF y = x THEN v ELSE f[y]]

\* close() of the stores of the sessions in S: their listeners are forgotten.
Closed(sts, S) ==
  [k \in DOMAIN sts |-> IF \E s \in S : registry[s].store = k THEN [sts[k] EXCEPT !.subs = {}]
                        ELSE sts[k]]

\* The registry evicts before it sets, also when it replaces a session of the same id, whose store
\* is left as it is.
Enter(s, record, st) ==
  /\ registry' = With(Without(registry, evicted(registry)), s, record)
  /\ stores' = Append(Closed(stores, evicted(registry)), st)

register(s, t) ==
  /\ Spend("register")
  /\ Enter(s, [store |-> Len(stores) + 1, start |-> clock, active |-> TRUE, end |-> None, tag |-> t],
           NewStore(<<>>, Scripts[(Len(stores) % Len(Scripts)) + 1]))
  /\ clock' = clock + 1
  /\ UNCHANGED <<pending, listeners, client, archives, imports>>

\* endTime is stamped once.
complete(s) ==
  /\ Spend("register")
  /\ s \in DOMAIN registry
  /\ registry' = [registry EXCEPT ![s].active = FALSE,
                                  ![s].end = IF @ = None THEN clock ELSE @]
  /\ clock' = clock + 1
  /\ UNCHANGED <<stores, pending, listeners, client, archives, imports>>

remove(s) ==
  /\ Spend("register")
  /\ s \in DOMAIN registry
  /\ registry' = Without(registry, {s})
  /\ stores' = Closed(stores, {s})
  /\ UNCHANGED <<pending, listeners, client, archives, imports, clock>>

tag(s, t) ==
  /\ Spend("register")
  /\ s \in DOMAIN registry
  /\ registry' = [registry EXCEPT ![s].tag = t]
  /\ UNCHANGED <<stores, pending, listeners, client, archives, imports, clock>>

\* The session ids a list shows, most recent first, at most limit of them.
listSessions(reg, limit, activeOnly, t) ==
  LET shown == {s \in DOMAIN reg : (activeOnly => reg[s].active) /\ (t = NoTag \/ reg[s].tag = t)}
      order == SetToSortSeq(shown, LAMBDA a, b : reg[a].start > reg[b].start)
  IN SubSeq(order, 1, Min({limit, Len(order)}))

-----------------------------------------------------------------------------
(* DebugProtocolHandler: what it keeps per client and session.              *)

\* A filter's sets are empty where it does not restrict; an event names a transition, a place or
\* neither.
PlaceEvents == {"TokenAdded", "TokenRemoved"}
TransitionEvents == {"TransitionEnabled", "TransitionStarted"} \cup Ended

Includes(S, kinds, e) == S # {} => e.type \in kinds /\ e.name \in S
Excludes(S, kinds, e) == ~(e.type \in kinds /\ e.name \in S)

matchesFilterOf(sub, e) ==
  LET f == sub.filter
  IN f = <<>> \/
     /\ f.types # {} => e.type \in f.types
     /\ e.type \notin f.excludeTypes
     /\ Includes(f.transitions, TransitionEvents, e)
     /\ Excludes(f.excludeTransitions, TransitionEvents, e)
     /\ Includes(f.places, PlaceEvents, e)
     /\ Excludes(f.excludePlaces, PlaceEvents, e)

\* Unlike the client, the server knows no instance breakpoint.
hitsBreakpoint(sub, e) ==
  \E bp \in sub.breakpoints :
    bp.enabled /\ bp.type # "INSTANCE_TRANSITION" /\ matchesBreakpoint(bp, e)

\* addSubscription: everything starts afresh.  missed: events may have passed this subscription by
\* or come twice (paused, filtered, or a broadcast to its predecessor still pending).
NewSubscription(listener, store, index, missed) ==
  [listener |-> listener, store |-> store, eventIndex |-> index, cache |-> <<>>, breakpoints |-> {},
   paused |-> FALSE, filter |-> <<>>, missed |-> missed]

NewClient(gen) == [up |-> TRUE, gen |-> gen, subs |-> <<>>, shown |-> <<>>, got |-> <<>>, list |-> <<>>]

Subs(c) == client[c].subs
HasSub(c, s) == s \in DOMAIN Subs(c)

\* Mutant: the subscription is forgotten and its listener stays.
CancelledMutant(sts, c, S) == sts

\* Stores after client c's subscriptions to the sessions in S were cancelled.
Cancelled(sts, c, S) ==
  LET gone == {Subs(c)[s].listener : s \in S \cap DOMAIN Subs(c)}
  IN [k \in DOMAIN sts |-> [sts[k] EXCEPT !.subs = @ \ gone]]

\* A second connection under an id in use takes the place of the first and cancels nothing: the
\* listeners of the first are stray from then on.  What they still send goes to the sink of a
\* connection no command reaches any more; it is not followed here.
clientConnected(c) ==
  /\ Spend("client")
  /\ client' = [client EXCEPT ![c] = NewClient(@.gen + 1)]
  /\ listeners' = [l \in DOMAIN listeners |->
       [listeners[l] EXCEPT !.stray = @ \/ \E s \in DOMAIN Subs(c) : Subs(c)[s].listener = l]]
  /\ UNCHANGED <<stores, registry, pending, archives, imports, clock>>

clientDisconnected(c) ==
  /\ Spend("client")
  /\ client[c].up
  /\ stores' = Cancelled(stores, c, DOMAIN Subs(c))
  /\ client' = [client EXCEPT ![c] = [NewClient(@.gen) EXCEPT !.up = FALSE]]
  /\ UNCHANGED <<registry, pending, listeners, archives, imports, clock>>

\* A command of a connected client.
Command(c) == Spend("command") /\ client[c].up

\* What does not touch the stores: the client's own state changes.
OnlyClient(c, next) ==
  /\ client' = [client EXCEPT ![c] = next]
  /\ UNCHANGED <<stores, registry, pending, listeners, archives, imports, clock>>

handleListSessions(c) ==
  /\ Command(c)
  /\ \E limit \in 1..MaxSessions, activeOnly \in BOOLEAN, t \in Tags :
       OnlyClient(c, [client[c] EXCEPT !.list = listSessions(registry, limit, activeOnly, t)])

\* A broadcast still queued for an earlier subscription: its closure outlives the subscription.
PredecessorPending(c, s) ==
  \E i \in DOMAIN pending : \E l \in pending[i].to :
    listeners[l].client = c /\ listeners[l].gen = client[c].gen /\ listeners[l].session = s

\* The client shows the state it was sent, then folds the batches into it (see DebugUI).
SubscribedAs(c, s, sub, shown, got) ==
  client' = [client EXCEPT ![c].subs = With(@, s, sub), ![c].shown = With(@, s, shown),
                           ![c].got = With(@, s, got)]

SessionNotFound(c, s) == s \notin DOMAIN registry /\ OnlyClient(c, client[c])

handleSubscribeLive(c, s) ==
  /\ Command(c)
  /\ \/ SessionNotFound(c, s)
     \/ /\ s \in DOMAIN registry
        /\ LET k == registry[s].store
               history == eventsFrom(stores[k], 0)
               l == Len(listeners) + 1
           IN /\ listeners' = Append(listeners, [client |-> c, gen |-> client[c].gen, session |-> s,
                                                 store |-> k, next |-> Len(history), stray |-> FALSE])
              /\ stores' = [Cancelled(stores, c, {s}) EXCEPT ![k].subs = @ \cup {l}]
              /\ SubscribedAs(c, s,
                   NewSubscription(l, k, Len(history), PredecessorPending(c, s)),
                   FoldLeft(applyEventToState, computeState(stores[k].events), history),
                   [i \in DOMAIN history |-> [index |-> i - 1, event |-> history[i]]])
        /\ UNCHANGED <<registry, pending, archives, imports, clock>>

\* The whole history in batches, and no listener.
handleSubscribeReplay(c, s) ==
  /\ Command(c)
  /\ \/ SessionNotFound(c, s)
     \/ /\ s \in DOMAIN registry
        /\ LET k == registry[s].store
               history == eventsFrom(stores[k], 0)
           IN /\ stores' = Cancelled(stores, c, {s})
              /\ SubscribedAs(c, s,
                   [NewSubscription(None, k, Len(history), TRUE) EXCEPT !.paused = TRUE],
                   EmptyView, [i \in DOMAIN history |-> [index |-> i - 1, event |-> history[i]]])
        /\ UNCHANGED <<registry, pending, listeners, archives, imports, clock>>

handleUnsubscribe(c, s) ==
  /\ Command(c)
  /\ stores' = Cancelled(stores, c, {s})
  /\ client' = [client EXCEPT ![c].subs = Without(@, {s})]
  /\ UNCHANGED <<registry, pending, listeners, archives, imports, clock>>

\* A setter does nothing without a subscription; the answer is sent either way.
Setting(c, s, next) ==
  /\ Command(c)
  /\ OnlyClient(c, IF HasSub(c, s) THEN [client[c] EXCEPT !.subs[s] = next] ELSE client[c])

SubOf(c, s) == Subs(c)[s]

handlePause(c, s) == Setting(c, s, [SubOf(c, s) EXCEPT !.paused = TRUE, !.missed = TRUE])
handleResume(c, s) == Setting(c, s, [SubOf(c, s) EXCEPT !.paused = FALSE])
handleSetFilter(c, s) ==
  \E f \in Filters : Setting(c, s, [SubOf(c, s) EXCEPT !.filter = f, !.missed = TRUE])
handleSetBreakpoint(c, s) ==
  \E bp \in Breakpoints :
    Setting(c, s, [SubOf(c, s) EXCEPT !.breakpoints = {b \in @ : b.id # bp.id} \cup {bp}])
handleClearBreakpoint(c, s) ==
  \E bp \in Breakpoints :
    Setting(c, s, [SubOf(c, s) EXCEPT !.breakpoints = {b \in @ : b.id # bp.id}])

\* The marking at position index of the session's retained events, sent as a snapshot.
ShowStateAt(c, s, index) ==
  LET events == stores[registry[s].store].events
      cache == ensureCachedUpTo(SubOf(c, s).cache, events, index)
  IN OnlyClient(c,
       IF HasSub(c, s)
       THEN [client[c] EXCEPT !.subs[s].eventIndex = index, !.subs[s].cache = cache,
                              !.subs[s].missed = TRUE,
                              !.shown = With(@, s, computeAt(cache, events, index))]
       ELSE [client[c] EXCEPT !.shown = With(@, s, computeState(SubSeq(events, 1, index)))])

\* Event number n of a store is stamped n: the first retained event at or after the time asked for.
handleSeek(c, s) ==
  /\ Command(c)
  /\ \/ SessionNotFound(c, s)
     \/ /\ s \in DOMAIN registry
        /\ LET st == stores[registry[s].store]
           IN \E ts \in 1..(st.count + 1) :
                ShowStateAt(c, s, IF ts <= st.evicted THEN 0 ELSE Min({ts - st.evicted - 1, Len(st.events)}))

handleStepForward(c, s) ==
  /\ Command(c)
  /\ \/ SessionNotFound(c, s)
     \/ /\ s \in DOMAIN registry
        /\ LET events == stores[registry[s].store].events
               at == IF HasSub(c, s) THEN SubOf(c, s).eventIndex ELSE 0
               sent == [client[c] EXCEPT !.shown =
                          IF s \in DOMAIN @ THEN With(@, s, applyEventToState(@[s], events[at + 1])) ELSE @]
           IN OnlyClient(c, IF at >= Len(events) THEN client[c]
                            ELSE IF HasSub(c, s)
                            THEN [sent EXCEPT !.subs[s].eventIndex = at + 1, !.subs[s].missed = TRUE]
                            ELSE sent)

handleStepBackward(c, s) ==
  /\ Command(c)
  /\ \/ SessionNotFound(c, s)
     \/ /\ s \in DOMAIN registry
        /\ LET at == IF HasSub(c, s) THEN SubOf(c, s).eventIndex ELSE 0
           IN IF at > 0 THEN ShowStateAt(c, s, at - 1) ELSE OnlyClient(c, client[c])

\* What is answered from the client's state and changes nothing.
handleQueries(c) == Command(c) /\ OnlyClient(c, client[c])

-----------------------------------------------------------------------------
(* The broadcast microtask.                                                 *)

\* The listener of client c among those told, if its connection is still the one it was made on.
ToldOf(c) ==
  {l \in Head(pending).to : listeners[l].client = c /\ listeners[l].gen = client[c].gen}

Passes(c, l, e) ==
  LET s == listeners[l].session
  IN HasSub(c, s) => ~SubOf(c, s).paused /\ matchesFilterOf(SubOf(c, s), e)

\* A breakpoint pauses the subscription; its own event is still sent.
Receive(c, l, e) ==
  LET s == listeners[l].session
      hit == HasSub(c, s) /\ hitsBreakpoint(SubOf(c, s), e)
      shown == [client[c] EXCEPT
                  !.shown = IF s \in DOMAIN @ THEN With(@, s, applyEventToState(@[s], e)) ELSE @,
                  !.got = IF s \in DOMAIN @
                          THEN With(@, s, Append(@[s], [index |-> listeners[l].next, event |-> e]))
                          ELSE @]
  IN IF ~Passes(c, l, e) THEN client[c]
     ELSE IF hit THEN [shown EXCEPT !.subs[s].paused = TRUE, !.subs[s].missed = TRUE]
     ELSE shown

broadcast ==
  /\ pending # <<>>
  /\ LET e == Head(pending).event
     IN /\ client' = [c \in Clients |-> IF client[c].up /\ ToldOf(c) # {}
                                        THEN Receive(c, CHOOSE l \in ToldOf(c) : TRUE, e)
                                        ELSE client[c]]
        /\ listeners' = [l \in DOMAIN listeners |->
             IF l \in Head(pending).to /\ client[listeners[l].client].gen = listeners[l].gen
                /\ Passes(listeners[l].client, l, e)
             THEN [listeners[l] EXCEPT !.next = @ + 1] ELSE listeners[l]]
  /\ pending' = Tail(pending)
  /\ UNCHANGED <<stores, registry, archives, imports, clock, left>>

-----------------------------------------------------------------------------
(* Archives.                                                                *)

\* The writer takes one snapshot of the store; the file is complete when it is listed.
archive(s) ==
  /\ Spend("archive")
  /\ s \in DOMAIN registry
  /\ archives' = With(archives, s, stores[registry[s].store].events)
  /\ UNCHANGED <<stores, registry, pending, listeners, client, imports, clock>>

handleImportArchive(c, s) ==
  /\ Command(c)
  /\ imports' = imports \cup {[client |-> c, gen |-> client[c].gen, session |-> s]}
  /\ UNCHANGED <<stores, registry, pending, listeners, client, archives, clock>>

\* Every client is sent the new list, the one that asked also its answer.
registerImported(s, events) ==
  /\ Enter(s, [store |-> Len(stores) + 1, start |-> ArchiveStarts[s], active |-> FALSE,
               end |-> None, tag |-> NoTag],
           NewStore(events, events))
  /\ client' = [c \in Clients |->
       IF client[c].up THEN [client[c] EXCEPT !.list = listSessions(registry', 50, FALSE, NoTag)]
       ELSE client[c]]

ImportDone ==
  \E req \in imports :
    /\ req.session \in DOMAIN archives
    /\ registerImported(req.session, archives[req.session])
    /\ imports' = imports \ {req}
    /\ UNCHANGED <<pending, listeners, archives, clock, left>>

\* No such archive: the client that asked is sent an error.
ImportFailed ==
  \E req \in imports :
    /\ req.session \notin DOMAIN archives
    /\ imports' = imports \ {req}
    /\ UNCHANGED <<stores, registry, pending, listeners, client, archives, clock, left>>

\* An upload brings the archive with it.
handleUploadArchive(c, s) ==
  /\ Command(c)
  /\ registerImported(s, SubSeq(Scripts[1], 1, MaxEvents))
  /\ UNCHANGED <<pending, listeners, archives, imports, clock>>

-----------------------------------------------------------------------------
Init ==
  /\ stores = <<>> /\ registry = <<>> /\ pending = <<>> /\ listeners = <<>>
  /\ client = [c \in Clients |-> NewClient(1)]
  /\ archives = <<>> /\ imports = {} /\ clock = 1
  /\ left \in Budgets

Registry ==
  \E s \in SessionIds :
    \/ \E t \in Tags : register(s, t) \/ tag(s, t)
    \/ complete(s) \/ remove(s)

Handler ==
  \E c \in Clients :
    \/ clientConnected(c) \/ clientDisconnected(c) \/ handleListSessions(c) \/ handleQueries(c)
    \/ \E s \in SessionIds :
         \/ handleSubscribeLive(c, s) \/ handleSubscribeReplay(c, s) \/ handleUnsubscribe(c, s)
         \/ handlePause(c, s) \/ handleResume(c, s) \/ handleSetFilter(c, s)
         \/ handleSetBreakpoint(c, s) \/ handleClearBreakpoint(c, s)
         \/ handleSeek(c, s) \/ handleStepForward(c, s) \/ handleStepBackward(c, s)
         \/ handleImportArchive(c, s) \/ handleUploadArchive(c, s)

Archive == (\E s \in SessionIds : archive(s)) \/ ImportDone \/ ImportFailed

Next == append \/ broadcast \/ Registry \/ Handler \/ Archive

Spec == Init /\ [][Next]_vars

-----------------------------------------------------------------------------
(* Properties.                                                              *)

\* Records with these fields.
IsStore(st) ==
  st = [events |-> st.events, count |-> st.count, evicted |-> st.evicted, subs |-> st.subs,
        script |-> st.script]

IsListener(l) ==
  /\ l = [client |-> l.client, gen |-> l.gen, session |-> l.session, store |-> l.store,
          next |-> l.next, stray |-> l.stray]
  /\ l.client \in Clients /\ l.stray \in BOOLEAN

IsSession(r) ==
  /\ r = [store |-> r.store, start |-> r.start, active |-> r.active, end |-> r.end, tag |-> r.tag]
  /\ r.start \in Int /\ r.active \in BOOLEAN

IsSubscription(sub) ==
  sub = [listener |-> sub.listener, store |-> sub.store, eventIndex |-> sub.eventIndex,
         cache |-> sub.cache, breakpoints |-> sub.breakpoints, paused |-> sub.paused,
         filter |-> sub.filter, missed |-> sub.missed]

IsClient(r) ==
  /\ r = [up |-> r.up, gen |-> r.gen, subs |-> r.subs, shown |-> r.shown, got |-> r.got,
          list |-> r.list]
  /\ r.up \in BOOLEAN
  /\ r.subs = [s \in DOMAIN r.subs |-> r.subs[s]]
  /\ \A s \in DOMAIN r.subs : IsSubscription(r.subs[s])

StoresTyped == stores \in Seq(Range(stores)) /\ \A k \in DOMAIN stores : IsStore(stores[k])

ListenersTyped ==
  listeners \in Seq(Range(listeners)) /\ \A l \in DOMAIN listeners : IsListener(listeners[l])

ClientsTyped == client = [c \in Clients |-> client[c]] /\ \A c \in Clients : IsClient(client[c])

\* The sessions are those of the registry's map, and archives are filed under session ids.
SessionsTyped ==
  /\ registry = [s \in DOMAIN registry |-> registry[s]]
  /\ IsFiniteSet(DOMAIN registry)
  /\ \A s \in DOMAIN registry : IsSession(registry[s])
  /\ DOMAIN archives \subseteq SessionIds
  /\ clock \in Int

\* Listener l is the one of a current subscription of a connected client.
Owned(l) ==
  /\ l \in DOMAIN listeners
  /\ LET who == listeners[l]
     IN /\ client[who.client].up
        /\ HasSub(who.client, who.session)
        /\ SubOf(who.client, who.session).listener = l

\* The one way a listener outlives its subscription: its connection was replaced under it.
Stray(l) == l \in DOMAIN listeners /\ listeners[l].stray

Accounted(l) == Owned(l) \/ Stray(l)

\* The inductive invariant: every store tells owned and stray listeners only, and the registry keeps
\* to its capacity.
ServerInvariant ==
  /\ StoresTyped /\ ListenersTyped /\ ClientsTyped /\ SessionsTyped
  /\ \A k \in DOMAIN stores : \A l \in stores[k].subs : Accounted(l)
  /\ Cardinality(DOMAIN registry) <= MaxSessions

\* A finite sequence, of whatever entries.
IsSequence(s) == s \in Seq(Range(s))

\* Entry j of a marking cache is the state after the first j * SNAPSHOT_INTERVAL events.
CacheOf(cache, events) ==
  \A j \in DOMAIN cache :
    /\ j * SNAPSHOT_INTERVAL <= Len(events)
    /\ cache[j] = computeState(SubSeq(events, 1, j * SNAPSHOT_INTERVAL))

\* The second inductive invariant: the cache of a subscription to the registered store of a session
\* is exact as long as that store has evicted nothing.  (A store is never registered twice, so a
\* cache that was filled from another store is not believed again.)
CacheInvariant ==
  /\ \A k \in DOMAIN stores :
       IsSequence(stores[k].events) /\ stores[k].count \in Nat /\ stores[k].evicted \in Nat
  /\ \A s \in DOMAIN archives : IsSequence(archives[s])
  /\ \A s \in DOMAIN registry : registry[s].store \in DOMAIN stores
  /\ \A c \in Clients : \A s \in DOMAIN Subs(c) :
       LET sub == SubOf(c, s)
       IN /\ sub.store \in DOMAIN stores /\ sub.eventIndex \in Nat /\ IsSequence(sub.cache)
          /\ s \in DOMAIN registry /\ registry[s].store = sub.store /\ stores[sub.store].evicted = 0 =>
               CacheOf(sub.cache, stores[sub.store].events)

\* No listener outlives its subscription but one way: every listener a store would tell belongs to
\* the current subscription of a connected client, so an unsubscribe, a re-subscribe or a disconnect
\* ends the stream - unless clientConnected() replaced the client while it was connected, which
\* cancels nothing.  And the registry never holds more than maxSessions.
ListenersOwned ==
  /\ \A k \in DOMAIN stores : \A l \in stores[k].subs :
       LET who == listeners[l]
       IN ~who.stray =>
            /\ client[who.client].up /\ HasSub(who.client, who.session)
            /\ SubOf(who.client, who.session).listener = l
  /\ Cardinality(DOMAIN registry) <= MaxSessions

\* A client that follows a session live and was neither paused nor filtered has, once the broadcasts
\* are through, every event of its store exactly once, in order, under consecutive indices from the
\* history on - and what it shows is the state those events lead to, if none was evicted before.
LiveExact ==
  pending = <<>> =>
    \A c \in Clients : \A s \in DOMAIN Subs(c) :
      LET sub == SubOf(c, s)
          st == stores[sub.store]
          got == client[c].got[s]
          base == st.count - Len(got)
      IN sub.listener \in st.subs /\ ~sub.missed =>
           /\ base >= 0
           /\ \A i \in DOMAIN got : got[i].index = i - 1 /\ got[i].event = st.script[base + i]
           /\ Len(got) >= Len(st.events)
           /\ base = 0 => client[c].shown[s] = ViewAfter([i \in DOMAIN got |-> got[i].event], Len(got))

\* EVT-032: while the session is the one subscribed to and its store has evicted nothing, the
\* marking cache answers any index as a replay from scratch would, however seeks and steps before
\* extended it.
CacheExactWhileComplete ==
  \A c \in Clients : \A s \in DOMAIN Subs(c) \cap DOMAIN registry :
    LET sub == SubOf(c, s)
        st == stores[registry[s].store]
    IN sub.store = registry[s].store /\ st.evicted = 0 =>
         \A i \in 0..Len(st.events) :
           computeAt(ensureCachedUpTo(sub.cache, st.events, i), st.events, i)
             = computeState(SubSeq(st.events, 1, i))
=============================================================================
