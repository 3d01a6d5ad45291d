-------------------------- MODULE DebugCacheProofs --------------------------
(***************************************************************************)
(* The marking cache of DebugServer answers as a replay from scratch does, *)
(* for any interval of snapshots, any scripts and any history of seeks,    *)
(* steps, appends, imports and subscriptions.                              *)
(*                                                                         *)
(* A replay is a recursive function of the number of events; that two      *)
(* replays of the same events agree (SameReplay) is shown for the least    *)
(* number of events where they would not.  From it: replaying a prefix and *)
(* then the rest is replaying the whole (ReplaySplit), so what             *)
(* ensureCachedUpTo() adds to an exact cache is exact (CacheExtends) and   *)
(* computeAt() over an exact cache is exact (ComputeAtExact).  The         *)
(* inductive invariant is CacheInvariant, on top of ServerInvariant: a     *)
(* step extends the stores, keeps or renews the store of a session, and    *)
(* keeps, extends or empties a cache (CacheStep).                          *)
(***************************************************************************)
EXTENDS DebugServerProofs

-----------------------------------------------------------------------------
(* Replays.                                                                *)

\* f holds the states of a replay of delta from base, up to event n.
Replays(f, base, delta, n) ==
  f = [i \in 0..n |-> IF i = 0 THEN base ELSE applyEvents(f[i - 1], delta[i])]

\* A set of naturals that is not empty has a least element.
LEMMA LeastCounterexample ==
  ASSUME NEW T \in SUBSET Nat, T # {}
  PROVE  \E n \in T : \A i \in Nat : i < n => i \notin T
<1>1. PICK n \in T : \A i \in T : ~ (<<i, n>> \in OpToRel(<, Nat))
  BY NatLessThanWellFounded, WFMin, Zenon
<1> QED
  BY <1>1 DEF OpToRel

\* The states of a replay exist, as many as there are events.
LEMMA ReplayExists ==
  ASSUME NEW base, NEW delta, NEW n \in Nat
  PROVE  \E f : Replays(f, base, delta, n)
<1> DEFINE T == {i \in Nat : ~\E f : Replays(f, base, delta, i)}
<1>1. ASSUME T # {} PROVE FALSE
  <2>1. PICK i \in T : \A j \in Nat : j < i => j \notin T
    <3>1. ASSUME NEW W \in SUBSET Nat, W # {} PROVE \E x \in W : \A y \in Nat : y < x => y \notin W
      BY <3>1, LeastCounterexample
    <3>2. T \in SUBSET Nat
      OBVIOUS
    <3> HIDE DEF T
    <3> QED
      BY <1>1, <3>1, <3>2
  <2>2. CASE i = 0
    <3>1. Replays([j \in 0..0 |-> base], base, delta, 0)
      BY DEF Replays
    <3> QED
      BY <2>1, <2>2, <3>1
  <2>3. CASE i # 0
    <3>1. PICK f : Replays(f, base, delta, i - 1)
      BY <2>1, <2>3
    <3> DEFINE g == [j \in 0..i |-> IF j = i THEN applyEvents(f[i - 1], delta[i]) ELSE f[j]]
    <3>2. Replays(g, base, delta, i)
      <4>1. ASSUME NEW j \in 0..i
            PROVE  g[j] = IF j = 0 THEN base ELSE applyEvents(g[j - 1], delta[j])
        <5>1. CASE j = i
          BY <2>3, <5>1
        <5>2. CASE j # i
          <6>1. f[j] = IF j = 0 THEN base ELSE applyEvents(f[j - 1], delta[j])
            BY <3>1, <5>2 DEF Replays
          <6> QED
            BY <5>2, <6>1
        <5> QED
          BY <5>1, <5>2
      <4> QED
        BY <4>1 DEF Replays
    <3> QED
      BY <2>1, <3>2
  <2> QED
    BY <2>2, <2>3
<1> QED
  BY <1>1

\* replayDelta() is the last of those states.
LEMMA ReplayUnfolds ==
  ASSUME NEW base, NEW delta, Len(delta) \in Nat
  PROVE  \E f : Replays(f, base, delta, Len(delta)) /\ replayDelta(base, delta) = f[Len(delta)]
<1> DEFINE after == CHOOSE f : Replays(f, base, delta, Len(delta))
<1>1. Replays(after, base, delta, Len(delta))
  BY ReplayExists
<1>2. replayDelta(base, delta) = after[Len(delta)]
  BY DEF replayDelta, Replays
<1> QED
  BY <1>1, <1>2

\* d is the n events of h after the first off.
Window(d, h, off, n) == \A k \in 1..n : d[k] = h[off + k]

\* A replay that starts where another is after off events, and reads the same events from there,
\* comes to the same state.
LEMMA SameReplay ==
  ASSUME NEW f, NEW g, NEW base, NEW d, NEW h, NEW n \in Nat, NEW m \in Nat, NEW off \in Nat,
         Replays(f, g[off], d, n), Replays(g, base, h, m), off + n <= m,
         Window(d, h, off, n)
  PROVE  f[n] = g[off + n]
<1> DEFINE T == {k \in Nat : k <= n /\ f[k] # g[off + k]}
<1>1. ASSUME T # {} PROVE FALSE
  <2>1. PICK i \in T : \A j \in Nat : j < i => j \notin T
    <3>1. ASSUME NEW W \in SUBSET Nat, W # {} PROVE \E x \in W : \A y \in Nat : y < x => y \notin W
      BY <3>1, LeastCounterexample
    <3>2. T \in SUBSET Nat
      OBVIOUS
    <3> HIDE DEF T
    <3> QED
      BY <1>1, <3>1, <3>2
  <2>2. i # 0
    BY <2>1 DEF Replays
  <2>3. i - 1 \in Nat /\ i - 1 < i /\ i \in 1..n /\ off + i \in 1..m /\ off + i - 1 = off + (i - 1)
    BY <2>1, <2>2
  <2>4. f[i - 1] = g[off + (i - 1)]
    BY <2>1, <2>3
  <2>5. f[i] = applyEvents(f[i - 1], d[i])
    BY <2>3 DEF Replays
  <2>6. g[off + i] = applyEvents(g[off + i - 1], h[off + i])
    BY <2>3 DEF Replays
  <2>7. d[i] = h[off + i]
    BY <2>3 DEF Window
  <2> QED
    BY <2>1, <2>3, <2>4, <2>5, <2>6, <2>7
<1> QED
  BY <1>1

\* Replaying a prefix and then the rest is replaying the whole.
LEMMA ReplaySplit ==
  ASSUME NEW base, NEW e, e \in Seq(Range(e)), NEW i \in 0..Len(e), NEW j \in i..Len(e)
  PROVE  replayDelta(replayDelta(base, SubSeq(e, 1, i)), SubSeq(e, i + 1, j))
           = replayDelta(base, SubSeq(e, 1, j))
<1> DEFINE d1 == SubSeq(e, 1, i)
           d2 == SubSeq(e, i + 1, j)
           d3 == SubSeq(e, 1, j)
<1>0. Len(e) \in Nat /\ i \in Nat /\ j \in Nat /\ i <= j /\ \A k \in 1..Len(e) : e[k] \in Range(e)
  BY LenProperties, ElementOfSeq
<1>1. Len(d1) = i /\ \A k \in 1..i : d1[k] = e[k]
  BY <1>0, SubSeqProperties
<1>2. Len(d2) = j - i /\ \A k \in 1..(j - i) : d2[k] = e[i + k]
  <2>1. \A k \in (i + 1)..j : e[k] \in Range(e)
    BY <1>0
  <2>2. /\ Len(d2) = IF i + 1 <= j THEN j - (i + 1) + 1 ELSE 0
        /\ \A k \in 1..(j - (i + 1) + 1) : d2[k] = e[i + 1 + k - 1]
    BY <1>0, <2>1, SubSeqProperties
  <2> QED
    BY <1>0, <2>2
<1>3. Len(d3) = j /\ \A k \in 1..j : d3[k] = e[k]
  BY <1>0, SubSeqProperties
<1> HIDE DEF d1, d2, d3
<1>4. PICK f1 : Replays(f1, base, d1, i) /\ replayDelta(base, d1) = f1[i]
  BY <1>0, <1>1, ReplayUnfolds
<1>5. PICK f2 : Replays(f2, f1[i], d2, j - i) /\ replayDelta(f1[i], d2) = f2[j - i]
  <2>1. Len(d2) \in Nat
    BY <1>0, <1>2
  <2>2. \E f : Replays(f, f1[i], d2, Len(d2)) /\ replayDelta(f1[i], d2) = f[Len(d2)]
    BY <2>1, ReplayUnfolds
  <2> QED
    BY <1>2, <2>2
<1>6. PICK f3 : Replays(f3, base, d3, j) /\ replayDelta(base, d3) = f3[j]
  BY <1>0, <1>3, ReplayUnfolds
<1>7. f1[i] = f3[i]
  <2>1. f3[0] = base
    BY <1>0, <1>6 DEF Replays
  <2>2. Replays(f1, f3[0], d1, i) /\ 0 + i <= j /\ Window(d1, d3, 0, i)
    BY <1>0, <1>1, <1>3, <1>4, <2>1 DEF Window
  <2>3. f1[i] = f3[0 + i]
    BY <1>0, <1>6, <2>2, SameReplay
  <2> QED
    BY <1>0, <2>3
<1>8. f2[j - i] = f3[j]
  <2>1. /\ Replays(f2, f3[i], d2, j - i) /\ j - i \in Nat /\ i + (j - i) <= j
        /\ Window(d2, d3, i, j - i)
    BY <1>0, <1>2, <1>3, <1>5, <1>7 DEF Window
  <2>2. f2[j - i] = f3[i + (j - i)]
    BY <1>0, <1>6, <2>1, SameReplay
  <2> QED
    BY <1>0, <2>1, <2>2
<1> QED
  BY <1>4, <1>5, <1>6, <1>8 DEF d1, d2, d3

-----------------------------------------------------------------------------
(* The marking cache.                                                      *)

\* Multiples of the interval.
LEMMA Multiples ==
  ASSUME NEW a \in Nat, NEW b \in Nat
  PROVE  /\ a * SNAPSHOT_INTERVAL \in Nat
         /\ a \div SNAPSHOT_INTERVAL \in Nat /\ (a \div SNAPSHOT_INTERVAL) * SNAPSHOT_INTERVAL <= a
         /\ (a + b) * SNAPSHOT_INTERVAL = a * SNAPSHOT_INTERVAL + b * SNAPSHOT_INTERVAL
         /\ a <= b => a * SNAPSHOT_INTERVAL <= b * SNAPSHOT_INTERVAL
<1>1. PICK d \in Nat \ {0} : d = SNAPSHOT_INTERVAL
  BY ServerAssumption DEF ServerAssumption
<1>2. a * d \in Nat /\ b * d \in Nat
  OBVIOUS
<1>3. a \div d \in Nat /\ (a \div d) * d <= a
  OBVIOUS
<1>4. (a + b) * d = a * d + b * d
  OBVIOUS
<1>5. ASSUME a <= b PROVE a * d <= b * d
  <2>1. PICK c \in Nat : b = a + c
    BY <1>5
  <2>2. (a + c) * d = a * d + c * d /\ c * d \in Nat
    OBVIOUS
  <2> QED
    BY <1>2, <2>1, <2>2
<1> QED
  BY <1>1, <1>2, <1>3, <1>4, <1>5

\* A replay of nothing.
LEMMA EmptyReplay ==
  ASSUME NEW e
  PROVE  computeState(SubSeq(e, 1, 0)) = EmptyView
<1>1. SubSeq(e, 1, 0) = <<>> /\ Len(<<>>) = 0
  BY SubSeqEmpty
<1>2. PICK f : Replays(f, EmptyView, <<>>, 0) /\ replayDelta(EmptyView, <<>>) = f[0]
  BY <1>1, ReplayUnfolds
<1> QED
  BY <1>1, <1>2 DEF computeState, Replays

\* ensureCachedUpTo(): what it adds to an exact cache is exact.
LEMMA CacheExtends ==
  ASSUME NEW cache, cache \in Seq(Range(cache)), NEW events, events \in Seq(Range(events)),
         NEW target \in Nat
  PROVE  /\ IsSequence(ensureCachedUpTo(cache, events, target))
         /\ CacheOf(cache, events) => CacheOf(ensureCachedUpTo(cache, events, target), events)
<1> DEFINE I == SNAPSHOT_INTERVAL
           n == Len(cache)
           reach == IF target < Len(events) THEN target ELSE Len(events)
           needed == reach \div I
           base == IF cache = <<>> THEN EmptyView ELSE Last(cache)
           from == n * I
           new == IF needed > n THEN needed - n ELSE 0
           more == [k \in 1..new |-> replayDelta(base, SubSeq(events, from + 1, from + k * I))]
           res == cache \o more
<1>1. ensureCachedUpTo(cache, events, target) = res
  BY DEF ensureCachedUpTo
<1>2. /\ n \in Nat /\ Len(events) \in Nat /\ DOMAIN cache = 1..n /\ reach \in Nat
      /\ reach <= Len(events)
  BY LenProperties
<1>3. needed \in Nat /\ needed * I <= Len(events) /\ from \in Nat /\ new \in Nat /\ needed * I \in Nat
  <2>1. needed \in Nat /\ needed * I <= reach
    BY <1>2, Multiples
  <2>2. from \in Nat /\ needed * I \in Nat
    BY <1>2, <2>1, Multiples
  <2> HIDE DEF needed, reach, n, from
  <2> QED
    BY <1>2, <2>1, <2>2
<1>4. CacheOf(cache, events) => base = computeState(SubSeq(events, 1, from))
  <2>1. CASE cache = <<>>
    <3>1. n = 0
      BY <2>1
    <3>2. from = 0
      BY <3>1, ServerAssumption DEF ServerAssumption
    <3>3. base = EmptyView
      BY <2>1
    <3> HIDE DEF from, base, n
    <3> QED
      BY <1>2, <3>2, <3>3, EmptyReplay
  <2>2. CASE cache # <<>>
    <3>1. n \in DOMAIN cache
      BY <1>2, <2>2, EmptySeq
    <3>2. base = cache[n]
      BY <2>2 DEF Last
    <3> QED
      BY <3>1, <3>2 DEF CacheOf
  <2> QED
    BY <2>1, <2>2
<1>5. ASSUME NEW k \in 1..new
      PROVE  /\ (n + k) * I <= Len(events)
             /\ CacheOf(cache, events) => more[k] = computeState(SubSeq(events, 1, (n + k) * I))
  <2>1. new = needed - n /\ k \in Nat /\ n + k \in Nat /\ n + k <= needed
    <3> HIDE DEF needed, n
    <3> QED
      BY <1>2, <1>3
  <2>2. (n + k) * I = from + k * I /\ (n + k) * I <= needed * I /\ k * I \in Nat
    <3>1. (n + k) * I = n * I + k * I /\ k * I \in Nat
      BY <1>2, <2>1, Multiples
    <3>2. (n + k) * I <= needed * I
      BY <1>3, <2>1, Multiples
    <3> QED
      BY <3>1, <3>2
  <2>3. from \in 0..Len(events) /\ from + k * I \in from..Len(events)
    <3> HIDE DEF from, needed, new, n
    <3> QED
      BY <1>2, <1>3, <2>2
  <2>4. more[k] = replayDelta(base, SubSeq(events, from + 1, from + k * I))
    OBVIOUS
  <2> HIDE DEF from, more, base, needed, new, n
  <2>5. replayDelta(replayDelta(EmptyView, SubSeq(events, 1, from)), SubSeq(events, from + 1, from + k * I))
          = replayDelta(EmptyView, SubSeq(events, 1, from + k * I))
    BY <2>3, ReplaySplit
  <2> QED
    BY <1>2, <1>3, <1>4, <2>2, <2>3, <2>4, <2>5 DEF computeState
<1>6. more \in Seq(Range(more)) /\ Len(more) = new
  <2>1. more \in [1..new -> Range(more)]
    BY DEF Range
  <2> HIDE DEF more, new
  <2> QED
    BY <1>3, <2>1, SeqDef, LenProperties
<1> HIDE DEF more, new, needed, base, reach, from
<1>7. /\ res \in Seq(Range(cache) \cup Range(more)) /\ Len(res) = n + new
      /\ \A i \in 1..(n + new) : res[i] = IF i <= n THEN cache[i] ELSE more[i - n]
  <2>1. cache \in Seq(Range(cache) \cup Range(more)) /\ more \in Seq(Range(cache) \cup Range(more))
    BY <1>6, SeqDef
  <2> QED
    BY <1>6, <2>1, ConcatProperties
<1> HIDE DEF res, n
<1>8. res \in Seq(Range(res)) /\ DOMAIN res = 1..(n + new)
  <2>1. res \in [1..Len(res) -> Range(res)] /\ Len(res) \in Nat
    BY <1>7, LenProperties DEF Range
  <2> QED
    BY <1>7, <2>1, SeqDef
<1>9. ASSUME CacheOf(cache, events) PROVE CacheOf(res, events)
  <2> SUFFICES ASSUME NEW j \in 1..(n + new)
               PROVE  /\ j * I <= Len(events)
                      /\ res[j] = computeState(SubSeq(events, 1, j * I))
    BY <1>8 DEF CacheOf
  <2>1. CASE j <= n
    <3>1. j \in DOMAIN cache /\ res[j] = cache[j]
      BY <1>2, <1>3, <1>7, <2>1
    <3> QED
      BY <1>9, <3>1 DEF CacheOf
  <2>2. CASE ~(j <= n)
    <3>1. j - n \in 1..new /\ n + (j - n) = j /\ res[j] = more[j - n]
      BY <1>2, <1>3, <1>7, <2>2
    <3> QED
      BY <1>5, <1>9, <3>1
  <2> QED
    BY <2>1, <2>2
<1> QED
  BY <1>1, <1>8, <1>9 DEF IsSequence

\* computeAt(): from the nearest snapshot of an exact cache, the state of a replay from scratch.
LEMMA ComputeAtExact ==
  ASSUME NEW cache, cache \in Seq(Range(cache)), NEW events, events \in Seq(Range(events)),
         CacheOf(cache, events), NEW i \in 0..Len(events)
  PROVE  computeAt(cache, events, i) = computeState(SubSeq(events, 1, i))
<1> DEFINE I == SNAPSHOT_INTERVAL
           n == Len(cache)
           slot == IF i \div I < n THEN i \div I ELSE n
<1>1. n \in Nat /\ Len(events) \in Nat /\ DOMAIN cache = 1..n /\ i \in Nat /\ i <= Len(events)
  BY LenProperties
<1>2. i \div I \in Nat /\ (i \div I) * I <= i
  BY <1>1, Multiples
<1>3. slot \in Nat /\ slot <= i \div I /\ slot <= n
  BY <1>1, <1>2
<1>4. slot * I \in Nat /\ slot * I <= (i \div I) * I
  BY <1>2, <1>3, Multiples
<1>5. (IF i < Len(events) THEN i ELSE Len(events)) = i
  BY <1>1
<1>6. computeAt(cache, events, i) = IF slot = 0 THEN computeState(SubSeq(events, 1, i))
                                    ELSE replayDelta(cache[slot], SubSeq(events, slot * I + 1, i))
  BY <1>5 DEF computeAt
<1> HIDE DEF slot, n
<1>7. CASE slot # 0
  <2>1. slot \in DOMAIN cache
    BY <1>1, <1>3, <1>7
  <2>2. slot * I \in 0..Len(events) /\ i \in (slot * I)..Len(events)
    <3>1. PICK x \in Nat : x = (i \div I) * I
      BY <1>2, Multiples
    <3>2. PICK y \in Nat : y = slot * I
      BY <1>4
    <3>3. y <= x /\ x <= i
      BY <1>2, <1>4, <3>1, <3>2
    <3>4. y \in 0..Len(events) /\ i \in y..Len(events)
      BY <1>1, <3>3
    <3> QED
      BY <3>2, <3>4
  <2>3. replayDelta(replayDelta(EmptyView, SubSeq(events, 1, slot * I)), SubSeq(events, slot * I + 1, i))
          = replayDelta(EmptyView, SubSeq(events, 1, i))
    BY <2>2, ReplaySplit
  <2> QED
    BY <1>6, <1>7, <2>1, <2>3 DEF CacheOf, computeState
<1> QED
  BY <1>6, <1>7

-----------------------------------------------------------------------------
(* What a step may do to the caches.                                       *)

\* The events g begin with the events e.
BeginsWith(g, e) == Len(e) <= Len(g) /\ \A i \in 1..Len(e) : g[i] = e[i]

\* A cache of some events stays one of them when more are appended.
LEMMA CacheGrows ==
  ASSUME NEW cache, NEW e, IsSequence(e), NEW g, IsSequence(g), BeginsWith(g, e), CacheOf(cache, e),
         DOMAIN cache \subseteq Nat
  PROVE  CacheOf(cache, g)
<1> SUFFICES ASSUME NEW j \in DOMAIN cache
             PROVE  /\ j * SNAPSHOT_INTERVAL <= Len(g)
                    /\ cache[j] = computeState(SubSeq(g, 1, j * SNAPSHOT_INTERVAL))
  BY DEF CacheOf
<1>1. PICK n : n = j * SNAPSHOT_INTERVAL
  OBVIOUS
<1>2. n \in Nat /\ n <= Len(e) /\ cache[j] = computeState(SubSeq(e, 1, n))
  BY <1>1, Multiples DEF CacheOf
<1>3. e \in Seq(Range(e)) /\ g \in Seq(Range(g)) /\ Len(e) \in Nat /\ Len(g) \in Nat /\ n <= Len(g)
  BY <1>2, LenProperties DEF IsSequence, BeginsWith
<1>4. SubSeq(e, 1, n) = SubSeq(g, 1, n)
  <2>1. [i \in 1..n |-> e[i]] = [i \in 1..n |-> g[i]]
    BY <1>2, <1>3 DEF BeginsWith
  <2>2. SubSeq(e, 1, n) = [i \in 1..n |-> e[i]] /\ SubSeq(g, 1, n) = [i \in 1..n |-> g[i]]
    BY <1>2, <1>3
  <2> QED
    BY <2>1, <2>2
<1> QED
  BY <1>1, <1>2, <1>3, <1>4

\* What CacheInvariant says of a store.
StoreCounts(st) == IsSequence(st.events) /\ st.count \in Nat /\ st.evicted \in Nat

\* The stores only grow, and one that has evicted nothing still begins with what it held.
StoresGrown ==
  /\ DOMAIN stores \subseteq DOMAIN stores'
  /\ \A k \in DOMAIN stores' : StoreCounts(stores'[k])
  /\ \A k \in DOMAIN stores :
       stores'[k].evicted = 0 => stores[k].evicted = 0 /\ BeginsWith(stores'[k].events, stores[k].events)

\* A session keeps its store, or has one that is new.
RegistryMoved ==
  \A s \in DOMAIN registry' :
    /\ registry'[s].store \in DOMAIN stores'
    /\ registry'[s].store \in DOMAIN stores =>
         s \in DOMAIN registry /\ registry[s].store = registry'[s].store

ArchivesTyped == \A s \in DOMAIN archives : IsSequence(archives[s])

\* A subscription that starts afresh.
SubFresh(sub) == sub.store \in DOMAIN stores' /\ sub.eventIndex \in Nat /\ sub.cache = <<>>

\* The cache of client c's subscription to s, or what ensureCachedUpTo() makes of it.
CacheMoved(c, s, cache) ==
  \/ cache = client[c].subs[s].cache
  \/ /\ s \in DOMAIN registry
     /\ \E target \in Nat :
          cache = ensureCachedUpTo(client[c].subs[s].cache, stores[registry[s].store].events, target)

SubMoved(c, s, sub) ==
  \/ SubFresh(sub)
  \/ /\ s \in DOMAIN client[c].subs
     /\ sub.store = client[c].subs[s].store /\ sub.eventIndex \in Nat /\ CacheMoved(c, s, sub.cache)

ClientsMoved ==
  \A c \in Clients : \A s \in DOMAIN client'[c].subs : SubMoved(c, s, client'[c].subs[s])

\* What CacheInvariant says of a subscription to s.
SubExact(s, sub) ==
  /\ sub.store \in DOMAIN stores /\ sub.eventIndex \in Nat /\ IsSequence(sub.cache)
  /\ s \in DOMAIN registry /\ registry[s].store = sub.store /\ stores[sub.store].evicted = 0 =>
       CacheOf(sub.cache, stores[sub.store].events)

\* The invariant, part by part.
LEMMA CacheParts ==
  CacheInvariant <=>
    /\ \A k \in DOMAIN stores : StoreCounts(stores[k])
    /\ ArchivesTyped
    /\ \A s \in DOMAIN registry : registry[s].store \in DOMAIN stores
    /\ \A c \in Clients : \A s \in DOMAIN client[c].subs : SubExact(s, client[c].subs[s])
BY DEF CacheInvariant, StoreCounts, ArchivesTyped, SubExact, Subs, SubOf

\* Moved, a cache is a sequence, and exact where it was.
LEMMA MovedExact ==
  ASSUME CacheInvariant, NEW c \in Clients, NEW s \in DOMAIN client[c].subs, NEW cache,
         CacheMoved(c, s, cache)
  PROVE  /\ IsSequence(cache)
         /\ s \in DOMAIN registry /\ registry[s].store = client[c].subs[s].store
              /\ stores[client[c].subs[s].store].evicted = 0 =>
              CacheOf(cache, stores[client[c].subs[s].store].events)
<1>1. SubExact(s, client[c].subs[s])
  BY CacheParts
<1>2. CASE cache = client[c].subs[s].cache
  BY <1>1, <1>2 DEF SubExact
<1>3. CASE cache # client[c].subs[s].cache
  <2> DEFINE old == client[c].subs[s].cache
             events == stores[registry[s].store].events
  <2>1. PICK target \in Nat : cache = ensureCachedUpTo(old, events, target)
    BY <1>3 DEF CacheMoved
  <2>2. s \in DOMAIN registry
    BY <1>3 DEF CacheMoved
  <2>3. IsSequence(old) /\ IsSequence(events)
    BY <1>1, <2>2, CacheParts DEF SubExact, StoreCounts
  <2>4. IsSequence(cache) /\ (CacheOf(old, events) => CacheOf(cache, events))
    <3> HIDE DEF old, events
    <3> QED
      BY <2>1, <2>3, CacheExtends DEF IsSequence
  <2> QED
    BY <1>1, <2>2, <2>4 DEF SubExact
<1> QED
  BY <1>2, <1>3

\* The cache a subscription starts with is exact.
LEMMA EmptyCache ==
  ASSUME NEW events
  PROVE  IsSequence(<<>>) /\ CacheOf(<<>>, events)
<1>1. DOMAIN << >> = {} /\ << >> \in Seq({}) /\ Range(<< >>) = {}
  BY DEF Range
<1> QED
  BY <1>1, Zenon DEF IsSequence, CacheOf

\* A step that moves stores, sessions and subscriptions so keeps the invariant.
LEMMA CacheStep ==
  ASSUME CacheInvariant, StoresGrown, RegistryMoved, ClientsMoved, ArchivesTyped'
  PROVE  CacheInvariant'
<1>1. ASSUME NEW c \in Clients, NEW s \in DOMAIN client'[c].subs
      PROVE  SubExact(s, client[c].subs[s])'
  <2> DEFINE sub == client'[c].subs[s]
             k == sub.store
  <2>1. SubMoved(c, s, sub)
    BY DEF ClientsMoved
  <2>2. CASE SubFresh(sub)
    BY <2>2, EmptyCache DEF SubFresh, SubExact
  <2>3. CASE ~SubFresh(sub)
    <3> DEFINE old == client[c].subs[s]
    <3>1. /\ s \in DOMAIN client[c].subs /\ k = old.store /\ sub.eventIndex \in Nat
          /\ CacheMoved(c, s, sub.cache)
      BY <2>1, <2>3 DEF SubMoved
    <3>2. SubExact(s, old)
      BY <3>1, CacheParts
    <3>3. k \in DOMAIN stores /\ k \in DOMAIN stores'
      BY <3>1, <3>2 DEF SubExact, StoresGrown
    <3>4. /\ IsSequence(sub.cache)
          /\ s \in DOMAIN registry /\ registry[s].store = k /\ stores[k].evicted = 0 =>
               CacheOf(sub.cache, stores[k].events)
      BY <3>1, MovedExact
    <3>5. ASSUME s \in DOMAIN registry', registry'[s].store = k, stores'[k].evicted = 0
          PROVE  CacheOf(sub.cache, stores'[k].events)
      <4>1. s \in DOMAIN registry /\ registry[s].store = k
        BY <3>3, <3>5 DEF RegistryMoved
      <4>2. stores[k].evicted = 0 /\ BeginsWith(stores'[k].events, stores[k].events)
        BY <3>3, <3>5 DEF StoresGrown
      <4>3. IsSequence(stores[k].events) /\ IsSequence(stores'[k].events)
        BY <3>3, CacheParts DEF StoresGrown, StoreCounts
      <4>4. DOMAIN sub.cache \subseteq Nat
        <5> HIDE DEF sub
        <5> QED
          BY <3>4, LenProperties DEF IsSequence
      <4> HIDE DEF sub, k
      <4> QED
        BY <3>4, <4>1, <4>2, <4>3, <4>4, CacheGrows
    <3> QED
      BY <3>1, <3>3, <3>4, <3>5 DEF SubExact
  <2> QED
    BY <2>2, <2>3
<1>2. \A k \in DOMAIN stores' : StoreCounts(stores'[k])
  BY DEF StoresGrown
<1>3. \A s \in DOMAIN registry' : registry'[s].store \in DOMAIN stores'
  BY DEF RegistryMoved
<1>4. (/\ \A k \in DOMAIN stores : StoreCounts(stores[k])
       /\ ArchivesTyped
       /\ \A s \in DOMAIN registry : registry[s].store \in DOMAIN stores
       /\ \A c \in Clients : \A s \in DOMAIN client[c].subs : SubExact(s, client[c].subs[s]))'
  BY <1>1, <1>2, <1>3
<1>5. CacheInvariant' <=>
      (/\ \A k \in DOMAIN stores : StoreCounts(stores[k])
       /\ ArchivesTyped
       /\ \A s \in DOMAIN registry : registry[s].store \in DOMAIN stores
       /\ \A c \in Clients : \A s \in DOMAIN client[c].subs : SubExact(s, client[c].subs[s]))'
  BY DEF CacheInvariant, StoreCounts, ArchivesTyped, SubExact, Subs, SubOf
<1> QED
  BY <1>4, <1>5

-----------------------------------------------------------------------------
(* The parts a step leaves alone.                                          *)

\* Events begin with themselves.
LEMMA SameEvents ==
  ASSUME NEW e, IsSequence(e)
  PROVE  BeginsWith(e, e)
<1>1. Len(e) \in Nat
  BY LenProperties DEF IsSequence
<1> QED
  BY <1>1 DEF BeginsWith

\* Stores that changed at most in whom they tell.
LEMMA StoresSame ==
  ASSUME CacheInvariant, DOMAIN stores' = DOMAIN stores,
         \A k \in DOMAIN stores :
           /\ stores'[k].events = stores[k].events /\ stores'[k].count = stores[k].count
           /\ stores'[k].evicted = stores[k].evicted
  PROVE  StoresGrown
<1>1. \A k \in DOMAIN stores : StoreCounts(stores[k])
  BY CacheParts
<1> QED
  BY <1>1, SameEvents DEF StoresGrown, StoreCounts

\* A client whose subscriptions are those it had, or fewer.
LEMMA KeptMoved ==
  ASSUME CacheInvariant, NEW c \in Clients, NEW s \in DOMAIN client[c].subs
  PROVE  SubMoved(c, s, client[c].subs[s])
<1>1. SubExact(s, client[c].subs[s])
  BY CacheParts
<1> QED
  BY <1>1 DEF SubMoved, CacheMoved, SubExact

\* What a step leaves alone has not moved.
LEMMA CacheFrame ==
  ASSUME CacheInvariant
  PROVE  /\ UNCHANGED stores => StoresGrown
         /\ UNCHANGED <<stores, registry>> => RegistryMoved
         /\ UNCHANGED archives => ArchivesTyped'
         /\ UNCHANGED client => ClientsMoved
<1>1. UNCHANGED stores => StoresGrown
  BY StoresSame
<1>2. UNCHANGED <<stores, registry>> => RegistryMoved
  BY CacheParts DEF RegistryMoved
<1>3. UNCHANGED archives => ArchivesTyped'
  BY CacheParts DEF ArchivesTyped
<1>4. UNCHANGED client => ClientsMoved
  BY KeptMoved DEF ClientsMoved
<1> QED
  BY <1>1, <1>2, <1>3, <1>4

\* Sessions that stay with the store they had.
LEMMA RegistrySame ==
  ASSUME CacheInvariant, DOMAIN stores' = DOMAIN stores, DOMAIN registry' \subseteq DOMAIN registry,
         \A s \in DOMAIN registry' : registry'[s].store = registry[s].store
  PROVE  RegistryMoved
<1>1. \A s \in DOMAIN registry : registry[s].store \in DOMAIN stores
  BY CacheParts
<1> QED
  BY <1>1 DEF RegistryMoved

-----------------------------------------------------------------------------
(* A client's record after one subscription was moved.                     *)

\* q is r with its subscription to s at index, with this cache.
MovedTo(r, q, s, index, cache) ==
  /\ IsClient(q)
  /\ DOMAIN q.subs = DOMAIN r.subs
  /\ q.subs[s].store = r.subs[s].store /\ q.subs[s].eventIndex = index /\ q.subs[s].cache = cache
  /\ \A t \in DOMAIN r.subs : t # s => q.subs[t] = r.subs[t]

\* Moves of the same subscription compose.
LEMMA MovedAgain ==
  ASSUME NEW r, NEW q, NEW z, NEW s, NEW i, NEW a, NEW j, NEW b,
         MovedTo(r, q, s, i, a), MovedTo(q, z, s, j, b)
  PROVE  MovedTo(r, z, s, j, b)
BY DEF MovedTo

\* Writing a field of a subscription.
LEMMA FieldWritten ==
  ASSUME NEW sub, IsSubscription(sub), NEW x
  PROVE  /\ LET q == [sub EXCEPT !.eventIndex = x]
            IN q.store = sub.store /\ q.eventIndex = x /\ q.cache = sub.cache
         /\ LET q == [sub EXCEPT !.cache = x]
            IN q.store = sub.store /\ q.eventIndex = sub.eventIndex /\ q.cache = x
         /\ LET q == [sub EXCEPT !.missed = x]
            IN q.store = sub.store /\ q.eventIndex = sub.eventIndex /\ q.cache = sub.cache
         /\ LET q == [sub EXCEPT !.paused = x]
            IN q.store = sub.store /\ q.eventIndex = sub.eventIndex /\ q.cache = sub.cache
         /\ LET q == [sub EXCEPT !.filter = x]
            IN q.store = sub.store /\ q.eventIndex = sub.eventIndex /\ q.cache = sub.cache
         /\ LET q == [sub EXCEPT !.breakpoints = x]
            IN q.store = sub.store /\ q.eventIndex = sub.eventIndex /\ q.cache = sub.cache
BY DEF IsSubscription

\* Writing the whole subscription.
LEMMA SubWritten ==
  ASSUME NEW r, IsClient(r), NEW s \in DOMAIN r.subs, NEW sub, IsSubscription(sub),
         sub.store = r.subs[s].store
  PROVE  MovedTo(r, [r EXCEPT !.subs[s] = sub], s, sub.eventIndex, sub.cache)
<1> DEFINE q == [r EXCEPT !.subs[s] = sub]
<1>1. IsClient(q) /\ q.up = r.up /\ q.subs = [r.subs EXCEPT ![s] = sub]
  BY ClientSub
<1> HIDE DEF q
<1>2. MovedTo(r, q, s, sub.eventIndex, sub.cache)
  BY <1>1 DEF MovedTo
<1> QED
  BY <1>2 DEF q

\* Writing one field of a client's subscription.
LEMMA OneFieldMoves ==
  ASSUME NEW r, IsClient(r), NEW s \in DOMAIN r.subs, NEW x
  PROVE  /\ MovedTo(r, [r EXCEPT !.subs[s].eventIndex = x], s, x, r.subs[s].cache)
         /\ MovedTo(r, [r EXCEPT !.subs[s].cache = x], s, r.subs[s].eventIndex, x)
         /\ MovedTo(r, [r EXCEPT !.subs[s].missed = x], s, r.subs[s].eventIndex, r.subs[s].cache)
         /\ MovedTo(r, [r EXCEPT !.subs[s].paused = x], s, r.subs[s].eventIndex, r.subs[s].cache)
<1>1. IsSubscription(r.subs[s])
  BY DEF IsClient
<1>2. MovedTo(r, [r EXCEPT !.subs[s].eventIndex = x], s, x, r.subs[s].cache)
  <2> DEFINE sub == [r.subs[s] EXCEPT !.eventIndex = x]
  <2>1. [r EXCEPT !.subs[s].eventIndex = x] = [r EXCEPT !.subs[s] = sub]
    OBVIOUS
  <2>2. IsSubscription(sub) /\ sub.store = r.subs[s].store /\ sub.eventIndex = x /\ sub.cache = r.subs[s].cache
    <3>1. IsSubscription(sub)
      BY <1>1, SubscriptionField
    <3>2. sub.store = r.subs[s].store /\ sub.eventIndex = x /\ sub.cache = r.subs[s].cache
      BY <1>1, FieldWritten
    <3> QED
      BY <3>1, <3>2
  <2> HIDE DEF sub
  <2>3. MovedTo(r, [r EXCEPT !.subs[s] = sub], s, sub.eventIndex, sub.cache)
    BY <2>2, SubWritten
  <2> QED
    BY <2>1, <2>2, <2>3, Zenon
<1>3. MovedTo(r, [r EXCEPT !.subs[s].cache = x], s, r.subs[s].eventIndex, x)
  <2> DEFINE sub == [r.subs[s] EXCEPT !.cache = x]
  <2>1. [r EXCEPT !.subs[s].cache = x] = [r EXCEPT !.subs[s] = sub]
    OBVIOUS
  <2>2. IsSubscription(sub) /\ sub.store = r.subs[s].store /\ sub.eventIndex = r.subs[s].eventIndex /\ sub.cache = x
    <3>1. IsSubscription(sub)
      BY <1>1, SubscriptionField
    <3>2. sub.store = r.subs[s].store /\ sub.eventIndex = r.subs[s].eventIndex /\ sub.cache = x
      BY <1>1, FieldWritten
    <3> QED
      BY <3>1, <3>2
  <2> HIDE DEF sub
  <2>3. MovedTo(r, [r EXCEPT !.subs[s] = sub], s, sub.eventIndex, sub.cache)
    BY <2>2, SubWritten
  <2> QED
    BY <2>1, <2>2, <2>3, Zenon
<1>4. MovedTo(r, [r EXCEPT !.subs[s].missed = x], s, r.subs[s].eventIndex, r.subs[s].cache)
  <2> DEFINE sub == [r.subs[s] EXCEPT !.missed = x]
  <2>1. [r EXCEPT !.subs[s].missed = x] = [r EXCEPT !.subs[s] = sub]
    OBVIOUS
  <2>2. /\ IsSubscription(sub) /\ sub.store = r.subs[s].store
        /\ sub.eventIndex = r.subs[s].eventIndex /\ sub.cache = r.subs[s].cache
    <3>1. IsSubscription(sub)
      BY <1>1, SubscriptionField
    <3>2. sub.store = r.subs[s].store /\ sub.eventIndex = r.subs[s].eventIndex /\ sub.cache = r.subs[s].cache
      BY <1>1, FieldWritten
    <3> QED
      BY <3>1, <3>2
  <2> HIDE DEF sub
  <2>3. MovedTo(r, [r EXCEPT !.subs[s] = sub], s, sub.eventIndex, sub.cache)
    BY <2>2, SubWritten
  <2> QED
    BY <2>1, <2>2, <2>3, Zenon
<1>5. MovedTo(r, [r EXCEPT !.subs[s].paused = x], s, r.subs[s].eventIndex, r.subs[s].cache)
  <2> DEFINE sub == [r.subs[s] EXCEPT !.paused = x]
  <2>1. [r EXCEPT !.subs[s].paused = x] = [r EXCEPT !.subs[s] = sub]
    OBVIOUS
  <2>2. /\ IsSubscription(sub) /\ sub.store = r.subs[s].store
        /\ sub.eventIndex = r.subs[s].eventIndex /\ sub.cache = r.subs[s].cache
    <3>1. IsSubscription(sub)
      BY <1>1, SubscriptionField
    <3>2. sub.store = r.subs[s].store /\ sub.eventIndex = r.subs[s].eventIndex /\ sub.cache = r.subs[s].cache
      BY <1>1, FieldWritten
    <3> QED
      BY <3>1, <3>2
  <2> HIDE DEF sub
  <2>3. MovedTo(r, [r EXCEPT !.subs[s] = sub], s, sub.eventIndex, sub.cache)
    BY <2>2, SubWritten
  <2> QED
    BY <2>1, <2>2, <2>3, Zenon
<1> QED
  BY <1>2, <1>3, <1>4, <1>5

\* Seeking, stepping and a hit breakpoint: the fields written together.
LEMMA FieldsMove ==
  ASSUME NEW r, IsClient(r), NEW s \in DOMAIN r.subs, NEW index, NEW cache, NEW x
  PROVE  /\ MovedTo(r, [r EXCEPT !.subs[s].eventIndex = index, !.subs[s].missed = TRUE],
                    s, index, r.subs[s].cache)
         /\ MovedTo(r, [r EXCEPT !.subs[s].paused = TRUE, !.subs[s].missed = TRUE],
                    s, r.subs[s].eventIndex, r.subs[s].cache)
         /\ MovedTo(r, [r EXCEPT !.subs[s].eventIndex = index, !.subs[s].cache = cache,
                                 !.subs[s].missed = TRUE, !.shown = x], s, index, cache)
<1>1. ASSUME NEW q, NEW i, NEW a, MovedTo(r, q, s, i, a)
      PROVE  IsClient(q) /\ s \in DOMAIN q.subs /\ q.subs[s].eventIndex = i /\ q.subs[s].cache = a
  BY <1>1 DEF MovedTo
<1>2. ASSUME NEW q, NEW i, NEW a, MovedTo(r, q, s, i, a)
      PROVE  MovedTo(r, [q EXCEPT !.subs[s].missed = TRUE], s, i, a)
  <2>1. MovedTo(q, [q EXCEPT !.subs[s].missed = TRUE], s, q.subs[s].eventIndex, q.subs[s].cache)
    BY <1>1, <1>2, OneFieldMoves, Zenon
  <2>2. MovedTo(q, [q EXCEPT !.subs[s].missed = TRUE], s, i, a)
    BY <1>1, <1>2, <2>1, Zenon
  <2> QED
    BY <1>2, <2>2, MovedAgain, Zenon
<1>3. MovedTo(r, [r EXCEPT !.subs[s].eventIndex = index, !.subs[s].missed = TRUE],
              s, index, r.subs[s].cache)
  <2> DEFINE q == [r EXCEPT !.subs[s].eventIndex = index]
  <2>1. MovedTo(r, q, s, index, r.subs[s].cache)
    BY OneFieldMoves
  <2>2. [r EXCEPT !.subs[s].eventIndex = index, !.subs[s].missed = TRUE]
          = [q EXCEPT !.subs[s].missed = TRUE]
    OBVIOUS
  <2> HIDE DEF q
  <2> QED
    BY <1>2, <2>1, <2>2, Zenon
<1>4. MovedTo(r, [r EXCEPT !.subs[s].paused = TRUE, !.subs[s].missed = TRUE],
              s, r.subs[s].eventIndex, r.subs[s].cache)
  <2> DEFINE q == [r EXCEPT !.subs[s].paused = TRUE]
  <2>1. MovedTo(r, q, s, r.subs[s].eventIndex, r.subs[s].cache)
    BY OneFieldMoves, Zenon
  <2>2. [r EXCEPT !.subs[s].paused = TRUE, !.subs[s].missed = TRUE]
          = [q EXCEPT !.subs[s].missed = TRUE]
    OBVIOUS
  <2> HIDE DEF q
  <2> QED
    BY <1>2, <2>1, <2>2, Zenon
<1>5. MovedTo(r, [r EXCEPT !.subs[s].eventIndex = index, !.subs[s].cache = cache,
                           !.subs[s].missed = TRUE, !.shown = x], s, index, cache)
  <2> DEFINE r1 == [r EXCEPT !.subs[s].eventIndex = index]
             r2 == [r1 EXCEPT !.subs[s].cache = cache]
             r3 == [r2 EXCEPT !.subs[s].missed = TRUE]
             r4 == [r3 EXCEPT !.shown = x]
  <2>1. [r EXCEPT !.subs[s].eventIndex = index, !.subs[s].cache = cache,
                  !.subs[s].missed = TRUE, !.shown = x] = r4
    OBVIOUS
  <2>2. MovedTo(r, r1, s, index, r.subs[s].cache)
    BY OneFieldMoves
  <2> HIDE DEF r1
  <2>8. IsClient(r1) /\ s \in DOMAIN r1.subs /\ r1.subs[s].eventIndex = index
    BY <1>1, <2>2, Zenon
  <2>9. MovedTo(r1, r2, s, r1.subs[s].eventIndex, cache)
    BY <2>8, OneFieldMoves, Zenon
  <2> HIDE DEF r2
  <2>3. MovedTo(r1, r2, s, index, cache)
    BY <2>8, <2>9, Zenon
  <2>4. MovedTo(r, r2, s, index, cache)
    BY <2>2, <2>3, MovedAgain
  <2>5. MovedTo(r, r3, s, index, cache)
    BY <1>2, <2>4, Zenon
  <2> HIDE DEF r3
  <2>10. IsClient(r3)
    BY <1>1, <2>5, Zenon
  <2>6. IsClient(r4) /\ r4.subs = r3.subs
    BY <2>10, ClientFields
  <2> HIDE DEF r4
  <2>7. MovedTo(r, r4, s, index, cache)
    BY <2>5, <2>6 DEF MovedTo
  <2> QED
    BY <2>1, <2>7, Zenon
<1> QED
  BY <1>3, <1>4, <1>5

-----------------------------------------------------------------------------
(* Steps that change only what is kept of a client.                        *)

\* q is client c's record with its subscriptions, or with one of them moved.
RecordMoved(c, q) ==
  \/ q.subs = client[c].subs
  \/ \E s \in DOMAIN client[c].subs, index \in Nat :
       MovedTo(client[c], q, s, index, q.subs[s].cache) /\ CacheMoved(c, s, q.subs[s].cache)

\* A record with one subscription moved, its cache kept or extended.
LEMMA MovedRecord ==
  ASSUME NEW c, NEW s \in DOMAIN client[c].subs, NEW q, NEW index \in Nat, NEW cache,
         MovedTo(client[c], q, s, index, cache), CacheMoved(c, s, cache)
  PROVE  RecordMoved(c, q)
<1>1. q.subs[s].cache = cache
  BY DEF MovedTo
<1> QED
  BY <1>1 DEF RecordMoved

\* Each subscription of such a record has moved as a step may move it.
LEMMA RecordSubs ==
  ASSUME CacheInvariant, NEW c \in Clients, NEW q, RecordMoved(c, q), NEW t \in DOMAIN q.subs
  PROVE  SubMoved(c, t, q.subs[t])
<1>1. CASE q.subs = client[c].subs
  BY <1>1, KeptMoved
<1>2. CASE q.subs # client[c].subs
  <2>1. PICK s \in DOMAIN client[c].subs, index \in Nat :
          MovedTo(client[c], q, s, index, q.subs[s].cache) /\ CacheMoved(c, s, q.subs[s].cache)
    BY <1>2 DEF RecordMoved
  <2>2. CASE t = s
    BY <2>1, <2>2 DEF MovedTo, SubMoved
  <2>3. CASE t # s
    <3>1. t \in DOMAIN client[c].subs /\ q.subs[t] = client[c].subs[t]
      BY <2>1, <2>3 DEF MovedTo
    <3> QED
      BY <3>1, KeptMoved
  <2> QED
    BY <2>2, <2>3
<1> QED
  BY <1>1, <1>2

\* A command that changes only what is kept of its client.
LEMMA OnlyClientMoves ==
  ASSUME ServerInvariant, CacheInvariant, NEW c \in Clients, NEW next, RecordMoved(c, next),
         OnlyClient(c, next)
  PROVE  CacheInvariant'
<1>1. /\ client' = [client EXCEPT ![c] = next] /\ client = [d \in Clients |-> client[d]]
      /\ UNCHANGED <<stores, registry, archives>>
  BY DEF OnlyClient, ServerInvariant, ClientsTyped
<1>2. ClientsMoved
  <2> SUFFICES ASSUME NEW d \in Clients, NEW s \in DOMAIN client'[d].subs
               PROVE  SubMoved(d, s, client'[d].subs[s])
    BY DEF ClientsMoved
  <2>1. CASE d = c
    <3>1. client'[d] = next
      BY <1>1, <2>1
    <3> QED
      BY <2>1, <3>1, RecordSubs
  <2>2. CASE d # c
    <3>1. client'[d] = client[d]
      BY <1>1, <2>2
    <3> QED
      BY <3>1, KeptMoved
  <2> QED
    BY <2>1, <2>2
<1> QED
  BY <1>1, <1>2, CacheFrame, CacheStep

\* A setter keeps the position and the cache of the subscription.
LEMMA SettingMoves ==
  ASSUME ServerInvariant, CacheInvariant, NEW c \in Clients, NEW s, NEW next, Setting(c, s, next),
         HasSub(c, s) => /\ IsSubscription(next) /\ next.store = SubOf(c, s).store
                         /\ next.eventIndex = SubOf(c, s).eventIndex /\ next.cache = SubOf(c, s).cache
  PROVE  CacheInvariant'
<1>1. CASE HasSub(c, s)
  <2> DEFINE q == [client[c] EXCEPT !.subs[s] = next]
  <2>1. IsClient(client[c]) /\ s \in DOMAIN client[c].subs
    BY <1>1 DEF ServerInvariant, ClientsTyped, HasSub, Subs
  <2>2. MovedTo(client[c], q, s, next.eventIndex, next.cache)
    BY <1>1, <2>1, SubWritten DEF SubOf, Subs
  <2>3. next.eventIndex \in Nat /\ CacheMoved(c, s, next.cache)
    BY <1>1, <2>1, CacheParts DEF SubExact, SubOf, Subs, CacheMoved
  <2>4. OnlyClient(c, q)
    BY <1>1 DEF Setting
  <2> HIDE DEF q
  <2>5. RecordMoved(c, q)
    BY <2>1, <2>2, <2>3, MovedRecord
  <2> QED
    BY <2>4, <2>5, OnlyClientMoves
<1>2. CASE ~HasSub(c, s)
  <2>1. OnlyClient(c, client[c]) /\ RecordMoved(c, client[c])
    BY <1>2 DEF Setting, RecordMoved
  <2> QED
    BY <2>1, OnlyClientMoves
<1> QED
  BY <1>1, <1>2

\* Two fields of a subscription written together.
LEMMA TwoFields ==
  ASSUME NEW sub, IsSubscription(sub), NEW f
  PROVE  /\ LET q == [sub EXCEPT !.paused = TRUE, !.missed = TRUE]
            IN q.store = sub.store /\ q.eventIndex = sub.eventIndex /\ q.cache = sub.cache
         /\ LET q == [sub EXCEPT !.filter = f, !.missed = TRUE]
            IN q.store = sub.store /\ q.eventIndex = sub.eventIndex /\ q.cache = sub.cache
         /\ LET q == [sub EXCEPT !.paused = FALSE]
            IN q.store = sub.store /\ q.eventIndex = sub.eventIndex /\ q.cache = sub.cache
<1>1. ASSUME NEW x, NEW y
      PROVE  /\ LET q == [[sub EXCEPT !.paused = x] EXCEPT !.missed = y]
                IN q.store = sub.store /\ q.eventIndex = sub.eventIndex /\ q.cache = sub.cache
             /\ LET q == [[sub EXCEPT !.filter = x] EXCEPT !.missed = y]
                IN q.store = sub.store /\ q.eventIndex = sub.eventIndex /\ q.cache = sub.cache
  <2> DEFINE a == [sub EXCEPT !.paused = x]
             b == [sub EXCEPT !.filter = x]
  <2>1. /\ IsSubscription(a) /\ IsSubscription(b)
    BY SubscriptionField
  <2>2. /\ a.store = sub.store /\ a.eventIndex = sub.eventIndex /\ a.cache = sub.cache
        /\ b.store = sub.store /\ b.eventIndex = sub.eventIndex /\ b.cache = sub.cache
    BY FieldWritten
  <2> HIDE DEF a, b
  <2>3. /\ LET q == [a EXCEPT !.missed = y]
           IN q.store = sub.store /\ q.eventIndex = sub.eventIndex /\ q.cache = sub.cache
        /\ LET q == [b EXCEPT !.missed = y]
           IN q.store = sub.store /\ q.eventIndex = sub.eventIndex /\ q.cache = sub.cache
    BY <2>1, <2>2, FieldWritten
  <2> QED
    BY <2>3 DEF a, b
<1>2. /\ [sub EXCEPT !.paused = TRUE, !.missed = TRUE] = [[sub EXCEPT !.paused = TRUE] EXCEPT !.missed = TRUE]
      /\ [sub EXCEPT !.filter = f, !.missed = TRUE] = [[sub EXCEPT !.filter = f] EXCEPT !.missed = TRUE]
  OBVIOUS
<1>3. LET q == [sub EXCEPT !.paused = FALSE]
      IN q.store = sub.store /\ q.eventIndex = sub.eventIndex /\ q.cache = sub.cache
  BY FieldWritten, Zenon
<1>4. LET q == [[sub EXCEPT !.paused = TRUE] EXCEPT !.missed = TRUE]
      IN q.store = sub.store /\ q.eventIndex = sub.eventIndex /\ q.cache = sub.cache
  BY <1>1, Zenon
<1>5. LET q == [[sub EXCEPT !.filter = f] EXCEPT !.missed = TRUE]
      IN q.store = sub.store /\ q.eventIndex = sub.eventIndex /\ q.cache = sub.cache
  BY <1>1, Zenon
<1> QED
  BY <1>2, <1>3, <1>4, <1>5, Zenon

\* Pause, resume, filters and breakpoints.
LEMMA SettersKeep ==
  ASSUME ServerInvariant, CacheInvariant, NEW c \in Clients, NEW s,
         \/ handlePause(c, s) \/ handleResume(c, s) \/ handleSetFilter(c, s)
         \/ handleSetBreakpoint(c, s) \/ handleClearBreakpoint(c, s)
  PROVE  CacheInvariant'
<1> DEFINE sub == SubOf(c, s)
           Same(q) == /\ IsSubscription(q) /\ q.store = sub.store
                      /\ q.eventIndex = sub.eventIndex /\ q.cache = sub.cache
<1>1. HasSub(c, s) => IsSubscription(sub)
  BY DEF ServerInvariant, ClientsTyped, IsClient, HasSub, SubOf, Subs
<1>2. ASSUME NEW next, Setting(c, s, next), HasSub(c, s) => Same(next)
      PROVE  CacheInvariant'
  BY <1>2, SettingMoves
<1>3. CASE handlePause(c, s)
  <2> DEFINE next == [sub EXCEPT !.paused = TRUE, !.missed = TRUE]
  <2>1. ASSUME HasSub(c, s) PROVE Same(next)
    <3> HIDE DEF sub
    <3>1. IsSubscription(next)
      BY <1>1, <2>1, SubscriptionFields, Zenon
    <3>2. next.store = sub.store /\ next.eventIndex = sub.eventIndex /\ next.cache = sub.cache
      BY <1>1, <2>1, TwoFields, Zenon
    <3> QED
      BY <3>1, <3>2, Zenon
  <2>2. Setting(c, s, next)
    BY <1>3 DEF handlePause
  <2> HIDE DEF next, Same
  <2> QED
    BY <1>2, <2>1, <2>2, Zenon
<1>4. CASE handleResume(c, s)
  <2> DEFINE next == [sub EXCEPT !.paused = FALSE]
  <2>1. ASSUME HasSub(c, s) PROVE Same(next)
    <3> HIDE DEF sub
    <3>1. IsSubscription(next)
      BY <1>1, <2>1, SubscriptionField, Zenon
    <3>2. next.store = sub.store /\ next.eventIndex = sub.eventIndex /\ next.cache = sub.cache
      BY <1>1, <2>1, TwoFields, Zenon
    <3> QED
      BY <3>1, <3>2, Zenon
  <2>2. Setting(c, s, next)
    BY <1>4 DEF handleResume
  <2> HIDE DEF next, Same
  <2> QED
    BY <1>2, <2>1, <2>2, Zenon
<1>5. CASE handleSetFilter(c, s)
  <2>1. PICK f \in Filters : Setting(c, s, [sub EXCEPT !.filter = f, !.missed = TRUE])
    BY <1>5 DEF handleSetFilter
  <2> DEFINE next == [sub EXCEPT !.filter = f, !.missed = TRUE]
  <2>2. ASSUME HasSub(c, s) PROVE Same(next)
    <3> HIDE DEF sub
    <3>1. IsSubscription(next)
      BY <1>1, <2>2, SubscriptionFields, Zenon
    <3>2. next.store = sub.store /\ next.eventIndex = sub.eventIndex /\ next.cache = sub.cache
      BY <1>1, <2>2, TwoFields, Zenon
    <3> QED
      BY <3>1, <3>2, Zenon
  <2> HIDE DEF next, Same
  <2> QED
    BY <1>2, <2>1, <2>2, Zenon DEF next
<1>6. ASSUME NEW x, Setting(c, s, [sub EXCEPT !.breakpoints = x])
      PROVE  CacheInvariant'
  <2> DEFINE next == [sub EXCEPT !.breakpoints = x]
  <2>1. ASSUME HasSub(c, s) PROVE Same(next)
    <3> HIDE DEF sub
    <3>1. IsSubscription(next)
      BY <1>1, <2>1, SubscriptionField, Zenon
    <3>2. next.store = sub.store /\ next.eventIndex = sub.eventIndex /\ next.cache = sub.cache
      BY <1>1, <2>1, FieldWritten, Zenon
    <3> QED
      BY <3>1, <3>2, Zenon
  <2> HIDE DEF next, Same
  <2> QED
    BY <1>2, <1>6, <2>1, Zenon DEF next
<1>7. CASE handleSetBreakpoint(c, s)
  BY <1>6, <1>7 DEF handleSetBreakpoint
<1>8. CASE handleClearBreakpoint(c, s)
  BY <1>6, <1>8 DEF handleClearBreakpoint
<1> QED
  BY <1>3, <1>4, <1>5, <1>7, <1>8

\* The index of a seek is a natural number.
LEMMA MinOfTwo ==
  ASSUME NEW a \in Nat, NEW b \in Nat
  PROVE  Min({a, b}) \in Nat
<1>1. \E x \in {a, b} : \A y \in {a, b} : x <= y
  OBVIOUS
<1>2. Min({a, b}) \in {a, b}
  BY <1>1 DEF Min
<1> QED
  BY <1>2

\* Seeking and stepping move the index, and extend the cache over the session's events.
LEMMA MovesKeep ==
  ASSUME ServerInvariant, CacheInvariant, NEW c \in Clients, NEW s,
         \/ handleSeek(c, s) \/ handleStepForward(c, s) \/ handleStepBackward(c, s)
         \/ handleListSessions(c) \/ handleQueries(c)
  PROVE  CacheInvariant'
<1>1. IsClient(client[c]) /\ RecordMoved(c, client[c])
  BY DEF ServerInvariant, ClientsTyped, RecordMoved
<1>2. ASSUME NEW next, RecordMoved(c, next), OnlyClient(c, next)
      PROVE  CacheInvariant'
  BY <1>2, OnlyClientMoves
<1>3. ASSUME SessionNotFound(c, s) PROVE CacheInvariant'
  BY <1>1, <1>2, <1>3 DEF SessionNotFound
<1>4. \A x : /\ RecordMoved(c, [client[c] EXCEPT !.shown = x])
             /\ RecordMoved(c, [client[c] EXCEPT !.list = x])
  BY <1>1, ClientFields DEF RecordMoved
<1>5. HasSub(c, s) => s \in DOMAIN client[c].subs /\ SubOf(c, s).eventIndex \in Nat
  BY CacheParts DEF HasSub, Subs, SubOf, SubExact
<1>6. s \in DOMAIN registry => StoreCounts(stores[registry[s].store])
  BY CacheParts
<1>7. ASSUME s \in DOMAIN registry, NEW index \in Nat, ShowStateAt(c, s, index) PROVE CacheInvariant'
  <2>1. CASE HasSub(c, s)
    <3> DEFINE events == stores[registry[s].store].events
               cache == ensureCachedUpTo(client[c].subs[s].cache, events, index)
               x == With(client[c].shown, s, computeAt(cache, events, index))
               q == [client[c] EXCEPT !.subs[s].eventIndex = index, !.subs[s].cache = cache,
                                      !.subs[s].missed = TRUE, !.shown = x]
    <3>1. OnlyClient(c, q)
      BY <1>7, <2>1 DEF ShowStateAt, SubOf, Subs
    <3>2. s \in DOMAIN client[c].subs
      BY <1>5, <2>1
    <3>3. CacheMoved(c, s, cache)
      BY <1>7 DEF CacheMoved
    <3> HIDE DEF cache, x
    <3>4. MovedTo(client[c], q, s, index, cache)
      BY <1>1, <3>2, FieldsMove, Zenon
    <3> HIDE DEF q
    <3>5. RecordMoved(c, q)
      BY <3>2, <3>3, <3>4, MovedRecord
    <3> QED
      BY <1>2, <3>1, <3>5
  <2>2. CASE ~HasSub(c, s)
    BY <1>2, <1>4, <1>7, <2>2 DEF ShowStateAt
  <2> QED
    BY <2>1, <2>2
<1>8. CASE handleSeek(c, s)
  <2>1. CASE SessionNotFound(c, s)
    BY <1>3, <2>1
  <2>2. CASE ~SessionNotFound(c, s)
    <3> DEFINE st == stores[registry[s].store]
    <3>1. s \in DOMAIN registry
      BY <1>8, <2>2, Zenon DEF handleSeek
    <3>2. PICK ts \in 1..(st.count + 1) :
            ShowStateAt(c, s, IF ts <= st.evicted THEN 0 ELSE Min({ts - st.evicted - 1, Len(st.events)}))
      BY <1>8, <2>2 DEF handleSeek
    <3>3. st.count \in Nat /\ st.evicted \in Nat /\ Len(st.events) \in Nat
      BY <1>6, <3>1, LenProperties DEF StoreCounts, IsSequence
    <3> HIDE DEF st
    <3>4. (IF ts <= st.evicted THEN 0 ELSE Min({ts - st.evicted - 1, Len(st.events)})) \in Nat
      <4>1. CASE ts <= st.evicted
        BY <4>1
      <4>2. CASE ~(ts <= st.evicted)
        <5>1. ts - st.evicted - 1 \in Nat
          BY <3>2, <3>3, <4>2
        <5>2. Min({ts - st.evicted - 1, Len(st.events)}) \in Nat
          BY <3>3, <5>1, MinOfTwo
        <5> QED
          BY <4>2, <5>2, Zenon
      <4> QED
        BY <4>1, <4>2
    <3> QED
      BY <1>7, <3>1, <3>2, <3>4
  <2> QED
    BY <2>1, <2>2
<1>9. CASE handleStepForward(c, s)
  <2>1. CASE SessionNotFound(c, s)
    BY <1>3, <2>1
  <2>2. CASE ~SessionNotFound(c, s)
    <3> DEFINE here == IF HasSub(c, s) THEN SubOf(c, s).eventIndex ELSE 0
               seen == IF s \in DOMAIN client[c].shown
                       THEN With(client[c].shown, s, applyEventToState(client[c].shown[s],
                                                       stores[registry[s].store].events[here + 1]))
                       ELSE client[c].shown
               q == [client[c] EXCEPT !.shown = seen]
               z == [q EXCEPT !.subs[s].eventIndex = here + 1, !.subs[s].missed = TRUE]
    <3>0. OnlyClient(c, IF here >= Len(stores[registry[s].store].events) THEN client[c]
                        ELSE IF HasSub(c, s) THEN z ELSE q)
      BY <1>9, <2>2 DEF handleStepForward
    <3>1. here \in Nat
      BY <1>5
    <3> HIDE DEF seen, here
    <3>2. RecordMoved(c, q) /\ IsClient(q) /\ q.subs = client[c].subs
      BY <1>1, <1>4, ClientFields
    <3>3. \/ OnlyClient(c, client[c])
          \/ HasSub(c, s) /\ OnlyClient(c, z)
          \/ OnlyClient(c, q)
      <4> HIDE DEF q, z
      <4> QED
        BY <3>0
    <3> HIDE DEF q
    <3>4. CASE HasSub(c, s) /\ OnlyClient(c, z)
      <4>1. s \in DOMAIN q.subs /\ s \in DOMAIN client[c].subs
        BY <1>5, <3>2, <3>4
      <4>2. PICK n \in Nat : n = here + 1
        BY <3>1
      <4>3. MovedTo(q, z, s, n, q.subs[s].cache)
        BY <3>2, <4>1, <4>2, FieldsMove, Zenon
      <4> HIDE DEF z
      <4>4. MovedTo(client[c], z, s, n, client[c].subs[s].cache)
        BY <3>2, <4>3 DEF MovedTo
      <4>5. RecordMoved(c, z)
        BY <4>1, <4>2, <4>4, MovedRecord DEF CacheMoved
      <4> QED
        BY <1>2, <3>4, <4>5
    <3> QED
      BY <1>1, <1>2, <3>2, <3>3, <3>4
  <2> QED
    BY <2>1, <2>2
<1>10. CASE handleStepBackward(c, s)
  <2>1. CASE SessionNotFound(c, s)
    BY <1>3, <2>1
  <2>2. CASE ~SessionNotFound(c, s)
    <3> DEFINE here == IF HasSub(c, s) THEN SubOf(c, s).eventIndex ELSE 0
    <3>1. /\ s \in DOMAIN registry
          /\ IF here > 0 THEN ShowStateAt(c, s, here - 1) ELSE OnlyClient(c, client[c])
      BY <1>10, <2>2 DEF handleStepBackward
    <3>2. here \in Nat
      BY <1>5
    <3> HIDE DEF here
    <3>3. CASE here > 0
      <4>1. here - 1 \in Nat
        BY <3>2, <3>3
      <4> QED
        BY <1>7, <3>1, <3>3, <4>1
    <3> QED
      BY <1>1, <1>2, <3>1, <3>3
  <2> QED
    BY <2>1, <2>2
<1>11. CASE handleListSessions(c)
  BY <1>2, <1>4, <1>11 DEF handleListSessions
<1>12. CASE handleQueries(c)
  BY <1>1, <1>2, <1>12 DEF handleQueries
<1> QED
  BY <1>8, <1>9, <1>10, <1>11, <1>12

\* What a client makes of a broadcast event moves no cache.
LEMMA ReceiveMoves ==
  ASSUME ServerInvariant, CacheInvariant, NEW c \in Clients, NEW l, NEW e
  PROVE  RecordMoved(c, Receive(c, l, e))
<1> DEFINE s == listeners[l].session
           hit == HasSub(c, s) /\ hitsBreakpoint(SubOf(c, s), e)
           x == IF s \in DOMAIN client[c].shown
                THEN With(client[c].shown, s, applyEventToState(client[c].shown[s], e))
                ELSE client[c].shown
           y == IF s \in DOMAIN client[c].got
                THEN With(client[c].got, s, Append(client[c].got[s],
                                                   [index |-> listeners[l].next, event |-> e]))
                ELSE client[c].got
           r1 == [client[c] EXCEPT !.shown = x]
           r2 == [client[c] EXCEPT !.shown = x, !.got = y]
           r3 == [r2 EXCEPT !.subs[s].paused = TRUE, !.subs[s].missed = TRUE]
<1>1. Receive(c, l, e) = IF ~Passes(c, l, e) THEN client[c] ELSE IF hit THEN r3 ELSE r2
  BY DEF Receive
<1>2. hit => s \in DOMAIN client[c].subs
  BY DEF HasSub, Subs
<1> HIDE DEF x, y, hit, s
<1>3. IsClient(client[c])
  BY DEF ServerInvariant, ClientsTyped
<1>4. IsClient(r1) /\ r1.subs = client[c].subs
  BY <1>3, ClientFields
<1>5. r2 = [r1 EXCEPT !.got = y]
  OBVIOUS
<1> HIDE DEF r1, r2
<1>6. IsClient(r2) /\ r2.subs = client[c].subs
  <2>1. IsClient([r1 EXCEPT !.got = y]) /\ [r1 EXCEPT !.got = y].subs = r1.subs
    BY <1>4, ClientFields
  <2> QED
    BY <1>4, <1>5, <2>1, Zenon
<1>7. ASSUME hit PROVE RecordMoved(c, r3)
  <2>1. s \in DOMAIN client[c].subs /\ s \in DOMAIN r2.subs
    BY <1>2, <1>6, <1>7
  <2>2. MovedTo(r2, r3, s, r2.subs[s].eventIndex, r2.subs[s].cache)
    BY <1>6, <2>1, FieldsMove, Zenon
  <2> HIDE DEF r3
  <2>3. MovedTo(client[c], r3, s, client[c].subs[s].eventIndex, client[c].subs[s].cache)
    BY <1>6, <2>2 DEF MovedTo
  <2>4. client[c].subs[s].eventIndex \in Nat
    BY <2>1, CacheParts DEF SubExact
  <2> QED
    BY <2>1, <2>3, <2>4, MovedRecord, Zenon DEF CacheMoved
<1> HIDE DEF r3
<1>8. RecordMoved(c, client[c]) /\ RecordMoved(c, r2)
  BY <1>6 DEF RecordMoved
<1> QED
  BY <1>1, <1>7, <1>8

\* A broadcast moves no cache of any client.
LEMMA BroadcastKeeps ==
  ASSUME ServerInvariant, CacheInvariant, broadcast
  PROVE  CacheInvariant'
<1>1. ASSUME NEW c \in Clients PROVE RecordMoved(c, client'[c])
  <2>1. client'[c] = client[c] \/ \E l, e : client'[c] = Receive(c, l, e)
    BY DEF broadcast
  <2>2. \A l, e : RecordMoved(c, Receive(c, l, e))
    BY ReceiveMoves
  <2>3. RecordMoved(c, client[c])
    BY DEF RecordMoved
  <2> QED
    BY <2>1, <2>2, <2>3
<1>2. ClientsMoved
  BY <1>1, RecordSubs DEF ClientsMoved
<1> QED
  BY <1>2, CacheFrame, CacheStep DEF broadcast

-----------------------------------------------------------------------------
(* Connections and subscriptions.                                          *)

\* Telling a store of other listeners changes nothing of its events.
LEMMA SubsOnly ==
  ASSUME NEW st, IsStore(st), NEW x
  PROVE  LET q == [st EXCEPT !.subs = x]
         IN q.events = st.events /\ q.count = st.count /\ q.evicted = st.evicted
BY DEF IsStore

\* cancel() and close() leave the events alone.
LEMMA TellingOnly ==
  ASSUME StoresTyped, NEW c, NEW S
  PROVE  \A k \in DOMAIN stores :
           /\ LET q == Cancelled(stores, c, S)[k]
              IN q.events = stores[k].events /\ q.count = stores[k].count /\ q.evicted = stores[k].evicted
           /\ LET q == Closed(stores, S)[k]
              IN q.events = stores[k].events /\ q.count = stores[k].count /\ q.evicted = stores[k].evicted
<1> SUFFICES ASSUME NEW k \in DOMAIN stores
             PROVE  /\ LET q == Cancelled(stores, c, S)[k]
                       IN /\ q.events = stores[k].events /\ q.count = stores[k].count
                          /\ q.evicted = stores[k].evicted
                    /\ LET q == Closed(stores, S)[k]
                       IN /\ q.events = stores[k].events /\ q.count = stores[k].count
                          /\ q.evicted = stores[k].evicted
  BY Zenon
<1>1. IsStore(stores[k])
  BY DEF StoresTyped
<1>2. PICK x : Cancelled(stores, c, S)[k] = [stores[k] EXCEPT !.subs = x]
  BY DEF Cancelled
<1>3. PICK y : Closed(stores, S)[k] = stores[k] \/ Closed(stores, S)[k] = [stores[k] EXCEPT !.subs = y]
  BY DEF Closed
<1>4. LET q == [stores[k] EXCEPT !.subs = x]
      IN q.events = stores[k].events /\ q.count = stores[k].count /\ q.evicted = stores[k].evicted
  BY <1>1, SubsOnly
<1>5. LET q == [stores[k] EXCEPT !.subs = y]
      IN q.events = stores[k].events /\ q.count = stores[k].count /\ q.evicted = stores[k].evicted
  BY <1>1, SubsOnly
<1> QED
  BY <1>2, <1>3, <1>4, <1>5, Zenon

\* cancel() in every store: no event is touched.
LEMMA CancelGrown ==
  ASSUME ServerInvariant, CacheInvariant, NEW c, NEW S, stores' = Cancelled(stores, c, S)
  PROVE  StoresGrown /\ DOMAIN stores' = DOMAIN stores
<1>1. DOMAIN stores' = DOMAIN stores
  BY DEF Cancelled
<1>2. \A k \in DOMAIN stores :
        /\ stores'[k].events = stores[k].events /\ stores'[k].count = stores[k].count
        /\ stores'[k].evicted = stores[k].evicted
  BY TellingOnly DEF ServerInvariant
<1> QED
  BY <1>1, <1>2, StoresSame

\* A connection starts, or ends, without subscriptions.
LEMMA ConnectKeeps ==
  ASSUME ServerInvariant, CacheInvariant, NEW c \in Clients, clientConnected(c) \/ clientDisconnected(c)
  PROVE  CacheInvariant'
<1>1. PICK q : client' = [client EXCEPT ![c] = q] /\ DOMAIN q.subs = {}
  BY NewClientTyped DEF clientConnected, clientDisconnected
<1>2. client = [d \in Clients |-> client[d]]
  BY DEF ServerInvariant, ClientsTyped
<1>3. ClientsMoved
  <2> SUFFICES ASSUME NEW d \in Clients, NEW s \in DOMAIN client'[d].subs
               PROVE  SubMoved(d, s, client'[d].subs[s])
    BY DEF ClientsMoved
  <2>1. client'[d] = client[d]
    BY <1>1, <1>2
  <2> QED
    BY <2>1, KeptMoved
<1>4. StoresGrown /\ DOMAIN stores' = DOMAIN stores /\ UNCHANGED <<registry, archives>>
  BY CacheFrame, CancelGrown DEF clientConnected, clientDisconnected
<1>5. RegistryMoved
  BY <1>4, RegistrySame
<1> QED
  BY <1>3, <1>4, <1>5, CacheFrame, CacheStep

\* unsubscribe drops one cache and keeps the others.
LEMMA UnsubscribeKeeps ==
  ASSUME ServerInvariant, CacheInvariant, NEW c \in Clients, NEW s, handleUnsubscribe(c, s)
  PROVE  CacheInvariant'
<1> DEFINE f == Without(client[c].subs, {s})
           q == [client[c] EXCEPT !.subs = f]
<1>1. /\ client' = [client EXCEPT ![c] = q] /\ client = [d \in Clients |-> client[d]]
      /\ IsClient(client[c])
  BY DEF handleUnsubscribe, ServerInvariant, ClientsTyped
<1>2. /\ f = [t \in DOMAIN f |-> f[t]] /\ \A t \in DOMAIN f : IsSubscription(f[t])
      /\ \A t \in DOMAIN f : t \in DOMAIN client[c].subs /\ f[t] = client[c].subs[t]
  BY <1>1 DEF Without, IsClient
<1> HIDE DEF f
<1>3. q.subs = f
  BY <1>1, <1>2, ClientSubs
<1> HIDE DEF q
<1>4. ClientsMoved
  <2> SUFFICES ASSUME NEW d \in Clients, NEW t \in DOMAIN client'[d].subs
               PROVE  SubMoved(d, t, client'[d].subs[t])
    BY DEF ClientsMoved
  <2>1. t \in DOMAIN client[d].subs /\ client'[d].subs[t] = client[d].subs[t]
    BY <1>1, <1>2, <1>3
  <2> QED
    BY <2>1, KeptMoved
<1>5. StoresGrown /\ DOMAIN stores' = DOMAIN stores /\ UNCHANGED <<registry, archives>>
  BY CancelGrown DEF handleUnsubscribe
<1>6. RegistryMoved
  BY <1>5, RegistrySame
<1> QED
  BY <1>4, <1>5, <1>6, CacheFrame, CacheStep

\* A new subscription has no cache, and the position of the history it was sent.
LEMMA FreshSub ==
  ASSUME NEW l, NEW k, NEW n, NEW m, NEW p
  PROVE  /\ NewSubscription(l, k, n, m).store = k /\ NewSubscription(l, k, n, m).eventIndex = n
         /\ NewSubscription(l, k, n, m).cache = <<>>
         /\ [NewSubscription(l, k, n, m) EXCEPT !.paused = p].store = k
         /\ [NewSubscription(l, k, n, m) EXCEPT !.paused = p].eventIndex = n
         /\ [NewSubscription(l, k, n, m) EXCEPT !.paused = p].cache = <<>>
<1> DEFINE q == NewSubscription(l, k, n, m)
<1>1. q.store = k /\ q.eventIndex = n /\ q.cache = <<>>
  <2>1. ASSUME NEW no
        PROVE  LET sub == [listener |-> l, store |-> k, eventIndex |-> n, cache |-> <<>>,
                           breakpoints |-> {}, paused |-> no, filter |-> <<>>, missed |-> m]
               IN sub.store = k /\ sub.eventIndex = n /\ sub.cache = <<>>
    OBVIOUS
  <2> QED
    BY <2>1, Zenon DEF NewSubscription
<1>2. IsSubscription(q)
  BY NewSubscriptionTyped
<1> HIDE DEF q
<1>3. LET z == [q EXCEPT !.paused = p]
      IN z.store = q.store /\ z.eventIndex = q.eventIndex /\ z.cache = q.cache
  BY <1>2, FieldWritten
<1>4. LET z == [q EXCEPT !.paused = p]
      IN z.store = k /\ z.eventIndex = n /\ z.cache = <<>>
  BY <1>1, <1>3
<1> QED
  BY <1>1, <1>4 DEF q

\* A subscription that starts afresh, beside those the client has.
LEMMA SubscribedMoves ==
  ASSUME ServerInvariant, CacheInvariant, NEW c \in Clients, NEW s, NEW sub, NEW shown, NEW got,
         IsSubscription(sub), SubFresh(sub), SubscribedAs(c, s, sub, shown, got)
  PROVE  ClientsMoved
<1> DEFINE f == With(client[c].subs, s, sub)
           x == With(client[c].shown, s, shown)
           y == With(client[c].got, s, got)
           r1 == [client[c] EXCEPT !.subs = f]
           r2 == [r1 EXCEPT !.shown = x]
           q == [r2 EXCEPT !.got = y]
<1>1. client' = [client EXCEPT ![c] = q]
  BY DEF SubscribedAs, ServerInvariant, ClientsTyped
<1>2. IsClient(client[c]) /\ client = [d \in Clients |-> client[d]]
  BY DEF ServerInvariant, ClientsTyped
<1>3. /\ f = [t \in DOMAIN f |-> f[t]] /\ \A t \in DOMAIN f : IsSubscription(f[t])
      /\ f[s] = sub
      /\ \A t \in DOMAIN f : t # s => t \in DOMAIN client[c].subs /\ f[t] = client[c].subs[t]
  BY <1>2 DEF With, IsClient
<1> HIDE DEF f, x, y
<1>4. q.subs = f
  <2>1. IsClient(r1) /\ r1.subs = f
    BY <1>2, <1>3, ClientSubs
  <2> HIDE DEF r1
  <2>2. IsClient(r2) /\ r2.subs = r1.subs
    BY <2>1, ClientFields
  <2> HIDE DEF r2
  <2>3. q.subs = r2.subs
    BY <2>2, ClientFields
  <2> HIDE DEF q
  <2> QED
    BY <2>1, <2>2, <2>3
<1> HIDE DEF q
<1>5. client'[c] = q /\ \A d \in Clients : d # c => client'[d] = client[d]
  BY <1>1, <1>2
<1> SUFFICES ASSUME NEW d \in Clients, NEW t \in DOMAIN client'[d].subs
             PROVE  SubMoved(d, t, client'[d].subs[t])
  BY DEF ClientsMoved
<1>6. CASE d = c /\ t = s
  BY <1>3, <1>4, <1>5, <1>6 DEF SubMoved
<1>7. CASE ~(d = c /\ t = s)
  <2>1. t \in DOMAIN client[d].subs /\ client'[d].subs[t] = client[d].subs[t]
    BY <1>3, <1>4, <1>5, <1>7
  <2> QED
    BY <2>1, KeptMoved
<1> QED
  BY <1>6, <1>7

\* Subscribing, live or for a replay, starts with an empty cache.
LEMMA SubscribeKeeps ==
  ASSUME ServerInvariant, CacheInvariant, NEW c \in Clients, NEW s,
         handleSubscribeLive(c, s) \/ handleSubscribeReplay(c, s)
  PROVE  CacheInvariant'
<1> DEFINE k == registry[s].store
           n == Len(eventsFrom(stores[k], 0))
<1>1. CASE SessionNotFound(c, s)
  <2>1. RecordMoved(c, client[c])
    BY DEF RecordMoved
  <2> QED
    BY <1>1, <2>1, OnlyClientMoves DEF SessionNotFound
<1>2. CASE ~SessionNotFound(c, s)
  <2>1. s \in DOMAIN registry /\ UNCHANGED <<registry, archives>>
    BY <1>2 DEF handleSubscribeLive, handleSubscribeReplay
  <2>2. k \in DOMAIN stores /\ n \in Nat
    <3>1. k \in DOMAIN stores /\ StoreCounts(stores[k])
      BY <2>1, CacheParts
    <3>2. eventsFrom(stores[k], 0) = stores[k].events
      BY <3>1 DEF eventsFrom, StoreCounts
    <3> QED
      BY <3>1, <3>2, LenProperties DEF StoreCounts, IsSequence
  <2>3. StoresGrown /\ DOMAIN stores' = DOMAIN stores
    <3>1. CASE handleSubscribeReplay(c, s)
      BY <1>2, <3>1, CancelGrown DEF handleSubscribeReplay
    <3>2. CASE handleSubscribeLive(c, s)
      <4> DEFINE before == Cancelled(stores, c, {s})
      <4>1. PICK x : stores' = [before EXCEPT ![k] = [before[k] EXCEPT !.subs = x]]
        BY <1>2, <3>2 DEF handleSubscribeLive
      <4>2. DOMAIN before = DOMAIN stores /\ \A j \in DOMAIN stores : IsStore(before[j])
        BY CancelledSubs DEF ServerInvariant
      <4>3. \A j \in DOMAIN stores : /\ before[j].events = stores[j].events
                                     /\ before[j].count = stores[j].count
                                     /\ before[j].evicted = stores[j].evicted
        BY TellingOnly DEF ServerInvariant
      <4> HIDE DEF before, k
      <4>4. /\ [before[k] EXCEPT !.subs = x].events = before[k].events
            /\ [before[k] EXCEPT !.subs = x].count = before[k].count
            /\ [before[k] EXCEPT !.subs = x].evicted = before[k].evicted
        BY <2>2, <4>2, SubsOnly
      <4>5. DOMAIN stores' = DOMAIN stores
        BY <4>1, <4>2
      <4>6. \A j \in DOMAIN stores : /\ stores'[j].events = stores[j].events
                                     /\ stores'[j].count = stores[j].count
                                     /\ stores'[j].evicted = stores[j].evicted
        <5> DEFINE z == [before[k] EXCEPT !.subs = x]
        <5>1. \A j \in DOMAIN stores : stores'[j] = IF j = k THEN z ELSE before[j]
          BY <4>1, <4>2
        <5>2. z.events = before[k].events /\ z.count = before[k].count /\ z.evicted = before[k].evicted
          BY <4>4
        <5> HIDE DEF z
        <5> QED
          BY <4>3, <5>1, <5>2
      <4> QED
        BY <4>5, <4>6, StoresSame
    <3> QED
      BY <3>1, <3>2
  <2>4. ClientsMoved
    <3>1. CASE handleSubscribeReplay(c, s)
      <4>0. PICK yes : yes = TRUE
        OBVIOUS
      <4> DEFINE sub == [NewSubscription(None, k, n, yes) EXCEPT !.paused = yes]
      <4>1. PICK shown, got : SubscribedAs(c, s, sub, shown, got)
        <5>1. \E shown, got : SubscribedAs(c, s, [NewSubscription(None, k, n, TRUE) EXCEPT !.paused = TRUE],
                                            shown, got)
          BY <1>2, <3>1 DEF handleSubscribeReplay
        <5> QED
          BY <4>0, <5>1, Zenon
      <4> HIDE DEF k, n
      <4>2. IsSubscription(sub) /\ sub.store = k /\ sub.eventIndex = n /\ sub.cache = <<>>
        <5>1. IsSubscription(sub)
          BY <4>0, NewSubscriptionTyped, Zenon
        <5>2. sub.store = k /\ sub.eventIndex = n /\ sub.cache = <<>>
          BY FreshSub
        <5> QED
          BY <5>1, <5>2, Zenon
      <4> HIDE DEF sub
      <4> QED
        BY <2>2, <2>3, <4>1, <4>2, SubscribedMoves DEF SubFresh
    <3>2. CASE handleSubscribeLive(c, s)
      <4>1. PICK l, m, shown, got : SubscribedAs(c, s, NewSubscription(l, k, n, m), shown, got)
        BY <1>2, <3>2 DEF handleSubscribeLive
      <4> DEFINE sub == NewSubscription(l, k, n, m)
      <4> HIDE DEF k, n
      <4>2. IsSubscription(sub) /\ sub.store = k /\ sub.eventIndex = n /\ sub.cache = <<>>
        <5>1. IsSubscription(sub)
          BY NewSubscriptionTyped, Zenon
        <5>2. sub.store = k /\ sub.eventIndex = n /\ sub.cache = <<>>
          BY FreshSub
        <5> QED
          BY <5>1, <5>2, Zenon
      <4> HIDE DEF sub
      <4> QED
        BY <2>2, <2>3, <4>1, <4>2, SubscribedMoves DEF SubFresh, sub
    <3> QED
      BY <3>1, <3>2
  <2>5. RegistryMoved
    BY <2>1, <2>3, RegistrySame
  <2> QED
    BY <2>1, <2>3, <2>4, <2>5, CacheFrame, CacheStep
<1> QED
  BY <1>1, <1>2

-----------------------------------------------------------------------------
(* The registry, the stores and the archives.                              *)

\* A session that enters brings a store no session had.
LEMMA EnterMoves ==
  ASSUME ServerInvariant, CacheInvariant, NEW s, NEW r, r.store = Len(stores) + 1, NEW st,
         StoreCounts(st), Enter(s, r, st)
  PROVE  StoresGrown /\ RegistryMoved
<1> DEFINE before == Closed(stores, evicted(registry))
<1>1. stores' = Append(before, st) /\ registry' = With(Without(registry, evicted(registry)), s, r)
  BY DEF Enter
<1>2. before \in Seq(Range(before)) /\ DOMAIN before = DOMAIN stores
  BY ClosedSubs DEF ServerInvariant
<1>3. \A k \in DOMAIN stores : /\ before[k].events = stores[k].events
                               /\ before[k].count = stores[k].count
                               /\ before[k].evicted = stores[k].evicted
  BY TellingOnly DEF ServerInvariant
<1> HIDE DEF before
<1>4. Len(stores) \in Nat /\ DOMAIN stores = 1..Len(stores) /\ Len(before) = Len(stores)
  BY <1>2, LenProperties DEF ServerInvariant, StoresTyped
<1>5. /\ DOMAIN stores' = 1..(Len(stores) + 1) /\ stores'[Len(stores) + 1] = st
      /\ \A k \in DOMAIN stores : stores'[k] = before[k]
  BY <1>1, <1>2, <1>4, AppendOne
<1>6. \A k \in DOMAIN stores : StoreCounts(stores[k])
  BY CacheParts
<1>7. StoresGrown
  <2>1. \A k \in DOMAIN stores : /\ StoreCounts(stores'[k]) /\ stores'[k].evicted = stores[k].evicted
                                 /\ BeginsWith(stores'[k].events, stores[k].events)
    BY <1>3, <1>5, <1>6, SameEvents DEF StoreCounts
  <2>2. \A k \in DOMAIN stores' : k \in DOMAIN stores \/ k = Len(stores) + 1
    BY <1>4, <1>5
  <2> QED
    BY <1>4, <1>5, <2>1, <2>2 DEF StoresGrown
<1>8. RegistryMoved
  <2> SUFFICES ASSUME NEW t \in DOMAIN registry'
               PROVE  /\ registry'[t].store \in DOMAIN stores'
                      /\ registry'[t].store \in DOMAIN stores =>
                           t \in DOMAIN registry /\ registry[t].store = registry'[t].store
    BY DEF RegistryMoved
  <2>1. CASE t = s
    <3>1. registry'[t] = r
      BY <1>1, <2>1 DEF With
    <3> QED
      BY <1>4, <1>5, <3>1
  <2>2. CASE t # s
    <3>1. t \in DOMAIN registry /\ registry'[t] = registry[t]
      BY <1>1, <2>2 DEF With, Without
    <3>2. registry[t].store \in DOMAIN stores
      BY <3>1, CacheParts
    <3> QED
      BY <1>4, <1>5, <3>1, <3>2
  <2> QED
    BY <2>1, <2>2
<1> QED
  BY <1>7, <1>8

\* A new store has evicted nothing.
LEMMA NewStoreCounts ==
  ASSUME NEW events, IsSequence(events), NEW script
  PROVE  StoreCounts(NewStore(events, script))
<1>1. /\ NewStore(events, script).events = events /\ NewStore(events, script).count = Len(events)
      /\ NewStore(events, script).evicted = 0
  BY DEF NewStore
<1>2. Len(events) \in Nat
  BY LenProperties DEF IsSequence
<1> QED
  BY <1>1, <1>2 DEF StoreCounts

\* register(), complete(), remove() and tag().
LEMMA RegistryKeeps ==
  ASSUME ServerInvariant, CacheInvariant, NEW s \in SessionIds, NEW t,
         register(s, t) \/ tag(s, t) \/ complete(s) \/ remove(s)
  PROVE  CacheInvariant'
<1>1. UNCHANGED <<client, archives>>
  BY DEF register, tag, complete, remove
<1>2. ClientsMoved /\ ArchivesTyped'
  BY <1>1, CacheFrame
<1>3. CASE register(s, t)
  <2> DEFINE st == NewStore(<<>>, Scripts[(Len(stores) % Len(Scripts)) + 1])
  <2>1. PICK r : r.store = Len(stores) + 1 /\ Enter(s, r, st)
    <3>1. ASSUME NEW yes
          PROVE  [store |-> Len(stores) + 1, start |-> clock, active |-> yes, end |-> None, tag |-> t].store
                   = Len(stores) + 1
      OBVIOUS
    <3>2. Enter(s, [store |-> Len(stores) + 1, start |-> clock, active |-> TRUE, end |-> None, tag |-> t], st)
      BY <1>3 DEF register
    <3> HIDE DEF st
    <3> QED
      BY <3>1, <3>2, Zenon
  <2>2. StoreCounts(st)
    BY EmptyCache, NewStoreCounts
  <2> HIDE DEF st
  <2>3. StoresGrown /\ RegistryMoved
    BY <2>1, <2>2, EnterMoves
  <2> QED
    BY <1>2, <2>3, CacheStep
<1>4. CASE tag(s, t) \/ complete(s)
  <2>1. UNCHANGED stores
    BY <1>4 DEF tag, complete
  <2>2. /\ DOMAIN registry' = DOMAIN registry
        /\ \A u \in DOMAIN registry : registry'[u].store = registry[u].store
    <3>1. ASSUME NEW u \in DOMAIN registry, NEW x
          PROVE  /\ [registry[u] EXCEPT !.tag = x].store = registry[u].store
                 /\ [registry[u] EXCEPT !.end = x].store = registry[u].store
                 /\ [registry[u] EXCEPT !.active = x].store = registry[u].store
                 /\ "end" \in DOMAIN [registry[u] EXCEPT !.active = x]
      BY DEF ServerInvariant, SessionsTyped, IsSession
    <3>2. CASE tag(s, t)
      <4>1. registry' = [registry EXCEPT ![s] = [registry[s] EXCEPT !.tag = t]] /\ s \in DOMAIN registry
        BY <3>2 DEF tag
      <4>2. [registry[s] EXCEPT !.tag = t].store = registry[s].store
        BY <3>1, <4>1
      <4> DEFINE q == [registry[s] EXCEPT !.tag = t]
      <4> HIDE DEF q
      <4>3. registry' = [registry EXCEPT ![s] = q] /\ q.store = registry[s].store
        BY <4>1, <4>2 DEF q
      <4> QED
        BY <4>1, <4>3 DEF ServerInvariant, SessionsTyped
    <3>3. CASE complete(s)
      <4> DEFINE q == [registry[s] EXCEPT !.active = FALSE]
                 R == [registry EXCEPT ![s] = q]
      <4>1. s \in DOMAIN registry /\ registry = [u \in DOMAIN registry |-> registry[u]]
        BY <3>3 DEF complete, ServerInvariant, SessionsTyped
      <4>2. PICK x : registry' = [R EXCEPT ![s].end = x]
        BY <3>3 DEF complete
      <4>3. R[s] = q /\ DOMAIN R = DOMAIN registry /\ \A u \in DOMAIN registry : u # s => R[u] = registry[u]
        BY <4>1
      <4>4. IsSession(q) /\ q.store = registry[s].store
        BY <3>1, <4>1, SessionEnded, Zenon DEF ServerInvariant, SessionsTyped
      <4> HIDE DEF q, R
      <4>5. [q EXCEPT !.end = x].store = q.store
        BY <4>4 DEF IsSession
      <4>6. DOMAIN registry' = DOMAIN registry /\ registry'[s].store = q.store
            /\ \A u \in DOMAIN registry : u # s => registry'[u] = registry[u]
        BY <4>1, <4>2, <4>3, <4>5
      <4> QED
        BY <4>4, <4>6
    <3> QED
      BY <1>4, <3>2, <3>3
  <2>3. StoresGrown /\ RegistryMoved
    BY <2>1, <2>2, CacheFrame, RegistrySame
  <2> QED
    BY <1>2, <2>3, CacheStep
<1>5. CASE remove(s)
  <2>1. stores' = Closed(stores, {s}) /\ registry' = Without(registry, {s})
    BY <1>5 DEF remove
  <2>2. DOMAIN stores' = DOMAIN stores
    BY <2>1 DEF Closed
  <2>3. \A k \in DOMAIN stores : /\ stores'[k].events = stores[k].events
                                 /\ stores'[k].count = stores[k].count
                                 /\ stores'[k].evicted = stores[k].evicted
    BY <2>1, TellingOnly DEF ServerInvariant
  <2>4. StoresGrown
    BY <2>2, <2>3, StoresSame
  <2>5. RegistryMoved
    BY <2>1, <2>2, RegistrySame DEF Without
  <2> QED
    BY <1>2, <2>4, <2>5, CacheStep
<1> QED
  BY <1>3, <1>4, <1>5

\* append() drops the oldest event of a full store and counts it; otherwise the store begins with
\* what it held.
LEMMA AppendKeeps ==
  ASSUME ServerInvariant, CacheInvariant, append
  PROVE  CacheInvariant'
<1>1. PICK k \in DOMAIN stores : stores' = [stores EXCEPT ![k] = Appended(stores[k])]
  BY DEF append
<1> DEFINE st == stores[k]
           evs == Append(st.events, st.script[st.count + 1])
           over == Len(evs) > MaxEvents
           x == IF over THEN Tail(evs) ELSE evs
           y == st.count + 1
           z == IF over THEN st.evicted + 1 ELSE st.evicted
           s1 == [st EXCEPT !.events = x]
           s2 == [s1 EXCEPT !.count = y]
           s3 == [s2 EXCEPT !.evicted = z]
<1>2. Appended(st) = s3
  <2> DEFINE a == Appended(st)
  <2>1. Appended(st) = [st EXCEPT !.events = x, !.count = y, !.evicted = z]
    BY DEF Appended
  <2> HIDE DEF x, y, z
  <2> QED
    BY <2>1
<1>3. IsStore(st) /\ StoreCounts(st)
  BY CacheParts DEF ServerInvariant, StoresTyped
<1>4. /\ IsSequence(evs) /\ BeginsWith(evs, st.events) /\ IsSequence(x)
      /\ y \in Nat /\ z \in Nat /\ (z = 0 => st.evicted = 0 /\ x = evs)
  <2>1. /\ st.events \in Seq(Range(st.events)) /\ Len(st.events) \in Nat
        /\ st.count \in Nat /\ st.evicted \in Nat
    BY <1>3, LenProperties DEF StoreCounts, IsSequence
  <2>2. PICK e : e = st.script[st.count + 1]
    OBVIOUS
  <2>3. st.events \in Seq(Range(st.events) \cup {e})
    BY <2>1, SeqDef
  <2>4. /\ evs \in Seq(Range(st.events) \cup {e}) /\ evs # <<>> /\ Len(evs) = Len(st.events) + 1
        /\ \A i \in 1..Len(st.events) : evs[i] = st.events[i]
    BY <2>2, <2>3, AppendProperties
  <2> HIDE DEF evs
  <2>5. evs \in Seq(Range(evs))
    BY <2>4, LenProperties, SeqDef DEF Range
  <2>6. Tail(evs) \in Seq(Range(evs))
    BY <2>4, <2>5, HeadTailProperties
  <2>7. Tail(evs) \in Seq(Range(Tail(evs)))
    <3>1. PICK u : u = Tail(evs)
      OBVIOUS
    <3>2. u \in [1..Len(u) -> Range(evs)] /\ Len(u) \in Nat
      BY <2>6, <3>1, LenProperties
    <3>3. u \in [1..Len(u) -> Range(u)]
      BY <3>2 DEF Range
    <3>4. u \in Seq(Range(u))
      BY <3>2, <3>3, SeqDef
    <3> QED
      BY <3>1, <3>4, Zenon
  <2>8. IsSequence(evs) /\ IsSequence(x)
    BY <2>5, <2>7, Zenon DEF IsSequence
  <2>9. y \in Nat /\ z \in Nat /\ (z = 0 => st.evicted = 0 /\ ~over)
    <3> HIDE DEF over, st
    <3> QED
      BY <2>1
  <2>10. ~over => x = evs
    <3> HIDE DEF over
    <3> QED
      OBVIOUS
  <2>11. BeginsWith(evs, st.events)
    BY <2>1, <2>4 DEF BeginsWith
  <2> HIDE DEF x, y, z, over, st
  <2> QED
    BY <2>8, <2>9, <2>10, <2>11
<1>5. s3.events = x /\ s3.count = y /\ s3.evicted = z
  <2> HIDE DEF x, y, z, st
  <2>1. st = [events |-> st.events, count |-> st.count, evicted |-> st.evicted, subs |-> st.subs,
              script |-> st.script]
    BY <1>3 DEF IsStore
  <2>2. s1 = [events |-> x, count |-> st.count, evicted |-> st.evicted, subs |-> st.subs, script |-> st.script]
    BY <2>1
  <2> HIDE DEF s1
  <2>3. s2 = [events |-> x, count |-> y, evicted |-> st.evicted, subs |-> st.subs, script |-> st.script]
    BY <2>2
  <2> HIDE DEF s2
  <2>4. s3 = [events |-> x, count |-> y, evicted |-> z, subs |-> st.subs, script |-> st.script]
    BY <2>3
  <2> HIDE DEF s3
  <2> QED
    BY <2>4
<1> HIDE DEF s3, x, y, z, evs, over
<1>6. /\ DOMAIN stores' = DOMAIN stores /\ stores'[k] = s3
      /\ \A j \in DOMAIN stores : j # k => stores'[j] = stores[j]
  <2>1. stores = [j \in DOMAIN stores |-> stores[j]]
    BY SeqDef DEF ServerInvariant, StoresTyped
  <2> QED
    BY <1>1, <1>2, <2>1
<1>7. StoresGrown
  <2>1. \A j \in DOMAIN stores : StoreCounts(stores[j])
    BY CacheParts
  <2>2. ASSUME NEW j \in DOMAIN stores
        PROVE  /\ StoreCounts(stores'[j])
               /\ stores'[j].evicted = 0 =>
                    stores[j].evicted = 0 /\ BeginsWith(stores'[j].events, stores[j].events)
    <3>1. CASE j = k
      BY <1>4, <1>5, <1>6, <3>1 DEF StoreCounts
    <3>2. CASE j # k
      BY <1>6, <2>1, <3>2, SameEvents DEF StoreCounts
    <3> QED
      BY <3>1, <3>2
  <2> QED
    BY <1>6, <2>2 DEF StoresGrown
<1>8. RegistryMoved
  BY <1>6, RegistrySame DEF append
<1> QED
  BY <1>7, <1>8, CacheFrame, CacheStep DEF append

\* An imported session has a store of its own.
LEMMA ImportedKeeps ==
  ASSUME ServerInvariant, CacheInvariant, NEW s \in SessionIds, NEW events, IsSequence(events),
         registerImported(s, events), UNCHANGED archives
  PROVE  CacheInvariant'
<1> DEFINE st == NewStore(events, events)
<1>1. PICK r : r.store = Len(stores) + 1 /\ Enter(s, r, st)
  <2>1. ASSUME NEW no
        PROVE  [store |-> Len(stores) + 1, start |-> ArchiveStarts[s], active |-> no, end |-> None,
                tag |-> NoTag].store = Len(stores) + 1
    OBVIOUS
  <2>2. Enter(s, [store |-> Len(stores) + 1, start |-> ArchiveStarts[s], active |-> FALSE, end |-> None,
                  tag |-> NoTag], st)
    BY DEF registerImported
  <2> HIDE DEF st
  <2> QED
    BY <2>1, <2>2, Zenon
<1>2. StoreCounts(st)
  BY NewStoreCounts
<1> HIDE DEF st
<1>3. StoresGrown /\ RegistryMoved
  BY <1>1, <1>2, EnterMoves
<1>4. ClientsMoved
  <2> SUFFICES ASSUME NEW c \in Clients PROVE RecordMoved(c, client'[c])
    BY RecordSubs DEF ClientsMoved
  <2>1. IsClient(client[c])
    BY DEF ServerInvariant, ClientsTyped
  <2>2. client'[c] = client[c] \/ \E x : client'[c] = [client[c] EXCEPT !.list = x]
    BY DEF registerImported
  <2>3. \A x : [client[c] EXCEPT !.list = x].subs = client[c].subs
    BY <2>1, ClientFields
  <2>4. client'[c].subs = client[c].subs
    BY <2>2, <2>3
  <2> QED
    BY <2>4 DEF RecordMoved
<1> QED
  BY <1>3, <1>4, CacheFrame, CacheStep

\* Writing an archive, and the end of an import.
LEMMA ArchiveKeeps ==
  ASSUME ServerInvariant, CacheInvariant, Archive
  PROVE  CacheInvariant'
<1>1. ASSUME NEW s \in SessionIds, archive(s) PROVE CacheInvariant'
  <2>1. IsSequence(stores[registry[s].store].events)
    BY <1>1, CacheParts DEF archive, StoreCounts
  <2>2. ArchivesTyped
    BY CacheParts
  <2>3. ArchivesTyped'
    BY <1>1, <2>1, <2>2 DEF archive, With, ArchivesTyped
  <2> QED
    BY <1>1, <2>3, CacheFrame, CacheStep DEF archive
<1>2. CASE ImportDone
  <2>1. PICK req \in imports : /\ req.session \in DOMAIN archives
                               /\ registerImported(req.session, archives[req.session])
                               /\ UNCHANGED archives
    BY <1>2 DEF ImportDone
  <2>2. req.session \in SessionIds /\ IsSequence(archives[req.session])
    BY <2>1, CacheParts DEF ArchivesTyped, ServerInvariant, SessionsTyped
  <2> QED
    BY <2>1, <2>2, ImportedKeeps
<1>3. CASE ImportFailed
  BY <1>3, CacheFrame, CacheStep DEF ImportFailed
<1> QED
  BY <1>1, <1>2, <1>3 DEF Archive

\* An uploaded archive is entered like an imported one.
LEMMA UploadKeeps ==
  ASSUME ServerInvariant, CacheInvariant, NEW c \in Clients, NEW s \in SessionIds, handleUploadArchive(c, s)
  PROVE  CacheInvariant'
<1> DEFINE events == SubSeq(Scripts[1], 1, MaxEvents)
<1>1. IsSequence(events)
  <2> DEFINE S == {Scripts[1][i] : i \in 1..MaxEvents}
  <2>1. MaxEvents \in Int /\ \A i \in 1..MaxEvents : Scripts[1][i] \in S
    BY ServerAssumption DEF ServerAssumption
  <2>2. events \in Seq(S)
    BY <2>1, SubSeqProperties
  <2> HIDE DEF events, S
  <2> QED
    BY <2>2, LenProperties, SeqDef DEF IsSequence, Range
<1> HIDE DEF events
<1> QED
  BY <1>1, ImportedKeeps DEF handleUploadArchive, events

-----------------------------------------------------------------------------
(* The theorems.                                                           *)

\* A handler's step, one case per command.
LEMMA HandlerKeeps ==
  ASSUME ServerInvariant, CacheInvariant, Handler
  PROVE  CacheInvariant'
<1> PICK c \in Clients :
      \/ clientConnected(c) \/ clientDisconnected(c) \/ handleListSessions(c) \/ handleQueries(c)
      \/ \E s \in SessionIds :
           \/ handleSubscribeLive(c, s) \/ handleSubscribeReplay(c, s) \/ handleUnsubscribe(c, s)
           \/ handlePause(c, s) \/ handleResume(c, s) \/ handleSetFilter(c, s)
           \/ handleSetBreakpoint(c, s) \/ handleClearBreakpoint(c, s)
           \/ handleSeek(c, s) \/ handleStepForward(c, s) \/ handleStepBackward(c, s)
           \/ handleImportArchive(c, s) \/ handleUploadArchive(c, s)
  BY DEF Handler
<1>1. CASE clientConnected(c) \/ clientDisconnected(c)
  BY <1>1, ConnectKeeps
<1>2. CASE handleListSessions(c) \/ handleQueries(c)
  BY <1>2, MovesKeep
<1>3. ASSUME NEW s \in SessionIds,
             handleSubscribeLive(c, s) \/ handleSubscribeReplay(c, s) \/ handleUnsubscribe(c, s)
      PROVE  CacheInvariant'
  BY <1>3, SubscribeKeeps, UnsubscribeKeeps
<1>4. ASSUME NEW s \in SessionIds,
             \/ handlePause(c, s) \/ handleResume(c, s) \/ handleSetFilter(c, s)
             \/ handleSetBreakpoint(c, s) \/ handleClearBreakpoint(c, s)
      PROVE  CacheInvariant'
  BY <1>4, SettersKeep
<1>5. ASSUME NEW s \in SessionIds,
             handleSeek(c, s) \/ handleStepForward(c, s) \/ handleStepBackward(c, s)
      PROVE  CacheInvariant'
  BY <1>5, MovesKeep
<1>6. ASSUME NEW s \in SessionIds, handleImportArchive(c, s) PROVE CacheInvariant'
  BY <1>6, CacheFrame, CacheStep DEF handleImportArchive
<1>7. ASSUME NEW s \in SessionIds, handleUploadArchive(c, s) PROVE CacheInvariant'
  BY <1>7, UploadKeeps
<1> QED
  BY <1>1, <1>2, <1>3, <1>4, <1>5, <1>6, <1>7

\* The inductive invariant of the marking caches, on top of that of the server.
THEOREM CacheInvariantHolds == Spec => []CacheInvariant
<1>1. Init => CacheInvariant
  <2> SUFFICES ASSUME Init PROVE CacheInvariant
    OBVIOUS
  <2>1. /\ stores = <<>> /\ registry = <<>> /\ archives = <<>> /\ DOMAIN << >> = {}
        /\ client = [c \in Clients |-> NewClient(1)]
    BY DEF Init
  <2>2. \A c \in Clients : DOMAIN client[c].subs = {}
    BY <2>1, NewClientTyped
  <2> QED
    BY <2>1, <2>2 DEF CacheInvariant, Subs
<1>2. ServerInvariant /\ CacheInvariant /\ [Next]_vars => CacheInvariant'
  <2> SUFFICES ASSUME ServerInvariant, CacheInvariant, [Next]_vars PROVE CacheInvariant'
    OBVIOUS
  <2>1. CASE append
    BY <2>1, AppendKeeps
  <2>2. CASE broadcast
    BY <2>2, BroadcastKeeps
  <2>3. CASE Registry
    BY <2>3, RegistryKeeps DEF Registry
  <2>4. CASE Handler
    BY <2>4, HandlerKeeps
  <2>5. CASE Archive
    BY <2>5, ArchiveKeeps
  <2>6. CASE UNCHANGED vars
    BY <2>6, CacheFrame, CacheStep DEF vars
  <2> QED
    BY <2>1, <2>2, <2>3, <2>4, <2>5, <2>6 DEF Next
<1> QED
  BY <1>1, <1>2, ServerInvariantHolds, PTL DEF Spec

\* CacheExactWhileComplete: whatever seeks and steps extended the cache, and whatever was appended
\* since, it answers as a replay from scratch does, as long as the store has evicted nothing.
THEOREM CacheAlwaysExact == Spec => []CacheExactWhileComplete
<1>1. ASSUME CacheInvariant PROVE CacheExactWhileComplete
  <2> SUFFICES ASSUME NEW c \in Clients, NEW s \in DOMAIN client[c].subs \cap DOMAIN registry,
                      client[c].subs[s].store = registry[s].store, stores[registry[s].store].evicted = 0,
                      NEW i \in 0..Len(stores[registry[s].store].events)
               PROVE  computeAt(ensureCachedUpTo(client[c].subs[s].cache, stores[registry[s].store].events, i),
                                stores[registry[s].store].events, i)
                        = computeState(SubSeq(stores[registry[s].store].events, 1, i))
    BY Zenon DEF CacheExactWhileComplete, Subs, SubOf
  <2> DEFINE old == client[c].subs[s].cache
             events == stores[registry[s].store].events
             cache == ensureCachedUpTo(old, events, i)
  <2>1. SubExact(s, client[c].subs[s]) /\ StoreCounts(stores[registry[s].store])
    BY <1>1, CacheParts
  <2>2. IsSequence(old) /\ IsSequence(events) /\ CacheOf(old, events)
    BY <2>1 DEF SubExact, StoreCounts
  <2>3. i \in Nat
    BY <2>2, LenProperties DEF IsSequence
  <2> HIDE DEF old, events
  <2>4. IsSequence(cache) /\ CacheOf(cache, events)
    BY <2>2, <2>3, CacheExtends DEF IsSequence
  <2> HIDE DEF cache
  <2>5. i \in 0..Len(events)
    BY DEF events
  <2>6. computeAt(cache, events, i) = computeState(SubSeq(events, 1, i))
    BY <2>2, <2>4, <2>5, ComputeAtExact DEF IsSequence
  <2> QED
    BY <2>6 DEF cache, events, old
<1> QED
  BY <1>1, CacheInvariantHolds, PTL
=============================================================================
