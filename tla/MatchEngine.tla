---------------------------- MODULE MatchEngine ----------------------------
(***************************************************************************)
(* The nu-net join of src/typescript/src/runtime/match-engine.ts and the   *)
(* way bitmap-net-executor.ts keeps it in step with the marking (NU-020).  *)
(*                                                                         *)
(* One join correlates its inputs, numbered from 1, by name.  The tokens   *)
(* of an input are a FIFO queue of names and creation times.  The join is  *)
(* served by an IncrementalMatcher while matchCaches[tid] is set, and by   *)
(* rebuilding the index (findBinding) otherwise.  Names are numbers: only  *)
(* their equality and their order are used; 0 is no name.                  *)
(***************************************************************************)
EXTENDS ReadyHeap

CONSTANTS
  Joins,       \* the joins checked: requireds, greedy and shared inputs
  MaxAdds      \* bound: tokens deposited in a run

ASSUME MatchAssumption ==
  /\ \A j \in Joins : /\ j.requireds \in Seq(Nat \ {0})
                       /\ j.greedy \cup j.shared \subseteq DOMAIN j.requireds
  /\ MaxAdds \in Nat

\* A key function that yields null or undefined: the token never correlates.
NoName == 0

NotReady == -1

VARIABLES
  join,        \* the join, fixed
  place,       \* place[i]: the tokens of input i, oldest arrival first
  cached,      \* matchCaches[tid] # null
  matcher,     \* the IncrementalMatcher
  adds         \* how many tokens were deposited

vars == <<join, place, cached, matcher, adds>>

\* requiredFor(): the tokens of one name each input must have.
Requireds == join.requireds

Inputs == DOMAIN Requireds

\* Inputs of type 'all' or 'at-least': a firing takes every token of the name.
Greedy == join.greedy

\* Inputs another transition consumes or resets.
Shared == join.shared

-----------------------------------------------------------------------------
(* MinQueue: a FIFO of timestamps on two stacks, each with running minima.  *)

EmptyQueue == [inStack |-> <<>>, inMin |-> <<>>, outStack |-> <<>>, outMin |-> <<>>]

Size(q) == Len(q.inStack) + Len(q.outStack)

PushBack(q, v) ==
  [q EXCEPT !.inStack = Append(@, v),
            !.inMin = Append(@, IF @ = <<>> THEN v ELSE Min({Last(@), v}))]

\* An empty out-stack is refilled from the in-stack, newest first.
Refilled(q) ==
  IF q.outStack # <<>> THEN q
  ELSE LET out == Reverse(q.inStack) IN
       [inStack |-> <<>>, inMin |-> <<>>, outStack |-> out,
        outMin |-> [k \in DOMAIN out |-> Min({out[j] : j \in 1..k})]]

PopFront(q) == LET r == Refilled(q) IN [r EXCEPT !.outStack = Front(@), !.outMin = Front(@)]

QueueMin(q) ==
  Min((IF q.inMin = <<>> THEN {} ELSE {Last(q.inMin)})
        \cup (IF q.outMin = <<>> THEN {} ELSE {Last(q.outMin)}))

-----------------------------------------------------------------------------
(* IncrementalMatcher.                                                     *)

NewMatcher ==
  [ts        |-> [i \in Inputs |-> [n \in Names |-> EmptyQueue]],
   fifo      |-> <<>>,
   fifoHead  |-> 0,
   maxPushed |-> <<>>,      \* <<>> for null, <<entry>> otherwise
   heaped    |-> FALSE,
   heap      |-> <<>>,
   ready     |-> [n \in Names |-> NotReady]]

\* repTs(): the oldest token of a name every input has enough of.
RepTs(m, n) ==
  IF \A i \in Inputs : Size(m.ts[i][n]) >= Requireds[i]
    THEN Min({QueueMin(m.ts[i][n]) : i \in Inputs})
    ELSE NotReady

Monotonic(m, e) == m.maxPushed = <<>> \/ ~Less(e, m.maxPushed[1])

\* pushReady(): append while in order, otherwise migrate what is left to the heap.
PushReady(m, e) ==
  IF m.heaped THEN [m EXCEPT !.heap = HeapPush(@, e)]
  ELSE IF Monotonic(m, e) THEN [m EXCEPT !.maxPushed = <<e>>, !.fifo = Append(@, e)]
  ELSE LET live == SubSeq(m.fifo, m.fifoHead + 1, Len(m.fifo)) IN
       [m EXCEPT !.heaped = TRUE, !.fifo = <<>>, !.fifoHead = 0,
                 !.heap = FoldLeft(HeapPush, @, Append(live, e))]

Refresh(m, n) ==
  LET rep == RepTs(m, n)
      r   == [m EXCEPT !.ready[n] = rep]
  IN IF rep \in {NotReady, m.ready[n]} THEN r ELSE PushReady(r, [ts |-> rep, name |-> n])

Stale(m, e) == m.ready[e.name] # e.ts

\* cleanTop(): drop stale entries from the top; a drained structure starts afresh.
CleanTop(m) ==
  IF m.heaped
    THEN LET clean[h \in Seq(Entries)] ==
               IF h # <<>> /\ Stale(m, h[1]) THEN clean[HeapPop(h)] ELSE h
             h == clean[m.heap]
         IN IF h = <<>> THEN [m EXCEPT !.heap = h, !.heaped = FALSE, !.maxPushed = <<>>]
                        ELSE [m EXCEPT !.heap = h]
    ELSE LET live == {k \in m.fifoHead + 1 .. Len(m.fifo) : ~Stale(m, m.fifo[k])}
         IN IF live = {} THEN [m EXCEPT !.fifo = <<>>, !.fifoHead = 0, !.maxPushed = <<>>]
                         ELSE [m EXCEPT !.fifoHead = Min(live) - 1]

MatcherAdd(m, i, n, at) == CleanTop(Refresh([m EXCEPT !.ts[i][n] = PushBack(@, at)], n))

\* Takes the required tokens of the name from every input.
MatcherConsume(m, n) ==
  LET popped(q, k) == LET pop[j \in Nat] == IF j = 0 THEN q ELSE PopFront(pop[j - 1])
                      IN IF Size(pop[k]) = 0 THEN EmptyQueue ELSE pop[k]
      taken == [i \in Inputs |-> [m.ts[i] EXCEPT ![n] = popped(@, Requireds[i])]]
  IN CleanTop(Refresh([m EXCEPT !.ts = taken], n))

Best(m) ==
  IF m.heaped THEN IF m.heap = <<>> THEN NoName ELSE m.heap[1].name
  ELSE IF m.fifoHead < Len(m.fifo) THEN m.fifo[m.fifoHead + 1].name ELSE NoName

-----------------------------------------------------------------------------
(* selectMatchName() over the indices buildNameIndex() makes of the queues. *)

Stamped(i, n) == {k \in DOMAIN place[i] : place[i][k].name = n}

Count(i, n) == Cardinality(Stamped(i, n))

Indexed(i) == {n \in Names : Stamped(i, n) # {}}

Oldest(n) == Min(UNION {{place[i][k].at : k \in Stamped(i, n)} : i \in Inputs})

Seed ==
  CHOOSE i \in Inputs : \A j \in Inputs :
    \/ Cardinality(Indexed(i)) < Cardinality(Indexed(j))
    \/ Cardinality(Indexed(i)) = Cardinality(Indexed(j)) /\ i <= j

Candidates ==
  {n \in Indexed(Seed) : \A j \in Inputs : n \in Indexed(j) /\ Count(j, n) >= Requireds[j]}

\* Earliest oldest token first, then name order.
Preferred(S) ==
  IF S = {} THEN NoName
  ELSE CHOOSE n \in S : \A o \in S \ {n} :
         Less([ts |-> Oldest(n), name |-> n], [ts |-> Oldest(o), name |-> o])

SelectMatchName == Preferred(Candidates)

\* canEnable() and fireTransition(): the matcher's answer, or findBinding().
Binding == IF cached THEN Best(matcher) ELSE SelectMatchName

-----------------------------------------------------------------------------
\* Mutant: an input another transition consumes does not rule the cache out.
AlwaysEligible == TRUE

\* initMatchCaches(): eligible when every correlated input gives up a fixed number of
\* tokens and has no other consumer.  The tokens of the initial marking are added as
\* deposits are.
Eligible == Greedy = {} /\ Shared = {}

Init ==
  /\ join \in Joins
  /\ place = [i \in Inputs |-> <<>>]
  /\ cached = Eligible
  /\ matcher = NewMatcher
  /\ adds = 0

\* A deposit and cacheAddToken().
Deposit(i, n, at) ==
  /\ adds < MaxAdds
  /\ adds' = adds + 1
  /\ place' = [place EXCEPT ![i] = Append(@, [name |-> n, at |-> at])]
  /\ matcher' = IF cached /\ n # NoName THEN MatcherAdd(matcher, i, n, at) ELSE matcher
  /\ UNCHANGED <<join, cached>>

\* removeFirstMatching(), k times; a token that is not there ends it early.
RemoveNamed(s, n, k) ==
  LET rest[j \in Nat] ==
        IF j = 0 THEN s ELSE RemoveFirstMatch(rest[j - 1], LAMBDA tok : tok.name = n)
  IN rest[k]

\* toConsume of fireTransition().
ToConsume(i, n) == IF i \in Greedy THEN Count(i, n) ELSE Requireds[i]

\* fireTransition(): the matched consume is mirrored into the matcher first.
Fire ==
  LET n == Binding IN
  /\ n # NoName
  /\ place' = [i \in Inputs |-> RemoveNamed(place[i], n, ToConsume(i, n))]
  /\ matcher' = IF cached THEN MatcherConsume(matcher, n) ELSE matcher
  /\ UNCHANGED <<join, cached, adds>>

\* Mutant: the matcher outlives a firing that threw.
KeepsCache == UNCHANGED cached

\* fireTransitionContained() drops the matcher.
DropsCache == cached' = FALSE

\* A firing that throws on the report of the k-th token removed from input j.
FireThrow ==
  LET n == Binding IN
  /\ n # NoName
  /\ \E j \in Inputs : \E k \in 1..ToConsume(j, n) :
       place' = [i \in Inputs |-> RemoveNamed(place[i], n,
                    IF i < j THEN ToConsume(i, n) ELSE IF i = j THEN k ELSE 0)]
  /\ matcher' = IF cached THEN MatcherConsume(matcher, n) ELSE matcher
  /\ DropsCache
  /\ UNCHANGED <<join, adds>>

\* Another consumer of a shared input takes its first token.
TakenByOther(i) ==
  /\ place[i] # <<>>
  /\ place' = [place EXCEPT ![i] = Tail(@)]
  /\ UNCHANGED <<join, cached, matcher, adds>>

Next ==
  \/ \E i \in Inputs, n \in Names \cup {NoName}, at \in Stamps : Deposit(i, n, at)
  \/ Fire
  \/ FireThrow
  \/ \E i \in Shared : TakenByOther(i)

Spec == Init /\ [][Next]_vars
-----------------------------------------------------------------------------
(* Properties.                                                             *)

\* NU-020: the join is enabled with, and fires, exactly the name that every input
\* has enough of and whose oldest token is earliest (ties by name), whether the
\* answer comes from the lazily cleaned deque, the heap or a rebuilt index.
BindingCanonical ==
  Binding = Preferred({n \in Names : \A i \in Inputs : Count(i, n) >= Requireds[i]})

\* A firing takes tokens of one name only, and from every input as many as it
\* requires (all of them from a greedy one): it never stops early on a token the
\* matcher believes in and the place lacks.
FiringTakesRequired ==
  [][Fire => \E n \in Names : \A i \in Inputs :
       /\ Requireds[i] <= Count(i, n)
       /\ Len(place'[i]) = Len(place[i]) - ToConsume(i, n)
       /\ SelectSeq(place'[i], LAMBDA tok : tok.name # n)
            = SelectSeq(place[i], LAMBDA tok : tok.name # n)]_vars
=============================================================================
