---------------------- MODULE PrecompiledExecutorProofs ----------------------
(***************************************************************************)
(* Proofs about PrecompiledExecutor, for every net, every word size, every *)
(* host and every bound.                                                   *)
(***************************************************************************)
EXTENDS PrecompiledExecutor, FiniteMaxima, SequenceTheorems, NaturalsInduction

\* The groups of variables an action leaves alone.
USE DEF tokens, sched, flights, ext, pass, clock

-----------------------------------------------------------------------------
(* The inductive invariant.                                                *)

FiringPcs == {"consume", "reset", "start"}

PcValues == {"new", "completions", "deposit", "external", "update", "deadlines", "decide", "fire",
             "await", "flush", "parked", "exit", "ended"} \cup FiringPcs

Deposits == [pid : Nat, tok : Token]

CacheTyped(t) ==
  cache[t] # <<>> => cache[t] = <<cache[t][1]>> /\ cache[t][1] \in [Keys[t] -> Seq(Token)]

LoopTyped ==
  /\ pc \in PcValues
  /\ dirty \in [transitionWords -> SUBSET Nat]
  /\ enabled \in SUBSET Transitions
  /\ ready \in SUBSET Transitions
  /\ firing \in Transitions \cup {NoTransition}
  /\ op \in Nat
  /\ produced \in [Places -> Nat]
  /\ minted \in Nat

TokensTyped ==
  /\ queues \in [Places -> Seq(Token)]
  /\ bits \in [placeWords -> SUBSET Nat]
  /\ cache = [t \in Transitions |-> cache[t]] /\ \A t \in Transitions : CacheTyped(t)

FlightsTyped ==
  /\ flight \in [Transitions -> {"idle", "running", "done", "failed"}]
  /\ output \in [Transitions -> Seq(Deposits)]
  /\ consumed \in [Transitions -> [Places -> Seq(Token)]]
  /\ matched \in [Transitions -> Names \cup {NoName}]
  /\ seen \in [Transitions -> SUBSET Places]
  /\ completionQueue \in Seq(Transitions)

ExternalTyped ==
  /\ externalQueue \in Seq(Deposits)
  /\ cursor \in Nat /\ prefix \in Nat /\ cursor <= prefix /\ prefix <= Len(externalQueue)

\* Every variable the properties rest on has its type.
TypeOK == LoopTyped /\ TokensTyped /\ FlightsTyped /\ ExternalTyped

\* What the phase of the loop says about the pass and the firing under way.
PhaseOK ==
  /\ firing \in Transitions <=> pc \in {"deposit"} \cup FiringPcs
  /\ pc # "external" => cursor = 0 /\ prefix = 0
  /\ pc \in {"fire"} \cup FiringPcs => ready \subseteq enabled \ InFlight
  /\ pc \in FiringPcs => firing \in enabled \ (InFlight \cup ready)
  /\ pc = "consume" => op \in 1..(Len(InputSpecs[firing]) + 1)
  /\ pc = "reset" => op \in (Len(InputSpecs[firing]) + 1)..(Len(Program.ops) + 1)

\* The counter counts the flags.
CountExact == enabledCount = Cardinality(enabled)

\* The tokens of a firing are on the way out of their queues.
Consuming == pc \in {"consume", "reset"}

\* A bit may lag behind its queue only where the firing takes tokens.
BitsExact ==
  pc # "new" =>
    \A p \in Places :
      /\ queues[p] # <<>> => HasBit(bits, p)
      /\ HasBit(bits, p) /\ ~(Consuming /\ p \in ConsumptionPlaces(firing)) => queues[p] # <<>>

\* The flag of t is what its arcs and its join call for.
FlagRight(t) ==
  /\ t \in enabled => CallsFor(t)
  /\ CallsFor(t) /\ ~HardDeadline(t) => t \in enabled

\* A flag may lag behind where a dirty bit, a registration or the firing says so.
Lagging == DirtyBits \cup InFlight \cup {firing} \cup (IF Consuming THEN DirtiedBy(firing) ELSE {})

FlagsRight == pc # "new" => \A t \in Transitions \ Lagging : FlagRight(t)

\* An input of the firing under way whose opcode is still to come.
Pending(p) ==
  pc = "consume" /\ \E i \in op..Len(InputSpecs[firing]) : InputSpecs[firing][i] = p

\* The first tokens of the bound name, which the join of t has still to take from p.
Bound(t, p) == SubSeq(Named(queues[p], matched[t]), 1, Required[t][p] - Len(consumed[t][p]))

\* The matcher runs ahead of the queues while its join takes the tokens.
MatcherExact(t) ==
  /\ Eligible(t)
  /\ \A p \in Keys[t] :
       cache[t][1][p] = IF t = firing /\ Pending(p)
                        THEN Without(Correlating(queues[p]), Bound(t, p))
                        ELSE Correlating(queues[p])

MatchersExact == \A t \in Transitions : cache[t] # <<>> => MatcherExact(t)

\* What an input of the firing under way has still to give on top of what it gave, or has given.
InputReady(p) ==
  LET given == consumed[firing][p]
  IN /\ p \notin TakesAll[firing] => Len(given) < Required[firing][p]
     /\ Len(given) + Len(queues[p]) >= Required[firing][p]
     /\ p \in Keys[firing] =>
          /\ Len(given) + Len(Named(queues[p], matched[firing])) >= Required[firing][p]
          /\ \A i \in DOMAIN given : given[i].name = matched[firing]

InputTaken(p) ==
  /\ Len(consumed[firing][p]) >= Required[firing][p]
  /\ p \in Keys[firing] =>
       \A i \in 1..Required[firing][p] : consumed[firing][p][i].name = matched[firing]

FiringSupplied ==
  pc \in FiringPcs =>
    /\ Keys[firing] # {} => matched[firing] \in Names
    /\ \A p \in InputPlaces(firing) : IF Pending(p) THEN InputReady(p) ELSE InputTaken(p)
    /\ IF pc = "consume" THEN \A p \in Reads[firing] \ InputPlaces(firing) : queues[p] # <<>>
       ELSE Reads[firing] \ InputPlaces(firing) \subseteq seen[firing]

\* Who fires nothing holds nothing.
IdleHoldsNothing ==
  \A t \in Transitions : flight[t] = "idle" /\ firing # t =>
    consumed[t] = [p \in Places |-> <<>>]

\* No two tokens of s have the same number.
Distinct(s) == \A i, j \in DOMAIN s : s[i].id = s[j].id => i = j

\* Where tokens wait to be deposited: 0 is the external queue, t the output of t.
Sources == 0..NumTransitions

\* The numbers of the tokens that wait there.
Waiting ==
  [u \in Sources |->
     IF u = 0 THEN [i \in (cursor + 1)..Len(externalQueue) |-> externalQueue[i].tok.id]
     ELSE [i \in DOMAIN output[u] |-> output[u][i].tok.id]]

\* No number is twice in a queue, waits twice, or waits while it is in a queue; n is the last.
Unique(qs, W, n) ==
  /\ \A p \in Places : Distinct(qs[p]) /\ \A x \in Ids(qs[p]) : x <= n
  /\ \A u \in Sources : \A i \in DOMAIN W[u] : W[u][i] <= n /\ \A p \in Places : W[u][i] \notin Ids(qs[p])
  /\ \A u, v \in Sources : \A i \in DOMAIN W[u], j \in DOMAIN W[v] : W[u][i] = W[v][j] => u = v /\ i = j

UniqueTokens == Unique(queues, Waiting, minted)

FlatInvariant ==
  /\ TypeOK /\ PhaseOK /\ CountExact /\ BitsExact /\ FlagsRight /\ MatchersExact
  /\ FiringSupplied /\ IdleHoldsNothing /\ UniqueTokens

-----------------------------------------------------------------------------
(* Words.                                                                  *)

\* Division by a positive number.
LEMMA Division ==
  ASSUME NEW n \in Nat, NEW w \in Nat, w > 0
  PROVE  /\ n \div w \in Nat /\ (n % w) \in Nat /\ (n % w) < w
         /\ n = w * (n \div w) + (n % w)
         /\ (n + w) \div w = (n \div w) + 1
<1>1. n \div w \in Int /\ n \div w >= 0 /\ (n % w) \in 0..(w - 1)
  OBVIOUS
<1>2. n = w * (n \div w) + (n % w)
  OBVIOUS
<1>3. (n + w) \div w = (n \div w) + 1
  OBVIOUS
<1> QED
  BY <1>1, <1>2, <1>3

\* A number is its word and its bit.
LEMMA WordAndBit ==
  ASSUME NEW n \in Nat
  PROVE  /\ WordOf(n) \in Nat /\ BitOf(n) \in Nat /\ BitOf(n) < WORD_SIZE
         /\ n = WORD_SIZE * WordOf(n) + BitOf(n)
         /\ WordOf(n + WORD_SIZE) = WordOf(n) + 1
<1>1. WORD_SIZE \in Nat /\ WORD_SIZE > 0
  BY WordAssumption DEF WordAssumption
<1> QED
  BY <1>1, Division DEF WordOf, BitOf

\* The bits that stand for the numbers of S name these numbers and no other.
LEMMA BitsExactIn ==
  ASSUME NEW S \in SUBSET Nat, NEW n \in Nat
  PROVE  BitOf(n) \in BitsIn(S, WordOf(n)) <=> n \in S
<1>1. ASSUME NEW i \in S, WordOf(i) = WordOf(n), BitOf(i) = BitOf(n) PROVE i = n
  BY <1>1, WordAndBit
<1> QED
  BY <1>1 DEF BitsIn

\* Dividing by the word size is monotonic.
LEMMA WordMonotonic ==
  ASSUME NEW i \in Nat, NEW n \in Nat, i <= n
  PROVE  WordOf(i) <= WordOf(n)
<1> DEFINE a == WordOf(i)
           b == WordOf(n)
<1>1. /\ a \in Nat /\ b \in Nat /\ BitOf(i) \in Nat /\ BitOf(n) \in Nat /\ BitOf(n) < WORD_SIZE
      /\ i = WORD_SIZE * a + BitOf(i) /\ n = WORD_SIZE * b + BitOf(n)
  BY WordAndBit
<1>2. WORD_SIZE \in Nat
  BY WordAssumption DEF WordAssumption
<1> HIDE DEF a, b
<1>3. ASSUME b < a PROVE FALSE
  <2>1. a - b - 1 \in Nat
    BY <1>1, <1>3
  <2>2. WORD_SIZE * (a - b - 1) >= 0
    BY <1>2, <2>1
  <2>3. WORD_SIZE * (a - b - 1) = WORD_SIZE * a - WORD_SIZE * b - WORD_SIZE
    BY <1>1, <1>2
  <2> QED
    BY <1>1, <1>2, <2>2, <2>3
<1> QED
  BY <1>1, <1>3 DEF a, b

\* As many words as it takes for the numbers below k.
LEMMA WordInRange ==
  ASSUME NEW k \in Nat, NEW n \in Nat, n < k
  PROVE  WordOf(n) \in 0..(wordCount(k) - 1)
<1>1. n + WORD_SIZE <= k + WORD_SIZE - 1 /\ n + WORD_SIZE \in Nat /\ k + WORD_SIZE - 1 \in Nat
  BY WordAssumption DEF WordAssumption
<1>2. WordOf(n + WORD_SIZE) <= WordOf(k + WORD_SIZE - 1)
  BY <1>1, WordMonotonic
<1>3. wordCount(k) = WordOf(k + WORD_SIZE - 1)
  BY DEF wordCount, WordOf
<1> QED
  BY <1>1, <1>2, <1>3, WordAndBit

\* A place has its bit in one of the words of the marking.
LEMMA PlaceWord ==
  ASSUME NEW p \in Places
  PROVE  p \in Nat /\ WordOf(p) \in placeWords
<1>1. Cardinality(Places) \in Nat
  BY NetAssumption, FS_CardinalityType DEF NetAssumption
<1>2. p \in Nat /\ p < Cardinality(Places)
  BY <1>1, WordAssumption DEF WordAssumption
<1> QED
  BY <1>1, <1>2, WordInRange DEF placeWords

\* A transition has its bit in one of the words of the dirty set.
LEMMA TransitionWord ==
  ASSUME NEW t \in Transitions
  PROVE  t - 1 \in Nat /\ WordOf(t - 1) \in transitionWords
<1>1. NumTransitions \in Nat
  BY NetAssumption DEF NetAssumption
<1>2. t - 1 \in Nat /\ t - 1 < NumTransitions
  BY <1>1 DEF Transitions
<1> QED
  BY <1>1, <1>2, WordInRange DEF transitionWords

\* A mask has the bits of its places.
LEMMA MaskExact ==
  ASSUME NEW S \in SUBSET Places, NEW p \in Places
  PROVE  HasBit(MaskOf(S), p) <=> p \in S
<1>1. S \in SUBSET Nat /\ p \in Nat /\ WordOf(p) \in placeWords
  BY PlaceWord
<1> QED
  BY <1>1, BitsExactIn DEF HasBit, MaskOf

\* Marking transitions dirty adds their bits.
LEMMA MarkedExact ==
  ASSUME dirty \in [transitionWords -> SUBSET Nat], NEW S \in SUBSET Transitions, NEW t \in Transitions
  PROVE  HasBit(MarkedDirty(S), t - 1) <=> t \in DirtyBits \cup S
<1> DEFINE U == {u - 1 : u \in S}
<1>1. U \in SUBSET Nat /\ t - 1 \in Nat /\ WordOf(t - 1) \in transitionWords
  BY TransitionWord
<1>2. t - 1 \in U <=> t \in S
  BY NetAssumption DEF NetAssumption, Transitions
<1> HIDE DEF U
<1>3. BitOf(t - 1) \in BitsIn(U, WordOf(t - 1)) <=> t - 1 \in U
  BY <1>1, BitsExactIn
<1>4. MarkedDirty(S)[WordOf(t - 1)] = dirty[WordOf(t - 1)] \cup BitsIn(U, WordOf(t - 1))
  BY <1>1 DEF MarkedDirty, U
<1> QED
  BY <1>2, <1>3, <1>4 DEF HasBit, DirtyBits

\* Every transition has its bit among the full words and the remainder.
LEMMA AllDirty ==
  ASSUME NEW t \in Transitions
  PROVE  HasBit(markAllDirty, t - 1)
<1> DEFINE n == t - 1
           w == WordOf(n)
           last == NumTransitions % WORD_SIZE
<1>1. NumTransitions \in Nat /\ WORD_SIZE \in Nat \ {0}
  BY NetAssumption, WordAssumption DEF NetAssumption, WordAssumption
<1>2. n \in Nat /\ n < NumTransitions /\ w \in transitionWords
  BY <1>1, TransitionWord DEF Transitions
<1>3. BitOf(n) \in Nat /\ BitOf(n) < WORD_SIZE /\ n = WORD_SIZE * w + BitOf(n) /\ w \in Nat
  BY <1>2, WordAndBit
<1>4. CASE w + 1 \in transitionWords \/ last = 0
  BY <1>1, <1>2, <1>3, <1>4 DEF HasBit, markAllDirty, Bits
<1>5. CASE ~(w + 1 \in transitionWords \/ last = 0)
  <2> DEFINE q == WordOf(NumTransitions)
  <2>1. /\ q \in Nat /\ last \in Nat /\ last < WORD_SIZE
        /\ NumTransitions = WORD_SIZE * q + last
    BY <1>1, WordAndBit DEF BitOf
  <2>2. w <= q
    BY <1>1, <1>2, WordMonotonic
  <2>3. w >= q
    <3>1. wordCount(NumTransitions) = WordOf(NumTransitions + WORD_SIZE - 1)
      BY DEF wordCount, WordOf
    <3>2. WordOf(NumTransitions + WORD_SIZE - 1) = q + 1
      <4>1. NumTransitions - 1 \in Nat
        BY <1>1, <1>2
      <4>2. NumTransitions + WORD_SIZE - 1 = (NumTransitions - 1) + WORD_SIZE
        BY <1>1
      <4>3. WordOf(NumTransitions + WORD_SIZE - 1) = WordOf(NumTransitions - 1) + 1
        BY <4>1, <4>2, WordAndBit
      <4>4. WordOf(NumTransitions - 1) = q
        BY <1>1, <1>5, <4>1, <2>1 DEF WordOf
      <4> QED
        BY <4>3, <4>4
    <3> QED
      BY <1>2, <1>3, <1>5, <2>1, <3>1, <3>2 DEF transitionWords
  <2>4. w = q
    BY <1>3, <2>1, <2>2, <2>3
  <2>5. BitOf(n) < last
    <3> HIDE DEF w, q, n, last
    <3>1. WORD_SIZE * w = WORD_SIZE * q
      BY <2>4
    <3> QED
      BY <1>1, <1>2, <1>3, <2>1, <3>1
  <2> QED
    BY <1>2, <1>3, <1>5, <2>1, <2>5 DEF HasBit, markAllDirty
<1> QED
  BY <1>4, <1>5

\* Setting a bit adds it and leaves the others.
LEMMA SetBitExact ==
  ASSUME bits \in [placeWords -> SUBSET Nat], NEW p \in Places
  PROVE  /\ SetBit(bits, p) \in [placeWords -> SUBSET Nat]
         /\ \A q \in Places : HasBit(SetBit(bits, p), q) <=> HasBit(bits, q) \/ q = p
<1>1. p \in Nat /\ WordOf(p) \in placeWords /\ BitOf(p) \in Nat
  BY PlaceWord, WordAndBit
<1>2. ASSUME NEW q \in Places PROVE HasBit(SetBit(bits, p), q) <=> HasBit(bits, q) \/ q = p
  <2>1. q \in Nat /\ WordOf(q) \in placeWords
    BY PlaceWord
  <2>2. WordOf(q) = WordOf(p) /\ BitOf(q) = BitOf(p) => q = p
    BY <1>1, <2>1, WordAndBit
  <2> QED
    BY <1>1, <2>1, <2>2 DEF HasBit, SetBit
<1> QED
  BY <1>1, <1>2 DEF SetBit

\* The bits of a set of numbers are numbers.
LEMMA BitsTyped ==
  ASSUME NEW S \in SUBSET Nat, NEW w
  PROVE  BitsIn(S, w) \in SUBSET Nat
  BY WordAndBit DEF BitsIn

\* The arcs of a transition lead to places of the net, and name transitions of the net.
LEMMA ArcsTyped ==
  ASSUME NEW t \in Transitions
  PROVE  /\ InputPlaces(t) \in SUBSET Places /\ NeedsMask(t) \in SUBSET Places
         /\ Reads[t] \in SUBSET Places /\ Inhibitors[t] \in SUBSET Places
         /\ Resets[t] \in SUBSET Places /\ ConsumptionPlaces(t) \in SUBSET Places
         /\ Keys[t] \in SUBSET InputPlaces(t) /\ CardinalityCheck(t) \in SUBSET InputPlaces(t)
         /\ \A p \in Places : Required[t][p] \in Nat
         /\ \A p \in InputPlaces(t) : Required[t][p] > 0
  BY NetAssumption, WordAssumption
  DEF NetAssumption, WordAssumption, InputPlaces, NeedsMask, ConsumptionPlaces, CardinalityCheck

\* Only the drained places of the firing lose their bit.
LEMMA EmptiedExact ==
  ASSUME bits \in [placeWords -> SUBSET Nat], NEW t \in Transitions
  PROVE  /\ Emptied(t) \in [placeWords -> SUBSET Nat]
         /\ \A q \in Places :
              HasBit(Emptied(t), q) <=> HasBit(bits, q) /\ ~(q \in ConsumptionPlaces(t) /\ queues[q] = <<>>)
<1> DEFINE S == {p \in ConsumptionPlaces(t) : queues[p] = <<>>}
<1>1. S \in SUBSET Nat
  BY PlaceWord, ArcsTyped
<1>2. ASSUME NEW U \in SUBSET Nat, NEW q \in Places
      PROVE  BitOf(q) \in BitsIn(U, WordOf(q)) <=> q \in U
  BY PlaceWord, BitsExactIn
<1>3. Emptied(t) = [w \in placeWords |-> bits[w] \ BitsIn(S, w)]
  BY DEF Emptied
<1>4. ASSUME NEW q \in Places
      PROVE  HasBit(Emptied(t), q) <=> HasBit(bits, q) /\ q \notin S
  <2> HIDE DEF S
  <2>1. WordOf(q) \in placeWords
    BY PlaceWord
  <2>2. BitOf(q) \in BitsIn(S, WordOf(q)) <=> q \in S
    BY <1>1, <1>2
  <2> QED
    BY <1>3, <2>1, <2>2 DEF HasBit
<1> QED
  BY <1>3, <1>4

-----------------------------------------------------------------------------
(* The sparse masks.                                                       *)

\* Masked unsigned, the AND is the mask exactly when every bit of it is there.
LEMMA CoversExact ==
  ASSUME NEW have, NEW mask
  PROVE  (Covers(have, mask) <=> mask \subseteq have) /\ (Misses(have, mask) <=> mask \cap have = {})
<1>1. Covers(have, mask) <=> mask \subseteq have
  BY DEF Covers, Unsigned
<1>2. Misses(have, mask) => mask \cap have = {}
  BY DEF Misses, Signed, Unsigned, Zero
<1>3. ASSUME mask \cap have = {} PROVE Misses(have, mask)
  <2>1. have \cap mask = {} /\ ~(WORD_SIZE - 1 \in {})
    BY <1>3
  <2>2. (WORD_SIZE - 1 \in {}) = FALSE
    BY <2>1
  <2> QED
    BY <2>1, <2>2 DEF Misses, Signed, Unsigned, Zero
<1> QED
  BY <1>1, <1>2, <1>3

\* The three kinds of a sparse mask: no word, the only word, the words that are not zero.
LEMMA SparseKinds ==
  ASSUME NEW S \in SUBSET Places, NEW n, n = compileSparse(MaskOf(S)), NEW mask, mask = MaskOf(S)
  PROVE  \/ n.index = SPARSE_EMPTY /\ \A w \in placeWords : mask[w] = {}
         \/ n.index \in placeWords /\ \A w \in placeWords : w # n.index => mask[w] = {}
         \/ n.index = SPARSE_MULTI /\ \A w \in placeWords : w \in n.words <=> mask[w] # {}
<1> DEFINE N == {w \in placeWords : mask[w] # {}}
<1>1. DOMAIN mask = placeWords
  BY DEF MaskOf
<1>2. n = IF N = {} THEN [index |-> SPARSE_EMPTY, words |-> {}]
          ELSE IF Cardinality(N) = 1 THEN [index |-> CHOOSE w \in N : TRUE, words |-> N]
          ELSE [index |-> SPARSE_MULTI, words |-> N]
  BY <1>1 DEF compileSparse
<1>3. N \in SUBSET placeWords /\ \A w \in placeWords : w \in N <=> mask[w] # {}
  OBVIOUS
<1>4. ASSUME N # {}, Cardinality(N) = 1
      PROVE  n.index \in placeWords /\ \A w \in placeWords : w # n.index => mask[w] = {}
  <2>1. IsFiniteSet(N)
    <3>1. IsFiniteSet(placeWords)
      <4>1. Cardinality(Places) \in Nat /\ WORD_SIZE \in Nat \ {0}
        BY NetAssumption, WordAssumption, FS_CardinalityType DEF NetAssumption, WordAssumption
      <4>2. wordCount(Cardinality(Places)) \in Nat
        <5>1. Cardinality(Places) + WORD_SIZE - 1 \in Nat
          BY <4>1
        <5>2. wordCount(Cardinality(Places)) = WordOf(Cardinality(Places) + WORD_SIZE - 1)
          BY DEF wordCount, WordOf
        <5> QED
          BY <5>1, <5>2, WordAndBit
      <4> QED
        BY <4>2, FS_Interval DEF placeWords
    <3> QED
      BY <3>1, <1>3, FS_Subset
  <2> HIDE DEF N
  <2>2. PICK x : N = {x}
    BY <1>4, <2>1, FS_Singleton
  <2>3. n.index = x
    BY <1>2, <1>4, <2>2
  <2> QED
    BY <1>3, <2>2, <2>3
<1> HIDE DEF N
<1>5. CASE N = {}
  BY <1>2, <1>3, <1>5
<1>6. CASE N # {} /\ Cardinality(N) # 1
  BY <1>2, <1>3, <1>6
<1> QED
  BY <1>4, <1>5, <1>6

\* Word by word, a mask is covered or missed exactly when its places are.
LEMMA MaskWords ==
  ASSUME NEW S \in SUBSET Places, NEW b
  PROVE  /\ (\A w \in placeWords : MaskOf(S)[w] \subseteq b[w]) <=> \A p \in S : HasBit(b, p)
         /\ (\A w \in placeWords : MaskOf(S)[w] \cap b[w] = {}) <=> \A p \in S : ~HasBit(b, p)
<1>1. ASSUME NEW p \in S PROVE WordOf(p) \in placeWords /\ BitOf(p) \in MaskOf(S)[WordOf(p)]
  BY PlaceWord, MaskExact DEF HasBit
<1>2. ASSUME NEW w \in placeWords, NEW x \in MaskOf(S)[w] PROVE \E p \in S : WordOf(p) = w /\ BitOf(p) = x
  BY DEF MaskOf, BitsIn
<1> QED
  BY <1>1, <1>2 DEF HasBit

\* The sparse test reads the bits of the needed and of the inhibiting places.
LEMMA SparseExact ==
  ASSUME NEW t \in Transitions, NEW b
  PROVE  canEnableSparse(t, b) <=> /\ \A p \in NeedsMask(t) : HasBit(b, p)
                                   /\ \A p \in Inhibitors[t] : ~HasBit(b, p)
<1> DEFINE N == MaskOf(NeedsMask(t))
           I == MaskOf(Inhibitors[t])
           n == compileSparse(N)
           i == compileSparse(I)
<1>1. needsMasks[t] = N /\ inhibitorMasks[t] = I /\ needsSparse[t] = n /\ inhibitorSparse[t] = i
  BY DEF needsMasks, inhibitorMasks, needsSparse, inhibitorSparse
<1>2. NeedsMask(t) \in SUBSET Places /\ Inhibitors[t] \in SUBSET Places
  BY ArcsTyped
<1>3. /\ (\A w \in placeWords : N[w] \subseteq b[w]) <=> \A p \in NeedsMask(t) : HasBit(b, p)
      /\ (\A w \in placeWords : I[w] \cap b[w] = {}) <=> \A p \in Inhibitors[t] : ~HasBit(b, p)
  BY <1>2, MaskWords
<1>4. /\ \/ n.index = SPARSE_EMPTY /\ \A w \in placeWords : N[w] = {}
         \/ n.index \in placeWords /\ \A w \in placeWords : w # n.index => N[w] = {}
         \/ n.index = SPARSE_MULTI /\ \A w \in placeWords : w \in n.words <=> N[w] # {}
      /\ \/ i.index = SPARSE_EMPTY /\ \A w \in placeWords : I[w] = {}
         \/ i.index \in placeWords /\ \A w \in placeWords : w # i.index => I[w] = {}
         \/ i.index = SPARSE_MULTI /\ \A w \in placeWords : w \in i.words <=> I[w] # {}
  BY <1>2, SparseKinds
<1>5. n.words \subseteq placeWords /\ i.words \subseteq placeWords
  BY DEF compileSparse, MaskOf
<1> HIDE DEF N, I, n, i
<1>6. \A w \in placeWords : w \in Int /\ w >= 0
  BY DEF placeWords
<1>7. (\/ n.index = SPARSE_EMPTY
       \/ n.index >= 0 /\ Covers(b[n.index], N[n.index])
       \/ n.index = SPARSE_MULTI /\ \A w \in n.words : Covers(b[w], N[w]))
      <=> \A w \in placeWords : N[w] \subseteq b[w]
  BY <1>4, <1>5, <1>6, CoversExact DEF SPARSE_EMPTY, SPARSE_MULTI
<1>8. (\/ i.index = SPARSE_EMPTY
       \/ i.index >= 0 /\ Misses(b[i.index], I[i.index])
       \/ i.index = SPARSE_MULTI /\ \A w \in i.words : Misses(b[w], I[w]))
      <=> \A w \in placeWords : I[w] \cap b[w] = {}
  BY <1>4, <1>5, <1>6, CoversExact DEF SPARSE_EMPTY, SPARSE_MULTI
<1> QED
  BY <1>1, <1>3, <1>7, <1>8 DEF canEnableSparse

-----------------------------------------------------------------------------
(* The tokens of a queue that are kept.                                    *)

\* A set of numbers that is not empty has a least member.
LEMMA LeastMember ==
  ASSUME NEW T \in SUBSET Nat, T # {}
  PROVE  \E n \in T : \A i \in Nat : i < n => i \notin T
<1>1. PICK n \in T : \A i \in T : ~ (<<i, n>> \in OpToRel(<, Nat))
  BY NatLessThanWellFounded, WFMin, Zenon
<1> QED
  BY <1>1 DEF OpToRel

\* What holds of the empty sequence, and of a longer one with the shorter, holds of all.
LEMMA GrownFromEmpty ==
  ASSUME NEW T, NEW P \in SUBSET Seq(T), <<>> \in P,
         \A s \in P : \A x \in T : Append(s, x) \in P
  PROVE  P = Seq(T)
<1> DEFINE N == {n \in Nat : \E s \in Seq(T) : Len(s) = n /\ s \notin P}
<1>1. ASSUME N # {} PROVE FALSE
  <2>1. PICK n \in N : \A i \in Nat : i < n => i \notin N
    <3>1. ASSUME NEW W \in SUBSET Nat, W # {} PROVE \E x \in W : \A y \in Nat : y < x => y \notin W
      BY <3>1, LeastMember
    <3>2. N \in SUBSET Nat
      OBVIOUS
    <3> HIDE DEF N
    <3> QED
      BY <1>1, <3>1, <3>2
  <2>2. PICK s \in Seq(T) : Len(s) = n /\ s \notin P
    BY <2>1
  <2>3. s # <<>>
    BY <2>2
  <2>4. PICK r \in Seq(T), x \in T : s = Append(r, x)
    BY <2>3, SequenceEmptyOrAppend
  <2>5. Len(r) \in Nat /\ Len(r) < n
    BY <2>2, <2>4, AppendProperties, LenProperties
  <2>6. r \in P
    BY <2>1, <2>5
  <2> QED
    BY <2>2, <2>4, <2>6
<1>2. \A s \in Seq(T) : Len(s) \in Nat
  BY LenProperties
<1> QED
  BY <1>1, <1>2

\* f[i] are the tokens kept of the first i.
Keeps(f, s, S, n) ==
  f = [i \in 0..n |-> IF i = 0 THEN <<>>
                      ELSE IF s[i] \in S THEN Append(f[i - 1], s[i]) ELSE f[i - 1]]

\* The walk that Kept() defines by recursion exists.
LEMMA KeepsExists ==
  ASSUME NEW s, NEW S, NEW n \in Nat
  PROVE  \E f : Keeps(f, s, S, n)
<1> DEFINE T == {i \in Nat : ~\E f : Keeps(f, s, S, i)}
<1>1. ASSUME T # {} PROVE FALSE
  <2>1. PICK i \in T : \A j \in Nat : j < i => j \notin T
    <3>1. ASSUME NEW W \in SUBSET Nat, W # {} PROVE \E x \in W : \A y \in Nat : y < x => y \notin W
      BY <3>1, LeastMember
    <3>2. T \in SUBSET Nat
      OBVIOUS
    <3> HIDE DEF T
    <3> QED
      BY <1>1, <3>1, <3>2
  <2>2. CASE i = 0
    <3>1. Keeps([j \in 0..0 |-> <<>>], s, S, 0)
      BY DEF Keeps
    <3> QED
      BY <2>1, <2>2, <3>1
  <2>3. CASE i # 0
    <3>1. PICK f : Keeps(f, s, S, i - 1)
      BY <2>1, <2>3
    <3> DEFINE x == IF s[i] \in S THEN Append(f[i - 1], s[i]) ELSE f[i - 1]
               g == [j \in 0..i |-> IF j = i THEN x ELSE f[j]]
    <3>2. Keeps(g, s, S, i)
      <4>1. ASSUME NEW j \in 0..i
            PROVE  g[j] = IF j = 0 THEN <<>>
                          ELSE IF s[j] \in S THEN Append(g[j - 1], s[j]) ELSE g[j - 1]
        <5>1. CASE j = i
          BY <2>3, <5>1
        <5>2. CASE j # i
          <6>1. f[j] = IF j = 0 THEN <<>>
                       ELSE IF s[j] \in S THEN Append(f[j - 1], s[j]) ELSE f[j - 1]
            <7>1. j \in 0..(i - 1)
              BY <5>2
            <7> QED
              BY <3>1, <7>1 DEF Keeps
          <6> QED
            BY <5>2, <6>1
        <5> QED
          BY <5>1, <5>2
      <4> QED
        BY <4>1 DEF Keeps
    <3> QED
      BY <2>1, <3>2
  <2> QED
    BY <2>2, <2>3
<1> QED
  BY <1>1

\* What Kept() returns is the last value of that walk.
LEMMA KeptUnfolds ==
  ASSUME NEW s, NEW S, Len(s) \in Nat
  PROVE  \E f : Keeps(f, s, S, Len(s)) /\ Kept(s, S) = f[Len(s)]
<1> DEFINE kept == CHOOSE f : Keeps(f, s, S, Len(s))
<1>1. Keeps(kept, s, S, Len(s))
  BY KeepsExists
<1>2. Kept(s, S) = kept[Len(s)]
  BY DEF Kept, Keeps
<1> QED
  BY <1>1, <1>2

\* The sets S and R tell the first n elements of r and s apart in the same way.
Alike(s, S, r, R, n) == \A i \in 1..n : s[i] = r[i] /\ (s[i] \in S <=> r[i] \in R)

\* Two walks over the same elements that keep the same ones come to the same.
LEMMA SameWalk ==
  ASSUME NEW f, NEW g, NEW s, NEW S, NEW r, NEW R, NEW n \in Nat, NEW m \in Nat, NEW k \in Nat,
         Keeps(f, s, S, n), Keeps(g, r, R, m), k <= n, k <= m, Alike(s, S, r, R, k)
  PROVE  f[k] = g[k]
<1> DEFINE T == {i \in Nat : i <= k /\ f[i] # g[i]}
<1>1. ASSUME T # {} PROVE FALSE
  <2>1. PICK i \in T : \A j \in Nat : j < i => j \notin T
    <3>1. ASSUME NEW W \in SUBSET Nat, W # {} PROVE \E x \in W : \A y \in Nat : y < x => y \notin W
      BY <3>1, LeastMember
    <3>2. T \in SUBSET Nat
      OBVIOUS
    <3> HIDE DEF T
    <3> QED
      BY <1>1, <3>1, <3>2
  <2>2. i # 0
    BY <2>1 DEF Keeps
  <2>3. i - 1 \in Nat /\ i - 1 < i /\ i \in 1..k /\ i \in 0..n /\ i \in 0..m
    BY <2>1, <2>2
  <2>4. f[i - 1] = g[i - 1]
    BY <2>1, <2>3
  <2>5. f[i] = IF s[i] \in S THEN Append(f[i - 1], s[i]) ELSE f[i - 1]
    BY <2>2, <2>3 DEF Keeps
  <2>6. g[i] = IF r[i] \in R THEN Append(g[i - 1], r[i]) ELSE g[i - 1]
    BY <2>2, <2>3 DEF Keeps
  <2>7. s[i] = r[i] /\ (s[i] \in S <=> r[i] \in R)
    BY <2>3 DEF Alike
  <2> QED
    BY <2>1, <2>4, <2>5, <2>6, <2>7
<1> QED
  BY <1>1

\* The empty queue keeps nothing.
LEMMA KeptEmpty ==
  ASSUME NEW S
  PROVE  Kept(<<>>, S) = <<>>
<1>1. PICK f : Keeps(f, <<>>, S, 0) /\ Kept(<<>>, S) = f[0]
  BY KeptUnfolds
<1> QED
  BY <1>1 DEF Keeps

\* One more token is kept if it is in the set.
LEMMA KeptAppend ==
  ASSUME NEW S, NEW T, NEW s \in Seq(T), NEW x \in T
  PROVE  Kept(Append(s, x), S) = IF x \in S THEN Append(Kept(s, S), x) ELSE Kept(s, S)
<1> DEFINE r == Append(s, x)
           n == Len(s)
<1>1. n \in Nat /\ Len(r) = n + 1 /\ r[n + 1] = x /\ \A i \in 1..n : r[i] = s[i]
  BY AppendProperties, LenProperties
<1>2. PICK f : Keeps(f, s, S, n) /\ Kept(s, S) = f[n]
  BY <1>1, KeptUnfolds
<1>3. PICK g : Keeps(g, r, S, n + 1) /\ Kept(r, S) = g[n + 1]
  <2>1. Len(r) \in Nat
    BY <1>1
  <2> QED
    BY <1>1, <2>1, KeptUnfolds
<1> HIDE DEF n, r
<1>4. f[n] = g[n]
  <2>1. Alike(s, S, r, S, n)
    BY <1>1 DEF Alike
  <2>2. n + 1 \in Nat /\ n <= n /\ n <= n + 1
    BY <1>1
  <2> QED
    BY <1>1, <1>2, <1>3, <2>1, <2>2, SameWalk
<1>5. g[n + 1] = IF r[n + 1] \in S THEN Append(g[n], r[n + 1]) ELSE g[n]
  <2>1. n + 1 \in 0..(n + 1) /\ n + 1 # 0 /\ (n + 1) - 1 = n
    BY <1>1
  <2> QED
    BY <1>3, <2>1 DEF Keeps
<1> QED
  BY <1>1, <1>2, <1>3, <1>4, <1>5 DEF r

\* Only what the set says about the elements of the queue matters.
LEMMA KeptAlike ==
  ASSUME NEW s, NEW S, NEW R, Len(s) \in Nat, \A i \in 1..Len(s) : s[i] \in S <=> s[i] \in R
  PROVE  Kept(s, S) = Kept(s, R)
<1>1. PICK f : Keeps(f, s, S, Len(s)) /\ Kept(s, S) = f[Len(s)]
  BY KeptUnfolds
<1>2. PICK g : Keeps(g, s, R, Len(s)) /\ Kept(s, R) = g[Len(s)]
  BY KeptUnfolds
<1>3. Alike(s, S, s, R, Len(s))
  BY DEF Alike
<1>4. f[Len(s)] = g[Len(s)]
  <2>1. Len(s) <= Len(s)
    OBVIOUS
  <2> QED
    BY <1>1, <1>2, <1>3, <2>1, SameWalk
<1> QED
  BY <1>1, <1>2, <1>4

\* What is kept was there, and is in the set.
LEMMA KeptTyped ==
  ASSUME NEW S, NEW T, NEW s \in Seq(T)
  PROVE  Kept(s, S) \in Seq(T \cap S)
<1> DEFINE P == {r \in Seq(T) : Kept(r, S) \in Seq(T \cap S)}
<1>1. P \in SUBSET Seq(T) /\ <<>> \in P
  BY KeptEmpty, EmptySeq
<1>2. ASSUME NEW r \in P, NEW x \in T PROVE Append(r, x) \in P
  <2>1. Append(r, x) \in Seq(T)
    BY AppendProperties
  <2>2. Kept(Append(r, x), S) = IF x \in S THEN Append(Kept(r, S), x) ELSE Kept(r, S)
    BY KeptAppend
  <2>3. x \in S => Append(Kept(r, S), x) \in Seq(T \cap S)
    BY AppendProperties
  <2> QED
    BY <2>1, <2>2, <2>3
<1>3. ASSUME NEW Q \in SUBSET Seq(T), <<>> \in Q, \A r \in Q : \A x \in T : Append(r, x) \in Q
      PROVE  Q = Seq(T)
  BY <1>3, GrownFromEmpty
<1>4. P = Seq(T)
  <2> HIDE DEF P
  <2> QED
    BY <1>1, <1>2, <1>3
<1> QED
  BY <1>4

\* Keeping twice keeps what is in both sets.
LEMMA KeptTwice ==
  ASSUME NEW A, NEW B, NEW T, NEW s \in Seq(T)
  PROVE  Kept(Kept(s, A), B) = Kept(s, A \cap B)
<1> DEFINE P == {r \in Seq(T) : Kept(Kept(r, A), B) = Kept(r, A \cap B)}
<1>1. P \in SUBSET Seq(T) /\ <<>> \in P
  <2>1. Kept(<<>>, A) = <<>> /\ Kept(<<>>, B) = <<>> /\ Kept(<<>>, A \cap B) = <<>>
    BY KeptEmpty
  <2> QED
    BY <2>1, EmptySeq
<1>2. ASSUME NEW r \in P, NEW x \in T PROVE Append(r, x) \in P
  <2> DEFINE k == Kept(r, A)
  <2>0. r \in Seq(T) /\ Kept(k, B) = Kept(r, A \cap B)
    OBVIOUS
  <2>1. Append(r, x) \in Seq(T)
    BY AppendProperties
  <2>2. Kept(Append(r, x), A) = IF x \in A THEN Append(k, x) ELSE k
    BY <2>0, KeptAppend
  <2>3. Kept(Append(r, x), A \cap B) = IF x \in A \cap B THEN Append(Kept(r, A \cap B), x) ELSE Kept(r, A \cap B)
    BY <2>0, KeptAppend
  <2>4. k \in Seq(T)
    <3>1. k \in Seq(T \cap A)
      BY <2>0, KeptTyped
    <3> QED
      BY <3>1, SeqMonotonic
  <2>5. Kept(Append(k, x), B) = IF x \in B THEN Append(Kept(k, B), x) ELSE Kept(k, B)
    <3> HIDE DEF k
    <3> QED
      BY <2>4, KeptAppend
  <2> HIDE DEF k
  <2>7. Kept(Kept(Append(r, x), A), B) = Kept(Append(r, x), A \cap B)
    <3>1. CASE x \in A /\ x \in B
      BY <2>0, <2>2, <2>3, <2>5, <3>1, Zenon
    <3>2. CASE x \in A /\ x \notin B
      BY <2>0, <2>2, <2>3, <2>5, <3>2, Zenon
    <3>3. CASE x \notin A
      BY <2>0, <2>2, <2>3, <3>3, Zenon
    <3> QED
      BY <3>1, <3>2, <3>3
  <2> QED
    BY <2>1, <2>7
<1>3. ASSUME NEW Q \in SUBSET Seq(T), <<>> \in Q, \A r \in Q : \A x \in T : Append(r, x) \in Q
      PROVE  Q = Seq(T)
  BY <1>3, GrownFromEmpty
<1>4. P = Seq(T)
  <2> HIDE DEF P
  <2> QED
    BY <1>1, <1>2, <1>3
<1> QED
  BY <1>4

-----------------------------------------------------------------------------
(* Queues and joins.                                                       *)

OfName(n) == {tok \in Token : tok.name = n}
OfSomeName == {tok \in Token : tok.name # NoName}
OutsideOf(gone) == {tok \in Token : tok.id \notin Ids(gone)}

\* The parts of a queue are what is kept of it for a set of tokens.
LEMMA PartsKept ==
  ASSUME NEW s \in Seq(Token), NEW n, NEW gone
  PROVE  /\ Named(s, n) = Kept(s, OfName(n))
         /\ Correlating(s) = Kept(s, OfSomeName)
         /\ Without(s, gone) = Kept(s, OutsideOf(gone))
<1>1. Len(s) \in Nat /\ DOMAIN s = 1..Len(s)
  BY LenProperties
<1>2. ASSUME NEW i \in 1..Len(s) PROVE s[i] \in Token /\ s[i] \in Range(s)
  BY <1>1, ElementOfSeq DEF Range
<1>3. Named(s, n) = Kept(s, OfName(n))
  <2>1. \A i \in 1..Len(s) : s[i] \in {tok \in Range(s) : tok.name = n} <=> s[i] \in OfName(n)
    BY <1>2 DEF OfName
  <2> QED
    BY <1>1, <2>1, KeptAlike DEF Named
<1>4. Correlating(s) = Kept(s, OfSomeName)
  <2>1. \A i \in 1..Len(s) : s[i] \in {tok \in Range(s) : tok.name # NoName} <=> s[i] \in OfSomeName
    BY <1>2 DEF OfSomeName
  <2> QED
    BY <1>1, <2>1, KeptAlike DEF Correlating
<1>5. Without(s, gone) = Kept(s, OutsideOf(gone))
  <2>1. \A i \in 1..Len(s) : s[i] \in {tok \in Range(s) : tok.id \notin Ids(gone)} <=> s[i] \in OutsideOf(gone)
    BY <1>2 DEF OutsideOf
  <2> QED
    BY <1>1, <2>1, KeptAlike DEF Without
<1> QED
  BY <1>3, <1>4, <1>5

\* They are queues of tokens again, and the named ones have the name.
LEMMA PartsTyped ==
  ASSUME NEW s \in Seq(Token), NEW n, NEW gone
  PROVE  /\ Named(s, n) \in Seq(Token) /\ Correlating(s) \in Seq(Token) /\ Without(s, gone) \in Seq(Token)
         /\ \A i \in 1..Len(Named(s, n)) : Named(s, n)[i] \in Token /\ Named(s, n)[i].name = n
<1>1. ASSUME NEW S PROVE Kept(s, S) \in Seq(Token) /\ \A i \in 1..Len(Kept(s, S)) : Kept(s, S)[i] \in Token \cap S
  <2>1. Kept(s, S) \in Seq(Token \cap S)
    BY KeptTyped
  <2>2. \A i \in 1..Len(Kept(s, S)) : Kept(s, S)[i] \in Token \cap S
    BY <2>1, ElementOfSeq
  <2> QED
    BY <2>1, <2>2, SeqMonotonic
<1>2. \A i \in 1..Len(Named(s, n)) : Named(s, n)[i] \in Token \cap OfName(n)
  BY <1>1, PartsKept
<1>3. \A i \in 1..Len(Named(s, n)) : Named(s, n)[i] \in Token /\ Named(s, n)[i].name = n
  BY <1>2 DEF OfName
<1>4. Named(s, n) \in Seq(Token) /\ Correlating(s) \in Seq(Token) /\ Without(s, gone) \in Seq(Token)
  <2>1. \A S : Kept(s, S) \in Seq(Token)
    BY <1>1
  <2> QED
    BY <2>1, PartsKept, Zenon
<1> QED
  BY <1>3, <1>4

\* The named tokens of a queue are among its correlating ones.
LEMMA NamedCorrelates ==
  ASSUME NEW s \in Seq(Token), NEW n, n # NoName
  PROVE  Named(Correlating(s), n) = Named(s, n)
<1>1. Correlating(s) \in Seq(Token)
  BY PartsTyped
<1>2. Named(Correlating(s), n) = Kept(Kept(s, OfSomeName), OfName(n))
  BY <1>1, PartsKept
<1>3. Kept(Kept(s, OfSomeName), OfName(n)) = Kept(s, OfSomeName \cap OfName(n))
  BY KeptTwice
<1>4. OfSomeName \cap OfName(n) = OfName(n)
  BY DEF OfSomeName, OfName
<1> QED
  BY <1>2, <1>3, <1>4, PartsKept

\* Taking tokens out and leaving the nameless out commute.
LEMMA CorrelatingWithout ==
  ASSUME NEW s \in Seq(Token), NEW gone
  PROVE  Correlating(Without(s, gone)) = Without(Correlating(s), gone)
<1>1. Correlating(s) \in Seq(Token) /\ Without(s, gone) \in Seq(Token)
  BY PartsTyped
<1>2. Correlating(Without(s, gone)) = Kept(Kept(s, OutsideOf(gone)), OfSomeName)
  BY <1>1, PartsKept
<1>3. Without(Correlating(s), gone) = Kept(Kept(s, OfSomeName), OutsideOf(gone))
  BY <1>1, PartsKept
<1>4. OfSomeName \cap OutsideOf(gone) = OutsideOf(gone) \cap OfSomeName
  OBVIOUS
<1>5. Kept(Kept(s, OutsideOf(gone)), OfSomeName) = Kept(s, OutsideOf(gone) \cap OfSomeName)
  BY KeptTwice
<1>6. Kept(Kept(s, OfSomeName), OutsideOf(gone)) = Kept(s, OfSomeName \cap OutsideOf(gone))
  BY KeptTwice
<1> QED
  BY <1>2, <1>3, <1>4, <1>5, <1>6

\* One more token.
LEMMA CorrelatingAppend ==
  ASSUME NEW s \in Seq(Token), NEW tok \in Token
  PROVE  Correlating(Append(s, tok)) = IF tok.name # NoName THEN Append(Correlating(s), tok) ELSE Correlating(s)
<1>1. Append(s, tok) \in Seq(Token)
  BY AppendProperties
<1>2. tok \in OfSomeName <=> tok.name # NoName
  BY DEF OfSomeName
<1>3. Correlating(Append(s, tok)) = Kept(Append(s, tok), OfSomeName) /\ Correlating(s) = Kept(s, OfSomeName)
  BY <1>1, PartsKept
<1>4. Kept(Append(s, tok), OfSomeName) =
        IF tok \in OfSomeName THEN Append(Kept(s, OfSomeName), tok) ELSE Kept(s, OfSomeName)
  BY KeptAppend
<1> QED
  BY <1>2, <1>3, <1>4, Zenon

\* Nothing is left of an empty queue.
LEMMA WithoutEmpty ==
  ASSUME NEW gone
  PROVE  Without(<<>>, gone) = <<>>
  BY KeptEmpty DEF Without

\* A join sees of a source the named tokens only.
LEMMA SameBinding ==
  ASSUME NEW t, NEW a, NEW b, \A p \in Keys[t] : \A n \in Names : Named(a[p], n) = Named(b[p], n)
  PROVE  BindingIn(t, a) = BindingIn(t, b)
<1> DEFINE N(s) == {n \in Names : \A p \in Keys[t] : Len(Named(s[p], n)) >= Required[t][p]}
<1>1. N(a) = N(b)
  OBVIOUS
<1>2. ASSUME NEW n \in N(a)
      PROVE  {Ids(Named(a[p], n)) : p \in Keys[t]} = {Ids(Named(b[p], n)) : p \in Keys[t]}
  OBVIOUS
<1>3. \A n \in N(a) : Min(UNION {Ids(Named(a[p], n)) : p \in Keys[t]}) = Min(UNION {Ids(Named(b[p], n)) : p \in Keys[t]})
  BY <1>2
<1>4. Candidates(t, a) = Candidates(t, b)
  BY <1>1, <1>3 DEF Candidates
<1> QED
  BY <1>4 DEF BindingIn

\* A function into the numbers has a least value.
LEMMA LeastValue ==
  ASSUME NEW c, DOMAIN c # {}, \A n \in DOMAIN c : c[n] \in Nat
  PROVE  \E n \in DOMAIN c : \A o \in DOMAIN c : c[n] <= c[o]
<1> DEFINE V == {c[n] : n \in DOMAIN c}
<1>1. V \in SUBSET Nat /\ V # {}
  OBVIOUS
<1>2. PICK v \in V : \A i \in Nat : i < v => i \notin V
  <2>1. ASSUME NEW W \in SUBSET Nat, W # {} PROVE \E x \in W : \A y \in Nat : y < x => y \notin W
    BY <2>1, LeastMember
  <2> HIDE DEF V
  <2> QED
    BY <1>1, <2>1
<1>3. PICK n \in DOMAIN c : c[n] = v
  OBVIOUS
<1>4. ASSUME NEW o \in DOMAIN c PROVE c[n] <= c[o]
  BY <1>2, <1>3
<1> QED
  BY <1>4

\* A join that binds a name has enough tokens of it on every correlated input.
LEMMA BindingSupplied ==
  ASSUME NEW t \in Transitions, Keys[t] # {}, NEW source, \A p \in Keys[t] : source[p] \in Seq(Token)
  PROVE  \/ BindingIn(t, source) = NoName
         \/ /\ BindingIn(t, source) \in Names
            /\ \A p \in Keys[t] : Len(Named(source[p], BindingIn(t, source))) >= Required[t][p]
<1> DEFINE c == Candidates(t, source)
           Supplied(n) == \A p \in Keys[t] : Len(Named(source[p], n)) >= Required[t][p]
           Ages(n) == UNION {Ids(Named(source[p], n)) : p \in Keys[t]}
<1>1. DOMAIN c = {n \in Names : Supplied(n)} /\ \A n \in DOMAIN c : c[n] = Min(Ages(n))
  BY DEF Candidates
<1>2. ASSUME NEW n \in Names, Supplied(n) PROVE Ages(n) \in SUBSET Nat /\ Ages(n) # {}
  <2>1. ASSUME NEW p \in Keys[t] PROVE Ids(Named(source[p], n)) \in SUBSET Nat
    <3>1. \A i \in DOMAIN Named(source[p], n) : Named(source[p], n)[i] \in Token
      <4>1. source[p] \in Seq(Token)
        OBVIOUS
      <4>2. /\ Named(source[p], n) \in Seq(Token)
            /\ \A i \in 1..Len(Named(source[p], n)) : Named(source[p], n)[i] \in Token
        BY <4>1, PartsTyped
      <4> QED
        BY <4>2, LenProperties
    <3> QED
      BY <3>1 DEF Ids, Token
  <2>2. PICK p \in Keys[t] : TRUE
    OBVIOUS
  <2>3. Len(Named(source[p], n)) > 0
    BY <1>2, ArcsTyped, PartsTyped, LenProperties
  <2>4. 1 \in DOMAIN Named(source[p], n)
    BY <2>3, PartsTyped, LenProperties
  <2>5. Named(source[p], n)[1].id \in Ids(Named(source[p], n))
    BY <2>4 DEF Ids
  <2>6. Named(source[p], n)[1].id \in Ages(n)
    BY <2>5
  <2>7. Ages(n) \in SUBSET Nat
    BY <2>1
  <2> QED
    BY <2>6, <2>7
<1>3. ASSUME NEW S \in SUBSET Nat, S # {} PROVE Min(S) \in Nat
  <2>1. PICK v \in S : \A i \in Nat : i < v => i \notin S
    BY <1>3, LeastMember
  <2>2. \A y \in S : v <= y
    BY <2>1
  <2> QED
    BY <2>1, <2>2 DEF Min
<1>4. ASSUME NEW n \in DOMAIN c PROVE c[n] \in Nat
  <2> HIDE DEF Ages, c
  <2> QED
    BY <1>1, <1>2, <1>3
<1> HIDE DEF c, Supplied
<1>5. BindingIn(t, source) = OldestOf(c)
  BY DEF BindingIn, c
<1>6. CASE DOMAIN c = {}
  BY <1>5, <1>6 DEF OldestOf
<1>7. CASE DOMAIN c # {}
  <2>1. \E n \in DOMAIN c : \A o \in DOMAIN c : c[n] <= c[o]
    BY <1>4, <1>7, LeastValue
  <2>2. OldestOf(c) \in DOMAIN c
    BY <1>7, <2>1 DEF OldestOf
  <2> QED
    BY <1>1, <1>5, <2>2 DEF Supplied
<1> QED
  BY <1>6, <1>7

-----------------------------------------------------------------------------
(* Enablement.                                                             *)

\* The matcher of a join that is not taking its tokens answers for the queues.
LEMMA BindingExact ==
  ASSUME TypeOK, MatchersExact, NEW t \in Transitions, ~(pc = "consume" /\ t = firing)
  PROVE  Binding(t) = BindingIn(t, queues)
<1>1. CASE cache[t] = <<>>
  BY <1>1 DEF Binding
<1>2. CASE cache[t] # <<>>
  <2>1. \A p \in Keys[t] : cache[t][1][p] = Correlating(queues[p])
    BY <1>2 DEF MatchersExact, MatcherExact, Pending
  <2>2. \A p \in Keys[t] : queues[p] \in Seq(Token)
    BY ArcsTyped DEF TypeOK, TokensTyped
  <2>3. \A n \in Names : n # NoName
    BY QueueAssumption DEF QueueAssumption
  <2>4. \A p \in Keys[t] : \A n \in Names : Named(cache[t][1][p], n) = Named(queues[p], n)
    BY <2>1, <2>2, <2>3, NamedCorrelates
  <2>5. BindingIn(t, cache[t][1]) = BindingIn(t, queues)
    BY <2>4, SameBinding
  <2> QED
    BY <1>2, <2>5 DEF Binding
<1> QED
  BY <1>1, <1>2

\* Where the bits are exact, the compiled test says what the queues say.
LEMMA Enablement ==
  ASSUME TypeOK, MatchersExact, NEW t \in Transitions, ~(pc = "consume" /\ t = firing), NEW b,
         \A p \in Places : HasBit(b, p) <=> queues[p] # <<>>
  PROVE  canEnable(t, b) <=> CallsFor(t)
<1>1. Binding(t) = BindingIn(t, queues)
  BY BindingExact
<1>2. \A p \in Places : Len(queues[p]) \in Nat /\ (queues[p] = <<>> <=> Len(queues[p]) = 0)
  BY EmptySeq, LenProperties DEF TypeOK, TokensTyped
<1>3. canEnableSparse(t, b) <=> /\ \A p \in NeedsMask(t) : Len(queues[p]) > 0
                                /\ \A p \in Inhibitors[t] : Len(queues[p]) = 0
  BY <1>2, SparseExact, ArcsTyped
<1>4. ArcsSatisfied(t, Counts(queues)) <=> /\ \A p \in Places : Len(queues[p]) >= Required[t][p]
                                           /\ \A p \in Reads[t] : Len(queues[p]) > 0
                                           /\ \A p \in Inhibitors[t] : Len(queues[p]) = 0
  BY ArcsTyped DEF ArcsSatisfied, Counts
<1>5. (/\ \A p \in NeedsMask(t) : Len(queues[p]) > 0
       /\ \A p \in CardinalityCheck(t) : Len(queues[p]) >= Required[t][p])
      <=> (/\ \A p \in Places : Len(queues[p]) >= Required[t][p]
           /\ \A p \in Reads[t] : Len(queues[p]) > 0)
  BY <1>2, ArcsTyped DEF NeedsMask, CardinalityCheck, InputPlaces
<1> QED
  BY <1>1, <1>3, <1>4, <1>5 DEF canEnable, CallsFor

\* A transition is affected by the places its arcs and its join look at.
LEMMA CallsForLocal ==
  ASSUME queues \in [Places -> Seq(Token)], queues' \in [Places -> Seq(Token)],
         NEW t \in Transitions, \A p \in NeedsMask(t) \cup Inhibitors[t] : queues'[p] = queues[p]
  PROVE  CallsFor(t)' <=> CallsFor(t)
<1>1. ArcsSatisfied(t, Counts(queues')) <=> ArcsSatisfied(t, Counts(queues))
  <2>1. \A p \in Places : p \notin NeedsMask(t) => Required[t][p] = 0
    BY ArcsTyped DEF NeedsMask, InputPlaces
  <2>2. \A p \in Places : Len(queues[p]) \in Nat /\ Len(queues'[p]) \in Nat
    BY LenProperties
  <2>3. \A p \in Places : Len(queues[p]) >= Required[t][p] <=> Len(queues'[p]) >= Required[t][p]
    <3>1. ASSUME NEW p \in Places, p \in NeedsMask(t)
          PROVE  Len(queues[p]) >= Required[t][p] <=> Len(queues'[p]) >= Required[t][p]
      BY <3>1
    <3>2. ASSUME NEW p \in Places, p \notin NeedsMask(t)
          PROVE  Len(queues[p]) >= Required[t][p] /\ Len(queues'[p]) >= Required[t][p]
      BY <2>1, <2>2, <3>2
    <3> QED
      BY <3>1, <3>2
  <2> QED
    BY <2>3, ArcsTyped DEF ArcsSatisfied, Counts, NeedsMask
<1>2. \A p \in Keys[t] : queues'[p] = queues[p]
  BY ArcsTyped DEF NeedsMask
<1>3. BindingIn(t, queues') = BindingIn(t, queues)
  BY <1>2, SameBinding
<1> QED
  BY <1>1, <1>3 DEF CallsFor

-----------------------------------------------------------------------------
(* The consume programs.                                                   *)

\* First one opcode for every input, then one for every reset.
LEMMA ProgramShape ==
  ASSUME NEW t \in Transitions
  PROVE  /\ programs[t].resetOpsStart = Len(InputSpecs[t])
         /\ Len(InputSpecs[t]) \in Nat /\ Len(programs[t].ops) \in Nat
         /\ Len(InputSpecs[t]) <= Len(programs[t].ops)
         /\ \A i \in 1..Len(InputSpecs[t]) :
              /\ programs[t].ops[i] = [op |-> OpcodeOf(t, InputSpecs[t][i]), pid |-> InputSpecs[t][i]]
              /\ InputSpecs[t][i] \in InputPlaces(t)
         /\ \A i \in 1..Len(programs[t].ops) : i > Len(InputSpecs[t]) =>
              programs[t].ops[i].op = "RESET" /\ programs[t].ops[i].pid \in Resets[t]
         /\ \A p \in Resets[t] : \E i \in (Len(InputSpecs[t]) + 1)..Len(programs[t].ops) : programs[t].ops[i].pid = p
         /\ \A i, j \in (Len(InputSpecs[t]) + 1)..Len(programs[t].ops) :
              programs[t].ops[i].pid = programs[t].ops[j].pid => i = j
<1> DEFINE s == InputSpecs[t]
           r == ResetArcs[t]
           a == [i \in DOMAIN s |-> [op |-> OpcodeOf(t, s[i]), pid |-> s[i]]]
           z == [i \in DOMAIN r |-> [op |-> "RESET", pid |-> r[i]]]
           O == {a[i] : i \in DOMAIN s} \cup {z[i] : i \in DOMAIN r}
<1>1. /\ s \in Seq(Places) /\ r \in Seq(Places) /\ Range(s) = InputPlaces(t) /\ Range(r) = Resets[t]
  BY WordAssumption DEF WordAssumption
<1>2. Len(s) \in Nat /\ DOMAIN s = 1..Len(s) /\ Len(r) \in Nat /\ DOMAIN r = 1..Len(r)
  BY <1>1, LenProperties
<1>3. a \in Seq(O) /\ Len(a) = Len(s) /\ z \in Seq(O) /\ Len(z) = Len(r)
  <2> HIDE DEF s, r
  <2>1. a \in [1..Len(s) -> O] /\ z \in [1..Len(r) -> O]
    BY <1>2
  <2>2. \A n \in Nat : \A f \in [1..n -> O] : f \in Seq(O) /\ Len(f) = n
    BY IsASeq, LenProperties
  <2> HIDE DEF O, a, z
  <2> QED
    BY <1>2, <2>1, <2>2
<1>4. programs[t] = [ops |-> a \o z, resetOpsStart |-> Len(s)]
  BY DEF programs, compileConsumeProgram
<1>5. /\ Len(a \o z) = Len(s) + Len(r)
      /\ \A i \in 1..(Len(s) + Len(r)) : (a \o z)[i] = IF i <= Len(s) THEN a[i] ELSE z[i - Len(s)]
  <2> HIDE DEF a, z, O, s, r
  <2>1. /\ Len(a \o z) = Len(a) + Len(z)
        /\ \A i \in 1..(Len(a) + Len(z)) : (a \o z)[i] = IF i <= Len(a) THEN a[i] ELSE z[i - Len(a)]
    BY <1>3, ConcatProperties
  <2> QED
    BY <1>3, <2>1
<1>6. ASSUME NEW i \in 1..Len(s)
      PROVE  (a \o z)[i] = [op |-> OpcodeOf(t, s[i]), pid |-> s[i]] /\ s[i] \in InputPlaces(t)
  <2>1. (a \o z)[i] = a[i]
    <3> HIDE DEF a, z, s, r
    <3> QED
      BY <1>2, <1>5
  <2> QED
    BY <1>1, <1>2, <2>1 DEF Range
<1>7. ASSUME NEW i \in 1..(Len(s) + Len(r)), i > Len(s)
      PROVE  (a \o z)[i].op = "RESET" /\ (a \o z)[i].pid \in Resets[t]
  <2>1. (a \o z)[i] = z[i - Len(s)] /\ i - Len(s) \in 1..Len(r)
    <3> HIDE DEF a, z, s, r
    <3> QED
      BY <1>2, <1>5, <1>7
  <2> QED
    BY <1>1, <1>2, <2>1 DEF Range
<1>7a. ASSUME NEW p \in Resets[t]
       PROVE  \E i \in (Len(s) + 1)..(Len(s) + Len(r)) : (a \o z)[i].pid = p
  <2>1. PICK j \in 1..Len(r) : r[j] = p
    BY <1>1, <1>2 DEF Range
  <2>2. z[j].pid = p
    BY <1>2, <2>1
  <2>3. j + Len(s) \in (Len(s) + 1)..(Len(s) + Len(r)) /\ (a \o z)[j + Len(s)] = z[j]
    <3> HIDE DEF a, z, s, r
    <3>1. j + Len(s) \in 1..(Len(s) + Len(r)) /\ ~(j + Len(s) <= Len(s)) /\ j + Len(s) - Len(s) = j
      BY <1>2
    <3>2. (a \o z)[j + Len(s)] = z[j + Len(s) - Len(s)]
      BY <1>5, <3>1
    <3> QED
      BY <1>2, <3>1, <3>2
  <2> HIDE DEF a, z, s, r
  <2> QED
    BY <2>2, <2>3
<1>7b. ASSUME NEW i \in (Len(s) + 1)..(Len(s) + Len(r)), NEW j \in (Len(s) + 1)..(Len(s) + Len(r)),
              (a \o z)[i].pid = (a \o z)[j].pid
       PROVE  i = j
  <2>1. PICK k, l : k = i - Len(s) /\ l = j - Len(s)
    OBVIOUS
  <2>2. /\ k \in 1..Len(r) /\ l \in 1..Len(r) /\ i = k + Len(s) /\ j = l + Len(s)
        /\ (a \o z)[i] = z[k] /\ (a \o z)[j] = z[l]
    <3> HIDE DEF a, z, s, r
    <3>1. PICK x, y : x = Len(s) /\ y = Len(r)
      OBVIOUS
    <3>a. x \in Nat /\ y \in Nat
      BY <1>2, <3>1
    <3>2. k = i - x /\ l = j - x /\ i \in (x + 1)..(x + y) /\ j \in (x + 1)..(x + y)
      BY <1>7b, <2>1, <3>1
    <3>3. k \in 1..y /\ l \in 1..y /\ i = k + x /\ j = l + x /\ i \in 1..(x + y) /\ j \in 1..(x + y) /\ ~(i <= x) /\ ~(j <= x)
      BY <3>2, <3>a
    <3>4. (a \o z)[i] = z[i - x] /\ (a \o z)[j] = z[j - x]
      BY <1>5, <3>1, <3>3
    <3> QED
      BY <3>1, <3>2, <3>3, <3>4
  <2>3. z[k].pid = r[k] /\ z[l].pid = r[l]
    BY <1>2, <2>2
  <2>4. r[k] = r[l]
    <3> HIDE DEF a, z, s, r
    <3> QED
      BY <1>7b, <2>2, <2>3
  <2>5. IsInjective(r)
    BY WordAssumption DEF WordAssumption
  <2>6. k = l
    BY <1>2, <2>2, <2>4, <2>5 DEF IsInjective
  <2> QED
    BY <2>2, <2>6
<1> HIDE DEF a, z, O
<1>8. programs[t].ops = a \o z /\ programs[t].resetOpsStart = Len(s)
  BY <1>4
<1>9. Len(programs[t].ops) = Len(s) + Len(r) /\ Len(programs[t].ops) \in Nat /\ Len(s) <= Len(programs[t].ops)
  <2> HIDE DEF s, r
  <2>1. Len(programs[t].ops) = Len(a \o z)
    BY <1>8
  <2> QED
    BY <1>2, <1>5, <2>1
<1>10. \A i \in 1..Len(s) : programs[t].ops[i] = [op |-> OpcodeOf(t, s[i]), pid |-> s[i]] /\ s[i] \in InputPlaces(t)
  BY <1>6, <1>8
<1>11. \A i \in 1..Len(programs[t].ops) : i > Len(s) => programs[t].ops[i].op = "RESET" /\ programs[t].ops[i].pid \in Resets[t]
  BY <1>7, <1>8, <1>9
<1>12. \A p \in Resets[t] : \E i \in (Len(s) + 1)..Len(programs[t].ops) : programs[t].ops[i].pid = p
  <2> HIDE DEF s, r
  <2> QED
    BY <1>7a, <1>8, <1>9
<1>13. \A i, j \in (Len(s) + 1)..Len(programs[t].ops) : programs[t].ops[i].pid = programs[t].ops[j].pid => i = j
  <2> HIDE DEF s, r
  <2>1. PICK c, m, n : c = a \o z /\ m = Len(s) /\ n = Len(s) + Len(r)
    OBVIOUS
  <2>2. \A i, j \in (m + 1)..n : c[i].pid = c[j].pid => i = j
    BY <1>7b, <2>1
  <2>3. programs[t].ops = c /\ Len(programs[t].ops) = n
    BY <1>8, <1>9, <2>1
  <2> QED
    BY <2>1, <2>2, <2>3
<1> QED
  BY <1>2, <1>8, <1>9, <1>10, <1>11, <1>12, <1>13

\* The inputs come first, and resetOpsStart is where they end.
LEMMA ProgramLengths ==
  ASSUME NEW t \in Transitions
  PROVE  /\ programs[t].resetOpsStart = Len(InputSpecs[t])
         /\ Len(InputSpecs[t]) \in Nat /\ Len(programs[t].ops) \in Nat
  BY ProgramShape

\* Where an input takes its tokens from.
Pool(t, p) == IF p \in Keys[t] /\ matched[t] # NoName THEN Named(queues[p], matched[t]) ELSE queues[p]

\* An input opcode has still to take the first tokens of its pool: all of them if it takes all,
\* what is missing if it takes a number, which its pool has.
LEMMA TakenByInput ==
  ASSUME queues \in [Places -> Seq(Token)], consumed \in [Transitions -> [Places -> Seq(Token)]],
         NEW t \in Transitions, NEW p \in InputPlaces(t), NEW o, o = [op |-> OpcodeOf(t, p), pid |-> p]
  PROVE  /\ Pool(t, p) \in Seq(Token)
         /\ TakenBy(t, o, queues) \in Seq(Token)
         /\ \E k \in 0..Len(Pool(t, p)) :
              /\ TakenBy(t, o, queues) = SubSeq(Pool(t, p), 1, k)
              /\ Len(TakenBy(t, o, queues)) = k
              /\ p \in TakesAll[t] => k = Len(Pool(t, p))
              /\ /\ p \notin TakesAll[t]
                 /\ Len(consumed[t][p]) < Required[t][p]
                 /\ Len(consumed[t][p]) + Len(Pool(t, p)) >= Required[t][p]
                 => k = Required[t][p] - Len(consumed[t][p])
<1> DEFINE pool == Pool(t, p)
           given == Len(consumed[t][p])
           want == CASE o.op = "CONSUME_ONE" -> 1
                     [] o.op = "CONSUME_N" -> Required[t][p] - given
                     [] OTHER -> Len(pool)
           w == IF want <= Len(pool) THEN want ELSE Len(pool)
           k == IF w < 0 THEN 0 ELSE w
<1>1. /\ p \in Places /\ queues[p] \in Seq(Token) /\ Required[t][p] \in Nat /\ Required[t][p] > 0
      /\ given \in Nat
  <2>1. p \in Places
    BY ArcsTyped
  <2>2. consumed[t][p] \in Seq(Token)
    BY <2>1
  <2> QED
    BY <2>1, <2>2, ArcsTyped, LenProperties
<1>2. pool \in Seq(Token)
  BY <1>1, PartsTyped DEF Pool
<1>3. Len(pool) \in Nat /\ \A i \in 1..Len(pool) : pool[i] \in Token
  BY <1>2, LenProperties, ElementOfSeq
<1>4. o.op \in {"CONSUME_ALL", "CONSUME_ATLEAST", "CONSUME_ONE", "CONSUME_N"} /\ o.pid = p
  BY DEF OpcodeOf
<1>5. TakenBy(t, o, queues) = SubSeq(pool, 1, w)
  BY <1>4 DEF TakenBy, Pool
<1>6. /\ o.op = "CONSUME_ONE" => Required[t][p] = 1
      /\ p \notin TakesAll[t] => o.op \in {"CONSUME_ONE", "CONSUME_N"}
      /\ p \in TakesAll[t] => o.op \notin {"CONSUME_ONE", "CONSUME_N"}
  BY DEF OpcodeOf
<1> HIDE DEF pool, given
<1>7. k \in 0..Len(pool) /\ w \in Int /\ (p \in TakesAll[t] => k = Len(pool))
  BY <1>1, <1>3, <1>4, <1>6
<1>8. p \notin TakesAll[t] /\ given < Required[t][p] /\ given + Len(pool) >= Required[t][p]
        => k = Required[t][p] - given
  BY <1>1, <1>3, <1>4, <1>6
<1> HIDE DEF want
<1>9. SubSeq(pool, 1, w) = SubSeq(pool, 1, k)
  <2>1. CASE w < 0
    <3>1. k = 0
      BY <2>1
    <3> QED
      BY <1>7, <2>1, <3>1, SubSeqEmpty
  <2>2. CASE ~(w < 0)
    BY <2>2
  <2> QED
    BY <2>1, <2>2
<1> HIDE DEF k, w
<1>10. SubSeq(pool, 1, k) \in Seq(Token) /\ Len(SubSeq(pool, 1, k)) = k
  <2>1. \A i \in 1..k : pool[i] \in Token
    BY <1>3, <1>7
  <2>2. 1 \in Int /\ k \in Int /\ (IF 1 <= k THEN k - 1 + 1 ELSE 0) = k
    BY <1>3, <1>7
  <2>3. /\ SubSeq(pool, 1, k) \in Seq(Token)
        /\ Len(SubSeq(pool, 1, k)) = IF 1 <= k THEN k - 1 + 1 ELSE 0
    BY <2>1, <2>2, SubSeqProperties
  <2> QED
    BY <2>2, <2>3
<1> QED
  BY <1>2, <1>5, <1>7, <1>8, <1>9, <1>10 DEF pool, given

\* The first token of a sequence, if it has one.
LEMMA SubSeqOfEmpty == SubSeq(<<>>, 1, 1) = <<>>
  OBVIOUS

\* One token at most.
LEMMA FirstOf ==
  ASSUME NEW s \in Seq(Token)
  PROVE  /\ SubSeq(s, 1, 1) \in Seq(Token)
         /\ SubSeq(s, 1, 1) = IF s = <<>> THEN <<>> ELSE <<s[1]>>
         /\ Len(SubSeq(s, 1, 1)) = IF Len(s) = 0 THEN 0 ELSE 1
<1>1. CASE s = <<>>
  BY <1>1, SubSeqOfEmpty, EmptySeq
<1>2. CASE s # <<>>
  <2>1. Len(s) \in Nat \ {0} /\ s[1] \in Token
    BY <1>2, EmptySeq, LenProperties, ElementOfSeq
  <2>2. /\ SubSeq(s, 1, 1) \in Seq(Token) /\ Len(SubSeq(s, 1, 1)) = 1
        /\ SubSeq(s, 1, 1)[1] = s[1]
    <3>1. \A i \in 1..1 : s[i] \in Token
      BY <2>1
    <3>2. 1 \in 1..(1 - 1 + 1) /\ s[1 + 1 - 1] = s[1] /\ (IF 1 <= 1 THEN 1 - 1 + 1 ELSE 0) = 1
      OBVIOUS
    <3>3. /\ SubSeq(s, 1, 1) \in Seq(Token)
          /\ Len(SubSeq(s, 1, 1)) = IF 1 <= 1 THEN 1 - 1 + 1 ELSE 0
          /\ \A i \in 1..(1 - 1 + 1) : SubSeq(s, 1, 1)[i] = s[1 + i - 1]
      BY <3>1, SubSeqProperties
    <3> QED
      BY <3>2, <3>3
  <2>3. SubSeq(s, 1, 1) = <<s[1]>>
    <3>1. <<s[1]>> \in Seq(Token) /\ Len(<<s[1]>>) = 1 /\ <<s[1]>>[1] = s[1]
      BY <2>1
    <3>2. PICK a, b : a = SubSeq(s, 1, 1) /\ b = <<s[1]>>
      OBVIOUS
    <3>3. a \in Seq(Token) /\ b \in Seq(Token) /\ Len(a) = 1 /\ Len(b) = 1 /\ a[1] = b[1]
      BY <2>2, <3>1, <3>2
    <3>4. a = b
      BY <3>3, SeqEqual
    <3> QED
      BY <3>2, <3>4
  <2> QED
    BY <1>2, <2>1, <2>2, <2>3
<1> QED
  BY <1>1, <1>2

\* A reset takes the whole queue.
LEMMA TakenByReset ==
  ASSUME queues \in [Places -> Seq(Token)], NEW t \in Transitions,
         NEW o, o.op = "RESET", o.pid \in Places
  PROVE  TakenBy(t, o, queues) \in Seq(Token) /\ TakenBy(t, o, queues) = queues[o.pid]
<1> DEFINE q == queues[o.pid]
<1>1. q \in Seq(Token) /\ Len(q) \in Nat
  BY LenProperties
<1>2. TakenBy(t, o, queues) = SubSeq(q, 1, Len(q))
  BY <1>1 DEF TakenBy
<1>3. SubSeq(q, 1, Len(q)) = q
  <2> HIDE DEF q
  <2> QED
    BY <1>1, SubSeqFull
<1> QED
  BY <1>1, <1>2, <1>3

-----------------------------------------------------------------------------
(* The steps.                                                              *)

\* Steps that move no token, no flag and no firing.
Waits ==
  \/ FireDone \/ AwaitEnter \/ FlushReturn \/ Park \/ Resume
  \/ TimerFires \/ Tick \/ Drain \/ Close
  \/ UNCHANGED vars

\* A completion comes to its end, reached or thrown.
CompletionEnds == pc = "deposit" /\ EndCompletion

\* A step is one of these.
LEMMA StepCases ==
  ASSUME [Next]_vars
  PROVE  \/ Waits \/ Run \/ Deposit \/ BeginExternal \/ AdmitThrow \/ Admit \/ EndExternal
         \/ CompletionEnds /\ (SettleCompletion \/ DepositThrow)
         \/ updateDirtyTransitions \/ enforceDeadlines \/ Decide \/ ExecuteOp \/ PeekReads
         \/ FireStart \/ FireRegister \/ FireThrow \/ Exit
         \/ \E t \in Transitions : CompleteFailed(t) \/ CompleteOk(t) \/ FireSkip(t) \/ FireBegin(t) \/ ActionSettles(t)
         \/ \E p \in EnvPlaces, n \in Names \cup {NoName} : Inject(p, n)
  BY DEF Next, Orchestrate, Terminated, Waits, SettleCompletion, DepositThrow, CompletionEnds

\* Waiting moves only the program counter, and within the waiting part of the loop.
LEMMA WaitsFrame ==
  ASSUME Waits
  PROVE  /\ UNCHANGED <<queues, bits, cache, sched, flights, ext, pass, minted>>
         /\ \/ pc' = pc
            \/ pc \in {"fire", "await", "flush", "parked"} /\ pc' \in {"completions", "await", "flush", "parked"}
<1>1. CASE FireDone
  BY <1>1 DEF FireDone
<1>2. CASE AwaitEnter
  BY <1>2 DEF AwaitEnter
<1>3. CASE FlushReturn \/ Park \/ Resume
  BY <1>3 DEF FlushReturn, Park, Resume
<1>4. CASE TimerFires \/ Tick
  BY <1>4 DEF TimerFires, Tick
<1>5. CASE Drain \/ Close
  BY <1>5 DEF Drain, Close
<1>6. CASE UNCHANGED vars
  BY <1>6 DEF vars
<1> QED
  BY <1>1, <1>2, <1>3, <1>4, <1>5, <1>6 DEF Waits

\* Marking keeps the dirty words words.
LEMMA MarkedTyped ==
  ASSUME dirty \in [transitionWords -> SUBSET Nat], NEW S \in SUBSET Transitions
  PROVE  MarkedDirty(S) \in [transitionWords -> SUBSET Nat]
<1> DEFINE U == {u - 1 : u \in S}
<1>1. U \in SUBSET Nat
  BY TransitionWord
<1> HIDE DEF U
<1>2. \A w : BitsIn(U, w) \in SUBSET Nat
  BY <1>1, BitsTyped
<1> QED
  BY <1>2 DEF MarkedDirty, U

\* What a deposited token does to the state it is deposited in.
LEMMA ProduceEffect ==
  ASSUME TypeOK, NEW p \in Nat, NEW tok \in Token, produceToken(p, tok)
  PROVE  /\ TokensTyped' /\ dirty' \in [transitionWords -> SUBSET Nat]
         /\ UNCHANGED <<enabled, enabledCount>>
         /\ p \in Places =>
              /\ queues' = [queues EXCEPT ![p] = Append(queues[p], tok)]
              /\ \A q \in Places : HasBit(bits', q) <=> HasBit(bits, q) \/ q = p
              /\ dirty' = MarkedDirty(AffectedTransitions(p))
              /\ \A t \in Transitions :
                   cache'[t] = IF cache[t] # <<>> /\ p \in Keys[t] /\ tok.name # NoName
                               THEN <<[cache[t][1] EXCEPT ![p] = Append(cache[t][1][p], tok)]>>
                               ELSE cache[t]
         /\ p \notin Places => UNCHANGED <<queues, bits, cache, dirty>>
<1>1. CASE p \notin Places
  <2>1. UNCHANGED <<queues, bits, cache, dirty, enabled, enabledCount>>
    BY <1>1 DEF produceToken
  <2>2. TokensTyped'
    BY <2>1 DEF TypeOK, TokensTyped, CacheTyped
  <2> QED
    BY <1>1, <2>1, <2>2 DEF TypeOK, LoopTyped
<1>2. CASE p \in Places
  <2>1. /\ cache' = cacheAddToken(p, tok)
        /\ queues' = [queues EXCEPT ![p] = Append(queues[p], tok)]
        /\ bits' = SetBit(bits, p)
        /\ dirty' = MarkedDirty(AffectedTransitions(p))
        /\ UNCHANGED <<enabled, enabledCount>>
    BY <1>2 DEF produceToken
  <2>2. ASSUME NEW t \in Transitions
        PROVE  cache'[t] = IF cache[t] # <<>> /\ p \in Keys[t] /\ tok.name # NoName
                           THEN <<[cache[t][1] EXCEPT ![p] = Append(cache[t][1][p], tok)]>>
                           ELSE cache[t]
    BY <2>1 DEF cacheAddToken
  <2>3. queues' \in [Places -> Seq(Token)]
    <3>1. Append(queues[p], tok) \in Seq(Token)
      BY <1>2, AppendProperties DEF TypeOK, TokensTyped
    <3> QED
      BY <2>1, <3>1 DEF TypeOK, TokensTyped
  <2>4. bits' \in [placeWords -> SUBSET Nat] /\ \A q \in Places : HasBit(bits', q) <=> HasBit(bits, q) \/ q = p
    BY <1>2, <2>1, SetBitExact DEF TypeOK, TokensTyped
  <2>5. dirty' \in [transitionWords -> SUBSET Nat]
    <3>1. AffectedTransitions(p) \in SUBSET Transitions
      BY DEF AffectedTransitions
    <3> QED
      BY <2>1, <3>1, MarkedTyped DEF TypeOK, LoopTyped
  <2>6. ASSUME NEW t \in Transitions PROVE CacheTyped(t)'
    <3>1. CASE cache'[t] = cache[t]
      BY <3>1 DEF TypeOK, TokensTyped, CacheTyped
    <3>2. CASE cache[t] # <<>> /\ p \in Keys[t] /\ tok.name # NoName
      <4>1. cache[t][1] \in [Keys[t] -> Seq(Token)]
        BY <3>2 DEF TypeOK, TokensTyped, CacheTyped
      <4>2. Append(cache[t][1][p], tok) \in Seq(Token)
        BY <3>2, <4>1, AppendProperties
      <4>3. PICK c : c = [cache[t][1] EXCEPT ![p] = Append(cache[t][1][p], tok)]
        OBVIOUS
      <4>4. c \in [Keys[t] -> Seq(Token)]
        BY <4>1, <4>2, <4>3
      <4>5. cache'[t] = <<c>>
        BY <2>2, <3>2, <4>3
      <4> QED
        BY <4>4, <4>5 DEF CacheTyped
    <3> QED
      BY <2>2, <3>1, <3>2
  <2>7. cache' = [t \in Transitions |-> cache'[t]]
    BY <2>1 DEF cacheAddToken
  <2>8. TokensTyped'
    BY <2>3, <2>4, <2>6, <2>7 DEF TokensTyped
  <2> QED
    BY <1>2, <2>1, <2>2, <2>4, <2>5, <2>8
<1> QED
  BY <1>1, <1>2

-----------------------------------------------------------------------------
(* Types.                                                                  *)

\* The deposit at the head of an output, or at the cursor of the external queue.
LEMMA DepositTyped ==
  ASSUME TypeOK, PhaseOK
  PROVE  /\ pc = "deposit" /\ output[firing] # <<>> =>
              /\ firing \in Transitions
              /\ Head(output[firing]).pid \in Nat /\ Head(output[firing]).tok \in Token
              /\ Tail(output[firing]) \in Seq(Deposits)
         /\ cursor < prefix =>
              externalQueue[cursor + 1].pid \in Nat /\ externalQueue[cursor + 1].tok \in Token
<1>1. ASSUME pc = "deposit", output[firing] # <<>>
      PROVE  firing \in Transitions /\ Head(output[firing]) \in Deposits /\ Tail(output[firing]) \in Seq(Deposits)
  <2>1. firing \in Transitions
    BY <1>1 DEF PhaseOK
  <2>2. output[firing] \in Seq(Deposits)
    BY <2>1 DEF TypeOK, FlightsTyped
  <2> QED
    BY <1>1, <2>1, <2>2, HeadTailProperties
<1>2. ASSUME cursor < prefix PROVE externalQueue[cursor + 1] \in Deposits
  <2>1. cursor + 1 \in 1..Len(externalQueue) /\ externalQueue \in Seq(Deposits)
    BY <1>2, LenProperties DEF TypeOK, ExternalTyped
  <2> QED
    BY <2>1, ElementOfSeq
<1> QED
  BY <1>1, <1>2 DEF Deposits

\* The affected transitions of a firing.
LEMMA DirtiedTyped ==
  ASSUME NEW t \in Transitions
  PROVE  DirtiedBy(t) \in SUBSET Transitions
  BY DEF DirtiedBy, AffectedTransitions

\* A step keeps the loop typed.
LEMMA LoopStep ==
  ASSUME TypeOK, PhaseOK, [Next]_vars
  PROVE  LoopTyped'
<1> USE DEF TypeOK, LoopTyped
<1>0. PcValues = {"new", "completions", "deposit", "external", "update", "deadlines", "decide", "fire",
                  "await", "flush", "parked", "exit", "ended", "consume", "reset", "start"}
  BY DEF PcValues, FiringPcs
<1>1. CASE Waits
  BY <1>0, <1>1, WaitsFrame
<1>2. CASE Run
  <2>1. markAllDirty \in [transitionWords -> SUBSET Nat]
    <3>1. WORD_SIZE \in Nat \ {0} /\ NumTransitions \in Nat
      BY NetAssumption, WordAssumption DEF NetAssumption, WordAssumption
    <3>2. Bits \in SUBSET Nat /\ 0..((NumTransitions % WORD_SIZE) - 1) \in SUBSET Nat
      BY <3>1 DEF Bits
    <3> QED
      BY <3>2 DEF markAllDirty
  <2> QED
    BY <1>0, <1>2, <2>1 DEF Run
<1>3. CASE Deposit \/ Admit
  <2>1. dirty' \in [transitionWords -> SUBSET Nat] /\ enabled' = enabled
    BY <1>3, DepositTyped, ProduceEffect DEF Deposit, Admit
  <2>2. produced' \in [Places -> Nat]
    BY <1>3 DEF Deposit, Admit
  <2> QED
    BY <1>3, <2>1, <2>2 DEF Deposit, Admit
<1>4. CASE CompletionEnds
  <2>1. firing \in Transitions
    BY <1>4 DEF CompletionEnds, EndCompletion, PhaseOK
  <2>2. MarkedDirty({firing}) \in [transitionWords -> SUBSET Nat]
    BY <2>1, MarkedTyped
  <2>3. None \in [Places -> Nat]
    BY DEF None
  <2> QED
    BY <1>0, <1>4, <2>2, <2>3 DEF CompletionEnds, EndCompletion
<1>5. CASE BeginExternal \/ AdmitThrow \/ EndExternal \/ Exit
  BY <1>0, <1>5 DEF BeginExternal, AdmitThrow, EndExternal, Exit
<1>6. CASE updateDirtyTransitions
  <2>1. NoneDirty \in [transitionWords -> SUBSET Nat]
    BY DEF NoneDirty
  <2>2. DirtyBits \in SUBSET Transitions
    BY DEF DirtyBits
  <2> QED
    BY <1>0, <1>6, <2>1, <2>2 DEF updateDirtyTransitions
<1>7. CASE enforceDeadlines
  BY <1>0, <1>7 DEF enforceDeadlines, SwitchOff
<1>8. CASE Decide
  BY <1>0, <1>8 DEF Decide, ReadyTransitions
<1>9. CASE ExecuteOp \/ PeekReads
  <2>1. /\ pc' = pc \/ pc' = "reset"
        /\ op' = op \/ op' = op + 1
        /\ UNCHANGED <<dirty, enabled, ready, firing, produced, minted>>
    BY <1>9 DEF ExecuteOp, PeekReads
  <2> QED
    BY <1>0, <2>1
<1>10. CASE FireStart
  <2>1. firing \in Transitions
    BY <1>10 DEF FireStart, PhaseOK, FiringPcs
  <2>2. MarkedDirty(DirtiedBy(firing)) \in [transitionWords -> SUBSET Nat]
    BY <2>1, MarkedTyped, DirtiedTyped
  <2> QED
    BY <1>0, <1>10, <2>2 DEF FireStart
<1>11. CASE FireRegister
  BY <1>0, <1>11 DEF FireRegister, SwitchOff
<1>12. CASE FireThrow
  <2>1. firing \in Transitions
    BY <1>12 DEF FireThrow, PhaseOK, FiringPcs
  <2>2. MarkedDirty({firing} \cup DirtiedBy(firing)) \in [transitionWords -> SUBSET Nat]
    BY <2>1, MarkedTyped, DirtiedTyped
  <2> QED
    BY <1>0, <1>12, <2>2 DEF FireThrow, SwitchOff
<1>13. ASSUME NEW t \in Transitions, CompleteFailed(t) PROVE LoopTyped'
  <2>1. MarkedDirty({t}) \in [transitionWords -> SUBSET Nat]
    BY MarkedTyped
  <2> QED
    BY <1>13, <2>1 DEF CompleteFailed
<1>14. ASSUME NEW t \in Transitions, CompleteOk(t) \/ FireSkip(t) \/ FireBegin(t) PROVE LoopTyped'
  BY <1>0, <1>14 DEF CompleteOk, FireSkip, FireBegin, SwitchOff
<1>15. ASSUME NEW t \in Transitions, ActionSettles(t) PROVE LoopTyped'
  <2>1. minted' \in Nat
    <3>1. ASSUME NEW out \in Productions[t], Minted(Len(out)) PROVE minted' \in Nat
      <4>1. Len(out) \in Nat
        BY QueueAssumption, LenProperties DEF QueueAssumption
      <4> QED
        BY <3>1, <4>1 DEF Minted
    <3> QED
      BY <1>15, <3>1 DEF ActionSettles
  <2> QED
    BY <1>15, <2>1 DEF ActionSettles
<1>16. ASSUME NEW p \in EnvPlaces, NEW n \in Names \cup {NoName}, Inject(p, n) PROVE LoopTyped'
  BY <1>16 DEF Inject, Minted
<1> QED
  BY <1>1, <1>2, <1>3, <1>4, <1>5, <1>6, <1>7, <1>8, <1>9, <1>10, <1>11, <1>12, <1>13, <1>14, <1>15, <1>16, StepCases

\* What the input opcode for p has still to take.
Due(p) == TakenBy(firing, [op |-> OpcodeOf(firing, p), pid |-> p], queues)

\* The opcode at hand takes taken from p: the next token it is due, or all there is.
OpTakes(p, taken) ==
  /\ queues' = [queues EXCEPT ![p] = Without(queues[p], taken)]
  /\ consumed' = [consumed EXCEPT ![firing] = [consumed[firing] EXCEPT ![p] = consumed[firing][p] \o taken]]
  /\ \/ /\ pc = "consume" /\ op \in 1..Len(InputSpecs[firing])
        /\ p = InputSpecs[firing][op] /\ p \in InputPlaces(firing)
        /\ taken = SubSeq(Due(p), 1, 1)
        /\ op' = IF Len(Due(p)) <= 1 THEN op + 1 ELSE op
     \/ /\ pc = "reset" /\ op \in 1..Len(Program.ops)
        /\ p = Program.ops[op].pid /\ p \in Resets[firing]
        /\ taken = queues[p]
        /\ op' = op + 1

\* An opcode takes a sequence of tokens from a place its transition consumes from.
LEMMA OpEffect ==
  ASSUME TypeOK, PhaseOK, ExecuteOp
  PROVE  /\ firing \in Transitions /\ op' \in {op, op + 1} /\ op \in Nat
         /\ UNCHANGED <<pc, bits, cache, sched, flight, output, matched, seen, completionQueue, ext,
                        ready, firing, produced, minted>>
         /\ \E p \in ConsumptionPlaces(firing), taken \in Seq(Token) : p \in Places /\ OpTakes(p, taken)
<1>0. ASSUME NEW q \in ConsumptionPlaces(firing), NEW gone \in Seq(Token), q \in Places, OpTakes(q, gone)
      PROVE  \E r \in ConsumptionPlaces(firing), s \in Seq(Token) : r \in Places /\ OpTakes(r, s)
  BY <1>0
<1> DEFINE o == Program.ops[op]
           p == o.pid
           due == TakenBy(firing, o, queues)
           taken == IF o.op = "RESET" THEN due ELSE SubSeq(due, 1, 1)
<1> HIDE DEF o, p, due, taken
<1>1. /\ \/ pc = "consume" /\ op <= Program.resetOpsStart
         \/ pc = "reset" /\ op <= Len(Program.ops)
      /\ queues' = [queues EXCEPT ![p] = Without(queues[p], taken)]
      /\ consumed' = [consumed EXCEPT ![firing] = [consumed[firing] EXCEPT ![p] = consumed[firing][p] \o taken]]
      /\ op' = IF o.op = "RESET" \/ Len(due) <= 1 THEN op + 1 ELSE op
      /\ UNCHANGED <<pc, bits, cache, sched, flight, output, matched, seen, completionQueue, ext,
                     ready, firing, produced, minted>>
  <2>1. queues' = [queues EXCEPT ![p] = Without(queues[p], taken)]
    BY DEF ExecuteOp, o, p, due, taken
  <2>2. consumed' = [consumed EXCEPT ![firing] = [consumed[firing] EXCEPT ![p] = consumed[firing][p] \o taken]]
    BY DEF ExecuteOp, o, p, due, taken
  <2> QED
    BY <2>1, <2>2, Zenon DEF ExecuteOp, o, p, due, taken
<1>2. firing \in Transitions /\ op \in Nat
  BY <1>1 DEF PhaseOK, FiringPcs, TypeOK, LoopTyped
<1>3. /\ programs[firing].resetOpsStart = Len(InputSpecs[firing])
      /\ Len(InputSpecs[firing]) \in Nat /\ Len(programs[firing].ops) \in Nat
      /\ \A i \in 1..Len(InputSpecs[firing]) :
           /\ programs[firing].ops[i] = [op |-> OpcodeOf(firing, InputSpecs[firing][i]), pid |-> InputSpecs[firing][i]]
           /\ InputSpecs[firing][i] \in InputPlaces(firing)
      /\ \A i \in 1..Len(programs[firing].ops) : i > Len(InputSpecs[firing]) =>
           programs[firing].ops[i].op = "RESET" /\ programs[firing].ops[i].pid \in Resets[firing]
  BY <1>2, ProgramShape, Zenon
<1>4. queues \in [Places -> Seq(Token)] /\ consumed \in [Transitions -> [Places -> Seq(Token)]]
  BY DEF TypeOK, TokensTyped, FlightsTyped
<1>5. ASSUME pc = "consume"
      PROVE  \E q \in ConsumptionPlaces(firing), gone \in Seq(Token) : q \in Places /\ OpTakes(q, gone)
  <2>1. op \in 1..Len(InputSpecs[firing])
    <3>1. op <= Program.resetOpsStart /\ op \in 1..(Len(InputSpecs[firing]) + 1)
      BY <1>1, <1>5 DEF PhaseOK
    <3> QED
      BY <1>2, <1>3, <3>1 DEF Program
  <2>2. /\ o = [op |-> OpcodeOf(firing, InputSpecs[firing][op]), pid |-> InputSpecs[firing][op]]
        /\ p = InputSpecs[firing][op] /\ p \in InputPlaces(firing)
    BY <1>3, <2>1 DEF Program, o, p
  <2>3. due \in Seq(Token) /\ due = Due(p)
    BY <1>2, <1>4, <2>2, TakenByInput DEF due, Due
  <2>a. o.op # "RESET"
    BY <2>2 DEF OpcodeOf
  <2>b. taken = SubSeq(Due(p), 1, 1) /\ taken \in Seq(Token)
    <3>1. taken = SubSeq(due, 1, 1)
      BY <2>a DEF taken
    <3>2. SubSeq(due, 1, 1) \in Seq(Token)
      BY <2>3, FirstOf
    <3> QED
      BY <2>3, <3>1, <3>2
  <2>4. p \in ConsumptionPlaces(firing) /\ p \in Places
    BY <1>2, <2>2, ArcsTyped DEF ConsumptionPlaces
  <2>5. OpTakes(p, taken)
    BY <1>1, <1>5, <2>1, <2>2, <2>3, <2>a, <2>b DEF OpTakes
  <2> QED
    BY <1>0, <2>b, <2>4, <2>5
<1>6. ASSUME pc = "reset"
      PROVE  \E q \in ConsumptionPlaces(firing), gone \in Seq(Token) : q \in Places /\ OpTakes(q, gone)
  <2>1. op \in 1..Len(Program.ops) /\ op > Len(InputSpecs[firing])
    <3>1. op <= Len(Program.ops) /\ op \in (Len(InputSpecs[firing]) + 1)..(Len(Program.ops) + 1)
      BY <1>1, <1>6 DEF PhaseOK
    <3> QED
      BY <1>2, <1>3, <3>1 DEF Program
  <2>2. o.op = "RESET" /\ p \in Resets[firing]
    BY <1>3, <2>1 DEF Program, o, p
  <2>3. p \in ConsumptionPlaces(firing) /\ p \in Places
    BY <1>2, <2>2, ArcsTyped DEF ConsumptionPlaces
  <2>4. taken \in Seq(Token) /\ taken = queues[p]
    BY <1>2, <1>4, <2>2, <2>3, TakenByReset DEF taken, due, p
  <2>5. p = Program.ops[op].pid
    BY DEF o, p
  <2>6. OpTakes(p, taken)
    BY <1>1, <1>6, <2>1, <2>2, <2>4, <2>5 DEF OpTakes
  <2> QED
    BY <1>0, <2>3, <2>4, <2>6
<1>7. \E q \in ConsumptionPlaces(firing), gone \in Seq(Token) : q \in Places /\ OpTakes(q, gone)
  BY <1>1, <1>5, <1>6
<1> QED
  BY <1>1, <1>2, <1>7, Zenon

\* The words of a mask are words.
LEMMA MaskTyped ==
  ASSUME NEW S \in SUBSET Places
  PROVE  MaskOf(S) \in [placeWords -> SUBSET Nat]
<1>1. S \in SUBSET Nat
  BY PlaceWord
<1> QED
  BY <1>1, BitsTyped DEF MaskOf

\* A match cache stays one when its tokens are consumed.
LEMMA ConsumedTyped ==
  ASSUME NEW t \in Transitions, NEW c, NEW n,
         c # <<>> => c = <<c[1]>> /\ c[1] \in [Keys[t] -> Seq(Token)], NEW d, d = CacheConsumed(c, t, n)
  PROVE  /\ d # <<>> => c # <<>> /\ d = <<d[1]>> /\ d[1] \in [Keys[t] -> Seq(Token)]
         /\ c # <<>> /\ n # NoName =>
              \A p \in Keys[t] : d[1][p] = Without(c[1][p], SubSeq(Named(c[1][p], n), 1, Required[t][p]))
<1>1. CASE c = <<>> \/ n = NoName
  BY <1>1 DEF CacheConsumed
<1>2. CASE ~(c = <<>> \/ n = NoName)
  <2> DEFINE e == [p \in Keys[t] |-> Without(c[1][p], SubSeq(Named(c[1][p], n), 1, Required[t][p]))]
  <2>1. d = <<e>>
    BY <1>2 DEF CacheConsumed
  <2>2. e \in [Keys[t] -> Seq(Token)]
    BY <1>2, PartsTyped
  <2>3. \A p \in Keys[t] : e[p] = Without(c[1][p], SubSeq(Named(c[1][p], n), 1, Required[t][p]))
    OBVIOUS
  <2> HIDE DEF e
  <2> QED
    BY <1>2, <2>1, <2>2, <2>3
<1> QED
  BY <1>1, <1>2

\* A step keeps queues, words and matchers typed.
LEMMA TokensStep ==
  ASSUME TypeOK, PhaseOK, [Next]_vars
  PROVE  TokensTyped'
<1>0. ASSUME UNCHANGED <<queues, bits, cache>> PROVE TokensTyped'
  BY <1>0 DEF TypeOK, TokensTyped, CacheTyped
<1>1. CASE Waits
  BY <1>0, <1>1, WaitsFrame
<1>2. CASE Run
  <2>1. {p \in Places : queues[p] # <<>>} \in SUBSET Places
    OBVIOUS
  <2>2. bits' \in [placeWords -> SUBSET Nat] /\ UNCHANGED <<queues, cache>>
    BY <1>2, <2>1, MaskTyped DEF Run
  <2> QED
    BY <2>2 DEF TypeOK, TokensTyped, CacheTyped
<1>3. CASE Deposit \/ Admit
  BY <1>3, DepositTyped, ProduceEffect DEF Deposit, Admit
<1>4. CASE CompletionEnds \/ BeginExternal \/ AdmitThrow \/ EndExternal \/ Exit
  BY <1>0, <1>4 DEF CompletionEnds, EndCompletion, BeginExternal, AdmitThrow, EndExternal, Exit
<1>5. CASE updateDirtyTransitions \/ enforceDeadlines \/ Decide
  BY <1>0, <1>5 DEF updateDirtyTransitions, enforceDeadlines, Decide
<1>6. CASE ExecuteOp
  <2>1. PICK p \in ConsumptionPlaces(firing), taken \in Seq(Token) : p \in Places /\ OpTakes(p, taken)
    BY <1>6, OpEffect
  <2>2. Without(queues[p], taken) \in Seq(Token)
    BY <2>1, PartsTyped DEF TypeOK, TokensTyped
  <2>3. queues' \in [Places -> Seq(Token)]
    BY <2>1, <2>2 DEF OpTakes, TypeOK, TokensTyped
  <2> QED
    BY <1>6, <2>3, OpEffect DEF TypeOK, TokensTyped, CacheTyped
<1>7. CASE PeekReads \/ FireRegister
  BY <1>0, <1>7 DEF PeekReads, FireRegister
<1>8. CASE FireStart
  <2>1. firing \in Transitions
    BY <1>8 DEF FireStart, PhaseOK, FiringPcs
  <2>2. bits' \in [placeWords -> SUBSET Nat] /\ UNCHANGED <<queues, cache>>
    BY <1>8, <2>1, EmptiedExact DEF FireStart, updateBitmapAfterConsumption, TypeOK, TokensTyped
  <2> QED
    BY <2>2 DEF TypeOK, TokensTyped, CacheTyped
<1>9. CASE FireThrow
  <2>1. firing \in Transitions
    BY <1>9 DEF FireThrow, PhaseOK, FiringPcs
  <2>2. bits' \in [placeWords -> SUBSET Nat] /\ queues' = queues /\ cache' = [cache EXCEPT ![firing] = <<>>]
    BY <1>9, <2>1, EmptiedExact DEF FireThrow, DroppedCache, updateBitmapAfterConsumption, TypeOK, TokensTyped
  <2>3. cache' = [t \in Transitions |-> cache'[t]]
    BY <2>2 DEF TypeOK, TokensTyped
  <2>4. \A t \in Transitions : CacheTyped(t)'
    BY <2>2 DEF TypeOK, TokensTyped, CacheTyped
  <2> QED
    BY <2>2, <2>3, <2>4 DEF TypeOK, TokensTyped
<1>10. ASSUME NEW t \in Transitions, CompleteFailed(t) \/ CompleteOk(t) \/ FireSkip(t) \/ ActionSettles(t)
       PROVE  TokensTyped'
  BY <1>0, <1>10 DEF CompleteFailed, CompleteOk, FireSkip, ActionSettles
<1>11. ASSUME NEW t \in Transitions, FireBegin(t) PROVE TokensTyped'
  <2>1. PICK n : cache' = [cache EXCEPT ![t] = CacheConsumed(cache[t], t, n)] /\ UNCHANGED <<queues, bits>>
    BY <1>11 DEF FireBegin
  <2>2. cache' = [u \in Transitions |-> cache'[u]]
    BY <2>1 DEF TypeOK, TokensTyped
  <2>3. ASSUME NEW u \in Transitions PROVE CacheTyped(u)'
    <3>1. CASE u # t
      BY <2>1, <3>1 DEF TypeOK, TokensTyped, CacheTyped
    <3>2. CASE u = t
      <4>1. cache'[t] = CacheConsumed(cache[t], t, n)
        BY <2>1 DEF TypeOK, TokensTyped
      <4>2. cache[t] # <<>> => cache[t] = <<cache[t][1]>> /\ cache[t][1] \in [Keys[t] -> Seq(Token)]
        BY DEF TypeOK, TokensTyped, CacheTyped
      <4>3. PICK d : d = cache'[t]
        OBVIOUS
      <4>4. d # <<>> => d = <<d[1]>> /\ d[1] \in [Keys[t] -> Seq(Token)]
        <5>1. PICK c : c = cache[t]
          OBVIOUS
        <5>2. d = CacheConsumed(c, t, n) /\ (c # <<>> => c = <<c[1]>> /\ c[1] \in [Keys[t] -> Seq(Token)])
          BY <4>1, <4>2, <4>3, <5>1, Zenon
        <5> QED
          BY <5>2, ConsumedTyped
      <4>5. cache'[t] # <<>> => cache'[t] = <<cache'[t][1]>> /\ cache'[t][1] \in [Keys[t] -> Seq(Token)]
        BY <4>3, <4>4, Zenon
      <4> QED
        BY <3>2, <4>5 DEF CacheTyped
    <3> QED
      BY <3>1, <3>2
  <2> QED
    BY <2>1, <2>2, <2>3 DEF TypeOK, TokensTyped
<1>12. ASSUME NEW p \in EnvPlaces, NEW n \in Names \cup {NoName}, Inject(p, n) PROVE TokensTyped'
  BY <1>0, <1>12 DEF Inject
<1> QED
  BY <1>1, <1>2, <1>3, <1>4, <1>5, <1>6, <1>7, <1>8, <1>9, <1>10, <1>11, <1>12, StepCases

\* A function on 1..n is a sequence.
LEMMA FunctionsAreSequences ==
  ASSUME NEW S, NEW n \in Nat, NEW f \in [1..n -> S]
  PROVE  f \in Seq(S) /\ Len(f) = n
  OBVIOUS

\* What an action writes is a sequence of deposits.
LEMMA WrittenTyped ==
  ASSUME TypeOK, NEW t \in Transitions, NEW out \in Productions[t]
  PROVE  Written(t, out) \in Seq(Deposits) /\ Len(out) \in Nat
<1>1. out \in Seq([pid : Nat, name : {"matched", "fresh"}])
  BY QueueAssumption DEF QueueAssumption
<1>2. Len(out) \in Nat /\ DOMAIN out = 1..Len(out)
  BY <1>1, LenProperties
<1>3. \A i \in 1..Len(out) : out[i].pid \in Nat
  <2>1. \A i \in 1..Len(out) : out[i] \in [pid : Nat, name : {"matched", "fresh"}]
    BY <1>1, ElementOfSeq
  <2> QED
    BY <2>1
<1>4. matched[t] \in Names \cup {NoName} /\ minted \in Nat
  BY DEF TypeOK, FlightsTyped, LoopTyped
<1>5. ASSUME NEW i \in 1..Len(out), NEW n \in Names \cup {NoName}
      PROVE  [pid |-> out[i].pid, tok |-> [id |-> minted + i, name |-> n]] \in Deposits
  <2>1. minted + i \in Nat
    BY <1>2, <1>4
  <2> QED
    BY <1>3, <2>1 DEF Deposits, Token
<1>6. Written(t, out) \in [1..Len(out) -> Deposits]
  BY <1>2, <1>4, <1>5 DEF Written
<1> QED
  BY <1>2, <1>6, FunctionsAreSequences

\* Giving up what a firing held leaves sequences of tokens.
LEMMA ReleasedTyped ==
  ASSUME consumed \in [Transitions -> [Places -> Seq(Token)]], NEW t
  PROVE  Released(t) \in [Transitions -> [Places -> Seq(Token)]]
<1>1. [p \in Places |-> <<>>] \in [Places -> Seq(Token)]
  BY EmptySeq
<1> QED
  BY <1>1 DEF Released

\* A step keeps what the actions hold typed; a join is bound to a name, or to none.
LEMMA FlightsStep ==
  ASSUME TypeOK, PhaseOK, MatchersExact, [Next]_vars
  PROVE  FlightsTyped'
<1>0. ASSUME UNCHANGED flights PROVE FlightsTyped'
  BY <1>0 DEF TypeOK, FlightsTyped
<1>1. CASE Waits
  BY <1>0, <1>1, WaitsFrame
<1>2. CASE Run \/ Admit \/ BeginExternal \/ AdmitThrow \/ EndExternal \/ Exit
  BY <1>0, <1>2 DEF Run, Admit, BeginExternal, AdmitThrow, EndExternal, Exit
<1>3. CASE Deposit
  <2>1. firing \in Transitions /\ Tail(output[firing]) \in Seq(Deposits)
    BY <1>3, DepositTyped DEF Deposit
  <2>2. output' = [output EXCEPT ![firing] = Tail(output[firing])]
    BY <1>3 DEF Deposit
  <2>3. output' \in [Transitions -> Seq(Deposits)]
    BY <2>1, <2>2 DEF TypeOK, FlightsTyped
  <2> QED
    BY <1>3, <2>3 DEF Deposit, TypeOK, FlightsTyped
<1>4. CASE CompletionEnds
  <2>1. completionQueue' \in Seq(Transitions)
    BY <1>4, EmptySeq DEF CompletionEnds, EndCompletion, TypeOK, FlightsTyped
  <2>2. output' \in [Transitions -> Seq(Deposits)]
    BY <1>4, EmptySeq DEF CompletionEnds, EndCompletion, TypeOK, FlightsTyped
  <2>3. consumed' \in [Transitions -> [Places -> Seq(Token)]]
    BY <1>4, ReleasedTyped DEF CompletionEnds, EndCompletion, TypeOK, FlightsTyped
  <2> QED
    BY <1>4, <2>1, <2>2, <2>3 DEF CompletionEnds, EndCompletion, TypeOK, FlightsTyped
<1>5. CASE updateDirtyTransitions \/ enforceDeadlines \/ Decide \/ FireStart
  BY <1>0, <1>5 DEF updateDirtyTransitions, enforceDeadlines, Decide, FireStart
<1>6. CASE ExecuteOp
  <2>1. PICK p \in ConsumptionPlaces(firing), taken \in Seq(Token) : p \in Places /\ OpTakes(p, taken)
    BY <1>6, OpEffect
  <2>2. firing \in Transitions /\ consumed[firing] \in [Places -> Seq(Token)]
    BY <1>6, OpEffect DEF TypeOK, FlightsTyped
  <2>3. consumed[firing][p] \o taken \in Seq(Token)
    BY <2>1, <2>2, ConcatProperties
  <2>4. PICK c : c = [consumed[firing] EXCEPT ![p] = consumed[firing][p] \o taken]
    OBVIOUS
  <2>5. c \in [Places -> Seq(Token)]
    BY <2>1, <2>2, <2>3, <2>4
  <2>6. consumed' = [consumed EXCEPT ![firing] = c]
    BY <2>1, <2>4 DEF OpTakes
  <2>7. consumed' \in [Transitions -> [Places -> Seq(Token)]]
    BY <2>2, <2>5, <2>6 DEF TypeOK, FlightsTyped
  <2> QED
    BY <1>6, <2>7, OpEffect DEF TypeOK, FlightsTyped
<1>7. CASE PeekReads
  <2>1. firing \in Transitions
    BY <1>7 DEF PeekReads, PhaseOK, FiringPcs
  <2>2. peekReadArcs(firing) \in SUBSET Places
    BY <2>1, ArcsTyped DEF peekReadArcs
  <2> QED
    BY <1>7, <2>1, <2>2 DEF PeekReads, TypeOK, FlightsTyped
<1>8. CASE FireRegister
  <2>1. firing \in Transitions
    BY <1>8 DEF FireRegister, PhaseOK, FiringPcs
  <2> QED
    BY <1>8, <2>1 DEF FireRegister, TypeOK, FlightsTyped
<1>9. CASE FireThrow
  <2>1. firing \in Transitions
    BY <1>9 DEF FireThrow, PhaseOK, FiringPcs
  <2>2. [p \in Places |-> <<>>] \in [Places -> Seq(Token)]
    BY EmptySeq
  <2>3. consumed' \in [Transitions -> [Places -> Seq(Token)]]
    BY <1>9, <2>1, <2>2 DEF FireThrow, TypeOK, FlightsTyped
  <2> QED
    BY <1>9, <2>1, <2>3 DEF FireThrow, TypeOK, FlightsTyped
<1>10. ASSUME NEW t \in Transitions, CompleteFailed(t) \/ CompleteOk(t) PROVE FlightsTyped'
  <2>1. completionQueue # <<>> /\ Unregister(t)
    BY <1>10 DEF CompleteFailed, CompleteOk, CompletionOf
  <2>2. <<>> \in Seq(Deposits)
    BY EmptySeq
  <2>3. consumed' \in [Transitions -> [Places -> Seq(Token)]]
    BY <1>10, ReleasedTyped DEF CompleteFailed, CompleteOk, TypeOK, FlightsTyped
  <2>4. output' \in [Transitions -> Seq(Deposits)]
    BY <1>10, <2>2 DEF CompleteFailed, CompleteOk, TypeOK, FlightsTyped
  <2>5. completionQueue' \in Seq(Transitions)
    BY <2>1, HeadTailProperties DEF Unregister, TypeOK, FlightsTyped
  <2> QED
    BY <2>1, <2>3, <2>4, <2>5 DEF Unregister, TypeOK, FlightsTyped
<1>11. ASSUME NEW t \in Transitions, FireSkip(t) PROVE FlightsTyped'
  BY <1>0, <1>11 DEF FireSkip
<1>12. ASSUME NEW t \in Transitions, FireBegin(t) PROVE FlightsTyped'
  <2> DEFINE n == IF Keys[t] = {} THEN NoName ELSE Binding(t)
  <2>1. n \in Names \cup {NoName}
    <3>1. CASE Keys[t] = {}
      BY <3>1
    <3>2. CASE Keys[t] # {}
      <4>1. Binding(t) = BindingIn(t, queues)
        BY <1>12, BindingExact DEF FireBegin, IsNext
      <4>2. \A p \in Keys[t] : queues[p] \in Seq(Token)
        BY ArcsTyped DEF TypeOK, TokensTyped
      <4> QED
        BY <3>2, <4>1, <4>2, BindingSupplied
    <3> QED
      BY <3>1, <3>2
  <2>2. matched' = [matched EXCEPT ![t] = n] /\ UNCHANGED <<flight, output, consumed, seen, completionQueue>>
    BY <1>12 DEF FireBegin
  <2> HIDE DEF n
  <2> QED
    BY <2>1, <2>2 DEF TypeOK, FlightsTyped
<1>13. ASSUME NEW t \in Transitions, ActionSettles(t) PROVE FlightsTyped'
  <2>1. completionQueue' \in Seq(Transitions)
    BY <1>13, AppendProperties DEF ActionSettles, TypeOK, FlightsTyped
  <2>2. flight' \in [Transitions -> {"idle", "running", "done", "failed"}]
    BY <1>13 DEF ActionSettles, TypeOK, FlightsTyped
  <2>3. output' \in [Transitions -> Seq(Deposits)]
    <3>1. ASSUME NEW out \in Productions[t], output' = [output EXCEPT ![t] = Written(t, out)]
          PROVE  output' \in [Transitions -> Seq(Deposits)]
      <4>1. Written(t, out) \in Seq(Deposits)
        BY WrittenTyped
      <4> QED
        BY <3>1, <4>1 DEF TypeOK, FlightsTyped
    <3>2. output' = output => output' \in [Transitions -> Seq(Deposits)]
      BY DEF TypeOK, FlightsTyped
    <3> QED
      BY <1>13, <3>1, <3>2 DEF ActionSettles
  <2> QED
    BY <1>13, <2>1, <2>2, <2>3 DEF ActionSettles, TypeOK, FlightsTyped
<1>14. ASSUME NEW p \in EnvPlaces, NEW n \in Names \cup {NoName}, Inject(p, n) PROVE FlightsTyped'
  BY <1>0, <1>14 DEF Inject
<1> QED
  BY <1>1, <1>2, <1>3, <1>4, <1>5, <1>6, <1>7, <1>8, <1>9, <1>10, <1>11, <1>12, <1>13, <1>14, StepCases

\* A step keeps the cursor within the prefix, and the prefix within the queue.
LEMMA ExternalStep ==
  ASSUME TypeOK, PhaseOK, [Next]_vars
  PROVE  ExternalTyped'
<1>0. ASSUME UNCHANGED <<externalQueue, cursor, prefix>> PROVE ExternalTyped'
  BY <1>0 DEF TypeOK, ExternalTyped
<1>00. externalQueue \in Seq(Deposits) /\ Len(externalQueue) \in Nat
  BY LenProperties DEF TypeOK, ExternalTyped
<1>1. CASE Waits
  BY <1>0, <1>1, WaitsFrame
<1>2. CASE Run \/ Deposit \/ CompletionEnds
  BY <1>0, <1>2 DEF Run, Deposit, CompletionEnds, EndCompletion
<1>3. CASE BeginExternal \/ AdmitThrow
  BY <1>00, <1>3 DEF BeginExternal, AdmitThrow, TypeOK, PhaseOK, ExternalTyped
<1>4. CASE Admit
  BY <1>00, <1>4 DEF Admit, TypeOK, ExternalTyped
<1>5. CASE EndExternal
  <2>1. Undeposited \in Seq(Deposits)
    <3>1. \A i \in (cursor + 1)..Len(externalQueue) : externalQueue[i] \in Deposits
      BY <1>00, ElementOfSeq DEF TypeOK, ExternalTyped
    <3>2. cursor + 1 \in Int /\ Len(externalQueue) \in Int
      BY <1>00 DEF TypeOK, ExternalTyped
    <3> QED
      BY <3>1, <3>2, SubSeqProperties DEF Undeposited
  <2>2. Len(Undeposited) \in Nat
    BY <2>1, LenProperties
  <2> QED
    BY <1>5, <2>1, <2>2 DEF EndExternal, ExternalTyped
<1>6. CASE Exit
  <2>1. cursor = 0 /\ prefix = 0 /\ UNCHANGED <<cursor, prefix>> /\ externalQueue' = <<>>
    BY <1>6 DEF Exit, PhaseOK
  <2> QED
    BY <2>1, EmptySeq DEF ExternalTyped
<1>7. CASE updateDirtyTransitions \/ enforceDeadlines \/ Decide
  BY <1>0, <1>7 DEF updateDirtyTransitions, enforceDeadlines, Decide
<1>8. CASE ExecuteOp
  BY <1>0, <1>8, OpEffect
<1>9. CASE PeekReads \/ FireStart \/ FireRegister \/ FireThrow
  BY <1>0, <1>9 DEF PeekReads, FireStart, FireRegister, FireThrow
<1>10. ASSUME NEW t \in Transitions,
              CompleteFailed(t) \/ CompleteOk(t) \/ FireSkip(t) \/ FireBegin(t) \/ ActionSettles(t)
       PROVE  ExternalTyped'
  BY <1>0, <1>10 DEF CompleteFailed, CompleteOk, FireSkip, FireBegin, ActionSettles
<1>11. ASSUME NEW p \in EnvPlaces, NEW n \in Names \cup {NoName}, Inject(p, n) PROVE ExternalTyped'
  <2> DEFINE d == [pid |-> p, tok |-> [id |-> minted + 1, name |-> n]]
  <2>1. d \in Deposits
    BY QueueAssumption DEF QueueAssumption, Deposits, Token, TypeOK, LoopTyped
  <2>2. externalQueue' = Append(externalQueue, d) /\ UNCHANGED <<cursor, prefix>>
    BY <1>11 DEF Inject
  <2> HIDE DEF d
  <2>3. externalQueue' \in Seq(Deposits) /\ Len(externalQueue') = Len(externalQueue) + 1
    BY <1>00, <2>1, <2>2, AppendProperties
  <2> QED
    BY <1>00, <2>2, <2>3 DEF TypeOK, ExternalTyped
<1> QED
  BY <1>1, <1>2, <1>3, <1>4, <1>5, <1>6, <1>7, <1>8, <1>9, <1>10, <1>11, StepCases

-----------------------------------------------------------------------------
(* Phases and counters.                                                    *)

\* 0 is no transition.
LEMMA NoneFires == NoTransition \notin Transitions
  BY NetAssumption DEF NetAssumption, NoTransition, Transitions

\* A step keeps the phase in line with the firing, the pass and the walk.
LEMMA PhaseStep ==
  ASSUME TypeOK, PhaseOK, [Next]_vars
  PROVE  PhaseOK'
<1> USE DEF PhaseOK, FiringPcs
<1>0. flight \in [Transitions -> {"idle", "running", "done", "failed"}] /\ ready \in SUBSET Transitions
      /\ op \in Nat /\ firing \in Transitions \cup {NoTransition}
  BY DEF TypeOK, FlightsTyped, LoopTyped
<1>1. CASE Waits
  <2>1. UNCHANGED <<cursor, prefix, ready, firing, op, enabled, flight>>
    BY <1>1, WaitsFrame
  <2>2. CASE pc' = pc
    BY <2>1, <2>2 DEF InFlight, Program
  <2>3. CASE pc \in {"fire", "await", "flush", "parked"} /\ pc' \in {"completions", "await", "flush", "parked"}
    BY <2>1, <2>3
  <2> QED
    BY <1>1, <2>2, <2>3, WaitsFrame
<1>2. CASE Run
  BY <1>2 DEF Run
<1>3. CASE Deposit \/ Admit
  BY <1>3 DEF Deposit, Admit
<1>4. CASE CompletionEnds
  BY <1>4, NoneFires DEF CompletionEnds, EndCompletion
<1>5. CASE BeginExternal \/ AdmitThrow \/ EndExternal \/ Exit
  BY <1>5 DEF BeginExternal, AdmitThrow, EndExternal, Exit
<1>6. CASE updateDirtyTransitions \/ enforceDeadlines
  BY <1>6 DEF updateDirtyTransitions, enforceDeadlines
<1>7. CASE Decide
  BY <1>7 DEF Decide, ReadyTransitions, InFlight
<1>8. CASE ExecuteOp
  <2>1. /\ firing \in Transitions /\ op' \in {op, op + 1} /\ op \in Nat
        /\ UNCHANGED <<pc, enabled, flight, cursor, prefix, ready, firing>>
    BY <1>8, OpEffect
  <2>2. /\ programs[firing].resetOpsStart = Len(InputSpecs[firing])
        /\ Len(InputSpecs[firing]) \in Nat /\ Len(programs[firing].ops) \in Nat
    BY <2>1, ProgramLengths
  <2>3. \/ pc = "consume" /\ op <= Len(InputSpecs[firing])
        \/ pc = "reset" /\ op <= Len(programs[firing].ops)
    <3>1. \E p, taken : OpTakes(p, taken)
      BY <1>8, OpEffect, Zenon
    <3> QED
      BY <2>2, <3>1 DEF OpTakes, Program
  <2>4. InFlight' = InFlight
    BY <2>1 DEF InFlight
  <2>5. pc' = "consume" => op' \in 1..(Len(InputSpecs[firing]) + 1)
    BY <2>1, <2>2, <2>3
  <2>6. pc' = "reset" => op' \in (Len(InputSpecs[firing]) + 1)..(Len(programs[firing].ops) + 1)
    BY <2>1, <2>2, <2>3 DEF Program
  <2>7. Program' = programs[firing]
    BY <2>1 DEF Program
  <2> QED
    BY <2>1, <2>4, <2>5, <2>6, <2>7
<1>9. CASE PeekReads
  <2>1. pc = "consume" /\ pc' = "reset" /\ op > Program.resetOpsStart
        /\ UNCHANGED <<flight, cursor, prefix, ready, firing, op, enabled>>
    BY <1>9 DEF PeekReads
  <2>2. firing \in Transitions
    BY <2>1
  <2>3. /\ programs[firing].resetOpsStart = Len(InputSpecs[firing])
        /\ Len(InputSpecs[firing]) \in Nat /\ Len(programs[firing].ops) \in Nat
        /\ Len(InputSpecs[firing]) <= Len(programs[firing].ops)
    BY <2>2, ProgramShape
  <2>4. op' \in (Len(InputSpecs[firing]) + 1)..(Len(programs[firing].ops) + 1)
    BY <1>0, <2>1, <2>3 DEF Program
  <2>5. InFlight' = InFlight /\ Program' = programs[firing]
    BY <2>1 DEF InFlight, Program
  <2> QED
    BY <2>1, <2>4, <2>5
<1>10. CASE FireStart
  <2>1. pc = "reset" /\ pc' = "start" /\ UNCHANGED <<flight, cursor, prefix, ready, firing, op, enabled>>
    BY <1>10 DEF FireStart
  <2> QED
    BY <2>1 DEF InFlight
<1>11. CASE FireRegister
  <2>1. /\ pc = "start" /\ pc' = "fire" /\ firing' = NoTransition
        /\ flight' = [flight EXCEPT ![firing] = "running"] /\ enabled' = enabled \ {firing}
        /\ UNCHANGED <<cursor, prefix, ready>>
    BY <1>11 DEF FireRegister, SwitchOff
  <2>2. InFlight' = InFlight \cup {firing}
    BY <1>0, <2>1 DEF InFlight
  <2> QED
    BY <2>1, <2>2, NoneFires
<1>12. CASE FireThrow
  <2>1. /\ pc \in FiringPcs /\ pc' = "fire" /\ firing' = NoTransition
        /\ enabled' = enabled \ {firing} /\ UNCHANGED <<cursor, prefix, ready, flight>>
    BY <1>12 DEF FireThrow, SwitchOff
  <2> QED
    BY <2>1, NoneFires DEF InFlight
<1>13. ASSUME NEW t \in Transitions, CompleteFailed(t) PROVE PhaseOK'
  BY <1>13 DEF CompleteFailed, CompletionOf
<1>14. ASSUME NEW t \in Transitions, CompleteOk(t) PROVE PhaseOK'
  BY <1>14 DEF CompleteOk, CompletionOf
<1>15. ASSUME NEW t \in Transitions, FireSkip(t) PROVE PhaseOK'
  <2>1. /\ pc = "fire" /\ pc' = "fire" /\ ready' = ready \ {t} /\ enabled' = enabled \ {t}
        /\ UNCHANGED <<flight, cursor, prefix, firing>>
    BY <1>15 DEF FireSkip, IsNext, SwitchOff
  <2> QED
    BY <2>1 DEF InFlight
<1>16. ASSUME NEW t \in Transitions, FireBegin(t) PROVE PhaseOK'
  <2>1. /\ pc = "fire" /\ pc' = "consume" /\ t \in ready /\ ready' = ready \ {t} /\ firing' = t /\ op' = 1
        /\ UNCHANGED <<flight, cursor, prefix, enabled>>
    BY <1>16 DEF FireBegin, IsNext
  <2>2. Len(InputSpecs[t]) \in Nat
    BY ProgramShape
  <2>3. InFlight' = InFlight /\ op' \in 1..(Len(InputSpecs[t]) + 1)
    BY <2>1, <2>2 DEF InFlight
  <2> QED
    BY <2>1, <2>3
<1>17. ASSUME NEW t \in Transitions, ActionSettles(t) PROVE PhaseOK'
  <2>1. pc \in {"new", "flush", "parked", "ended"} /\ UNCHANGED <<pc, cursor, prefix, firing>>
    BY <1>17 DEF ActionSettles, Yielded
  <2> QED
    BY <2>1
<1>18. ASSUME NEW p \in EnvPlaces, NEW n \in Names \cup {NoName}, Inject(p, n) PROVE PhaseOK'
  BY <1>18 DEF Inject, InFlight, Program
<1> QED
  BY <1>1, <1>2, <1>3, <1>4, <1>5, <1>6, <1>7, <1>8, <1>9, <1>10, <1>11, <1>12, <1>13, <1>14, <1>15, <1>16,
     <1>17, <1>18, StepCases

\* Switching flags off that are on keeps the counter exact.
LEMMA SwitchedOffCounts ==
  ASSUME TypeOK, CountExact, NEW S \in SUBSET enabled, SwitchOff(S)
  PROVE  CountExact'
<1>1. IsFiniteSet(Transitions) /\ enabled \in SUBSET Transitions
  BY NetAssumption, FS_Interval DEF NetAssumption, Transitions, TypeOK, LoopTyped
<1>2. IsFiniteSet(enabled) /\ IsFiniteSet(S)
  BY <1>1, FS_Subset
<1>3. Cardinality(enabled \ S) = Cardinality(enabled) - Cardinality(enabled \cap S)
  BY <1>2, FS_Difference
<1>4. enabled \cap S = S
  OBVIOUS
<1> QED
  BY <1>3, <1>4 DEF SwitchOff, CountExact

\* A step changes the counter as it changes the flags.
LEMMA CountStep ==
  ASSUME TypeOK, PhaseOK, CountExact, [Next]_vars
  PROVE  CountExact'
<1>0. ASSUME UNCHANGED <<enabled, enabledCount>> PROVE CountExact'
  BY <1>0 DEF CountExact
<1>1. CASE Waits
  BY <1>0, <1>1, WaitsFrame
<1>2. CASE Run \/ CompletionEnds \/ BeginExternal \/ AdmitThrow \/ EndExternal \/ Exit
  BY <1>0, <1>2 DEF Run, CompletionEnds, EndCompletion, BeginExternal, AdmitThrow, EndExternal, Exit
<1>3. CASE Deposit \/ Admit
  BY <1>0, <1>3 DEF Deposit, Admit, produceToken
<1>4. CASE updateDirtyTransitions
  <2> DEFINE scan == DirtyBits \ InFlight
             on == {t \in scan : canEnable(t, bits)}
             off == (scan \ on) \cap enabled
  <2>1. /\ enabled' = (enabled \ off) \cup on
        /\ enabledCount' = enabledCount + Cardinality(on \ enabled) - Cardinality(off)
    BY <1>4 DEF updateDirtyTransitions
  <2>2. IsFiniteSet(Transitions) /\ enabled \in SUBSET Transitions /\ on \in SUBSET Transitions
        /\ off \in SUBSET enabled /\ on \cap off = {}
    <3>1. IsFiniteSet(Transitions)
      BY NetAssumption, FS_Interval DEF NetAssumption, Transitions
    <3>2. enabled \in SUBSET Transitions /\ DirtyBits \in SUBSET Transitions
      BY DEF TypeOK, LoopTyped, DirtyBits
    <3> QED
      BY <3>1, <3>2
  <2> HIDE DEF on, off
  <2>3. IsFiniteSet(enabled) /\ IsFiniteSet(off) /\ IsFiniteSet(on \ enabled) /\ IsFiniteSet(enabled \ off)
    <3>1. enabled \in SUBSET Transitions /\ off \in SUBSET Transitions /\ on \ enabled \in SUBSET Transitions
          /\ enabled \ off \in SUBSET Transitions
      BY <2>2
    <3> QED
      BY <2>2, <3>1, FS_Subset
  <2>4. Cardinality(enabled \ off) = Cardinality(enabled) - Cardinality(enabled \cap off) /\ enabled \cap off = off
    BY <2>2, <2>3, FS_Difference
  <2>5. enabled' = (enabled \ off) \cup (on \ enabled) /\ (enabled \ off) \cap (on \ enabled) = {}
    BY <2>1, <2>2
  <2>6. Cardinality(enabled') = Cardinality(enabled \ off) + Cardinality(on \ enabled)
    <3>1. ASSUME NEW A, NEW B, IsFiniteSet(A), IsFiniteSet(B), A \cap B = {}
          PROVE  Cardinality(A \cup B) = Cardinality(A) + Cardinality(B)
      <4>1. Cardinality(A \cup B) = Cardinality(A) + Cardinality(B) - Cardinality(A \cap B)
        BY <3>1, FS_Union
      <4>2. Cardinality(A \cap B) = 0 /\ Cardinality(A) \in Nat /\ Cardinality(B) \in Nat
        BY <3>1, FS_EmptySet, FS_CardinalityType
      <4> QED
        BY <4>1, <4>2
    <3> QED
      BY <2>3, <2>5, <3>1
  <2>7. Cardinality(enabled) \in Nat /\ Cardinality(off) \in Nat /\ Cardinality(on \ enabled) \in Nat
    BY <2>3, FS_CardinalityType
  <2>8. enabledCount' = Cardinality(enabled) + Cardinality(on \ enabled) - Cardinality(off)
    BY <2>1 DEF CountExact
  <2>9. Cardinality(enabled') = Cardinality(enabled) - Cardinality(off) + Cardinality(on \ enabled)
    BY <2>4, <2>6
  <2>10. enabledCount' = Cardinality(enabled')
    BY <2>7, <2>8, <2>9
  <2> QED
    BY <2>10 DEF CountExact
<1>5. CASE enforceDeadlines
  <2> DEFINE late == {t \in enabled \ InFlight :
                        anyDeadlines /\ HardDeadline(t) /\ now - enabledAt[t] > Latest(t) + Tolerance}
  <2>1. SwitchOff(late) /\ late \in SUBSET enabled
    BY <1>5 DEF enforceDeadlines
  <2> HIDE DEF late
  <2> QED
    BY <2>1, SwitchedOffCounts
<1>6. CASE Decide \/ PeekReads \/ FireStart
  BY <1>0, <1>6 DEF Decide, PeekReads, FireStart
<1>7. CASE ExecuteOp
  BY <1>0, <1>7, OpEffect
<1>8. CASE FireRegister \/ FireThrow
  <2>1. SwitchOff({firing}) /\ {firing} \in SUBSET enabled
    BY <1>8 DEF FireRegister, FireThrow, PhaseOK, FiringPcs
  <2> QED
    BY <2>1, SwitchedOffCounts
<1>9. ASSUME NEW t \in Transitions, CompleteFailed(t) \/ CompleteOk(t) \/ FireBegin(t) \/ ActionSettles(t)
      PROVE  CountExact'
  BY <1>0, <1>9 DEF CompleteFailed, CompleteOk, FireBegin, ActionSettles
<1>10. ASSUME NEW t \in Transitions, FireSkip(t) PROVE CountExact'
  <2>1. SwitchOff({t}) /\ {t} \in SUBSET enabled
    BY <1>10 DEF FireSkip, IsNext, PhaseOK
  <2> QED
    BY <2>1, SwitchedOffCounts
<1>11. ASSUME NEW p \in EnvPlaces, NEW n \in Names \cup {NoName}, Inject(p, n) PROVE CountExact'
  BY <1>0, <1>11 DEF Inject
<1> QED
  BY <1>1, <1>2, <1>3, <1>4, <1>5, <1>6, <1>7, <1>8, <1>9, <1>10, <1>11, StepCases

-----------------------------------------------------------------------------
(* Presence bits.                                                          *)

\* A step keeps the bits faithful: a deposit sets one, a finished firing clears them.
LEMMA BitsStep ==
  ASSUME TypeOK, PhaseOK, BitsExact, [Next]_vars
  PROVE  BitsExact'
<1>a. ASSUME pc # "new" \/ pc' = "new", UNCHANGED <<queues, bits>>, ~Consuming \/ UNCHANGED <<pc, firing>>
      PROVE  BitsExact'
  BY <1>a DEF BitsExact, Consuming, HasBit
<1>b. bits \in [placeWords -> SUBSET Nat] /\ queues \in [Places -> Seq(Token)]
  BY DEF TypeOK, TokensTyped
<1>1. CASE Waits
  <2>1. UNCHANGED <<queues, bits, firing>>
    BY <1>1, WaitsFrame
  <2> QED
    BY <1>a, <1>1, <2>1, WaitsFrame DEF Consuming
<1>2. CASE Run
  <2> DEFINE S == {p \in Places : queues[p] # <<>>}
  <2>1. bits' = MaskOf(S) /\ queues' = queues /\ pc' \notin {"consume", "reset"}
    BY <1>2 DEF Run
  <2>2. S \in SUBSET Places
    OBVIOUS
  <2>3. \A p \in Places : HasBit(bits', p) <=> p \in S
    <3> HIDE DEF S
    <3> QED
      BY <2>1, <2>2, MaskExact
  <2> QED
    BY <2>1, <2>3 DEF BitsExact, Consuming, HasBit
<1>3. ASSUME NEW p \in Nat, NEW tok \in Token, produceToken(p, tok), pc' = pc, pc \notin {"new", "consume", "reset"}
      PROVE  BitsExact'
  <2>1. CASE p \notin Places
    BY <1>a, <1>3, <2>1, ProduceEffect DEF Consuming
  <2>2. CASE p \in Places
    <3>1. /\ queues' = [queues EXCEPT ![p] = Append(queues[p], tok)]
          /\ \A q \in Places : HasBit(bits', q) <=> HasBit(bits, q) \/ q = p
      BY <1>3, <2>2, ProduceEffect
    <3>2. Append(queues[p], tok) # <<>>
      BY <1>b, <2>2, AppendProperties
    <3>3. \A q \in Places : HasBit(bits, q) <=> queues[q] # <<>>
      BY <1>3 DEF BitsExact, Consuming
    <3>4. \A q \in Places : HasBit(bits', q) <=> queues'[q] # <<>>
      BY <1>b, <2>2, <3>1, <3>2, <3>3
    <3> QED
      BY <3>4 DEF BitsExact, HasBit
  <2> QED
    BY <2>1, <2>2
<1>4. CASE Deposit \/ Admit
  BY <1>3, <1>4, DepositTyped DEF Deposit, Admit
<1>5. CASE CompletionEnds \/ BeginExternal \/ AdmitThrow \/ EndExternal \/ Exit
  BY <1>a, <1>5 DEF CompletionEnds, EndCompletion, BeginExternal, AdmitThrow, EndExternal, Exit, Consuming
<1>6. CASE updateDirtyTransitions \/ enforceDeadlines \/ Decide
  BY <1>a, <1>6 DEF updateDirtyTransitions, enforceDeadlines, Decide, Consuming
<1>7. CASE ExecuteOp
  <2>1. PICK p \in ConsumptionPlaces(firing), taken \in Seq(Token) : p \in Places /\ OpTakes(p, taken)
    BY <1>7, OpEffect
  <2>2. UNCHANGED <<pc, firing, bits>> /\ queues' = [queues EXCEPT ![p] = Without(queues[p], taken)] /\ Consuming
    BY <1>7, <2>1, OpEffect DEF OpTakes, Consuming
  <2>3. \A q \in Places : queues'[q] # <<>> => queues[q] # <<>>
    BY <1>b, <2>1, <2>2, WithoutEmpty
  <2>4. \A q \in Places : q # p => queues'[q] = queues[q]
    BY <1>b, <2>2
  <2> QED
    BY <2>1, <2>2, <2>3, <2>4 DEF BitsExact, Consuming, HasBit
<1>8. CASE PeekReads
  BY <1>8 DEF PeekReads, BitsExact, Consuming, HasBit
<1>9. CASE FireStart \/ FireThrow
  <2>1. /\ bits' = Emptied(firing) /\ queues' = queues /\ firing \in Transitions
        /\ pc # "new" /\ pc' \notin {"consume", "reset"}
    BY <1>9 DEF FireStart, FireThrow, updateBitmapAfterConsumption, PhaseOK, FiringPcs
  <2>2. \A q \in Places :
          HasBit(bits', q) <=> HasBit(bits, q) /\ ~(q \in ConsumptionPlaces(firing) /\ queues[q] = <<>>)
    BY <1>b, <2>1, EmptiedExact
  <2>3. \A q \in Places : HasBit(bits', q) <=> queues[q] # <<>>
    BY <2>1, <2>2 DEF BitsExact
  <2> QED
    BY <2>1, <2>3 DEF BitsExact, Consuming, HasBit
<1>10. CASE FireRegister
  BY <1>a, <1>10 DEF FireRegister, Consuming
<1>11. ASSUME NEW t \in Transitions, CompleteFailed(t) \/ CompleteOk(t) \/ FireSkip(t) \/ FireBegin(t) PROVE BitsExact'
  BY <1>a, <1>11 DEF CompleteFailed, CompleteOk, CompletionOf, FireSkip, FireBegin, IsNext, Consuming
<1>12. ASSUME NEW t \in Transitions, ActionSettles(t) PROVE BitsExact'
  BY <1>a, <1>12 DEF ActionSettles
<1>13. ASSUME NEW p \in EnvPlaces, NEW n \in Names \cup {NoName}, Inject(p, n) PROVE BitsExact'
  BY <1>a, <1>13 DEF Inject
<1> QED
  BY <1>1, <1>2, <1>4, <1>5, <1>6, <1>7, <1>8, <1>9, <1>10, <1>11, <1>12, <1>13, StepCases

-----------------------------------------------------------------------------
(* Tokens held.                                                            *)

\* A completion that is over, or a throw, gives up what the firing held.
LEMMA IdleStep ==
  ASSUME TypeOK, PhaseOK, IdleHoldsNothing, [Next]_vars
  PROVE  IdleHoldsNothing'
<1>a. ASSUME UNCHANGED <<flight, consumed, firing>> PROVE IdleHoldsNothing'
  BY <1>a DEF IdleHoldsNothing
<1>b. /\ flight \in [Transitions -> {"idle", "running", "done", "failed"}]
      /\ consumed \in [Transitions -> [Places -> Seq(Token)]]
      /\ pc \notin {"deposit"} \cup FiringPcs => firing \notin Transitions
  BY DEF TypeOK, FlightsTyped, PhaseOK
<1>1. CASE Waits
  BY <1>a, <1>1, WaitsFrame
<1>2. CASE Run \/ Deposit \/ BeginExternal \/ AdmitThrow \/ Admit \/ EndExternal \/ Exit
  BY <1>a, <1>2 DEF Run, Deposit, BeginExternal, AdmitThrow, Admit, EndExternal, Exit
<1>c. CASE CompletionEnds
  <2>1. flight' = flight /\ consumed' = [consumed EXCEPT ![firing] = [p \in Places |-> <<>>]]
    BY <1>c DEF CompletionEnds, EndCompletion, Released
  <2> QED
    BY <1>b, <2>1 DEF IdleHoldsNothing
<1>3. CASE updateDirtyTransitions \/ enforceDeadlines \/ Decide \/ PeekReads \/ FireStart
  BY <1>a, <1>3 DEF updateDirtyTransitions, enforceDeadlines, Decide, PeekReads, FireStart
<1>4. CASE ExecuteOp
  <2>1. PICK p \in ConsumptionPlaces(firing), taken \in Seq(Token) : p \in Places /\ OpTakes(p, taken)
    BY <1>4, OpEffect
  <2>2. \A t \in Transitions : t # firing => consumed'[t] = consumed[t]
    BY <1>b, <2>1 DEF OpTakes
  <2>3. UNCHANGED <<firing, flight>>
    BY <1>4, OpEffect
  <2> QED
    BY <2>2, <2>3 DEF IdleHoldsNothing
<1>6. CASE FireRegister
  <2>1. /\ flight' = [flight EXCEPT ![firing] = "running"] /\ consumed' = consumed
        /\ firing \in Transitions
    BY <1>6 DEF FireRegister, PhaseOK, FiringPcs
  <2> QED
    BY <1>b, <2>1 DEF IdleHoldsNothing
<1>7. CASE FireThrow
  <2>1. /\ flight' = flight /\ consumed' = [consumed EXCEPT ![firing] = [p \in Places |-> <<>>]]
        /\ firing \in Transitions
    BY <1>7 DEF FireThrow, PhaseOK, FiringPcs
  <2> QED
    BY <1>b, <2>1 DEF IdleHoldsNothing
<1>8. ASSUME NEW t \in Transitions, CompleteFailed(t) PROVE IdleHoldsNothing'
  <2>1. /\ flight' = [flight EXCEPT ![t] = "idle"] /\ consumed' = [consumed EXCEPT ![t] = [p \in Places |-> <<>>]]
        /\ firing' = firing
    BY <1>8 DEF CompleteFailed, Unregister, Released
  <2> QED
    BY <1>b, <2>1 DEF IdleHoldsNothing
<1>12. ASSUME NEW t \in Transitions, CompleteOk(t) PROVE IdleHoldsNothing'
  <2>1. /\ flight' = [flight EXCEPT ![t] = "idle"] /\ consumed' = consumed
        /\ firing' = t /\ firing \notin Transitions
    BY <1>b, <1>12 DEF CompleteOk, CompletionOf, Unregister, FiringPcs
  <2> QED
    BY <1>b, <2>1 DEF IdleHoldsNothing
<1>9. ASSUME NEW t \in Transitions, FireSkip(t) PROVE IdleHoldsNothing'
  BY <1>a, <1>9 DEF FireSkip
<1>13. ASSUME NEW t \in Transitions, FireBegin(t) PROVE IdleHoldsNothing'
  <2>1. UNCHANGED <<flight, consumed>> /\ firing' = t /\ firing \notin Transitions
    BY <1>b, <1>13 DEF FireBegin, IsNext, FiringPcs
  <2> QED
    BY <2>1 DEF IdleHoldsNothing
<1>10. ASSUME NEW t \in Transitions, ActionSettles(t) PROVE IdleHoldsNothing'
  <2>1. /\ flight' = [flight EXCEPT ![t] = "failed"] \/ flight' = [flight EXCEPT ![t] = "done"]
        /\ UNCHANGED <<consumed, firing>>
    BY <1>10 DEF ActionSettles
  <2> QED
    BY <1>b, <2>1 DEF IdleHoldsNothing
<1>11. ASSUME NEW p \in EnvPlaces, NEW n \in Names \cup {NoName}, Inject(p, n) PROVE IdleHoldsNothing'
  BY <1>a, <1>11 DEF Inject
<1> QED
  BY <1>1, <1>2, <1>c, <1>3, <1>4, <1>6, <1>7, <1>8, <1>9, <1>10, <1>11, <1>12, <1>13, StepCases

-----------------------------------------------------------------------------
(* Enablement flags.                                                       *)

\* Marking adds to the dirty bits and removes none.
LEMMA DirtyAdds ==
  ASSUME TypeOK, NEW S \in SUBSET Transitions, dirty' = MarkedDirty(S)
  PROVE  DirtyBits' = DirtyBits \cup S
<1>1. \A t \in Transitions : HasBit(MarkedDirty(S), t - 1) <=> t \in DirtyBits \cup S
  BY MarkedExact DEF TypeOK, LoopTyped
<1>2. DirtyBits' = {t \in Transitions : HasBit(MarkedDirty(S), t - 1)}
  BY DEF DirtyBits, HasBit
<1>3. DirtyBits \in SUBSET Transitions
  BY DEF DirtyBits
<1> QED
  BY <1>1, <1>2, <1>3

\* A flag stays right where neither the flag nor what the queues call for changes.
LEMMA FlagsStay ==
  ASSUME FlagsRight, pc # "new",
         \A t \in Transitions \ Lagging' :
           /\ t \notin Lagging
           /\ CallsFor(t)' <=> CallsFor(t)
           /\ t \in enabled' <=> t \in enabled
  PROVE  FlagsRight'
  BY DEF FlagsRight, FlagRight, HardDeadline, HasDeadline

\* The queues alone decide what is called for.
LEMMA CallsForSame ==
  ASSUME queues' = queues, NEW t
  PROVE  CallsFor(t)' <=> CallsFor(t)
  BY DEF CallsFor

\* Where no tokens are on the way, the compiled test and the queues agree.
LEMMA TestExact ==
  ASSUME TypeOK, BitsExact, MatchersExact, pc \notin {"new", "consume", "reset"}, NEW t \in Transitions
  PROVE  canEnable(t, bits) <=> CallsFor(t)
<1>1. \A p \in Places : HasBit(bits, p) <=> queues[p] # <<>>
  BY DEF BitsExact, Consuming
<1> QED
  BY <1>1, Enablement

\* A transition whose arcs do not lead to p does not notice what happens there.
LEMMA FarFrom ==
  ASSUME TypeOK, queues' \in [Places -> Seq(Token)], NEW p \in Places, NEW x,
         queues' = [queues EXCEPT ![p] = x],
         NEW t \in Transitions, t \notin AffectedTransitions(p)
  PROVE  CallsFor(t)' <=> CallsFor(t)
<1>1. queues \in [Places -> Seq(Token)]
  BY DEF TypeOK, TokensTyped
<1>2. p \notin NeedsMask(t) \cup Inhibitors[t]
  BY DEF AffectedTransitions
<1>3. \A q \in NeedsMask(t) \cup Inhibitors[t] : queues'[q] = queues[q]
  BY <1>1, <1>2, ArcsTyped
<1> QED
  BY <1>1, <1>3, CallsForLocal

\* Whoever a step touches is dirty, in flight or firing; everybody else keeps the right flag.
LEMMA FlagsStep ==
  ASSUME TypeOK, TypeOK', PhaseOK, BitsExact, MatchersExact, FlagsRight, [Next]_vars
  PROVE  FlagsRight'
<1>a. ASSUME pc # "new", queues' = queues,
             \A t \in Transitions \ Lagging' : t \notin Lagging /\ (t \in enabled' <=> t \in enabled)
      PROVE  FlagsRight'
  BY <1>a, FlagsStay, CallsForSame
<1>b. flight \in [Transitions -> {"idle", "running", "done", "failed"}]
  BY DEF TypeOK, FlightsTyped
<1>c. queues' \in [Places -> Seq(Token)]
  BY DEF TypeOK, TokensTyped
<1>1. CASE Waits
  <2>1. CASE pc = "new"
    BY <1>1, <2>1, WaitsFrame DEF FlagsRight
  <2>2. CASE pc # "new"
    <3>1. UNCHANGED <<queues, dirty, enabled, flight, firing>> /\ Consuming' = Consuming
      BY <1>1, <2>2, WaitsFrame DEF Consuming
    <3>2. Lagging' = Lagging
      BY <3>1 DEF Lagging, DirtyBits, InFlight, HasBit
    <3> QED
      BY <1>a, <2>2, <3>1, <3>2
  <2> QED
    BY <2>1, <2>2
<1>2. CASE Run
  <2>1. \A t \in Transitions : HasBit(markAllDirty, t - 1)
    BY AllDirty
  <2>2. Transitions \subseteq Lagging'
    BY <1>2, <2>1 DEF Run, Lagging, DirtyBits, HasBit
  <2> QED
    BY <2>2 DEF FlagsRight
<1>3. ASSUME NEW p \in Nat, NEW tok \in Token, produceToken(p, tok), UNCHANGED <<pc, flight, firing>>,
             pc \notin {"new", "consume", "reset"}
      PROVE  FlagsRight'
  <2>1. enabled' = enabled
    BY <1>3, ProduceEffect
  <2>2. CASE p \notin Places
    <3>1. UNCHANGED <<queues, dirty>>
      BY <1>3, <2>2, ProduceEffect
    <3>2. Lagging' = Lagging
      BY <1>3, <3>1 DEF Lagging, DirtyBits, InFlight, HasBit, Consuming
    <3> QED
      BY <1>a, <1>3, <2>1, <3>1, <3>2
  <2>3. CASE p \in Places
    <3>1. /\ queues' = [queues EXCEPT ![p] = Append(queues[p], tok)]
          /\ dirty' = MarkedDirty(AffectedTransitions(p)) /\ AffectedTransitions(p) \in SUBSET Transitions
      BY <1>3, <2>3, ProduceEffect DEF AffectedTransitions
    <3>2. DirtyBits' = DirtyBits \cup AffectedTransitions(p)
      BY <3>1, DirtyAdds
    <3>3. Lagging' = Lagging \cup AffectedTransitions(p)
      BY <1>3, <3>2 DEF Lagging, InFlight, Consuming
    <3>4. \A t \in Transitions \ Lagging' : CallsFor(t)' <=> CallsFor(t)
      BY <1>c, <2>3, <3>1, <3>3, FarFrom
    <3> QED
      BY <1>3, <2>1, <3>3, <3>4, FlagsStay
  <2> QED
    BY <2>2, <2>3
<1>4. CASE Deposit \/ Admit
  BY <1>3, <1>4, DepositTyped DEF Deposit, Admit
<1>5. CASE CompletionEnds
  <2>1. firing \in Transitions
    BY <1>5 DEF CompletionEnds, EndCompletion, PhaseOK
  <2>2. DirtyBits' = DirtyBits \cup {firing}
    BY <1>5, <2>1, DirtyAdds DEF CompletionEnds, EndCompletion
  <2>3. Lagging \subseteq Lagging' /\ UNCHANGED <<queues, enabled>> /\ pc # "new"
    BY <1>5, <2>2 DEF CompletionEnds, EndCompletion, Lagging, InFlight, Consuming
  <2> QED
    BY <1>a, <2>3
<1>6. CASE BeginExternal \/ AdmitThrow \/ EndExternal \/ Exit \/ Decide
  <2>1. UNCHANGED <<queues, dirty, enabled, flight, firing>> /\ pc # "new" /\ ~Consuming /\ ~Consuming'
    BY <1>6 DEF BeginExternal, AdmitThrow, EndExternal, Exit, Decide, Consuming
  <2>2. Lagging' = Lagging
    BY <2>1 DEF Lagging, DirtyBits, InFlight, HasBit
  <2> QED
    BY <1>a, <2>1, <2>2
<1>7. CASE updateDirtyTransitions
  <2> DEFINE scan == DirtyBits \ InFlight
             on == {t \in scan : canEnable(t, bits)}
             off == (scan \ on) \cap enabled
  <2>1. /\ enabled' = (enabled \ off) \cup on
        /\ UNCHANGED <<queues, flight, firing>> /\ pc = "update" /\ pc' = "deadlines"
    BY <1>7 DEF updateDirtyTransitions
  <2>2. ASSUME NEW t \in Transitions, t \notin Lagging' PROVE FlagRight(t)'
    <3>1. t \notin InFlight /\ t # firing
      BY <2>1, <2>2 DEF Lagging, InFlight
    <3>2. CallsFor(t)' <=> CallsFor(t)
      BY <2>1, CallsForSame
    <3>3. CASE t \in DirtyBits
      <4>1. canEnable(t, bits) <=> CallsFor(t)
        BY <2>1, TestExact
      <4>2. t \in enabled' <=> canEnable(t, bits)
        BY <2>1, <3>1, <3>3
      <4> QED
        BY <3>2, <4>1, <4>2 DEF FlagRight
    <3>4. CASE t \notin DirtyBits
      <4>1. FlagRight(t)
        BY <2>1, <3>1, <3>4 DEF FlagsRight, Lagging, Consuming
      <4>2. t \in enabled' <=> t \in enabled
        BY <2>1, <3>4
      <4> QED
        BY <3>2, <4>1, <4>2 DEF FlagRight
    <3> QED
      BY <3>3, <3>4
  <2> QED
    BY <2>2 DEF FlagsRight
<1>8. CASE enforceDeadlines
  <2> DEFINE late == {t \in enabled \ InFlight :
                        anyDeadlines /\ HardDeadline(t) /\ now - enabledAt[t] > Latest(t) + Tolerance}
  <2>1. /\ enabled' = enabled \ late /\ \A t \in late : HardDeadline(t)
        /\ UNCHANGED <<queues, dirty, flight, firing>> /\ pc = "deadlines" /\ pc' = "decide"
    BY <1>8 DEF enforceDeadlines, SwitchOff
  <2> HIDE DEF late
  <2>2. Lagging' = Lagging
    BY <2>1 DEF Lagging, DirtyBits, InFlight, HasBit, Consuming
  <2>3. ASSUME NEW t \in Transitions, t \notin Lagging' PROVE FlagRight(t)'
    <3>1. FlagRight(t)
      BY <2>1, <2>2, <2>3 DEF FlagsRight
    <3>2. CallsFor(t)' <=> CallsFor(t)
      BY <2>1, CallsForSame
    <3> QED
      BY <2>1, <3>1, <3>2 DEF FlagRight
  <2> QED
    BY <2>3 DEF FlagsRight
<1>9. CASE ExecuteOp
  <2>1. PICK p \in ConsumptionPlaces(firing), taken \in Seq(Token) : p \in Places /\ OpTakes(p, taken)
    BY <1>9, OpEffect
  <2>2. /\ UNCHANGED <<pc, dirty, enabled, flight, firing>> /\ Consuming /\ pc # "new"
        /\ queues' = [queues EXCEPT ![p] = Without(queues[p], taken)]
    BY <1>9, <2>1, OpEffect DEF OpTakes, Consuming
  <2>3. Lagging' = Lagging
    BY <2>2 DEF Lagging, DirtyBits, InFlight, HasBit, Consuming
  <2>4. AffectedTransitions(p) \subseteq Lagging
    BY <2>1, <2>2 DEF Lagging, DirtiedBy
  <2>5. \A t \in Transitions \ Lagging' : CallsFor(t)' <=> CallsFor(t)
    BY <1>c, <2>1, <2>2, <2>3, <2>4, FarFrom
  <2> QED
    BY <2>2, <2>3, <2>5, FlagsStay
<1>10. CASE PeekReads
  <2>1. UNCHANGED <<queues, dirty, enabled, flight, firing>> /\ pc # "new" /\ Consuming /\ Consuming'
    BY <1>10 DEF PeekReads, Consuming
  <2>2. Lagging' = Lagging
    BY <2>1 DEF Lagging, DirtyBits, InFlight, HasBit
  <2> QED
    BY <1>a, <2>1, <2>2
<1>11. CASE FireStart
  <2>1. firing \in Transitions
    BY <1>11 DEF FireStart, PhaseOK, FiringPcs
  <2>2. DirtyBits' = DirtyBits \cup DirtiedBy(firing)
    BY <1>11, <2>1, DirtyAdds, DirtiedTyped DEF FireStart
  <2>3. Lagging \subseteq Lagging' /\ UNCHANGED <<queues, enabled>> /\ pc # "new"
    BY <1>11, <2>2 DEF FireStart, Lagging, InFlight
  <2> QED
    BY <1>a, <2>3
<1>12. CASE FireRegister
  <2>1. /\ flight' = [flight EXCEPT ![firing] = "running"] /\ enabled' = enabled \ {firing}
        /\ UNCHANGED <<queues, dirty>> /\ pc = "start" /\ firing \in Transitions
    BY <1>12 DEF FireRegister, SwitchOff, PhaseOK, FiringPcs
  <2>2. Lagging \subseteq Lagging' /\ firing \in Lagging
    BY <1>b, <2>1 DEF Lagging, DirtyBits, InFlight, HasBit, Consuming
  <2> QED
    BY <1>a, <2>1, <2>2
<1>13. CASE FireThrow
  <2>1. firing \in Transitions /\ pc # "new" /\ enabled' = enabled \ {firing} /\ UNCHANGED <<queues, flight>>
    BY <1>13 DEF FireThrow, SwitchOff, PhaseOK, FiringPcs
  <2>2. DirtyBits' = DirtyBits \cup ({firing} \cup DirtiedBy(firing))
    BY <1>13, <2>1, DirtyAdds, DirtiedTyped DEF FireThrow
  <2>3. Lagging \subseteq Lagging' /\ firing \in Lagging
    BY <2>1, <2>2 DEF Lagging, InFlight
  <2> QED
    BY <1>a, <2>1, <2>3
<1>14. ASSUME NEW t \in Transitions, CompleteFailed(t) PROVE FlagsRight'
  <2>1. /\ flight' = [flight EXCEPT ![t] = "idle"] /\ dirty' = MarkedDirty({t})
        /\ UNCHANGED <<queues, enabled, firing, pc>> /\ pc = "completions"
    BY <1>14 DEF CompleteFailed, CompletionOf, Unregister
  <2>2. DirtyBits' = DirtyBits \cup {t}
    BY <2>1, DirtyAdds
  <2>3. Lagging \subseteq Lagging'
    BY <1>b, <2>1, <2>2 DEF Lagging, InFlight, Consuming
  <2> QED
    BY <1>a, <2>1, <2>3
<1>15. ASSUME NEW t \in Transitions, CompleteOk(t) PROVE FlagsRight'
  <2>1. /\ flight' = [flight EXCEPT ![t] = "idle"] /\ firing' = t
        /\ UNCHANGED <<queues, enabled, dirty>> /\ pc = "completions"
    BY <1>15 DEF CompleteOk, CompletionOf, Unregister
  <2>2. firing \notin Transitions
    BY <2>1 DEF PhaseOK, FiringPcs
  <2>3. Lagging \cap Transitions \subseteq Lagging'
    BY <1>b, <2>1, <2>2 DEF Lagging, DirtyBits, InFlight, HasBit, Consuming
  <2> QED
    BY <1>a, <2>1, <2>3
<1>16. ASSUME NEW t \in Transitions, FireSkip(t) PROVE FlagsRight'
  <2>1. /\ pc = "fire" /\ ~canEnable(t, bits) /\ enabled' = enabled \ {t}
        /\ UNCHANGED <<pc, queues, dirty, flight, firing>>
    BY <1>16 DEF FireSkip, IsNext, SwitchOff
  <2>2. ~CallsFor(t)
    BY <2>1, TestExact
  <2>3. Lagging' = Lagging
    BY <2>1 DEF Lagging, DirtyBits, InFlight, HasBit, Consuming
  <2>4. ASSUME NEW u \in Transitions, u \notin Lagging' PROVE FlagRight(u)'
    <3>1. FlagRight(u)
      BY <2>1, <2>3, <2>4 DEF FlagsRight
    <3>2. CallsFor(u)' <=> CallsFor(u)
      BY <2>1, CallsForSame
    <3>3. u = t => ~CallsFor(u)
      BY <2>2
    <3> QED
      BY <2>1, <3>1, <3>2, <3>3 DEF FlagRight
  <2> QED
    BY <2>4 DEF FlagsRight
<1>17. ASSUME NEW t \in Transitions, FireBegin(t) PROVE FlagsRight'
  <2>1. UNCHANGED <<queues, dirty, enabled, flight>> /\ pc = "fire"
    BY <1>17 DEF FireBegin, IsNext
  <2>2. firing \notin Transitions
    BY <2>1 DEF PhaseOK, FiringPcs
  <2>3. Lagging \cap Transitions \subseteq Lagging'
    BY <2>1, <2>2 DEF Lagging, DirtyBits, InFlight, HasBit, Consuming
  <2> QED
    BY <1>a, <2>1, <2>3
<1>18. ASSUME NEW t \in Transitions, ActionSettles(t) PROVE FlagsRight'
  <2>1. /\ flight' = [flight EXCEPT ![t] = "failed"] \/ flight' = [flight EXCEPT ![t] = "done"]
        /\ flight[t] = "running" /\ UNCHANGED <<queues, dirty, enabled, firing, pc>>
    BY <1>18 DEF ActionSettles
  <2>2. Lagging' = Lagging
    BY <1>b, <2>1 DEF Lagging, DirtyBits, InFlight, HasBit, Consuming
  <2>3. CASE pc = "new"
    BY <2>1, <2>3 DEF FlagsRight
  <2> QED
    BY <1>a, <2>1, <2>2, <2>3
<1>19. ASSUME NEW p \in EnvPlaces, NEW n \in Names \cup {NoName}, Inject(p, n) PROVE FlagsRight'
  <2>1. UNCHANGED <<queues, dirty, enabled, flight, firing, pc>>
    BY <1>19 DEF Inject
  <2>2. Lagging' = Lagging
    BY <2>1 DEF Lagging, DirtyBits, InFlight, HasBit, Consuming
  <2>3. CASE pc = "new"
    BY <2>1, <2>3 DEF FlagsRight
  <2> QED
    BY <1>a, <2>1, <2>2, <2>3
<1> QED
  BY <1>1, <1>2, <1>4, <1>5, <1>6, <1>7, <1>8, <1>9, <1>10, <1>11, <1>12, <1>13, <1>14, <1>15, <1>16, <1>17,
     <1>18, <1>19, StepCases

-----------------------------------------------------------------------------
(* Counting tokens.                                                        *)

\* The numbers of a sequence that grows.
LEMMA IdsAppend ==
  ASSUME NEW s \in Seq(Token), NEW x \in Token
  PROVE  /\ Ids(Append(s, x)) = Ids(s) \cup {x.id}
         /\ Distinct(Append(s, x)) <=> Distinct(s) /\ x.id \notin Ids(s)
<1>1. /\ Append(s, x) \in Seq(Token) /\ Len(Append(s, x)) = Len(s) + 1 /\ Len(s) \in Nat
      /\ \A i \in 1..Len(s) : Append(s, x)[i] = s[i]
      /\ Append(s, x)[Len(s) + 1] = x
  BY AppendProperties, LenProperties
<1>2. DOMAIN s = 1..Len(s) /\ DOMAIN Append(s, x) = 1..(Len(s) + 1)
  BY <1>1, LenProperties
<1>3. DOMAIN Append(s, x) = DOMAIN s \cup {Len(s) + 1} /\ Len(s) + 1 \notin DOMAIN s
  BY <1>1, <1>2
<1>4. /\ \A i \in DOMAIN s : Append(s, x)[i] = s[i]
      /\ Append(s, x)[Len(s) + 1] = x
  BY <1>1, <1>2
<1>5. PICK r, n : r = Append(s, x) /\ n = Len(s) + 1
  OBVIOUS
<1>6. /\ DOMAIN r = DOMAIN s \cup {n} /\ n \notin DOMAIN s
      /\ \A i \in DOMAIN s : r[i] = s[i]
      /\ r[n] = x
  BY <1>3, <1>4, <1>5
<1>7. Ids(r) = Ids(s) \cup {x.id}
  BY <1>6 DEF Ids
<1>8. Distinct(r) <=> Distinct(s) /\ x.id \notin Ids(s)
  BY <1>6 DEF Ids, Distinct
<1> QED
  BY <1>5, <1>7, <1>8

\* What is kept of a queue: the tokens of the set.
LEMMA KeptMembers ==
  ASSUME NEW S, NEW s \in Seq(Token)
  PROVE  /\ Kept(s, S) \in Seq(Token)
         /\ \A i \in DOMAIN Kept(s, S) : \E j \in DOMAIN s : Kept(s, S)[i] = s[j] /\ s[j] \in S
         /\ \A j \in DOMAIN s : s[j] \in S => \E i \in DOMAIN Kept(s, S) : Kept(s, S)[i] = s[j]
<1> DEFINE Exact(r, k) == /\ \A i \in DOMAIN k : \E j \in DOMAIN r : k[i] = r[j] /\ r[j] \in S
                          /\ \A j \in DOMAIN r : r[j] \in S => \E i \in DOMAIN k : k[i] = r[j]
           P == {r \in Seq(Token) : Exact(r, Kept(r, S))}
<1>0. ASSUME NEW r \in Seq(Token) PROVE Kept(r, S) \in Seq(Token)
  <2>1. Kept(r, S) \in Seq(Token \cap S)
    BY KeptTyped
  <2> QED
    BY <2>1, SeqMonotonic
<1>00. ASSUME NEW r \in Seq(Token), NEW x \in Token
       PROVE  /\ DOMAIN Append(r, x) = DOMAIN r \cup {Len(r) + 1}
              /\ \A i \in DOMAIN r : Append(r, x)[i] = r[i]
              /\ Append(r, x)[Len(r) + 1] = x
  <2>1. /\ Append(r, x) \in Seq(Token) /\ Len(Append(r, x)) = Len(r) + 1 /\ Len(r) \in Nat
        /\ \A i \in 1..Len(r) : Append(r, x)[i] = r[i]
        /\ Append(r, x)[Len(r) + 1] = x
    BY AppendProperties, LenProperties
  <2>2. DOMAIN r = 1..Len(r) /\ DOMAIN Append(r, x) = 1..(Len(r) + 1)
    BY <2>1, LenProperties
  <2> QED
    BY <2>1, <2>2
<1>1. P \in SUBSET Seq(Token) /\ <<>> \in P
  BY KeptEmpty, EmptySeq
<1>2. ASSUME NEW r \in P, NEW x \in Token PROVE Append(r, x) \in P
  <2>1. r \in Seq(Token) /\ Append(r, x) \in Seq(Token) /\ Exact(r, Kept(r, S))
    BY AppendProperties
  <2>2. Kept(Append(r, x), S) = IF x \in S THEN Append(Kept(r, S), x) ELSE Kept(r, S)
    BY <2>1, KeptAppend
  <2>3. PICK k, a, n, m : k = Kept(r, S) /\ a = Append(r, x) /\ n = Len(r) + 1 /\ m = Len(k) + 1
    OBVIOUS
  <2>4. /\ DOMAIN a = DOMAIN r \cup {n} /\ \A i \in DOMAIN r : a[i] = r[i]
        /\ a[n] = x
    BY <1>00, <2>1, <2>3
  <2>5. Exact(a, Kept(a, S))
    <3>1. CASE x \in S
      <4>1. PICK b : b = Append(k, x)
        OBVIOUS
      <4>2. /\ DOMAIN b = DOMAIN k \cup {m} /\ \A i \in DOMAIN k : b[i] = k[i]
            /\ b[m] = x
        BY <1>0, <1>00, <2>1, <2>3, <4>1
      <4>3. Exact(a, b)
        <5>0. Exact(r, k)
          BY <2>1, <2>3
        <5>1. ASSUME NEW i \in DOMAIN b PROVE \E j \in DOMAIN a : b[i] = a[j] /\ a[j] \in S
          <6>1. CASE i \in DOMAIN k
            BY <2>4, <4>2, <5>0, <6>1
          <6>2. CASE i = m
            BY <2>4, <3>1, <4>2, <6>2
          <6> QED
            BY <4>2, <6>1, <6>2
        <5>2. ASSUME NEW j \in DOMAIN a, a[j] \in S PROVE \E i \in DOMAIN b : b[i] = a[j]
          <6>1. CASE j \in DOMAIN r
            BY <2>4, <4>2, <5>0, <5>2, <6>1
          <6>2. CASE j = n
            BY <2>4, <4>2, <6>2
          <6> QED
            BY <2>4, <6>1, <6>2
        <5> QED
          BY <5>1, <5>2
      <4>4. Kept(a, S) = b
        BY <2>2, <2>3, <3>1, <4>1
      <4> HIDE DEF Exact
      <4> QED
        BY <4>3, <4>4
    <3>2. CASE x \notin S
      <4>1. Exact(a, k)
        BY <2>1, <2>3, <2>4, <3>2
      <4>2. Kept(a, S) = k
        BY <2>2, <2>3, <3>2
      <4> HIDE DEF Exact
      <4> QED
        BY <4>1, <4>2
    <3> QED
      BY <3>1, <3>2
  <2> HIDE DEF Exact
  <2> QED
    BY <2>1, <2>3, <2>5
<1>3. ASSUME NEW Q \in SUBSET Seq(Token), <<>> \in Q, \A r \in Q : \A x \in Token : Append(r, x) \in Q
      PROVE  Q = Seq(Token)
  BY <1>3, GrownFromEmpty
<1>4. P = Seq(Token)
  <2> HIDE DEF P
  <2> QED
    BY <1>1, <1>2, <1>3
<1> QED
  BY <1>0, <1>4

\* Filtering makes no duplicates.
LEMMA KeptDistinct ==
  ASSUME NEW S, NEW s \in Seq(Token), Distinct(s)
  PROVE  Distinct(Kept(s, S))
<1> DEFINE P == {r \in Seq(Token) : Distinct(r) => Distinct(Kept(r, S))}
<1>1. P \in SUBSET Seq(Token) /\ <<>> \in P
  BY KeptEmpty, EmptySeq DEF Distinct
<1>2. ASSUME NEW r \in P, NEW x \in Token PROVE Append(r, x) \in P
  <2>1. r \in Seq(Token) /\ Append(r, x) \in Seq(Token)
    BY AppendProperties
  <2>2. Kept(Append(r, x), S) = IF x \in S THEN Append(Kept(r, S), x) ELSE Kept(r, S)
    BY <2>1, KeptAppend
  <2>3. Kept(r, S) \in Seq(Token)
    BY <2>1, KeptMembers
  <2>4. Ids(Kept(r, S)) \subseteq Ids(r)
    BY <2>1, KeptMembers DEF Ids
  <2>5. ASSUME Distinct(Append(r, x)) PROVE Distinct(Kept(Append(r, x), S))
    <3>1. Distinct(r) /\ x.id \notin Ids(r)
      BY <2>1, <2>5, IdsAppend
    <3>2. Distinct(Kept(r, S)) /\ x.id \notin Ids(Kept(r, S))
      BY <2>4, <3>1
    <3>3. Distinct(Append(Kept(r, S), x))
      BY <2>3, <3>2, IdsAppend
    <3> QED
      BY <2>2, <3>2, <3>3
  <2> QED
    BY <2>1, <2>5
<1>3. ASSUME NEW Q \in SUBSET Seq(Token), <<>> \in Q, \A r \in Q : \A x \in Token : Append(r, x) \in Q
      PROVE  Q = Seq(Token)
  BY <1>3, GrownFromEmpty
<1>4. P = Seq(Token)
  <2> HIDE DEF P
  <2> QED
    BY <1>1, <1>2, <1>3
<1> QED
  BY <1>4

\* As many tokens as numbers.
LEMMA DistinctCount ==
  ASSUME NEW s \in Seq(Token), Distinct(s)
  PROVE  IsFiniteSet(Ids(s)) /\ Cardinality(Ids(s)) = Len(s)
<1> DEFINE P == {r \in Seq(Token) : Distinct(r) => IsFiniteSet(Ids(r)) /\ Cardinality(Ids(r)) = Len(r)}
<1>1. P \in SUBSET Seq(Token) /\ <<>> \in P
  <2>1. Ids(<<>>) = {}
    BY DEF Ids
  <2> QED
    BY <2>1, FS_EmptySet, EmptySeq
<1>2. ASSUME NEW r \in P, NEW x \in Token PROVE Append(r, x) \in P
  <2>1. r \in Seq(Token) /\ Append(r, x) \in Seq(Token) /\ Len(Append(r, x)) = Len(r) + 1
    BY AppendProperties
  <2>2. ASSUME Distinct(Append(r, x))
        PROVE  IsFiniteSet(Ids(Append(r, x))) /\ Cardinality(Ids(Append(r, x))) = Len(r) + 1
    <3>1. Distinct(r) /\ x.id \notin Ids(r) /\ Ids(Append(r, x)) = Ids(r) \cup {x.id}
      BY <2>1, <2>2, IdsAppend
    <3>2. IsFiniteSet(Ids(r)) /\ Cardinality(Ids(r)) = Len(r)
      BY <3>1
    <3>3. IsFiniteSet(Ids(r) \cup {x.id}) /\ Cardinality(Ids(r) \cup {x.id}) = Cardinality(Ids(r)) + 1
      BY <3>1, <3>2, FS_AddElement
    <3> QED
      BY <3>1, <3>2, <3>3
  <2> QED
    BY <2>1, <2>2
<1>3. ASSUME NEW Q \in SUBSET Seq(Token), <<>> \in Q, \A r \in Q : \A x \in Token : Append(r, x) \in Q
      PROVE  Q = Seq(Token)
  BY <1>3, GrownFromEmpty
<1>4. P = Seq(Token)
  <2> HIDE DEF P
  <2> QED
    BY <1>1, <1>2, <1>3
<1> QED
  BY <1>4

\* Taking distinct tokens out of a queue that has them leaves the rest.
LEMMA WithoutCount ==
  ASSUME NEW s \in Seq(Token), NEW gone \in Seq(Token), Distinct(s), Distinct(gone), Ids(gone) \subseteq Ids(s)
  PROVE  /\ Len(Without(s, gone)) = Len(s) - Len(gone)
         /\ Distinct(Without(s, gone))
         /\ Ids(Without(s, gone)) = Ids(s) \ Ids(gone)
<1>1. Without(s, gone) = Kept(s, OutsideOf(gone)) /\ Without(s, gone) \in Seq(Token)
  BY PartsKept, PartsTyped
<1>2. Distinct(Without(s, gone))
  BY <1>1, KeptDistinct
<1>3. Ids(Without(s, gone)) = Ids(s) \ Ids(gone)
  <2>1. \A j \in DOMAIN s : s[j] \in Token
    BY ElementOfSeq, LenProperties
  <2>2. PICK k, S : k = Without(s, gone) /\ S = OutsideOf(gone)
    OBVIOUS
  <2>3. /\ \A i \in DOMAIN k : \E j \in DOMAIN s : k[i] = s[j] /\ s[j] \in S
        /\ \A j \in DOMAIN s : s[j] \in S => \E i \in DOMAIN k : k[i] = s[j]
    BY <1>1, <2>2, KeptMembers
  <2>4. \A j \in DOMAIN s : s[j] \in S <=> s[j].id \notin Ids(gone)
    BY <2>1, <2>2 DEF OutsideOf
  <2>5. Ids(k) = {s[j].id : j \in {i \in DOMAIN s : s[i].id \notin Ids(gone)}}
    BY <2>3, <2>4 DEF Ids
  <2>6. Ids(s) = {s[j].id : j \in DOMAIN s}
    BY DEF Ids
  <2> QED
    BY <2>2, <2>5, <2>6
<1>4. /\ IsFiniteSet(Ids(s)) /\ Cardinality(Ids(s)) = Len(s)
      /\ IsFiniteSet(Ids(gone)) /\ Cardinality(Ids(gone)) = Len(gone)
      /\ Cardinality(Ids(Without(s, gone))) = Len(Without(s, gone))
  BY <1>1, <1>2, DistinctCount
<1>5. Cardinality(Ids(s) \ Ids(gone)) = Cardinality(Ids(s)) - Cardinality(Ids(s) \cap Ids(gone))
  BY <1>4, FS_Difference
<1>6. Ids(s) \cap Ids(gone) = Ids(gone)
  OBVIOUS
<1> QED
  BY <1>2, <1>3, <1>4, <1>5, <1>6

\* The first tokens of what is kept of a queue are distinct tokens of it.
LEMMA PrefixOfKept ==
  ASSUME NEW s \in Seq(Token), Distinct(s), NEW k \in 0..Len(s)
  PROVE  /\ SubSeq(s, 1, k) \in Seq(Token) /\ Distinct(SubSeq(s, 1, k))
         /\ Ids(SubSeq(s, 1, k)) \subseteq Ids(s)
<1>1. Len(s) \in Nat /\ DOMAIN s = 1..Len(s) /\ \A i \in 1..Len(s) : s[i] \in Token
  BY LenProperties, ElementOfSeq
<1>2. /\ SubSeq(s, 1, k) \in Seq(Token)
      /\ Len(SubSeq(s, 1, k)) = k
      /\ \A i \in 1..k : SubSeq(s, 1, k)[i] = s[i]
  <2>1. 1 \in Int /\ k \in Int /\ k - 1 + 1 = k /\ (IF 1 <= k THEN k - 1 + 1 ELSE 0) = k
    BY <1>1
  <2>2. \A i \in 1..k : s[i] \in Token
    BY <1>1
  <2>3. /\ SubSeq(s, 1, k) \in Seq(Token)
        /\ Len(SubSeq(s, 1, k)) = IF 1 <= k THEN k - 1 + 1 ELSE 0
        /\ \A i \in 1..(k - 1 + 1) : SubSeq(s, 1, k)[i] = s[1 + i - 1]
    BY <2>1, <2>2, SubSeqProperties
  <2> QED
    BY <1>1, <2>1, <2>3
<1>3. DOMAIN SubSeq(s, 1, k) = 1..k /\ 1..k \subseteq DOMAIN s
  BY <1>1, <1>2, LenProperties
<1>4. PICK r, D : r = SubSeq(s, 1, k) /\ D = 1..k
  OBVIOUS
<1>5. DOMAIN r = D /\ D \subseteq DOMAIN s /\ \A i \in D : r[i] = s[i]
  BY <1>2, <1>3, <1>4
<1>6. Distinct(r) /\ Ids(r) \subseteq Ids(s)
  BY <1>5 DEF Distinct, Ids
<1> QED
  BY <1>2, <1>4, <1>6

\* Keeping everything.
LEMMA KeptAll ==
  ASSUME NEW s \in Seq(Token), NEW S, Token \subseteq S
  PROVE  Kept(s, S) = s
<1> DEFINE P == {r \in Seq(Token) : Kept(r, S) = r}
<1>1. P \in SUBSET Seq(Token) /\ <<>> \in P
  BY KeptEmpty, EmptySeq
<1>2. ASSUME NEW r \in P, NEW x \in Token PROVE Append(r, x) \in P
  <2>1. r \in Seq(Token) /\ Append(r, x) \in Seq(Token)
    BY AppendProperties
  <2>2. Kept(Append(r, x), S) = IF x \in S THEN Append(Kept(r, S), x) ELSE Kept(r, S)
    BY <2>1, KeptAppend
  <2> QED
    BY <2>1, <2>2
<1>3. ASSUME NEW Q \in SUBSET Seq(Token), <<>> \in Q, \A r \in Q : \A x \in Token : Append(r, x) \in Q
      PROVE  Q = Seq(Token)
  BY <1>3, GrownFromEmpty
<1>4. P = Seq(Token)
  <2> HIDE DEF P
  <2> QED
    BY <1>1, <1>2, <1>3
<1> QED
  BY <1>4

\* The first and the rest of a sequence that has just grown.
LEMMA AppendedTail ==
  ASSUME NEW r \in Seq(Token), NEW x \in Token
  PROVE  IF r = <<>> THEN Append(r, x)[1] = x /\ Tail(Append(r, x)) = <<>>
         ELSE Append(r, x)[1] = r[1] /\ r[1] \in Token /\ Tail(Append(r, x)) = Append(Tail(r), x)
<1> DEFINE s == Append(r, x)
<1>1. /\ s \in Seq(Token) /\ Len(s) = Len(r) + 1 /\ Len(r) \in Nat
      /\ \A i \in 1..Len(r) : s[i] = r[i]
      /\ s[Len(r) + 1] = x
  BY AppendProperties, LenProperties
<1> HIDE DEF s
<1>2. s # <<>>
  BY <1>1, EmptySeq
<1>3. /\ Tail(s) \in Seq(Token) /\ Len(Tail(s)) = Len(r)
      /\ \A i \in 1..Len(r) : Tail(s)[i] = s[i + 1]
  BY <1>1, <1>2, HeadTailProperties
<1>4. CASE r = <<>>
  <2>1. Len(r) = 0
    BY <1>4
  <2> QED
    BY <1>1, <1>3, <1>4, <2>1, EmptySeq DEF s
<1>5. CASE r # <<>>
  <2>1. Len(r) \in Nat \ {0} /\ r[1] \in Token
    BY <1>5, EmptySeq, ElementOfSeq
  <2>2. /\ Tail(r) \in Seq(Token) /\ Len(Tail(r)) = Len(r) - 1
        /\ \A i \in 1..(Len(r) - 1) : Tail(r)[i] = r[i + 1]
    BY <1>5, HeadTailProperties
  <2>3. /\ Append(Tail(r), x) \in Seq(Token) /\ Len(Append(Tail(r), x)) = Len(r)
        /\ \A i \in 1..(Len(r) - 1) : Append(Tail(r), x)[i] = Tail(r)[i]
        /\ Append(Tail(r), x)[Len(r)] = x
    <3>1. PICK q : q = Tail(r)
      OBVIOUS
    <3>2. /\ Append(q, x) \in Seq(Token) /\ Len(Append(q, x)) = Len(q) + 1
          /\ \A i \in 1..Len(q) : Append(q, x)[i] = q[i]
          /\ Append(q, x)[Len(q) + 1] = x
      BY <2>2, <3>1, AppendProperties
    <3>3. Len(q) = Len(r) - 1 /\ Len(q) + 1 = Len(r)
      BY <2>1, <2>2, <3>1
    <3> QED
      BY <3>1, <3>2, <3>3
  <2>4. ASSUME NEW i \in 1..Len(r) PROVE Tail(s)[i] = Append(Tail(r), x)[i]
    <3>1. CASE i = Len(r)
      BY <1>1, <1>3, <2>1, <2>3, <3>1
    <3>2. CASE i # Len(r)
      <4>1. i \in 1..(Len(r) - 1) /\ i + 1 \in 1..Len(r)
        BY <2>1, <3>2
      <4> QED
        BY <1>1, <1>3, <2>2, <2>3, <4>1
    <3> QED
      BY <3>1, <3>2
  <2>5. Tail(s) = Append(Tail(r), x)
    BY <1>3, <2>3, <2>4, SeqEqual
  <2> QED
    BY <1>1, <1>5, <2>1, <2>5 DEF s
<1> QED
  BY <1>4, <1>5

\* Taking the first of distinct tokens leaves the rest of them.
LEMMA WithoutFirst ==
  ASSUME NEW s \in Seq(Token), Distinct(s), s # <<>>
  PROVE  Without(s, <<s[1]>>) = Tail(s)
<1> DEFINE P == {r \in Seq(Token) : Distinct(r) /\ r # <<>> => Kept(r, OutsideOf(<<r[1]>>)) = Tail(r)}
<1>1. P \in SUBSET Seq(Token) /\ <<>> \in P
  BY EmptySeq
<1>2. ASSUME NEW r \in P, NEW x \in Token PROVE Append(r, x) \in P
  <2>1. r \in Seq(Token) /\ Append(r, x) \in Seq(Token)
    BY AppendProperties
  <2>2. PICK first : first = Append(r, x)[1]
    OBVIOUS
  <2>3. ASSUME Distinct(Append(r, x)) PROVE Kept(Append(r, x), OutsideOf(<<first>>)) = Tail(Append(r, x))
    <3>1. Distinct(r) /\ x.id \notin Ids(r)
      BY <2>1, <2>3, IdsAppend
    <3>2. Kept(Append(r, x), OutsideOf(<<first>>)) =
            IF x \in OutsideOf(<<first>>) THEN Append(Kept(r, OutsideOf(<<first>>)), x)
            ELSE Kept(r, OutsideOf(<<first>>))
      BY <2>1, KeptAppend
    <3>3. Ids(<<first>>) = {first.id}
      BY DEF Ids
    <3>4. x \in OutsideOf(<<first>>) <=> x.id # first.id
      BY <3>3 DEF OutsideOf
    <3>5. CASE r = <<>>
      <4>1. first = x /\ Tail(Append(r, x)) = <<>>
        BY <2>1, <2>2, <3>5, AppendedTail
      <4>2. Kept(r, OutsideOf(<<first>>)) = <<>>
        BY <3>5, KeptEmpty
      <4> QED
        BY <3>2, <3>4, <4>1, <4>2
    <3>6. CASE r # <<>>
      <4>1. first = r[1] /\ Tail(Append(r, x)) = Append(Tail(r), x)
        BY <2>1, <2>2, <3>6, AppendedTail
      <4>2. Kept(r, OutsideOf(<<first>>)) = Tail(r)
        BY <3>1, <3>6, <4>1
      <4>3. first.id \in Ids(r)
        <5>1. 1 \in DOMAIN r
          BY <2>1, <3>6, EmptySeq, LenProperties
        <5> QED
          BY <4>1, <5>1 DEF Ids
      <4> QED
        BY <3>1, <3>2, <3>4, <4>1, <4>2, <4>3
    <3> QED
      BY <3>5, <3>6
  <2> QED
    BY <2>1, <2>2, <2>3
<1>3. ASSUME NEW Q \in SUBSET Seq(Token), <<>> \in Q, \A r \in Q : \A x \in Token : Append(r, x) \in Q
      PROVE  Q = Seq(Token)
  BY <1>3, GrownFromEmpty
<1>4. P = Seq(Token)
  <2> HIDE DEF P
  <2> QED
    BY <1>1, <1>2, <1>3
<1>5. Kept(s, OutsideOf(<<s[1]>>)) = Tail(s)
  BY <1>4
<1> QED
  BY <1>5, PartsKept

\* Taking the first token of a part of a queue leaves the rest of that part.
LEMMA PartWithoutFirst ==
  ASSUME NEW s \in Seq(Token), Distinct(s), NEW S, NEW part, part = Kept(s, S)
  PROVE  /\ part \in Seq(Token) /\ Distinct(part) /\ Ids(part) \subseteq Ids(s)
         /\ Kept(Without(s, SubSeq(part, 1, 1)), S) = IF part = <<>> THEN <<>> ELSE Tail(part)
         /\ Len(Without(s, SubSeq(part, 1, 1))) = Len(s) - Len(SubSeq(part, 1, 1))
<1>1. part \in Seq(Token) /\ Distinct(part)
  BY KeptMembers, KeptDistinct
<1>2. Ids(part) \subseteq Ids(s)
  <2>1. \A i \in DOMAIN part : \E j \in DOMAIN s : part[i] = s[j]
    BY KeptMembers
  <2> QED
    BY <2>1 DEF Ids
<1>3. PICK first : first = SubSeq(part, 1, 1)
  OBVIOUS
<1>4. first \in Seq(Token) /\ first = IF part = <<>> THEN <<>> ELSE <<part[1]>>
  BY <1>1, <1>3, FirstOf
<1>5. Distinct(first) /\ Ids(first) \subseteq Ids(part)
  <2>1. CASE part = <<>>
    BY <1>4, <2>1 DEF Distinct, Ids
  <2>2. CASE part # <<>>
    <3>1. 1 \in DOMAIN part
      BY <1>1, <2>2, EmptySeq, LenProperties
    <3>2. DOMAIN <<part[1]>> = {1}
      OBVIOUS
    <3>3. first = <<part[1]>> /\ first[1] = part[1]
      BY <1>4, <2>2
    <3> QED
      BY <3>1, <3>2, <3>3 DEF Distinct, Ids
  <2> QED
    BY <2>1, <2>2
<1>6. Len(Without(s, first)) = Len(s) - Len(first)
  BY <1>2, <1>4, <1>5, WithoutCount
<1>7. Kept(Without(s, first), S) = Without(part, first)
  <2>1. Without(s, first) = Kept(s, OutsideOf(first)) /\ Without(part, first) = Kept(part, OutsideOf(first))
    BY <1>1, PartsKept
  <2>2. Kept(Kept(s, OutsideOf(first)), S) = Kept(s, OutsideOf(first) \cap S)
    BY KeptTwice
  <2>3. Kept(Kept(s, S), OutsideOf(first)) = Kept(s, S \cap OutsideOf(first))
    BY KeptTwice
  <2>4. S \cap OutsideOf(first) = OutsideOf(first) \cap S
    OBVIOUS
  <2> QED
    BY <2>1, <2>2, <2>3, <2>4
<1>8. Without(part, first) = IF part = <<>> THEN <<>> ELSE Tail(part)
  <2>1. CASE part = <<>>
    BY <2>1, WithoutEmpty
  <2>2. CASE part # <<>>
    BY <1>1, <1>4, <2>2, WithoutFirst
  <2> QED
    BY <2>1, <2>2
<1> QED
  BY <1>1, <1>2, <1>3, <1>6, <1>7, <1>8

-----------------------------------------------------------------------------
(* No number twice.                                                        *)

\* Fewer tokens wait, in the same order.
Shrinks(W, W2, shift) ==
  \A u \in Sources : \A i \in DOMAIN W2[u] : i + shift[u] \in DOMAIN W[u] /\ W2[u][i] = W[u][i + shift[u]]

\* Tokens that leave, for good or for a queue they are not in, keep the numbers unique.
LEMMA UniqueShrinks ==
  ASSUME NEW qs, NEW W, NEW n, Unique(qs, W, n), NEW qs2, NEW W2, NEW shift \in [Sources -> Int],
         NEW X, Shrinks(W, W2, shift),
         \A u \in Sources : DOMAIN W2[u] \subseteq Int,
         \A p \in Places : Distinct(qs2[p]) /\ Ids(qs2[p]) \subseteq Ids(qs[p]) \cup X,
         \A x \in X : x <= n /\ \A u \in Sources : \A i \in DOMAIN W2[u] : W2[u][i] # x
  PROVE  Unique(qs2, W2, n)
<1>1. \A p \in Places : \A x \in Ids(qs2[p]) : x <= n
  BY DEF Unique
<1>2. \A u \in Sources : \A i \in DOMAIN W2[u] : W2[u][i] <= n /\ \A p \in Places : W2[u][i] \notin Ids(qs2[p])
  BY DEF Unique, Shrinks
<1>3. ASSUME NEW u \in Sources, NEW v \in Sources, NEW i \in DOMAIN W2[u], NEW j \in DOMAIN W2[v],
             W2[u][i] = W2[v][j]
      PROVE  u = v /\ i = j
  <2>1. u = v /\ i + shift[u] = j + shift[v]
    BY <1>3 DEF Unique, Shrinks
  <2> QED
    BY <2>1
<1> QED
  BY <1>1, <1>2, <1>3 DEF Unique

\* New numbers at one source keep them unique.
LEMMA UniqueGrows ==
  ASSUME NEW qs, NEW W, NEW n \in Nat, Unique(qs, W, n), NEW W2, NEW m \in Nat, n <= m,
         NEW o \in Sources,
         \A u \in Sources : u # o => W2[u] = W[u],
         \A i \in DOMAIN W2[o] :
           \/ i \in DOMAIN W[o] /\ W2[o][i] = W[o][i]
           \/ W2[o][i] \in (n + 1)..m,
         \A i, j \in DOMAIN W2[o] :
           W2[o][i] \in (n + 1)..m /\ W2[o][i] = W2[o][j] => i = j,
         \A u \in Sources : \A i \in DOMAIN W[u] : W[u][i] \in Nat,
         \A p \in Places : Ids(qs[p]) \subseteq Nat
  PROVE  Unique(qs, W2, m)
<1>0. /\ \A p \in Places : Distinct(qs[p]) /\ \A x \in Ids(qs[p]) : x <= n
      /\ \A u \in Sources : \A i \in DOMAIN W[u] : W[u][i] <= n /\ \A p \in Places : W[u][i] \notin Ids(qs[p])
      /\ \A u, v \in Sources : \A i \in DOMAIN W[u], j \in DOMAIN W[v] : W[u][i] = W[v][j] => u = v /\ i = j
  BY DEF Unique
<1>1. \A p \in Places : Distinct(qs[p]) /\ \A x \in Ids(qs[p]) : x <= m
  <2>1. ASSUME NEW p \in Places, NEW x \in Ids(qs[p]) PROVE x <= m
    <3>1. x \in Nat /\ x <= n
      BY <1>0
    <3> QED
      BY <3>1
  <2> QED
    BY <1>0, <2>1
<1>2. ASSUME NEW u \in Sources, NEW i \in DOMAIN W2[u]
      PROVE  W2[u][i] <= m /\ \A p \in Places : W2[u][i] \notin Ids(qs[p])
  <2>1. CASE i \in DOMAIN W[u] /\ W2[u][i] = W[u][i]
    <3>1. W[u][i] \in Nat /\ W[u][i] <= n /\ \A p \in Places : W[u][i] \notin Ids(qs[p])
      BY <1>0, <2>1
    <3> QED
      BY <2>1, <3>1
  <2>2. CASE W2[u][i] \in (n + 1)..m
    <3>1. W2[u][i] <= m
      BY <2>2
    <3>2. ASSUME NEW p \in Places, W2[u][i] \in Ids(qs[p]) PROVE FALSE
      <4>1. W2[u][i] <= n
        BY <1>0, <3>2
      <4> QED
        BY <2>2, <4>1
    <3> QED
      BY <3>1, <3>2
  <2> QED
    BY <2>1, <2>2
<1>3. ASSUME NEW u \in Sources, NEW v \in Sources, NEW i \in DOMAIN W2[u], NEW j \in DOMAIN W2[v],
             W2[u][i] = W2[v][j]
      PROVE  u = v /\ i = j
  <2>1. CASE W2[u][i] \in (n + 1)..m
    <3>1. u = o /\ v = o
      BY <1>0, <1>3, <2>1
    <3> QED
      BY <1>3, <2>1, <3>1
  <2>2. CASE W2[u][i] \notin (n + 1)..m
    <3>1. /\ i \in DOMAIN W[u] /\ W2[u][i] = W[u][i]
          /\ j \in DOMAIN W[v] /\ W2[v][j] = W[v][j]
      BY <1>3, <2>2
    <3>2. W[u][i] = W[v][j]
      BY <1>3, <3>1, Zenon
    <3>3. i \in DOMAIN W[u] /\ j \in DOMAIN W[v]
      BY <3>1
    <3> QED
      BY <1>0, <3>2, <3>3
  <2> QED
    BY <2>1, <2>2
<1> QED
  BY <1>1, <1>2, <1>3 DEF Unique

\* What waits, source by source.
WaitsAt ==
  /\ DOMAIN Waiting[0] = (cursor + 1)..Len(externalQueue)
  /\ \A i \in (cursor + 1)..Len(externalQueue) : Waiting[0][i] = externalQueue[i].tok.id
  /\ \A t \in Transitions : DOMAIN Waiting[t] = 1..Len(output[t])
  /\ \A t \in Transitions : \A i \in 1..Len(output[t]) : Waiting[t][i] = output[t][i].tok.id
  /\ \A u \in Sources : DOMAIN Waiting[u] \subseteq Int
  /\ \A u \in Sources : \A i \in DOMAIN Waiting[u] : Waiting[u][i] \in Nat

\* What waits in an output and in the event queue, by position.
LEMMA WaitingAt == TypeOK => WaitsAt
<1> SUFFICES ASSUME TypeOK PROVE WaitsAt
  OBVIOUS
<1>0. /\ externalQueue \in Seq(Deposits) /\ cursor \in Nat /\ Len(externalQueue) \in Nat
      /\ \A t \in Transitions : output[t] \in Seq(Deposits)
  BY LenProperties DEF TypeOK, ExternalTyped, FlightsTyped
<1>1. 0 \in Sources /\ Transitions \subseteq Sources /\ \A u \in Sources : u = 0 \/ (u \in Transitions /\ u # 0)
  BY NetAssumption DEF Sources, Transitions
<1>2. /\ DOMAIN Waiting[0] = (cursor + 1)..Len(externalQueue)
      /\ \A i \in (cursor + 1)..Len(externalQueue) : Waiting[0][i] = externalQueue[i].tok.id
  BY <1>1 DEF Waiting
<1>3. ASSUME NEW t \in Transitions
      PROVE  /\ DOMAIN Waiting[t] = 1..Len(output[t])
             /\ \A i \in 1..Len(output[t]) : Waiting[t][i] = output[t][i].tok.id
             /\ \A i \in 1..Len(output[t]) : output[t][i].tok.id \in Nat
  <2>1. t \in Sources /\ t # 0
    BY <1>1, NetAssumption DEF Transitions
  <2>2. Waiting[t] = [i \in DOMAIN output[t] |-> output[t][i].tok.id]
    BY <2>1 DEF Waiting
  <2>3. DOMAIN output[t] = 1..Len(output[t])
    BY <1>0, LenProperties
  <2>4. \A i \in 1..Len(output[t]) : output[t][i] \in Deposits
    BY <1>0, ElementOfSeq
  <2> QED
    BY <2>2, <2>3, <2>4 DEF Deposits, Token
<1>4. \A i \in (cursor + 1)..Len(externalQueue) : externalQueue[i].tok.id \in Nat
  <2>1. \A i \in 1..Len(externalQueue) : externalQueue[i] \in Deposits
    BY <1>0, ElementOfSeq
  <2>2. (cursor + 1)..Len(externalQueue) \subseteq 1..Len(externalQueue)
    BY <1>0
  <2> QED
    BY <2>1, <2>2 DEF Deposits, Token
<1>5. \A i, j \in Nat : i..j \subseteq Int
  OBVIOUS
<1>6. ASSUME NEW u \in Sources
      PROVE  DOMAIN Waiting[u] \subseteq Int /\ \A i \in DOMAIN Waiting[u] : Waiting[u][i] \in Nat
  <2>1. CASE u = 0
    BY <1>0, <1>2, <1>4, <2>1
  <2>2. CASE u \in Transitions
    BY <1>3, <2>2
  <2> QED
    BY <1>1, <2>1, <2>2
<1> QED
  BY <1>2, <1>3, <1>6 DEF WaitsAt

\* A source is the external queue or a transition, and not both.
LEMMA SourcesAre ==
  /\ 0 \in Sources /\ Transitions \subseteq Sources /\ 0 \notin Transitions
  /\ \A u \in Sources : u = 0 \/ u \in Transitions
  BY NetAssumption DEF Sources, Transitions

\* Numbers of tokens are numbers.
LEMMA IdsTyped ==
  ASSUME NEW s \in Seq(Token)
  PROVE  Ids(s) \subseteq Nat /\ DOMAIN s = 1..Len(s)
<1>1. DOMAIN s = 1..Len(s) /\ \A i \in 1..Len(s) : s[i] \in Token
  BY LenProperties, ElementOfSeq
<1> QED
  BY <1>1 DEF Ids, Token

\* Where nothing waits longer, queues that grow by a token that no longer waits.
LEMMA UniqueDeposit ==
  ASSUME TypeOK, TypeOK', UniqueTokens, NEW p \in Nat, NEW tok \in Token, produceToken(p, tok),
         minted' = minted, NEW shift \in [Sources -> Int], Shrinks(Waiting, Waiting', shift),
         NEW o \in Sources, NEW k \in DOMAIN Waiting[o], Waiting[o][k] = tok.id,
         \A u \in Sources : \A i \in DOMAIN Waiting'[u] : Waiting'[u][i] # tok.id
  PROVE  UniqueTokens'
<1>1. /\ p \in Places => queues' = [queues EXCEPT ![p] = Append(queues[p], tok)]
      /\ p \notin Places => queues' = queues
  BY ProduceEffect
<1>2. /\ Unique(queues, Waiting, minted)
      /\ tok.id <= minted /\ \A q \in Places : tok.id \notin Ids(queues[q]) /\ Distinct(queues[q])
  BY DEF UniqueTokens, Unique
<1>3. queues \in [Places -> Seq(Token)]
  BY DEF TypeOK, TokensTyped
<1>4. \A q \in Places : Distinct(queues'[q]) /\ Ids(queues'[q]) \subseteq Ids(queues[q]) \cup {tok.id}
  <2>1. CASE p \notin Places
    BY <1>1, <1>2, <2>1
  <2>2. CASE p \in Places
    <3>1. ASSUME NEW q \in Places, q # p PROVE queues'[q] = queues[q]
      BY <1>1, <1>3, <2>2, <3>1
    <3>2. queues'[p] = Append(queues[p], tok)
      BY <1>1, <1>3, <2>2
    <3>3. queues[p] \in Seq(Token)
      BY <1>3, <2>2
    <3>4. Distinct(queues'[p]) /\ Ids(queues'[p]) \subseteq Ids(queues[p]) \cup {tok.id}
      BY <1>2, <2>2, <3>2, <3>3, IdsAppend
    <3> QED
      BY <1>2, <3>1, <3>4
  <2> QED
    BY <2>1, <2>2
<1>5. \A u \in Sources : DOMAIN Waiting'[u] \subseteq Int
  <2>1. WaitsAt'
    BY WaitingAt, PTL
  <2> QED
    BY <2>1 DEF WaitsAt
<1>6. Unique(queues', Waiting', minted)
  <2>1. PICK qs, W, X : qs = queues' /\ W = Waiting' /\ X = {tok.id}
    OBVIOUS
  <2>2. Shrinks(Waiting, W, shift)
    BY <2>1 DEF Shrinks
  <2>3. \A u \in Sources : DOMAIN W[u] \subseteq Int /\ \A i \in DOMAIN W[u] : W[u][i] # tok.id
    BY <1>5, <2>1
  <2>4. \A q \in Places : Distinct(qs[q]) /\ Ids(qs[q]) \subseteq Ids(queues[q]) \cup {tok.id}
    BY <1>4, <2>1
  <2>5. Unique(qs, W, minted)
    <3>1. \A x \in X : x <= minted /\ \A u \in Sources : \A i \in DOMAIN W[u] : W[u][i] # x
      BY <1>2, <2>1, <2>3
    <3>2. \A q \in Places : Distinct(qs[q]) /\ Ids(qs[q]) \subseteq Ids(queues[q]) \cup X
      BY <2>1, <2>4
    <3> QED
      BY <1>2, <2>2, <2>3, <3>1, <3>2, UniqueShrinks
  <2> QED
    BY <2>1, <2>5 DEF Unique
<1> QED
  BY <1>6 DEF UniqueTokens, Unique

\* Nothing happens to the numbers.
LEMMA UniqueFrame ==
  ASSUME UniqueTokens, UNCHANGED <<queues, output, externalQueue, cursor, minted>>
  PROVE  UniqueTokens'
<1>1. Waiting' = Waiting
  BY DEF Waiting
<1> QED
  BY <1>1 DEF UniqueTokens, Unique

\* Queues only lose tokens, and what waits goes away or stays.
LEMMA UniqueLoss ==
  ASSUME TypeOK', UniqueTokens, minted' = minted, NEW shift \in [Sources -> Int],
         Shrinks(Waiting, Waiting', shift),
         \A p \in Places : Distinct(queues'[p]) /\ Ids(queues'[p]) \subseteq Ids(queues[p])
  PROVE  UniqueTokens'
<1>1. WaitsAt'
  BY WaitingAt, PTL
<1>2. PICK qs, W, X : qs = queues' /\ W = Waiting' /\ X = {}
  OBVIOUS
<1>3. Shrinks(Waiting, W, shift)
  BY <1>2 DEF Shrinks
<1>4. \A u \in Sources : DOMAIN W[u] \subseteq Int
  BY <1>1, <1>2 DEF WaitsAt
<1>5. \A p \in Places : Distinct(qs[p]) /\ Ids(qs[p]) \subseteq Ids(queues[p]) \cup X
  BY <1>2
<1>6. \A x \in X : x <= minted /\ \A u \in Sources : \A i \in DOMAIN W[u] : W[u][i] # x
  BY <1>2
<1>7. Unique(queues, Waiting, minted)
  BY DEF UniqueTokens
<1>8. Unique(qs, W, minted)
  BY <1>3, <1>4, <1>5, <1>6, <1>7, UniqueShrinks
<1> QED
  BY <1>2, <1>8 DEF UniqueTokens, Unique

\* The next output of the completion becomes a token of its place.
LEMMA UniqueOutput ==
  ASSUME TypeOK, TypeOK', PhaseOK, UniqueTokens, Deposit
  PROVE  UniqueTokens'
<1>1. /\ pc = "deposit" /\ output[firing] # <<>>
      /\ produceToken(Head(output[firing]).pid, Head(output[firing]).tok)
      /\ output' = [output EXCEPT ![firing] = Tail(output[firing])]
      /\ UNCHANGED <<externalQueue, cursor, minted>>
  BY DEF Deposit
<1>2. /\ firing \in Transitions /\ Head(output[firing]).pid \in Nat /\ Head(output[firing]).tok \in Token
      /\ Tail(output[firing]) \in Seq(Deposits)
  BY <1>1, DepositTyped
<1>3. output \in [Transitions -> Seq(Deposits)] /\ output[firing] \in Seq(Deposits)
  BY <1>2 DEF TypeOK, FlightsTyped
<1>4. PICK out, n : out = output[firing] /\ n = Len(out)
  OBVIOUS
<1>5. /\ n \in Nat \ {0} /\ Head(out) = out[1] /\ Len(Tail(out)) = n - 1
      /\ \A i \in 1..(n - 1) : Tail(out)[i] = out[i + 1]
  BY <1>1, <1>3, <1>4, LenProperties, HeadTailProperties, EmptySeq
<1>6. /\ output'[firing] = Tail(out)
      /\ \A t \in Transitions : t # firing => output'[t] = output[t]
  BY <1>1, <1>2, <1>3, <1>4
<1>7. WaitsAt /\ WaitsAt'
  BY WaitingAt, PTL
<1>8. PICK shift : shift = [u \in Sources |-> IF u = firing THEN 1 ELSE 0]
  OBVIOUS
<1>9. /\ shift \in [Sources -> Int] /\ shift[firing] = 1 /\ firing \in Sources
      /\ \A u \in Sources : u # firing => shift[u] = 0
  BY <1>2, <1>8, SourcesAre
<1>10. DOMAIN Waiting[firing] = 1..n /\ \A i \in 1..n : Waiting[firing][i] = out[i].tok.id
  BY <1>2, <1>4, <1>7 DEF WaitsAt
<1>11. DOMAIN Waiting'[firing] = 1..(n - 1) /\ \A i \in 1..(n - 1) : Waiting'[firing][i] = out[i + 1].tok.id
  <2>1. DOMAIN Waiting'[firing] = 1..Len(output'[firing])
    BY <1>2, <1>7 DEF WaitsAt
  <2>2. \A i \in 1..Len(output'[firing]) : Waiting'[firing][i] = output'[firing][i].tok.id
    BY <1>2, <1>7 DEF WaitsAt
  <2> QED
    BY <1>5, <1>6, <2>1, <2>2
<1>12. ASSUME NEW u \in Sources, u # firing PROVE Waiting'[u] = Waiting[u]
  BY <1>1, <1>6, <1>12, SourcesAre DEF Waiting
<1>13. \A u \in Sources : DOMAIN Waiting[u] \subseteq Int
  BY <1>7 DEF WaitsAt
<1>14. Shrinks(Waiting, Waiting', shift)
  <2>1. ASSUME NEW u \in Sources, NEW i \in DOMAIN Waiting'[u]
        PROVE  i + shift[u] \in DOMAIN Waiting[u] /\ Waiting'[u][i] = Waiting[u][i + shift[u]]
    <3>1. CASE u = firing
      BY <1>5, <1>9, <1>10, <1>11, <2>1, <3>1
    <3>2. CASE u # firing
      <4>1. shift[u] = 0 /\ Waiting'[u] = Waiting[u]
        BY <1>9, <1>12, <3>2
      <4>2. i \in Int
        BY <1>13, <4>1
      <4>3. i + shift[u] = i
        BY <4>1, <4>2
      <4> QED
        BY <4>1, <4>3
    <3> QED
      BY <3>1, <3>2
  <2> QED
    BY <2>1 DEF Shrinks
<1>15. 1 \in DOMAIN Waiting[firing] /\ Waiting[firing][1] = Head(out).tok.id
  BY <1>5, <1>10
<1>16. ASSUME NEW u \in Sources, NEW i \in DOMAIN Waiting'[u] PROVE Waiting'[u][i] # Head(out).tok.id
  <2>1. \A v, w \in Sources : \A j \in DOMAIN Waiting[v], k \in DOMAIN Waiting[w] :
          Waiting[v][j] = Waiting[w][k] => v = w /\ j = k
    BY DEF UniqueTokens, Unique
  <2>2. i + shift[u] \in DOMAIN Waiting[u] /\ Waiting'[u][i] = Waiting[u][i + shift[u]]
    BY <1>14, <1>16 DEF Shrinks
  <2>3. ~(u = firing /\ i + shift[u] = 1)
    <3>1. CASE u = firing
      <4>1. i \in 1..(n - 1) /\ shift[u] = 1
        BY <1>9, <1>11, <3>1
      <4> QED
        BY <1>5, <4>1
    <3> QED
      BY <3>1
  <2> QED
    BY <1>9, <1>15, <2>1, <2>2, <2>3
<1>17. PICK p, tok : p = Head(output[firing]).pid /\ tok = Head(output[firing]).tok
  OBVIOUS
<1>18. /\ p \in Nat /\ tok \in Token /\ produceToken(p, tok) /\ minted' = minted
       /\ firing \in Sources /\ 1 \in DOMAIN Waiting[firing] /\ Waiting[firing][1] = tok.id
       /\ \A u \in Sources : \A i \in DOMAIN Waiting'[u] : Waiting'[u][i] # tok.id
  BY <1>1, <1>2, <1>4, <1>9, <1>15, <1>16, <1>17
<1> QED
  BY <1>9, <1>14, <1>18, UniqueDeposit

\* An injected token becomes a token of its place.
LEMMA UniqueArrival ==
  ASSUME TypeOK, TypeOK', PhaseOK, UniqueTokens, Admit
  PROVE  UniqueTokens'
<1>1. /\ cursor < prefix /\ cursor' = cursor + 1
      /\ produceToken(externalQueue[cursor + 1].pid, externalQueue[cursor + 1].tok)
      /\ UNCHANGED <<output, externalQueue, minted>>
  BY DEF Admit
<1>2. externalQueue[cursor + 1].pid \in Nat /\ externalQueue[cursor + 1].tok \in Token
  BY <1>1, DepositTyped
<1>3. cursor \in Nat /\ Len(externalQueue) \in Nat /\ cursor + 1 <= Len(externalQueue)
  BY <1>1, LenProperties DEF TypeOK, ExternalTyped
<1>4. WaitsAt /\ WaitsAt'
  BY WaitingAt, PTL
<1>5. PICK n, k : n = Len(externalQueue) /\ k = cursor + 1
  OBVIOUS
<1>6. /\ k \in Nat /\ n \in Nat /\ k <= n
      /\ DOMAIN Waiting[0] = k..n /\ \A i \in k..n : Waiting[0][i] = externalQueue[i].tok.id
  BY <1>3, <1>4, <1>5 DEF WaitsAt
<1>7. DOMAIN Waiting'[0] = (k + 1)..n /\ \A i \in (k + 1)..n : Waiting'[0][i] = externalQueue[i].tok.id
  <2>1. /\ DOMAIN Waiting'[0] = (cursor' + 1)..Len(externalQueue')
        /\ \A i \in (cursor' + 1)..Len(externalQueue') : Waiting'[0][i] = externalQueue'[i].tok.id
    BY <1>4 DEF WaitsAt
  <2>2. cursor' + 1 = k + 1 /\ Len(externalQueue') = n /\ externalQueue' = externalQueue
    BY <1>1, <1>5
  <2> QED
    BY <2>1, <2>2
<1>8. ASSUME NEW u \in Sources, u # 0 PROVE Waiting'[u] = Waiting[u]
  BY <1>1, <1>8 DEF Waiting
<1>9. PICK shift : shift = [u \in Sources |-> 0]
  OBVIOUS
<1>10. shift \in [Sources -> Int] /\ \A u \in Sources : shift[u] = 0
  BY <1>9
<1>11. ASSUME NEW u \in Sources, NEW i \in DOMAIN Waiting'[u]
       PROVE  /\ i \in DOMAIN Waiting[u] /\ Waiting'[u][i] = Waiting[u][i] /\ i + shift[u] = i
              /\ ~(u = 0 /\ i = k)
  <2>1. CASE u = 0
    BY <1>6, <1>7, <1>10, <1>11, <2>1
  <2>2. CASE u # 0
    <3>1. Waiting'[u] = Waiting[u] /\ DOMAIN Waiting[u] \subseteq Int /\ shift[u] = 0
      BY <1>4, <1>8, <1>10, <2>2 DEF WaitsAt
    <3>2. i \in Int
      BY <1>11, <3>1
    <3>3. i + shift[u] = i
      BY <3>1, <3>2
    <3> QED
      BY <1>11, <2>2, <3>1, <3>3
  <2> QED
    BY <2>1, <2>2
<1>12. Shrinks(Waiting, Waiting', shift)
  BY <1>11 DEF Shrinks
<1>13. 0 \in Sources /\ k \in DOMAIN Waiting[0] /\ Waiting[0][k] = externalQueue[k].tok.id
  BY <1>6, SourcesAre
<1>14. ASSUME NEW u \in Sources, NEW i \in DOMAIN Waiting'[u] PROVE Waiting'[u][i] # externalQueue[k].tok.id
  <2>1. \A v, w \in Sources : \A j \in DOMAIN Waiting[v], l \in DOMAIN Waiting[w] :
          Waiting[v][j] = Waiting[w][l] => v = w /\ j = l
    BY DEF UniqueTokens, Unique
  <2>2. i \in DOMAIN Waiting[u] /\ Waiting'[u][i] = Waiting[u][i] /\ ~(u = 0 /\ i = k)
    BY <1>11, <1>14
  <2> QED
    BY <1>13, <2>1, <2>2
<1>15. PICK p, tok : p = externalQueue[cursor + 1].pid /\ tok = externalQueue[cursor + 1].tok
  OBVIOUS
<1>16. /\ p \in Nat /\ tok \in Token /\ produceToken(p, tok) /\ minted' = minted
       /\ Waiting[0][k] = tok.id
       /\ \A u \in Sources : \A i \in DOMAIN Waiting'[u] : Waiting'[u][i] # tok.id
  BY <1>1, <1>2, <1>5, <1>13, <1>14, <1>15
<1> QED
  BY <1>10, <1>12, <1>13, <1>16, UniqueDeposit

\* What an opcode takes is gone, and nothing else.
LEMMA UniqueOp ==
  ASSUME TypeOK, TypeOK', PhaseOK, UniqueTokens, ExecuteOp
  PROVE  UniqueTokens'
<1>1. /\ UNCHANGED <<output, externalQueue, cursor, minted>>
      /\ \E p \in ConsumptionPlaces(firing), taken \in Seq(Token) : p \in Places /\ OpTakes(p, taken)
  BY OpEffect
<1>2. PICK p \in Places, taken \in Seq(Token) : OpTakes(p, taken)
  BY <1>1
<1>3. queues' = [queues EXCEPT ![p] = Without(queues[p], taken)]
  BY <1>2 DEF OpTakes
<1>4. queues \in [Places -> Seq(Token)] /\ \A q \in Places : Distinct(queues[q])
  BY DEF TypeOK, TokensTyped, UniqueTokens, Unique
<1>5. ASSUME NEW q \in Places
      PROVE  Distinct(queues'[q]) /\ Ids(queues'[q]) \subseteq Ids(queues[q])
  <2>1. CASE q # p
    BY <1>3, <1>4, <2>1
  <2>2. CASE q = p
    <3>1. queues'[p] = Without(queues[p], taken) /\ queues[p] \in Seq(Token) /\ Distinct(queues[p])
      BY <1>3, <1>4
    <3>2. Without(queues[p], taken) = Kept(queues[p], OutsideOf(taken))
      BY <3>1, PartsKept
    <3>3. Distinct(queues'[p])
      BY <3>1, <3>2, KeptDistinct
    <3>4. PICK s, r : s = queues[p] /\ r = queues'[p]
      OBVIOUS
    <3>5. \A i \in DOMAIN r : \E j \in DOMAIN s : r[i] = s[j]
      BY <3>1, <3>2, <3>4, KeptMembers
    <3>6. Ids(r) \subseteq Ids(s)
      BY <3>5 DEF Ids
    <3>7. Ids(r) = Ids(queues'[p]) /\ Ids(s) = Ids(queues[p])
      BY <3>4 DEF Ids
    <3> QED
      BY <2>2, <3>3, <3>6, <3>7
  <2> QED
    BY <2>1, <2>2
<1>6. PICK shift : shift = [u \in Sources |-> 0]
  OBVIOUS
<1>7. shift \in [Sources -> Int] /\ \A u \in Sources : shift[u] = 0
  BY <1>6
<1>8. Waiting' = Waiting
  BY <1>1 DEF Waiting
<1>9. \A u \in Sources : DOMAIN Waiting[u] \subseteq Int
  BY WaitingAt DEF WaitsAt
<1>10. Shrinks(Waiting, Waiting', shift)
  BY <1>7, <1>8, <1>9 DEF Shrinks
<1> QED
  BY <1>1, <1>5, <1>7, <1>10, UniqueLoss

\* What waits goes away, or moves up.
LEMMA UniqueDropped ==
  ASSUME TypeOK, TypeOK', PhaseOK, UniqueTokens,
         EndExternal \/ AdmitThrow \/ Exit \/ CompletionEnds \/ \E t \in Transitions : CompleteFailed(t)
  PROVE  UniqueTokens'
<1>1. UNCHANGED <<queues, minted>>
  BY DEF EndExternal, AdmitThrow, Exit, CompletionEnds, EndCompletion, CompleteFailed
<1>2. WaitsAt /\ WaitsAt'
  BY WaitingAt, PTL
<1>3. \A p \in Places : Distinct(queues'[p]) /\ Ids(queues'[p]) \subseteq Ids(queues[p])
  BY <1>1 DEF UniqueTokens, Unique
<1>4. cursor \in Nat /\ externalQueue \in Seq(Deposits) /\ Len(externalQueue) \in Nat /\ cursor <= Len(externalQueue)
  BY LenProperties DEF TypeOK, ExternalTyped
<1>5. output \in [Transitions -> Seq(Deposits)]
  BY DEF TypeOK, FlightsTyped
<1>6. \E shift \in [Sources -> Int] : Shrinks(Waiting, Waiting', shift)
  <2>1. CASE EndExternal
    <3>1. /\ cursor' = 0 /\ output' = output
          /\ externalQueue' = SubSeq(externalQueue, cursor + 1, Len(externalQueue))
      BY <2>1 DEF EndExternal, Undeposited
    <3>2. PICK n : n = Len(externalQueue)
      OBVIOUS
    <3>3. /\ Len(externalQueue') = n - cursor
          /\ \A i \in 1..(n - cursor) : externalQueue'[i] = externalQueue[cursor + i]
      <4>1. \A i \in (cursor + 1)..n : externalQueue[i] \in Deposits
        BY <1>4, <3>2, ElementOfSeq
      <4>2. /\ Len(SubSeq(externalQueue, cursor + 1, n)) = IF cursor + 1 <= n THEN n - (cursor + 1) + 1 ELSE 0
            /\ \A i \in 1..(n - (cursor + 1) + 1) :
                 SubSeq(externalQueue, cursor + 1, n)[i] = externalQueue[cursor + 1 + i - 1]
        BY <1>4, <3>2, <4>1, SubSeqProperties
      <4> QED
        BY <1>4, <3>1, <3>2, <4>2
    <3>4. PICK shift : shift = [u \in Sources |-> IF u = 0 THEN cursor ELSE 0]
      OBVIOUS
    <3>5. /\ shift \in [Sources -> Int] /\ shift[0] = cursor
          /\ \A u \in Sources : u # 0 => shift[u] = 0
      BY <1>4, <3>4, SourcesAre
    <3>6. /\ DOMAIN Waiting[0] = (cursor + 1)..n
          /\ \A i \in (cursor + 1)..n : Waiting[0][i] = externalQueue[i].tok.id
      BY <1>2, <3>2 DEF WaitsAt
    <3>7. /\ DOMAIN Waiting'[0] = 1..(n - cursor)
          /\ \A i \in 1..(n - cursor) : Waiting'[0][i] = externalQueue[cursor + i].tok.id
      <4>1. /\ DOMAIN Waiting'[0] = (cursor' + 1)..Len(externalQueue')
            /\ \A i \in (cursor' + 1)..Len(externalQueue') : Waiting'[0][i] = externalQueue'[i].tok.id
        BY <1>2 DEF WaitsAt
      <4>2. cursor' + 1 = 1
        BY <3>1
      <4> QED
        BY <3>3, <4>1, <4>2
    <3>8. ASSUME NEW u \in Sources, NEW i \in DOMAIN Waiting'[u]
          PROVE  i + shift[u] \in DOMAIN Waiting[u] /\ Waiting'[u][i] = Waiting[u][i + shift[u]]
      <4>1. CASE u = 0
        <5>1. i \in 1..(n - cursor) /\ i + shift[u] = cursor + i /\ cursor + i \in (cursor + 1)..n
          BY <1>4, <3>2, <3>5, <3>7, <3>8, <4>1
        <5> QED
          BY <3>6, <3>7, <4>1, <5>1
      <4>2. CASE u # 0
        <5>1. Waiting'[u] = Waiting[u]
          BY <3>1, <4>2 DEF Waiting
        <5>2. DOMAIN Waiting[u] \subseteq Int /\ shift[u] = 0
          BY <1>2, <3>5, <4>2 DEF WaitsAt
        <5>3. i \in Int
          BY <3>8, <5>1, <5>2
        <5>4. i + shift[u] = i
          BY <5>2, <5>3
        <5> QED
          BY <3>8, <5>1, <5>4
      <4> QED
        BY <4>1, <4>2
    <3> QED
      BY <3>5, <3>8 DEF Shrinks
  <2>2. ASSUME \A u \in Sources : \A i \in DOMAIN Waiting'[u] :
                 i \in DOMAIN Waiting[u] /\ Waiting'[u][i] = Waiting[u][i]
        PROVE  \E shift \in [Sources -> Int] : Shrinks(Waiting, Waiting', shift)
    <3>1. PICK shift : shift = [u \in Sources |-> 0]
      OBVIOUS
    <3>2. shift \in [Sources -> Int] /\ \A u \in Sources : shift[u] = 0
      BY <3>1
    <3>3. \A u \in Sources : DOMAIN Waiting[u] \subseteq Int
      BY <1>2 DEF WaitsAt
    <3>4. ASSUME NEW u \in Sources, NEW i \in DOMAIN Waiting'[u]
          PROVE  i + shift[u] \in DOMAIN Waiting[u] /\ Waiting'[u][i] = Waiting[u][i + shift[u]]
      <4>1. Waiting'[u][i] = Waiting[u][i] /\ i \in DOMAIN Waiting[u]
        BY <2>2, <3>4
      <4>2. i + shift[u] = i
        BY <3>2, <3>3, <4>1
      <4> QED
        BY <4>1, <4>2
    <3> QED
      BY <3>2, <3>4 DEF Shrinks
  <2>3. CASE Exit
    <3>1. externalQueue' = <<>> /\ output' = output /\ cursor' = cursor
      BY <2>3 DEF Exit
    <3>2. \A u \in Sources : u # 0 => Waiting'[u] = Waiting[u]
      BY <3>1 DEF Waiting
    <3>3. DOMAIN Waiting'[0] = (cursor' + 1)..Len(externalQueue')
      BY <1>2 DEF WaitsAt
    <3>4. DOMAIN Waiting'[0] = {}
      BY <1>4, <3>1, <3>3
    <3> QED
      BY <2>2, <3>2, <3>4
  <2>a. CASE AdmitThrow
    <3>1. cursor' = cursor + 1 /\ UNCHANGED <<externalQueue, output>>
      BY <2>a DEF AdmitThrow
    <3>2. \A u \in Sources : u # 0 => Waiting'[u] = Waiting[u]
      BY <3>1 DEF Waiting
    <3>3. /\ DOMAIN Waiting'[0] = (cursor' + 1)..Len(externalQueue')
          /\ DOMAIN Waiting[0] = (cursor + 1)..Len(externalQueue)
          /\ \A i \in (cursor' + 1)..Len(externalQueue') : Waiting'[0][i] = externalQueue'[i].tok.id
          /\ \A i \in (cursor + 1)..Len(externalQueue) : Waiting[0][i] = externalQueue[i].tok.id
      BY <1>2 DEF WaitsAt
    <3>4. \A i \in (cursor + 2)..Len(externalQueue) : i \in (cursor + 1)..Len(externalQueue)
      BY <1>4
    <3>5. cursor' + 1 = cursor + 2
      BY <1>4, <3>1
    <3>6. \A i \in DOMAIN Waiting'[0] : i \in DOMAIN Waiting[0] /\ Waiting'[0][i] = Waiting[0][i]
      BY <3>1, <3>3, <3>4, <3>5
    <3> QED
      BY <2>2, <3>2, <3>6
  <2>4. ASSUME NEW t \in Transitions, output' = [output EXCEPT ![t] = <<>>], UNCHANGED <<externalQueue, cursor>>
        PROVE  \E shift \in [Sources -> Int] : Shrinks(Waiting, Waiting', shift)
    <3>1. output' = [output EXCEPT ![t] = <<>>] /\ UNCHANGED <<externalQueue, cursor>>
      BY <2>4
    <3>2. output'[t] = <<>> /\ \A u \in Transitions : u # t => output'[u] = output[u]
      BY <1>5, <3>1
    <3>3. DOMAIN Waiting'[t] = 1..Len(output'[t])
      BY <1>2 DEF WaitsAt
    <3>4. DOMAIN Waiting'[t] = {}
      BY <3>2, <3>3, EmptySeq
    <3>5. \A u \in Sources : u # t => Waiting'[u] = Waiting[u]
      BY <3>1, <3>2, SourcesAre DEF Waiting
    <3> QED
      BY <2>2, <3>4, <3>5
  <2>5. ASSUME CompletionEnds \/ \E t \in Transitions : CompleteFailed(t)
        PROVE  \E t \in Transitions : output' = [output EXCEPT ![t] = <<>>] /\ UNCHANGED <<externalQueue, cursor>>
    BY <2>5 DEF CompletionEnds, EndCompletion, CompleteFailed, PhaseOK
  <2> QED
    BY <2>1, <2>3, <2>a, <2>4, <2>5
<1>7. PICK shift \in [Sources -> Int] : Shrinks(Waiting, Waiting', shift)
  BY <1>6
<1> QED
  BY <1>1, <1>3, <1>7, UniqueLoss

\* Tokens are numbered as they are made: by an action that settles, by an injection.
LEMMA UniqueMinted ==
  ASSUME TypeOK, TypeOK', UniqueTokens, NEW o \in Sources, NEW m \in Nat, minted' = m, minted <= m,
         queues' = queues,
         \A u \in Sources : u # o => Waiting'[u] = Waiting[u],
         \A i \in DOMAIN Waiting'[o] :
           \/ i \in DOMAIN Waiting[o] /\ Waiting'[o][i] = Waiting[o][i]
           \/ Waiting'[o][i] \in (minted + 1)..m,
         \A i, j \in DOMAIN Waiting'[o] :
           Waiting'[o][i] \in (minted + 1)..m /\ Waiting'[o][i] = Waiting'[o][j] => i = j
  PROVE  UniqueTokens'
<1>1. WaitsAt
  BY WaitingAt
<1>2. \A u \in Sources : \A i \in DOMAIN Waiting[u] : Waiting[u][i] \in Nat
  BY <1>1 DEF WaitsAt
<1>3. minted \in Nat /\ queues \in [Places -> Seq(Token)]
  BY DEF TypeOK, LoopTyped, TokensTyped
<1>4. \A p \in Places : Ids(queues[p]) \subseteq Nat
  BY <1>3, IdsTyped
<1>5. Unique(queues, Waiting, minted)
  BY DEF UniqueTokens
<1>6. PICK W, n : W = Waiting' /\ n = minted
  OBVIOUS
<1>7. /\ n \in Nat /\ n <= m /\ Unique(queues, Waiting, n)
      /\ \A u \in Sources : u # o => W[u] = Waiting[u]
      /\ \A i \in DOMAIN W[o] :
           (i \in DOMAIN Waiting[o] /\ W[o][i] = Waiting[o][i]) \/ W[o][i] \in (n + 1)..m
      /\ \A i, j \in DOMAIN W[o] : W[o][i] \in (n + 1)..m /\ W[o][i] = W[o][j] => i = j
  BY <1>3, <1>5, <1>6
<1>8. Unique(queues, W, m)
  BY <1>2, <1>4, <1>7, UniqueGrows
<1> QED
  BY <1>6, <1>8 DEF UniqueTokens, Unique

\* An action settles with its outputs, or with none.
LEMMA UniqueSettled ==
  ASSUME TypeOK, TypeOK', UniqueTokens, NEW t \in Transitions, ActionSettles(t)
  PROVE  UniqueTokens'
<1>1. UNCHANGED <<queues, externalQueue, cursor>>
  BY DEF ActionSettles
<1>2. CASE UNCHANGED <<output, minted>>
  BY <1>1, <1>2, UniqueFrame
<1>3. ASSUME NEW out \in Productions[t], Minted(Len(out)), output' = [output EXCEPT ![t] = Written(t, out)]
      PROVE  UniqueTokens'
  <2>1. output \in [Transitions -> Seq(Deposits)] /\ minted \in Nat
    BY DEF TypeOK, FlightsTyped, LoopTyped
  <2>2. Written(t, out) \in Seq(Deposits) /\ Len(out) \in Nat /\ minted' = minted + Len(out)
    BY <1>3, WrittenTyped DEF Minted
  <2>3. output'[t] = Written(t, out) /\ \A u \in Transitions : u # t => output'[u] = output[u]
    BY <1>3, <2>1
  <2>4. PICK k, m : k = Len(out) /\ m = minted + k
    OBVIOUS
  <2>5. k \in Nat /\ m \in Nat /\ minted <= m /\ minted' = m
    BY <2>1, <2>2, <2>4
  <2>6. DOMAIN out = 1..k
    <3>1. out \in Seq([pid : Nat, name : {"matched", "fresh"}])
      BY QueueAssumption
    <3> QED
      BY <2>4, <3>1, LenProperties
  <2>7. Len(Written(t, out)) = k /\ \A i \in 1..k : Written(t, out)[i].tok.id = minted + i
    <3>1. DOMAIN Written(t, out) = 1..k
      BY <2>6 DEF Written
    <3>2. \A i \in 1..k : Written(t, out)[i].tok.id = minted + i
      BY <2>6 DEF Written
    <3> QED
      BY <2>2, <2>5, <3>1, <3>2, LenProperties
  <2>8. WaitsAt'
    BY WaitingAt, PTL
  <2>9. DOMAIN Waiting'[t] = 1..Len(output'[t]) /\ \A i \in 1..Len(output'[t]) : Waiting'[t][i] = output'[t][i].tok.id
    BY <2>8 DEF WaitsAt
  <2>10. DOMAIN Waiting'[t] = 1..k /\ \A i \in 1..k : Waiting'[t][i] = minted + i
    BY <2>3, <2>7, <2>9
  <2>11. t \in Sources /\ \A u \in Sources : u # t => Waiting'[u] = Waiting[u]
    BY <1>1, <2>3, SourcesAre DEF Waiting
  <2>12. ASSUME NEW i \in DOMAIN Waiting'[t] PROVE Waiting'[t][i] \in (minted + 1)..m
    BY <2>1, <2>4, <2>5, <2>10, <2>12
  <2>13. ASSUME NEW i \in DOMAIN Waiting'[t], NEW j \in DOMAIN Waiting'[t], Waiting'[t][i] = Waiting'[t][j]
         PROVE  i = j
    BY <2>1, <2>10, <2>13
  <2> QED
    BY <1>1, <2>5, <2>11, <2>12, <2>13, UniqueMinted
<1> QED
  BY <1>2, <1>3 DEF ActionSettles

\* An injected token is new.
LEMMA UniqueInjected ==
  ASSUME TypeOK, TypeOK', UniqueTokens, NEW p, NEW n, Inject(p, n)
  PROVE  UniqueTokens'
<1>1. /\ UNCHANGED <<queues, output, cursor>> /\ minted' = minted + 1
      /\ externalQueue' = Append(externalQueue, [pid |-> p, tok |-> [id |-> minted + 1, name |-> n]])
  BY DEF Inject, Minted
<1>2. /\ externalQueue \in Seq(Deposits) /\ cursor \in Nat /\ minted \in Nat
      /\ Len(externalQueue) \in Nat /\ externalQueue' \in Seq(Deposits) /\ cursor <= Len(externalQueue)
  BY LenProperties DEF TypeOK, ExternalTyped, LoopTyped
<1>3. PICK x : x = [pid |-> p, tok |-> [id |-> minted + 1, name |-> n]]
  OBVIOUS
<1>4. PICK k : k = Len(externalQueue)
  OBVIOUS
<1>5. x.tok.id = minted + 1
  BY <1>3
<1>6. /\ Len(externalQueue') = k + 1 /\ \A i \in 1..k : externalQueue'[i] = externalQueue[i]
      /\ externalQueue'[k + 1] = x
  BY <1>1, <1>2, <1>3, <1>4
<1>7. WaitsAt /\ WaitsAt'
  BY WaitingAt, PTL
<1>8. /\ DOMAIN Waiting[0] = (cursor + 1)..k
      /\ \A i \in (cursor + 1)..k : Waiting[0][i] = externalQueue[i].tok.id
  BY <1>4, <1>7 DEF WaitsAt
<1>9. /\ DOMAIN Waiting'[0] = (cursor + 1)..(k + 1)
      /\ \A i \in (cursor + 1)..(k + 1) : Waiting'[0][i] = externalQueue'[i].tok.id
  <2>1. /\ DOMAIN Waiting'[0] = (cursor' + 1)..Len(externalQueue')
        /\ \A i \in (cursor' + 1)..Len(externalQueue') : Waiting'[0][i] = externalQueue'[i].tok.id
    BY <1>7 DEF WaitsAt
  <2> QED
    BY <1>1, <1>6, <2>1
<1>10. ASSUME NEW i \in DOMAIN Waiting'[0]
       PROVE  \/ i \in DOMAIN Waiting[0] /\ Waiting'[0][i] = Waiting[0][i]
              \/ i = k + 1 /\ Waiting'[0][i] = minted + 1
  <2>1. CASE i = k + 1
    BY <1>5, <1>6, <1>9, <1>10, <2>1
  <2>2. CASE i # k + 1
    <3>1. i \in (cursor + 1)..k /\ i \in 1..k
      BY <1>2, <1>4, <1>9, <1>10, <2>2
    <3> QED
      BY <1>6, <1>8, <1>9, <1>10, <3>1
  <2> QED
    BY <2>1, <2>2
<1>11. \A i \in DOMAIN Waiting[0] : Waiting[0][i] <= minted /\ Waiting[0][i] \in Nat
  BY <1>7, SourcesAre DEF UniqueTokens, Unique, WaitsAt
<1>12. ASSUME NEW i \in DOMAIN Waiting'[0], Waiting'[0][i] \in (minted + 1)..(minted + 1)
       PROVE  i = k + 1
  <2>1. CASE i \in DOMAIN Waiting[0] /\ Waiting'[0][i] = Waiting[0][i]
    BY <1>2, <1>11, <1>12, <2>1
  <2> QED
    BY <1>10, <1>12, <2>1
<1>13. \A u \in Sources : u # 0 => Waiting'[u] = Waiting[u]
  BY <1>1 DEF Waiting
<1>14. PICK m : m = minted + 1
  OBVIOUS
<1>15. m \in Nat /\ minted' = m /\ minted <= m /\ 0 \in Sources /\ minted + 1 \in (minted + 1)..m
  BY <1>1, <1>2, <1>14, SourcesAre
<1>16. \A i \in DOMAIN Waiting'[0] :
         \/ i \in DOMAIN Waiting[0] /\ Waiting'[0][i] = Waiting[0][i]
         \/ Waiting'[0][i] \in (minted + 1)..m
  BY <1>10, <1>15
<1>17. \A i, j \in DOMAIN Waiting'[0] :
         Waiting'[0][i] \in (minted + 1)..m /\ Waiting'[0][i] = Waiting'[0][j] => i = j
  BY <1>12, <1>14
<1> QED
  BY <1>1, <1>13, <1>15, <1>16, <1>17, UniqueMinted

\* A step never makes a number twice.
LEMMA UniqueStep ==
  ASSUME TypeOK, TypeOK', PhaseOK, UniqueTokens, [Next]_vars
  PROVE  UniqueTokens'
<1>1. CASE \/ Waits \/ Run \/ BeginExternal \/ updateDirtyTransitions
           \/ enforceDeadlines \/ Decide \/ PeekReads \/ FireStart \/ FireRegister \/ FireThrow
           \/ \E t \in Transitions : CompleteOk(t) \/ FireSkip(t) \/ FireBegin(t)
  <2>1. UNCHANGED <<queues, output, externalQueue, cursor, minted>>
    <3>1. CASE Waits
      BY <3>1, WaitsFrame
    <3>2. CASE Run \/ BeginExternal \/ updateDirtyTransitions \/ enforceDeadlines \/ Decide
      BY <3>2 DEF Run, BeginExternal, updateDirtyTransitions, enforceDeadlines, Decide
    <3>3. CASE PeekReads \/ FireStart \/ FireRegister \/ FireThrow
      BY <3>3 DEF PeekReads, FireStart, FireRegister, FireThrow
    <3>4. ASSUME NEW t \in Transitions, CompleteOk(t) \/ FireSkip(t) \/ FireBegin(t)
          PROVE  UNCHANGED <<queues, output, externalQueue, cursor, minted>>
      BY <3>4 DEF CompleteOk, FireSkip, FireBegin
    <3> QED
      BY <1>1, <3>1, <3>2, <3>3, <3>4
  <2> QED
    BY <2>1, UniqueFrame
<1>2. CASE Deposit
  BY <1>2, UniqueOutput
<1>3. CASE Admit
  BY <1>3, UniqueArrival
<1>4. CASE ExecuteOp
  BY <1>4, UniqueOp
<1>5. CASE EndExternal \/ AdmitThrow \/ Exit \/ CompletionEnds \/ \E t \in Transitions : CompleteFailed(t)
  BY <1>5, UniqueDropped
<1>6. ASSUME NEW t \in Transitions, ActionSettles(t) PROVE UniqueTokens'
  BY <1>6, UniqueSettled
<1>7. ASSUME NEW p \in EnvPlaces, NEW n \in Names \cup {NoName}, Inject(p, n) PROVE UniqueTokens'
  BY <1>7, UniqueInjected
<1> QED
  BY <1>1, <1>2, <1>3, <1>4, <1>5, <1>6, <1>7, StepCases

\* The tokens an executor is constructed with are numbered once.
LEMMA UniqueInit ==
  ASSUME Init, TypeOK
  PROVE  UniqueTokens
<1>1. /\ queues \in InitialQueues /\ output = [t \in Transitions |-> <<>>] /\ externalQueue = <<>>
      /\ cursor = 0 /\ minted = FirstMinted
  BY DEF Init
<1>2. \A p \in Places : \A i, j \in DOMAIN queues[p] :
        /\ queues[p][i].id = queues[p][j].id => i = j
        /\ queues[p][i].id <= FirstMinted
  BY <1>1, QueueAssumption
<1>3. \A p \in Places : Distinct(queues[p]) /\ \A x \in Ids(queues[p]) : x <= minted
  BY <1>1, <1>2 DEF Distinct, Ids
<1>5. WaitsAt
  BY WaitingAt
<1>6. ASSUME NEW u \in Sources PROVE DOMAIN Waiting[u] = {}
  <2>1. CASE u = 0
    <3>1. DOMAIN Waiting[0] = (cursor + 1)..Len(externalQueue)
      BY <1>5 DEF WaitsAt
    <3> QED
      BY <1>1, <2>1, <3>1
  <2>2. CASE u \in Transitions
    <3>1. DOMAIN Waiting[u] = 1..Len(output[u])
      BY <1>5, <2>2 DEF WaitsAt
    <3> QED
      BY <1>1, <2>2, <3>1
  <2> QED
    BY <2>1, <2>2, SourcesAre
<1> QED
  BY <1>3, <1>6 DEF UniqueTokens, Unique

-----------------------------------------------------------------------------
(* Match caches.                                                           *)

\* The inputs of a transition are its input specs, each once.
LEMMA SpecsExact ==
  ASSUME NEW t \in Transitions
  PROVE  /\ Len(InputSpecs[t]) \in Nat
         /\ \A p \in InputPlaces(t) : \E i \in 1..Len(InputSpecs[t]) : InputSpecs[t][i] = p
         /\ \A i, j \in 1..Len(InputSpecs[t]) : InputSpecs[t][i] = InputSpecs[t][j] => i = j
<1>1. InputSpecs[t] \in Seq(Places) /\ IsInjective(InputSpecs[t]) /\ Range(InputSpecs[t]) = InputPlaces(t)
  BY WordAssumption DEF WordAssumption
<1>2. Len(InputSpecs[t]) \in Nat /\ DOMAIN InputSpecs[t] = 1..Len(InputSpecs[t])
  BY <1>1, LenProperties
<1> QED
  BY <1>1, <1>2 DEF IsInjective, Range

\* The last token of an opcode settles the input it takes from, and no other input.
LEMMA PendingStep ==
  ASSUME TypeOK, PhaseOK, pc = "consume", UNCHANGED <<pc, firing>>, op' \in {op, op + 1},
         op \in 1..Len(InputSpecs[firing]), NEW p, p = InputSpecs[firing][op]
  PROVE  Pending(p) /\ \A q : Pending(q)' <=> Pending(q) /\ (q # p \/ op' = op)
<1>1. firing \in Transitions
  BY DEF PhaseOK, FiringPcs
<1>2. /\ Len(InputSpecs[firing]) \in Nat
      /\ \A i, j \in 1..Len(InputSpecs[firing]) : InputSpecs[firing][i] = InputSpecs[firing][j] => i = j
  BY <1>1, SpecsExact
<1>3. Pending(p)
  BY <1>2 DEF Pending
<1>a. CASE op' = op
  BY <1>3, <1>a DEF Pending
<1>4. ASSUME op' = op + 1, NEW q PROVE Pending(q)' <=> Pending(q) /\ q # p
  <2>1. Pending(q)' <=> \E i \in (op + 1)..Len(InputSpecs[firing]) : InputSpecs[firing][i] = q
    BY <1>4 DEF Pending
  <2>2. Pending(q) <=> \E i \in op..Len(InputSpecs[firing]) : InputSpecs[firing][i] = q
    BY DEF Pending
  <2>3. ASSUME NEW i \in (op + 1)..Len(InputSpecs[firing]), InputSpecs[firing][i] = q PROVE q # p
    <3>1. i \in 1..Len(InputSpecs[firing]) /\ i # op
      BY <1>2
    <3> QED
      BY <1>2, <2>3, <3>1
  <2>4. \A i \in op..Len(InputSpecs[firing]) : i = op \/ i \in (op + 1)..Len(InputSpecs[firing])
    BY <1>2
  <2>5. \A i \in (op + 1)..Len(InputSpecs[firing]) : i \in op..Len(InputSpecs[firing])
    BY <1>2
  <2> QED
    BY <2>1, <2>2, <2>3, <2>4, <2>5
<1>5. op \in Nat
  BY DEF TypeOK, LoopTyped
<1> QED
  BY <1>3, <1>a, <1>4, <1>5

\* Nothing is pending behind the input opcodes.
LEMMA NothingPending ==
  ASSUME TypeOK, PhaseOK, pc # "consume" \/ op > Program.resetOpsStart, NEW p
  PROVE  ~Pending(p)
<1>1. CASE pc # "consume"
  BY <1>1 DEF Pending
<1>2. CASE pc = "consume" /\ op > Program.resetOpsStart
  <2>1. firing \in Transitions /\ op \in Nat
    BY <1>2 DEF PhaseOK, FiringPcs, TypeOK, LoopTyped
  <2>2. Program.resetOpsStart = Len(InputSpecs[firing]) /\ Len(InputSpecs[firing]) \in Nat
    BY <2>1, ProgramShape DEF Program
  <2>3. \A i \in op..Len(InputSpecs[firing]) : FALSE
    BY <1>2, <2>1, <2>2
  <2> QED
    BY <2>3 DEF Pending
<1> QED
  BY <1>1, <1>2

\* What the firing under way needs of a pending input is in the pool of its opcode.
LEMMA PoolSupplied ==
  ASSUME TypeOK, PhaseOK, FiringSupplied, pc = "consume", NEW p \in InputPlaces(firing), Pending(p)
  PROVE  /\ Len(consumed[firing][p]) + Len(Pool(firing, p)) >= Required[firing][p]
         /\ p \in Keys[firing] => Pool(firing, p) = Named(queues[p], matched[firing])
<1>1. InputReady(p) /\ (Keys[firing] # {} => matched[firing] \in Names)
  BY DEF FiringSupplied, FiringPcs
<1>2. NoName \notin Names
  BY QueueAssumption DEF QueueAssumption
<1> QED
  BY <1>1, <1>2 DEF Pool, InputReady

\* What an opcode has still to take when it takes a token, and what it takes.
LEMMA OpDue ==
  ASSUME TypeOK, PhaseOK, UniqueTokens, FiringSupplied, ExecuteOp, pc = "consume",
         NEW p \in Places, NEW taken \in Seq(Token), OpTakes(p, taken)
  PROVE  /\ firing \in Transitions /\ p \in InputPlaces(firing) /\ Pending(p) /\ InputReady(p)
         /\ \A q : Pending(q)' <=> Pending(q) /\ (q # p \/ op' = op)
         /\ Pool(firing, p) \in Seq(Token) /\ Len(Pool(firing, p)) \in Nat
         /\ Distinct(Pool(firing, p)) /\ Ids(Pool(firing, p)) \subseteq Ids(queues[p])
         /\ Len(consumed[firing][p]) \in Nat /\ Required[firing][p] \in Nat
         /\ taken = SubSeq(Pool(firing, p), 1, 1)
         /\ taken = IF Len(Pool(firing, p)) = 0 THEN <<>> ELSE <<Pool(firing, p)[1]>>
         /\ Len(taken) = IF Len(Pool(firing, p)) = 0 THEN 0 ELSE 1
         /\ Len(queues'[p]) = Len(queues[p]) - Len(taken) /\ Len(queues[p]) \in Nat
         /\ Pool(firing, p)' = IF Len(Pool(firing, p)) = 0 THEN <<>> ELSE Tail(Pool(firing, p))
         /\ \E k \in 0..Len(Pool(firing, p)) :
              /\ Due(p) = SubSeq(Pool(firing, p), 1, k) /\ Len(Due(p)) = k
              /\ op' = IF k <= 1 THEN op + 1 ELSE op
              /\ p \in TakesAll[firing] => k = Len(Pool(firing, p))
              /\ p \notin TakesAll[firing] => k = Required[firing][p] - Len(consumed[firing][p])
<1>1. /\ firing \in Transitions /\ op \in Nat /\ op' \in {op, op + 1} /\ UNCHANGED <<pc, firing, matched>>
  BY OpEffect
<1>2. /\ op \in 1..Len(InputSpecs[firing]) /\ p = InputSpecs[firing][op] /\ p \in InputPlaces(firing)
      /\ taken = SubSeq(Due(p), 1, 1)
      /\ op' = IF Len(Due(p)) <= 1 THEN op + 1 ELSE op
      /\ queues' = [queues EXCEPT ![p] = Without(queues[p], taken)]
  BY DEF OpTakes
<1>3. Pending(p) /\ \A q : Pending(q)' <=> Pending(q) /\ (q # p \/ op' = op)
  BY <1>1, <1>2, PendingStep
<1>4. InputReady(p)
  BY <1>2, <1>3 DEF FiringSupplied, FiringPcs
<1>5. /\ queues \in [Places -> Seq(Token)] /\ consumed \in [Transitions -> [Places -> Seq(Token)]]
      /\ queues[p] \in Seq(Token) /\ consumed[firing][p] \in Seq(Token) /\ Distinct(queues[p])
  BY <1>1 DEF TypeOK, TokensTyped, FlightsTyped, UniqueTokens, Unique
<1>6. PICK pool, due, given, need :
         /\ pool = Pool(firing, p) /\ due = Due(p)
         /\ given = Len(consumed[firing][p]) /\ need = Required[firing][p]
  OBVIOUS
<1>7. given \in Nat /\ need \in Nat /\ need > 0 /\ Len(queues[p]) \in Nat
  BY <1>1, <1>2, <1>5, <1>6, LenProperties, ArcsTyped
<1>8. given + Len(pool) >= need /\ (p \notin TakesAll[firing] => given < need)
  BY <1>2, <1>3, <1>4, <1>6, PoolSupplied DEF InputReady
<1>9. /\ pool \in Seq(Token)
      /\ \E k \in 0..Len(pool) :
           /\ due = SubSeq(pool, 1, k) /\ Len(due) = k
           /\ p \in TakesAll[firing] => k = Len(pool)
           /\ p \notin TakesAll[firing] /\ given < need /\ given + Len(pool) >= need => k = need - given
  BY <1>1, <1>2, <1>5, <1>6, TakenByInput DEF Due
<1>10. PICK k \in 0..Len(pool) :
         /\ due = SubSeq(pool, 1, k) /\ Len(due) = k
         /\ p \in TakesAll[firing] => k = Len(pool)
         /\ p \notin TakesAll[firing] /\ given < need /\ given + Len(pool) >= need => k = need - given
  BY <1>9
<1>11. Len(pool) \in Nat /\ (Len(pool) = 0 <=> pool = <<>>)
  BY <1>9, EmptySeq, LenProperties
<1>12. (k = 0 <=> Len(pool) = 0) /\ (p \notin TakesAll[firing] => k = need - given)
  BY <1>7, <1>8, <1>10, <1>11
<1>13. /\ taken = SubSeq(pool, 1, 1)
       /\ taken = IF Len(pool) = 0 THEN <<>> ELSE <<pool[1]>>
       /\ Len(taken) = IF Len(pool) = 0 THEN 0 ELSE 1
  <2>1. /\ SubSeq(pool, 1, 1) = IF pool = <<>> THEN <<>> ELSE <<pool[1]>>
        /\ Len(SubSeq(pool, 1, 1)) = IF Len(pool) = 0 THEN 0 ELSE 1
    BY <1>9, FirstOf
  <2>2. taken = SubSeq(due, 1, 1)
    BY <1>2, <1>6
  <2>3. CASE k = 0
    <3>1. pool = <<>> /\ Len(pool) = 0
      BY <1>11, <1>12, <2>3
    <3>2. due = <<>>
      BY <1>10, <2>3, SubSeqEmpty
    <3>3. SubSeq(<<>>, 1, 1) = <<>>
      BY SubSeqOfEmpty
    <3> QED
      BY <2>1, <2>2, <3>1, <3>2, <3>3, EmptySeq
  <2>4. CASE k # 0
    <3>1. pool # <<>> /\ Len(pool) # 0 /\ 1 \in 1..k /\ k \in Nat
      BY <1>11, <1>12, <2>4
    <3>2. \A i \in 1..k : pool[i] \in Token
      BY <1>9, <1>10, <1>11, ElementOfSeq
    <3>3. due \in Seq(Token) /\ due[1] = pool[1]
      <4>1. 1 \in Int /\ k \in Int /\ 1 \in 1..(k - 1 + 1) /\ 1 + 1 - 1 = 1
        BY <3>1
      <4>2. SubSeq(pool, 1, k) \in Seq(Token) /\ \A i \in 1..(k - 1 + 1) : SubSeq(pool, 1, k)[i] = pool[1 + i - 1]
        BY <3>2, <4>1, SubSeqProperties
      <4> QED
        BY <1>10, <4>1, <4>2
    <3>4. due # <<>>
      BY <1>10, <2>4, EmptySeq
    <3>5. SubSeq(due, 1, 1) = <<due[1]>>
      BY <3>3, <3>4, FirstOf
    <3> QED
      BY <2>1, <2>2, <3>1, <3>3, <3>5
  <2> QED
    BY <2>3, <2>4
<1>14. PICK S : /\ pool = Kept(queues[p], S)
                /\ \A s \in Seq(Token) : p \in Keys[firing] /\ matched[firing] # NoName => Named(s, matched[firing]) = Kept(s, S)
                /\ \A s \in Seq(Token) : ~(p \in Keys[firing] /\ matched[firing] # NoName) => s = Kept(s, S)
  <2>1. CASE p \in Keys[firing] /\ matched[firing] # NoName
    <3>1. pool = Named(queues[p], matched[firing])
      BY <1>6, <2>1 DEF Pool
    <3>2. \A s \in Seq(Token) : Named(s, matched[firing]) = Kept(s, OfName(matched[firing]))
      BY PartsKept
    <3> QED
      BY <1>5, <2>1, <3>1, <3>2
  <2>2. CASE ~(p \in Keys[firing] /\ matched[firing] # NoName)
    <3>1. pool = queues[p]
      BY <1>6, <2>2 DEF Pool
    <3>2. \A s \in Seq(Token) : s = Kept(s, Token)
      BY KeptAll
    <3> QED
      BY <1>5, <2>2, <3>1, <3>2
  <2> QED
    BY <2>1, <2>2
<1>15. /\ Distinct(pool) /\ Ids(pool) \subseteq Ids(queues[p])
       /\ Kept(Without(queues[p], taken), S) = IF pool = <<>> THEN <<>> ELSE Tail(pool)
       /\ Len(Without(queues[p], taken)) = Len(queues[p]) - Len(taken)
  BY <1>5, <1>13, <1>14, PartWithoutFirst
<1>16. queues'[p] = Without(queues[p], taken) /\ Without(queues[p], taken) \in Seq(Token)
  BY <1>2, <1>5, PartsTyped
<1>17. Pool(firing, p)' = Kept(queues'[p], S)
  <2>1. Pool(firing, p)' = IF p \in Keys[firing] /\ matched[firing] # NoName THEN Named(queues'[p], matched[firing]) ELSE queues'[p]
    BY <1>1 DEF Pool
  <2> QED
    BY <1>14, <1>16, <2>1
<1> HIDE DEF Pool, Due
<1> QED
  BY <1>1, <1>2, <1>3, <1>4, <1>6, <1>7, <1>9, <1>10, <1>11, <1>12, <1>13, <1>15, <1>16, <1>17

\* The numbers of the first k tokens are that of the first and those of the next k - 1.
LEMMA PrefixIds ==
  ASSUME NEW s \in Seq(Token), NEW k \in 1..Len(s)
  PROVE  Ids(SubSeq(s, 1, k)) = Ids(<<s[1]>>) \cup Ids(SubSeq(Tail(s), 1, k - 1))
<1>1. Len(s) \in Nat /\ s # <<>> /\ \A i \in 1..Len(s) : s[i] \in Token
  BY EmptySeq, LenProperties, ElementOfSeq
<1>2. /\ Tail(s) \in Seq(Token) /\ Len(Tail(s)) = Len(s) - 1
      /\ \A i \in 1..(Len(s) - 1) : Tail(s)[i] = s[i + 1]
  BY <1>1, HeadTailProperties
<1>3. /\ DOMAIN SubSeq(s, 1, k) = 1..k
      /\ \A i \in 1..k : SubSeq(s, 1, k)[i] = s[i]
  <2>1. 1 \in Int /\ k \in Int /\ k - 1 + 1 = k /\ (IF 1 <= k THEN k - 1 + 1 ELSE 0) = k
    BY <1>1
  <2>2. \A i \in 1..k : s[i] \in Token
    BY <1>1
  <2>3. /\ SubSeq(s, 1, k) \in Seq(Token) /\ Len(SubSeq(s, 1, k)) = k
        /\ \A i \in 1..(k - 1 + 1) : SubSeq(s, 1, k)[i] = s[1 + i - 1]
    BY <2>1, <2>2, SubSeqProperties
  <2> QED
    BY <2>1, <2>3, LenProperties
<1>4. PICK j, r : j = k - 1 /\ r = Tail(s)
  OBVIOUS
<1>5. /\ j \in Nat /\ j <= Len(s) - 1 /\ k = j + 1
      /\ r \in Seq(Token) /\ \A i \in 1..j : i \in 1..Len(r) /\ r[i] = s[i + 1]
  BY <1>1, <1>2, <1>4
<1>6. /\ DOMAIN SubSeq(r, 1, j) = 1..j
      /\ \A i \in 1..j : SubSeq(r, 1, j)[i] = s[i + 1]
  <2>1. 1 \in Int /\ j \in Int /\ j - 1 + 1 = j /\ (IF 1 <= j THEN j - 1 + 1 ELSE 0) = j
    BY <1>5
  <2>2. \A i \in 1..j : r[i] \in Token
    BY <1>5, ElementOfSeq
  <2>3. /\ SubSeq(r, 1, j) \in Seq(Token)
        /\ Len(SubSeq(r, 1, j)) = IF 1 <= j THEN j - 1 + 1 ELSE 0
        /\ \A i \in 1..(j - 1 + 1) : SubSeq(r, 1, j)[i] = r[1 + i - 1]
    BY <2>1, <2>2, SubSeqProperties
  <2>4. PICK q : q = SubSeq(r, 1, j)
    OBVIOUS
  <2>5. q \in Seq(Token) /\ Len(q) = j /\ \A i \in 1..j : q[i] = r[i]
    BY <2>1, <2>3, <2>4
  <2>6. DOMAIN q = 1..j
    BY <2>5, LenProperties
  <2> QED
    BY <1>5, <2>4, <2>5, <2>6
<1>7. PICK a, b : a = SubSeq(s, 1, k) /\ b = SubSeq(r, 1, j)
  OBVIOUS
<1>a. DOMAIN a = 1..k /\ (\A i \in 1..k : a[i] = s[i]) /\ DOMAIN b = 1..j /\ \A i \in 1..j : b[i] = s[i + 1]
  BY <1>3, <1>6, <1>7
<1>8. Ids(a) = {s[i].id : i \in 1..k} /\ Ids(b) = {s[i + 1].id : i \in 1..j}
  BY <1>a DEF Ids
<1>9. Ids(<<s[1]>>) = {s[1].id}
  BY DEF Ids
<1>10. Ids(a) = {s[1].id} \cup Ids(b)
  <2>1. \A i \in 1..k : i = 1 \/ (i - 1 \in 1..j /\ (i - 1) + 1 = i)
    BY <1>5
  <2>2. \A i \in 1..j : i + 1 \in 1..k
    BY <1>5
  <2>3. 1 \in 1..k
    BY <1>5
  <2> QED
    BY <1>8, <2>1, <2>2, <2>3
<1> QED
  BY <1>4, <1>7, <1>9, <1>10

\* Taking out one part and then another is taking out both.
LEMMA WithoutTwice ==
  ASSUME NEW s \in Seq(Token), NEW a, NEW b, NEW c, Ids(c) = Ids(a) \cup Ids(b)
  PROVE  Without(Without(s, a), b) = Without(s, c)
<1>1. Without(s, a) \in Seq(Token)
  BY PartsTyped
<1>2. Without(Without(s, a), b) = Kept(Kept(s, OutsideOf(a)), OutsideOf(b))
  BY <1>1, PartsKept
<1>3. Kept(Kept(s, OutsideOf(a)), OutsideOf(b)) = Kept(s, OutsideOf(a) \cap OutsideOf(b))
  BY KeptTwice
<1>4. OutsideOf(a) \cap OutsideOf(b) = OutsideOf(c)
  BY DEF OutsideOf
<1> QED
  BY <1>2, <1>3, <1>4, PartsKept

\* The matchers stay exact where neither they nor their queues nor the pending inputs change.
LEMMA MatchersStay ==
  ASSUME MatchersExact, UNCHANGED <<queues, cache>>,
         (pc # "consume" /\ pc' # "consume") \/ UNCHANGED <<pc, firing, op, matched, consumed>>
  PROVE  MatchersExact'
<1>1. CASE pc # "consume" /\ pc' # "consume"
  BY <1>1 DEF MatchersExact, MatcherExact, Eligible, Pending
<1>2. CASE UNCHANGED <<pc, firing, op, matched, consumed>>
  BY <1>2 DEF MatchersExact, MatcherExact, Eligible, Pending, Bound
<1> QED
  BY <1>1, <1>2

\* A step moves a matcher as it moves the queues of its join, or drops it.
LEMMA MatchersStep ==
  ASSUME TypeOK, PhaseOK, BitsExact, MatchersExact, FiringSupplied, IdleHoldsNothing, UniqueTokens,
         [Next]_vars
  PROVE  MatchersExact'
<1>a. queues \in [Places -> Seq(Token)] /\ cache = [t \in Transitions |-> cache[t]]
  BY DEF TypeOK, TokensTyped
<1>b. ASSUME NEW t \in Transitions, NEW p \in Keys[t]
      PROVE  p \in Places /\ queues[p] \in Seq(Token) /\ p \in InputPlaces(t)
  BY <1>a, ArcsTyped
<1>1. CASE Waits
  <2>1. UNCHANGED <<queues, cache, firing, op, matched, consumed>>
    BY <1>1, WaitsFrame
  <2> QED
    BY <1>1, <2>1, WaitsFrame, MatchersStay
<1>2. CASE Run \/ CompletionEnds \/ BeginExternal \/ AdmitThrow \/ EndExternal \/ Exit
  BY <1>2, MatchersStay DEF Run, CompletionEnds, EndCompletion, BeginExternal, AdmitThrow, EndExternal, Exit
<1>3. ASSUME NEW p \in Nat, NEW tok \in Token, produceToken(p, tok), pc' = pc, pc # "consume"
      PROVE  MatchersExact'
  <2>1. CASE p \notin Places
    BY <1>3, <2>1, ProduceEffect, MatchersStay
  <2>2. CASE p \in Places
    <3>1. /\ queues' = [queues EXCEPT ![p] = Append(queues[p], tok)]
          /\ \A t \in Transitions :
               cache'[t] = IF cache[t] # <<>> /\ p \in Keys[t] /\ tok.name # NoName
                           THEN <<[cache[t][1] EXCEPT ![p] = Append(cache[t][1][p], tok)]>>
                           ELSE cache[t]
      BY <1>3, <2>2, ProduceEffect
    <3>2. ASSUME NEW t \in Transitions, cache'[t] # <<>> PROVE MatcherExact(t)'
      <4>1. cache[t] # <<>>
        BY <3>1, <3>2
      <4>2. Eligible(t) /\ \A q \in Keys[t] : cache[t][1][q] = Correlating(queues[q])
        BY <1>3, <4>1 DEF MatchersExact, MatcherExact, Pending
      <4>3. cache[t][1] \in [Keys[t] -> Seq(Token)]
        BY <4>1 DEF TypeOK, TokensTyped, CacheTyped
      <4>e. PICK e : e = [cache[t][1] EXCEPT ![p] = Append(cache[t][1][p], tok)]
        OBVIOUS
      <4>f. cache'[t] = IF p \in Keys[t] /\ tok.name # NoName THEN <<e>> ELSE cache[t]
        BY <3>1, <4>1, <4>e
      <4>g. \A q \in Keys[t] : e[q] = IF q = p THEN Append(cache[t][1][p], tok) ELSE cache[t][1][q]
        BY <4>3, <4>e
      <4>4. ASSUME NEW q \in Keys[t] PROVE cache'[t][1][q] = Correlating(queues'[q])
        <5>1. CASE q # p
          <6>1. queues'[q] = queues[q]
            BY <1>a, <1>b, <3>1, <5>1
          <6>2. cache'[t][1][q] = cache[t][1][q]
            BY <4>f, <4>g, <5>1
          <6> QED
            BY <4>2, <6>1, <6>2
        <5>2. CASE q = p /\ tok.name # NoName
          <6>1. cache'[t][1][p] = Append(cache[t][1][p], tok)
            <7>1. p \in Keys[t] /\ cache'[t] = <<e>>
              BY <4>f, <5>2
            <7>2. cache'[t][1] = e
              BY <7>1
            <7> QED
              BY <4>g, <7>1, <7>2
          <6>2. queues'[p] = Append(queues[p], tok)
            BY <1>a, <2>2, <3>1
          <6>3. Correlating(Append(queues[p], tok)) = Append(Correlating(queues[p]), tok)
            BY <1>a, <2>2, <5>2, CorrelatingAppend
          <6> QED
            BY <4>2, <5>2, <6>1, <6>2, <6>3
        <5>3. CASE q = p /\ tok.name = NoName
          <6>1. cache'[t][1][p] = cache[t][1][p]
            BY <3>1, <5>3
          <6>2. queues'[p] = Append(queues[p], tok)
            BY <1>a, <2>2, <3>1
          <6>3. Correlating(Append(queues[p], tok)) = Correlating(queues[p])
            BY <1>a, <2>2, <5>3, CorrelatingAppend
          <6> QED
            BY <4>2, <5>3, <6>1, <6>2, <6>3
        <5> QED
          BY <5>1, <5>2, <5>3
      <4> QED
        BY <1>3, <4>2, <4>4 DEF MatcherExact, Eligible, Pending
    <3> QED
      BY <3>2 DEF MatchersExact
  <2> QED
    BY <2>1, <2>2
<1>4. CASE Deposit \/ Admit
  BY <1>3, <1>4, DepositTyped DEF Deposit, Admit
<1>5. CASE updateDirtyTransitions \/ enforceDeadlines \/ Decide
  BY <1>5, MatchersStay DEF updateDirtyTransitions, enforceDeadlines, Decide
<1>6. CASE ExecuteOp
  <2>1. PICK p \in ConsumptionPlaces(firing), taken \in Seq(Token) : p \in Places /\ OpTakes(p, taken)
    BY <1>6, OpEffect
  <2>2. firing \in Transitions /\ op' \in {op, op + 1} /\ UNCHANGED <<pc, cache, matched, firing>>
    BY <1>6, OpEffect
  <2>3. queues'[p] = Without(queues[p], taken) /\ \A q \in Places : q # p => queues'[q] = queues[q]
    BY <1>a, <2>1 DEF OpTakes
  <2>4. ASSUME NEW t \in Transitions, cache'[t] # <<>> PROVE MatcherExact(t)'
    <3>1. MatcherExact(t) /\ Eligible(t)
      BY <2>2, <2>4 DEF MatchersExact, MatcherExact
    <3>2. ASSUME NEW q \in Keys[t]
          PROVE  cache'[t][1][q] = IF t = firing /\ Pending(q)' THEN Without(Correlating(queues'[q]), Bound(t, q)')
                                   ELSE Correlating(queues'[q])
      <4>1. cache[t][1][q] = IF t = firing /\ Pending(q) THEN Without(Correlating(queues[q]), Bound(t, q))
                             ELSE Correlating(queues[q])
        BY <3>1 DEF MatcherExact
      <4>2. CASE q # p
        <5>1. queues'[q] = queues[q]
          BY <1>b, <2>3, <4>2
        <5>2. Bound(t, q)' = Bound(t, q)
          <6>1. consumed'[t][q] = consumed[t][q]
            BY <1>b, <2>1, <4>2 DEF OpTakes, TypeOK, FlightsTyped
          <6> QED
            BY <2>2, <5>1, <6>1 DEF Bound
        <5>3. Pending(q)' <=> Pending(q)
          <6>1. CASE pc = "consume"
            BY <1>6, <2>1, <4>2, <6>1, OpDue
          <6>2. CASE pc # "consume"
            BY <2>2, <6>2 DEF Pending
          <6> QED
            BY <6>1, <6>2
        <5> QED
          BY <2>2, <4>1, <5>1, <5>2, <5>3
      <4>3. CASE q = p
        <5>1. t = firing /\ p \notin Resets[firing] /\ p \notin TakesAll[firing]
          BY <2>1, <2>2, <3>1, <4>3 DEF Eligible, ConsumptionPlaces
        <5>2. /\ pc = "consume" /\ op \in 1..Len(InputSpecs[firing])
              /\ p = InputSpecs[firing][op] /\ p \in InputPlaces(firing)
          BY <2>1, <5>1 DEF OpTakes
        <5>3. Pending(p) /\ (Pending(p)' <=> op' = op) /\ Pool(firing, p) = Named(queues[p], matched[firing])
          BY <1>6, <2>1, <4>3, <5>1, <5>2, OpDue, PoolSupplied
        <5>4. PICK pool, given, need :
                 /\ pool = Named(queues[p], matched[firing]) /\ pool = Pool(firing, p)
                 /\ given = Len(consumed[firing][p]) /\ need = Required[firing][p]
          BY <5>3
        <5>5. /\ pool \in Seq(Token) /\ Len(pool) \in Nat /\ given \in Nat /\ need \in Nat
              /\ need - given \in 0..Len(pool) /\ given < need
              /\ taken = IF Len(pool) = 0 THEN <<>> ELSE <<pool[1]>>
              /\ Len(taken) = IF Len(pool) = 0 THEN 0 ELSE 1
              /\ Pool(firing, p)' = IF Len(pool) = 0 THEN <<>> ELSE Tail(pool)
              /\ op' = IF need - given <= 1 THEN op + 1 ELSE op
          BY <1>6, <2>1, <5>1, <5>2, <5>4, OpDue DEF InputReady
        <5>6. need - given \in 1..Len(pool) /\ taken = <<pool[1]>> /\ Len(taken) = 1
          BY <5>5
        <5>7. Correlating(queues'[p]) = Without(Correlating(queues[p]), taken)
          BY <1>a, <2>1, <2>3, CorrelatingWithout
        <5>8. Bound(t, p) = SubSeq(pool, 1, need - given)
          BY <5>1, <5>4 DEF Bound
        <5>9. cache[t][1][p] = Without(Correlating(queues[p]), Bound(t, p))
          BY <4>1, <4>3, <5>1, <5>3
        <5>10. Len(consumed'[firing][p]) = given + 1
          <6>1. consumed[firing][p] \in Seq(Token)
            BY <2>1, <2>2 DEF TypeOK, FlightsTyped
          <6>2. consumed'[firing][p] = consumed[firing][p] \o taken
            BY <2>1, <2>2 DEF OpTakes, TypeOK, FlightsTyped
          <6> QED
            BY <2>1, <5>4, <5>6, <6>1, <6>2, ConcatProperties
        <5>11. Ids(Bound(t, p)) = Ids(taken) \cup Ids(SubSeq(Tail(pool), 1, need - given - 1))
          BY <5>5, <5>6, <5>8, PrefixIds
        <5>12. CASE op' = op
          <6>1. Pending(p)' /\ Pool(firing, p)' = Tail(pool)
            BY <5>3, <5>5, <5>6, <5>12
          <6>2. Pool(firing, p)' = Named(queues'[p], matched[firing])
            <7>1. matched[firing] # NoName
              BY <2>2, <4>3, <5>1, <5>2, QueueAssumption DEF FiringSupplied, FiringPcs, QueueAssumption
            <7> QED
              BY <2>2, <4>3, <5>1, <7>1 DEF Pool
          <6>3. need - (given + 1) = need - given - 1
            BY <5>5
          <6>4. Bound(t, p)' = SubSeq(Tail(pool), 1, need - given - 1)
            BY <2>2, <5>1, <5>4, <5>10, <6>1, <6>2, <6>3 DEF Bound
          <6>5. Ids(Bound(t, p)) = Ids(taken) \cup Ids(Bound(t, p)')
            BY <5>11, <6>4
          <6>6. Correlating(queues[p]) \in Seq(Token)
            BY <1>a, <2>1, PartsTyped
          <6>7. Without(Without(Correlating(queues[p]), taken), Bound(t, p)') = Without(Correlating(queues[p]), Bound(t, p))
            BY <6>5, <6>6, WithoutTwice
          <6>8. cache'[t][1][p] = Without(Correlating(queues'[p]), Bound(t, p)')
            BY <2>2, <5>7, <5>9, <6>7
          <6> QED
            BY <2>2, <4>3, <5>1, <6>1, <6>8
        <5>13. CASE op' # op
          <6>1. ~Pending(p)' /\ need - given = 1
            BY <5>3, <5>5, <5>6, <5>13
          <6>2. SubSeq(pool, 1, 1) = taken
            BY <5>5, <5>6, FirstOf, EmptySeq
          <6> QED
            BY <2>2, <4>3, <5>7, <5>8, <5>9, <6>1, <6>2
        <5> QED
          BY <5>12, <5>13
      <4> QED
        BY <4>2, <4>3
    <3> QED
      BY <2>2, <3>1, <3>2 DEF MatcherExact, Eligible
  <2> QED
    BY <2>4 DEF MatchersExact
<1>7. CASE PeekReads
  <2>1. UNCHANGED <<queues, cache, firing, op, matched>> /\ pc' = "reset" /\ op > Program.resetOpsStart
    BY <1>7 DEF PeekReads
  <2>2. \A q : ~Pending(q)
    BY <2>1, NothingPending
  <2> QED
    BY <2>1, <2>2 DEF MatchersExact, MatcherExact, Eligible, Pending
<1>8. CASE FireStart \/ FireRegister
  BY <1>8, MatchersStay DEF FireStart, FireRegister
<1>9. CASE FireThrow
  <2>1. queues' = queues /\ cache' = [cache EXCEPT ![firing] = <<>>] /\ firing \in Transitions /\ pc' = "fire"
    BY <1>9 DEF FireThrow, DroppedCache, PhaseOK, FiringPcs
  <2>2. \A t \in Transitions : cache'[t] = IF t = firing THEN <<>> ELSE cache[t]
    BY <1>a, <2>1
  <2> QED
    BY <2>1, <2>2 DEF MatchersExact, MatcherExact, Eligible, Pending
<1>10. ASSUME NEW t \in Transitions, CompleteFailed(t) \/ CompleteOk(t) \/ FireSkip(t) PROVE MatchersExact'
  BY <1>10, MatchersStay DEF CompleteFailed, CompleteOk, CompletionOf, FireSkip, IsNext
<1>11. ASSUME NEW t \in Transitions, FireBegin(t) PROVE MatchersExact'
  <2> DEFINE n == IF Keys[t] = {} THEN NoName ELSE Binding(t)
  <2>1. /\ cache' = [cache EXCEPT ![t] = CacheConsumed(cache[t], t, n)] /\ matched' = [matched EXCEPT ![t] = n]
        /\ firing' = t /\ op' = 1 /\ pc = "fire" /\ pc' = "consume" /\ queues' = queues /\ canEnable(t, bits)
    BY <1>11 DEF FireBegin, IsNext
  <2>2. Keys[t] # {} => n # NoName
    BY <2>1 DEF canEnable
  <2> HIDE DEF n
  <2>3. matched'[t] = n /\ cache'[t] = CacheConsumed(cache[t], t, n) /\ \A u \in Transitions : u # t => cache'[u] = cache[u]
    BY <1>a, <2>1 DEF TypeOK, FlightsTyped
  <2>4. ASSUME NEW u \in Transitions, u # t, cache'[u] # <<>> PROVE MatcherExact(u)'
    BY <2>1, <2>3, <2>4 DEF MatchersExact, MatcherExact, Eligible, Pending
  <2>5. ASSUME cache'[t] # <<>> PROVE MatcherExact(t)'
    <3>1. PICK c, d : c = cache[t] /\ d = cache'[t]
      OBVIOUS
    <3>2. c # <<>> => c = <<c[1]>> /\ c[1] \in [Keys[t] -> Seq(Token)]
      BY <3>1 DEF TypeOK, TokensTyped, CacheTyped
    <3>3. d = CacheConsumed(c, t, n) /\ d # <<>>
      BY <2>3, <2>5, <3>1
    <3>4. c # <<>> /\ (n # NoName =>
            \A p \in Keys[t] : d[1][p] = Without(c[1][p], SubSeq(Named(c[1][p], n), 1, Required[t][p])))
      BY <3>2, <3>3, ConsumedTyped
    <3>5. Eligible(t) /\ \A p \in Keys[t] : c[1][p] = Correlating(queues[p])
      BY <2>1, <3>1, <3>4 DEF MatchersExact, MatcherExact, Pending
    <3>6. Keys[t] # {} /\ n # NoName
      BY <2>2, <3>5 DEF Eligible
    <3>7. ASSUME NEW p \in Keys[t]
          PROVE  d[1][p] = Without(Correlating(queues[p]), SubSeq(Named(queues[p], n), 1, Required[t][p]))
      <4>1. Named(Correlating(queues[p]), n) = Named(queues[p], n)
        BY <1>b, <3>6, NamedCorrelates
      <4> QED
        BY <3>4, <3>5, <3>6, <4>1
    <3>8. ASSUME NEW p \in Keys[t] PROVE Pending(p)'
      <4>1. PICK i \in 1..Len(InputSpecs[t]) : InputSpecs[t][i] = p
        BY <1>b, SpecsExact
      <4> QED
        BY <2>1, <4>1 DEF Pending
    <3>9. ASSUME NEW p \in Keys[t] PROVE cache'[t][1][p] = Without(Correlating(queues'[p]), Bound(t, p)')
      <4>1. consumed'[t][p] = <<>>
        <5>a. pc = "fire" /\ t \in ready /\ consumed' = consumed
          BY <1>11 DEF FireBegin, IsNext
        <5>b. t \notin InFlight /\ firing \notin Transitions
          BY <5>a DEF PhaseOK, FiringPcs
        <5>1. flight[t] = "idle" /\ firing # t /\ consumed' = consumed
          BY <5>a, <5>b DEF InFlight
        <5>2. consumed[t] = [q \in Places |-> <<>>]
          BY <5>1 DEF IdleHoldsNothing
        <5> QED
          BY <1>b, <5>1, <5>2
      <4>2. Required[t][p] - Len(consumed'[t][p]) = Required[t][p]
        BY <1>b, <4>1, ArcsTyped, EmptySeq
      <4> QED
        BY <2>1, <2>3, <3>1, <3>7, <4>2 DEF Bound
    <3> QED
      BY <2>1, <3>5, <3>8, <3>9 DEF MatcherExact, Eligible
  <2> QED
    BY <2>4, <2>5 DEF MatchersExact
<1>12. ASSUME NEW t \in Transitions, ActionSettles(t) PROVE MatchersExact'
  BY <1>12, MatchersStay DEF ActionSettles, Yielded
<1>13. ASSUME NEW p \in EnvPlaces, NEW n \in Names \cup {NoName}, Inject(p, n) PROVE MatchersExact'
  BY <1>13, MatchersStay DEF Inject
<1> QED
  BY <1>1, <1>2, <1>4, <1>5, <1>6, <1>7, <1>8, <1>9, <1>10, <1>11, <1>12, <1>13, StepCases

-----------------------------------------------------------------------------
(* What a firing is given.                                                 *)

\* From its test to its start a firing finds the tokens that were there for it.
LEMMA SuppliedStep ==
  ASSUME TypeOK, PhaseOK, BitsExact, MatchersExact, FiringSupplied, IdleHoldsNothing, UniqueTokens,
         [Next]_vars
  PROVE  FiringSupplied'
<1>a. ASSUME pc' \notin FiringPcs PROVE FiringSupplied'
  BY <1>a DEF FiringSupplied
<1>b. ASSUME UNCHANGED <<pc, firing, op, matched, consumed, queues, seen>> PROVE FiringSupplied'
  <2>1. \A p : (Pending(p)' <=> Pending(p)) /\ (InputTaken(p)' <=> InputTaken(p))
    BY <1>b DEF Pending, InputTaken
  <2>2. \A p : InputReady(p)' <=> InputReady(p)
    BY <1>b DEF InputReady
  <2> QED
    BY <1>b, <2>1, <2>2 DEF FiringSupplied
<1>c. /\ queues \in [Places -> Seq(Token)] /\ consumed \in [Transitions -> [Places -> Seq(Token)]]
      /\ matched \in [Transitions -> Names \cup {NoName}]
  BY DEF TypeOK, TokensTyped, FlightsTyped
<1>1. CASE Waits
  BY <1>a, <1>b, <1>1, WaitsFrame DEF FiringPcs
<1>2. CASE Run \/ Deposit \/ CompletionEnds \/ BeginExternal \/ AdmitThrow \/ Admit \/ EndExternal \/ Exit
  BY <1>a, <1>2 DEF Run, Deposit, CompletionEnds, EndCompletion, BeginExternal, AdmitThrow, Admit, EndExternal, Exit, FiringPcs
<1>3. CASE updateDirtyTransitions \/ enforceDeadlines \/ Decide \/ FireRegister \/ FireThrow
  BY <1>a, <1>3 DEF updateDirtyTransitions, enforceDeadlines, Decide, FireRegister, FireThrow, FiringPcs
<1>4. CASE ExecuteOp
  <2>1. PICK p \in ConsumptionPlaces(firing), taken \in Seq(Token) : p \in Places /\ OpTakes(p, taken)
    BY <1>4, OpEffect
  <2>2. firing \in Transitions /\ op' \in {op, op + 1} /\ UNCHANGED <<pc, matched, firing, seen>>
    BY <1>4, OpEffect
  <2>3. /\ queues'[p] = Without(queues[p], taken) /\ \A q \in Places : q # p => queues'[q] = queues[q]
        /\ consumed'[firing][p] = consumed[firing][p] \o taken
        /\ \A q \in Places : q # p => consumed'[firing][q] = consumed[firing][q]
    <3>1. PICK c : c = [consumed[firing] EXCEPT ![p] = consumed[firing][p] \o taken]
      OBVIOUS
    <3>2. consumed'[firing] = c
      BY <1>c, <2>1, <2>2, <3>1 DEF OpTakes
    <3>3. c[p] = consumed[firing][p] \o taken /\ \A q \in Places : q # p => c[q] = consumed[firing][q]
      BY <1>c, <2>1, <2>2, <3>1
    <3>4. queues'[p] = Without(queues[p], taken) /\ \A q \in Places : q # p => queues'[q] = queues[q]
      BY <1>c, <2>1 DEF OpTakes
    <3> QED
      BY <3>2, <3>3, <3>4
  <2>4. InputPlaces(firing) \in SUBSET Places /\ Keys[firing] \in SUBSET InputPlaces(firing)
        /\ \A q \in InputPlaces(firing) : Required[firing][q] \in Nat
    BY <2>2, ArcsTyped
  <2>5. Keys[firing] # {} => matched[firing] \in Names
    BY <2>1 DEF FiringSupplied, FiringPcs, OpTakes
  <2>6. CASE pc = "consume"
    <3>1. p \in InputPlaces(firing)
      BY <1>4, <2>1, <2>6, OpDue
    <3>2. Pending(p) /\ \A q : Pending(q)' <=> Pending(q) /\ (q # p \/ op' = op)
      BY <1>4, <2>1, <2>6, OpDue
    <3>4. IF Pending(p)' THEN InputReady(p)' ELSE InputTaken(p)'
      <4>1. PICK pool, given, need, after :
              /\ pool = Pool(firing, p) /\ given = Len(consumed[firing][p]) /\ need = Required[firing][p]
              /\ after = consumed'[firing][p]
        OBVIOUS
      <4>2. /\ InputReady(p)
            /\ pool \in Seq(Token) /\ Len(pool) \in Nat /\ given \in Nat /\ need \in Nat
            /\ taken = IF Len(pool) = 0 THEN <<>> ELSE <<pool[1]>>
            /\ Len(taken) = IF Len(pool) = 0 THEN 0 ELSE 1
            /\ Len(queues'[p]) = Len(queues[p]) - Len(taken) /\ Len(queues[p]) \in Nat
            /\ Pool(firing, p)' = IF Len(pool) = 0 THEN <<>> ELSE Tail(pool)
            /\ \E k \in 0..Len(pool) :
                 /\ op' = IF k <= 1 THEN op + 1 ELSE op
                 /\ p \in TakesAll[firing] => k = Len(pool)
                 /\ p \notin TakesAll[firing] => k = need - given
        BY <1>4, <2>1, <2>6, <4>1, OpDue
      <4>3. PICK k \in 0..Len(pool) :
              /\ op' = IF k <= 1 THEN op + 1 ELSE op
              /\ p \in TakesAll[firing] => k = Len(pool)
              /\ p \notin TakesAll[firing] => k = need - given
        BY <4>2
      <4>4. /\ given + Len(pool) >= need
            /\ p \in Keys[firing] => pool = Named(queues[p], matched[firing])
        BY <2>6, <3>1, <3>2, <4>1, PoolSupplied
      <4>5. /\ p \notin TakesAll[firing] => given < need
            /\ given + Len(queues[p]) >= need
            /\ p \in Keys[firing] => \A i \in DOMAIN consumed[firing][p] : consumed[firing][p][i].name = matched[firing]
        BY <4>1, <4>2 DEF InputReady
      <4>6. op \in Nat
        BY <2>6 DEF TypeOK, LoopTyped
      <4>7. /\ after \in Seq(Token) /\ Len(after) = given + Len(taken) /\ DOMAIN after = 1..Len(after)
            /\ p \in Keys[firing] => \A i \in DOMAIN after : after[i].name = matched[firing]
        <5>1. consumed[firing][p] \in Seq(Token) /\ DOMAIN consumed[firing][p] = 1..given
          BY <1>c, <2>1, <2>2, <4>1, LenProperties
        <5>2. PICK c : c = consumed[firing][p]
          OBVIOUS
        <5>3. after = c \o taken /\ c \in Seq(Token) /\ DOMAIN c = 1..given /\ Len(c) = given
          BY <2>3, <4>1, <5>1, <5>2
        <5>4. /\ after \in Seq(Token) /\ Len(after) = given + Len(taken)
              /\ \A i \in 1..(given + Len(taken)) : after[i] = IF i <= given THEN c[i] ELSE taken[i - given]
          BY <2>1, <5>3, ConcatProperties
        <5>5. DOMAIN after = 1..Len(after)
          BY <5>4, LenProperties
        <5>6. ASSUME p \in Keys[firing], NEW i \in DOMAIN after PROVE after[i].name = matched[firing]
          <6>1. i \in 1..(given + Len(taken))
            BY <5>4, <5>5, <5>6
          <6>2. CASE i <= given
            <7>1. i \in 1..given /\ after[i] = c[i]
              BY <4>2, <5>4, <6>1, <6>2
            <7> QED
              BY <4>5, <5>2, <5>3, <5>6, <7>1
          <6>3. CASE ~(i <= given)
            <7>1. Len(pool) # 0 /\ i - given = 1 /\ Len(taken) = 1
              BY <4>2, <6>1, <6>3
            <7>2. after[i] = taken[1] /\ taken[1] = pool[1]
              BY <4>2, <5>4, <6>1, <6>3, <7>1
            <7>3. 1 \in 1..Len(Named(queues[p], matched[firing])) /\ pool[1] = Named(queues[p], matched[firing])[1]
              BY <4>2, <4>4, <5>6, <7>1
            <7>4. queues[p] \in Seq(Token)
              BY <1>c, <2>1
            <7>5. \A j \in 1..Len(Named(queues[p], matched[firing])) :
                    Named(queues[p], matched[firing])[j].name = matched[firing]
              BY <7>4, PartsTyped
            <7>6. pool[1].name = matched[firing]
              BY <7>3, <7>5
            <7> QED
              BY <7>2, <7>6
          <6> QED
            BY <6>2, <6>3
        <5> QED
          BY <5>4, <5>5, <5>6
      <4>8. CASE op' = op
        <5>1. Len(taken) = 1 /\ k >= 2 /\ Len(pool) # 0
          BY <4>2, <4>3, <4>6, <4>8
        <5>2. Len(Tail(pool)) = Len(pool) - 1
          BY <4>2, <5>1, EmptySeq, HeadTailProperties
        <5>a. Len(Pool(firing, p)') = Len(pool) - 1
          BY <4>2, <5>1, <5>2
        <5>3. /\ p \notin TakesAll[firing] => Len(after) < need
              /\ Len(after) + Len(queues'[p]) >= need
              /\ Len(after) + Len(Pool(firing, p)') >= need
          <6>1. PICK x, y, z, l, q : /\ x = Len(after) /\ y = Len(queues'[p]) /\ z = Len(Pool(firing, p)')
                                    /\ l = Len(pool) /\ q = Len(queues[p])
            OBVIOUS
          <6>2. x = given + 1 /\ y = q - 1 /\ z = l - 1
            BY <4>2, <4>7, <5>1, <5>a, <6>1
          <6>3. /\ given \in Nat /\ need \in Nat /\ l \in Nat /\ q \in Nat
                /\ given + l >= need /\ given + q >= need
            BY <4>2, <4>4, <4>5, <6>1
          <6>4. p \notin TakesAll[firing] => k = need - given
            BY <4>3
          <6>5. p \notin TakesAll[firing] => x < need
            BY <5>1, <6>2, <6>3, <6>4
          <6>6. x + y >= need /\ x + z >= need
            BY <6>2, <6>3
          <6> QED
            BY <6>1, <6>5, <6>6
        <5>4. p \in Keys[firing] => Pool(firing, p)' = Named(queues'[p], matched[firing])
          <6>1. p \in Keys[firing] => matched[firing] # NoName
            BY <2>5, QueueAssumption DEF QueueAssumption
          <6> QED
            BY <2>2, <6>1 DEF Pool
        <5>5. Pending(p)'
          BY <3>2, <4>8
        <5>6. InputReady(p)'
          <6>1. /\ p \notin TakesAll[firing] => Len(after) < need
                /\ Len(after) + Len(queues'[p]) >= need
                /\ p \in Keys[firing] => /\ \A i \in DOMAIN after : after[i].name = matched[firing]
                                        /\ Len(after) + Len(Named(queues'[p], matched[firing])) >= need
            BY <4>7, <5>3, <5>4
          <6> QED
            BY <2>2, <4>1, <6>1 DEF InputReady
        <5> QED
          BY <5>5, <5>6
      <4>9. CASE op' # op
        <5>1. Len(after) >= need
          BY <4>2, <4>3, <4>4, <4>5, <4>7, <4>9
        <5>2. p \in Keys[firing] => \A i \in 1..need : after[i].name = matched[firing]
          BY <4>2, <4>7, <5>1
        <5>3. ~Pending(p)'
          BY <3>2, <4>9
        <5> QED
          BY <2>2, <4>1, <5>1, <5>2, <5>3 DEF InputTaken
      <4> QED
        BY <4>8, <4>9
    <3>5. ASSUME NEW q \in InputPlaces(firing), q # p
          PROVE  IF Pending(q)' THEN InputReady(q)' ELSE InputTaken(q)'
      <4>1. IF Pending(q) THEN InputReady(q) ELSE InputTaken(q)
        BY <2>6 DEF FiringSupplied, FiringPcs
      <4>2. queues'[q] = queues[q] /\ consumed'[firing][q] = consumed[firing][q]
        <5>1. queues'[q] = queues[q]
          BY <2>3, <2>4, <3>5
        <5>2. consumed'[firing][q] = consumed[firing][q]
          BY <2>3, <2>4, <3>5
        <5> QED
          BY <5>1, <5>2
      <4> QED
        BY <2>2, <3>2, <3>5, <4>1, <4>2 DEF InputReady, InputTaken
    <3>6. \A q \in Reads[firing] \ InputPlaces(firing) : queues'[q] # <<>>
      <4>1. \A q \in Reads[firing] \ InputPlaces(firing) : queues[q] # <<>> /\ q \in Places
        BY <2>2, <2>6, ArcsTyped DEF FiringSupplied, FiringPcs
      <4> QED
        BY <2>3, <3>1, <4>1
    <3>7. \A q \in InputPlaces(firing) : IF Pending(q)' THEN InputReady(q)' ELSE InputTaken(q)'
      BY <3>4, <3>5
    <3> QED
      BY <2>2, <2>5, <2>6, <3>6, <3>7 DEF FiringSupplied
  <2>7. CASE pc = "reset"
    <3>1. \A q : ~Pending(q) /\ ~Pending(q)'
      BY <2>2, <2>7 DEF Pending
    <3>2. ASSUME NEW q \in InputPlaces(firing) PROVE InputTaken(q)'
      <4>1. InputTaken(q)
        BY <2>7, <3>1 DEF FiringSupplied, FiringPcs
      <4>2. CASE q # p
        BY <2>2, <2>3, <2>4, <4>1, <4>2 DEF InputTaken
      <4>3. CASE q = p
        <5>1. consumed[firing][p] \in Seq(Token)
          BY <1>c, <2>1, <2>2
        <5>2. PICK c, k : c = consumed[firing][p] /\ k = Len(c)
          OBVIOUS
        <5>3. k \in Nat /\ Len(taken) \in Nat /\ Len(c \o taken) = k + Len(taken)
              /\ \A i \in 1..(k + Len(taken)) : (c \o taken)[i] = IF i <= k THEN c[i] ELSE taken[i - k]
          BY <5>1, <5>2, ConcatProperties, LenProperties
        <5>4. PICK r \in Nat : r = Required[firing][p]
          BY <2>4, <4>3
        <5>5. k >= r /\ (p \in Keys[firing] => \A i \in 1..r : c[i].name = matched[firing])
          BY <4>1, <4>3, <5>2, <5>4 DEF InputTaken
        <5>6. Len(c \o taken) >= r /\ \A i \in 1..r : (c \o taken)[i] = c[i]
          BY <5>3, <5>4, <5>5
        <5>7. consumed'[firing][p] = c \o taken
          BY <2>3, <5>2
        <5> QED
          BY <2>2, <4>3, <5>4, <5>5, <5>6, <5>7 DEF InputTaken
      <4> QED
        BY <4>2, <4>3
    <3>3. Reads[firing] \ InputPlaces(firing) \subseteq seen'[firing]
      BY <2>2, <2>7 DEF FiringSupplied, FiringPcs
    <3> QED
      BY <2>2, <2>5, <2>7, <3>1, <3>2, <3>3 DEF FiringSupplied
  <2> QED
    BY <2>1, <2>6, <2>7 DEF OpTakes
<1>5. CASE PeekReads
  <2>1. /\ pc = "consume" /\ op > Program.resetOpsStart /\ pc' = "reset" /\ firing \in Transitions
        /\ seen' = [seen EXCEPT ![firing] = peekReadArcs(firing)]
        /\ UNCHANGED <<firing, op, matched, consumed, queues>>
    BY <1>5 DEF PeekReads, PhaseOK, FiringPcs
  <2>2. \A q : ~Pending(q) /\ ~Pending(q)'
    <3>1. \A q : ~Pending(q)
      BY <2>1, NothingPending
    <3> QED
      BY <2>1, <3>1 DEF Pending
  <2>3. \A q \in InputPlaces(firing) : InputTaken(q)
    BY <2>1, <2>2 DEF FiringSupplied, FiringPcs
  <2>4. Reads[firing] \ InputPlaces(firing) \subseteq peekReadArcs(firing)
    BY <2>1 DEF FiringSupplied, FiringPcs, peekReadArcs
  <2>5. seen'[firing] = peekReadArcs(firing)
    BY <2>1 DEF TypeOK, FlightsTyped
  <2>6. \A q \in InputPlaces(firing) : InputTaken(q)'
    BY <2>1, <2>3 DEF InputTaken
  <2> QED
    BY <2>1, <2>2, <2>4, <2>5, <2>6 DEF FiringSupplied, FiringPcs
<1>6. CASE FireStart
  <2>1. pc = "reset" /\ pc' = "start" /\ UNCHANGED <<firing, op, matched, consumed, queues, seen>>
    BY <1>6 DEF FireStart
  <2> QED
    BY <2>1 DEF FiringSupplied, FiringPcs, Pending, InputTaken
<1>7. ASSUME NEW t \in Transitions, CompleteFailed(t) \/ CompleteOk(t) \/ FireSkip(t) PROVE FiringSupplied'
  BY <1>a, <1>7 DEF CompleteFailed, CompleteOk, CompletionOf, FireSkip, IsNext, FiringPcs
<1>8. ASSUME NEW t \in Transitions, FireBegin(t) PROVE FiringSupplied'
  <2> DEFINE n == IF Keys[t] = {} THEN NoName ELSE Binding(t)
  <2>1. /\ matched' = [matched EXCEPT ![t] = n] /\ firing' = t /\ op' = 1 /\ pc = "fire" /\ pc' = "consume"
        /\ canEnable(t, bits) /\ t \in ready /\ UNCHANGED <<queues, consumed>>
    BY <1>8 DEF FireBegin, IsNext
  <2>2. Keys[t] # {} => n = BindingIn(t, queues) /\ n # NoName
    BY <2>1, BindingExact DEF canEnable
  <2> HIDE DEF n
  <2>3. matched'[t] = n
    BY <1>c, <2>1
  <2>4. ASSUME Keys[t] # {}
        PROVE  n \in Names /\ \A p \in Keys[t] : Len(Named(queues[p], n)) >= Required[t][p]
    <3>1. \A p \in Keys[t] : queues[p] \in Seq(Token)
      BY <1>c, ArcsTyped
    <3> QED
      BY <2>2, <2>4, <3>1, BindingSupplied
  <2>5. CallsFor(t)
    BY <2>1, TestExact
  <2>6. /\ \A p \in InputPlaces(t) : Len(queues[p]) >= Required[t][p]
        /\ \A p \in Reads[t] : Len(queues[p]) > 0
    BY <2>5, ArcsTyped DEF CallsFor, ArcsSatisfied, Counts
  <2>7. consumed[t] = [p \in Places |-> <<>>]
    <3>1. t \notin InFlight /\ firing \notin Transitions
      BY <2>1 DEF PhaseOK, FiringPcs
    <3> QED
      BY <3>1 DEF IdleHoldsNothing, InFlight
  <2>8. ASSUME NEW p \in InputPlaces(t) PROVE Pending(p)' /\ InputReady(p)'
    <3>1. PICK i \in 1..Len(InputSpecs[t]) : InputSpecs[t][i] = p
      BY SpecsExact
    <3>2. Pending(p)'
      BY <2>1, <3>1 DEF Pending
    <3>3. consumed'[t][p] = <<>>
      BY <2>1, <2>7, ArcsTyped
    <3>4. Len(consumed'[t][p]) = 0 /\ \A j \in DOMAIN consumed'[t][p] : FALSE
      BY <3>3, EmptySeq
    <3>5. /\ Required[t][p] \in Nat /\ Required[t][p] > 0
          /\ 0 + Len(queues[p]) >= Required[t][p]
          /\ p \in Keys[t] => 0 + Len(Named(queues[p], n)) >= Required[t][p]
      <4>1. queues[p] \in Seq(Token) /\ Len(queues[p]) \in Nat
        BY <1>c, ArcsTyped, LenProperties
      <4>2. Len(Named(queues[p], n)) \in Nat
        BY <4>1, PartsTyped, LenProperties
      <4> QED
        BY <2>4, <2>6, <4>1, <4>2, ArcsTyped
    <3> QED
      BY <2>1, <2>3, <3>2, <3>4, <3>5 DEF InputReady
  <2>9. \A p \in Reads[t] \ InputPlaces(t) : queues'[p] # <<>>
    <3>1. Len(<<>>) = 0
      OBVIOUS
    <3> QED
      BY <2>1, <2>6, <3>1
  <2> QED
    BY <2>1, <2>3, <2>4, <2>8, <2>9 DEF FiringSupplied
<1>9. ASSUME NEW t \in Transitions, ActionSettles(t) PROVE FiringSupplied'
  BY <1>a, <1>9 DEF ActionSettles, Yielded, FiringPcs
<1>10. ASSUME NEW p \in EnvPlaces, NEW n \in Names \cup {NoName}, Inject(p, n) PROVE FiringSupplied'
  BY <1>b, <1>10 DEF Inject
<1> QED
  BY <1>1, <1>2, <1>3, <1>4, <1>5, <1>6, <1>7, <1>8, <1>9, <1>10, StepCases

-----------------------------------------------------------------------------
(* The invariant holds.                                                    *)

\* The constructor builds the matchers from the initial queues, and nothing is under way.
LEMMA InitHolds == Init => FlatInvariant
<1> SUFFICES ASSUME Init PROVE FlatInvariant
  OBVIOUS
<1> USE DEF Init
<1>1. queues \in [Places -> Seq(Token)]
  BY QueueAssumption DEF QueueAssumption
<1>2. minted \in Nat
  <2>1. MaxTokens \in Nat
    BY QueueAssumption DEF QueueAssumption
  <2>2. FirstMinted \in Nat
    BY <2>1, Division DEF FirstMinted
  <2> QED
    BY <2>2
<1>3. LoopTyped
  <2>1. None \in [Places -> Nat]
    BY DEF None
  <2> QED
    BY <1>2, <2>1 DEF LoopTyped, NoneDirty, PcValues
<1>4. ASSUME NEW t \in Transitions, cache[t] # <<>>
      PROVE  Eligible(t) /\ cache[t] = <<[p \in Keys[t] |-> Correlating(queues[p])]>>
  BY <1>4 DEF initMatchCaches
<1>5. ASSUME NEW t \in Transitions PROVE CacheTyped(t)
  <2>1. [p \in Keys[t] |-> Correlating(queues[p])] \in [Keys[t] -> Seq(Token)]
    <3>1. ASSUME NEW p \in Keys[t] PROVE Correlating(queues[p]) \in Seq(Token)
      <4>1. queues[p] \in Seq(Token)
        BY <1>1, ArcsTyped
      <4> QED
        BY <4>1, PartsTyped
    <3> QED
      BY <3>1
  <2>2. PICK c : c = [p \in Keys[t] |-> Correlating(queues[p])]
    OBVIOUS
  <2>3. cache[t] # <<>> => cache[t] = <<c>>
    BY <1>4, <2>2
  <2>4. c \in [Keys[t] -> Seq(Token)]
    BY <2>1, <2>2
  <2>5. <<c>>[1] = c
    OBVIOUS
  <2> HIDE DEF Init
  <2> QED
    BY <2>3, <2>4, <2>5 DEF CacheTyped
<1>6. TokensTyped
  <2>1. cache = [t \in Transitions |-> cache[t]]
    BY DEF initMatchCaches
  <2>2. bits \in [placeWords -> SUBSET Nat]
    OBVIOUS
  <2> QED
    BY <1>1, <1>5, <2>1, <2>2 DEF TokensTyped
<1>7. FlightsTyped
  BY DEF FlightsTyped
<1>8. ExternalTyped
  BY DEF ExternalTyped
<1>9. PhaseOK
  BY NoneFires DEF PhaseOK, FiringPcs
<1>10. CountExact
  BY FS_EmptySet DEF CountExact
<1>11. MatchersExact
  <2> SUFFICES ASSUME NEW t \in Transitions, cache[t] # <<>> PROVE MatcherExact(t)
    BY DEF MatchersExact
  <2>1. PICK c : c = [p \in Keys[t] |-> Correlating(queues[p])]
    OBVIOUS
  <2>2. cache[t][1] = c
    <3>1. cache[t] = <<c>>
      BY <1>4, <2>1
    <3> HIDE DEF Init
    <3> QED
      BY <3>1
  <2>3. \A p : ~Pending(p)
    BY DEF Pending
  <2>4. Eligible(t)
    BY <1>4
  <2> HIDE DEF Init
  <2> QED
    BY <2>1, <2>2, <2>3, <2>4 DEF MatcherExact
<1>12. BitsExact /\ FlagsRight /\ FiringSupplied
  BY DEF BitsExact, FlagsRight, FiringSupplied, FiringPcs
<1>13. IdleHoldsNothing
  BY DEF IdleHoldsNothing
<1>14. TypeOK
  BY <1>3, <1>6, <1>7, <1>8 DEF TypeOK
<1>15. UniqueTokens
  BY <1>14, UniqueInit
<1> QED
  BY <1>9, <1>10, <1>11, <1>12, <1>13, <1>14, <1>15 DEF FlatInvariant

\* Every step of the loop, an action, the host or the clock keeps the invariant.
LEMMA Inductive == FlatInvariant /\ [Next]_vars => FlatInvariant'
<1> SUFFICES ASSUME FlatInvariant, [Next]_vars PROVE FlatInvariant'
  OBVIOUS
<1>1. /\ TypeOK /\ PhaseOK /\ CountExact /\ BitsExact /\ FlagsRight /\ MatchersExact
      /\ FiringSupplied /\ IdleHoldsNothing /\ UniqueTokens
  BY DEF FlatInvariant
<1>2. TypeOK'
  BY <1>1, LoopStep, TokensStep, FlightsStep, ExternalStep DEF TypeOK
<1>3. PhaseOK' /\ CountExact' /\ BitsExact' /\ IdleHoldsNothing'
  BY <1>1, PhaseStep, CountStep, BitsStep, IdleStep
<1>4. FlagsRight'
  BY <1>1, <1>2, FlagsStep
<1>5. MatchersExact' /\ FiringSupplied'
  BY <1>1, MatchersStep, SuppliedStep
<1>6. UniqueTokens'
  BY <1>1, <1>2, UniqueStep
<1> QED
  BY <1>2, <1>3, <1>4, <1>5, <1>6 DEF FlatInvariant

\* The inductive invariant of the flat-array loop holds throughout every run of every net, over
\* words of every size.
THEOREM FlatInvariantHolds == Spec => []FlatInvariant
  BY InitHolds, Inductive, PTL DEF Spec

\* The words, the sparse masks, the dirty bitmap, the match caches and enabledTransitionCount
\* of precompiled-net-executor.ts never mislead the loop: where it reads them, the bitmap is
\* the marking, a clean flag is what the queues call for, and the counter counts the flags.
THEOREM FlagsAreExact == Spec => []FlagsExact
<1>1. FlatInvariant => FlagsExact
  <2> SUFFICES ASSUME FlatInvariant, pc \notin {"new", "consume", "reset"}
               PROVE  /\ \A p \in Places : HasBit(bits, p) <=> queues[p] # <<>>
                      /\ \A t \in Transitions \ (DirtyBits \cup InFlight \cup {firing}) :
                           /\ t \in enabled => CallsFor(t)
                           /\ CallsFor(t) /\ ~HardDeadline(t) => t \in enabled
                      /\ enabledCount = Cardinality(enabled)
    BY DEF FlagsExact
  <2>1. ~Consuming
    BY DEF Consuming
  <2>2. \A p \in Places : HasBit(bits, p) <=> queues[p] # <<>>
    BY <2>1 DEF FlatInvariant, BitsExact
  <2>3. Lagging = DirtyBits \cup InFlight \cup {firing}
    BY <2>1 DEF Lagging
  <2>4. \A t \in Transitions \ Lagging : FlagRight(t)
    BY DEF FlatInvariant, FlagsRight
  <2> QED
    BY <2>2, <2>3, <2>4 DEF FlagRight, FlatInvariant, CountExact
<1> QED
  BY <1>1, FlatInvariantHolds, PTL

\* A match cache that initMatchCaches() built, cacheAddToken() feeds, a firing consumes from and
\* a throwing firing drops is never out of step with the queues of its join.
THEOREM MatchersStayInStep == Spec => []MatchersInStep
<1>1. FlatInvariant => MatchersInStep
  <2> SUFFICES ASSUME FlatInvariant, NEW t \in Transitions, cache[t] # <<>>,
                      ~(pc = "consume" /\ firing = t), NEW p \in Keys[t]
               PROVE  cache[t][1][p] = Correlating(queues[p])
    BY DEF MatchersInStep
  <2>1. MatcherExact(t)
    BY DEF FlatInvariant, MatchersExact
  <2>2. ~(t = firing /\ Pending(p))
    BY DEF Pending
  <2> QED
    BY <2>1, <2>2 DEF MatcherExact
<1> QED
  BY <1>1, FlatInvariantHolds, PTL

\* The opcode programs and the token selection of fireTransition() hand the action what its arcs
\* promise: the required tokens, of one name where the inputs correlate, and a front token of
\* every read place, also where an opcode of the same firing drains that place afterwards.
THEOREM ActionsSeeTheirTokens == Spec => []ActionSeesItsTokens
<1>1. FlatInvariant => ActionSeesItsTokens
  <2> SUFFICES ASSUME FlatInvariant, pc = "start"
               PROVE  /\ \A p \in InputPlaces(firing) : Len(consumed[firing][p]) >= Required[firing][p]
                      /\ \A p \in Keys[firing] : \A i \in 1..Required[firing][p] :
                           consumed[firing][p][i].name = matched[firing] /\ matched[firing] # NoName
                      /\ Reads[firing] \ InputPlaces(firing) \subseteq seen[firing]
    BY DEF ActionSeesItsTokens
  <2>1. firing \in Transitions /\ FiringSupplied
    BY DEF FlatInvariant, PhaseOK, FiringPcs
  <2>2. \A p : ~Pending(p)
    BY DEF Pending
  <2>3. \A p \in InputPlaces(firing) : InputTaken(p)
    BY <2>1, <2>2 DEF FiringSupplied, FiringPcs
  <2>4. Reads[firing] \ InputPlaces(firing) \subseteq seen[firing]
    BY <2>1 DEF FiringSupplied, FiringPcs
  <2>5. Keys[firing] # {} => matched[firing] # NoName
    BY <2>1, QueueAssumption DEF FiringSupplied, FiringPcs, QueueAssumption
  <2>6. Keys[firing] \subseteq InputPlaces(firing)
    BY <2>1, WordAssumption DEF WordAssumption
  <2> QED
    BY <2>3, <2>4, <2>5, <2>6 DEF InputTaken
<1> QED
  BY <1>1, FlatInvariantHolds, PTL
=============================================================================
