--------------------------- MODULE PrecompiledNet ---------------------------
(***************************************************************************)
(* The flat-array form of a net, compiled from the CompiledNet: bitmaps of *)
(* machine words, the sparse enablement masks, the opcode programs of the  *)
(* firings and the flags that choose a fast path.                          *)
(*                                                                         *)
(* Places are the ids 0, 1, ...; transition t has the id t - 1.  A word is *)
(* the set of its bits, and a number its bits and its sign: JavaScript's   *)
(* bit operators yield SIGNED numbers.                                     *)
(***************************************************************************)
EXTENDS CompiledNet, Sequences, SequencesExt

CONSTANTS
  WORD_SIZE,   \* bits of a word (32 in the code)
  Keys,        \* Keys[t]: the places the join of t correlates, {} if t is no join
  InputSpecs,  \* InputSpecs[t], ResetArcs[t]: the input and the reset places of t, in the
  ResetArcs    \* order of their declaration

ASSUME WordAssumption ==
  /\ WORD_SIZE \in Nat \ {0}
  /\ Places = 0..(Cardinality(Places) - 1)
  /\ Keys \in [Transitions -> SUBSET Places]
  /\ \A t \in Transitions : Keys[t] \subseteq InputPlaces(t)
  /\ InputSpecs \in [Transitions -> Seq(Places)] /\ ResetArcs \in [Transitions -> Seq(Places)]
  /\ \A t \in Transitions : IsInjective(InputSpecs[t]) /\ Range(InputSpecs[t]) = InputPlaces(t)
  /\ \A t \in Transitions : IsInjective(ResetArcs[t]) /\ Range(ResetArcs[t]) = Resets[t]

-----------------------------------------------------------------------------
(* Words.                                                                  *)

Bits == 0..(WORD_SIZE - 1)
WordOf(n) == n \div WORD_SIZE
BitOf(n) == n % WORD_SIZE
wordCount(n) == (n + WORD_SIZE - 1) \div WORD_SIZE

placeWords == 0..(wordCount(Cardinality(Places)) - 1)
transitionWords == 0..(wordCount(NumTransitions) - 1)

Unsigned(word) == [bits |-> word, negative |-> FALSE]
Signed(word) == [bits |-> word, negative |-> WORD_SIZE - 1 \in word]
Zero == Unsigned({})

SetBit(words, n) == [words EXCEPT ![WordOf(n)] = @ \cup {BitOf(n)}]
HasBit(words, n) == BitOf(n) \in words[WordOf(n)]

\* The bits of word w that stand for a number of S.
BitsIn(S, w) == {BitOf(n) : n \in {i \in S : WordOf(i) = w}}

MaskOf(S) == [w \in placeWords |-> BitsIn(S, w)]

-----------------------------------------------------------------------------
(* compileSparse(): no bits, one word, or the non-zero words.               *)

SPARSE_EMPTY == -2
SPARSE_MULTI == -1

compileSparse(mask) ==
  LET nonZero == {w \in DOMAIN mask : mask[w] # {}}
  IN IF nonZero = {} THEN [index |-> SPARSE_EMPTY, words |-> {}]
     ELSE IF Cardinality(nonZero) = 1 THEN [index |-> CHOOSE w \in nonZero : TRUE, words |-> nonZero]
     ELSE [index |-> SPARSE_MULTI, words |-> nonZero]

\* Mutant: the signed result of & compared with the unsigned mask.
CoversSigned(have, mask) == Signed(have \cap mask) = Unsigned(mask)

\* ((snapshot[w] & m) >>> 0) === m
Covers(have, mask) == Unsigned(have \cap mask) = Unsigned(mask)

\* (snapshot[w] & m) === 0
Misses(have, mask) == Signed(have \cap mask) = Zero

needsMasks == [t \in Transitions |-> MaskOf(NeedsMask(t))]
inhibitorMasks == [t \in Transitions |-> MaskOf(Inhibitors[t])]
needsSparse == [t \in Transitions |-> compileSparse(needsMasks[t])]
inhibitorSparse == [t \in Transitions |-> compileSparse(inhibitorMasks[t])]

canEnableSparse(t, snapshot) ==
  LET needs == needsMasks[t]
      inhibitors == inhibitorMasks[t]
      n == needsSparse[t]
      i == inhibitorSparse[t]
  IN /\ \/ n.index = SPARSE_EMPTY
        \/ n.index >= 0 /\ Covers(snapshot[n.index], needs[n.index])
        \/ n.index = SPARSE_MULTI /\ \A w \in n.words : Covers(snapshot[w], needs[w])
     /\ \/ i.index = SPARSE_EMPTY
        \/ i.index >= 0 /\ Misses(snapshot[i.index], inhibitors[i.index])
        \/ i.index = SPARSE_MULTI /\ \A w \in i.words : Misses(snapshot[w], inhibitors[w])

-----------------------------------------------------------------------------
(* Opcode programs: the inputs, then from resetOpsStart on the resets.      *)

OpcodeOf(t, p) ==
  IF p \in TakesAll[t] THEN (IF Required[t][p] = 1 THEN "CONSUME_ALL" ELSE "CONSUME_ATLEAST")
  ELSE IF Required[t][p] = 1 THEN "CONSUME_ONE" ELSE "CONSUME_N"

compileConsumeProgram(t) ==
  [ops |-> [i \in DOMAIN InputSpecs[t] |-> [op |-> OpcodeOf(t, InputSpecs[t][i]), pid |-> InputSpecs[t][i]]]
           \o [i \in DOMAIN ResetArcs[t] |-> [op |-> "RESET", pid |-> ResetArcs[t][i]]],
   resetOpsStart |-> Len(InputSpecs[t])]

programs == [t \in Transitions |-> compileConsumeProgram(t)]

allImmediate == \A t \in Transitions : Timing[t].type = "immediate"
allSamePriority == \A t, u \in Transitions : Priority[t] = Priority[u]
anyDeadlines == \E t \in Transitions : HasDeadline(t)
=============================================================================
