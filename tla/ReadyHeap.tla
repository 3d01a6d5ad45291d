----------------------------- MODULE ReadyHeap -----------------------------
(***************************************************************************)
(* ReadyHeap of src/typescript/src/runtime/match-engine.ts: a binary       *)
(* min-heap of ready names ordered by (ts, name), as an array.  Positions  *)
(* count from 1, so the parent of k is k \div 2.                           *)
(***************************************************************************)
EXTENDS Integers, SequencesExt

CONSTANTS
  Names,       \* correlation names
  Stamps       \* createdAt of tokens

ASSUME HeapAssumption == Names \subseteq Nat \ {0} /\ Stamps \subseteq Nat

Entries == [ts : Stamps, name : Names]

Less(x, y) == x.ts < y.ts \/ (x.ts = y.ts /\ x.name < y.name)

Swap(a, i, j) == [a EXCEPT ![i] = a[j], ![j] = a[i]]

HeapPush(a, e) ==
  LET up[k \in Nat, b \in Seq(Entries)] ==
        IF k > 1 /\ Less(b[k], b[k \div 2]) THEN up[k \div 2, Swap(b, k, k \div 2)] ELSE b
  IN up[Len(a) + 1, Append(a, e)]

\* The position the sift moves to: the least of k and its children.
SiftsTo(a, k) ==
  CHOOSE m \in {k, 2 * k, 2 * k + 1} \cap DOMAIN a :
    \A n \in {k, 2 * k, 2 * k + 1} \cap DOMAIN a : ~Less(a[n], a[m]) /\ (a[n] = a[m] => m <= n)

HeapPop(a) ==
  LET down[k \in Nat, b \in Seq(Entries)] ==
        IF SiftsTo(b, k) = k THEN b ELSE down[SiftsTo(b, k), Swap(b, k, SiftsTo(b, k))]
  IN IF Len(a) = 1 THEN <<>> ELSE down[1, [Front(a) EXCEPT ![1] = Last(a)]]
=============================================================================
