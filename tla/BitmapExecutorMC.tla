-------------------------- MODULE BitmapExecutorMC --------------------------
(***************************************************************************)
(* The nets BitmapExecutor is model-checked on.  Each is the smallest net  *)
(* found that makes the cases of its run happen.                           *)
(***************************************************************************)
EXTENDS BitmapExecutor, TLC

Bag(f) == [p \in Places |-> IF p \in DOMAIN f THEN f[p] ELSE 0]

NoBag == Bag(<<>>)

Immediate == [type |-> "immediate", lo |-> 0, hi |-> 0]

NoArcs3 == <<{}, {}, {}>>
Immediate3 == <<Immediate, Immediate, Immediate>>

-----------------------------------------------------------------------------
(* Shop: an environment place, an inhibitor, a reset, a read, 'all' and     *)
(* 'exactly' inputs, a conflict, failing and throwing firings.              *)

ShopPlaces     == {"job", "free", "done", "end"}
ShopRequired   == <<Bag("job" :> 1 @@ "free" :> 1), Bag("job" :> 2), Bag("done" :> 1)>>
ShopTakesAll   == <<{}, {}, {"done"}>>
ShopReads      == <<{}, {}, {"job"}>>
ShopInhibitors == <<{}, {"done"}, {}>>
ShopResets     == <<{}, {"free"}, {}>>
ShopPriority   == <<0, 0, 0>>
ShopProductions ==
  <<{Bag("done" :> 1 @@ "free" :> 1)}, {Bag("free" :> 1), Bag("end" :> 1)}, {NoBag}>>
ShopInitial    == {NoBag, Bag("free" :> 1), Bag("job" :> 2 @@ "free" :> 1)}

-----------------------------------------------------------------------------
(* Timed: transitions that share a place, a delay, a hard window and an     *)
(* exact time, with a firing that takes and gives back what they need.      *)

TimedPlaces    == {"lock", "in", "out"}
TimedRequired  == <<Bag("in" :> 1 @@ "lock" :> 1), Bag("lock" :> 1), Bag("out" :> 1)>>
TimedReads     == <<{}, {}, {"lock"}>>
TimedTiming    == <<Immediate, [type |-> "exact", lo |-> 2, hi |-> 2],
                    [type |-> "window", lo |-> 1, hi |-> 1]>>
TimedPriority  == <<1, 0, 0>>
TimedProductions == <<{Bag("out" :> 1 @@ "lock" :> 1)}, {NoBag}, {NoBag}>>
TimedInitial   == {Bag("lock" :> 1 @@ "in" :> 1)}
=============================================================================
