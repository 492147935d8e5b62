-------------------------------- MODULE MCAds --------------------------------
(* Two overlapping ads of one slot, and one later ad of it.                 *)
EXTENDS Ads, TLC

CONSTANTS x1, x2, x3

TwoAds == {x1, x2}

OneSlot == [x \in Ad |-> "hero"]
Starts == x1 :> 0 @@ x2 :> 1 @@ x3 :> 2
Ends == x1 :> 1 @@ x2 :> 2 @@ x3 :> 2
StartsOfTwo == x1 :> 0 @@ x2 :> 1
EndsOfTwo == x1 :> 1 @@ x2 :> 2
Alike == Permutations(Actor)
=============================================================================
