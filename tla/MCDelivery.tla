----------------------------- MODULE MCDelivery -----------------------------
(* Two verification requests of the business, or one mail of either kind.  *)
EXTENDS Delivery, TLC

Kinds == {"notification", "support", "verification", "unused"}
OneKind ==
  {f \in [Event -> Kinds] :
     \/ \A e \in Event : f[e] = "verification"
     \/ \E e \in Event : /\ f[e] \in {"notification", "support"}
                         /\ \A d \in Event \ {e} : f[d] = "unused"}
Alike == Permutations(Worker) \cup Permutations(Event)
=============================================================================
