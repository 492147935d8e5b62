----------------------------- MODULE MCPayments -----------------------------
(* Instances of Payments for TLC: one order, an ad or an application, the  *)
(* keys of its checkouts and its refund requests.                          *)
EXTENDS Payments, TLC

CONSTANT o1

OneOrder == {o1}
NoOrder == {}
NoRequests == {}
FullOnly == {"full"}
PartialOnly == {"partial"}
Both == {"full", "partial"}
NoDashboard == {}
AllKeysOfO1 == [k \in Key |-> o1]
AllRequestsOfO1 == [r \in Request |-> o1]
\* Handlers of the API task are alike, and so are the keys of one order.
Alike == Permutations(Api) \cup Permutations(Key)
=============================================================================
