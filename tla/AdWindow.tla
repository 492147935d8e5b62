------------------------------ MODULE AdWindow ------------------------------
(* What the order and payment services are promised about an ad: it is     *)
(* opened once, together with its pending order; it can be paid for while  *)
(* its window is open; once closed, the window never opens again; and the  *)
(* order becomes paid only by closing an open window.                      *)
CONSTANT Ad

VARIABLES window, bill    \* bill: the status of the order for the ad

Init ==
  /\ window = [x \in Ad |-> "none"]
  /\ bill = [x \in Ad |-> "none"]

\* Its period may be over by the time the row is inserted.
Open(x) ==
  /\ window[x] = "none"
  /\ \E w \in {"open", "closed"} : window' = [window EXCEPT ![x] = w]
  /\ bill' = [bill EXCEPT ![x] = "pending"]

Pay(x) ==
  /\ window[x] = "open"
  /\ bill[x] = "pending"
  /\ window' = [window EXCEPT ![x] = "closed"]
  /\ bill' = [bill EXCEPT ![x] = "paid"]

Cancel(x) ==
  /\ bill[x] \in {"pending", "paid"}
  /\ bill' = [bill EXCEPT ![x] = "canceled"]
  /\ UNCHANGED window

\* Midnight can close the windows of several ads at once.
LapseSome ==
  \E closed \in SUBSET {x \in Ad : window[x] = "open"} :
    /\ window' = [x \in Ad |-> IF x \in closed THEN "closed" ELSE window[x]]
    /\ UNCHANGED bill

Next == LapseSome \/ \E x \in Ad : Open(x) \/ Pay(x) \/ Cancel(x)

Spec == Init /\ [][Next]_<<window, bill>>
=============================================================================
