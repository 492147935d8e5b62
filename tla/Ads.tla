-------------------------------- MODULE Ads --------------------------------
(***************************************************************************)
(* Ad reservations: creation under the lock of the product row, the        *)
(* payment window, settlement and cancellation of their orders, pause,     *)
(* resume and end by the owner, pause by an admin, as written in           *)
(*   src/server/src/modules/ads/ads.service.ts, ad-period.ts               *)
(*   src/server/src/modules/orders/orders.service.ts                       *)
(*   src/server/src/modules/admin/admin.service.ts (pauseAd)               *)
(*                                                                         *)
(* Settlement is two steps: it locks order and ad, compares the window     *)
(* with the clock, and commits later; a reader that does not lock (the     *)
(* overlap check) sees the old row until then.  The owner's status change  *)
(* reads the ad, checks what it read, and writes without a lock of the ad. *)
(* Everything else is a conditional update or one transaction.             *)
(*                                                                         *)
(* An operator D_Bug is no part of the model: it is D with a bug in it,    *)
(* there to see that the properties would notice.                          *)
(***************************************************************************)
EXTENDS Integers

CONSTANTS
  Ad,            \* ads that may be reserved
  Slot,          \* the product and the business of an ad
  First, Last,   \* its contract period, in days
  Actor,         \* concurrent request handlers
  LastDay,       \* bound: the last day the clock shows
  NoAd

ASSUME AdsAssumption ==
  /\ First \in [Ad -> Nat]
  /\ Last \in [Ad -> Nat]
  /\ \A x \in Ad : First[x] <= Last[x]
  /\ LastDay \in Nat
  /\ NoAd \notin Ad

VARIABLES
  status,    \* ads.status, "none" before the row is inserted
  pausedBy,  \* ads.paused_by
  expired,   \* has ads.expires_at passed?
  order,     \* the status of the order for the ad
  today,     \* adToday(): the date in Seoul
  frame      \* the handler each actor is running

vars == <<status, pausedBy, expired, order, today, frame>>
rows == <<status, pausedBy, expired, order>>

AdStatus == {"none", "preparing", "active", "paused", "ended"}
OrderStatus == {"none", "pending", "paid", "canceled"}
Wanted == {"active", "paused", "ended"}
Frame == [op : {"idle", "create", "settle", "update"},
          ad : Ad \cup {NoAd},
          want : Wanted \cup {"none"}]
Idle == [op |-> "idle", ad |-> NoAd, want |-> "none"]

\* Type correctness of every variable.
TypeOK ==
  /\ status \in [Ad -> AdStatus]
  /\ pausedBy \in [Ad -> {"none", "owner", "admin"}]
  /\ expired \in [Ad -> BOOLEAN]
  /\ order \in [Ad -> OrderStatus]
  /\ today \in 0..LastDay
  /\ frame \in [Actor -> Frame]

Init ==
  /\ status = [x \in Ad |-> "none"]
  /\ pausedBy = [x \in Ad |-> "none"]
  /\ expired = [x \in Ad |-> FALSE]
  /\ order = [x \in Ad |-> "none"]
  /\ today = 0
  /\ frame = [a \in Actor |-> Idle]

-----------------------------------------------------------------------------
\* Ads whose contract periods overlap in the same slot.
Clash(x, y) ==
  /\ x # y
  /\ Slot[x] = Slot[y]
  /\ First[x] <= Last[y]
  /\ First[y] <= Last[x]

\* reservingCondition: the rows that occupy the calendar of a slot.
Reserving(x) ==
  \/ status[x] \in {"active", "paused"}
  \/ status[x] = "preparing" /\ ~expired[x]

\* Rows and locks held by a transaction that has not committed.
Settling(x) == \E a \in Actor : frame[a].op = "settle" /\ frame[a].ad = x
SlotLocked_Never(x) == FALSE

\* The lock is on the product row, so the code excludes more than this.
SlotLocked(x) == \E a \in Actor : frame[a].op = "create" /\ Slot[frame[a].ad] = Slot[x]

Begin(a, op, x, want) ==
  /\ frame[a].op = "idle"
  /\ frame' = [frame EXCEPT ![a] = [op |-> op, ad |-> x, want |-> want]]
End(a) == frame' = [frame EXCEPT ![a] = Idle]

-----------------------------------------------------------------------------
(* The clock.                                                              *)

Midnight ==
  /\ today < LastDay
  /\ today' = today + 1
  /\ UNCHANGED <<rows, frame>>

\* PREPARING_TTL_MS after its creation.
Expire(x) ==
  /\ status[x] # "none"
  /\ ~expired[x]
  /\ expired' = [expired EXCEPT ![x] = TRUE]
  /\ UNCHANGED <<status, pausedBy, order, today, frame>>

-----------------------------------------------------------------------------
(* AdsService.create: the product row is locked from the check to the end. *)

CheckReservation(a, x) ==
  /\ status[x] = "none"
  /\ ~SlotLocked(x)
  /\ First[x] >= today
  /\ \A y \in Ad : Clash(x, y) => ~Reserving(y)
  /\ Begin(a, "create", x, "none")
  /\ UNCHANGED <<rows, today>>

InsertReservation(a) ==
  LET x == frame[a].ad IN
  /\ frame[a].op = "create"
  /\ status' = [status EXCEPT ![x] = "preparing"]
  /\ order' = [order EXCEPT ![x] = "pending"]
  /\ End(a)
  /\ UNCHANGED <<pausedBy, expired, today>>

-----------------------------------------------------------------------------
(* settleOrderPaid and cancelOrder.                                        *)

\* What settlement asks of an ad: preparing, not past its period, and
\* inside its payment window.
Payable(x) == status[x] = "preparing" /\ Last[x] >= today /\ ~expired[x]

CheckSettlement_NoWindow(a, x) ==
  /\ order[x] = "pending"
  /\ ~Settling(x)
  /\ status[x] = "preparing"
  /\ Begin(a, "settle", x, "none")
  /\ UNCHANGED <<rows, today>>

CheckSettlement(a, x) ==
  /\ order[x] = "pending"
  /\ ~Settling(x)
  /\ Payable(x)
  /\ Begin(a, "settle", x, "none")
  /\ UNCHANGED <<rows, today>>

CommitSettlement(a) ==
  LET x == frame[a].ad IN
  /\ frame[a].op = "settle"
  /\ order' = [order EXCEPT ![x] = "paid"]
  /\ status' = [status EXCEPT ![x] = "active"]
  /\ End(a)
  /\ UNCHANGED <<pausedBy, expired, today>>

CancelOrder(x) ==
  /\ order[x] \in {"pending", "paid"}
  /\ ~Settling(x)
  /\ order' = [order EXCEPT ![x] = "canceled"]
  /\ status' = IF order[x] = "paid" /\ status[x] = "active"
               THEN [status EXCEPT ![x] = "ended"] ELSE status
  /\ UNCHANGED <<pausedBy, expired, today, frame>>

-----------------------------------------------------------------------------
(* AdsService.updateStatus and AdminService.pauseAd.                       *)

\* The checks of the row that was read.  An ad that is paused is in the
\* hands of whoever paused it.
Allowed(x, want) ==
  CASE want = "active" ->
         /\ status[x] \in {"paused", "active"}
         /\ ~(status[x] = "paused" /\ pausedBy[x] = "admin")
         /\ Last[x] >= today
    [] want = "paused" -> status[x] = "active"
    [] OTHER -> status[x] # "none"

ReadForUpdate(a, x, want) ==
  /\ Allowed(x, want)
  /\ Begin(a, "update", x, want)
  /\ UNCHANGED <<rows, today>>

Resume_OrderUnread(a) ==
  LET x == frame[a].ad IN
  /\ frame[a].op = "update" /\ frame[a].want = "active"
  /\ status' = [status EXCEPT ![x] = "active"]
  /\ pausedBy' = [pausedBy EXCEPT ![x] = "none"]
  /\ End(a)
  /\ UNCHANGED <<expired, order, today>>

\* The transaction of a resume: nothing is read again but the order.
Resume(a) ==
  LET x == frame[a].ad IN
  /\ frame[a].op = "update" /\ frame[a].want = "active"
  /\ ~Settling(x)
  /\ IF order[x] = "paid"
     THEN /\ status' = [status EXCEPT ![x] = "active"]
          /\ pausedBy' = [pausedBy EXCEPT ![x] = "none"]
     ELSE UNCHANGED <<status, pausedBy>>
  /\ End(a)
  /\ UNCHANGED <<expired, order, today>>

PauseOrEnd(a) ==
  LET x == frame[a].ad
      want == frame[a].want
  IN
  /\ frame[a].op = "update" /\ want # "active"
  /\ ~Settling(x)
  /\ status' = [status EXCEPT ![x] = want]
  /\ pausedBy' = IF want = "paused" THEN [pausedBy EXCEPT ![x] = "owner"] ELSE pausedBy
  /\ End(a)
  /\ UNCHANGED <<expired, order, today>>

PauseAd(x) ==
  /\ status[x] = "active"
  /\ ~Settling(x)
  /\ status' = [status EXCEPT ![x] = "paused"]
  /\ pausedBy' = [pausedBy EXCEPT ![x] = "admin"]
  /\ UNCHANGED <<expired, order, today, frame>>

\* The process dies or the database fails: the transaction is rolled back.
Fail(a) ==
  /\ frame[a].op # "idle"
  /\ End(a)
  /\ UNCHANGED <<rows, today>>

Next ==
  \/ Midnight
  \/ \E x \in Ad : Expire(x) \/ CancelOrder(x) \/ PauseAd(x)
  \/ \E a \in Actor, x \in Ad :
       \/ CheckReservation(a, x) \/ CheckSettlement(a, x)
       \/ \E want \in Wanted : ReadForUpdate(a, x, want)
  \/ \E a \in Actor : \/ InsertReservation(a) \/ CommitSettlement(a)
                      \/ Resume(a) \/ PauseOrEnd(a) \/ Fail(a)

Spec == Init /\ [][Next]_vars

-----------------------------------------------------------------------------
(* Properties.                                                             *)

\* Only an ad whose order is paid now is served.  Refunds and resumes
\* serialize on the order row: "a refunded order cannot resume serving".
ServingIsPaid == \A x \in Ad : status[x] = "active" => order[x] = "paid"

\* Two reservations that wait for payment never hold the same dates of a
\* slot: the overlap check and the insert are one critical section.
NoDoubleReservation ==
  \A x, y \in Ad :
    ~(Clash(x, y) /\ \A z \in {x, y} : status[z] = "preparing" /\ ~expired[z])

\* A handler that has checked a reservation holds its slot, and nothing
\* that clashes with it waits for payment meanwhile.
CreationsFit ==
  \A a \in Actor :
    /\ frame[a].op # "idle" => frame[a].ad \in Ad
    /\ frame[a].op = "create" =>
         /\ \A y \in Ad : Clash(frame[a].ad, y) => ~(status[y] = "preparing" /\ ~expired[y])
         /\ \A b \in Actor : frame[b].op = "create" /\ Slot[frame[b].ad] = Slot[frame[a].ad] => b = a

\* The inductive invariant: what the proofs of the two above need.
IInv == TypeOK /\ ServingIsPaid /\ NoDoubleReservation /\ CreationsFit

\* No two ads hold the same dates of a slot.
NoDoubleBooking == \A x, y \in Ad : ~(Clash(x, y) /\ Reserving(x) /\ Reserving(y))

\* To the order and payment services an ad is the payment window of AdWindow.
\* A settlement under way keeps open the window it found open.
Window == INSTANCE AdWindow WITH
  window <- [x \in Ad |-> IF status[x] = "none" THEN "none"
                          ELSE IF Payable(x) \/ Settling(x) THEN "open" ELSE "closed"],
  bill <- order
ImplementsWindow == Window!Spec
=============================================================================
