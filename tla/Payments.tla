------------------------------ MODULE Payments ------------------------------
(***************************************************************************)
(* The money path of the server: orders, payment rows, refund requests and *)
(* the payment provider (Toss), as written in                              *)
(*   src/server/src/modules/payments/payments.service.ts                   *)
(*   src/server/src/modules/orders/orders.service.ts                       *)
(*   src/server/src/modules/refunds/refunds.service.ts                     *)
(*                                                                         *)
(* A handler is not atomic: it reads rows, awaits Toss and then runs a     *)
(* database transaction.  frame[a] is the handler that actor a is running, *)
(* with what it read so far; every await is a point where other actors     *)
(* interleave.  A database transaction is one step: each of them writes    *)
(* the unique payments row of the order, then locks the order row (FOR     *)
(* UPDATE) and decides, and holds both until commit.                       *)
(*                                                                         *)
(* A key is one Toss paymentKey, that is one checkout attempt.  A buyer    *)
(* who leaves the checkout and comes back pays the SAME order with a new   *)
(* key (ApplicationsService.orderForApplication re-uses a pending order).  *)
(*                                                                         *)
(* An ad is reduced to what settlement asks of it: may its order still be  *)
(* settled?  Statuses of ads are the subject of module Ads.                *)
(*                                                                         *)
(* An operator D_Bug is no part of the model: it is D with a bug in it,    *)
(* there to see that the properties would notice.                          *)
(***************************************************************************)
EXTENDS Integers, FiniteSets

CONSTANTS
  Order,        \* orders
  AdOrder,      \* those of them that pay for an ad reservation
  Key,          \* Toss payment keys, one per checkout attempt
  OrderOf,      \* the order a payment key was opened for
  Request,      \* refund request ids
  TargetOf,     \* the order a refund request is about
  Api,          \* concurrent request handlers of the API task
  Worker,       \* concurrent worker tasks (scan of refund_pending payments)
  Amount,       \* price of an order, in units that can be refunded apart
  MaxAttempts,  \* REFUND_RETRY_MAX_ATTEMPTS
  MaxFaults,    \* bound: crashes and failed local writes in one behaviour
  Dashboard,    \* what the shop operator does at Toss: {"full", "partial"}
  NoKey, NoEvent, NoRequest

Actor == Api \cup Worker

ASSUME ConstantsAssumption ==
  /\ AdOrder \subseteq Order
  /\ OrderOf \in [Key -> Order]
  /\ TargetOf \in [Request -> Order]
  /\ Amount \in Nat \ {0}
  /\ MaxAttempts \in Nat
  /\ MaxFaults \in Nat
  /\ NoKey \notin Key
  /\ NoRequest \notin Request

VARIABLES
  order,     \* orders.status
  ad,        \* may the ad of the order still be paid for?
  row,       \* the payments row of an order (unique on order_id)
  request,   \* refund_requests.status, "unused" before it is inserted
  toss,      \* the provider's record of each payment
  hooks,     \* webhooks Toss has sent and not seen acknowledged
  frame,     \* the handler each actor is running
  faults     \* faults so far

vars == <<order, ad, row, request, toss, hooks, frame, faults>>
db == <<order, ad, row, request>>

OrderStatus == {"pending", "paid", "canceled"}
RowStatus == {"none", "paid", "canceled", "expired", "refund_pending"}
TossStatus == {"READY", "WAITING_FOR_DEPOSIT", "DONE", "PARTIAL_CANCELED",
               "CANCELED", "EXPIRED", "ABORTED"}
HookStatus == {"DONE", "CANCELED", "EXPIRED", "ABORTED", "PARTIAL_CANCELED"}
RequestStatus == {"unused", "requested", "approved", "rejected"}
\* Idempotency-Keys that took effect on a payment; "deposit" is a confirm
\* whose first answer was WAITING_FOR_DEPOSIT.
IdempotencyKey == {"confirm", "deposit", "cancel", "refund"}

Row == [status : RowStatus, key : Key \cup {NoKey}, refunded : 0..Amount,
        attempts : 0..MaxAttempts]
TossPayment == [status : TossStatus, balance : 0..Amount, used : SUBSET IdempotencyKey]
TossView == [status : TossStatus \cup {"unread"}, balance : 0..Amount]
Event == [key : Key, status : HookStatus, balance : 0..Amount]
Op == HookStatus \cup {"idle", "confirm", "retry", "request", "approve"}
Label == {"idle", "read", "call", "settle", "cancel", "record", "commit",
          "row", "write", "bump", "ack"}
Frame == [op : Op, at : Label, key : Key \cup {NoKey}, event : Event \cup {NoEvent},
          request : Request \cup {NoRequest}, sawOrder : OrderStatus \cup {"unread"},
          sawToss : TossView, n : 0..(Amount + MaxAttempts),
          outcome : {"none", "canceled", "refund_pending"}]

NoRow == [status |-> "none", key |-> NoKey, refunded |-> 0, attempts |-> 0]
Unread == [status |-> "unread", balance |-> 0]
Idle == [op |-> "idle", at |-> "idle", key |-> NoKey, event |-> NoEvent,
         request |-> NoRequest, sawOrder |-> "unread", sawToss |-> Unread,
         n |-> 0, outcome |-> "none"]

\* Type correctness of every variable.
TypeOK ==
  /\ order \in [Order -> OrderStatus]
  /\ ad \in [Order -> {"none", "payable", "lapsed", "served"}]
  /\ row \in [Order -> Row]
  /\ request \in [Request -> RequestStatus]
  /\ toss \in [Key -> TossPayment]
  /\ hooks \subseteq Event
  /\ frame \in [Actor -> Frame]
  /\ faults \in 0..MaxFaults

Init ==
  /\ order = [o \in Order |-> "pending"]
  /\ ad = [o \in Order |-> IF o \in AdOrder THEN "payable" ELSE "none"]
  /\ row = [o \in Order |-> NoRow]
  /\ request = [r \in Request |-> "unused"]
  /\ toss = [k \in Key |-> [status |-> "READY", balance |-> Amount, used |-> {}]]
  /\ hooks = {}
  /\ frame = [a \in Actor |-> Idle]
  /\ faults = 0

-----------------------------------------------------------------------------
(* Rows and the transitions of one transaction.                            *)

\* settleOrderPaid accepts a pending order whose ad, if any, is still
\* preparing, not past its end date and inside its payment window.
Settleable(o) == order[o] = "pending" /\ ad[o] \in {"none", "payable"}

Protected_Lax(s) ==
  CASE s = "paid" -> RowStatus
    [] s = "expired" -> {"paid", "expired", "canceled"}
    [] OTHER -> {}

\* setWhere of persistPayment: the statuses of an existing row that a write
\* of status s leaves alone.
Protected(s) ==
  CASE s = "paid" -> RowStatus
    [] s = "expired" -> {"paid", "expired", "canceled"}
    [] OTHER -> {"canceled"}

\* persistPayment: insert, or update only the status of the row.
Persisted(r, s, k) ==
  IF r.status = "none" THEN [NoRow EXCEPT !.status = s, !.key = k]
  ELSE IF r.status \in Protected(s) THEN r
  ELSE [r EXCEPT !.status = s]

\* cancelOrder(tx, id, allowedFrom) throws Conflict in any other status.
Cancelable(o, allowedFrom) == order[o] \in allowedFrom \cup {"canceled"}

\* Toss tells the shop about a status change of payment k.
Announce(k, status, balance) ==
  hooks' = hooks \cup {[key |-> k, status |-> status, balance |-> balance]}

Charged(k) == toss[k].status \in {"DONE", "PARTIAL_CANCELED"}
KeysOf(o) == {k \in Key : OrderOf[k] = o}

Become(a, f) == frame' = [frame EXCEPT ![a] = f]
Goto(a, label) == Become(a, [frame[a] EXCEPT !.at = label])
Done(a) == Become(a, Idle)
At(a, ops, label) == frame[a].op \in ops /\ frame[a].at = label
TheOrder(a) == OrderOf[frame[a].key]

-----------------------------------------------------------------------------
(* The provider.  Toss is external: it is modelled from how the code uses  *)
(* it, and it may refuse any call.                                         *)

\* The buyer gives up in the checkout, or its window closes.
TossEnds(k, status) ==
  /\ toss[k].status \in (IF status = "ABORTED" THEN {"READY"}
                         ELSE {"READY", "WAITING_FOR_DEPOSIT"})
  /\ toss' = [toss EXCEPT ![k].status = status]
  /\ Announce(k, status, toss[k].balance)
  /\ UNCHANGED <<db, frame, faults>>

\* The buyer pays into the virtual account.
TossDeposit(k) ==
  /\ toss[k].status = "WAITING_FOR_DEPOSIT"
  /\ toss' = [toss EXCEPT ![k].status = "DONE"]
  /\ Announce(k, "DONE", toss[k].balance)
  /\ UNCHANGED <<db, frame, faults>>

\* The shop operator cancels part of a payment, or all of it, at Toss.
TossPartialCancel(k) ==
  /\ "partial" \in Dashboard
  /\ Charged(k)
  /\ toss[k].balance > 1
  /\ toss' = [toss EXCEPT ![k].status = "PARTIAL_CANCELED", ![k].balance = @ - 1]
  /\ Announce(k, "PARTIAL_CANCELED", toss[k].balance - 1)
  /\ UNCHANGED <<db, frame, faults>>

Canceled(k, used) ==
  toss' = [toss EXCEPT ![k] = [status |-> "CANCELED", balance |-> 0, used |-> @.used \cup used]]

TossFullCancel(k) ==
  /\ "full" \in Dashboard
  /\ Charged(k)
  /\ Canceled(k, {})
  /\ Announce(k, "CANCELED", 0)
  /\ UNCHANGED <<db, frame, faults>>

Toss == \E k \in Key : \/ \E s \in {"ABORTED", "EXPIRED"} : TossEnds(k, s)
                       \/ TossDeposit(k)
                       \/ TossPartialCancel(k)
                       \/ TossFullCancel(k)

-----------------------------------------------------------------------------
(* The clock, the buyer and the admin: single transactions.                *)

\* The payment window or the contract of a reserved ad runs out, or its
\* owner ends it.
AdLapses(o) ==
  /\ ad[o] = "payable"
  /\ ad' = [ad EXCEPT ![o] = "lapsed"]
  /\ UNCHANGED <<order, row, request, toss, hooks, frame, faults>>

\* OrdersService.cancelPendingByOwner
CancelPendingByOwner(o) ==
  /\ order[o] = "pending"
  /\ order' = [order EXCEPT ![o] = "canceled"]
  /\ UNCHANGED <<ad, row, request, toss, hooks, frame, faults>>

\* RefundsService.reject
RejectRefund(r) ==
  /\ request[r] = "requested"
  /\ request' = [request EXCEPT ![r] = "rejected"]
  /\ UNCHANGED <<order, ad, row, toss, hooks, frame, faults>>

-----------------------------------------------------------------------------
(* confirmPayment: the buyer returns from the checkout with payment key k. *)

StartConfirm(a, k) ==
  /\ frame[a].op = "idle"
  /\ order[OrderOf[k]] = "pending"
  /\ Become(a, [Idle EXCEPT !.op = "confirm", !.at = "call", !.key = k])
  /\ UNCHANGED <<db, toss, hooks, faults>>

Confirmed_KeyPerCall(o) == {}

\* Keys of an order whose confirm:{orderId} already has a stored answer.
Confirmed(o) == {k \in KeysOf(o) : toss[k].used \cap {"confirm", "deposit"} # {}}

\* A virtual account: nothing is paid before the deposit, and an answer
\* that is not DONE is refused.
AwaitDeposit_Settles(a, k) ==
  /\ Confirmed(OrderOf[k]) = {}
  /\ toss[k].status = "READY"
  /\ toss' = [toss EXCEPT ![k].status = "WAITING_FOR_DEPOSIT", ![k].used = @ \cup {"deposit"}]
  /\ Goto(a, "settle")
  /\ UNCHANGED hooks

AwaitDeposit(a, k) ==
  /\ Confirmed(OrderOf[k]) = {}
  /\ toss[k].status = "READY"
  /\ toss' = [toss EXCEPT ![k].status = "WAITING_FOR_DEPOSIT", ![k].used = @ \cup {"deposit"}]
  /\ Done(a)
  /\ UNCHANGED hooks

\* confirmWithToss and the check of its answer.  An answer that is not DONE
\* ends the handler with an error.
ConfirmAnswer(a) ==
  LET k == frame[a].key IN
  /\ At(a, {"confirm"}, "call")
  /\ \/ \* Toss approves the payment; the answer may be lost
        /\ Confirmed(OrderOf[k]) = {}
        /\ toss[k].status = "READY"
        /\ toss' = [toss EXCEPT ![k].status = "DONE", ![k].used = @ \cup {"confirm"}]
        /\ Announce(k, "DONE", toss[k].balance)
        /\ Goto(a, "settle") \/ Done(a)
     \/ AwaitDeposit(a, k)
     \/ \* the stored answer to the order's Idempotency-Key is replayed
        /\ \E c \in Confirmed(OrderOf[k]) :
             /\ "confirm" \in toss[c].used
             /\ Become(a, [frame[a] EXCEPT !.at = "settle", !.key = c])
        /\ UNCHANGED <<toss, hooks>>
     \/ \* ALREADY_PROCESSED_PAYMENT, and getTossPayment says DONE
        /\ toss[k].status = "DONE"
        /\ Goto(a, "settle")
        /\ UNCHANGED <<toss, hooks>>
     \/ \* refused, unreachable, or an answer that is not DONE
        /\ Done(a)
        /\ UNCHANGED <<toss, hooks>>
  /\ UNCHANGED <<db, faults>>

-----------------------------------------------------------------------------
(* handleTossWebhook.  The payload only says which payment to look at:     *)
(* every handler reads the order and asks Toss, in parallel, and decides   *)
(* on the two answers.                                                     *)

DeliverHook(a, e) ==
  /\ frame[a].op = "idle"
  /\ Become(a, [Idle EXCEPT !.op = e.status, !.at = "read", !.key = e.key, !.event = e])
  /\ UNCHANGED <<db, toss, hooks, faults>>

ReadOrder(a) ==
  /\ At(a, HookStatus, "read")
  /\ frame[a].sawOrder = "unread"
  /\ Become(a, [frame[a] EXCEPT !.sawOrder = order[TheOrder(a)]])
  /\ UNCHANGED <<db, toss, hooks, faults>>

ReadToss(a) ==
  LET t == toss[frame[a].key] IN
  /\ At(a, HookStatus, "read")
  /\ frame[a].sawToss = Unread
  /\ Become(a, [frame[a] EXCEPT !.sawToss = [status |-> t.status, balance |-> t.balance]])
  /\ UNCHANGED <<db, toss, hooks, faults>>

Verdict_CanceledOrderAcked(op, sawOrder, tossStatus) ==
  IF tossStatus # op THEN "reject"
  ELSE CASE op = "DONE" -> IF sawOrder = "pending" THEN "settle" ELSE "ack"
         [] op = "CANCELED" -> "commit"
         [] op \in {"EXPIRED", "ABORTED"} -> IF sawOrder = "pending" THEN "commit" ELSE "ack"
         [] OTHER -> "row"

Verdict_PendingCancelAcked(op, sawOrder, tossStatus) ==
  IF tossStatus # op THEN "reject"
  ELSE CASE op = "DONE" ->
              (CASE sawOrder = "paid" -> "ack" [] sawOrder = "canceled" -> "cancel" [] OTHER -> "settle")
         [] op = "CANCELED" -> IF sawOrder = "paid" THEN "commit" ELSE "ack"
         [] op \in {"EXPIRED", "ABORTED"} -> IF sawOrder = "pending" THEN "commit" ELSE "ack"
         [] OTHER -> "row"

\* What a handler does next; "reject" makes Toss deliver the webhook again.
Verdict(op, sawOrder, tossStatus) ==
  IF op = "DONE" /\ tossStatus = "CANCELED" /\ sawOrder = "canceled" THEN "ack"
  ELSE IF tossStatus # op THEN "reject"
  ELSE CASE op = "DONE" ->
              (CASE sawOrder = "paid" -> "ack" [] sawOrder = "canceled" -> "cancel" [] OTHER -> "settle")
         [] op = "CANCELED" -> "commit"
         [] op \in {"EXPIRED", "ABORTED"} -> IF sawOrder = "pending" THEN "commit" ELSE "ack"
         [] OTHER -> "row"

Decide(a) ==
  LET f == frame[a]
      v == Verdict(f.op, f.sawOrder, f.sawToss.status)
  IN
  /\ At(a, HookStatus, "read")
  /\ f.sawOrder # "unread"
  /\ f.sawToss # Unread
  /\ IF v = "reject" THEN Done(a) ELSE Goto(a, v)
  /\ UNCHANGED <<db, toss, hooks, faults>>

\* The 200 reaches Toss, which stops delivering this webhook.
Acknowledge(a) ==
  /\ At(a, HookStatus, "ack")
  /\ hooks' = hooks \ {frame[a].event}
  /\ Done(a)
  /\ UNCHANGED <<db, toss, faults>>

-----------------------------------------------------------------------------
(* The transaction that records the charge and settles the order.          *)

AfterCommit(a) == IF frame[a].op = "confirm" THEN Done(a) ELSE Goto(a, "ack")

Settle_PaidIsConflict(a) ==
  LET o == TheOrder(a) IN
  /\ At(a, {"confirm", "DONE"}, "settle")
  /\ IF Settleable(o)
     THEN /\ row' = [row EXCEPT ![o] = Persisted(@, "paid", frame[a].key)]
          /\ order' = [order EXCEPT ![o] = "paid"]
          /\ ad' = [ad EXCEPT ![o] = IF @ = "none" THEN @ ELSE "served"]
          /\ AfterCommit(a)
     ELSE /\ Goto(a, "cancel")
          /\ UNCHANGED <<order, ad, row>>
  /\ UNCHANGED <<request, toss, hooks, faults>>

Settle(a) ==
  LET o == TheOrder(a) IN
  /\ At(a, {"confirm", "DONE"}, "settle")
  /\ CASE order[o] = "paid" ->  \* persistPayment inserts nothing over a row
            /\ row' = [row EXCEPT ![o] = Persisted(@, "paid", frame[a].key)]
            /\ AfterCommit(a)
            /\ UNCHANGED <<order, ad>>
       [] Settleable(o) ->
            /\ row' = [row EXCEPT ![o] = Persisted(@, "paid", frame[a].key)]
            /\ order' = [order EXCEPT ![o] = "paid"]
            /\ ad' = [ad EXCEPT ![o] = IF @ = "none" THEN @ ELSE "served"]
            /\ AfterCommit(a)
       [] OTHER ->              \* Conflict: roll back and compensate
            /\ Goto(a, "cancel")
            /\ UNCHANGED <<order, ad, row>>
  /\ UNCHANGED <<request, toss, hooks, faults>>

-----------------------------------------------------------------------------
(* compensateIfUnsettleable and retryRefundPendingPayments.                *)

StartRetry_NoCap(a, o) ==
  /\ frame[a].op = "idle"
  /\ row[o].status = "refund_pending"
  /\ Become(a, [Idle EXCEPT !.op = "retry", !.at = "cancel", !.key = row[o].key,
                            !.n = row[o].attempts])
  /\ UNCHANGED <<db, toss, hooks, faults>>

\* The scan picks a refund_pending row below the cap whose backoff is over.
StartRetry(a, o) ==
  /\ frame[a].op = "idle"
  /\ row[o].status = "refund_pending"
  /\ row[o].attempts < MaxAttempts
  /\ Become(a, [Idle EXCEPT !.op = "retry", !.at = "cancel", !.key = row[o].key,
                            !.n = row[o].attempts])
  /\ UNCHANGED <<db, toss, hooks, faults>>

AfterCancel(a, answered) ==
  IF answered THEN Become(a, [frame[a] EXCEPT !.at = "record", !.outcome = "canceled"])
  ELSE IF frame[a].op = "retry" THEN Goto(a, "bump")
  ELSE Become(a, [frame[a] EXCEPT !.at = "record", !.outcome = "refund_pending"])

\* cancelWithToss under Idempotency-Key cancel:{orderId}.  A lost answer is
\* a failure to the caller although Toss did cancel.
CancelCall(a) ==
  LET k == frame[a].key IN
  /\ At(a, {"confirm", "DONE", "retry"}, "cancel")
  /\ \/ /\ Charged(k)
        /\ Canceled(k, {"cancel"})
        /\ Announce(k, "CANCELED", 0)
        /\ \E answered \in BOOLEAN : AfterCancel(a, answered)
     \/ /\ "cancel" \in toss[k].used
        /\ AfterCancel(a, TRUE)
        /\ UNCHANGED <<toss, hooks>>
     \/ /\ AfterCancel(a, FALSE)
        /\ UNCHANGED <<toss, hooks>>
  /\ UNCHANGED <<db, faults>>

\* A webhook whose charge was given back is acknowledged, any other one is
\* answered with an error; confirm and the scan end either way.
AfterRecord(a) ==
  IF frame[a].op = "DONE" /\ frame[a].outcome = "canceled" THEN Goto(a, "ack") ELSE Done(a)

\* recordLocally
RecordLocally(a) ==
  LET o == TheOrder(a)
      s == frame[a].outcome
  IN
  /\ At(a, {"confirm", "DONE", "retry"}, "record")
  /\ row' = [row EXCEPT ![o] = Persisted(@, s, frame[a].key)]
  /\ order' = [order EXCEPT ![o] = IF s = "canceled" THEN "canceled" ELSE @]
  /\ AfterRecord(a)
  /\ UNCHANGED <<ad, request, toss, hooks, faults>>

\* recordLocally swallows a failed transaction, and so its caller goes on.
RecordFails(a) ==
  /\ At(a, {"confirm", "DONE", "retry"}, "record")
  /\ faults < MaxFaults
  /\ faults' = faults + 1
  /\ AfterRecord(a)
  /\ UNCHANGED <<db, toss, hooks>>

\* recordRefundRetry writes the count it read before the call, plus one.
RecordRefundRetry(a) ==
  /\ At(a, {"retry"}, "bump")
  /\ row' = [row EXCEPT ![TheOrder(a)].attempts = frame[a].n + 1]
  /\ Done(a)
  /\ UNCHANGED <<order, ad, request, toss, hooks, faults>>

-----------------------------------------------------------------------------
(* The transactions of handleCanceled and handleNeverCharged.              *)

CommitCanceled(a) ==
  LET o == TheOrder(a) IN
  /\ At(a, {"CANCELED"}, "commit")
  /\ row' = [row EXCEPT ![o] = Persisted(@, "canceled", frame[a].key)]
  /\ order' = [order EXCEPT ![o] = "canceled"]
  /\ Goto(a, "ack")
  /\ UNCHANGED <<ad, request, toss, hooks, faults>>

CommitNeverCharged(a) ==
  LET o == TheOrder(a) IN
  /\ At(a, {"EXPIRED", "ABORTED"}, "commit")
  /\ IF Cancelable(o, {"pending"})
     THEN /\ row' = [row EXCEPT ![o] = Persisted(@, "expired", frame[a].key)]
          /\ order' = [order EXCEPT ![o] = "canceled"]
          /\ Goto(a, "ack")
     ELSE /\ Done(a)             \* Conflict: roll back, Toss delivers again
          /\ UNCHANGED <<order, row>>
  /\ UNCHANGED <<ad, request, toss, hooks, faults>>

-----------------------------------------------------------------------------
(* handlePartialCanceled reads the payments row after its two other reads, *)
(* and writes what it computed from Toss' answer.                          *)

ReadRow(a) ==
  LET f == frame[a]
      r == row[TheOrder(a)]
  IN
  /\ At(a, {"PARTIAL_CANCELED"}, "row")
  /\ IF f.sawOrder = "pending" \/ r.status = "none" THEN Done(a)
     ELSE IF f.sawOrder # "paid" \/ r.status # "paid" THEN Goto(a, "ack")
     ELSE Become(a, [f EXCEPT !.at = "write", !.n = Amount - f.sawToss.balance])
  /\ UNCHANGED <<db, toss, hooks, faults>>

WriteRefunded(a) ==
  LET o == TheOrder(a) IN
  /\ At(a, {"PARTIAL_CANCELED"}, "write")
  /\ row' = [row EXCEPT ![o] =
       CASE @.status = "none" -> [NoRow EXCEPT !.status = "paid", !.key = frame[a].key,
                                               !.refunded = frame[a].n]
         [] @.status = "paid" -> [@ EXCEPT !.refunded = frame[a].n]
         [] OTHER -> @]
  /\ Goto(a, "ack")
  /\ UNCHANGED <<order, ad, request, toss, hooks, faults>>

-----------------------------------------------------------------------------
(* RefundsService.request and approve.                                     *)

\* The order is read and the request inserted later, under a partial unique
\* index that allows one open request per order.
StartRequest(a, r) ==
  /\ frame[a].op = "idle"
  /\ request[r] = "unused"
  /\ order[TargetOf[r]] = "paid"
  /\ Become(a, [Idle EXCEPT !.op = "request", !.at = "write", !.request = r])
  /\ UNCHANGED <<db, toss, hooks, faults>>

OpenRequests(o) == {r \in Request : TargetOf[r] = o /\ request[r] = "requested"}

InsertRequest(a) ==
  LET r == frame[a].request IN
  /\ At(a, {"request"}, "write")
  /\ request' = IF request[r] = "unused" /\ OpenRequests(TargetOf[r]) = {}
                THEN [request EXCEPT ![r] = "requested"] ELSE request
  /\ Done(a)
  /\ UNCHANGED <<order, ad, row, toss, hooks, faults>>

\* getOpenRequest, and the payment refundPaidOrder reads.
StartApprove(a, r) ==
  LET o == TargetOf[r] IN
  /\ frame[a].op = "idle"
  /\ request[r] = "requested"
  /\ row[o].status = "paid"
  /\ Become(a, [Idle EXCEPT !.op = "approve", !.at = "call", !.key = row[o].key,
                            !.request = r])
  /\ UNCHANGED <<db, toss, hooks, faults>>

RefundCall_RefusalIsSuccess(a) ==
  LET k == frame[a].key IN
  /\ At(a, {"approve"}, "call")
  /\ \/ /\ Charged(k)
        /\ Canceled(k, {"refund"})
        /\ Announce(k, "CANCELED", 0)
     \/ UNCHANGED <<toss, hooks>>
  /\ Goto(a, "commit")
  /\ UNCHANGED <<db, faults>>

\* The cancel call of refundPaidOrder, under Idempotency-Key refund:{orderId}:
\* ALREADY_CANCELED_PAYMENT counts as success, a lost answer as failure.
RefundCall(a) ==
  LET k == frame[a].key IN
  /\ At(a, {"approve"}, "call")
  /\ \/ /\ Charged(k)
        /\ Canceled(k, {"refund"})
        /\ Announce(k, "CANCELED", 0)
        /\ Goto(a, "commit") \/ Done(a)
     \/ /\ toss[k].status = "CANCELED"
        /\ Goto(a, "commit")
        /\ UNCHANGED <<toss, hooks>>
     \/ /\ Done(a)
        /\ UNCHANGED <<toss, hooks>>
  /\ UNCHANGED <<db, faults>>

\* One transaction; the settle callback rolls it back when the request was
\* processed in the meantime.
CommitApproval(a) ==
  LET r == frame[a].request
      o == TargetOf[r]
  IN
  /\ At(a, {"approve"}, "commit")
  /\ IF request[r] = "requested"
     THEN /\ row' = [row EXCEPT ![o].status = "canceled"]
          /\ order' = [order EXCEPT ![o] = "canceled"]
          /\ request' = [request EXCEPT ![r] = "approved"]
     ELSE UNCHANGED <<row, order, request>>
  /\ Done(a)
  /\ UNCHANGED <<ad, toss, hooks, faults>>

-----------------------------------------------------------------------------
(* Faults and the next-state relation.                                     *)

\* The process dies, a database call fails or Toss does not answer a read:
\* the handler ends where it is, and an unacknowledged webhook stays.
Fail(a) ==
  /\ frame[a].op # "idle"
  /\ faults < MaxFaults
  /\ faults' = faults + 1
  /\ Done(a)
  /\ UNCHANGED <<db, toss, hooks>>

\* What actor a does next with the handler it is running.
Progress(a) ==
  \/ ConfirmAnswer(a) \/ Settle(a)
  \/ ReadOrder(a) \/ ReadToss(a) \/ Decide(a) \/ Acknowledge(a)
  \/ CancelCall(a) \/ RecordLocally(a) \/ RecordRefundRetry(a)
  \/ CommitCanceled(a) \/ CommitNeverCharged(a)
  \/ ReadRow(a) \/ WriteRefunded(a)
  \/ InsertRequest(a) \/ RefundCall(a) \/ CommitApproval(a)

Start(a) ==
  \/ /\ a \in Api
     /\ \/ \E k \in Key : StartConfirm(a, k)
        \/ \E e \in hooks : DeliverHook(a, e)
        \/ \E r \in Request : StartRequest(a, r) \/ StartApprove(a, r)
  \/ /\ a \in Worker
     /\ \E o \in Order : StartRetry(a, o)

Next ==
  \/ Toss
  \/ \E o \in Order : AdLapses(o) \/ CancelPendingByOwner(o)
  \/ \E r \in Request : RejectRefund(r)
  \/ \E a \in Actor : Start(a) \/ Progress(a) \/ RecordFails(a) \/ Fail(a)

Spec == Init /\ [][Next]_vars

\* Toss delivers a webhook about payment k again until it is acknowledged.
Redeliver(k, status) ==
  \E e \in hooks : /\ e.key = k
                   /\ e.status = status
                   /\ \E a \in Api : DeliverHook(a, e)

(* Fairness.  A started handler is run on; Toss redelivers; the worker     *)
(* scans every ten minutes.  The last two find a free actor again and      *)
(* again but not without a break, hence SF.  Nothing is asked of EXPIRED   *)
(* and ABORTED webhooks, of buyers, admins or the shop operator.           *)
Fairness ==
  /\ \A a \in Actor : WF_vars(Progress(a))
  /\ \A k \in Key, s \in {"DONE", "CANCELED", "PARTIAL_CANCELED"} : SF_vars(Redeliver(k, s))
  /\ \A o \in Order : SF_vars(\E a \in Worker : StartRetry(a, o))

FairSpec == Spec /\ Fairness

-----------------------------------------------------------------------------
(* Safety.                                                                 *)

\* An order is paid exactly when its payment row is: "a paid order without
\* its payment row (or vice versa) is unrecoverable".  The two are written
\* by confirm, by four webhooks, by the worker and by an approval, each on
\* reads that are stale by then.
PaidIffPaymentPaid == \A o \in Order : order[o] = "paid" <=> row[o].status = "paid"

\* No order is paid for which Toss never took money.
PaidOrderWasCharged ==
  \A o \in Order : order[o] = "paid" =>
    /\ row[o].key \in KeysOf(o)
    /\ toss[row[o].key].status \in {"DONE", "PARTIAL_CANCELED", "CANCELED"}

\* Compensation (confirm, DONE, worker) never gives back the charge of an
\* order that is paid then or becomes paid later.
NeverRefundsSettledOrder ==
  \A k \in Key : "cancel" \in toss[k].used => order[OrderOf[k]] # "paid"

\* An approved refund request means the money went back and the order and
\* its payment are closed.
ApprovedMeansRefunded ==
  \A r \in Request : request[r] = "approved" =>
    LET o == TargetOf[r] IN
    /\ order[o] = "canceled"
    /\ row[o].status = "canceled"
    /\ toss[row[o].key].status = "CANCELED"

\* The buyer of an order is charged at most once, whatever number of
\* checkouts, retries and lost answers it took.
OneChargePerOrder ==
  \A j, k \in Key :
    /\ OrderOf[j] = OrderOf[k]
    /\ {toss[j].status, toss[k].status} \subseteq {"DONE", "PARTIAL_CANCELED", "CANCELED"}
    => j = k

\* A refunded payment is never brought back, and an order once canceled
\* stays so, however late a webhook, a scan or an approval lands.
CanceledIsFinal ==
  [][\A o \in Order :
       /\ row[o].status = "canceled" => row'[o].status = "canceled"
       /\ order[o] = "canceled" => order'[o] = "canceled"]_vars

-----------------------------------------------------------------------------
(* The inductive invariant.  It adds to TypeOK what the handlers rely on   *)
(* between their steps.                                                    *)

\* Orders that no transaction can settle any more.
Unsettleable ==
  {o \in Order : \/ order[o] = "canceled"
                \/ (order[o] = "pending" /\ ad[o] \notin {"none", "payable"})}

\* A payment row belongs to its order, is closed only with it, and says
\* refund_pending only of an order that cannot be settled; and so does the
\* record of compensating cancels at Toss.
RowsFit ==
  /\ \A o \in Order :
       /\ row[o].status # "none" => row[o].key \in KeysOf(o)
       /\ row[o].status \in {"expired", "canceled"} => order[o] = "canceled"
       /\ row[o].status = "refund_pending" => o \in Unsettleable
  /\ \A k \in Key : "cancel" \in toss[k].used => OrderOf[k] \in Unsettleable

Recorded == {o \in Order : row[o].status # "none"}

\* What a handler carries from one step to the next.  A handler that is
\* about to give money back, or did so, serves an unsettleable order.
FrameFits(f, unsettleable, recorded) ==
  /\ f.op \notin {"idle", "request"} => f.key \in Key
  /\ f.op \in HookStatus => f.event \in Event
  /\ f.op \in {"request", "approve"} => f.request \in Request
  /\ f.op = "approve" => TargetOf[f.request] \in recorded
  /\ f.op = "retry" => f.n < MaxAttempts
  /\ f.at \in {"cancel", "record"} => OrderOf[f.key] \in unsettleable
  /\ f.at = "record" => f.outcome \in {"canceled", "refund_pending"}
  /\ f.op = "PARTIAL_CANCELED" /\ f.at = "write" =>
       f.n \in 0..Amount /\ OrderOf[f.key] \in recorded
  /\ f.op \in HookStatus /\ f.sawOrder = "canceled" => OrderOf[f.key] \in unsettleable

FramesFit == \A a \in Actor : FrameFits(frame[a], Unsettleable, Recorded)

IInv == TypeOK /\ PaidIffPaymentPaid /\ RowsFit /\ FramesFit

-----------------------------------------------------------------------------
(* Liveness, when the shop operator cancels payments in full only.         *)

\* A charge does not hang: it settles the order, it is given back, or it is
\* left as refund_pending at the retry cap for a person to handle.
ChargeResolved ==
  \A k \in Key :
    (toss[k].status = "DONE") ~>
      LET o == OrderOf[k] IN
      \/ order[o] = "paid" /\ row[o].key = k
      \/ toss[k].status = "CANCELED"
      \/ row[o].status = "refund_pending" /\ row[o].attempts = MaxAttempts

\* A payment canceled at Toss closes the order in the shop.
CanceledAtTossConverges ==
  \A k \in Key : (toss[k].status = "CANCELED") ~> (order[OrderOf[k]] = "canceled")

-----------------------------------------------------------------------------
(* What comments of payments.service.ts say, and the code does not do.     *)

\* "Leave a local trail of the charged-but-unrefunded payment": the key of
\* a refund_pending row is that of a payment Toss took money for.
RefundTrailNamesCharge ==
  \A o \in Order : row[o].status = "refund_pending" =>
    toss[row[o].key].status \in {"DONE", "PARTIAL_CANCELED", "CANCELED"}

\* "Toss redelivers, and once DONE settles, the redelivery applies
\* normally": a payment canceled in part settles its order all the same.
PartialCancelSettles ==
  \A k \in Key : (toss[k].status = "PARTIAL_CANCELED") ~> (order[OrderOf[k]] # "pending")
=============================================================================
