--------------------------- MODULE PaymentsProofs ---------------------------
(* Payments for any number of orders, payment keys, requests and handlers, *)
(* any price, any retry cap and any number of faults: IInv is inductive.   *)
EXTENDS Payments, TLAPS

-----------------------------------------------------------------------------
(* Frames: which records are frames, and what a step may write into one.   *)

LEMMA IdleFrame ==
  /\ Idle \in Frame
  /\ \A u, w : FrameFits(Idle, u, w)
<1>1. Unread \in TossView
  BY ConstantsAssumption DEF Unread, TossView
<1>2. Idle \in Frame
  BY <1>1, ConstantsAssumption DEF Idle, Frame, Op, Label, OrderStatus
<1>3. QED BY <1>2 DEF Idle, FrameFits, HookStatus

\* A step of one actor keeps every frame fitting, if what it leaves in its
\* own frame fits and no order becomes settleable or loses its row.
LEMMA FrameStep ==
  ASSUME frame \in [Actor -> Frame], FramesFit,
         NEW a \in Actor, NEW f \in Frame, Become(a, f),
         Unsettleable \subseteq Unsettleable',
         Recorded \subseteq Recorded',
         FrameFits(f, Unsettleable', Recorded')
  PROVE  frame' \in [Actor -> Frame] /\ FramesFit'
<1>1. frame' = [frame EXCEPT ![a] = f]
  BY DEF Become
<1>2. ASSUME NEW b \in Actor PROVE FrameFits(frame'[b], Unsettleable', Recorded')
  <2>1. CASE b = a
    BY <2>1, <1>1
  <2>2. CASE b # a
    <3>1. frame'[b] = frame[b]
      BY <2>2, <1>1
    <3>2. FrameFits(frame[b], Unsettleable, Recorded)
      BY DEF FramesFit
    <3>3. QED BY <3>1, <3>2 DEF FrameFits
  <2>3. QED BY <2>1, <2>2
<1>3. QED BY <1>1, <1>2 DEF FramesFit

-----------------------------------------------------------------------------
(* Data: everything but the frames.                                        *)

AdState == {"none", "payable", "lapsed", "served"}

DataOK ==
  /\ order \in [Order -> OrderStatus]
  /\ ad \in [Order -> AdState]
  /\ row \in [Order -> Row]
  /\ request \in [Request -> RequestStatus]
  /\ toss \in [Key -> TossPayment]
  /\ hooks \subseteq Event
  /\ faults \in 0..MaxFaults
  /\ PaidIffPaymentPaid
  /\ RowsFit

LEMMA Split == IInv <=> DataOK /\ frame \in [Actor -> Frame] /\ FramesFit
BY DEF IInv, DataOK, TypeOK, AdState

LEMMA SplitPrime == IInv' <=> DataOK' /\ frame' \in [Actor -> Frame] /\ FramesFit'
BY DEF IInv, DataOK, TypeOK, AdState

\* A step that writes no row of the database and cancels nothing at Toss
\* except the charge of an unsettleable order.
LEMMA QuietStep ==
  ASSUME DataOK,
         UNCHANGED <<order, ad, row>>,
         request' \in [Request -> RequestStatus],
         toss' \in [Key -> TossPayment],
         \A k \in Key : "cancel" \in toss'[k].used =>
           "cancel" \in toss[k].used \/ OrderOf[k] \in Unsettleable,
         hooks' \subseteq Event,
         faults' \in 0..MaxFaults
  PROVE  DataOK' /\ Unsettleable' = Unsettleable /\ Recorded' = Recorded
<1>1. Unsettleable' = Unsettleable /\ Recorded' = Recorded
  BY DEF Unsettleable, Recorded
<1>2. PaidIffPaymentPaid'
  BY DEF DataOK, PaidIffPaymentPaid
<1>3. RowsFit'
  BY <1>1 DEF DataOK, RowsFit
<1>4. QED BY <1>1, <1>2, <1>3 DEF DataOK

\* A transaction on the rows of one order.
LEMMA TransactionStep ==
  ASSUME DataOK, NEW o \in Order,
         order' \in [Order -> OrderStatus],
         ad' \in [Order -> AdState],
         row' \in [Order -> Row],
         request' \in [Request -> RequestStatus],
         UNCHANGED <<toss, hooks, faults>>,
         \A q \in Order \ {o} : order'[q] = order[q] /\ ad'[q] = ad[q] /\ row'[q] = row[q],
         row[o].status # "none" => row'[o].status # "none",
         row'[o].status # "none" => row'[o].key \in KeysOf(o),
         order'[o] = "paid" <=> row'[o].status = "paid",
         row'[o].status \in {"expired", "canceled"} => order'[o] = "canceled",
         row'[o].status = "refund_pending" => o \in Unsettleable',
         o \in Unsettleable => o \in Unsettleable'
  PROVE  DataOK' /\ Unsettleable \subseteq Unsettleable' /\ Recorded \subseteq Recorded'
<1>1. \A q \in Order \ {o} : q \in Unsettleable' <=> q \in Unsettleable
  BY DEF Unsettleable
<1>2. Unsettleable \subseteq Unsettleable'
  BY <1>1 DEF Unsettleable
<1>3. Recorded \subseteq Recorded'
  BY DEF Recorded
<1>4. PaidIffPaymentPaid'
  BY DEF DataOK, PaidIffPaymentPaid
<1>5. RowsFit'
  <2>1. ASSUME NEW q \in Order
        PROVE /\ row'[q].status # "none" => row'[q].key \in KeysOf(q)
              /\ row'[q].status \in {"expired", "canceled"} => order'[q] = "canceled"
              /\ row'[q].status = "refund_pending" => q \in Unsettleable'
    <3>1. CASE q = o
      BY <3>1
    <3>2. CASE q # o
      BY <3>2, <1>1 DEF DataOK, RowsFit
    <3>3. QED BY <3>1, <3>2
  <2>2. ASSUME NEW k \in Key, "cancel" \in toss'[k].used PROVE OrderOf[k] \in Unsettleable'
    BY <2>2, <1>2 DEF DataOK, RowsFit
  <2>3. QED BY <2>1, <2>2 DEF RowsFit, KeysOf
<1>6. QED BY <1>4, <1>5, <1>2, <1>3 DEF DataOK

LEMMA PersistedRow ==
  ASSUME NEW r \in Row, NEW s \in RowStatus \ {"none"}, NEW k \in Key
  PROVE  /\ Persisted(r, s, k) \in Row
         /\ Persisted(r, s, k).status =
              IF r.status = "none" \/ r.status \notin Protected(s) THEN s ELSE r.status
         /\ Persisted(r, s, k).key = IF r.status = "none" THEN k ELSE r.key
<1>1. NoRow \in Row
  BY ConstantsAssumption DEF NoRow, Row, RowStatus
<1>2. CASE r.status = "none"
  <2>1. Persisted(r, s, k) = [NoRow EXCEPT !.status = s, !.key = k]
    BY <1>2 DEF Persisted
  <2>2. QED BY <2>1, <1>1, <1>2 DEF Row, NoRow
<1>3. CASE r.status # "none" /\ r.status \in Protected(s)
  BY <1>3 DEF Persisted
<1>4. CASE r.status # "none" /\ r.status \notin Protected(s)
  <2>1. Persisted(r, s, k) = [r EXCEPT !.status = s]
    BY <1>4 DEF Persisted
  <2>2. QED BY <2>1, <1>4 DEF Row
<1>5. QED BY <1>2, <1>3, <1>4

-----------------------------------------------------------------------------
(* What a step writes into its own frame.                                  *)

LEMMA FrameEdit ==
  ASSUME NEW f \in Frame
  PROVE  /\ \A l \in Label : [f EXCEPT !.at = l] \in Frame
         /\ \A x \in OrderStatus : [f EXCEPT !.sawOrder = x] \in Frame
         /\ \A t \in TossView : [f EXCEPT !.sawToss = t] \in Frame
         /\ \A l \in Label, k \in Key : [f EXCEPT !.at = l, !.key = k] \in Frame
         /\ \A l \in Label, x \in {"canceled", "refund_pending"} :
              [f EXCEPT !.at = l, !.outcome = x] \in Frame
         /\ \A l \in Label, m \in 0..Amount : [f EXCEPT !.at = l, !.n = m] \in Frame
<1>1. 0..Amount \subseteq 0..(Amount + MaxAttempts)
  BY ConstantsAssumption
<1>2. QED BY <1>1 DEF Frame

\* The key of a handler that is not idle belongs to an order.
LEMMA HandlerOrder ==
  ASSUME IInv, NEW a \in Actor, frame[a].op \notin {"idle", "request"}
  PROVE  /\ frame[a] \in Frame
         /\ frame[a].key \in Key
         /\ TheOrder(a) \in Order
         /\ FrameFits(frame[a], Unsettleable, Recorded)
<1>1. frame[a] \in Frame /\ FrameFits(frame[a], Unsettleable, Recorded)
  BY Split DEF FramesFit
<1>2. QED BY <1>1, ConstantsAssumption DEF FrameFits, TheOrder

\* A handler that only moves on, without touching data.
LEMMA FrameOnly ==
  ASSUME IInv, NEW a \in Actor, NEW f \in Frame, Become(a, f),
         FrameFits(f, Unsettleable, Recorded),
         UNCHANGED <<db, toss>>, hooks' \subseteq Event, faults' \in 0..MaxFaults
  PROVE  IInv'
<1>1. DataOK' /\ Unsettleable' = Unsettleable /\ Recorded' = Recorded
  <2>1. DataOK
    BY Split
  <2>2. UNCHANGED <<order, ad, row, request, toss>>
    BY DEF db
  <2>3. QED BY <2>1, <2>2, QuietStep DEF DataOK
<1>2. frame' \in [Actor -> Frame] /\ FramesFit'
  BY <1>1, FrameStep, Split
<1>3. QED BY <1>1, <1>2, SplitPrime

LEMMA HandlerEnds ==
  ASSUME IInv, NEW a \in Actor, Done(a),
         UNCHANGED <<db, toss>>, hooks' \subseteq Event, faults' \in 0..MaxFaults
  PROVE  IInv'
BY FrameOnly, IdleFrame DEF Done

-----------------------------------------------------------------------------
(* One lemma for each action.                                              *)

LEMMA InitFits == Init => IInv
<1>1. SUFFICES ASSUME Init PROVE IInv
  OBVIOUS
<1>2. TypeOK
  <2>1. NoRow \in Row
    BY ConstantsAssumption DEF NoRow, Row, RowStatus
  <2>2. [status |-> "READY", balance |-> Amount, used |-> {}] \in TossPayment
    BY ConstantsAssumption DEF TossPayment, TossStatus
  <2>3. QED
    BY <1>1, <2>1, <2>2, IdleFrame, ConstantsAssumption
    DEF Init, TypeOK, OrderStatus, RequestStatus
<1>3. PaidIffPaymentPaid /\ RowsFit
  BY <1>1 DEF Init, PaidIffPaymentPaid, RowsFit, NoRow
<1>4. FramesFit
  BY <1>1, IdleFrame DEF Init, FramesFit
<1>5. QED BY <1>2, <1>3, <1>4 DEF IInv

LEMMA EventAnnounced ==
  ASSUME IInv, NEW k \in Key, NEW s \in HookStatus, NEW b \in 0..Amount, Announce(k, s, b)
  PROVE  hooks' \subseteq Event
BY Split DEF DataOK, Announce, Event

\* The provider acts on a payment by itself.
LEMMA TossStep ==
  ASSUME IInv, NEW k \in Key, NEW t \in TossPayment, t.used = toss[k].used,
         toss' = [toss EXCEPT ![k] = t], hooks' \subseteq Event, UNCHANGED <<db, frame, faults>>
  PROVE  IInv'
<1>1. DataOK' /\ Unsettleable' = Unsettleable /\ Recorded' = Recorded
  <2>1. DataOK /\ UNCHANGED <<order, ad, row, request, faults>>
    BY Split DEF db
  <2>2. toss' \in [Key -> TossPayment] /\ \A j \in Key : toss'[j].used = toss[j].used
    BY <2>1 DEF DataOK
  <2>3. QED BY <2>1, <2>2, QuietStep DEF DataOK
<1>2. frame' \in [Actor -> Frame] /\ FramesFit'
  BY <1>1, Split DEF FramesFit
<1>3. QED BY <1>1, <1>2, SplitPrime

LEMMA TossKeeps == IInv /\ Toss => IInv'
<1>1. SUFFICES ASSUME IInv, NEW k \in Key,
                      \/ \E s \in {"ABORTED", "EXPIRED"} : TossEnds(k, s)
                      \/ TossDeposit(k)
                      \/ TossPartialCancel(k)
                      \/ TossFullCancel(k)
               PROVE  IInv'
  BY DEF Toss
<1>2. toss[k] \in TossPayment /\ toss \in [Key -> TossPayment]
  BY <1>1, Split DEF DataOK
<1>3. ASSUME NEW s \in {"ABORTED", "EXPIRED"}, TossEnds(k, s) PROVE IInv'
  <2>1. [toss[k] EXCEPT !.status = s] \in TossPayment
    BY <1>2 DEF TossPayment, TossStatus
  <2>2. hooks' \subseteq Event
    BY <1>1, <1>2, <1>3, EventAnnounced DEF TossEnds, HookStatus, TossPayment
  <2>3. [toss[k] EXCEPT !.status = s].used = toss[k].used
    BY <1>2 DEF TossPayment
  <2>4. toss' = [toss EXCEPT ![k] = [toss[k] EXCEPT !.status = s]]
    BY <1>3 DEF TossEnds
  <2>5. QED BY <1>1, <1>3, <2>1, <2>2, <2>3, <2>4, TossStep DEF TossEnds
<1>4. ASSUME TossDeposit(k) PROVE IInv'
  <2>1. [toss[k] EXCEPT !.status = "DONE"] \in TossPayment
    BY <1>2 DEF TossPayment, TossStatus
  <2>2. hooks' \subseteq Event
    BY <1>1, <1>2, <1>4, EventAnnounced DEF TossDeposit, HookStatus, TossPayment
  <2>3. [toss[k] EXCEPT !.status = "DONE"].used = toss[k].used
    BY <1>2 DEF TossPayment
  <2>4. toss' = [toss EXCEPT ![k] = [toss[k] EXCEPT !.status = "DONE"]]
    BY <1>4 DEF TossDeposit
  <2>5. QED BY <1>1, <1>4, <2>1, <2>2, <2>3, <2>4, TossStep DEF TossDeposit
<1>5. ASSUME TossPartialCancel(k) PROVE IInv'
  <2> DEFINE t == [toss[k] EXCEPT !.status = "PARTIAL_CANCELED", !.balance = toss[k].balance - 1]
  <2>0. toss[k].balance \in 0..Amount /\ toss[k].balance - 1 \in 0..Amount
    BY <1>2, <1>5, ConstantsAssumption DEF TossPayment, TossPartialCancel
  <2>1. t \in TossPayment /\ t.used = toss[k].used
    BY <1>2, <2>0 DEF TossPayment, TossStatus
  <2>2. hooks' \subseteq Event
    BY <1>1, <1>5, <2>0, EventAnnounced DEF TossPartialCancel, HookStatus
  <2>4. toss' = [toss EXCEPT ![k] = t]
    BY <1>5, <1>2 DEF TossPartialCancel
  <2>5. UNCHANGED <<db, frame, faults>>
    BY <1>5 DEF TossPartialCancel
  <2> HIDE DEF t
  <2>6. QED BY <1>1, <2>1, <2>2, <2>4, <2>5, TossStep
<1>6. ASSUME TossFullCancel(k) PROVE IInv'
  <2> DEFINE t == [status |-> "CANCELED", balance |-> 0, used |-> toss[k].used \cup {}]
  <2>1. t \in TossPayment /\ t.used = toss[k].used
    BY <1>2, ConstantsAssumption DEF TossPayment, TossStatus
  <2>2. hooks' \subseteq Event
    BY <1>1, <1>6, EventAnnounced, ConstantsAssumption DEF TossFullCancel, HookStatus
  <2>4. toss' = [toss EXCEPT ![k] = t]
    BY <1>6 DEF TossFullCancel, Canceled
  <2>5. UNCHANGED <<db, frame, faults>>
    BY <1>6 DEF TossFullCancel
  <2> HIDE DEF t
  <2>6. QED BY <1>1, <2>1, <2>2, <2>4, <2>5, TossStep
<1>7. QED BY <1>1, <1>3, <1>4, <1>5, <1>6

LEMMA AdLapsesKeeps == ASSUME IInv, NEW o \in Order, AdLapses(o) PROVE IInv'
<1>1. DataOK /\ ad \in [Order -> AdState] /\ order \in [Order -> OrderStatus]
  BY Split DEF DataOK
<1>2. ad' \in [Order -> AdState] /\ ad'[o] = "lapsed" /\ \A q \in Order \ {o} : ad'[q] = ad[q]
  BY <1>1 DEF AdLapses, AdState
<1>3. o \in Unsettleable => o \in Unsettleable'
  BY <1>2 DEF AdLapses, Unsettleable
<1>4. DataOK' /\ Unsettleable \subseteq Unsettleable' /\ Recorded \subseteq Recorded'
  BY <1>1, <1>2, <1>3, TransactionStep DEF AdLapses, DataOK, RowsFit, PaidIffPaymentPaid
<1>5. frame' \in [Actor -> Frame] /\ FramesFit'
  BY <1>4, Split DEF AdLapses, FramesFit, FrameFits
<1>6. QED BY <1>4, <1>5, SplitPrime

LEMMA CancelPendingKeeps == ASSUME IInv, NEW o \in Order, CancelPendingByOwner(o) PROVE IInv'
<1>1. DataOK /\ order \in [Order -> OrderStatus]
  BY Split DEF DataOK
<1>2. /\ order' \in [Order -> OrderStatus]
      /\ order'[o] = "canceled"
      /\ \A q \in Order \ {o} : order'[q] = order[q]
  BY <1>1 DEF CancelPendingByOwner, OrderStatus
<1>3. o \in Unsettleable'
  BY <1>2 DEF Unsettleable
<1>4. row[o].status # "paid"
  BY <1>1 DEF CancelPendingByOwner, DataOK, PaidIffPaymentPaid
<1>5. DataOK' /\ Unsettleable \subseteq Unsettleable' /\ Recorded \subseteq Recorded'
  BY <1>1, <1>2, <1>3, <1>4, TransactionStep DEF CancelPendingByOwner, DataOK, RowsFit
<1>6. frame' \in [Actor -> Frame] /\ FramesFit'
  BY <1>5, Split DEF CancelPendingByOwner, FramesFit, FrameFits
<1>7. QED BY <1>5, <1>6, SplitPrime

LEMMA RejectKeeps == ASSUME IInv, NEW r \in Request, RejectRefund(r) PROVE IInv'
<1>1. DataOK
  BY Split
<1>2. request' \in [Request -> RequestStatus]
  BY <1>1 DEF RejectRefund, DataOK, RequestStatus
<1>3. DataOK' /\ Unsettleable' = Unsettleable /\ Recorded' = Recorded
  BY <1>1, <1>2, QuietStep DEF RejectRefund, DataOK
<1>4. frame' \in [Actor -> Frame] /\ FramesFit'
  BY <1>3, Split DEF RejectRefund, FramesFit
<1>5. QED BY <1>3, <1>4, SplitPrime

\* The records a handler starts with.
LEMMA StartFrames ==
  /\ \A k \in Key : [Idle EXCEPT !.op = "confirm", !.at = "call", !.key = k] \in Frame
  /\ \A e \in Event :
       [Idle EXCEPT !.op = e.status, !.at = "read", !.key = e.key, !.event = e] \in Frame
  /\ \A r \in Request : [Idle EXCEPT !.op = "request", !.at = "write", !.request = r] \in Frame
  /\ \A k \in Key, r \in Request :
       [Idle EXCEPT !.op = "approve", !.at = "call", !.key = k, !.request = r] \in Frame
  /\ \A k \in Key, m \in 0..MaxAttempts :
       [Idle EXCEPT !.op = "retry", !.at = "cancel", !.key = k, !.n = m] \in Frame
<1>1. Idle \in Frame
  BY IdleFrame
<1>2. 0..MaxAttempts \subseteq 0..(Amount + MaxAttempts)
  BY ConstantsAssumption
<1>3. \A k \in Key : [Idle EXCEPT !.op = "confirm", !.at = "call", !.key = k] \in Frame
  BY <1>1 DEF Frame, Op, Label
<1>4. ASSUME NEW e \in Event
      PROVE  [Idle EXCEPT !.op = e.status, !.at = "read", !.key = e.key, !.event = e] \in Frame
  <2>1. e.status \in Op /\ e.key \in Key
    BY DEF Op, Event
  <2>2. QED BY <1>1, <2>1 DEF Frame, Label
<1>5. \A r \in Request :
        [Idle EXCEPT !.op = "request", !.at = "write", !.request = r] \in Frame
  BY <1>1 DEF Frame, Op, Label
<1>6. \A k \in Key, r \in Request :
        [Idle EXCEPT !.op = "approve", !.at = "call", !.key = k, !.request = r] \in Frame
  BY <1>1 DEF Frame, Op, Label
<1>7. \A k \in Key, m \in 0..MaxAttempts :
        [Idle EXCEPT !.op = "retry", !.at = "cancel", !.key = k, !.n = m] \in Frame
  BY <1>1, <1>2 DEF Frame, Op, Label
<1>8. QED BY <1>3, <1>4, <1>5, <1>6, <1>7

LEMMA StartKeeps == ASSUME IInv, NEW a \in Actor, Start(a) PROVE IInv'
<1>1. hooks \subseteq Event /\ faults \in 0..MaxFaults /\ row \in [Order -> Row]
  BY Split DEF DataOK
<1>2. ASSUME NEW k \in Key, StartConfirm(a, k) PROVE IInv'
  <2> DEFINE f == [Idle EXCEPT !.op = "confirm", !.at = "call", !.key = k]
  <2>1. f \in Frame
    BY StartFrames
  <2>2. FrameFits(f, Unsettleable, Recorded)
    BY DEF FrameFits, Idle, HookStatus
  <2>3. Become(a, f) /\ UNCHANGED <<db, toss>> /\ hooks' \subseteq Event /\ faults' \in 0..MaxFaults
    BY <1>1, <1>2 DEF StartConfirm
  <2> HIDE DEF f
  <2>4. QED BY <2>1, <2>2, <2>3, FrameOnly
<1>3. ASSUME NEW e \in hooks, DeliverHook(a, e) PROVE IInv'
  <2> DEFINE f == [Idle EXCEPT !.op = e.status, !.at = "read", !.key = e.key, !.event = e]
  <2>1. f \in Frame /\ e \in Event
    BY <1>1, StartFrames
  <2>2. FrameFits(f, Unsettleable, Recorded)
    BY <2>1 DEF FrameFits, Idle, HookStatus, Event
  <2>3. Become(a, f) /\ UNCHANGED <<db, toss>> /\ hooks' \subseteq Event /\ faults' \in 0..MaxFaults
    BY <1>1, <1>3 DEF DeliverHook
  <2> HIDE DEF f
  <2>4. QED BY <2>1, <2>2, <2>3, FrameOnly
<1>4. ASSUME NEW r \in Request, StartRequest(a, r) PROVE IInv'
  <2> DEFINE f == [Idle EXCEPT !.op = "request", !.at = "write", !.request = r]
  <2>1. f \in Frame
    BY StartFrames
  <2>2. FrameFits(f, Unsettleable, Recorded)
    BY DEF FrameFits, Idle, HookStatus
  <2>3. Become(a, f) /\ UNCHANGED <<db, toss>> /\ hooks' \subseteq Event /\ faults' \in 0..MaxFaults
    BY <1>1, <1>4 DEF StartRequest
  <2> HIDE DEF f
  <2>4. QED BY <2>1, <2>2, <2>3, FrameOnly
<1>5. ASSUME NEW r \in Request, StartApprove(a, r) PROVE IInv'
  <2> DEFINE k == row[TargetOf[r]].key
             f == [Idle EXCEPT !.op = "approve", !.at = "call", !.key = k, !.request = r]
  <2>0. k \in Key /\ TargetOf[r] \in Recorded
    BY <1>5, Split, ConstantsAssumption DEF StartApprove, DataOK, RowsFit, KeysOf, Recorded
  <2>1. f \in Frame
    BY <2>0, StartFrames
  <2>2. FrameFits(f, Unsettleable, Recorded)
    BY <2>0 DEF FrameFits, Idle, HookStatus
  <2>3. Become(a, f) /\ UNCHANGED <<db, toss>> /\ hooks' \subseteq Event /\ faults' \in 0..MaxFaults
    BY <1>1, <1>5 DEF StartApprove
  <2> HIDE DEF f
  <2>4. QED BY <2>1, <2>2, <2>3, FrameOnly
<1>6. ASSUME NEW o \in Order, StartRetry(a, o) PROVE IInv'
  <2> DEFINE k == row[o].key
             m == row[o].attempts
             f == [Idle EXCEPT !.op = "retry", !.at = "cancel", !.key = k, !.n = m]
  <2>0. k \in Key /\ OrderOf[k] = o /\ o \in Unsettleable /\ m \in 0..MaxAttempts /\ m < MaxAttempts
    BY <1>1, <1>6, Split DEF StartRetry, DataOK, RowsFit, KeysOf, Row
  <2>1. f \in Frame
    BY <2>0, StartFrames
  <2>2. FrameFits(f, Unsettleable, Recorded)
    BY <2>0 DEF FrameFits, Idle, HookStatus
  <2>3. Become(a, f) /\ UNCHANGED <<db, toss>> /\ hooks' \subseteq Event /\ faults' \in 0..MaxFaults
    BY <1>1, <1>6 DEF StartRetry
  <2> HIDE DEF f
  <2>4. QED BY <2>1, <2>2, <2>3, FrameOnly
<1>7. QED BY <1>2, <1>3, <1>4, <1>5, <1>6 DEF Start

\* A handler that changes nothing but its label, and not to one at which
\* money is given back or a computed value is written.
LEMMA MoveOn ==
  ASSUME IInv, NEW a \in Actor, frame[a].op \notin {"idle", "request"},
         NEW l \in Label \ {"cancel", "record", "write"}, Goto(a, l),
         UNCHANGED <<db, toss>>, hooks' \subseteq Event, faults' \in 0..MaxFaults
  PROVE  IInv'
<1> DEFINE f == [frame[a] EXCEPT !.at = l]
<1>1. frame[a] \in Frame /\ FrameFits(frame[a], Unsettleable, Recorded)
  BY HandlerOrder
<1>2. f \in Frame
  BY <1>1, FrameEdit
<1>3. FrameFits(f, Unsettleable, Recorded)
  BY <1>1 DEF FrameFits, Frame
<1>4. Become(a, f)
  BY DEF Goto
<1> HIDE DEF f
<1>5. QED BY <1>2, <1>3, <1>4, FrameOnly

LEMMA FaultKeeps == ASSUME IInv, NEW a \in Actor, Fail(a) PROVE IInv'
<1>1. hooks' \subseteq Event /\ faults' \in 0..MaxFaults
  BY Split, ConstantsAssumption DEF Fail, DataOK
<1>2. Done(a) /\ UNCHANGED <<db, toss>>
  BY DEF Fail
<1>3. QED BY <1>1, <1>2, HandlerEnds

LEMMA ReadKeeps == ASSUME IInv, NEW a \in Actor, ReadOrder(a) \/ ReadToss(a) PROVE IInv'
<1>0. frame[a].op \notin {"idle", "request"}
  BY DEF ReadOrder, ReadToss, At, HookStatus
<1>1. /\ frame[a] \in Frame
      /\ frame[a].key \in Key
      /\ TheOrder(a) \in Order
      /\ FrameFits(frame[a], Unsettleable, Recorded)
  BY <1>0, HandlerOrder
<1>2. hooks' \subseteq Event /\ faults' \in 0..MaxFaults /\ UNCHANGED <<db, toss>>
  BY Split DEF DataOK, ReadOrder, ReadToss
<1>3. CASE ReadOrder(a)
  <2> DEFINE f == [frame[a] EXCEPT !.sawOrder = order[TheOrder(a)]]
  <2>1. order[TheOrder(a)] \in OrderStatus
    BY <1>1, Split DEF DataOK
  <2>2. f \in Frame
    BY <1>1, <2>1, FrameEdit
  <2>3. order[TheOrder(a)] = "canceled" => OrderOf[frame[a].key] \in Unsettleable
    BY <1>1 DEF Unsettleable, TheOrder
  <2>4. FrameFits(f, Unsettleable, Recorded)
    BY <1>1, <2>3 DEF FrameFits, Frame
  <2>5. Become(a, f)
    BY <1>3 DEF ReadOrder
  <2> HIDE DEF f
  <2>6. QED BY <1>2, <2>2, <2>4, <2>5, FrameOnly
<1>4. CASE ReadToss(a)
  <2> DEFINE t == [status |-> toss[frame[a].key].status, balance |-> toss[frame[a].key].balance]
             f == [frame[a] EXCEPT !.sawToss = t]
  <2>1. t \in TossView
    BY <1>1, Split DEF DataOK, TossView, TossPayment
  <2>2. f \in Frame
    BY <1>1, <2>1, FrameEdit
  <2>3. FrameFits(f, Unsettleable, Recorded)
    BY <1>1 DEF FrameFits, Frame
  <2>4. Become(a, f)
    BY <1>4 DEF ReadToss
  <2> HIDE DEF f
  <2>5. QED BY <1>2, <2>2, <2>3, <2>4, FrameOnly
<1>5. QED BY <1>3, <1>4

\* The verdicts of a webhook handler.
LEMMA VerdictFacts ==
  ASSUME NEW op \in HookStatus, NEW x, NEW t
  PROVE  /\ Verdict(op, x, t) \in (Label \ {"record", "write"}) \cup {"reject"}
         /\ Verdict(op, x, t) = "cancel" => x = "canceled"
BY DEF Verdict, Label, HookStatus

LEMMA DecideKeeps == ASSUME IInv, NEW a \in Actor, Decide(a) PROVE IInv'
<1> DEFINE v == Verdict(frame[a].op, frame[a].sawOrder, frame[a].sawToss.status)
<1>0. frame[a].op \in HookStatus /\ frame[a].op \notin {"idle", "request"}
  BY DEF Decide, At, HookStatus
<1>1. frame[a] \in Frame /\ FrameFits(frame[a], Unsettleable, Recorded)
  BY <1>0, HandlerOrder
<1>2. hooks' \subseteq Event /\ faults' \in 0..MaxFaults /\ UNCHANGED <<db, toss>>
  BY Split DEF DataOK, Decide
<1>3. CASE v = "reject"
  BY <1>2, <1>3, HandlerEnds DEF Decide
<1>4. CASE v # "reject"
  <2> DEFINE f == [frame[a] EXCEPT !.at = v]
  <2>1. v \in Label \ {"record", "write"} /\ (v = "cancel" => frame[a].sawOrder = "canceled")
    BY <1>0, <1>4, VerdictFacts
  <2>2. f \in Frame
    BY <1>1, <2>1, FrameEdit
  <2>3. FrameFits(f, Unsettleable, Recorded)
    <3> HIDE DEF v
    <3>1. QED BY <1>0, <1>1, <2>1 DEF FrameFits, Frame
  <2>4. Become(a, f)
    BY <1>4 DEF Decide, Goto
  <2> HIDE DEF f
  <2>5. QED BY <1>2, <2>2, <2>3, <2>4, FrameOnly
<1>5. QED BY <1>3, <1>4

LEMMA AcknowledgeKeeps == ASSUME IInv, NEW a \in Actor, Acknowledge(a) PROVE IInv'
BY HandlerEnds, Split DEF Acknowledge, DataOK

LEMMA ReadRowKeeps == ASSUME IInv, NEW a \in Actor, ReadRow(a) PROVE IInv'
<1>0. frame[a].op = "PARTIAL_CANCELED"
  BY DEF ReadRow, At
<1>1. /\ frame[a] \in Frame
      /\ frame[a].key \in Key
      /\ TheOrder(a) \in Order
      /\ FrameFits(frame[a], Unsettleable, Recorded)
  BY <1>0, HandlerOrder
<1>2. hooks' \subseteq Event /\ faults' \in 0..MaxFaults /\ UNCHANGED <<db, toss>>
  BY Split DEF DataOK, ReadRow
<1>3. CASE Done(a)
  BY <1>2, <1>3, HandlerEnds
<1>4. CASE Goto(a, "ack")
  BY <1>0, <1>2, <1>4, MoveOn DEF Label
<1>5. CASE /\ row[TheOrder(a)].status = "paid"
           /\ Become(a, [frame[a] EXCEPT !.at = "write", !.n = Amount - frame[a].sawToss.balance])
  <2> DEFINE m == Amount - frame[a].sawToss.balance
             f == [frame[a] EXCEPT !.at = "write", !.n = m]
  <2>1. m \in 0..Amount
    BY <1>1, ConstantsAssumption DEF Frame, TossView
  <2>2. OrderOf[frame[a].key] \in Recorded
    BY <1>1, <1>5 DEF Recorded, TheOrder
  <2> HIDE DEF m
  <2>3. f \in Frame
    BY <1>1, <2>1, FrameEdit DEF Label
  <2>4. FrameFits(f, Unsettleable, Recorded)
    BY <1>0, <1>1, <2>1, <2>2 DEF FrameFits, Frame
  <2>5. Become(a, f)
    BY <1>5 DEF m
  <2> HIDE DEF f
  <2>6. QED BY <1>2, <2>3, <2>4, <2>5, FrameOnly
<1>6. QED BY <1>3, <1>4, <1>5 DEF ReadRow

\* The confirm answer charges or does not; it gives nothing back.
LEMMA ConfirmAnswerKeeps == ASSUME IInv, NEW a \in Actor, ConfirmAnswer(a) PROVE IInv'
<1> DEFINE k == frame[a].key
<1>0. frame[a].op = "confirm"
  BY DEF ConfirmAnswer, At
<1>1. frame[a] \in Frame /\ k \in Key /\ FrameFits(frame[a], Unsettleable, Recorded)
  BY <1>0, HandlerOrder
<1>2. DataOK /\ toss[k] \in TossPayment /\ UNCHANGED <<db, faults>> /\ UNCHANGED <<order, ad, row, request>>
  BY <1>1, Split DEF DataOK, ConfirmAnswer, AwaitDeposit, db
<1>3. ASSUME NEW s \in {"DONE", "WAITING_FOR_DEPOSIT"}, NEW i \in {"confirm", "deposit"},
             toss' = [toss EXCEPT ![k].status = s, ![k].used = @ \cup {i}],
             hooks' \subseteq Event
      PROVE  DataOK' /\ Unsettleable' = Unsettleable /\ Recorded' = Recorded
  <2> DEFINE t == [[toss[k] EXCEPT !.status = s] EXCEPT !.used = toss[k].used \cup {i}]
  <2>1. t \in TossPayment /\ t.used = toss[k].used \cup {i}
    BY <1>2 DEF TossPayment, TossStatus, IdempotencyKey
  <2>2. toss' = [toss EXCEPT ![k] = t]
    BY <1>2, <1>3 DEF DataOK, TossPayment
  <2> HIDE DEF t
  <2>3. /\ toss' \in [Key -> TossPayment]
        /\ \A j \in Key : "cancel" \in toss'[j].used => "cancel" \in toss[j].used
    BY <1>1, <1>2, <2>1, <2>2 DEF DataOK
  <2>4. QED BY <1>2, <1>3, <2>3, QuietStep DEF DataOK
<1>4. ASSUME DataOK' /\ Unsettleable' = Unsettleable /\ Recorded' = Recorded,
             NEW j \in Key, Become(a, [frame[a] EXCEPT !.at = "settle", !.key = j])
      PROVE  IInv'
  <2> DEFINE f == [frame[a] EXCEPT !.at = "settle", !.key = j]
  <2>1. f \in Frame
    BY <1>1, FrameEdit DEF Label
  <2>2. FrameFits(f, Unsettleable, Recorded)
    BY <1>0, <1>1 DEF FrameFits, Frame, HookStatus
  <2>3. Become(a, f)
    BY <1>4
  <2> HIDE DEF f
  <2>4. frame' \in [Actor -> Frame] /\ FramesFit'
    BY <1>4, <2>1, <2>2, <2>3, FrameStep, Split
  <2>5. QED BY <1>4, <2>4, SplitPrime
<1>5. ASSUME DataOK' /\ Unsettleable' = Unsettleable /\ Recorded' = Recorded,
             Goto(a, "settle") \/ Done(a)
      PROVE  IInv'
  <2>1. CASE Done(a)
    <3>1. frame' \in [Actor -> Frame] /\ FramesFit'
      BY <1>5, <2>1, IdleFrame, FrameStep, Split DEF Done
    <3>2. QED BY <1>5, <3>1, SplitPrime
  <2>2. CASE Goto(a, "settle")
    <3>1. [frame[a] EXCEPT !.at = "settle"] = [frame[a] EXCEPT !.at = "settle", !.key = k]
      BY <1>1 DEF Frame
    <3>2. QED BY <1>1, <1>4, <1>5, <2>2, <3>1 DEF Goto
  <2>3. QED BY <1>5, <2>1, <2>2
<1>6. CASE /\ toss' = [toss EXCEPT ![k].status = "DONE", ![k].used = @ \cup {"confirm"}]
           /\ Announce(k, "DONE", toss[k].balance)
           /\ Goto(a, "settle") \/ Done(a)
  <2>1. hooks' \subseteq Event
    BY <1>1, <1>2, <1>6, EventAnnounced DEF HookStatus, TossPayment
  <2>2. QED BY <1>3, <1>5, <1>6, <2>1
<1>7. CASE /\ toss' = [toss EXCEPT ![k].status = "WAITING_FOR_DEPOSIT", ![k].used = @ \cup {"deposit"}]
           /\ Done(a)
           /\ UNCHANGED hooks
  <2>1. hooks' \subseteq Event
    BY <1>2, <1>7 DEF DataOK
  <2>2. QED BY <1>3, <1>5, <1>7, <2>1
<1>8. CASE UNCHANGED <<toss, hooks>>
  <2>1. DataOK' /\ Unsettleable' = Unsettleable /\ Recorded' = Recorded
    BY <1>2, <1>8, QuietStep DEF DataOK
  <2>2. CASE \E c \in Confirmed(OrderOf[k]) : Become(a, [frame[a] EXCEPT !.at = "settle", !.key = c])
    BY <1>4, <2>1, <2>2 DEF Confirmed, KeysOf
  <2>3. CASE Goto(a, "settle") \/ Done(a)
    BY <1>5, <2>1, <2>3
  <2>4. QED BY <1>6, <1>7, <1>8, <2>2, <2>3 DEF ConfirmAnswer, AwaitDeposit
<1>9. QED BY <1>6, <1>7, <1>8 DEF ConfirmAnswer, AwaitDeposit

-----------------------------------------------------------------------------
(* Transactions.                                                           *)

\* A handler commits a transaction and goes on.
LEMMA CommitStep ==
  ASSUME IInv, NEW a \in Actor, NEW f \in Frame, Become(a, f),
         DataOK', Unsettleable \subseteq Unsettleable', Recorded \subseteq Recorded',
         FrameFits(f, Unsettleable', Recorded')
  PROVE  IInv'
BY FrameStep, Split, SplitPrime

\* It ends, or only its label changes: to one that needs nothing of it, or
\* to "cancel" for an order that cannot be settled.
LEMMA CommitAndGo ==
  ASSUME IInv, NEW a \in Actor, frame[a].op \notin {"idle", "request"},
         DataOK', Unsettleable \subseteq Unsettleable', Recorded \subseteq Recorded',
         \/ Done(a)
         \/ \E l \in Label \ {"cancel", "record", "write"} : Goto(a, l)
         \/ Goto(a, "cancel") /\ TheOrder(a) \in Unsettleable
  PROVE  IInv'
<1>1. frame[a] \in Frame /\ FrameFits(frame[a], Unsettleable, Recorded)
  BY HandlerOrder
<1>2. CASE Done(a)
  BY <1>2, CommitStep, IdleFrame DEF Done
<1>3. ASSUME NEW l \in Label \ {"record", "write"}, Goto(a, l),
             l = "cancel" => TheOrder(a) \in Unsettleable
      PROVE  IInv'
  <2> DEFINE f == [frame[a] EXCEPT !.at = l]
  <2>1. f \in Frame
    BY <1>1, FrameEdit
  <2>2. FrameFits(f, Unsettleable', Recorded')
    BY <1>1, <1>3 DEF FrameFits, Frame, TheOrder
  <2>3. Become(a, f)
    BY <1>3 DEF Goto
  <2> HIDE DEF f
  <2>4. QED BY <2>1, <2>2, <2>3, CommitStep
<1>4. QED BY <1>2, <1>3 DEF Label

LEMMA SettleKeeps == ASSUME IInv, NEW a \in Actor, Settle(a) PROVE IInv'
<1> DEFINE o == TheOrder(a)
           k == frame[a].key
<1>0. frame[a].op \notin {"idle", "request"}
  BY DEF Settle, At
<1>1. k \in Key /\ o \in Order /\ OrderOf[k] = o
  BY <1>0, HandlerOrder DEF TheOrder
<1>2. /\ DataOK /\ row[o] \in Row /\ order[o] \in OrderStatus /\ ad[o] \in AdState
      /\ order \in [Order -> OrderStatus] /\ ad \in [Order -> AdState] /\ row \in [Order -> Row]
      /\ UNCHANGED <<request, toss, hooks, faults>>
  BY <1>1, Split DEF DataOK, Settle
<1>3. /\ Persisted(row[o], "paid", k) \in Row
      /\ Persisted(row[o], "paid", k).status = IF row[o].status = "none" THEN "paid" ELSE row[o].status
      /\ Persisted(row[o], "paid", k).key = IF row[o].status = "none" THEN k ELSE row[o].key
  BY <1>1, <1>2, PersistedRow DEF RowStatus, Protected, Row
<1>4. AfterCommit(a) => Done(a) \/ Goto(a, "ack")
  BY DEF AfterCommit
<1>5. CASE /\ order[o] = "paid"
           /\ row' = [row EXCEPT ![o] = Persisted(@, "paid", k)]
           /\ AfterCommit(a)
           /\ UNCHANGED <<order, ad>>
  <2>1. row[o].status = "paid"
    BY <1>1, <1>2, <1>5 DEF DataOK, PaidIffPaymentPaid
  <2>2. /\ row' \in [Order -> Row] /\ row'[o].status = "paid" /\ row'[o].key = row[o].key
        /\ \A q \in Order \ {o} : row'[q] = row[q]
    BY <1>1, <1>2, <1>3, <1>5, <2>1
  <2>3. o \in Unsettleable => o \in Unsettleable'
    BY <1>5 DEF Unsettleable
  <2>4. DataOK' /\ Unsettleable \subseteq Unsettleable' /\ Recorded \subseteq Recorded'
    <3> HIDE DEF o, k
    <3>1. QED BY <1>1, <1>2, <1>5, <2>1, <2>2, <2>3, TransactionStep DEF DataOK, RowsFit
  <2>5. QED BY <1>0, <1>4, <1>5, <2>4, CommitAndGo DEF Label
<1>6. CASE /\ Settleable(o)
           /\ row' = [row EXCEPT ![o] = Persisted(@, "paid", k)]
           /\ order' = [order EXCEPT ![o] = "paid"]
           /\ ad' = [ad EXCEPT ![o] = IF @ = "none" THEN @ ELSE "served"]
           /\ AfterCommit(a)
  <2>0. o \notin Unsettleable /\ order[o] = "pending"
    BY <1>6 DEF Settleable, Unsettleable
  <2>1. row[o].status = "none"
    BY <1>1, <1>2, <2>0 DEF DataOK, PaidIffPaymentPaid, RowsFit, Row, RowStatus
  <2>2. /\ row' \in [Order -> Row] /\ row'[o].status = "paid" /\ row'[o].key = k
        /\ order' \in [Order -> OrderStatus] /\ order'[o] = "paid"
        /\ ad' \in [Order -> AdState]
        /\ \A q \in Order \ {o} : row'[q] = row[q] /\ order'[q] = order[q] /\ ad'[q] = ad[q]
    BY <1>1, <1>2, <1>3, <1>6, <2>1 DEF OrderStatus, AdState
  <2>4. DataOK' /\ Unsettleable \subseteq Unsettleable' /\ Recorded \subseteq Recorded'
    <3>1. k \in KeysOf(o)
      BY <1>1 DEF KeysOf
    <3> HIDE DEF o, k
    <3>2. QED BY <1>1, <1>2, <2>0, <2>1, <2>2, <3>1, TransactionStep DEF DataOK
  <2>5. QED BY <1>0, <1>4, <1>6, <2>4, CommitAndGo DEF Label
<1>7. CASE /\ order[o] # "paid" /\ ~Settleable(o)
           /\ Goto(a, "cancel")
           /\ UNCHANGED <<order, ad, row>>
  <2>1. DataOK' /\ Unsettleable' = Unsettleable /\ Recorded' = Recorded
    BY <1>2, <1>7, QuietStep DEF DataOK
  <2>2. o \in Unsettleable
    BY <1>1, <1>2, <1>7 DEF Settleable, Unsettleable, OrderStatus
  <2>3. QED BY <1>0, <1>7, <2>1, <2>2, CommitAndGo
<1>8. QED BY <1>5, <1>6, <1>7 DEF Settle

LEMMA CancelCallKeeps == ASSUME IInv, NEW a \in Actor, CancelCall(a) PROVE IInv'
<1> DEFINE k == frame[a].key
<1>0. frame[a].op \notin {"idle", "request"} /\ frame[a].at = "cancel"
      /\ frame[a].op \in {"confirm", "DONE", "retry"}
  BY DEF CancelCall, At
<1>1. /\ frame[a] \in Frame /\ k \in Key /\ FrameFits(frame[a], Unsettleable, Recorded)
      /\ OrderOf[k] \in Unsettleable
  BY <1>0, HandlerOrder DEF FrameFits
<1>2. DataOK /\ UNCHANGED <<order, ad, row, request, faults>>
  BY Split DEF CancelCall, db
<1>3. DataOK' /\ Unsettleable' = Unsettleable /\ Recorded' = Recorded
  <2>1. CASE /\ Canceled(k, {"cancel"})
             /\ Announce(k, "CANCELED", 0)
    <3>1. hooks' \subseteq Event
      BY <1>1, <2>1, EventAnnounced, ConstantsAssumption DEF HookStatus
    <3>2. /\ toss' \in [Key -> TossPayment]
          /\ \A j \in Key \ {k} : toss'[j] = toss[j]
      <4>1. [status |-> "CANCELED", balance |-> 0, used |-> toss[k].used \cup {"cancel"}] \in TossPayment
        BY <1>1, <1>2, ConstantsAssumption DEF DataOK, TossPayment, TossStatus, IdempotencyKey
      <4>2. QED BY <1>1, <1>2, <2>1, <4>1 DEF DataOK, Canceled
    <3>3. QED BY <1>1, <1>2, <3>1, <3>2, QuietStep DEF DataOK
  <2>2. CASE UNCHANGED <<toss, hooks>>
    BY <1>2, <2>2, QuietStep DEF DataOK
  <2>3. QED BY <2>1, <2>2 DEF CancelCall
<1>4. ASSUME NEW x \in {"canceled", "refund_pending"},
             Become(a, [frame[a] EXCEPT !.at = "record", !.outcome = x])
      PROVE  IInv'
  <2> DEFINE f == [frame[a] EXCEPT !.at = "record", !.outcome = x]
  <2>1. f \in Frame
    BY <1>1, FrameEdit DEF Label
  <2>2. FrameFits(f, Unsettleable, Recorded)
    BY <1>1 DEF FrameFits, Frame
  <2>3. Become(a, f)
    BY <1>4
  <2> HIDE DEF f
  <2>4. QED BY <1>3, <2>1, <2>2, <2>3, CommitStep
<1>5. CASE Goto(a, "bump")
  BY <1>0, <1>3, <1>5, CommitAndGo DEF Label
<1>6. QED BY <1>4, <1>5 DEF CancelCall, AfterCancel

LEMMA RecordFailsKeeps == ASSUME IInv, NEW a \in Actor, RecordFails(a) PROVE IInv'
<1>1. hooks' \subseteq Event /\ faults' \in 0..MaxFaults /\ UNCHANGED <<db, toss>>
  BY Split, ConstantsAssumption DEF RecordFails, DataOK
<1>2. frame[a].op \notin {"idle", "request"}
  BY DEF RecordFails, At
<1>3. Goto(a, "ack") \/ Done(a)
  BY DEF RecordFails, AfterRecord
<1>4. QED BY <1>1, <1>2, <1>3, HandlerEnds, MoveOn DEF Label

LEMMA RecordLocallyKeeps == ASSUME IInv, NEW a \in Actor, RecordLocally(a) PROVE IInv'
<1> DEFINE o == TheOrder(a)
           k == frame[a].key
           s == frame[a].outcome
           r == Persisted(row[o], s, k)
<1>0. frame[a].op \notin {"idle", "request"} /\ frame[a].at = "record"
  BY DEF RecordLocally, At
<1>1. /\ k \in Key /\ o \in Order /\ OrderOf[k] = o
      /\ s \in {"canceled", "refund_pending"} /\ o \in Unsettleable
  BY <1>0, HandlerOrder DEF TheOrder, FrameFits
<1>2. /\ DataOK /\ row[o] \in Row /\ order[o] \in OrderStatus
      /\ order \in [Order -> OrderStatus] /\ ad \in [Order -> AdState] /\ row \in [Order -> Row]
      /\ UNCHANGED <<ad, request, toss, hooks, faults>>
  BY <1>1, Split DEF DataOK, RecordLocally
<1>3. /\ r \in Row
      /\ r.status = IF row[o].status = "canceled" THEN "canceled" ELSE s
      /\ r.key = IF row[o].status = "none" THEN k ELSE row[o].key
  BY <1>1, <1>2, PersistedRow DEF RowStatus, Protected, Row
<1>4. order[o] \in {"pending", "canceled"} /\ (row[o].status = "canceled" => order[o] = "canceled")
  BY <1>1, <1>2 DEF Unsettleable, DataOK, RowsFit
<1>5. row'[o] = r /\ order'[o] = IF s = "canceled" THEN "canceled" ELSE order[o]
  BY <1>1, <1>2 DEF RecordLocally
<1>6. /\ order' \in [Order -> OrderStatus] /\ row' \in [Order -> Row]
      /\ \A q \in Order \ {o} : order'[q] = order[q] /\ row'[q] = row[q]
  <2>1. order' = [order EXCEPT ![o] = IF s = "canceled" THEN "canceled" ELSE @]
    BY DEF RecordLocally
  <2>2. row' = [row EXCEPT ![o] = r]
    BY <1>1, <1>2 DEF RecordLocally
  <2> HIDE DEF o, r, s
  <2>3. QED BY <1>1, <1>2, <1>3, <2>1, <2>2 DEF OrderStatus
<1>7. o \in Unsettleable'
  BY <1>1, <1>2, <1>5 DEF Unsettleable
<1>8. row[o].status # "none" => row[o].key \in KeysOf(o)
  BY <1>1, <1>2 DEF DataOK, RowsFit
<1>9. k \in KeysOf(o)
  BY <1>1 DEF KeysOf
<1>10. DataOK' /\ Unsettleable \subseteq Unsettleable' /\ Recorded \subseteq Recorded'
  <2> HIDE DEF o, k, s, r
  <2>1. /\ row'[o].status # "none" => row'[o].key \in KeysOf(o)
        /\ order'[o] # "paid" /\ row'[o].status # "paid"
        /\ row'[o].status # "none"
        /\ row'[o].status \in {"expired", "canceled"} => order'[o] = "canceled"
    BY <1>1, <1>3, <1>4, <1>5, <1>8, <1>9
  <2>2. QED BY <1>1, <1>2, <1>6, <1>7, <2>1, TransactionStep DEF DataOK
<1>11. Goto(a, "ack") \/ Done(a)
  BY DEF RecordLocally, AfterRecord
<1>12. QED BY <1>0, <1>10, <1>11, CommitAndGo DEF Label

\* A transaction that closes an order and leaves a closed row.
LEMMA ClosingStep ==
  ASSUME DataOK, NEW o \in Order, NEW r \in Row, r.status \in {"expired", "canceled"},
         r.key \in KeysOf(o),
         row' = [row EXCEPT ![o] = r],
         order' = [order EXCEPT ![o] = "canceled"],
         request' \in [Request -> RequestStatus],
         UNCHANGED <<ad, toss, hooks, faults>>
  PROVE  DataOK' /\ Unsettleable \subseteq Unsettleable' /\ Recorded \subseteq Recorded'
<1>1. /\ row' \in [Order -> Row] /\ row'[o] = r
      /\ order' \in [Order -> OrderStatus] /\ order'[o] = "canceled"
      /\ ad' \in [Order -> AdState]
      /\ \A q \in Order \ {o} : order'[q] = order[q] /\ row'[q] = row[q] /\ ad'[q] = ad[q]
  BY DEF DataOK, OrderStatus
<1>2. o \in Unsettleable'
  BY <1>1 DEF Unsettleable
<1>3. QED BY <1>1, <1>2, TransactionStep

LEMMA RecordRefundRetryKeeps == ASSUME IInv, NEW a \in Actor, RecordRefundRetry(a) PROVE IInv'
<1> DEFINE o == TheOrder(a)
<1>0. frame[a].op \notin {"idle", "request"} /\ frame[a].op = "retry"
  BY DEF RecordRefundRetry, At
<1>1. o \in Order /\ frame[a].n + 1 \in 0..MaxAttempts
  BY <1>0, HandlerOrder, ConstantsAssumption DEF FrameFits, Frame
<1>2. DataOK /\ row \in [Order -> Row] /\ UNCHANGED <<order, ad, request, toss, hooks, faults>>
  BY Split DEF DataOK, RecordRefundRetry
<1>3. row' = [row EXCEPT ![o] = [row[o] EXCEPT !.attempts = frame[a].n + 1]]
  BY DEF RecordRefundRetry
<1>4. /\ row' \in [Order -> Row] /\ row'[o].status = row[o].status /\ row'[o].key = row[o].key
      /\ \A q \in Order \ {o} : row'[q] = row[q]
  <2> DEFINE r == [row[o] EXCEPT !.attempts = frame[a].n + 1]
  <2>1. r \in Row /\ r.status = row[o].status /\ r.key = row[o].key
    BY <1>1, <1>2 DEF Row
  <2> HIDE DEF r
  <2>2. row' = [row EXCEPT ![o] = r]
    BY <1>3 DEF r
  <2> HIDE DEF o
  <2>3. QED BY <1>1, <1>2, <2>1, <2>2
<1>5. Unsettleable' = Unsettleable
  BY <1>2 DEF Unsettleable
<1>6. DataOK' /\ Unsettleable \subseteq Unsettleable' /\ Recorded \subseteq Recorded'
  <2> HIDE DEF o
  <2>1. QED BY <1>1, <1>2, <1>4, <1>5, TransactionStep DEF DataOK, RowsFit, PaidIffPaymentPaid
<1>7. QED BY <1>0, <1>6, CommitAndGo DEF RecordRefundRetry

LEMMA CommitCanceledKeeps == ASSUME IInv, NEW a \in Actor, CommitCanceled(a) PROVE IInv'
<1> DEFINE o == TheOrder(a)
           k == frame[a].key
           r == Persisted(row[o], "canceled", k)
<1>0. frame[a].op \notin {"idle", "request"}
  BY DEF CommitCanceled, At
<1>1. k \in Key /\ o \in Order /\ OrderOf[k] = o
  BY <1>0, HandlerOrder DEF TheOrder
<1>2. DataOK /\ row \in [Order -> Row] /\ request' \in [Request -> RequestStatus]
  BY Split DEF DataOK, CommitCanceled
<1>3. r \in Row /\ r.status = "canceled" /\ r.key = IF row[o].status = "none" THEN k ELSE row[o].key
  BY <1>1, <1>2, PersistedRow DEF RowStatus, Protected, Row
<1>4. r.key \in KeysOf(o)
  BY <1>1, <1>2, <1>3 DEF KeysOf, DataOK, RowsFit
<1>5. row' = [row EXCEPT ![o] = r] /\ order' = [order EXCEPT ![o] = "canceled"]
      /\ UNCHANGED <<ad, toss, hooks, faults>>
  BY <1>1, <1>2 DEF CommitCanceled
<1>6. DataOK' /\ Unsettleable \subseteq Unsettleable' /\ Recorded \subseteq Recorded'
  <2> HIDE DEF o, r
  <2>1. QED BY <1>1, <1>2, <1>3, <1>4, <1>5, ClosingStep
<1>7. QED BY <1>0, <1>6, CommitAndGo DEF CommitCanceled, Label

LEMMA CommitNeverChargedKeeps == ASSUME IInv, NEW a \in Actor, CommitNeverCharged(a) PROVE IInv'
<1> DEFINE o == TheOrder(a)
           k == frame[a].key
           r == Persisted(row[o], "expired", k)
<1>0. frame[a].op \notin {"idle", "request"}
  BY DEF CommitNeverCharged, At
<1>1. k \in Key /\ o \in Order /\ OrderOf[k] = o
  BY <1>0, HandlerOrder DEF TheOrder
<1>2. /\ DataOK /\ row \in [Order -> Row] /\ order[o] \in OrderStatus
      /\ request' \in [Request -> RequestStatus]
      /\ UNCHANGED <<ad, request, toss, hooks, faults>>
  BY <1>1, Split DEF DataOK, CommitNeverCharged
<1>3. CASE Cancelable(o, {"pending"})
  <2>1. row[o].status # "paid"
    BY <1>1, <1>2, <1>3 DEF Cancelable, DataOK, PaidIffPaymentPaid
  <2>2. r \in Row /\ r.status \in {"expired", "canceled"}
        /\ r.key = IF row[o].status = "none" THEN k ELSE row[o].key
    BY <1>1, <1>2, <2>1, PersistedRow DEF RowStatus, Protected, Row
  <2>3. r.key \in KeysOf(o)
    BY <1>1, <1>2, <2>2 DEF KeysOf, DataOK, RowsFit
  <2>4. row' = [row EXCEPT ![o] = r] /\ order' = [order EXCEPT ![o] = "canceled"]
    BY <1>1, <1>2, <1>3 DEF CommitNeverCharged
  <2>5. DataOK' /\ Unsettleable \subseteq Unsettleable' /\ Recorded \subseteq Recorded'
    <3> HIDE DEF o, r
    <3>1. QED BY <1>1, <1>2, <2>2, <2>3, <2>4, ClosingStep
  <2>6. QED BY <1>0, <1>3, <2>5, CommitAndGo DEF CommitNeverCharged, Label
<1>4. CASE ~Cancelable(o, {"pending"})
  <2>1. DataOK' /\ Unsettleable' = Unsettleable /\ Recorded' = Recorded
    BY <1>2, <1>4, QuietStep DEF DataOK, CommitNeverCharged
  <2>2. QED BY <1>0, <1>4, <2>1, CommitAndGo DEF CommitNeverCharged
<1>5. QED BY <1>3, <1>4

LEMMA WriteRefundedKeeps == ASSUME IInv, NEW a \in Actor, WriteRefunded(a) PROVE IInv'
<1> DEFINE o == TheOrder(a)
           r == IF row[o].status = "paid" THEN [row[o] EXCEPT !.refunded = frame[a].n] ELSE row[o]
<1>0. frame[a].op \notin {"idle", "request"} /\ frame[a].op = "PARTIAL_CANCELED" /\ frame[a].at = "write"
  BY DEF WriteRefunded, At
<1>1. o \in Order /\ frame[a].n \in 0..Amount /\ o \in Recorded
  BY <1>0, HandlerOrder DEF FrameFits, TheOrder
<1>2. DataOK /\ row \in [Order -> Row] /\ UNCHANGED <<order, ad, request, toss, hooks, faults>>
  BY Split DEF DataOK, WriteRefunded
<1>3. row' = [row EXCEPT ![o] = r]
  BY <1>1 DEF WriteRefunded, Recorded
<1>4. r \in Row /\ r.status = row[o].status /\ r.key = row[o].key
  BY <1>1, <1>2 DEF Row
<1>5. /\ row' \in [Order -> Row] /\ row'[o].status = row[o].status /\ row'[o].key = row[o].key
      /\ \A q \in Order \ {o} : row'[q] = row[q]
  <2> HIDE DEF o, r
  <2>1. QED BY <1>1, <1>2, <1>3, <1>4
<1>6. Unsettleable' = Unsettleable
  BY <1>2 DEF Unsettleable
<1>7. DataOK' /\ Unsettleable \subseteq Unsettleable' /\ Recorded \subseteq Recorded'
  <2> HIDE DEF o, r
  <2>1. QED BY <1>1, <1>2, <1>5, <1>6, TransactionStep DEF DataOK, RowsFit, PaidIffPaymentPaid
<1>8. QED BY <1>0, <1>7, CommitAndGo DEF WriteRefunded, Label

LEMMA InsertRequestKeeps == ASSUME IInv, NEW a \in Actor, InsertRequest(a) PROVE IInv'
<1>1. DataOK /\ UNCHANGED <<order, ad, row, toss, hooks, faults>>
  BY Split DEF InsertRequest
<1>2. request' \in [Request -> RequestStatus]
  BY <1>1 DEF InsertRequest, DataOK, RequestStatus
<1>3. DataOK' /\ Unsettleable' = Unsettleable /\ Recorded' = Recorded
  BY <1>1, <1>2, QuietStep DEF DataOK
<1>4. QED BY <1>3, CommitStep, IdleFrame DEF InsertRequest, Done

LEMMA RefundCallKeeps == ASSUME IInv, NEW a \in Actor, RefundCall(a) PROVE IInv'
<1> DEFINE k == frame[a].key
<1>0. frame[a].op \notin {"idle", "request"}
  BY DEF RefundCall, At
<1>1. k \in Key
  BY <1>0, HandlerOrder
<1>2. DataOK /\ UNCHANGED <<order, ad, row, request, faults>>
  BY Split DEF RefundCall, db
<1>3. DataOK' /\ Unsettleable' = Unsettleable /\ Recorded' = Recorded
  <2>1. CASE Canceled(k, {"refund"}) /\ Announce(k, "CANCELED", 0)
    <3>1. hooks' \subseteq Event
      BY <1>1, <2>1, EventAnnounced, ConstantsAssumption DEF HookStatus
    <3>2. /\ toss' \in [Key -> TossPayment]
          /\ \A j \in Key : "cancel" \in toss'[j].used => "cancel" \in toss[j].used
      <4> DEFINE t == [status |-> "CANCELED", balance |-> 0, used |-> toss[k].used \cup {"refund"}]
      <4>1. t \in TossPayment /\ ("cancel" \in t.used => "cancel" \in toss[k].used)
        BY <1>1, <1>2, ConstantsAssumption DEF DataOK, TossPayment, TossStatus, IdempotencyKey
      <4>2. toss' = [toss EXCEPT ![k] = t]
        BY <2>1 DEF Canceled
      <4> HIDE DEF t
      <4>3. QED BY <1>1, <1>2, <4>1, <4>2 DEF DataOK
    <3>3. QED BY <1>2, <3>1, <3>2, QuietStep DEF DataOK
  <2>2. CASE UNCHANGED <<toss, hooks>>
    BY <1>2, <2>2, QuietStep DEF DataOK
  <2>3. QED BY <2>1, <2>2 DEF RefundCall
<1>4. Goto(a, "commit") \/ Done(a)
  BY DEF RefundCall
<1>5. QED BY <1>0, <1>3, <1>4, CommitAndGo DEF Label

LEMMA CommitApprovalKeeps == ASSUME IInv, NEW a \in Actor, CommitApproval(a) PROVE IInv'
<1> DEFINE q == frame[a].request
           o == TargetOf[q]
           r == [row[o] EXCEPT !.status = "canceled"]
<1>0. frame[a].op \notin {"idle", "request"} /\ frame[a].op = "approve"
  BY DEF CommitApproval, At
<1>1. q \in Request /\ o \in Order /\ o \in Recorded
  BY <1>0, HandlerOrder, ConstantsAssumption DEF FrameFits
<1>2. DataOK /\ row \in [Order -> Row] /\ UNCHANGED <<ad, toss, hooks, faults>>
  BY Split DEF DataOK, CommitApproval
<1>3. CASE request[q] = "requested"
  <2>1. r \in Row /\ r.status = "canceled" /\ r.key = row[o].key
    BY <1>1, <1>2 DEF Row, RowStatus
  <2>2. r.key \in KeysOf(o)
    BY <1>1, <1>2, <2>1 DEF Recorded, DataOK, RowsFit
  <2>3. row' = [row EXCEPT ![o] = r] /\ order' = [order EXCEPT ![o] = "canceled"]
    BY <1>3 DEF CommitApproval
  <2>4. request' \in [Request -> RequestStatus]
    BY <1>1, <1>2, <1>3 DEF CommitApproval, DataOK, RequestStatus
  <2>5. DataOK' /\ Unsettleable \subseteq Unsettleable' /\ Recorded \subseteq Recorded'
    <3> HIDE DEF o, r
    <3>1. QED BY <1>1, <1>2, <2>1, <2>2, <2>3, <2>4, ClosingStep
  <2>6. QED BY <1>0, <2>5, CommitAndGo DEF CommitApproval
<1>4. CASE request[q] # "requested"
  <2>1. DataOK' /\ Unsettleable' = Unsettleable /\ Recorded' = Recorded
    BY <1>2, <1>4, QuietStep DEF DataOK, CommitApproval
  <2>2. QED BY <1>0, <1>4, <2>1, CommitAndGo DEF CommitApproval
<1>5. QED BY <1>3, <1>4

-----------------------------------------------------------------------------
(* The theorems.                                                           *)

LEMMA StutterKeeps == IInv /\ UNCHANGED vars => IInv'
BY DEF vars, IInv, TypeOK, PaidIffPaymentPaid, RowsFit, FramesFit, Unsettleable, Recorded

LEMMA NextKeeps == IInv /\ [Next]_vars => IInv'
<1>1. SUFFICES ASSUME IInv, Next PROVE IInv'
  BY StutterKeeps
<1>2. CASE Toss
  BY <1>1, <1>2, TossKeeps
<1>3. CASE \E o \in Order : AdLapses(o) \/ CancelPendingByOwner(o)
  BY <1>1, <1>3, AdLapsesKeeps, CancelPendingKeeps
<1>4. CASE \E r \in Request : RejectRefund(r)
  BY <1>1, <1>4, RejectKeeps
<1>5. ASSUME NEW a \in Actor, Start(a) PROVE IInv'
  BY <1>1, <1>5, StartKeeps
<1>6. ASSUME NEW a \in Actor, Progress(a) PROVE IInv'
  BY <1>1, <1>6, ConfirmAnswerKeeps, SettleKeeps, ReadKeeps, DecideKeeps, AcknowledgeKeeps,
     CancelCallKeeps, RecordLocallyKeeps, RecordRefundRetryKeeps, CommitCanceledKeeps,
     CommitNeverChargedKeeps, ReadRowKeeps, WriteRefundedKeeps, InsertRequestKeeps,
     RefundCallKeeps, CommitApprovalKeeps
  DEF Progress
<1>7. ASSUME NEW a \in Actor, RecordFails(a) \/ Fail(a) PROVE IInv'
  BY <1>1, <1>7, RecordFailsKeeps, FaultKeeps
<1>8. QED BY <1>1, <1>2, <1>3, <1>4, <1>5, <1>6, <1>7 DEF Next

\* IInv holds in every reachable state.
THEOREM Invariance == Spec => []IInv
<1>1. Init => IInv
  BY InitFits
<1>2. IInv /\ [Next]_vars => IInv'
  BY NextKeeps
<1>3. QED BY <1>1, <1>2, PTL DEF Spec

\* Every variable keeps its type: in particular no retry count passes the
\* cap of the worker's scan and no refunded amount passes the price.
THEOREM TypeCorrect == Spec => []TypeOK
<1>1. IInv => TypeOK
  BY DEF IInv
<1>2. QED BY <1>1, Invariance, PTL

\* An order is paid exactly when its payment row is, whatever handlers run
\* at the same time and wherever they crash.
THEOREM PaidTogether == Spec => []PaidIffPaymentPaid
<1>1. IInv => PaidIffPaymentPaid
  BY DEF IInv
<1>2. QED BY <1>1, Invariance, PTL

\* No compensation gives back the charge of an order that stays paid.
THEOREM SettledOrderKeepsItsCharge == Spec => []NeverRefundsSettledOrder
<1>1. IInv => NeverRefundsSettledOrder
  BY DEF IInv, RowsFit, Unsettleable, NeverRefundsSettledOrder
<1>2. QED BY <1>1, Invariance, PTL

-----------------------------------------------------------------------------
(* Canceled is final.                                                      *)

Final(o) ==
  /\ row[o].status = "canceled" => row'[o].status = "canceled"
  /\ order[o] = "canceled" => order'[o] = "canceled"

\* The rows a transaction writes with persistPayment.
LEMMA PersistedKeepsCanceled ==
  ASSUME NEW r \in Row, NEW s \in RowStatus \ {"none"}, NEW k \in Key, r.status = "canceled"
  PROVE  Persisted(r, s, k).status = "canceled"
BY PersistedRow DEF Protected, RowStatus

LEMMA ProgressIsFinal ==
  ASSUME IInv, NEW a \in Actor, Progress(a), NEW o \in Order PROVE Final(o)
<1>0. /\ order \in [Order -> OrderStatus] /\ row \in [Order -> Row] /\ row[o] \in Row
      /\ row[o].status = "paid" <=> order[o] = "paid"
  BY Split DEF DataOK, PaidIffPaymentPaid
<1>1. ASSUME NEW s \in RowStatus \ {"none"}, frame[a].op \notin {"idle", "request"},
             row' = [row EXCEPT ![TheOrder(a)] = Persisted(@, s, frame[a].key)]
      PROVE  row[o].status = "canceled" => row'[o].status = "canceled"
  <2>1. frame[a].key \in Key /\ TheOrder(a) \in Order
    BY <1>1, HandlerOrder
  <2>2. QED BY <1>0, <1>1, <2>1, PersistedKeepsCanceled
<1>2. CASE ConfirmAnswer(a) \/ ReadOrder(a) \/ ReadToss(a) \/ Decide(a) \/ Acknowledge(a)
           \/ CancelCall(a) \/ ReadRow(a) \/ RefundCall(a) \/ InsertRequest(a)
  <2>1. UNCHANGED <<order, row>>
    BY <1>2 DEF ConfirmAnswer, AwaitDeposit, ReadOrder, ReadToss, Decide, Acknowledge, CancelCall, ReadRow,
                RefundCall, InsertRequest, db
  <2>2. QED BY <2>1 DEF Final
<1>3. CASE Settle(a)
  <2>1. frame[a].op \notin {"idle", "request"}
    BY <1>3 DEF Settle, At
  <2>2. row[o].status = "canceled" => row'[o].status = "canceled"
    <3>1. CASE row' = [row EXCEPT ![TheOrder(a)] = Persisted(@, "paid", frame[a].key)]
      <4>1. "paid" \in RowStatus \ {"none"}
        BY DEF RowStatus
      <4>2. QED BY <1>1, <2>1, <3>1, <4>1
    <3>2. CASE UNCHANGED row
      BY <3>2
    <3>3. QED BY <1>3, <3>1, <3>2 DEF Settle
  <2>3. order[o] = "canceled" => order'[o] = "canceled"
    BY <1>0, <1>3 DEF Settle, Settleable
  <2>4. QED BY <2>2, <2>3 DEF Final
<1>4. CASE RecordLocally(a)
  <2>1. frame[a].op \notin {"idle", "request"} /\ frame[a].outcome \in {"canceled", "refund_pending"}
    BY <1>4, HandlerOrder DEF RecordLocally, At, FrameFits
  <2>2. row[o].status = "canceled" => row'[o].status = "canceled"
    BY <1>1, <1>4, <2>1 DEF RecordLocally, RowStatus
  <2>3. QED BY <1>0, <1>4, <2>2 DEF RecordLocally, Final
<1>5. CASE RecordRefundRetry(a)
  <2>1. row'[o].status = row[o].status
    BY <1>0, <1>5 DEF RecordRefundRetry, Row
  <2>2. QED BY <1>5, <2>1 DEF RecordRefundRetry, Final
<1>6. CASE CommitCanceled(a)
  <2>1. frame[a].op \notin {"idle", "request"}
    BY <1>6 DEF CommitCanceled, At
  <2>2. QED BY <1>0, <1>1, <1>6, <2>1 DEF CommitCanceled, RowStatus, Final
<1>7. CASE CommitNeverCharged(a)
  <2>1. frame[a].op \notin {"idle", "request"}
    BY <1>7 DEF CommitNeverCharged, At
  <2>2. QED BY <1>0, <1>1, <1>7, <2>1 DEF CommitNeverCharged, RowStatus, Final
<1>8. CASE WriteRefunded(a)
  <2>1. row[o].status = "canceled" => row'[o] = row[o]
    BY <1>0, <1>8 DEF WriteRefunded
  <2>2. QED BY <1>8, <2>1 DEF WriteRefunded, Final
<1>9. CASE CommitApproval(a)
  <2>1. row[o].status = "canceled" => row'[o].status = "canceled"
    BY <1>0, <1>9 DEF CommitApproval, Row
  <2>2. QED BY <1>0, <1>9, <2>1 DEF CommitApproval, Final
<1>10. QED BY <1>2, <1>3, <1>4, <1>5, <1>6, <1>7, <1>8, <1>9 DEF Progress

LEMMA NextIsFinal == IInv /\ [Next]_vars => [\A o \in Order : Final(o)]_vars
<1>1. SUFFICES ASSUME IInv, Next, NEW o \in Order PROVE Final(o)
  OBVIOUS
<1>2. CASE \E q \in Order : AdLapses(q) \/ CancelPendingByOwner(q)
  BY <1>1, <1>2, Split DEF DataOK, AdLapses, CancelPendingByOwner, Final
<1>3. CASE \/ Toss
           \/ \E r \in Request : RejectRefund(r)
           \/ \E a \in Actor : Start(a) \/ RecordFails(a) \/ Fail(a)
  <2>1. UNCHANGED <<order, row>>
    BY <1>3 DEF Toss, TossEnds, TossDeposit, TossPartialCancel, TossFullCancel, RejectRefund,
                Start, StartConfirm, DeliverHook, StartRequest, StartApprove, StartRetry,
                RecordFails, Fail, db
  <2>2. QED BY <2>1 DEF Final
<1>4. QED BY <1>1, <1>2, <1>3, ProgressIsFinal DEF Next

\* No handler, however late, brings back a canceled order or a refunded
\* payment.
THEOREM CanceledStays == Spec => CanceledIsFinal
<1>1. IInv /\ [Next]_vars => [\A o \in Order : Final(o)]_vars
  BY NextIsFinal
<1>2. QED BY <1>1, Invariance, PTL DEF Spec, CanceledIsFinal, Final

-----------------------------------------------------------------------------
(* Charges: what a key has paid for, the rows that rest on it, and what a  *)
(* handler knows of it between its steps.                                  *)

Taken == {"DONE", "PARTIAL_CANCELED", "CANCELED"}
Took(k) == toss[k].status \in Taken
Opened(k) == toss[k].used \cap {"confirm", "deposit"} # {}

\* The Idempotency-Key confirm:{orderId} takes effect on one key of an order,
\* and without it Toss takes no money.
TossFits ==
  /\ \A k \in Key : toss[k].status \in Taken \cup {"WAITING_FOR_DEPOSIT"} => Opened(k)
  /\ \A k \in Key : "confirm" \in toss[k].used => Took(k)
  /\ \A j, k \in Key : OrderOf[j] = OrderOf[k] /\ Opened(j) /\ Opened(k) => j = k

RowsBacked ==
  /\ \A o \in Order : row[o].status = "paid" => Took(row[o].key)
  /\ ApprovedMeansRefunded

Backed(f) ==
  /\ f.sawToss.status \in Taken \/ f.at = "settle" => f.key \in Key /\ Took(f.key)
  /\ f.op = "approve" => f.key = row[TargetOf[f.request]].key
  /\ f.op = "approve" /\ f.at = "commit" => toss[f.key].status = "CANCELED"

ChargeInv == TossFits /\ RowsBacked /\ \A a \in Actor : Backed(frame[a])

LEMMA Charging ==
  ASSUME NEW k \in Key, Took(k)
  PROVE  toss[k].status \notin {"READY", "WAITING_FOR_DEPOSIT"}
BY DEF Took, Taken

\* A change of one key that opens nothing.
LEMMA TossMoves ==
  ASSUME TossFits, toss \in [Key -> TossPayment], NEW k \in Key, NEW t, toss' = [toss EXCEPT ![k] = t],
         t.used \cap {"confirm", "deposit"} = toss[k].used \cap {"confirm", "deposit"},
         t.status \in Taken \cup {"WAITING_FOR_DEPOSIT"} =>
           toss[k].status \in Taken \cup {"WAITING_FOR_DEPOSIT"},
         Took(k) => t.status \in Taken,
         toss[k].status = "CANCELED" => t.status = "CANCELED"
  PROVE  TossFits'
<1>1. toss'[k] = t /\ \A j \in Key \ {k} : toss'[j] = toss[j]
  OBVIOUS
<1>2. \A j \in Key : Opened(j)' <=> Opened(j)
  BY <1>1 DEF Opened
<1>3. \A j \in Key : Took(j) => Took(j)'
  BY <1>1 DEF Took
<1>4. \A j \in Key : toss'[j].status \in Taken \cup {"WAITING_FOR_DEPOSIT"} => Opened(j)'
  BY <1>1, <1>2 DEF TossFits
<1>5. \A j \in Key : "confirm" \in toss'[j].used => Took(j)'
  BY <1>1, <1>3 DEF TossFits
<1> QED BY <1>2, <1>4, <1>5 DEF TossFits

\* The first confirm of an order that Toss answers.
LEMMA TossOpens ==
  ASSUME TossFits, toss \in [Key -> TossPayment], NEW k \in Key, NEW t, toss' = [toss EXCEPT ![k] = t],
         Confirmed(OrderOf[k]) = {}, t.used \cap {"confirm", "deposit"} # {},
         "confirm" \in t.used => t.status \in Taken
  PROVE  TossFits'
<1>1. toss'[k] = t /\ \A j \in Key \ {k} : toss'[j] = toss[j]
  OBVIOUS
<1>2. \A j \in Key : OrderOf[j] = OrderOf[k] => ~Opened(j)
  BY DEF Confirmed, KeysOf, Opened
<1>3. Opened(k)' /\ \A j \in Key \ {k} : Opened(j)' <=> Opened(j)
  BY <1>1 DEF Opened
<1>4. \A j \in Key : toss'[j].status \in Taken \cup {"WAITING_FOR_DEPOSIT"} => Opened(j)'
  BY <1>1, <1>3 DEF TossFits
<1>5. \A j \in Key : "confirm" \in toss'[j].used => Took(j)'
  BY <1>1 DEF TossFits, Took
<1>6. ASSUME NEW i \in Key, NEW j \in Key, OrderOf[i] = OrderOf[j], Opened(i)', Opened(j)' PROVE i = j
  BY <1>2, <1>3, <1>6 DEF TossFits
<1> QED BY <1>4, <1>5, <1>6 DEF TossFits

\* Money once taken was taken, and money given back is gone.
Lasts(k) == /\ Took(k) => Took(k)'
            /\ toss[k].status = "CANCELED" => toss'[k].status = "CANCELED"

LEMMA OneKeyLasts ==
  ASSUME toss \in [Key -> TossPayment], NEW k \in Key, NEW t, toss' = [toss EXCEPT ![k] = t],
         Took(k) => t.status \in Taken, toss[k].status = "CANCELED" => t.status = "CANCELED"
  PROVE  \A j \in Key : Lasts(j)
BY DEF Lasts, Took

LEMMA TossStays ==
  ASSUME TossFits, UNCHANGED toss
  PROVE  TossFits' /\ \A k \in Key : Lasts(k)
BY DEF TossFits, Opened, Took, Lasts

LEMMA CancelMoves ==
  ASSUME TossFits, toss \in [Key -> TossPayment], NEW k \in Key, Charged(k),
         NEW used \in SUBSET {"cancel", "refund"}, Canceled(k, used)
  PROVE  TossFits' /\ (\A j \in Key : Lasts(j)) /\ toss'[k].status = "CANCELED"
<1>1. PICK t : t = [status |-> "CANCELED", balance |-> 0, used |-> toss[k].used \cup used]
  OBVIOUS
<1>2. toss' = [toss EXCEPT ![k] = t] /\ t.status = "CANCELED" /\ t.used = toss[k].used \cup used
  BY <1>1 DEF Canceled
<1>3. toss[k].status \in Taken /\ "CANCELED" \in Taken
  BY DEF Charged, Taken
<1>4. t.used \cap {"confirm", "deposit"} = toss[k].used \cap {"confirm", "deposit"}
  BY <1>2
<1>5. TossFits'
  BY <1>2, <1>3, <1>4, TossMoves
<1>6. \A j \in Key : Lasts(j)
  BY <1>2, <1>3, OneKeyLasts
<1> QED BY <1>2, <1>5, <1>6

LEMMA TossChargesFit ==
  ASSUME TossFits, toss \in [Key -> TossPayment], Toss
  PROVE  TossFits' /\ \A k \in Key : Lasts(k)
<1>1. ASSUME NEW k \in Key, NEW s \in {"ABORTED", "EXPIRED"}, TossEnds(k, s)
      PROVE  TossFits' /\ \A j \in Key : Lasts(j)
  <2>1. PICK t : t = [toss[k] EXCEPT !.status = s]
    OBVIOUS
  <2>2. t.status = s /\ t.used = toss[k].used /\ toss' = [toss EXCEPT ![k] = t]
    BY <1>1, <2>1 DEF TossEnds, TossPayment
  <2>3. ~Took(k) /\ toss[k].status # "CANCELED" /\ s \notin Taken \cup {"WAITING_FOR_DEPOSIT"}
    BY <1>1 DEF TossEnds, Took, Taken
  <2> QED BY <2>2, <2>3, TossMoves, OneKeyLasts
<1>2. ASSUME NEW k \in Key, TossDeposit(k) PROVE TossFits' /\ \A j \in Key : Lasts(j)
  <2>1. PICK t : t = [toss[k] EXCEPT !.status = "DONE"]
    OBVIOUS
  <2>2. t.status = "DONE" /\ t.used = toss[k].used /\ toss' = [toss EXCEPT ![k] = t]
    BY <1>2, <2>1 DEF TossDeposit, TossPayment
  <2>3. toss[k].status = "WAITING_FOR_DEPOSIT" /\ "DONE" \in Taken
    BY <1>2 DEF TossDeposit, Taken
  <2> QED BY <2>2, <2>3, TossMoves, OneKeyLasts
<1>3. ASSUME NEW k \in Key, TossPartialCancel(k) PROVE TossFits' /\ \A j \in Key : Lasts(j)
  <2>1. PICK t : t = [toss[k] EXCEPT !.status = "PARTIAL_CANCELED", !.balance = @ - 1]
    OBVIOUS
  <2>2. t.status = "PARTIAL_CANCELED" /\ t.used = toss[k].used /\ toss' = [toss EXCEPT ![k] = t]
    BY <1>3, <2>1 DEF TossPartialCancel, TossPayment
  <2>3. toss[k].status \in Taken \ {"CANCELED"} /\ "PARTIAL_CANCELED" \in Taken
    BY <1>3 DEF TossPartialCancel, Charged, Taken
  <2> QED BY <2>2, <2>3, TossMoves, OneKeyLasts
<1>4. ASSUME NEW k \in Key, TossFullCancel(k) PROVE TossFits' /\ \A j \in Key : Lasts(j)
  BY <1>4, CancelMoves DEF TossFullCancel
<1> QED BY <1>1, <1>2, <1>3, <1>4 DEF Toss

\* A payment row names one key for good.
KeysLast == \A o \in Order : row[o].status # "none" => row'[o].key = row[o].key

\* The handler of frame f has gone on to g and has learned nothing of Toss.
Follows(f, g) ==
  /\ g.op = f.op /\ g.key = f.key /\ g.request = f.request /\ g.sawToss = f.sawToss
  /\ g.at # "settle"
  /\ g.op = "approve" => g.at # "commit"

LEMMA BackedLasts ==
  ASSUME IInv, KeysLast, \A k \in Key : Lasts(k),
         NEW f \in Frame, FrameFits(f, Unsettleable, Recorded), Backed(f), NEW g, g = f \/ Follows(f, g)
  PROVE  Backed(g)'
<1>1. f.sawToss.status \in Taken \/ f.at = "settle" => f.key \in Key /\ Took(f.key)'
  BY DEF Backed, Lasts
<1>2. ASSUME f.op = "approve" PROVE f.key = row'[TargetOf[f.request]].key
  <2>1. TargetOf[f.request] \in Recorded
    BY <1>2 DEF FrameFits
  <2> QED BY <1>2, <2>1 DEF Backed, KeysLast, Recorded
<1>3. ASSUME f.op = "approve", f.at = "commit" PROVE toss'[f.key].status = "CANCELED"
  <2>1. f.key \in Key
    BY <1>3 DEF FrameFits
  <2> QED BY <1>3, <2>1 DEF Backed, Lasts
<1> QED BY <1>1, <1>2, <1>3 DEF Backed, Follows

LEMMA IdleBacked == Backed(Idle)'
BY DEF Backed, Idle, Unread, Taken

LEMMA FramesBacked ==
  ASSUME IInv, ChargeInv, KeysLast, \A k \in Key : Lasts(k), NEW a \in Actor, NEW g, Become(a, g), Backed(g)'
  PROVE  \A b \in Actor : Backed(frame[b])'
<1>1. frame' = [frame EXCEPT ![a] = g] /\ frame \in [Actor -> Frame] /\ FramesFit
  BY Split DEF Become
<1>2. ASSUME NEW b \in Actor PROVE Backed(frame[b])'
  <2>1. CASE b = a
    BY <1>1, <2>1 DEF Backed
  <2>2. CASE b # a
    <3>1. PICK f \in Frame : f = frame[b]
      BY <1>1
    <3>2. frame'[b] = f
      BY <1>1, <2>2, <3>1
    <3>3. FrameFits(f, Unsettleable, Recorded) /\ Backed(f)
      BY <1>1, <3>1 DEF FramesFit, ChargeInv
    <3>4. Backed(f)'
      BY <3>3, BackedLasts
    <3> QED BY <3>2, <3>4 DEF Backed
  <2> QED BY <2>1, <2>2
<1> QED BY <1>2

LEMMA RowsStayBacked ==
  ASSUME IInv, RowsBacked, KeysLast, \A k \in Key : Lasts(k), \A o \in Order : Final(o),
         \A o \in Order : row'[o].status = "paid" => row[o].status = "paid" \/ Took(row[o].key)',
         \A r \in Request : request'[r] = "approved" =>
           \/ request[r] = "approved"
           \/ LET o == TargetOf[r] IN /\ order'[o] = "canceled" /\ row'[o].status = "canceled"
                                      /\ toss'[row'[o].key].status = "CANCELED"
  PROVE  RowsBacked'
<1>1. \A o \in Order : row[o].status # "none" => row[o].key \in Key
  BY Split DEF DataOK, RowsFit, KeysOf
<1>2. ASSUME NEW o \in Order, row'[o].status = "paid" PROVE Took(row[o].key)'
  BY <1>1, <1>2 DEF RowsBacked, KeysLast, Lasts, Took
<1>3. ASSUME NEW r \in Request, request'[r] = "approved"
      PROVE  LET o == TargetOf[r] IN /\ order'[o] = "canceled" /\ row'[o].status = "canceled"
                                     /\ toss'[row'[o].key].status = "CANCELED"
  <2>1. TargetOf[r] \in Order
    BY ConstantsAssumption
  <2> QED BY <1>1, <1>3, <2>1 DEF RowsBacked, ApprovedMeansRefunded, KeysLast, Lasts, Final
<1> QED BY <1>2, <1>3 DEF RowsBacked, ApprovedMeansRefunded

LEMMA HandlerChargesFit ==
  ASSUME IInv, TossFits, NEW a \in Actor, Progress(a)
  PROVE  TossFits' /\ \A k \in Key : Lasts(k)
<1>0. toss \in [Key -> TossPayment]
  BY Split DEF DataOK
<1>1. CASE ConfirmAnswer(a)
  <2>1. PICK k \in Key : k = frame[a].key
    BY <1>1, HandlerOrder DEF ConfirmAnswer, At
  <2>2. ASSUME Confirmed(OrderOf[k]) = {}, toss[k].status = "READY", NEW s \in {"DONE", "WAITING_FOR_DEPOSIT"},
               toss' = [toss EXCEPT ![k].status = s,
                                    ![k].used = @ \cup {IF s = "DONE" THEN "confirm" ELSE "deposit"}]
        PROVE  TossFits' /\ \A j \in Key : Lasts(j)
    <3>1. PICK t : t = [toss[k] EXCEPT !.status = s, !.used = @ \cup {IF s = "DONE" THEN "confirm" ELSE "deposit"}]
      OBVIOUS
    <3>2. /\ toss' = [toss EXCEPT ![k] = t] /\ t.status = s
          /\ t.used = toss[k].used \cup {IF s = "DONE" THEN "confirm" ELSE "deposit"}
      BY <1>0, <2>2, <3>1 DEF TossPayment
    <3>3. "confirm" \notin toss[k].used /\ ~Took(k) /\ "DONE" \in Taken
      BY <2>2 DEF Took, Taken, TossFits
    <3>4. t.used \cap {"confirm", "deposit"} # {} /\ ("confirm" \in t.used => t.status \in Taken)
      BY <3>2, <3>3
    <3> QED BY <1>0, <2>2, <3>2, <3>3, <3>4, TossOpens, OneKeyLasts
  <2>3. CASE UNCHANGED toss
    BY <2>3, TossStays
  <2> QED BY <1>1, <2>1, <2>2, <2>3 DEF ConfirmAnswer, AwaitDeposit
<1>2. CASE CancelCall(a) \/ RefundCall(a)
  <2>1. frame[a].key \in Key
    BY <1>2, HandlerOrder DEF CancelCall, RefundCall, At
  <2>2. CASE UNCHANGED toss
    BY <2>2, TossStays
  <2> QED BY <1>0, <1>2, <2>1, <2>2, CancelMoves DEF CancelCall, RefundCall
<1>3. CASE UNCHANGED toss
  BY <1>3, TossStays
<1> QED BY <1>1, <1>2, <1>3
        DEF Progress, Settle, ReadOrder, ReadToss, Decide, Acknowledge, RecordLocally, RecordRefundRetry,
            CommitCanceled, CommitNeverCharged, ReadRow, WriteRefunded, InsertRequest, CommitApproval

LEMMA PersistedBacked ==
  ASSUME IInv, NEW a \in Actor, frame[a].op \notin {"idle", "request"}, NEW s \in RowStatus \ {"none"},
         NEW k, k = frame[a].key, s = "paid" => Took(k)' /\ RowStatus \subseteq Protected(s),
         row' = [row EXCEPT ![TheOrder(a)] = Persisted(@, s, frame[a].key)]
  PROVE  /\ KeysLast
         /\ \A o \in Order : row'[o].status = "paid" => row[o].status = "paid" \/ Took(row[o].key)'
<1>0. row \in [Order -> Row] /\ TheOrder(a) \in Order /\ k \in Key
  BY HandlerOrder, Split DEF DataOK
<1>1. PICK p : p = Persisted(row[TheOrder(a)], s, frame[a].key)
  OBVIOUS
<1>2. row' = [row EXCEPT ![TheOrder(a)] = p]
  BY <1>1
<1>3. /\ p.status = IF row[TheOrder(a)].status = "none" \/ row[TheOrder(a)].status \notin Protected(s)
                    THEN s ELSE row[TheOrder(a)].status
      /\ p.key = IF row[TheOrder(a)].status = "none" THEN k ELSE row[TheOrder(a)].key
  BY <1>0, <1>1, PersistedRow
<1>4. row[TheOrder(a)].status \in RowStatus
  BY <1>0 DEF Row
<1>5. KeysLast
  BY <1>0, <1>2, <1>3 DEF KeysLast
<1>6. ASSUME p.status = "paid", row[TheOrder(a)].status # "paid" PROVE p.key = k /\ Took(k)'
  <2>1. s = "paid"
    BY <1>3, <1>6
  <2>2. row[TheOrder(a)].status = "none"
    BY <1>3, <1>4, <1>6, <2>1
  <2> QED BY <1>3, <2>1, <2>2
<1> QED BY <1>0, <1>2, <1>5, <1>6 DEF Took

LEMMA HandlerRows ==
  ASSUME IInv, ChargeInv, NEW a \in Actor, Progress(a), \A k \in Key : Lasts(k)
  PROVE  /\ KeysLast
         /\ \A o \in Order : row'[o].status = "paid" => row[o].status = "paid" \/ Took(row[o].key)'
<1> DEFINE Goal == /\ KeysLast
                   /\ \A o \in Order : row'[o].status = "paid" => row[o].status = "paid" \/ Took(row[o].key)'
<1>0. row \in [Order -> Row] /\ ConstantsAssumption
  BY Split, ConstantsAssumption DEF DataOK
<1>1. CASE UNCHANGED row
  BY <1>1 DEF KeysLast
<1>2. ASSUME NEW s \in {"expired", "canceled", "refund_pending"}, frame[a].op \notin {"idle", "request"},
             row' = [row EXCEPT ![TheOrder(a)] = Persisted(@, s, frame[a].key)]
      PROVE  Goal
  BY <1>2, PersistedBacked DEF RowStatus
<1>3. CASE Settle(a)
  <2>0. PICK k : k = frame[a].key
    OBVIOUS
  <2>1. frame[a].op \notin {"idle", "request"} /\ Took(k)'
    BY <1>3, <2>0 DEF Settle, At, ChargeInv, Backed, Lasts
  <2>2. CASE row' = [row EXCEPT ![TheOrder(a)] = Persisted(@, "paid", frame[a].key)]
    BY <2>0, <2>1, <2>2, PersistedBacked DEF RowStatus, Protected
  <2> QED BY <1>1, <1>3, <2>2 DEF Settle
<1>4. CASE RecordLocally(a)
  <2>1. frame[a].op \notin {"idle", "request"} /\ frame[a].at = "record"
    BY <1>4 DEF RecordLocally, At
  <2>2. frame[a].outcome \in {"canceled", "refund_pending"}
    BY <2>1, HandlerOrder DEF FrameFits
  <2> QED BY <1>2, <1>4, <2>1, <2>2 DEF RecordLocally
<1>5. CASE CommitCanceled(a) \/ CommitNeverCharged(a)
  <2>1. frame[a].op \notin {"idle", "request"}
    BY <1>5 DEF CommitCanceled, CommitNeverCharged, At
  <2> QED BY <1>1, <1>2, <1>5, <2>1 DEF CommitCanceled, CommitNeverCharged
<1>6. CASE RecordRefundRetry(a)
  <2>1. \A o \in Order : row'[o].status = row[o].status /\ row'[o].key = row[o].key
    BY <1>0, <1>6 DEF RecordRefundRetry, Row
  <2> QED BY <2>1 DEF KeysLast
<1>7. CASE WriteRefunded(a)
  <2>1. frame[a].op \notin {"idle", "request"} /\ frame[a].op = "PARTIAL_CANCELED" /\ frame[a].at = "write"
    BY <1>7 DEF WriteRefunded, At
  <2>2. TheOrder(a) \in Recorded
    BY <2>1, HandlerOrder DEF FrameFits, TheOrder
  <2>3. \A o \in Order : row'[o].status = row[o].status /\ row'[o].key = row[o].key
    BY <1>0, <1>7, <2>2 DEF WriteRefunded, Recorded, Row
  <2> QED BY <2>3 DEF KeysLast
<1>8. CASE CommitApproval(a)
  <2>1. \A o \in Order : /\ row'[o].key = row[o].key
                         /\ row'[o].status = row[o].status \/ row'[o].status = "canceled"
    BY <1>0, <1>8 DEF CommitApproval, Row
  <2> QED BY <2>1 DEF KeysLast
<1> QED BY <1>1, <1>3, <1>4, <1>5, <1>6, <1>7, <1>8
        DEF Progress, ConfirmAnswer, AwaitDeposit, ReadOrder, ReadToss, Decide, Acknowledge, CancelCall, ReadRow,
            RefundCall, InsertRequest, db

LEMMA HandlerFrame ==
  ASSUME IInv, ChargeInv, NEW a \in Actor, Progress(a), KeysLast, \A k \in Key : Lasts(k)
  PROVE  \E g : Become(a, g) /\ Backed(g)'
<1>0. frame[a] \in Frame /\ FrameFits(frame[a], Unsettleable, Recorded) /\ Backed(frame[a])
  BY Split DEF FramesFit, ChargeInv
<1>1. PICK f \in Frame : f = frame[a]
  BY <1>0
<1>2. ASSUME NEW g, Become(a, g), g = Idle \/ Follows(f, g) PROVE \E h : Become(a, h) /\ Backed(h)'
  BY <1>0, <1>1, <1>2, BackedLasts, IdleBacked
<1>3. ASSUME NEW l, Goto(a, l), l # "settle", f.op = "approve" => l # "commit"
      PROVE  \E h : Become(a, h) /\ Backed(h)'
  <2>1. PICK g : g = [f EXCEPT !.at = l]
    OBVIOUS
  <2>2. g.op = f.op /\ g.key = f.key /\ g.request = f.request /\ g.sawToss = f.sawToss /\ g.at = l
    BY <2>1 DEF Frame
  <2> QED BY <1>1, <1>2, <1>3, <2>1, <2>2 DEF Goto, Follows
<1>4. CASE Done(a)
  BY <1>2, <1>4 DEF Done
<1>5. ASSUME Goto(a, "settle"), f.key \in Key, Took(f.key)', f.op # "approve"
      PROVE  \E h : Become(a, h) /\ Backed(h)'
  <2>1. PICK g : g = [f EXCEPT !.at = "settle"]
    OBVIOUS
  <2>2. g.op = f.op /\ g.key = f.key /\ g.at = "settle"
    BY <2>1 DEF Frame
  <2>3. Backed(g)'
    BY <1>5, <2>2 DEF Backed
  <2> QED BY <1>1, <1>5, <2>1, <2>3 DEF Goto
<1>6. CASE ConfirmAnswer(a)
  <2>1. f.op = "confirm" /\ f.key \in Key
    BY <1>1, <1>6, HandlerOrder DEF ConfirmAnswer, At
  <2>2. ASSUME toss' = [toss EXCEPT ![f.key].status = "DONE", ![f.key].used = @ \cup {"confirm"}]
        PROVE  Took(f.key)'
    BY <2>1, <2>2, Split DEF DataOK, TossPayment, Took, Taken
  <2>3. toss[f.key].status = "DONE" => Took(f.key)'
    BY <2>1 DEF Lasts, Took, Taken
  <2>4. ASSUME NEW c \in Confirmed(OrderOf[f.key]), "confirm" \in toss[c].used,
               Become(a, [f EXCEPT !.at = "settle", !.key = c])
        PROVE  \E h : Become(a, h) /\ Backed(h)'
    <3>1. PICK g : g = [f EXCEPT !.at = "settle", !.key = c]
      OBVIOUS
    <3>2. g.op = f.op /\ g.key = c /\ g.at = "settle" /\ c \in Key
      BY <3>1 DEF Frame, Confirmed, KeysOf
    <3>3. Took(c)'
      BY <2>4, <3>2 DEF ChargeInv, TossFits, Lasts
    <3>4. Backed(g)'
      BY <2>1, <3>2, <3>3 DEF Backed
    <3> QED BY <2>4, <3>1, <3>4
  <2> QED BY <1>1, <1>4, <1>5, <1>6, <2>1, <2>2, <2>3, <2>4 DEF ConfirmAnswer, AwaitDeposit
<1>7. CASE Settle(a)
  BY <1>1, <1>3, <1>4, <1>7 DEF Settle, AfterCommit, At
<1>8. CASE ReadOrder(a)
  <2>1. PICK g : g = [f EXCEPT !.sawOrder = order[TheOrder(a)]]
    OBVIOUS
  <2>2. f.at = "read" /\ Become(a, g)
    BY <1>1, <1>8, <2>1 DEF ReadOrder, At
  <2>3. Follows(f, g)
    BY <2>1, <2>2 DEF Follows, Frame
  <2> QED BY <1>2, <2>2, <2>3
<1>9. CASE ReadToss(a)
  <2>1. f.op \in HookStatus /\ f.at = "read" /\ f.key \in Key
    BY <1>1, <1>9, HandlerOrder DEF ReadToss, At, HookStatus
  <2>2. PICK g : g = [f EXCEPT !.sawToss = [status |-> toss[f.key].status, balance |-> toss[f.key].balance]]
    OBVIOUS
  <2>3. g.op = f.op /\ g.key = f.key /\ g.at = "read" /\ g.sawToss.status = toss[f.key].status
    BY <2>1, <2>2 DEF Frame
  <2>4. Backed(g)'
    BY <2>1, <2>3 DEF Backed, Took, Lasts, HookStatus
  <2> QED BY <1>1, <1>9, <2>2, <2>4 DEF ReadToss
<1>10. CASE Decide(a)
  <2>1. f.op \in HookStatus /\ f.op # "approve" /\ f.key \in Key
    BY <1>1, <1>10, HandlerOrder DEF Decide, At, HookStatus
  <2>2. PICK v : v = Verdict(f.op, f.sawOrder, f.sawToss.status)
    OBVIOUS
  <2>3. v = "settle" => f.sawToss.status = "DONE"
    BY <2>2 DEF Verdict
  <2>4. v = "settle" => Took(f.key)'
    BY <1>0, <1>1, <2>1, <2>3 DEF Backed, Taken, Lasts
  <2>5. Done(a) \/ Goto(a, v)
    BY <1>1, <1>10, <2>2 DEF Decide
  <2> QED BY <1>3, <1>4, <1>5, <2>1, <2>4, <2>5
<1>11. CASE CancelCall(a)
  <2>1. f.op \in {"confirm", "DONE", "retry"}
    BY <1>1, <1>11 DEF CancelCall, At
  <2>2. ASSUME NEW x, Become(a, [f EXCEPT !.at = "record", !.outcome = x])
        PROVE  \E h : Become(a, h) /\ Backed(h)'
    <3>1. PICK g : g = [f EXCEPT !.at = "record", !.outcome = x]
      OBVIOUS
    <3>2. Follows(f, g)
      BY <3>1 DEF Follows, Frame
    <3> QED BY <1>2, <2>2, <3>1, <3>2
  <2>3. ASSUME NEW answered, AfterCancel(a, answered) PROVE \E h : Become(a, h) /\ Backed(h)'
    BY <1>1, <1>3, <2>2, <2>3 DEF AfterCancel
  <2> QED BY <1>11, <2>3 DEF CancelCall
<1>12. CASE RecordLocally(a)
  BY <1>1, <1>3, <1>4, <1>12 DEF RecordLocally, AfterRecord, At
<1>13. CASE Acknowledge(a) \/ RecordRefundRetry(a) \/ InsertRequest(a) \/ CommitApproval(a)
  BY <1>4, <1>13 DEF Acknowledge, RecordRefundRetry, InsertRequest, CommitApproval
<1>14. CASE CommitCanceled(a) \/ CommitNeverCharged(a) \/ WriteRefunded(a)
  BY <1>3, <1>4, <1>14 DEF CommitCanceled, CommitNeverCharged, WriteRefunded
<1>15. CASE ReadRow(a)
  <2>1. PICK g : g = [f EXCEPT !.at = "write", !.n = Amount - f.sawToss.balance]
    OBVIOUS
  <2>2. Done(a) \/ Goto(a, "ack") \/ Become(a, g)
    BY <1>1, <1>15, <2>1 DEF ReadRow
  <2>3. Follows(f, g)
    BY <2>1 DEF Follows, Frame
  <2> QED BY <1>2, <1>3, <1>4, <2>2, <2>3
<1>16. CASE RefundCall(a)
  <2>1. f.op = "approve" /\ f.key \in Key
    BY <1>1, <1>16, HandlerOrder DEF RefundCall, At
  <2>2. ASSUME Goto(a, "commit"), toss'[f.key].status = "CANCELED" PROVE \E h : Become(a, h) /\ Backed(h)'
    <3>1. PICK g : g = [f EXCEPT !.at = "commit"]
      OBVIOUS
    <3>2. g.op = f.op /\ g.key = f.key /\ g.request = f.request /\ g.sawToss = f.sawToss /\ g.at = "commit"
      BY <3>1 DEF Frame
    <3>3. Backed(f)'
      BY <1>0, <1>1, BackedLasts
    <3>4. Backed(g)'
      BY <2>2, <3>2, <3>3 DEF Backed
    <3> QED BY <1>1, <2>2, <3>1, <3>4 DEF Goto
  <2>3. CASE Done(a)
    BY <1>4, <2>3
  <2>4. CASE Goto(a, "commit") /\ toss[f.key].status = "CANCELED"
    BY <2>1, <2>2, <2>4 DEF Lasts
  <2>5. CASE Goto(a, "commit") /\ Canceled(f.key, {"refund"})
    <3>1. toss'[f.key].status = "CANCELED"
      BY <2>1, <2>5, Split DEF DataOK, Canceled
    <3> QED BY <2>2, <2>5, <3>1
  <2> QED BY <1>1, <1>16, <2>3, <2>4, <2>5 DEF RefundCall
<1> QED BY <1>6, <1>7, <1>8, <1>9, <1>10, <1>11, <1>12, <1>13, <1>14, <1>15, <1>16 DEF Progress

LEMMA ProgressChargesFit ==
  ASSUME IInv, ChargeInv, NEW a \in Actor, Progress(a)
  PROVE  ChargeInv'
<1>1. TossFits' /\ \A k \in Key : Lasts(k)
  BY HandlerChargesFit DEF ChargeInv
<1>2. /\ KeysLast
      /\ \A o \in Order : row'[o].status = "paid" => row[o].status = "paid" \/ Took(row[o].key)'
  BY <1>1, HandlerRows
<1>3. \A b \in Actor : Backed(frame[b])'
  BY <1>1, <1>2, HandlerFrame, FramesBacked
<1>4. ASSUME NEW r \in Request, request'[r] = "approved"
      PROVE  \/ request[r] = "approved"
             \/ LET o == TargetOf[r] IN /\ order'[o] = "canceled" /\ row'[o].status = "canceled"
                                        /\ toss'[row'[o].key].status = "CANCELED"
  <2>0. /\ order \in [Order -> OrderStatus] /\ row \in [Order -> Row] /\ request \in [Request -> RequestStatus]
        /\ TargetOf[r] \in Order
    BY Split, ConstantsAssumption DEF DataOK
  <2>1. CASE CommitApproval(a)
    <3>1. CASE r = frame[a].request /\ request[r] = "requested"
      <4>1. /\ row' = [row EXCEPT ![TargetOf[r]].status = "canceled"]
            /\ order' = [order EXCEPT ![TargetOf[r]] = "canceled"] /\ UNCHANGED toss
            /\ frame[a].op = "approve" /\ frame[a].at = "commit"
        BY <2>1, <3>1 DEF CommitApproval, At
      <4>2. order'[TargetOf[r]] = "canceled" /\ row'[TargetOf[r]].status = "canceled"
            /\ row'[TargetOf[r]].key = row[TargetOf[r]].key
        BY <2>0, <4>1 DEF Row
      <4>3. frame[a].key = row[TargetOf[r]].key /\ toss[frame[a].key].status = "CANCELED"
        BY <3>1, <4>1 DEF ChargeInv, Backed
      <4> QED BY <4>1, <4>2, <4>3
    <3>2. CASE r # frame[a].request \/ request[r] # "requested"
      BY <1>4, <2>0, <2>1, <3>2 DEF CommitApproval
    <3> QED BY <3>1, <3>2
  <2>2. CASE ~CommitApproval(a)
    <3>1. CASE UNCHANGED request
      BY <1>4, <3>1
    <3>2. CASE InsertRequest(a)
      BY <1>4, <2>0, <3>2 DEF InsertRequest
    <3> QED BY <2>2, <3>1, <3>2
            DEF Progress, ConfirmAnswer, ReadOrder, ReadToss, Decide, Acknowledge, CancelCall, ReadRow, RefundCall,
                Settle, RecordLocally, RecordRefundRetry, CommitCanceled, CommitNeverCharged, WriteRefunded, db
  <2> QED BY <2>1, <2>2
<1>5. RowsBacked'
  BY <1>1, <1>2, <1>4, ProgressIsFinal, RowsStayBacked DEF ChargeInv
<1> QED BY <1>1, <1>3, <1>5 DEF ChargeInv

\* Steps that no handler in flight takes change no row and no approval.
LEMMA OthersBacked ==
  ASSUME IInv, ChargeInv, TossFits', \A k \in Key : Lasts(k), UNCHANGED row,
         \A o \in Order : order[o] = "canceled" => order'[o] = "canceled",
         \A r \in Request : request'[r] = "approved" => request[r] = "approved",
         \/ UNCHANGED frame
         \/ \E a \in Actor : \E g : Become(a, g) /\ (g = Idle \/ Follows(frame[a], g) \/ Backed(g)')
  PROVE  ChargeInv'
<1>1. KeysLast /\ \A o \in Order : Final(o)
  BY DEF KeysLast, Final
<1>2. RowsBacked'
  BY <1>1, RowsStayBacked DEF ChargeInv
<1>3. CASE UNCHANGED frame
  <2>1. ASSUME NEW b \in Actor PROVE Backed(frame[b])'
    <3>1. PICK f \in Frame : f = frame[b]
      BY Split
    <3>2. FrameFits(f, Unsettleable, Recorded) /\ Backed(f)
      BY <3>1, Split DEF FramesFit, ChargeInv
    <3>3. Backed(f)'
      BY <1>1, <3>2, BackedLasts
    <3> QED BY <1>3, <3>1, <3>3 DEF Backed
  <2> QED BY <1>2, <2>1 DEF ChargeInv
<1>4. ASSUME NEW a \in Actor, NEW g, Become(a, g), g = Idle \/ Follows(frame[a], g) \/ Backed(g)'
      PROVE  ChargeInv'
  <2>1. PICK f \in Frame : f = frame[a]
    BY Split
  <2>2. FrameFits(f, Unsettleable, Recorded) /\ Backed(f)
    BY <2>1, Split DEF FramesFit, ChargeInv
  <2>3. Backed(g)'
    BY <1>1, <1>4, <2>1, <2>2, BackedLasts, IdleBacked
  <2>4. \A b \in Actor : Backed(frame[b])'
    BY <1>1, <1>4, <2>3, FramesBacked
  <2> QED BY <1>2, <2>4 DEF ChargeInv
<1> QED BY <1>3, <1>4

LEMMA StartBacked ==
  ASSUME IInv, NEW a \in Actor, Start(a)
  PROVE  \E g : Become(a, g) /\ Backed(g)'
<1>1. UNCHANGED <<row, toss>>
  BY DEF Start, StartConfirm, DeliverHook, StartRequest, StartApprove, StartRetry, db
<1>2. ASSUME NEW r \in Request, StartApprove(a, r) PROVE \E g : Become(a, g) /\ Backed(g)'
  <2>1. PICK g : g = [Idle EXCEPT !.op = "approve", !.at = "call", !.key = row[TargetOf[r]].key, !.request = r]
    OBVIOUS
  <2>2. g.op = "approve" /\ g.at = "call" /\ g.key = row[TargetOf[r]].key /\ g.request = r /\ g.sawToss = Unread
    BY <2>1 DEF Idle
  <2>3. Backed(g)'
    BY <1>1, <2>2 DEF Backed, Unread, Taken
  <2> QED BY <1>2, <2>1, <2>3 DEF StartApprove
<1>3. ASSUME NEW g, Become(a, g), g.sawToss = Unread, g.at # "settle", g.op # "approve"
      PROVE  \E h : Become(a, h) /\ Backed(h)'
  BY <1>3 DEF Backed, Unread, Taken
<1>4. ASSUME NEW k \in Key, StartConfirm(a, k) PROVE \E g : Become(a, g) /\ Backed(g)'
  <2>1. PICK g : g = [Idle EXCEPT !.op = "confirm", !.at = "call", !.key = k]
    OBVIOUS
  <2>2. g.op = "confirm" /\ g.at = "call" /\ g.sawToss = Unread
    BY <2>1 DEF Idle
  <2> QED BY <1>3, <1>4, <2>1, <2>2 DEF StartConfirm
<1>5. ASSUME NEW e \in hooks, DeliverHook(a, e) PROVE \E g : Become(a, g) /\ Backed(g)'
  <2>1. PICK g : g = [Idle EXCEPT !.op = e.status, !.at = "read", !.key = e.key, !.event = e]
    OBVIOUS
  <2>2. e.status \in HookStatus
    BY Split DEF DataOK, Event
  <2>3. g.op # "approve" /\ g.at = "read" /\ g.sawToss = Unread
    BY <2>1, <2>2 DEF Idle, HookStatus
  <2> QED BY <1>3, <1>5, <2>1, <2>3 DEF DeliverHook
<1>6. ASSUME NEW r \in Request, StartRequest(a, r) PROVE \E g : Become(a, g) /\ Backed(g)'
  <2>1. PICK g : g = [Idle EXCEPT !.op = "request", !.at = "write", !.request = r]
    OBVIOUS
  <2>2. g.op = "request" /\ g.at = "write" /\ g.sawToss = Unread
    BY <2>1 DEF Idle
  <2> QED BY <1>3, <1>6, <2>1, <2>2 DEF StartRequest
<1>7. ASSUME NEW o \in Order, StartRetry(a, o) PROVE \E g : Become(a, g) /\ Backed(g)'
  <2>1. PICK g : g = [Idle EXCEPT !.op = "retry", !.at = "cancel", !.key = row[o].key, !.n = row[o].attempts]
    OBVIOUS
  <2>2. g.op = "retry" /\ g.at = "cancel" /\ g.sawToss = Unread
    BY <2>1 DEF Idle
  <2> QED BY <1>3, <1>7, <2>1, <2>2 DEF StartRetry
<1> QED BY <1>2, <1>4, <1>5, <1>6, <1>7 DEF Start

LEMMA NextChargesFit == IInv /\ ChargeInv /\ [Next]_vars => ChargeInv'
<1> SUFFICES ASSUME IInv, ChargeInv, [Next]_vars PROVE ChargeInv'
  OBVIOUS
<1>0. /\ order \in [Order -> OrderStatus] /\ request \in [Request -> RequestStatus]
      /\ toss \in [Key -> TossPayment] /\ TossFits
  BY Split DEF DataOK, ChargeInv
<1>1. CASE Toss
  <2>1. UNCHANGED <<db, frame>>
    BY <1>1 DEF Toss, TossEnds, TossDeposit, TossPartialCancel, TossFullCancel
  <2>2. TossFits' /\ \A k \in Key : Lasts(k)
    BY <1>0, <1>1, TossChargesFit
  <2> QED BY <2>1, <2>2, OthersBacked DEF db
<1>2. CASE UNCHANGED vars
  BY <1>0, <1>2, TossStays, OthersBacked DEF vars
<1>3. CASE \E o \in Order : AdLapses(o) \/ CancelPendingByOwner(o)
  <2>1. UNCHANGED <<row, request, toss, frame>> /\ \A o \in Order : order[o] = "canceled" => order'[o] = "canceled"
    BY <1>0, <1>3 DEF AdLapses, CancelPendingByOwner
  <2> QED BY <1>0, <2>1, TossStays, OthersBacked
<1>4. CASE \E r \in Request : RejectRefund(r)
  <2>1. UNCHANGED <<order, row, toss, frame>>
    BY <1>4 DEF RejectRefund
  <2>2. \A r \in Request : request'[r] = "approved" => request[r] = "approved"
    BY <1>0, <1>4 DEF RejectRefund
  <2> QED BY <1>0, <2>1, <2>2, TossStays, OthersBacked
<1>5. ASSUME NEW a \in Actor, Start(a) PROVE ChargeInv'
  <2>1. UNCHANGED <<order, row, request, toss>>
    BY <1>5 DEF Start, StartConfirm, DeliverHook, StartRequest, StartApprove, StartRetry, db
  <2> QED BY <1>0, <1>5, <2>1, StartBacked, TossStays, OthersBacked
<1>6. ASSUME NEW a \in Actor, RecordFails(a) \/ Fail(a) PROVE ChargeInv'
  <2>1. UNCHANGED <<order, row, request, toss>>
    BY <1>6 DEF RecordFails, Fail, db
  <2>2. Done(a) => \E g : Become(a, g) /\ (g = Idle \/ Follows(frame[a], g) \/ Backed(g)')
    BY DEF Done
  <2>3. Goto(a, "ack") => \E g : Become(a, g) /\ (g = Idle \/ Follows(frame[a], g) \/ Backed(g)')
    <3>1. PICK g : g = [frame[a] EXCEPT !.at = "ack"]
      OBVIOUS
    <3>2. frame[a] \in Frame
      BY Split
    <3>3. Follows(frame[a], g)
      BY <3>1, <3>2 DEF Follows, Frame
    <3> QED BY <3>1, <3>3 DEF Goto
  <2>4. Done(a) \/ Goto(a, "ack")
    BY <1>6 DEF RecordFails, Fail, AfterRecord
  <2> QED BY <1>0, <2>1, <2>2, <2>3, <2>4, TossStays, OthersBacked
<1> QED BY <1>1, <1>2, <1>3, <1>4, <1>5, <1>6, ProgressChargesFit DEF Next

LEMMA ChargesStart == Init => ChargeInv
<1> SUFFICES ASSUME Init PROVE ChargeInv
  OBVIOUS
<1>1. \A k \in Key : toss[k].status = "READY" /\ toss[k].used = {}
  BY DEF Init
<1>2. TossFits
  BY <1>1 DEF TossFits, Taken, Opened
<1>3. RowsBacked
  BY DEF Init, NoRow, RowsBacked, ApprovedMeansRefunded
<1>4. \A a \in Actor : Backed(frame[a])
  BY DEF Init, Idle, Unread, Backed, Taken
<1> QED BY <1>2, <1>3, <1>4 DEF ChargeInv

\* What Toss took money for is known wherever the shop acts on it.
THEOREM ChargeInvariance == Spec => []ChargeInv
<1>1. IInv /\ ChargeInv /\ [Next]_vars => ChargeInv'
  BY NextChargesFit
<1> QED BY <1>1, ChargesStart, Invariance, PTL DEF Spec

\* No order is paid for which Toss took no money: neither a confirmation whose
\* answer is replayed nor a late or repeated webhook settles one for nothing.
THEOREM PaidWasCharged == Spec => []PaidOrderWasCharged
<1>1. IInv /\ ChargeInv => PaidOrderWasCharged
  BY DEF IInv, PaidIffPaymentPaid, RowsFit, ChargeInv, RowsBacked, Took, Taken, PaidOrderWasCharged
<1> QED BY <1>1, Invariance, ChargeInvariance, PTL

\* The buyer of an order is charged once, however many checkouts are open, by
\* the one Idempotency-Key of its confirmations.
THEOREM ChargedOnce == Spec => []OneChargePerOrder
<1>1. ChargeInv => OneChargePerOrder
  BY DEF ChargeInv, TossFits, Taken, OneChargePerOrder
<1> QED BY <1>1, ChargeInvariance, PTL

\* An approved refund has been given back, on the key that its row names.
THEOREM ApprovedWasRefunded == Spec => []ApprovedMeansRefunded
<1>1. ChargeInv => ApprovedMeansRefunded
  BY DEF ChargeInv, RowsBacked
<1> QED BY <1>1, ChargeInvariance, PTL
=============================================================================
