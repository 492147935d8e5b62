------------------------------ MODULE AdsProofs ------------------------------
(***************************************************************************)
(* Ads for any set of ads, slots, periods and handlers: what is served is  *)
(* paid, reservations that wait for payment never clash (IInv), and an ad  *)
(* is the payment window that AdWindow describes (IInv and FramesHold).    *)
(***************************************************************************)
EXTENDS Ads, TLAPS

ClashIsSymmetric == \A x, y \in Ad : Clash(x, y) <=> Clash(y, x)

LEMMA ClashSymmetry == ClashIsSymmetric
BY DEF ClashIsSymmetric, Clash

LEMMA InitFits == Init => IInv
<1>1. SUFFICES ASSUME Init PROVE IInv
  OBVIOUS
<1>2. TypeOK
  BY <1>1, AdsAssumption DEF Init, TypeOK, AdStatus, OrderStatus, Frame, Idle
<1>3. ServingIsPaid /\ NoDoubleReservation /\ CreationsFit
  BY <1>1 DEF Init, ServingIsPaid, NoDoubleReservation, CreationsFit, Idle
<1>4. QED BY <1>2, <1>3 DEF IInv

\* No step makes a variable leave its type.
LEMMA TypeKept == IInv /\ [Next]_vars => TypeOK'
<1>1. SUFFICES ASSUME IInv, [Next]_vars PROVE TypeOK'
  OBVIOUS
<1>2. TypeOK /\ \A a \in Actor : frame[a].op # "idle" => frame[a].ad \in Ad
  BY <1>1 DEF IInv, CreationsFit
<1>3. CASE Midnight
  BY <1>2, <1>3, AdsAssumption DEF Midnight, TypeOK, rows
<1>4. ASSUME NEW x \in Ad, Expire(x) \/ CancelOrder(x) \/ PauseAd(x) PROVE TypeOK'
  BY <1>2, <1>4 DEF Expire, CancelOrder, PauseAd, TypeOK, AdStatus, OrderStatus
<1>5. ASSUME NEW a \in Actor, NEW x \in Ad,
             \/ CheckReservation(a, x) \/ CheckSettlement(a, x)
             \/ \E want \in Wanted : ReadForUpdate(a, x, want)
      PROVE  TypeOK'
  <2>1. \E f \in Frame : frame' = [frame EXCEPT ![a] = f]
    <3>1. \A op \in {"create", "settle", "update"}, want \in Wanted \cup {"none"} :
            [op |-> op, ad |-> x, want |-> want] \in Frame
      BY DEF Frame
    <3>2. QED BY <1>5, <3>1 DEF CheckReservation, CheckSettlement, ReadForUpdate, Begin
  <2>2. UNCHANGED <<status, pausedBy, expired, order, today>>
    BY <1>5 DEF CheckReservation, CheckSettlement, ReadForUpdate, rows
  <2>3. QED BY <1>2, <2>1, <2>2 DEF TypeOK
<1>6. ASSUME NEW a \in Actor, InsertReservation(a) \/ CommitSettlement(a) \/ Resume(a)
                              \/ PauseOrEnd(a) \/ Fail(a)
      PROVE  TypeOK'
  <2>1. frame[a] \in Frame /\ frame[a].want \in Wanted \cup {"none"}
    BY <1>2 DEF TypeOK, Frame
  <2>2. Idle \in Frame
    BY DEF Idle, Frame
  <2>3. frame' \in [Actor -> Frame]
    BY <1>2, <1>6, <2>2 DEF InsertReservation, CommitSettlement, Resume, PauseOrEnd, Fail, End, TypeOK
  <2>4. CASE InsertReservation(a) \/ CommitSettlement(a) \/ Resume(a) \/ Fail(a)
    BY <1>2, <2>3, <2>4
    DEF InsertReservation, CommitSettlement, Resume, Fail, TypeOK, AdStatus, OrderStatus, rows
  <2>5. CASE PauseOrEnd(a)
    <3>1. frame[a].want \in AdStatus \/ frame[a].want = "none"
      BY <2>1 DEF Wanted, AdStatus
    <3>2. QED BY <1>2, <2>3, <2>5, <3>1 DEF PauseOrEnd, TypeOK, AdStatus
  <2>6. QED BY <1>6, <2>4, <2>5
<1>7. CASE UNCHANGED vars
  BY <1>2, <1>7 DEF vars, TypeOK
<1>8. QED BY <1>1, <1>3, <1>4, <1>5, <1>6, <1>7 DEF Next

\* What a step may do to the rows of one ad.
LEMMA ServingKept == IInv /\ [Next]_vars => ServingIsPaid'
<1>1. SUFFICES ASSUME IInv, [Next]_vars, NEW z \in Ad, status'[z] = "active"
               PROVE  order'[z] = "paid"
  BY DEF ServingIsPaid
<1>2. TypeOK /\ (status[z] = "active" => order[z] = "paid")
  BY <1>1 DEF IInv, ServingIsPaid
<1>3. CASE Midnight \/ UNCHANGED vars
  BY <1>1, <1>2, <1>3 DEF Midnight, vars, rows
<1>4. ASSUME NEW x \in Ad, Expire(x) \/ CancelOrder(x) \/ PauseAd(x) PROVE order'[z] = "paid"
  BY <1>1, <1>2, <1>4 DEF Expire, CancelOrder, PauseAd, TypeOK
<1>5. ASSUME NEW a \in Actor, NEW x \in Ad,
             \/ CheckReservation(a, x) \/ CheckSettlement(a, x)
             \/ \E want \in Wanted : ReadForUpdate(a, x, want)
      PROVE  order'[z] = "paid"
  BY <1>1, <1>2, <1>5 DEF CheckReservation, CheckSettlement, ReadForUpdate, rows
<1>6. ASSUME NEW a \in Actor, InsertReservation(a) \/ CommitSettlement(a) \/ Resume(a)
                              \/ PauseOrEnd(a) \/ Fail(a)
      PROVE  order'[z] = "paid"
  <2>1. CASE InsertReservation(a) \/ CommitSettlement(a)
    BY <1>1, <1>2, <2>1 DEF InsertReservation, CommitSettlement, TypeOK
  <2>2. CASE Resume(a)
    BY <1>1, <1>2, <2>2 DEF Resume, TypeOK
  <2>3. CASE PauseOrEnd(a) \/ Fail(a)
    BY <1>1, <1>2, <2>3 DEF PauseOrEnd, Fail, TypeOK, rows
  <2>4. QED BY <1>6, <2>1, <2>2, <2>3
<1>7. QED BY <1>1, <1>3, <1>4, <1>5, <1>6 DEF Next

-----------------------------------------------------------------------------
(* Reservations that wait for payment.                                     *)

Waiting(x) == status[x] = "preparing" /\ ~expired[x]

\* Only InsertReservation lets an ad wait for payment.
LEMMA WaitingShrinks ==
  ASSUME IInv, [Next]_vars, \A a \in Actor : ~InsertReservation(a),
         NEW y \in Ad, Waiting(y)'
  PROVE  Waiting(y)
<1>1. TypeOK
  BY DEF IInv
<1>2. CASE Midnight \/ UNCHANGED vars
  BY <1>2 DEF Midnight, vars, rows, Waiting
<1>3. ASSUME NEW x \in Ad, Expire(x) \/ CancelOrder(x) \/ PauseAd(x) PROVE Waiting(y)
  BY <1>1, <1>3 DEF Expire, CancelOrder, PauseAd, TypeOK, Waiting
<1>4. ASSUME NEW a \in Actor, NEW x \in Ad,
             \/ CheckReservation(a, x) \/ CheckSettlement(a, x)
             \/ \E want \in Wanted : ReadForUpdate(a, x, want)
      PROVE  Waiting(y)
  BY <1>4 DEF CheckReservation, CheckSettlement, ReadForUpdate, rows, Waiting
<1>5. ASSUME NEW a \in Actor, CommitSettlement(a) \/ Resume(a) \/ Fail(a) PROVE Waiting(y)
  BY <1>1, <1>5 DEF CommitSettlement, Resume, Fail, TypeOK, rows, Waiting
<1>6. ASSUME NEW a \in Actor, PauseOrEnd(a) PROVE Waiting(y)
  <2>1. frame[a].want # "preparing"
    BY <1>1 DEF TypeOK, Frame, Wanted
  <2>2. QED BY <1>1, <1>6, <2>1 DEF PauseOrEnd, TypeOK, Waiting
<1>7. QED BY <1>2, <1>3, <1>4, <1>5, <1>6 DEF Next

\* Which handler a step starts, if any.
LEMMA FramesAfter ==
  ASSUME IInv, [Next]_vars, NEW b \in Actor
  PROVE  \/ frame'[b] = frame[b]
         \/ frame'[b] = Idle
         \/ frame'[b].op # "create" /\ frame'[b].ad \in Ad
         \/ frame'[b].op = "create" /\ \E x \in Ad : CheckReservation(b, x)
<1>1. frame \in [Actor -> Frame]
  BY DEF IInv, TypeOK
<1>2. CASE Midnight \/ UNCHANGED vars
  BY <1>2 DEF Midnight, vars
<1>3. ASSUME NEW x \in Ad, Expire(x) \/ CancelOrder(x) \/ PauseAd(x) PROVE frame'[b] = frame[b]
  BY <1>3 DEF Expire, CancelOrder, PauseAd
<1>4. ASSUME NEW a \in Actor, NEW x \in Ad, CheckReservation(a, x)
      PROVE  frame'[b] = frame[b] \/ (a = b /\ frame'[b].op = "create")
  BY <1>1, <1>4 DEF CheckReservation, Begin
<1>5. ASSUME NEW a \in Actor, NEW x \in Ad,
             CheckSettlement(a, x) \/ \E want \in Wanted : ReadForUpdate(a, x, want)
      PROVE  frame'[b] = frame[b] \/ (frame'[b].op # "create" /\ frame'[b].ad \in Ad)
  BY <1>1, <1>5 DEF CheckSettlement, ReadForUpdate, Begin
<1>6. ASSUME NEW a \in Actor, InsertReservation(a) \/ CommitSettlement(a) \/ Resume(a)
                              \/ PauseOrEnd(a) \/ Fail(a)
      PROVE  frame'[b] = frame[b] \/ frame'[b] = Idle
  BY <1>1, <1>6 DEF InsertReservation, CommitSettlement, Resume, PauseOrEnd, Fail, End
<1>7. QED BY <1>2, <1>3, <1>4, <1>5, <1>6 DEF Next

LEMMA ReservationsKept == IInv /\ [Next]_vars => NoDoubleReservation' /\ CreationsFit'
<1>1. SUFFICES ASSUME IInv, [Next]_vars PROVE NoDoubleReservation' /\ CreationsFit'
  OBVIOUS
<1>2. TypeOK /\ NoDoubleReservation /\ CreationsFit
  BY <1>1 DEF IInv
<1>3. CASE \E a \in Actor : InsertReservation(a)
  <2>1. PICK a \in Actor : InsertReservation(a)
    BY <1>3
  <2> DEFINE x == frame[a].ad
  <2>2. x \in Ad /\ frame[a].op = "create"
    BY <1>2, <2>1 DEF InsertReservation, CreationsFit
  <2>3. \A y \in Ad : Waiting(y)' => y = x \/ Waiting(y)
    BY <1>2, <2>1 DEF InsertReservation, TypeOK, Waiting
  <2>4. \A y \in Ad : Clash(x, y) => ~Waiting(y)
    BY <1>2, <2>2 DEF CreationsFit, Waiting
  <2>5. NoDoubleReservation'
    <3>1. ASSUME NEW y \in Ad, NEW z \in Ad, Clash(y, z), Waiting(y)', Waiting(z)' PROVE FALSE
      <4>1. y # z
        BY <3>1 DEF Clash
      <4>2. CASE y = x
        BY <2>3, <2>4, <3>1, <4>1, <4>2
      <4>3. CASE z = x
        BY <2>2, <2>3, <2>4, <3>1, <4>1, <4>3, ClashSymmetry DEF ClashIsSymmetric
      <4>4. CASE y # x /\ z # x
        BY <1>2, <2>3, <3>1, <4>4 DEF NoDoubleReservation, Waiting
      <4>5. QED BY <4>2, <4>3, <4>4
    <3>2. QED BY <3>1 DEF NoDoubleReservation, Waiting, Clash
  <2>6. CreationsFit'
    <3>1. \A b \in Actor : frame'[b] = IF b = a THEN Idle ELSE frame[b]
      BY <1>2, <2>1 DEF InsertReservation, End, TypeOK
    <3>2. ASSUME NEW b \in Actor, frame'[b].op = "create"
          PROVE  /\ b # a /\ frame'[b] = frame[b] /\ Slot[frame[b].ad] # Slot[x]
      BY <1>2, <2>2, <3>1, <3>2 DEF CreationsFit, Idle
    <3>3. ASSUME NEW b \in Actor, frame'[b].op = "create", NEW y \in Ad, Clash(frame'[b].ad, y)
          PROVE  ~Waiting(y)'
      <4>1. y # x
        BY <3>2, <3>3 DEF Clash
      <4>2. ~Waiting(y)
        BY <1>2, <3>2, <3>3 DEF CreationsFit, Waiting
      <4>3. QED BY <2>3, <4>1, <4>2
    <3>4. \A b \in Actor : frame'[b].op # "idle" => frame'[b].ad \in Ad
      BY <1>2, <3>1 DEF CreationsFit, Idle
    <3>5. \A b, c \in Actor :
            frame'[b].op = "create" /\ frame'[c].op = "create"
              /\ Slot[frame'[c].ad] = Slot[frame'[b].ad] => c = b
      BY <1>2, <3>2 DEF CreationsFit
    <3>6. QED BY <3>3, <3>4, <3>5 DEF CreationsFit, Waiting, Clash
  <2>7. QED BY <2>5, <2>6
<1>4. CASE \A a \in Actor : ~InsertReservation(a)
  <2>1. \A y \in Ad : Waiting(y)' => Waiting(y)
    BY <1>1, <1>4, WaitingShrinks
  <2>2. NoDoubleReservation'
    BY <1>2, <2>1 DEF NoDoubleReservation, Waiting, Clash
  <2>3. \A b \in Actor : frame'[b].op # "idle" => frame'[b].ad \in Ad
    <3>1. ASSUME NEW b \in Actor, NEW x \in Ad, CheckReservation(b, x) PROVE frame'[b].ad \in Ad
      BY <1>2, <3>1 DEF CheckReservation, Begin, TypeOK
    <3>2. QED BY <1>1, <1>2, <3>1, FramesAfter DEF CreationsFit, Idle
  <2>4. ASSUME NEW b \in Actor, frame'[b].op = "create"
        PROVE  frame'[b] = frame[b] \/ \E x \in Ad : CheckReservation(b, x)
    BY <1>1, <2>4, FramesAfter DEF Idle
  <2>5. ASSUME NEW b \in Actor, NEW x \in Ad, CheckReservation(b, x)
        PROVE  /\ frame'[b].ad = x
               /\ \A c \in Actor : c # b => frame'[c] = frame[c]
               /\ \A c \in Actor : frame[c].op = "create" => Slot[frame[c].ad] # Slot[x]
               /\ \A y \in Ad : Clash(x, y) => ~Waiting(y)
    BY <1>2, <2>5 DEF CheckReservation, Begin, TypeOK, SlotLocked, Reserving, Waiting
  <2>6. ASSUME NEW b \in Actor, frame'[b].op = "create", NEW y \in Ad, Clash(frame'[b].ad, y)
        PROVE  ~Waiting(y)'
    <3>1. CASE frame'[b] = frame[b]
      BY <1>2, <2>1, <2>6, <3>1 DEF CreationsFit, Waiting
    <3>2. CASE \E x \in Ad : CheckReservation(b, x)
      BY <2>1, <2>5, <2>6, <3>2
    <3>3. QED BY <2>4, <2>6, <3>1, <3>2
  <2>7. ASSUME NEW b \in Actor, NEW c \in Actor,
               frame'[b].op = "create", frame'[c].op = "create",
               Slot[frame'[c].ad] = Slot[frame'[b].ad]
        PROVE  c = b
    <3>1. CASE \E x \in Ad : CheckReservation(b, x)
      BY <2>5, <2>7, <3>1
    <3>2. CASE \E x \in Ad : CheckReservation(c, x)
      BY <2>5, <2>7, <3>2
    <3>3. CASE frame'[b] = frame[b] /\ frame'[c] = frame[c]
      BY <1>2, <2>7, <3>3 DEF CreationsFit
    <3>4. QED BY <2>4, <2>7, <3>1, <3>2, <3>3
  <2>8. CreationsFit'
    BY <2>3, <2>6, <2>7 DEF CreationsFit, Waiting, Clash
  <2>9. QED BY <2>2, <2>8
<1>5. QED BY <1>3, <1>4

-----------------------------------------------------------------------------
(* The theorems.                                                           *)

LEMMA NextKeeps == IInv /\ [Next]_vars => IInv'
BY TypeKept, ServingKept, ReservationsKept DEF IInv

\* IInv holds in every reachable state.
THEOREM Invariance == Spec => []IInv
<1>1. IInv /\ [Next]_vars => IInv'
  BY NextKeeps
<1>2. QED BY <1>1, InitFits, PTL DEF Spec

\* An ad is served only while its order is paid, whatever refunds, resumes
\* and pauses run at the same time.
THEOREM ServedOnlyWhilePaid == Spec => []ServingIsPaid
<1>1. IInv => ServingIsPaid
  BY DEF IInv
<1>2. QED BY <1>1, Invariance, PTL

\* Reservations that wait for payment never clash.
THEOREM ReservationsDisjoint == Spec => []NoDoubleReservation
<1>1. IInv => NoDoubleReservation
  BY DEF IInv
<1>2. QED BY <1>1, Invariance, PTL

-----------------------------------------------------------------------------
(* The payment window. A handler holds the rows of the ad it is about as   *)
(* it found them, so that each step is one of AdWindow or leaves it alone. *)

FramesHold ==
  /\ \A x \in Ad : status[x] = "none" <=> order[x] = "none"
  /\ \A a \in Actor :
       /\ frame[a].op = "create" => status[frame[a].ad] = "none"
       /\ frame[a].op = "settle" => status[frame[a].ad] = "preparing" /\ order[frame[a].ad] = "pending"
       /\ frame[a].op = "update" => status[frame[a].ad] # "none" /\ frame[a].want \in Wanted
  /\ \A a, b \in Actor :
       frame[a].op = "settle" /\ frame[b].op = "settle" /\ frame[a].ad = frame[b].ad => a = b

LEMMA FramesHoldAtFirst == Init => FramesHold
BY DEF Init, FramesHold, Idle

LEMMA FramesKeepHolding ==
  ASSUME IInv, FramesHold, [Next]_vars
  PROVE  FramesHold'
<1>1. /\ status \in [Ad -> AdStatus] /\ order \in [Ad -> OrderStatus] /\ frame \in [Actor -> Frame]
      /\ \A a \in Actor : frame[a].op # "idle" => frame[a].ad \in Ad
      /\ \A a, b \in Actor : frame[a].op = "create" /\ frame[b].op = "create" /\ frame[a].ad = frame[b].ad => a = b
  BY DEF IInv, TypeOK, CreationsFit
<1>2. CASE Midnight \/ UNCHANGED vars
  BY <1>2 DEF Midnight, vars, rows, FramesHold
<1>3. ASSUME NEW x \in Ad, Expire(x) PROVE FramesHold'
  BY <1>3 DEF Expire, FramesHold
<1>4. ASSUME NEW x \in Ad, CancelOrder(x) PROVE FramesHold'
  <2>1. /\ status[x] # "none" /\ status'[x] # "none" /\ order'[x] # "none"
        /\ \A y \in Ad \ {x} : status'[y] = status[y] /\ order'[y] = order[y]
        /\ \A a \in Actor : ~(frame[a].op = "settle" /\ frame[a].ad = x)
        /\ UNCHANGED frame
    BY <1>1, <1>4 DEF CancelOrder, Settling, FramesHold
  <2> QED BY <1>1, <2>1 DEF FramesHold
<1>5. ASSUME NEW x \in Ad, PauseAd(x) PROVE FramesHold'
  <2>1. /\ status[x] # "none" /\ status'[x] # "none" /\ UNCHANGED order
        /\ \A y \in Ad \ {x} : status'[y] = status[y]
        /\ \A a \in Actor : ~(frame[a].op = "settle" /\ frame[a].ad = x)
        /\ UNCHANGED frame
    BY <1>1, <1>5 DEF PauseAd, Settling, FramesHold
  <2> QED BY <1>1, <2>1 DEF FramesHold
<1>6. ASSUME NEW a \in Actor, NEW x \in Ad,
             \/ CheckReservation(a, x) \/ CheckSettlement(a, x)
             \/ \E want \in Wanted : ReadForUpdate(a, x, want)
      PROVE  FramesHold'
  <2>1. /\ UNCHANGED <<status, order>> /\ \A b \in Actor \ {a} : frame'[b] = frame[b]
        /\ frame'[a].ad = x
    BY <1>1, <1>6 DEF CheckReservation, CheckSettlement, ReadForUpdate, Begin, rows
  <2>2. /\ frame'[a].op = "create" => status[x] = "none"
        /\ frame'[a].op = "settle" => /\ status[x] = "preparing" /\ order[x] = "pending"
                                      /\ \A b \in Actor : ~(frame[b].op = "settle" /\ frame[b].ad = x)
        /\ frame'[a].op = "update" => status[x] # "none" /\ frame'[a].want \in Wanted
    <3>1. CASE CheckReservation(a, x)
      BY <1>1, <3>1 DEF CheckReservation, Begin
    <3>2. CASE CheckSettlement(a, x)
      BY <1>1, <3>2 DEF CheckSettlement, Payable, Settling, Begin
    <3>3. ASSUME NEW want \in Wanted, ReadForUpdate(a, x, want)
          PROVE  frame'[a].op = "update" /\ status[x] # "none" /\ frame'[a].want \in Wanted
      BY <1>1, <3>3 DEF ReadForUpdate, Allowed, Wanted, Begin
    <3> QED BY <1>6, <3>1, <3>2, <3>3
  <2> QED BY <2>1, <2>2 DEF FramesHold
<1>7. ASSUME NEW a \in Actor, InsertReservation(a) \/ CommitSettlement(a) \/ Resume(a) \/ PauseOrEnd(a) \/ Fail(a)
      PROVE  FramesHold'
  <2> DEFINE x == frame[a].ad
  <2>1. x \in Ad /\ frame[a].op # "idle"
    BY <1>1, <1>7 DEF InsertReservation, CommitSettlement, Resume, PauseOrEnd, Fail
  <2>2. frame'[a].op = "idle" /\ \A b \in Actor \ {a} : frame'[b] = frame[b]
    BY <1>1, <1>7 DEF InsertReservation, CommitSettlement, Resume, PauseOrEnd, Fail, End, Idle
  <2>3. CASE Fail(a)
    BY <2>2, <2>3 DEF Fail, rows, FramesHold
  <2>4. \A y \in Ad \ {x} : status'[y] = status[y] /\ order'[y] = order[y]
    BY <1>1, <1>7 DEF InsertReservation, CommitSettlement, Resume, PauseOrEnd, Fail, rows
  <2>5. CASE InsertReservation(a)
    <3>1. status[x] = "none" /\ status'[x] = "preparing" /\ order'[x] = "pending"
      BY <1>1, <2>1, <2>5 DEF InsertReservation, FramesHold
    <3>2. \A b \in Actor \ {a} : frame[b].op # "idle" => frame[b].ad # x
      BY <1>1, <2>5, <3>1 DEF InsertReservation, FramesHold, Frame
    <3> HIDE DEF x
    <3> QED BY <1>1, <2>1, <2>2, <2>4, <3>1, <3>2 DEF FramesHold
  <2>6. CASE CommitSettlement(a)
    <3>1. status[x] # "none" /\ status'[x] = "active" /\ order'[x] = "paid"
      BY <1>1, <2>1, <2>6 DEF CommitSettlement, FramesHold
    <3>2. \A b \in Actor \ {a} : ~(frame[b].op = "settle" /\ frame[b].ad = x)
      BY <2>6 DEF CommitSettlement, FramesHold
    <3> HIDE DEF x
    <3> QED BY <1>1, <2>1, <2>2, <2>4, <3>1, <3>2 DEF FramesHold
  <2>7. CASE Resume(a) \/ PauseOrEnd(a)
    <3>1. frame[a].op = "update" /\ frame[a].want \in Wanted /\ status[x] # "none" /\ UNCHANGED order
      <4>1. frame[a].op = "update" /\ UNCHANGED order
        BY <2>7 DEF Resume, PauseOrEnd
      <4> QED BY <4>1 DEF FramesHold
    <3>2. status'[x] # "none"
      BY <1>1, <2>1, <2>7, <3>1 DEF Resume, PauseOrEnd, Wanted
    <3>3. \A b \in Actor : ~(frame[b].op = "settle" /\ frame[b].ad = x)
      BY <2>7 DEF Resume, PauseOrEnd, Settling
    <3> HIDE DEF x
    <3> QED BY <1>1, <2>1, <2>2, <2>4, <3>1, <3>2, <3>3 DEF FramesHold
  <2> QED BY <1>7, <2>3, <2>5, <2>6, <2>7
<1> QED BY <1>2, <1>3, <1>4, <1>5, <1>6, <1>7 DEF Next

WindowOf(x) == IF status[x] = "none" THEN "none"
               ELSE IF Payable(x) \/ Settling(x) THEN "open" ELSE "closed"
Windows == [x \in Ad |-> WindowOf(x)]

\* The steps of AdWindow, from what becomes of each window.
LEMMA WindowLapses ==
  ASSUME \A x \in Ad : \/ WindowOf(x)' = WindowOf(x)
                       \/ WindowOf(x) = "open" /\ WindowOf(x)' = "closed",
         UNCHANGED order
  PROVE  Window!LapseSome
<1> DEFINE shut == {x \in Ad : WindowOf(x) = "open" /\ WindowOf(x)' = "closed"}
<1>1. shut \in SUBSET {x \in Ad : Windows[x] = "open"}
  BY DEF Windows
<1>2. Windows' = [x \in Ad |-> IF x \in shut THEN "closed" ELSE Windows[x]]
  BY DEF Windows
<1> HIDE DEF shut
<1>3. \E closed \in SUBSET {x \in Ad : Windows[x] = "open"} :
        /\ Windows' = [x \in Ad |-> IF x \in closed THEN "closed" ELSE Windows[x]]
        /\ UNCHANGED order
  BY <1>1, <1>2
<1> QED BY <1>3 DEF Window!LapseSome, Windows, WindowOf

LEMMA WindowOfOne ==
  ASSUME NEW x \in Ad, \A y \in Ad \ {x} : WindowOf(y)' = WindowOf(y),
         NEW w, WindowOf(x)' = w
  PROVE  Windows' = [Windows EXCEPT ![x] = w]
BY DEF Windows

\* A window without a settlement that is not open does not open.
LEMMA WindowStep ==
  ASSUME IInv, FramesHold, [Next]_vars
  PROVE  [Window!Next]_<<Windows, order>>
<1>0. /\ status \in [Ad -> AdStatus] /\ order \in [Ad -> OrderStatus] /\ frame \in [Actor -> Frame]
      /\ expired \in [Ad -> BOOLEAN] /\ today \in Nat /\ Last \in [Ad -> Nat]
      /\ \A a \in Actor : frame[a].op # "idle" => frame[a].ad \in Ad
  BY AdsAssumption DEF IInv, TypeOK, CreationsFit
<1>1. \A x \in Ad : Settling(x) => status[x] = "preparing" /\ order[x] = "pending"
  BY DEF Settling, FramesHold
<1>2. SUFFICES \/ /\ \A x \in Ad : \/ WindowOf(x)' = WindowOf(x)
                                   \/ WindowOf(x) = "open" /\ WindowOf(x)' = "closed"
                  /\ UNCHANGED order
               \/ \E x \in Ad :
                    /\ \A y \in Ad \ {x} : WindowOf(y)' = WindowOf(y)
                    /\ \/ /\ WindowOf(x) = "none" /\ WindowOf(x)' \in {"open", "closed"}
                          /\ order' = [order EXCEPT ![x] = "pending"]
                       \/ /\ WindowOf(x) = "open" /\ order[x] = "pending" /\ WindowOf(x)' = "closed"
                          /\ order' = [order EXCEPT ![x] = "paid"]
                       \/ /\ WindowOf(x)' = WindowOf(x) /\ order[x] \in {"pending", "paid"}
                          /\ order' = [order EXCEPT ![x] = "canceled"]
  <2>1. CASE /\ \A x \in Ad : \/ WindowOf(x)' = WindowOf(x)
                              \/ WindowOf(x) = "open" /\ WindowOf(x)' = "closed"
             /\ UNCHANGED order
    BY <2>1, WindowLapses DEF Window!Next
  <2>2. ASSUME NEW x \in Ad, \A y \in Ad \ {x} : WindowOf(y)' = WindowOf(y),
               WindowOf(x) = "none", WindowOf(x)' \in {"open", "closed"},
               order' = [order EXCEPT ![x] = "pending"]
        PROVE  Window!Next
    <3>1. Windows[x] = "none" /\ \E w \in {"open", "closed"} : Windows' = [Windows EXCEPT ![x] = w]
      BY <2>2, WindowOfOne DEF Windows
    <3>2. Window!Open(x)
      BY <2>2, <3>1 DEF Window!Open, Windows, WindowOf
    <3> QED BY <3>2 DEF Window!Next
  <2>3. ASSUME NEW x \in Ad, \A y \in Ad \ {x} : WindowOf(y)' = WindowOf(y),
               WindowOf(x) = "open", order[x] = "pending", WindowOf(x)' = "closed",
               order' = [order EXCEPT ![x] = "paid"]
        PROVE  Window!Next
    <3>1. Windows[x] = "open" /\ Windows' = [Windows EXCEPT ![x] = "closed"]
      BY <2>3, WindowOfOne DEF Windows
    <3>2. Window!Pay(x)
      BY <2>3, <3>1 DEF Window!Pay, Windows, WindowOf
    <3> QED BY <3>2 DEF Window!Next
  <2>4. ASSUME NEW x \in Ad, \A y \in Ad \ {x} : WindowOf(y)' = WindowOf(y),
               WindowOf(x)' = WindowOf(x), order[x] \in {"pending", "paid"},
               order' = [order EXCEPT ![x] = "canceled"]
        PROVE  Window!Next
    <3>1. Windows' = Windows
      BY <2>4 DEF Windows
    <3>2. Window!Cancel(x)
      BY <2>4, <3>1 DEF Window!Cancel, Windows, WindowOf
    <3> QED BY <3>2 DEF Window!Next
  <2> QED BY <1>2, <2>1, <2>2, <2>3, <2>4
<1>3. CASE UNCHANGED vars
  BY <1>3 DEF vars, WindowOf, Payable, Settling
<1>4. CASE Midnight
  <2>1. UNCHANGED <<status, expired, order, frame>> /\ today' = today + 1
    BY <1>4 DEF Midnight, rows
  <2>2. \A x \in Ad : Payable(x)' => Payable(x)
    BY <1>0, <2>1 DEF Payable
  <2> QED BY <2>1, <2>2 DEF WindowOf, Settling
<1>5. ASSUME NEW x \in Ad, Expire(x)
      PROVE  \A y \in Ad : \/ WindowOf(y)' = WindowOf(y)
                           \/ WindowOf(y) = "open" /\ WindowOf(y)' = "closed"
  <2>1. UNCHANGED <<status, today, order, frame>> /\ \A y \in Ad : expired[y] => expired'[y]
    BY <1>0, <1>5 DEF Expire
  <2>2. \A y \in Ad : Payable(y)' => Payable(y)
    BY <2>1 DEF Payable
  <2> QED BY <2>1, <2>2 DEF WindowOf, Settling
<1>6. ASSUME NEW x \in Ad, CancelOrder(x)
      PROVE  /\ order[x] \in {"pending", "paid"} /\ order' = [order EXCEPT ![x] = "canceled"]
             /\ \A y \in Ad : WindowOf(y)' = WindowOf(y)
  <2>1. UNCHANGED <<today, expired, frame>>
    BY <1>6 DEF CancelOrder
  <2>2. \A y \in Ad : status'[y] = status[y] \/ (status[y] = "active" /\ status'[y] = "ended")
    BY <1>0, <1>6 DEF CancelOrder
  <2>3. order[x] \in {"pending", "paid"} /\ order' = [order EXCEPT ![x] = "canceled"]
    BY <1>6 DEF CancelOrder
  <2> QED BY <2>1, <2>2, <2>3 DEF WindowOf, Payable, Settling
<1>7. ASSUME NEW x \in Ad, PauseAd(x)
      PROVE  UNCHANGED order /\ \A y \in Ad : WindowOf(y)' = WindowOf(y)
  <2>1. UNCHANGED <<today, expired, order, frame>>
    BY <1>7 DEF PauseAd
  <2>2. \A y \in Ad : status'[y] = status[y] \/ (status[y] = "active" /\ status'[y] = "paused")
    BY <1>0, <1>7 DEF PauseAd
  <2> QED BY <2>1, <2>2 DEF WindowOf, Payable, Settling
<1>8. ASSUME NEW a \in Actor, NEW x \in Ad,
             \/ CheckReservation(a, x) \/ CheckSettlement(a, x)
             \/ \E want \in Wanted : ReadForUpdate(a, x, want)
      PROVE  UNCHANGED order /\ \A y \in Ad : WindowOf(y)' = WindowOf(y)
  <2>1. UNCHANGED <<status, expired, order, today>>
    BY <1>8 DEF CheckReservation, CheckSettlement, ReadForUpdate, rows
  <2>2. /\ frame[a].op = "idle" /\ frame'[a].ad = x /\ \A b \in Actor \ {a} : frame'[b] = frame[b]
        /\ frame'[a].op = "settle" => Payable(x)
    BY <1>0, <1>8 DEF CheckReservation, CheckSettlement, ReadForUpdate, Begin
  <2>3. \A y \in Ad : /\ Settling(y) => Settling(y)'
                      /\ Settling(y)' => Settling(y) \/ Payable(y)
                      /\ Payable(y)' = Payable(y)
    BY <2>1, <2>2 DEF Settling, Payable
  <2> QED BY <2>1, <2>3 DEF WindowOf
<1>9. ASSUME NEW a \in Actor, InsertReservation(a), NEW x \in Ad, frame[a].ad = x
      PROVE  /\ \A y \in Ad \ {x} : WindowOf(y)' = WindowOf(y)
             /\ WindowOf(x) = "none" /\ WindowOf(x)' \in {"open", "closed"}
             /\ order' = [order EXCEPT ![x] = "pending"]
  <2>1.  status[x] = "none" /\ status'[x] = "preparing" /\ order' = [order EXCEPT ![x] = "pending"]
    BY <1>0, <1>9 DEF InsertReservation, FramesHold
  <2>2. \A y \in Ad \ {x} : status'[y] = status[y]
    BY <1>0, <1>9 DEF InsertReservation
  <2>3. UNCHANGED <<expired, today>> /\ \A y \in Ad : Settling(y)' <=> Settling(y)
    BY <1>0, <1>9 DEF InsertReservation, End, Idle, Settling
  <2>4. \A y \in Ad \ {x} : WindowOf(y)' = WindowOf(y)
    BY <2>2, <2>3 DEF WindowOf, Payable
  <2> QED BY <2>1, <2>4 DEF WindowOf
<1>10. ASSUME NEW a \in Actor, CommitSettlement(a), NEW x \in Ad, frame[a].ad = x
       PROVE  /\ \A y \in Ad \ {x} : WindowOf(y)' = WindowOf(y)
              /\ WindowOf(x) = "open" /\ order[x] = "pending" /\ WindowOf(x)' = "closed"
              /\ order' = [order EXCEPT ![x] = "paid"]
  <2>1. /\ Settling(x) /\ status[x] = "preparing" /\ order[x] = "pending"
        /\ status'[x] = "active" /\ order' = [order EXCEPT ![x] = "paid"]
    BY <1>0, <1>1, <1>10 DEF CommitSettlement, Settling
  <2>2. /\ \A y \in Ad \ {x} : status'[y] = status[y]
        /\ UNCHANGED <<expired, today>>
    BY <1>0, <1>10 DEF CommitSettlement
  <2>3. /\ frame'[a].op = "idle" /\ \A b \in Actor \ {a} : frame'[b] = frame[b]
        /\ \A b \in Actor \ {a} : ~(frame[b].op = "settle" /\ frame[b].ad = x)
    BY <1>0, <1>10 DEF CommitSettlement, End, Idle, FramesHold
  <2>4. ~Settling(x)' /\ \A y \in Ad \ {x} : Settling(y)' <=> Settling(y)
    BY <1>10, <2>3 DEF Settling
  <2>5. \A y \in Ad \ {x} : WindowOf(y)' = WindowOf(y)
    BY <2>2, <2>4 DEF WindowOf, Payable
  <2> QED BY <2>1, <2>4, <2>5 DEF WindowOf, Payable
<1>11. ASSUME NEW a \in Actor, Resume(a) \/ PauseOrEnd(a)
       PROVE  UNCHANGED order /\ \A y \in Ad : \/ WindowOf(y)' = WindowOf(y)
                                               \/ WindowOf(y) = "open" /\ WindowOf(y)' = "closed"
  <2> DEFINE x == frame[a].ad
  <2>1. frame[a].op = "update" /\ x \in Ad /\ status[x] # "none" /\ frame[a].want \in Wanted /\ ~Settling(x)
    BY <1>0, <1>11 DEF Resume, PauseOrEnd, FramesHold
  <2>2. UNCHANGED <<order, expired, today>> /\ \A y \in Ad : Settling(y)' <=> Settling(y)
    BY <1>0, <1>11, <2>1 DEF Resume, PauseOrEnd, End, Idle, Settling
  <2>3. \A y \in Ad \ {x} : status'[y] = status[y]
    BY <1>0, <1>11 DEF Resume, PauseOrEnd
  <2>4. status'[x] = status[x] \/ status'[x] \in {"active", "paused", "ended"}
    BY <1>0, <1>11, <2>1 DEF Resume, PauseOrEnd, Wanted
  <2> HIDE DEF x
  <2> QED BY <2>1, <2>2, <2>3, <2>4 DEF WindowOf, Payable
<1>12. ASSUME NEW a \in Actor, Fail(a)
       PROVE  UNCHANGED order /\ \A y \in Ad : \/ WindowOf(y)' = WindowOf(y)
                                               \/ WindowOf(y) = "open" /\ WindowOf(y)' = "closed"
  <2>1. UNCHANGED <<status, expired, order, today>> /\ \A y \in Ad : Settling(y)' => Settling(y)
    BY <1>0, <1>12 DEF Fail, rows, End, Idle, Settling
  <2> QED BY <2>1 DEF WindowOf, Payable
<1>13. ASSUME NEW a \in Actor, InsertReservation(a) \/ CommitSettlement(a)
       PROVE  frame[a].ad \in Ad
  BY <1>0, <1>13 DEF InsertReservation, CommitSettlement
<1>14. ASSUME NEW x \in Ad, Expire(x) \/ CancelOrder(x) \/ PauseAd(x)
       PROVE  \/ /\ \A y \in Ad : WindowOf(y)' = WindowOf(y) \/ (WindowOf(y) = "open" /\ WindowOf(y)' = "closed")
                 /\ UNCHANGED order
              \/ /\ \A y \in Ad \ {x} : WindowOf(y)' = WindowOf(y)
                 /\ WindowOf(x)' = WindowOf(x) /\ order[x] \in {"pending", "paid"}
                 /\ order' = [order EXCEPT ![x] = "canceled"]
  BY <1>5, <1>6, <1>7, <1>14 DEF Expire
<1>15. CASE \E a \in Actor, x \in Ad :
              \/ CheckReservation(a, x) \/ CheckSettlement(a, x)
              \/ \E want \in Wanted : ReadForUpdate(a, x, want)
  BY <1>8, <1>15
<1>16. CASE \E a \in Actor : Resume(a) \/ PauseOrEnd(a) \/ Fail(a)
  BY <1>11, <1>12, <1>16
<1>17. CASE \E a \in Actor : InsertReservation(a)
  BY <1>9, <1>13, <1>17
<1>18. CASE \E a \in Actor : CommitSettlement(a)
  BY <1>10, <1>13, <1>18
<1>19. CASE \E x \in Ad : Expire(x) \/ CancelOrder(x) \/ PauseAd(x)
  BY <1>14, <1>19
<1>20. CASE Midnight
  BY <1>4, <1>20 DEF Midnight, rows
<1> QED BY <1>3, <1>15, <1>16, <1>17, <1>18, <1>19, <1>20 DEF Next

\* To whoever takes the money an ad is a payment window: it opens once, with
\* its pending order, its order becomes paid by closing an open one, and none
\* that is closed opens again, whatever handlers, clocks and failures do.
THEOREM WindowImplemented == Spec => ImplementsWindow
<1>1. Init => Window!Init
  BY DEF Init, Window!Init
<1>2. IInv /\ FramesHold /\ [Next]_vars => [Window!Next]_<<Windows, order>>
  BY WindowStep
<1>3. Spec => []FramesHold
  <2>1. IInv /\ FramesHold /\ [Next]_vars => FramesHold'
    BY FramesKeepHolding
  <2> QED BY <2>1, FramesHoldAtFirst, Invariance, PTL DEF Spec
<1>4. Spec => Window!Init /\ [][Window!Next]_<<Windows, order>>
  BY <1>1, <1>2, <1>3, Invariance, PTL DEF Spec
<1>5. (Window!Init /\ [][Window!Next]_<<Windows, order>>) <=> ImplementsWindow
  BY DEF ImplementsWindow, Window!Spec, Windows, WindowOf
<1> QED BY <1>4, <1>5
=============================================================================
