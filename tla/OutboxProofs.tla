----------------------------- MODULE OutboxProofs -----------------------------
(***************************************************************************)
(* What the outbox guarantees for any number of events, workers and        *)
(* faults, whatever the processors do with the jobs.                       *)
(*                                                                         *)
(* An event leaves "pending" in two ways only, both at the commit of a     *)
(* relay.  The invariant therefore speaks of relays that are still open:   *)
(* what one of them has posted is on a queue, dead-lettered or handled     *)
(* before its row says "sent" (Backed), no other relay holds that row      *)
(* (ClaimsDisjoint), and a row that is not given up has an attempt left.   *)
(***************************************************************************)
EXTENDS Outbox, TLAPS

Reached(e) == Copies(e) # {} \/ e \in handled

\* What open relay transactions and pending rows rely on.
Backed ==
  /\ \A w \in Worker : \A e \in relay[w].posted : Reached(e)
  /\ \A e \in Event : outbox[e] \in {"none", "pending"} => attempts[e] < MaxAttempts

OInv == OutboxTypeOK /\ ClaimsDisjoint /\ Backed /\ NoEventLost

-----------------------------------------------------------------------------
(* Helpers.                                                                *)

\* A message that was posted stays reachable: no step takes the last copy of
\* an unhandled event away.
LEMMA ReachedStays ==
  ASSUME OutboxTypeOK, [OutboxNext]_outboxVars, NEW e \in Event, Reached(e)
  PROVE  Reached(e)'
<1>1. CASE e \in handled
  <2>1. handled \subseteq handled'
    BY DEF OutboxNext, outboxVars, Enqueue, GiveUp, RelayBegin, RelaySend, RelayCommit,
           Receive, Acknowledge, Leave, Crash
  <2> QED BY <1>1, <2>1 DEF Reached
<1>2. CASE Copies(e) # {}
  <2>1. PICK m \in Message : m.event = e /\ (m \in queue \/ m \in dead)
    BY <1>2 DEF Copies
  <2>2. (m \in queue' \/ m \in dead') \/ e \in handled'
    <3>1. CASE \E w \in Worker : Acknowledge(w)
      <4>1. PICK w \in Worker : Acknowledge(w)
        BY <3>1
      <4>2. CASE m = job[w]
        BY <2>1, <4>1, <4>2 DEF Acknowledge
      <4>3. CASE m # job[w]
        BY <2>1, <4>1, <4>3 DEF Acknowledge
      <4> QED BY <4>2, <4>3
    <3>2. CASE \E n \in Message : GiveUp(n)
      BY <2>1, <3>2 DEF GiveUp
    <3>3. CASE ~(\E w \in Worker : Acknowledge(w)) /\ ~(\E n \in Message : GiveUp(n))
      BY <2>1, <3>3 DEF OutboxNext, outboxVars, Enqueue, RelayBegin, RelaySend, Post,
                        RelayCommit, Receive, Leave, Crash
    <3> QED BY <3>1, <3>2, <3>3
  <2> QED BY <2>1, <2>2 DEF Reached, Copies
<1> QED BY <1>1, <1>2 DEF Reached

\* Posting an event makes it reachable, and only adds to the queue.
LEMMA PostReaches ==
  ASSUME OutboxTypeOK, NEW e \in Event, Post(e), dead' = dead, handled' = handled
  PROVE  /\ Reached(e)'
         /\ queue' \subseteq Message
<1>1. PICK n \in 1..(MaxFaults + 1) : queue' = queue \cup {[event |-> e, copy |-> n]}
  BY DEF Post
<1>2. [event |-> e, copy |-> n] \in Message
  BY DEF Message
<1> QED BY <1>1, <1>2 DEF OutboxTypeOK, Reached, Copies

LEMMA InitOInv == OutboxInit => OInv
<1> SUFFICES ASSUME OutboxInit PROVE OInv
  OBVIOUS
<1> USE OutboxAssumption DEF OutboxInit
<1>1. OutboxTypeOK
  BY DEF OutboxTypeOK, Batch, NoBatch
<1>2. ClaimsDisjoint
  BY DEF ClaimsDisjoint, Claimed, NoBatch
<1>3. Backed
  BY DEF Backed, NoBatch
<1>4. NoEventLost
  BY DEF NoEventLost
<1> QED BY <1>1, <1>2, <1>3, <1>4 DEF OInv

-----------------------------------------------------------------------------
(* Types.                                                                  *)

LEMMA TypesStay ==
  ASSUME OInv, [OutboxNext]_outboxVars
  PROVE  OutboxTypeOK'
<1> USE OutboxAssumption DEF OInv
<1>1. ASSUME NEW e \in Event, Enqueue(e) PROVE OutboxTypeOK'
  BY <1>1 DEF Enqueue, OutboxTypeOK
<1>2. ASSUME NEW m \in Message, GiveUp(m) PROVE OutboxTypeOK'
  BY <1>2 DEF GiveUp, OutboxTypeOK
<1>3. ASSUME NEW w \in Worker, NEW k \in Kind, RelayBegin(w, k) PROVE OutboxTypeOK'
  BY <1>3 DEF RelayBegin, Eligible, OutboxTypeOK, Batch
<1>4. ASSUME NEW w \in Worker, NEW e \in Event, RelaySend(w, e) PROVE OutboxTypeOK'
  <2>1. relay' \in [Worker -> Batch]
    <3>1. PICK posted \in SUBSET Event, refused \in SUBSET Event : Settled(w, e, posted, refused)
      BY <1>4 DEF RelaySend, Sent, Refused, OutboxTypeOK, Batch
    <3>2. [todo |-> relay[w].todo \ {e}, posted |-> posted, refused |-> refused] \in Batch
      BY DEF OutboxTypeOK, Batch
    <3> QED BY <3>1, <3>2 DEF Settled, OutboxTypeOK
  <2>2. queue' \subseteq Message
    <3>1. CASE Post(e)
      BY <1>4, <3>1, PostReaches DEF RelaySend
    <3>2. CASE ~Post(e)
      BY <1>4, <3>2 DEF RelaySend, OutboxTypeOK
    <3> QED BY <3>1, <3>2
  <2>3. faults' \in 0..MaxFaults
    BY <1>4 DEF RelaySend, OutboxTypeOK
  <2> QED BY <1>4, <2>1, <2>2, <2>3 DEF RelaySend, OutboxTypeOK
<1>5. ASSUME NEW w \in Worker, RelayCommit(w) PROVE OutboxTypeOK'
  <2>1. attempts' \in [Event -> 0..MaxAttempts]
    <3> SUFFICES ASSUME NEW e \in Event, e \in relay[w].refused
                 PROVE  attempts[e] + 1 \in 0..MaxAttempts
      BY <1>5 DEF RelayCommit, OutboxTypeOK
    <3>1. attempts[e] < MaxAttempts
      BY DEF ClaimsDisjoint, Claimed, Backed
    <3> QED BY <3>1 DEF OutboxTypeOK
  <2>2. outbox' \in [Event -> {"none", "pending", "sent", "failed"}]
    BY <1>5 DEF RelayCommit, OutboxTypeOK
  <2>3. relay' \in [Worker -> Batch]
    BY <1>5 DEF RelayCommit, OutboxTypeOK, Batch, NoBatch
  <2> QED BY <1>5, <2>1, <2>2, <2>3 DEF RelayCommit, OutboxTypeOK
<1>6. ASSUME NEW w \in Worker, NEW m \in Message, Receive(w, m) PROVE OutboxTypeOK'
  <2>1. received' \in [Message -> 0..MaxReceive]
    BY <1>6 DEF Receive, OutboxTypeOK
  <2> QED BY <1>6, <2>1 DEF Receive, OutboxTypeOK
<1>7. ASSUME NEW w \in Worker, Acknowledge(w) PROVE OutboxTypeOK'
  <2>1. job[w].event \in Event
    BY <1>7 DEF Acknowledge, OutboxTypeOK, Message
  <2> QED BY <1>7, <2>1 DEF Acknowledge, OutboxTypeOK
<1>8. ASSUME NEW w \in Worker, Leave(w) PROVE OutboxTypeOK'
  BY <1>8 DEF Leave, OutboxTypeOK
<1>9. ASSUME NEW w \in Worker, Crash(w) PROVE OutboxTypeOK'
  <2>1. faults' \in 0..MaxFaults
    BY <1>9 DEF Crash, OutboxTypeOK
  <2> QED BY <1>9, <2>1 DEF Crash, OutboxTypeOK, Batch, NoBatch
<1>10. CASE UNCHANGED outboxVars
  BY <1>10 DEF outboxVars, OutboxTypeOK
<1> QED BY <1>1, <1>2, <1>3, <1>4, <1>5, <1>6, <1>7, <1>8, <1>9, <1>10 DEF OutboxNext

-----------------------------------------------------------------------------
(* Claims.                                                                 *)

LEMMA ClaimsStay ==
  ASSUME OInv, [OutboxNext]_outboxVars
  PROVE  ClaimsDisjoint'
<1> USE DEF OInv
<1>1. ASSUME NEW e \in Event, Enqueue(e) PROVE ClaimsDisjoint'
  BY <1>1 DEF Enqueue, ClaimsDisjoint, Claimed, OutboxTypeOK
<1>2. ASSUME NEW w \in Worker, NEW k \in Kind, RelayBegin(w, k) PROVE ClaimsDisjoint'
  <2>1. Claimed(w)' = Eligible(k)
    BY <1>2 DEF RelayBegin, Free, Claimed, OutboxTypeOK, Batch
  <2>2. \A v \in Worker \ {w} : Claimed(v)' = Claimed(v)
    BY <1>2 DEF RelayBegin, Claimed, OutboxTypeOK
  <2>3. outbox' = outbox
    BY <1>2 DEF RelayBegin
  <2>4. \A v \in Worker : Claimed(v) \cap Eligible(k) = {}
    BY DEF Eligible, Claimed, OutboxTypeOK, Batch
  <2>5. \A e \in Eligible(k) : outbox[e] = "pending"
    BY DEF Eligible
  <2> QED BY <2>1, <2>2, <2>3, <2>4, <2>5 DEF ClaimsDisjoint
<1>3. ASSUME NEW w \in Worker, NEW e \in Event, RelaySend(w, e) PROVE ClaimsDisjoint'
  <2>1. \A v \in Worker : Claimed(v)' = Claimed(v)
    BY <1>3 DEF RelaySend, Sent, Refused, Settled, Claimed, OutboxTypeOK, Batch
  <2>2. outbox' = outbox
    BY <1>3 DEF RelaySend
  <2> QED BY <2>1, <2>2 DEF ClaimsDisjoint
<1>4. ASSUME NEW w \in Worker, RelayCommit(w) PROVE ClaimsDisjoint'
  <2>1. Claimed(w)' = {}
    BY <1>4 DEF RelayCommit, Claimed, NoBatch, OutboxTypeOK
  <2>2. \A v \in Worker \ {w} : Claimed(v)' = Claimed(v)
    BY <1>4 DEF RelayCommit, Claimed, OutboxTypeOK
  <2>3. \A e \in Event \ Claimed(w) : outbox'[e] = outbox[e]
    BY <1>4 DEF RelayCommit, Claimed
  <2>4. \A v \in Worker : Claimed(v) \subseteq Event
    BY DEF Claimed, OutboxTypeOK, Batch
  <2> QED BY <2>1, <2>2, <2>3, <2>4 DEF ClaimsDisjoint
<1>5. ASSUME NEW w \in Worker, Crash(w) PROVE ClaimsDisjoint'
  <2>1. Claimed(w)' = {}
    BY <1>5 DEF Crash, Claimed, NoBatch, OutboxTypeOK
  <2>2. \A v \in Worker \ {w} : Claimed(v)' = Claimed(v)
    BY <1>5 DEF Crash, Claimed, OutboxTypeOK
  <2>3. outbox' = outbox
    BY <1>5 DEF Crash
  <2> QED BY <2>1, <2>2, <2>3 DEF ClaimsDisjoint
<1>6. CASE UNCHANGED <<relay, outbox>>
  BY <1>6 DEF ClaimsDisjoint, Claimed
<1> QED BY <1>1, <1>2, <1>3, <1>4, <1>5, <1>6
        DEF OutboxNext, outboxVars, GiveUp, Receive, Acknowledge, Leave

-----------------------------------------------------------------------------
(* Nothing is lost.                                                        *)

LEMMA BackedStays ==
  ASSUME OInv, [OutboxNext]_outboxVars
  PROVE  Backed'
<1> USE OutboxAssumption DEF OInv
<1>1. \A w \in Worker : \A e \in relay'[w].posted : Reached(e)'
  <2> SUFFICES ASSUME NEW w \in Worker, NEW e \in relay'[w].posted
               PROVE  Reached(e)'
    OBVIOUS
  <2>1. e \in Event
    BY TypesStay DEF OutboxTypeOK, Batch
  <2>2. CASE e \in relay[w].posted
    BY <2>1, <2>2, ReachedStays DEF Backed
  <2>3. CASE e \notin relay[w].posted
    <3>1. RelaySend(w, e) /\ Post(e)
      BY <2>3 DEF OutboxNext, outboxVars, Enqueue, GiveUp, RelayBegin, RelaySend, Sent, Refused, Settled,
              RelayCommit, Receive, Acknowledge, Leave, Crash, NoBatch, OutboxTypeOK, Batch
    <3> QED BY <2>1, <3>1, PostReaches DEF RelaySend
  <2> QED BY <2>2, <2>3
<1>2. \A e \in Event : outbox'[e] \in {"none", "pending"} => attempts'[e] < MaxAttempts
  <2> SUFFICES ASSUME NEW e \in Event, outbox'[e] \in {"none", "pending"}
               PROVE  attempts'[e] < MaxAttempts
    OBVIOUS
  <2>1. CASE \E w \in Worker : RelayCommit(w)
    <3>1. PICK w \in Worker : RelayCommit(w)
      BY <2>1
    <3>2. outbox[e] \in {"none", "pending"}
      BY <3>1 DEF RelayCommit, OutboxTypeOK
    <3>3. attempts[e] < MaxAttempts
      BY <3>2 DEF Backed
    <3>4. CASE e \in relay[w].refused
      <4>1. ~(attempts[e] + 1 >= MaxAttempts)
        BY <3>1, <3>4 DEF RelayCommit
      <4> QED BY <3>1, <3>4, <4>1 DEF RelayCommit, OutboxTypeOK
    <3>5. CASE e \notin relay[w].refused
      BY <3>1, <3>3, <3>5 DEF RelayCommit
    <3> QED BY <3>4, <3>5
  <2>2. CASE ~\E w \in Worker : RelayCommit(w)
    <3>1. attempts' = attempts /\ outbox[e] \in {"none", "pending"}
      BY <2>2 DEF OutboxNext, outboxVars, Enqueue, GiveUp, RelayBegin, RelaySend, Receive,
              Acknowledge, Leave, Crash, OutboxTypeOK
    <3> QED BY <3>1 DEF Backed
  <2> QED BY <2>1, <2>2
<1> QED BY <1>1, <1>2 DEF Backed

LEMMA NothingGetsLost ==
  ASSUME OInv, [OutboxNext]_outboxVars
  PROVE  NoEventLost'
<1> USE OutboxAssumption DEF OInv
<1> SUFFICES ASSUME NEW e \in Event, outbox'[e] # "none"
             PROVE  outbox'[e] = "pending" \/ GivenUp(e)' \/ Reached(e)'
  BY DEF NoEventLost, Reached
<1>1. CASE Reached(e)
  BY <1>1, ReachedStays
<1>2. CASE ~Reached(e)
  <2>1. CASE \E w \in Worker : RelayCommit(w) /\ e \in Claimed(w)
    <3>1. PICK w \in Worker : RelayCommit(w) /\ e \in Claimed(w)
      BY <2>1
    <3>2. e \notin relay[w].posted
      BY <1>2 DEF Backed
    <3>3. e \in relay[w].refused /\ outbox[e] = "pending"
      BY <3>1, <3>2 DEF RelayCommit, Claimed, ClaimsDisjoint
    <3>4. attempts[e] < MaxAttempts
      BY <3>3 DEF Backed
    <3>5. CASE attempts[e] + 1 >= MaxAttempts
      BY <3>1, <3>2, <3>3, <3>4, <3>5 DEF RelayCommit, GivenUp, OutboxTypeOK
    <3>6. CASE ~(attempts[e] + 1 >= MaxAttempts)
      BY <3>1, <3>2, <3>3, <3>6 DEF RelayCommit
    <3> QED BY <3>5, <3>6
  <2>2. CASE ~\E w \in Worker : RelayCommit(w) /\ e \in Claimed(w)
    <3>1. attempts'[e] = attempts[e] /\ (outbox'[e] = outbox[e] \/ outbox'[e] = "pending")
      BY <2>2 DEF OutboxNext, outboxVars, Enqueue, GiveUp, RelayBegin, RelaySend, RelayCommit,
              Claimed, Receive, Acknowledge, Leave, Crash, OutboxTypeOK
    <3>2. outbox[e] # "none" => outbox[e] = "pending" \/ GivenUp(e)
      BY <1>2 DEF NoEventLost, Reached
    <3> QED BY <3>1, <3>2 DEF GivenUp
  <2> QED BY <2>1, <2>2
<1> QED BY <1>1, <1>2

\* Every step of the outbox, of the relays and of the queues keeps the
\* invariant.
LEMMA NextOInv == OInv /\ [OutboxNext]_outboxVars => OInv'
<1> SUFFICES ASSUME OInv, [OutboxNext]_outboxVars PROVE OInv'
  OBVIOUS
<1> QED BY TypesStay, ClaimsStay, BackedStays, NothingGetsLost DEF OInv

\* The outbox by itself, whatever is done with the jobs: its types, its
\* claims and the promise of outbox.service.ts hold for ever.
THEOREM OutboxInvariance == OutboxSpec => []OInv
<1> QED BY InitOInv, NextOInv, PTL DEF OutboxSpec
=============================================================================
