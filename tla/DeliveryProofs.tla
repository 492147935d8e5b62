---------------------------- MODULE DeliveryProofs ----------------------------
(***************************************************************************)
(* The worker implements the outbox: each of its steps is a step of        *)
(* OutboxSpec or leaves the outbox alone, so that what OutboxProofs shows  *)
(* holds of the composed system.  And a support mail is sent at most once, *)
(* for any number of workers, copies of a job and faults.                  *)
(*                                                                         *)
(* At most one worker is ever past the claim of a mail (Owns): a claim     *)
(* asks for QUEUED, and no step after the insert makes a mail QUEUED.      *)
(*                                                                         *)
(* Mails of notifications are counted with the workers that may add one    *)
(* and the permit to become such a worker (Accounted). Jobs acknowledged   *)
(* are done (DoneInv). A block ends by a decision, or by a worker that had *)
(* read the business before it (BlockInv).                                 *)
(***************************************************************************)
EXTENDS Delivery, OutboxProofs, FiniteSetTheorems

-----------------------------------------------------------------------------
(* Delivery implements the outbox.                                         *)

LEMMA StepIsOutboxStep == [Next]_vars => [OutboxNext]_outboxVars
<1> SUFFICES ASSUME [Next]_vars PROVE [OutboxNext]_outboxVars
  OBVIOUS
<1>1. CASE Queue \/ \E e \in Event : CreateNotification(e)
  BY <1>1 DEF Queue, CreateNotification, Relay, Take, Return, Finish, Die, OutboxNext
<1>2. ASSUME NEW w \in Worker, Notify(w) PROVE [OutboxNext]_outboxVars
  BY <1>2 DEF Notify, LookUp, Claim, TakeOver, Check, Send, Record, Release, Goto, Throw, OutboxNext
<1>3. ASSUME NEW e \in Event, LoseRecipient(e) \/ LeaseExpires(e) PROVE [OutboxNext]_outboxVars
  BY <1>3 DEF LoseRecipient, LeaseExpires
<1>4. ASSUME NEW w \in Worker, Support(w) PROVE [OutboxNext]_outboxVars
  BY <1>4 DEF Support, ReadSupportMail, ClaimSupportMail, SendSupportMail, RecordSupportMail,
              FailSupportMail, Goto, Throw, OutboxNext
<1>5. ASSUME NEW e \in Event, QueueSupportMail(e) \/ Submit(e) PROVE [OutboxNext]_outboxVars
  BY <1>5 DEF QueueSupportMail, Submit, OutboxNext
<1>6. ASSUME NEW w \in Worker, Verify(w) PROVE [OutboxNext]_outboxVars
  BY <1>6 DEF Verify, ReadVerification, ReadBusiness, CompleteVerification, Goto
<1>7. ASSUME NEW e \in Event, NEW s \in Decided, SetVerificationResult(e, s)
      PROVE  [OutboxNext]_outboxVars
  BY <1>7 DEF SetVerificationResult
<1>8. CASE UNCHANGED vars
  BY <1>8 DEF vars
<1> QED BY <1>1, <1>2, <1>3, <1>4, <1>5, <1>6, <1>7, <1>8 DEF Next

\* The worker with its processors implements the outbox it is built on.
THEOREM ImplementsOutbox == Spec => OutboxSpec
<1>1. Init => OutboxInit
  BY DEF Init
<1> QED BY <1>1, StepIsOutboxStep, PTL DEF Spec, OutboxSpec

\* A committed event is pending, on a queue, dead-lettered, given up or
\* processed, whatever the processors do and whatever crashes.
THEOREM EventsSurvive == Spec => []NoEventLost
<1>1. OInv => NoEventLost
  BY DEF OInv
<1> QED BY <1>1, ImplementsOutbox, OutboxInvariance, PTL

\* No two relays ever hold the same row.
THEOREM RelaysApart == Spec => []ClaimsDisjoint
<1>1. OInv => ClaimsDisjoint
  BY DEF OInv
<1> QED BY <1>1, ImplementsOutbox, OutboxInvariance, PTL

-----------------------------------------------------------------------------
(* Types.                                                                  *)

LEMMA InitTypes == Init => TypeOK
<1> SUFFICES ASSUME Init PROVE TypeOK
  OBVIOUS
<1> USE OutboxAssumption, MishapsAssumption, DecisionsAssumption DEF Init
<1>1. OutboxTypeOK
  BY InitOInv DEF OInv
<1>2. NotificationTypeOK
  BY DEF NotificationInit, NotificationTypeOK
<1>3. SupportTypeOK
  BY DEF SupportInit, SupportTypeOK
<1>4. VerificationsTypeOK
  BY DEF VerificationsInit, VerificationsTypeOK, Decided
<1>5. stage \in [Worker -> Stage]
  BY DEF Stage
<1> QED BY <1>1, <1>2, <1>3, <1>4, <1>5 DEF TypeOK

\* The event of a job that is being processed.
LEMMA JobOfEvent ==
  ASSUME TypeOK, NEW w \in Worker, job[w] # NoMessage
  PROVE  TheEvent(w) \in Event
BY DEF TypeOK, OutboxTypeOK, TheEvent, Message

LEMMA StageStays ==
  ASSUME TypeOK, [Next]_vars
  PROVE  stage' \in [Worker -> Stage]
<1> USE DEF TypeOK, Stage
<1>1. CASE Queue
  BY <1>1 DEF Queue, Relay, Take, Return, Finish, Die
<1>2. ASSUME NEW w \in Worker, Notify(w) PROVE stage' \in [Worker -> Stage]
  BY <1>2 DEF Notify, LookUp, Claim, TakeOver, Check, Send, Record, Release, Goto, Throw
<1>3. ASSUME NEW w \in Worker, Support(w) PROVE stage' \in [Worker -> Stage]
  BY <1>3 DEF Support, ReadSupportMail, ClaimSupportMail, SendSupportMail, RecordSupportMail,
              FailSupportMail, Goto, Throw
<1>4. ASSUME NEW w \in Worker, Verify(w) PROVE stage' \in [Worker -> Stage]
  BY <1>4 DEF Verify, ReadVerification, ReadBusiness, CompleteVerification, Goto
<1>5. CASE UNCHANGED stage
  BY <1>5
<1> QED BY <1>1, <1>2, <1>3, <1>4, <1>5
        DEF Next, CreateNotification, LoseRecipient, LeaseExpires, QueueSupportMail, Submit,
            SetVerificationResult, vars

LEMMA NotificationTypesStay ==
  ASSUME TypeOK, [Next]_vars
  PROVE  NotificationTypeOK' /\ mishaps' \in 0..MaxMishaps
<1> USE MishapsAssumption DEF TypeOK, NotificationTypeOK
<1>1. ASSUME NEW w \in Worker, Notify(w) PROVE NotificationTypeOK' /\ mishaps' \in 0..MaxMishaps
  <2>1. TheEvent(w) \in Event
    BY <1>1, JobOfEvent DEF Notify, LookUp, Claim, TakeOver, Check, Send, Record, Release, At
  <2>2. CASE LookUp(w) \/ Check(w) \/ TakeOver(w)
    BY <2>1, <2>2 DEF LookUp, Check, TakeOver, notificationVars
  <2>3. CASE Claim(w) \/ Record(w) \/ Release(w)
    BY <2>1, <2>3 DEF Claim, Record, Release
  <2>4. CASE Send(w)
    BY <2>1, <2>4 DEF Send
  <2> QED BY <1>1, <2>2, <2>3, <2>4 DEF Notify
<1>2. ASSUME NEW e \in Event, LoseRecipient(e) \/ LeaseExpires(e)
      PROVE  NotificationTypeOK' /\ mishaps' \in 0..MaxMishaps
  BY <1>2 DEF LoseRecipient, LeaseExpires
<1>3. ASSUME NEW w \in Worker, Support(w), UNCHANGED notificationVars
      PROVE  NotificationTypeOK' /\ mishaps' \in 0..MaxMishaps
  BY <1>3 DEF Support, ReadSupportMail, ClaimSupportMail, SendSupportMail, RecordSupportMail,
              FailSupportMail, notificationVars
<1>4. CASE UNCHANGED notificationVars /\ UNCHANGED mishaps
  BY <1>4 DEF notificationVars
<1> QED BY <1>1, <1>2, <1>3, <1>4
        DEF Next, QueueSupportMail, Verify, ReadVerification, ReadBusiness, CompleteVerification,
            Submit, SetVerificationResult, vars

LEMMA SupportTypesStay ==
  ASSUME TypeOK, [Next]_vars
  PROVE  SupportTypeOK'
<1> USE DEF TypeOK, SupportTypeOK
<1>1. ASSUME NEW w \in Worker, Support(w) PROVE SupportTypeOK'
  <2>1. TheEvent(w) \in Event
    BY <1>1, JobOfEvent DEF Support, ReadSupportMail, ClaimSupportMail, SendSupportMail,
            RecordSupportMail, FailSupportMail, At
  <2> QED BY <1>1, <2>1 DEF Support, ReadSupportMail, ClaimSupportMail, SendSupportMail,
            RecordSupportMail, FailSupportMail, supportVars
<1>2. ASSUME NEW e \in Event, QueueSupportMail(e) PROVE SupportTypeOK'
  BY <1>2 DEF QueueSupportMail
<1>3. CASE UNCHANGED supportVars
  BY <1>3 DEF supportVars
<1> QED BY <1>1, <1>2, <1>3 DEF Next, vars

LEMMA VerificationTypesStay ==
  ASSUME TypeOK, [Next]_vars
  PROVE  VerificationsTypeOK'
<1> USE DecisionsAssumption DEF TypeOK, VerificationsTypeOK, Decided
<1>1. ASSUME NEW w \in Worker, Verify(w) PROVE VerificationsTypeOK'
  <2>1. TheEvent(w) \in Event
    BY <1>1, JobOfEvent DEF Verify, ReadVerification, ReadBusiness, CompleteVerification, At
  <2> QED BY <1>1, <2>1 DEF Verify, ReadVerification, ReadBusiness, CompleteVerification,
            verificationVars
<1>2. ASSUME NEW e \in Event, Submit(e) PROVE VerificationsTypeOK'
  BY <1>2 DEF Submit
<1>3. ASSUME NEW e \in Event, NEW s \in Decided, SetVerificationResult(e, s)
      PROVE  VerificationsTypeOK'
  BY <1>3 DEF SetVerificationResult
<1>4. CASE UNCHANGED verificationVars
  BY <1>4 DEF verificationVars
<1> QED BY <1>1, <1>2, <1>3, <1>4 DEF Next, vars

LEMMA NextTypes == OInv /\ TypeOK /\ [Next]_vars => TypeOK'
<1> SUFFICES ASSUME OInv, TypeOK, [Next]_vars PROVE TypeOK'
  OBVIOUS
<1>1. OutboxTypeOK'
  BY StepIsOutboxStep, TypesStay
<1> QED BY <1>1, StageStays, NotificationTypesStay, SupportTypesStay, VerificationTypesStay
        DEF TypeOK

\* Every variable keeps its type, and the bounds of the relay hold: no row
\* is tried more than MaxAttempts times, however often it is sent again.
THEOREM TypeCorrect == Spec => []TypeOK
<1>1. Init => OInv /\ TypeOK
  BY InitTypes, InitOInv DEF Init
<1>2. (OInv /\ TypeOK) /\ [Next]_vars => (OInv /\ TypeOK)'
  BY NextTypes, NextOInv, StepIsOutboxStep
<1>3. Spec => [](OInv /\ TypeOK)
  BY <1>1, <1>2, PTL DEF Spec
<1> QED BY <1>3, PTL

-----------------------------------------------------------------------------
(* Support mail.                                                           *)

\* Worker w is past the claim of support mail e.
Owns(w, e) ==
  \E s \in {"send", "record", "fail"} : At(w, "support", s) /\ TheEvent(w) = e

\* The delivery status tells who may send: a mail that can still be claimed
\* was never sent, and it leaves SENDING only through its single owner.
MailsFit ==
  /\ \A e \in Event : outbox[e] = "none" => delivery[e] = "none"
  /\ \A e \in Event : delivery[e] \in {"none", "QUEUED"} => replies[e] = 0
  /\ \A w \in Worker, e \in Event : Owns(w, e) => delivery[e] = "SENDING"
  /\ \A w \in Worker : At(w, "support", "send") => replies[TheEvent(w)] = 0
  /\ \A v, w \in Worker, e \in Event : Owns(v, e) /\ Owns(w, e) => v = w

MailInv == OInv /\ TypeOK /\ MailsFit /\ SupportMailAtMostOnce

LEMMA InitMails == Init => MailInv
<1> SUFFICES ASSUME Init PROVE MailInv
  OBVIOUS
<1>1. OInv /\ TypeOK
  BY InitTypes, InitOInv DEF Init
<1>2. \A w \in Worker : job[w] = NoMessage
  BY DEF Init, OutboxInit
<1>3. MailsFit
  BY <1>2 DEF MailsFit, Owns, At, Init, SupportInit
<1>4. SupportMailAtMostOnce
  BY DEF SupportMailAtMostOnce, Init, SupportInit
<1> QED BY <1>1, <1>3, <1>4 DEF MailInv

\* A step that writes no mail and lets no worker past a claim changes
\* nothing for MailsFit.
LEMMA MailsUntouched ==
  ASSUME MailInv, UNCHANGED supportVars,
         \A e \in Event : outbox'[e] = "none" => outbox[e] = "none",
         \A w \in Worker : At(w, "support", "send")' => At(w, "support", "send") /\ job'[w] = job[w],
         \A w \in Worker, e \in Event : Owns(w, e)' => Owns(w, e)
  PROVE  MailsFit' /\ SupportMailAtMostOnce'
BY DEF MailInv, MailsFit, SupportMailAtMostOnce, supportVars, TheEvent

\* Rows are inserted once.
LEMMA RowsStay ==
  ASSUME MailInv, [Next]_vars, NEW e \in Event, outbox'[e] = "none"
  PROVE  outbox[e] = "none"
BY StepIsOutboxStep DEF MailInv, OInv, OutboxTypeOK, OutboxNext, outboxVars, Enqueue,
   GiveUp, RelayBegin, RelaySend, RelayCommit, Receive, Acknowledge, Leave, Crash

\* Steps other than those of the support processor.
LEMMA OtherSteps ==
  ASSUME MailInv, [Next]_vars, UNCHANGED supportVars, ~\E v \in Worker : Support(v)
  PROVE  MailsFit' /\ SupportMailAtMostOnce'
<1>1. ASSUME NEW w \in Worker, NEW s \in {"send", "record", "fail"}, At(w, "support", s)'
      PROVE  At(w, "support", s) /\ job'[w] = job[w]
  <2> USE <1>1 DEF MailInv, TypeOK, OutboxTypeOK, At, TheEvent
  <2>1. CASE Queue \/ \E e \in Event : CreateNotification(e)
    BY <2>1 DEF Queue, CreateNotification, Relay, Take, Return, Finish, Die, RelayBegin,
            RelaySend, RelayCommit, Receive, Acknowledge, Crash, GiveUp, Enqueue
  <2>2. ASSUME NEW v \in Worker, Notify(v) PROVE At(w, "support", s) /\ job'[w] = job[w]
    BY <2>2 DEF Notify, LookUp, Claim, TakeOver, Check, Send, Record, Release, Goto, Throw,
            Leave, outboxVars
  <2>3. ASSUME NEW v \in Worker, Verify(v) PROVE At(w, "support", s) /\ job'[w] = job[w]
    BY <2>3 DEF Verify, ReadVerification, ReadBusiness, CompleteVerification, Goto, outboxVars
  <2>4. CASE UNCHANGED <<kind, job, stage>>
    BY <2>4
  <2> QED BY <2>1, <2>2, <2>3, <2>4 DEF Next, LoseRecipient, LeaseExpires, QueueSupportMail,
            Submit, SetVerificationResult, Enqueue, outboxVars, vars
<1>2. \A w \in Worker, e \in Event : Owns(w, e)' => Owns(w, e)
  BY <1>1 DEF Owns, TheEvent
<1> QED BY <1>1, <1>2, RowsStay, MailsUntouched

\* A step of the support processor of v moves no other worker.
LEMMA SupportStep ==
  ASSUME MailInv, NEW v \in Worker, Support(v)
  PROVE  /\ outbox' = outbox /\ kind' = kind
         /\ TheEvent(v) \in Event
         /\ \A w \in Worker \ {v} : \A s \in Stage :
              At(w, "support", s)' <=> At(w, "support", s)
         /\ \A w \in Worker \ {v} : job'[w] = job[w]
         /\ \A w \in Worker \ {v}, e \in Event : Owns(w, e)' <=> Owns(w, e)
<1>1. /\ outbox' = outbox /\ kind' = kind
      /\ \A w \in Worker \ {v} : job'[w] = job[w] /\ stage'[w] = stage[w]
  BY DEF Support, ReadSupportMail, ClaimSupportMail, SendSupportMail, RecordSupportMail,
     FailSupportMail, Goto, Throw, Leave, outboxVars, MailInv, TypeOK, OutboxTypeOK
<1>2. TheEvent(v) \in Event
  BY JobOfEvent DEF Support, ReadSupportMail, ClaimSupportMail, SendSupportMail,
     RecordSupportMail, FailSupportMail, At, MailInv
<1>3. \A w \in Worker \ {v} : \A s \in Stage : At(w, "support", s)' <=> At(w, "support", s)
  BY <1>1 DEF At, TheEvent
<1>4. \A w \in Worker \ {v}, e \in Event : Owns(w, e)' <=> Owns(w, e)
  BY <1>1, <1>3 DEF Owns, TheEvent, Stage
<1> QED BY <1>1, <1>2, <1>3, <1>4

LEMMA SupportSteps ==
  ASSUME MailInv, NEW v \in Worker, Support(v), [Next]_vars
  PROVE  MailsFit' /\ SupportMailAtMostOnce'
<1> DEFINE d == TheEvent(v)
<1> USE DEF MailInv, TypeOK, SupportTypeOK
<1>1. CASE ReadSupportMail(v)
  <2>1. \A e \in Event : ~Owns(v, e)'
    BY <1>1 DEF ReadSupportMail, Goto, Owns, At
  <2>2. UNCHANGED supportVars
    BY <1>1 DEF ReadSupportMail
  <2>3. ~At(v, "support", "send")'
    BY <1>1 DEF ReadSupportMail, Goto, At
  <2> QED BY <2>1, <2>2, <2>3, RowsStay, SupportStep, MailsUntouched DEF Stage
<1>2. CASE ClaimSupportMail(v)
  <2>1. CASE delivery[d] = "QUEUED"
    <3>1. delivery' = [delivery EXCEPT ![d] = "SENDING"] /\ replies' = replies /\ job' = job
      BY <1>2, <2>1 DEF ClaimSupportMail, Goto, outboxVars
    <3>2. \A w \in Worker : ~Owns(w, d)
      BY <2>1, SupportStep DEF MailsFit
    <3>3. replies[d] = 0
      BY <2>1, SupportStep DEF MailsFit
    <3>4. TheEvent(v)' = d
      BY <3>1 DEF TheEvent
    <3>5. \A e \in Event : Owns(v, e)' => e = d
      BY <3>4 DEF Owns
    <3>6. outbox[d] # "none"
      BY <2>1, SupportStep DEF MailsFit
    <3> QED BY <3>1, <3>2, <3>3, <3>4, <3>5, <3>6, SupportStep
            DEF MailsFit, SupportMailAtMostOnce, Stage, TheEvent
  <2>2. CASE delivery[d] # "QUEUED"
    <3>1. UNCHANGED supportVars
      BY <1>2, <2>2 DEF ClaimSupportMail, supportVars
    <3>2. \A e \in Event : ~Owns(v, e)'
      BY <1>2, <2>2 DEF ClaimSupportMail, Goto, Owns, At
    <3>3. ~At(v, "support", "send")'
      BY <1>2, <2>2 DEF ClaimSupportMail, Goto, At
    <3> QED BY <3>1, <3>2, <3>3, RowsStay, SupportStep, MailsUntouched DEF Stage
  <2> QED BY <2>1, <2>2
<1>3. CASE SendSupportMail(v)
  <2>1. Owns(v, d) /\ At(v, "support", "send")
    BY <1>3 DEF SendSupportMail, Owns
  <2>2. replies[d] = 0 /\ delivery[d] = "SENDING"
    BY <2>1, SupportStep DEF MailsFit
  <2>3. delivery' = delivery /\ job' = job /\ replies' \in {replies, [replies EXCEPT ![d] = 1]}
    BY <1>3, <2>2, SupportStep DEF SendSupportMail, Goto, outboxVars
  <2>4. \A e \in Event : Owns(v, e)' => e = d
    BY <2>3 DEF Owns, TheEvent
  <2>5. ~At(v, "support", "send")'
    BY <1>3 DEF SendSupportMail, Goto, At
  <2>6. \A w \in Worker \ {v} : At(w, "support", "send") => TheEvent(w) # d
    BY <2>1, SupportStep DEF MailsFit, Owns
  <2>7. \A w \in Worker \ {v} : TheEvent(w)' = TheEvent(w)
    BY <2>3 DEF TheEvent
  <2>8. \A w \in Worker : At(w, "support", "send") => TheEvent(w) \in Event
    BY JobOfEvent DEF At
  <2> QED BY <2>1, <2>2, <2>3, <2>4, <2>5, <2>6, <2>7, <2>8, SupportStep
          DEF MailsFit, SupportMailAtMostOnce, Stage
<1>4. CASE RecordSupportMail(v) \/ FailSupportMail(v)
  <2>1. Owns(v, d)
    BY <1>4 DEF RecordSupportMail, FailSupportMail, Owns
  <2>2. replies' = replies /\ ~At(v, "support", "send")'
    BY <1>4 DEF RecordSupportMail, FailSupportMail, Goto, Throw, Leave, At, OutboxTypeOK
  <2>3. \/ delivery' = delivery /\ job' = job
        \/ /\ \E s \in {"SENT", "FAILED"} : delivery' = [delivery EXCEPT ![d] = s]
           /\ \A e \in Event : ~Owns(v, e)'
    BY <1>4 DEF RecordSupportMail, FailSupportMail, Goto, Throw, Leave, At, Owns, OutboxTypeOK, outboxVars
  <2>4. \A w \in Worker \ {v} : ~Owns(w, d)
    BY <2>1, SupportStep DEF MailsFit
  <2>5. job' = job => \A e \in Event : Owns(v, e)' => e = d
    BY DEF Owns, TheEvent
  <2>6. delivery[d] = "SENDING"
    BY <2>1, SupportStep DEF MailsFit
  <2> QED BY <2>1, <2>2, <2>3, <2>4, <2>5, <2>6, SupportStep
          DEF MailsFit, SupportMailAtMostOnce, Stage, TheEvent
<1> QED BY <1>1, <1>2, <1>3, <1>4 DEF Support

LEMMA Queueing ==
  ASSUME MailInv, [Next]_vars, NEW d \in Event, QueueSupportMail(d)
  PROVE  MailsFit' /\ SupportMailAtMostOnce'
<1> USE DEF MailInv, TypeOK, SupportTypeOK, OutboxTypeOK
<1>1. outbox[d] = "none" /\ delivery[d] = "none" /\ replies[d] = 0
  BY DEF QueueSupportMail, Enqueue, MailsFit
<1>2. /\ delivery' = [delivery EXCEPT ![d] = "QUEUED"] /\ replies' = replies
      /\ outbox' = [outbox EXCEPT ![d] = "pending"] /\ UNCHANGED <<kind, job, stage>>
  BY DEF QueueSupportMail, Enqueue
<1>3. \A w \in Worker : ~Owns(w, d)
  BY <1>1 DEF MailsFit
<1>4. \A w \in Worker, e \in Event : Owns(w, e)' <=> Owns(w, e)
  BY <1>2 DEF Owns, At, TheEvent
<1>5. \A w \in Worker : At(w, "support", "send")' <=> At(w, "support", "send")
  BY <1>2 DEF At, TheEvent
<1> QED BY <1>1, <1>2, <1>3, <1>4, <1>5 DEF MailsFit, SupportMailAtMostOnce, TheEvent

LEMMA NextMails == MailInv /\ [Next]_vars => MailInv'
<1> SUFFICES ASSUME MailInv, [Next]_vars PROVE MailInv'
  OBVIOUS
<1>1. OInv' /\ TypeOK'
  BY NextTypes, NextOInv, StepIsOutboxStep DEF MailInv
<1>2. MailsFit' /\ SupportMailAtMostOnce'
  <2>1. CASE \E v \in Worker : Support(v)
    BY <2>1, SupportSteps
  <2>2. CASE \E e \in Event : QueueSupportMail(e)
    BY <2>2, Queueing
  <2>3. CASE ~(\E v \in Worker : Support(v)) /\ ~(\E e \in Event : QueueSupportMail(e))
    <3>1. UNCHANGED supportVars
      BY <2>3 DEF Next, vars
    <3> QED BY <2>3, <3>1, OtherSteps
  <2> QED BY <2>1, <2>2, <2>3
<1> QED BY <1>1, <1>2 DEF MailInv

\* A customer gets a support message at most once, for any number of
\* workers, copies of its job, crashes and lost answers.
THEOREM SupportMailOnce == Spec => []SupportMailAtMostOnce
<1>1. MailInv => SupportMailAtMostOnce
  BY DEF MailInv
<1> QED BY <1>1, InitMails, NextMails, PTL DEF Spec

-----------------------------------------------------------------------------
(* Mails of notifications.                                                 *)

HoldStage == {"send", "record", "release"}
Holds(w, e, s) == At(w, "notification", s) /\ TheEvent(w) = e

\* Who may still add a mail of event e, or has just failed to.
Busy(e) == {w \in Worker : Holds(w, e, "send") \/ Holds(w, e, "release")}

\* A claim of e is there for the taking: it always was, its lease is over, or
\* its holder is gone and the lease will be.
Permit(e) ==
  IF claim[e] = "none" \/ (claim[e] = "sending" /\ (e \in stale \/ Holders(e) = {})) THEN 1 ELSE 0

\* Every mail of e, every worker that may add one and every permit to become
\* such a worker is paid for: one from the start, the others by a fault, a
\* lost answer or a stall.
Accounted(e) ==
  /\ IsFiniteSet(Busy(e))
  /\ mails[e] + Cardinality(Busy(e)) + Permit(e) <= 1 + faults + mishaps

CauseInv ==
  /\ OInv /\ TypeOK
  /\ \A e \in Event : kind[e] = "notification" => Accounted(e)

LEMMA InitCauses == Init => CauseInv
<1> SUFFICES ASSUME Init PROVE CauseInv
  OBVIOUS
<1>1. OInv /\ TypeOK
  BY InitTypes, InitOInv DEF Init
<1>2. ASSUME NEW e \in Event PROVE Accounted(e)
  <2>1. Busy(e) = {}
    BY DEF Init, OutboxInit, Busy, Holds, At
  <2>2. mails[e] = 0 /\ faults = 0 /\ mishaps = 0
    BY DEF Init, OutboxInit, NotificationInit
  <2>3. Permit(e) \in {0, 1}
    BY DEF Permit
  <2> QED BY <2>1, <2>2, <2>3, FS_EmptySet DEF Accounted
<1> QED BY <1>1, <1>2 DEF CauseInv

LEMMA Numbers ==
  ASSUME TypeOK
  PROVE  /\ faults \in Nat /\ mishaps \in Nat
         /\ \A e \in Event : mails[e] \in Nat
         /\ \A e \in Event : Permit(e) \in {0, 1}
         /\ \A e \in Event : IsFiniteSet(Busy(e)) => Cardinality(Busy(e)) \in Nat
BY OutboxAssumption, MishapsAssumption, FS_CardinalityType DEF TypeOK, OutboxTypeOK, NotificationTypeOK, Permit

\* Nothing of e has moved, but a fault or a mishap may have happened.
LEMMA Unmoved ==
  ASSUME TypeOK, TypeOK', NEW e \in Event, Accounted(e),
         mails'[e] = mails[e], claim'[e] = claim[e], e \in stale' <=> e \in stale,
         Busy(e)' = Busy(e), Holders(e)' = Holders(e), faults <= faults', mishaps <= mishaps'
  PROVE  Accounted(e)'
<1>1. Permit(e)' = Permit(e)
  BY DEF Permit
<1>2. /\ faults \in Nat /\ mishaps \in Nat /\ faults' \in Nat /\ mishaps' \in Nat /\ mails[e] \in Nat
      /\ Permit(e) \in {0, 1} /\ Cardinality(Busy(e)) \in Nat
  BY Numbers, OutboxAssumption, MishapsAssumption DEF Accounted, TypeOK, OutboxTypeOK
<1> QED BY <1>1, <1>2 DEF Accounted

\* A worker that does not hold a claim of e, and will not, changes nothing.
LEMMA Elsewhere ==
  ASSUME TypeOK, kind' = kind, NEW w \in Worker, NEW e \in Event,
         \A v \in Worker \ {w} : job'[v] = job[v] /\ stage'[v] = stage[v],
         \A s \in HoldStage : ~Holds(w, e, s) /\ ~Holds(w, e, s)'
  PROVE  Busy(e)' = Busy(e) /\ Holders(e)' = Holders(e)
<1>1. \A v \in Worker, s \in HoldStage : Holds(v, e, s)' <=> Holds(v, e, s)
  BY DEF Holds, At, TheEvent
<1>2. \A v \in Worker : v \in Busy(e)' <=> v \in Busy(e)
  BY <1>1 DEF Busy, HoldStage
<1>3. \A v \in Worker : v \in Holders(e)' <=> v \in Holders(e)
  BY <1>1 DEF Holders, Holds, HoldStage
<1> QED BY <1>2, <1>3 DEF Busy, Holders

\* A worker that dies may leave a permit behind, and the fault pays for it.
LEMMA DiesAccounted ==
  ASSUME TypeOK, TypeOK', NEW w \in Worker, Die(w), NEW e \in Event, Accounted(e),
         UNCHANGED <<mishaps, notificationVars>>
  PROVE  Accounted(e)'
<1>1. /\ faults' = faults + 1 /\ kind' = kind /\ mails' = mails
      /\ job'[w] = NoMessage /\ \A v \in Worker \ {w} : job'[v] = job[v] /\ stage'[v] = stage[v]
  BY DEF Die, Crash, TypeOK, OutboxTypeOK, notificationVars
<1>2. Busy(e)' = Busy(e) \ {w}
  BY <1>1 DEF Busy, Holds, At, TheEvent
<1>3. IsFiniteSet(Busy(e)') /\ Cardinality(Busy(e)') <= Cardinality(Busy(e))
  BY <1>2, FS_Subset DEF Accounted
<1>4. /\ faults \in Nat /\ mishaps \in Nat /\ mails[e] \in Nat /\ Permit(e) \in {0, 1} /\ Permit(e)' \in {0, 1}
      /\ Cardinality(Busy(e)) \in Nat /\ Cardinality(Busy(e)') \in Nat
  BY <1>3, Numbers, FS_CardinalityType DEF Accounted, Permit
<1> QED BY <1>1, <1>3, <1>4 DEF Accounted

LEMMA LeaseAccounted ==
  ASSUME TypeOK, TypeOK', NEW d \in Event, LeaseExpires(d), NEW e \in Event, Accounted(e)
  PROVE  Accounted(e)'
<1>1. /\ UNCHANGED <<kind, job, stage, faults, claim, mails>>
      /\ \A x \in Event \ {d} : x \in stale' <=> x \in stale
  BY DEF LeaseExpires, outboxVars, TypeOK, NotificationTypeOK
<1>2. Busy(e)' = Busy(e) /\ Holders(e)' = Holders(e)
  BY <1>1 DEF Busy, Holders, Holds, At, TheEvent
<1>3. mishaps' = mishaps \/ mishaps' = mishaps + 1
  BY DEF LeaseExpires
<1>4. CASE e # d
  BY <1>1, <1>2, <1>3, <1>4, Unmoved, Numbers
<1>5. CASE e = d /\ Holders(e) = {}
  <2>1. Permit(e)' = Permit(e)
    BY <1>1, <1>2, <1>5 DEF LeaseExpires, Permit
  <2>2. mishaps' = mishaps
    BY <1>5 DEF LeaseExpires
  <2> QED BY <1>1, <1>2, <2>1, <2>2 DEF Accounted
<1>6. CASE e = d /\ Holders(e) # {}
  <2>1. mishaps' = mishaps + 1
    BY <1>6 DEF LeaseExpires
  <2>2. /\ faults \in Nat /\ mishaps \in Nat /\ mails[e] \in Nat /\ Permit(e) \in {0, 1} /\ Permit(e)' \in {0, 1}
        /\ Cardinality(Busy(e)) \in Nat
    BY Numbers DEF Accounted, Permit
  <2> QED BY <1>1, <1>2, <2>1, <2>2 DEF Accounted
<1> QED BY <1>4, <1>5, <1>6

\* What a step of the processor of w moves.
LEMMA NotifyStep ==
  ASSUME TypeOK, NEW w \in Worker, Notify(w)
  PROVE  /\ kind' = kind /\ faults' = faults /\ mishaps <= mishaps'
         /\ TheEvent(w) \in Event /\ job[w] # NoMessage /\ kind[TheEvent(w)] = "notification"
         /\ job'[w] \in {job[w], NoMessage}
         /\ \A v \in Worker \ {w} : job'[v] = job[v] /\ stage'[v] = stage[v]
<1>1. job[w] # NoMessage /\ kind[TheEvent(w)] = "notification"
  BY DEF Notify, LookUp, Claim, TakeOver, Check, Send, Record, Release, At
<1>2. mishaps <= mishaps'
  BY MishapsAssumption DEF Notify, LookUp, Claim, TakeOver, Check, Send, Record, Release, TypeOK
<1>3. kind' = kind /\ faults' = faults
  BY DEF Notify, LookUp, Claim, TakeOver, Check, Send, Record, Release, Goto, Throw, Leave, outboxVars
<1>4. /\ job'[w] \in {job[w], NoMessage}
      /\ \A v \in Worker \ {w} : job'[v] = job[v] /\ stage'[v] = stage[v]
  BY DEF Notify, LookUp, Claim, TakeOver, Check, Send, Record, Release, Goto, Throw, Leave, outboxVars,
         TypeOK, OutboxTypeOK
<1> QED BY <1>1, <1>2, <1>3, <1>4, JobOfEvent

\* The other workers hold what they held.
LEMMA HoldsChange ==
  ASSUME TypeOK, NEW w \in Worker, Notify(w), NEW e \in Event
  PROVE  /\ \A v \in Worker \ {w} : (v \in Busy(e)' <=> v \in Busy(e)) /\ (v \in Holders(e)' <=> v \in Holders(e))
         /\ Busy(e)' \subseteq Worker
BY NotifyStep DEF Busy, Holders, Holds, At, TheEvent

LEMMA NotifyElsewhere ==
  ASSUME TypeOK, TypeOK', NEW w \in Worker, Notify(w), NEW e \in Event, e # TheEvent(w), Accounted(e)
  PROVE  Accounted(e)'
<1>1. \A s \in HoldStage : ~Holds(w, e, s) /\ ~Holds(w, e, s)'
  BY NotifyStep DEF Holds, At, TheEvent
<1>2. Busy(e)' = Busy(e) /\ Holders(e)' = Holders(e)
  BY <1>1, NotifyStep, Elsewhere
<1>3. mails'[e] = mails[e] /\ claim'[e] = claim[e] /\ (e \in stale' <=> e \in stale)
  BY DEF Notify, LookUp, Claim, TakeOver, Check, Send, Record, Release, notificationVars, TypeOK, NotificationTypeOK
<1> QED BY <1>2, <1>3, NotifyStep, Numbers, Unmoved

LEMMA NotifyHere ==
  ASSUME TypeOK, TypeOK', NEW w \in Worker, Notify(w), NEW e \in Event, e = TheEvent(w), Accounted(e)
  PROVE  Accounted(e)'
<1>0. /\ faults \in Nat /\ mishaps \in Nat /\ mails[e] \in Nat /\ Permit(e) \in {0, 1} /\ Permit(e)' \in {0, 1}
      /\ Cardinality(Busy(e)) \in Nat /\ IsFiniteSet(Busy(e)) /\ faults' = faults
      /\ mails[e] + Cardinality(Busy(e)) + Permit(e) <= 1 + faults + mishaps
  BY Numbers, NotifyStep DEF Accounted, Permit
<1>1. ASSUME w \notin Busy(e), w \notin Holders(e), stage'[w] \notin HoldStage \/ job'[w] = NoMessage,
             UNCHANGED <<notificationVars, mishaps>>
      PROVE  Accounted(e)'
  <2>1. w \notin Busy(e)' /\ w \notin Holders(e)'
    BY <1>1 DEF Busy, Holders, Holds, At, HoldStage
  <2>2. Busy(e)' = Busy(e) /\ Holders(e)' = Holders(e)
    BY <1>1, <2>1, HoldsChange DEF Busy, Holders
  <2> QED BY <1>1, <2>2, NotifyStep, Numbers, Unmoved DEF notificationVars
\* A worker takes the permit and becomes busy.
<1>2. ASSUME At(w, "notification", "claim") \/ At(w, "notification", "takeover"), Permit(e) = 1, Goto(w, "send"),
             claim'[e] = "sending", e \notin stale', UNCHANGED <<mails, mishaps>>
      PROVE  Accounted(e)'
  <2>1. w \notin Busy(e) /\ w \in Busy(e)' /\ w \in Holders(e)'
    BY <1>2, NotifyStep DEF Busy, Holders, Holds, At, Goto, TheEvent, outboxVars, TypeOK
  <2>2. Busy(e)' = Busy(e) \cup {w}
    BY <2>1, HoldsChange DEF Busy
  <2>3. IsFiniteSet(Busy(e)') /\ Cardinality(Busy(e)') = Cardinality(Busy(e)) + 1
    BY <1>0, <2>1, <2>2, FS_AddElement
  <2>4. Permit(e)' = 0
    BY <1>2, <2>1 DEF Permit
  <2> QED BY <1>0, <1>2, <2>3, <2>4 DEF Accounted
\* A busy worker that is busy no more makes room for a mail or a permit.
<1>3. ASSUME w \in Busy(e), w \notin Busy(e)', mails'[e] + Permit(e)' <= mails[e] + Permit(e) + 1,
             mishaps' = mishaps
      PROVE  Accounted(e)'
  <2>1. Busy(e)' = Busy(e) \ {w}
    BY <1>3, HoldsChange DEF Busy
  <2>2. IsFiniteSet(Busy(e)') /\ Cardinality(Busy(e)') = Cardinality(Busy(e)) - 1
    BY <1>0, <1>3, <2>1, FS_RemoveElement
  <2>3. mails'[e] \in Nat
    BY DEF TypeOK, NotificationTypeOK
  <2> QED BY <1>0, <1>3, <2>2, <2>3 DEF Accounted
<1>4. CASE LookUp(w) \/ Check(w)
  <2>1. w \notin Busy(e) /\ w \notin Holders(e) /\ UNCHANGED <<notificationVars, mishaps>>
    BY <1>4 DEF LookUp, Check, At, Busy, Holders, Holds
  <2>2. stage'[w] \notin HoldStage
    BY <1>4 DEF LookUp, Check, Goto, Throw, HoldStage, TypeOK
  <2> QED BY <1>1, <2>1, <2>2
<1>5. CASE Claim(w)
  <2>1. CASE claim[e] = "none"
    <3>1. Permit(e) = 1
      BY <2>1 DEF Permit
    <3>2. /\ At(w, "notification", "claim") /\ Goto(w, "send") /\ claim'[e] = "sending" /\ e \notin stale'
          /\ UNCHANGED <<mails, mishaps>>
      BY <1>5, <2>1 DEF Claim, TypeOK, NotificationTypeOK
    <3> QED BY <1>2, <3>1, <3>2
  <2>2. CASE claim[e] # "none"
    <3>1. w \notin Busy(e) /\ w \notin Holders(e) /\ UNCHANGED <<notificationVars, mishaps>>
      BY <1>5, <2>2 DEF Claim, At, Busy, Holders, Holds, notificationVars
    <3>2. stage'[w] \notin HoldStage
      BY <1>5, <2>2 DEF Claim, Goto, HoldStage, TypeOK
    <3> QED BY <1>1, <3>1, <3>2
  <2> QED BY <2>1, <2>2
<1>6. CASE TakeOver(w)
  <2>1. CASE claim[e] = "sending" /\ e \in stale
    <3>1. Permit(e) = 1
      BY <2>1 DEF Permit
    <3>2. /\ At(w, "notification", "takeover") /\ Goto(w, "send") /\ claim'[e] = "sending" /\ e \notin stale'
          /\ UNCHANGED <<mails, mishaps>>
      BY <1>6, <2>1 DEF TakeOver, TypeOK, NotificationTypeOK
    <3> QED BY <1>2, <3>1, <3>2
  <2>2. CASE ~(claim[e] = "sending" /\ e \in stale)
    <3>1. w \notin Busy(e) /\ w \notin Holders(e) /\ UNCHANGED <<notificationVars, mishaps>>
      BY <1>6, <2>2 DEF TakeOver, At, Busy, Holders, Holds, notificationVars
    <3>2. stage'[w] \notin HoldStage
      BY <1>6, <2>2 DEF TakeOver, Goto, HoldStage, TypeOK
    <3> QED BY <1>1, <3>1, <3>2
  <2> QED BY <2>1, <2>2
<1>7. CASE Send(w)
  <2>1. w \in Busy(e) /\ w \in Holders(e) /\ UNCHANGED <<claim, stale, kind, job>>
    BY <1>7 DEF Send, Goto, Busy, Holders, Holds, At, outboxVars
  <2>2. PICK s \in {"record", "release"} : stage'[w] = s
    BY <1>7 DEF Send, Goto, TypeOK
  <2>3. Holds(w, e, s)' /\ w \in Holders(e)'
    BY <1>7, <2>1, <2>2 DEF Holders, Holds, Send, At, TheEvent
  <2>4. Holders(e)' = Holders(e)
    BY <2>1, <2>3, HoldsChange DEF Holders
  <2>5. Permit(e)' = Permit(e)
    BY <2>1, <2>4 DEF Permit
  <2>6. CASE stage'[w] = "record"
    <3>1. w \notin Busy(e)'
      BY <2>6 DEF Busy, Holds, At
    <3>2. mails'[e] = mails[e] + 1 /\ mishaps' = mishaps
      BY <1>7, <2>6 DEF Send, Goto, TypeOK, NotificationTypeOK
    <3> QED BY <1>0, <1>3, <2>1, <2>5, <3>1, <3>2
  <2>7. CASE stage'[w] = "release"
    <3>1. w \in Busy(e)'
      BY <2>2, <2>3, <2>7 DEF Busy
    <3>2. Busy(e)' = Busy(e)
      BY <2>1, <3>1, HoldsChange DEF Busy
    <3>3. \/ mails'[e] = mails[e] /\ mishaps' = mishaps
          \/ mails'[e] = mails[e] + 1 /\ mishaps' = mishaps + 1
      BY <1>7, <2>7 DEF Send, Goto, TypeOK, NotificationTypeOK
    <3> QED BY <1>0, <2>5, <3>2, <3>3 DEF Accounted
  <2> QED BY <2>2, <2>6, <2>7
<1>8. CASE Record(w)
  <2>1. UNCHANGED <<mails, mishaps>> /\ w \notin Busy(e)
    BY <1>8 DEF Record, Busy, Holds, At
  <2>2. w \notin Busy(e)'
    BY <1>8 DEF Record, Goto, Busy, Holds, At, TypeOK
  <2>3. Busy(e)' = Busy(e)
    BY <2>1, <2>2, HoldsChange DEF Busy
  <2>4. claim'[e] = IF claim[e] = "none" THEN "none" ELSE "sent"
    BY <1>8 DEF Record, TypeOK, NotificationTypeOK
  <2>5. Permit(e)' <= Permit(e)
    BY <2>4 DEF Permit
  <2> QED BY <1>0, <2>1, <2>3, <2>5 DEF Accounted
<1>9. CASE Release(w)
  <2>1. w \in Busy(e) /\ UNCHANGED <<mails, mishaps>>
    BY <1>9 DEF Release, Busy, Holds, At
  <2>2. w \notin Busy(e)'
    BY <1>9 DEF Release, Throw, Leave, Busy, Holds, At, TypeOK, OutboxTypeOK
  <2> QED BY <1>0, <1>3, <2>1, <2>2
<1> QED BY <1>4, <1>5, <1>6, <1>7, <1>8, <1>9 DEF Notify

\* What no step changes, or only adds to.
LEMMA Monotone ==
  ASSUME TypeOK, [Next]_vars
  PROVE  kind' = kind /\ faults <= faults' /\ mishaps <= mishaps'
<1>1. kind' = kind
  BY StepIsOutboxStep DEF OutboxNext, outboxVars, Enqueue, GiveUp, RelayBegin, RelaySend, RelayCommit,
     Receive, Acknowledge, Leave, Crash
<1>2. faults <= faults'
  <2>1. faults \in Nat
    BY Numbers
  <2> QED BY <2>1, StepIsOutboxStep DEF OutboxNext, outboxVars, Enqueue, GiveUp, RelayBegin, RelaySend,
             RelayCommit, Receive, Acknowledge, Leave, Crash
<1>3. mishaps <= mishaps'
  <2>1. mishaps \in Nat
    BY Numbers
  <2>2. ASSUME NEW w \in Worker, Support(w) PROVE mishaps <= mishaps'
    BY <2>1, <2>2 DEF Support, ReadSupportMail, ClaimSupportMail, SendSupportMail, RecordSupportMail,
       FailSupportMail
  <2>3. ASSUME NEW e \in Event, LeaseExpires(e) PROVE mishaps <= mishaps'
    BY <2>1, <2>3 DEF LeaseExpires
  <2>4. ASSUME NEW w \in Worker, Verify(w) PROVE mishaps <= mishaps'
    BY <2>1, <2>4 DEF Verify, ReadVerification, ReadBusiness, CompleteVerification
  <2>5. CASE mishaps' = mishaps
    BY <2>1, <2>5
  <2> QED BY <2>2, <2>3, <2>4, <2>5, NotifyStep
          DEF Next, LoseRecipient, QueueSupportMail, Submit, SetVerificationResult, vars
<1> QED BY <1>1, <1>2, <1>3

\* A step that is none of the processor of notifications, and no crash.
LEMMA QuietStep ==
  ASSUME TypeOK, [Next]_vars, UNCHANGED notificationVars,
         ~\E w \in Worker : Notify(w) \/ Die(w),
         NEW e \in Event, kind[e] = "notification"
  PROVE  Busy(e)' = Busy(e) /\ Holders(e)' = Holders(e)
<1>0. kind' = kind
  BY Monotone
<1>1. CASE UNCHANGED <<job, stage>>
  BY <1>0, <1>1 DEF Busy, Holders, Holds, At, TheEvent
<1>2. ASSUME NEW w \in Worker, Take(w)
      PROVE  Busy(e)' = Busy(e) /\ Holders(e)' = Holders(e)
  <2>1. \A v \in Worker \ {w} : job'[v] = job[v] /\ stage'[v] = stage[v]
    BY <1>2 DEF Take, Receive, TypeOK, OutboxTypeOK
  <2>2. \A s \in HoldStage : ~Holds(w, e, s) /\ ~Holds(w, e, s)'
    BY <1>2 DEF Take, Receive, Free, Holds, At, HoldStage, TypeOK
  <2> QED BY <1>0, <2>1, <2>2, Elsewhere
<1>3. ASSUME NEW w \in Worker, Return(w)
      PROVE  Busy(e)' = Busy(e) /\ Holders(e)' = Holders(e)
  <2>1. \A v \in Worker \ {w} : job'[v] = job[v] /\ stage'[v] = stage[v]
    BY <1>3 DEF Return, Finish, Acknowledge, TypeOK, OutboxTypeOK
  <2>2. \A s \in HoldStage : ~Holds(w, e, s) /\ ~Holds(w, e, s)'
    BY <1>3 DEF Return, Finish, Acknowledge, Holds, At, HoldStage, TypeOK
  <2> QED BY <1>0, <2>1, <2>2, Elsewhere
<1>4. ASSUME NEW w \in Worker, Support(w) \/ Verify(w)
      PROVE  Busy(e)' = Busy(e) /\ Holders(e)' = Holders(e)
  <2>1. /\ job[w] # NoMessage /\ kind[TheEvent(w)] # "notification" /\ job'[w] \in {job[w], NoMessage}
        /\ \A v \in Worker \ {w} : job'[v] = job[v] /\ stage'[v] = stage[v]
    BY <1>4 DEF Support, ReadSupportMail, ClaimSupportMail, SendSupportMail, RecordSupportMail,
       FailSupportMail, Verify, ReadVerification, ReadBusiness, CompleteVerification, At, Goto, Throw, Leave,
       outboxVars, TypeOK, OutboxTypeOK
  <2>2. \A s \in HoldStage : ~Holds(w, e, s) /\ ~Holds(w, e, s)'
    BY <1>0, <2>1 DEF Holds, At, TheEvent
  <2> QED BY <1>0, <2>1, <2>2, Elsewhere
<1>5. CASE Queue
  <2>1. \/ UNCHANGED <<job, stage>>
        \/ \E w \in Worker : Take(w) \/ Return(w)
    BY <1>5 DEF Queue, Relay, RelayBegin, RelaySend, RelayCommit, GiveUp
  <2> QED BY <1>1, <1>2, <1>3, <2>1
<1> QED BY <1>1, <1>4, <1>5
        DEF Next, CreateNotification, LoseRecipient, LeaseExpires, QueueSupportMail, Submit,
            SetVerificationResult, Enqueue, outboxVars, vars

LEMMA NextCauses == CauseInv /\ [Next]_vars => CauseInv'
<1> SUFFICES ASSUME CauseInv, [Next]_vars PROVE CauseInv'
  OBVIOUS
<1>1. TypeOK /\ OInv' /\ TypeOK' /\ kind' = kind
  BY NextTypes, NextOInv, StepIsOutboxStep, Monotone DEF CauseInv
<1>2. ASSUME NEW e \in Event, kind[e] = "notification" PROVE Accounted(e)'
  <2>1. Accounted(e)
    BY <1>2 DEF CauseInv
  <2>2. CASE \E w \in Worker : Notify(w)
    BY <1>1, <2>1, <2>2, NotifyElsewhere, NotifyHere
  <2>3. CASE \E d \in Event : LeaseExpires(d)
    BY <1>1, <2>1, <2>3, LeaseAccounted
  <2>4. CASE \E d \in Event : LoseRecipient(d)
    <3>1. Busy(e)' = Busy(e) /\ Holders(e)' = Holders(e)
      BY <2>4 DEF LoseRecipient, outboxVars, Busy, Holders, Holds, At, TheEvent
    <3>2. UNCHANGED <<mails, claim, stale, faults, mishaps>>
      BY <2>4 DEF LoseRecipient, outboxVars
    <3> QED BY <1>1, <2>1, <3>1, <3>2, Unmoved, Monotone
  <2>5. CASE (\E w \in Worker : Die(w)) /\ UNCHANGED <<mishaps, notificationVars>>
    BY <1>1, <2>1, <2>5, DiesAccounted
  <2>6. CASE UNCHANGED notificationVars /\ ~\E w \in Worker : Notify(w) \/ Die(w)
    <3>1. Busy(e)' = Busy(e) /\ Holders(e)' = Holders(e)
      BY <1>1, <1>2, <2>6, QuietStep
    <3> QED BY <1>1, <2>1, <2>6, <3>1, Unmoved, Monotone DEF notificationVars
  <2>7. (\E w \in Worker : Die(w)) => faults' # faults
    BY <1>1 DEF Die, Crash, TypeOK, OutboxTypeOK
  <2>8. (\E w \in Worker : Support(w) \/ Verify(w)) => faults' = faults
    BY DEF Support, ReadSupportMail, ClaimSupportMail, SendSupportMail, RecordSupportMail, FailSupportMail,
       Verify, ReadVerification, ReadBusiness, CompleteVerification, Goto, Throw, Leave, outboxVars
  <2>9. /\ \A d \in Event : QueueSupportMail(d) \/ Submit(d) => faults' = faults
        /\ \A d \in Event, s \in Decided : SetVerificationResult(d, s) => faults' = faults
    BY DEF QueueSupportMail, Submit, SetVerificationResult, Enqueue, outboxVars
  <2>10. CASE UNCHANGED notificationVars /\ faults' = faults
    BY <2>2, <2>6, <2>7, <2>10
  <2>11. CASE UNCHANGED <<mishaps, notificationVars>>
    BY <2>2, <2>5, <2>6, <2>11
  <2>12. CASE UNCHANGED vars
    BY <2>11, <2>12 DEF vars
  <2> QED BY <2>2, <2>3, <2>4, <2>8, <2>9, <2>10, <2>11, <2>12 DEF Next
<1> QED BY <1>1, <1>2 DEF CauseInv

\* Every mail of a notification but the first, and every worker about to send
\* one, is accounted for by a crash, a lost answer of SES or a stall.
THEOREM ExtraMailsExplained == Spec => []ExtraMailHasCause
<1>1. ASSUME CauseInv PROVE ExtraMailHasCause
  <2> SUFFICES ASSUME NEW e \in Event, kind[e] = "notification"
               PROVE  mails[e] + Cardinality({w \in Worker : Holds(w, e, "send")}) <= 1 + faults + mishaps
    BY DEF ExtraMailHasCause, Holds
  <2>1. {w \in Worker : Holds(w, e, "send")} \subseteq Busy(e)
    BY DEF Busy
  <2>2. Accounted(e)
    BY <1>1 DEF CauseInv
  <2>3. /\ IsFiniteSet({w \in Worker : Holds(w, e, "send")})
        /\ Cardinality({w \in Worker : Holds(w, e, "send")}) <= Cardinality(Busy(e))
    BY <2>1, <2>2, FS_Subset DEF Accounted
  <2>4. /\ faults \in Nat /\ mishaps \in Nat /\ mails[e] \in Nat /\ Permit(e) \in {0, 1}
        /\ Cardinality(Busy(e)) \in Nat
    BY <1>1, <2>2, Numbers DEF CauseInv, Accounted
  <2>5. Cardinality({w \in Worker : Holds(w, e, "send")}) \in Nat
    BY <2>3, FS_CardinalityType
  <2> QED BY <2>2, <2>3, <2>4, <2>5 DEF Accounted
<1> QED BY <1>1, InitCauses, NextCauses, PTL DEF Spec

-----------------------------------------------------------------------------
(* Acknowledged jobs.                                                      *)

\* A job of e can be acknowledged, and stays so.
Done(e) ==
  /\ kind[e] = "notification" => mails[e] > 0 \/ e \in gone
  /\ kind[e] = "support" => delivery[e] \notin {"none", "QUEUED"}
  /\ kind[e] = "verification" => verification[e] \in Decided \/ decisions > 0

\* Jobs are jobs of inserted rows.
Known ==
  /\ \A m \in queue : outbox[m.event] # "none"
  /\ \A w \in Worker : job[w] # NoMessage => outbox[TheEvent(w)] # "none"
  /\ \A e \in handled : outbox[e] # "none"

\* What the processors read tells what was done: a claim that says "sent" was
\* recorded after a mail, a message that stays SENDING has an owner or lost it
\* to a crash, and only an admin blocks the business.
Evidence ==
  /\ \A e \in Event : claim[e] = "sent" => mails[e] > 0
  /\ \A w \in Worker : At(w, "notification", "record") => mails[TheEvent(w)] > 0
  /\ \A e \in Event : kind[e] = "support" /\ outbox[e] # "none" => delivery[e] # "none"
  /\ \A e \in Event : delivery[e] = "SENDING" => faults > 0 \/ \E w \in Worker : Owns(w, e)
  /\ business = "rejected" => decisions > 0

DoneInv ==
  /\ MailInv /\ Known /\ Evidence
  /\ \A w \in Worker : job[w] # NoMessage /\ stage[w] = "ack" => Done(TheEvent(w))
  /\ \A e \in handled : Done(e)

LEMMA InitDone == Init => DoneInv
<1> SUFFICES ASSUME Init PROVE DoneInv
  OBVIOUS
<1>1. MailInv
  BY InitMails
<1>2. queue = {} /\ handled = {} /\ \A w \in Worker : job[w] = NoMessage
  BY DEF Init, OutboxInit
<1>3. Evidence
  BY <1>2 DEF Evidence, At, Init, OutboxInit, NotificationInit, SupportInit, VerificationsInit
<1> QED BY <1>1, <1>2, <1>3 DEF DoneInv, Known

LEMMA KnownStays ==
  ASSUME MailInv, Known, [Next]_vars
  PROVE  Known'
<1> USE DEF MailInv, OInv, TypeOK, OutboxTypeOK
<1>1. \A e \in Event : outbox[e] # "none" => outbox'[e] # "none"
  BY RowsStay
<1>2. TypeOK'
  BY NextTypes
<1>3. ASSUME NEW m \in queue' PROVE outbox'[m.event] # "none"
  <2>1. m \in Message /\ m.event \in Event
    BY <1>2, <1>3 DEF Message
  <2>2. CASE m \in queue
    BY <1>1, <2>1, <2>2 DEF Known
  <2>3. CASE m \notin queue
    <3>1. PICK w \in Worker, e \in Event : RelaySend(w, e) /\ Post(e)
      BY <1>3, <2>3, StepIsOutboxStep
         DEF OutboxNext, outboxVars, Enqueue, GiveUp, RelayBegin, RelaySend, RelayCommit, Receive,
             Acknowledge, Leave, Crash
    <3>2. m.event = e
      BY <1>3, <2>3, <3>1 DEF Post
    <3>3. outbox[e] = "pending"
      BY <3>1 DEF RelaySend, Claimed, ClaimsDisjoint
    <3> QED BY <1>1, <3>2, <3>3
  <2> QED BY <2>2, <2>3
<1>4. ASSUME NEW w \in Worker, job'[w] # NoMessage PROVE outbox'[TheEvent(w)'] # "none"
  <2>1. job'[w] = job[w] \/ job'[w] \in queue
    BY <1>4, StepIsOutboxStep
       DEF OutboxNext, outboxVars, Enqueue, GiveUp, RelayBegin, RelaySend, RelayCommit, Receive,
           Acknowledge, Leave, Crash
  <2>2. outbox[job'[w].event] # "none" /\ job'[w].event \in Event
    BY <1>2, <1>4, <2>1 DEF Known, TheEvent, Message
  <2> QED BY <1>1, <2>2 DEF TheEvent
<1>5. ASSUME NEW e \in handled' PROVE outbox'[e] # "none"
  <2>1. e \in handled \/ \E w \in Worker : job[w] # NoMessage /\ e = TheEvent(w)
    BY <1>5, StepIsOutboxStep
       DEF OutboxNext, outboxVars, Enqueue, GiveUp, RelayBegin, RelaySend, RelayCommit, Receive,
           Acknowledge, Leave, Crash, TheEvent
  <2>2. e \in Event /\ outbox[e] # "none"
    BY <1>2, <1>5, <2>1 DEF Known
  <2> QED BY <1>1, <2>2
<1> QED BY <1>3, <1>4, <1>5 DEF Known

\* What is done stays done.
LEMMA DoneStays ==
  ASSUME MailInv, [Next]_vars, NEW e \in Event, outbox[e] # "none", Done(e)
  PROVE  Done(e)'
<1> USE DEF MailInv, TypeOK
<1>1. kind' = kind
  BY Monotone
<1>2. ASSUME NEW w \in Worker, Notify(w) PROVE mails[e] > 0 \/ e \in gone => mails'[e] > 0 \/ e \in gone'
  <2>1. TheEvent(w) \in Event /\ mails[e] \in Nat
    BY <1>2, NotifyStep DEF NotificationTypeOK
  <2>2. gone' = gone
    BY <1>2 DEF Notify, LookUp, Claim, TakeOver, Check, Send, Record, Release, notificationVars
  <2>3. mails'[e] = mails[e] \/ mails'[e] = mails[e] + 1
    BY <1>2, <2>1 DEF Notify, LookUp, Claim, TakeOver, Check, Send, Record, Release, notificationVars,
       NotificationTypeOK
  <2> QED BY <2>1, <2>2, <2>3
<1>3. mails[e] > 0 \/ e \in gone => mails'[e] > 0 \/ e \in gone'
  BY <1>2 DEF Next, LoseRecipient, LeaseExpires, notificationVars, vars
<1>4. delivery[e] \notin {"none", "QUEUED"} => delivery'[e] \notin {"none", "QUEUED"}
  BY DEF Next, Support, ReadSupportMail, ClaimSupportMail, SendSupportMail, RecordSupportMail,
     FailSupportMail, QueueSupportMail, Enqueue, supportVars, SupportTypeOK, vars
<1>5. verification[e] \in Decided \/ decisions > 0 => verification'[e] \in Decided \/ decisions' > 0
  <2>1. decisions \in Nat
    BY DecisionsAssumption DEF VerificationsTypeOK
  <2>2. ASSUME NEW w \in Worker, Verify(w)
        PROVE  decisions' = decisions /\ (verification'[e] = verification[e] \/ verification'[e] = "verified")
    BY <2>2 DEF Verify, ReadVerification, ReadBusiness, CompleteVerification, verificationVars, VerificationsTypeOK
  <2>3. ASSUME NEW d \in Event, Submit(d)
        PROVE  decisions' = decisions /\ verification'[e] = verification[e]
    BY <2>3 DEF Submit, Enqueue, VerificationsTypeOK
  <2>4. ASSUME NEW d \in Event, NEW s \in Decided, SetVerificationResult(d, s) PROVE decisions' > 0
    BY <2>1, <2>4 DEF SetVerificationResult
  <2> QED BY <2>2, <2>3, <2>4 DEF Next, verificationVars, Decided, vars
<1> QED BY <1>1, <1>3, <1>4, <1>5 DEF Done

\* A worker comes to the acknowledgement of what is done.
LEMMA ReachesAck ==
  ASSUME MailInv, Known, Evidence, [Next]_vars, NEW w \in Worker, job'[w] # NoMessage, stage'[w] = "ack",
         stage[w] # "ack" \/ job'[w] # job[w]
  PROVE  Done(TheEvent(w))' /\ job'[w] = job[w]
<1> USE DEF MailInv, TypeOK, OutboxTypeOK
<1>1. \/ LookUp(w) \/ Check(w) \/ Record(w)
      \/ ReadSupportMail(w) \/ ClaimSupportMail(w) \/ RecordSupportMail(w)
      \/ Verify(w)
  <2>1. CASE Queue
    BY <2>1 DEF Queue, Relay, Take, Return, Finish, Die, RelayBegin, RelaySend, RelayCommit, Receive,
       Acknowledge, Crash, GiveUp
  <2>2. ASSUME NEW v \in Worker, Notify(v)
        PROVE  v = w /\ (LookUp(w) \/ Check(w) \/ Record(w))
    <3>1. v = w
      BY <2>2, NotifyStep
    <3> QED BY <2>2, <3>1 DEF Notify, Claim, TakeOver, Send, Release, Goto, Throw, Leave
  <2>3. ASSUME NEW v \in Worker, Support(v)
        PROVE  v = w /\ (ReadSupportMail(w) \/ ClaimSupportMail(w) \/ RecordSupportMail(w))
    <3>1. v = w
      BY <2>3 DEF Support, ReadSupportMail, ClaimSupportMail, SendSupportMail, RecordSupportMail,
         FailSupportMail, Goto, Throw, Leave, outboxVars
    <3> QED BY <2>3, <3>1 DEF Support, SendSupportMail, FailSupportMail, Goto, Throw, Leave
  <2>4. ASSUME NEW v \in Worker, Verify(v) PROVE v = w
    BY <2>4 DEF Verify, ReadVerification, ReadBusiness, CompleteVerification, Goto, outboxVars
  <2>5. CASE UNCHANGED <<job, stage>>
    BY <2>5
  <2> QED BY <2>1, <2>2, <2>3, <2>4, <2>5
          DEF Next, CreateNotification, LoseRecipient, LeaseExpires, QueueSupportMail, Submit,
              SetVerificationResult, Enqueue, outboxVars, vars
<1>2. /\ job[w] # NoMessage /\ job' = job /\ kind' = kind
  BY <1>1 DEF LookUp, Check, Record, ReadSupportMail, ClaimSupportMail, RecordSupportMail, Verify,
     ReadVerification, ReadBusiness, CompleteVerification, At, Goto, Throw, Leave, outboxVars
<1>3. PICK e \in Event : e = TheEvent(w)
  BY <1>2, JobOfEvent
<1>4. outbox[e] # "none"
  BY <1>2, <1>3 DEF Known
<1>5. Done(e)'
  <2>1. CASE LookUp(w) \/ Check(w) \/ Record(w)
    <3>1. kind[e] = "notification"
      BY <1>3, <2>1 DEF LookUp, Check, Record, At
    <3>2. mails[e] > 0 \/ e \in gone
      BY <1>2, <1>3, <2>1 DEF LookUp, Check, Record, At, Goto, Throw, Leave, Evidence
    <3>3. mails' = mails /\ gone' = gone
      BY <2>1 DEF LookUp, Check, Record, notificationVars
    <3> QED BY <1>2, <3>1, <3>2, <3>3 DEF Done
  <2>2. CASE ReadSupportMail(w) \/ ClaimSupportMail(w) \/ RecordSupportMail(w)
    <3>1. kind[e] = "support"
      BY <1>3, <2>2 DEF ReadSupportMail, ClaimSupportMail, RecordSupportMail, At
    <3>2. delivery[e] # "none"
      BY <1>4, <3>1 DEF Evidence
    <3>3. delivery'[e] \notin {"none", "QUEUED"}
      BY <1>3, <2>2, <3>2 DEF ReadSupportMail, ClaimSupportMail, RecordSupportMail, Goto, supportVars, SupportTypeOK
    <3> QED BY <1>2, <3>1, <3>3 DEF Done
  <2>3. CASE Verify(w)
    <3>1. kind[e] = "verification"
      BY <1>3, <2>3 DEF Verify, ReadVerification, ReadBusiness, CompleteVerification, At
    <3>2. verification'[e] \in Decided \/ decisions' > 0
      BY <1>3, <2>3 DEF Verify, ReadVerification, ReadBusiness, CompleteVerification, Goto, Evidence,
         verificationVars, VerificationsTypeOK, Decided
    <3> QED BY <1>2, <3>1, <3>2 DEF Done
  <2> QED BY <1>1, <2>1, <2>2, <2>3
<1>6. TheEvent(w)' = e
  BY <1>2, <1>3 DEF TheEvent
<1> QED BY <1>2, <1>5, <1>6

LEMMA NotificationEvidence ==
  ASSUME MailInv, Evidence, [Next]_vars
  PROVE  /\ \A e \in Event : claim'[e] = "sent" => mails'[e] > 0
         /\ \A w \in Worker : At(w, "notification", "record")' => mails'[TheEvent(w)'] > 0
<1> USE DEF MailInv, TypeOK, OutboxTypeOK, NotificationTypeOK
<1>1. kind' = kind
  BY Monotone
<1>2. ASSUME NEW v \in Worker, Notify(v)
      PROVE  /\ \A e \in Event : claim'[e] = "sent" => mails'[e] > 0
             /\ \A w \in Worker : At(w, "notification", "record")' => mails'[TheEvent(w)'] > 0
  <2>1. PICK d \in Event : d = TheEvent(v)
    BY <1>2, NotifyStep
  <2>2. \A e \in Event : mails'[e] >= mails[e]
    BY <1>2, <2>1 DEF Notify, LookUp, Claim, TakeOver, Check, Send, Record, Release, notificationVars
  <2>3. \A e \in Event : claim'[e] = "sent" => claim[e] = "sent" \/ (Record(v) /\ e = d)
    BY <1>2, <2>1 DEF Notify, LookUp, Claim, TakeOver, Check, Send, Record, Release, notificationVars
  <2>4. Record(v) => mails[d] > 0
    BY <2>1 DEF Record, Evidence
  <2>5. \A w \in Worker \ {v} : At(w, "notification", "record")' =>
          At(w, "notification", "record") /\ TheEvent(w)' = TheEvent(w) /\ TheEvent(w) \in Event
    BY <1>1, <1>2, NotifyStep, JobOfEvent DEF At, TheEvent
  <2>6. At(v, "notification", "record")' => mails'[d] > 0 /\ TheEvent(v)' = d
    BY <1>2, <2>1 DEF Notify, LookUp, Claim, TakeOver, Check, Send, Record, Release, Goto, Throw, Leave,
       At, TheEvent, outboxVars
  <2>7. \A e \in Event : mails[e] > 0 => mails'[e] > 0
    <3>1. \A e \in Event : mails[e] \in Nat /\ mails'[e] \in Nat
      BY NextTypes
    <3> QED BY <2>2, <3>1
  <2>8. ASSUME NEW w \in Worker, At(w, "notification", "record")' PROVE mails'[TheEvent(w)'] > 0
    <3>1. CASE w = v
      BY <2>6, <2>8, <3>1
    <3>2. CASE w # v
      BY <2>5, <2>7, <2>8, <3>2 DEF Evidence
    <3> QED BY <3>1, <3>2
  <2> QED BY <2>3, <2>4, <2>7, <2>8 DEF Evidence
<1>3. CASE ~\E v \in Worker : Notify(v)
  <2>1. claim' = claim /\ mails' = mails
    BY <1>3 DEF Next, LoseRecipient, LeaseExpires, notificationVars, vars
  <2>2. ASSUME NEW w \in Worker, At(w, "notification", "record")'
        PROVE  At(w, "notification", "record") /\ TheEvent(w)' = TheEvent(w)
    <3>1. ASSUME NEW v \in Worker, Support(v) \/ Verify(v)
          PROVE  At(w, "notification", "record") /\ TheEvent(w)' = TheEvent(w)
      <4>1. kind[TheEvent(v)] # "notification" /\ job'[v] \in {job[v], NoMessage}
        BY <3>1 DEF Support, ReadSupportMail, ClaimSupportMail, SendSupportMail, RecordSupportMail,
           FailSupportMail, Verify, ReadVerification, ReadBusiness, CompleteVerification, At, Goto, Throw, Leave,
           outboxVars
      <4>2. v # w
        BY <1>1, <2>2, <4>1 DEF At, TheEvent
      <4>3. job'[w] = job[w] /\ stage'[w] = stage[w]
        BY <3>1, <4>2 DEF Support, ReadSupportMail, ClaimSupportMail, SendSupportMail, RecordSupportMail,
           FailSupportMail, Verify, ReadVerification, ReadBusiness, CompleteVerification, Goto, Throw, Leave,
           outboxVars
      <4> QED BY <1>1, <2>2, <4>3 DEF At, TheEvent
    <3>2. CASE Queue
      BY <1>1, <2>2, <3>2 DEF Queue, Relay, Take, Return, Finish, Die, RelayBegin, RelaySend, RelayCommit, Receive,
         Acknowledge, Crash, GiveUp, At, TheEvent
    <3>3. CASE UNCHANGED <<job, stage>>
      BY <1>1, <2>2, <3>3 DEF At, TheEvent
    <3> QED BY <1>3, <3>1, <3>2, <3>3
            DEF Next, CreateNotification, LoseRecipient, LeaseExpires, QueueSupportMail, Submit,
                SetVerificationResult, Enqueue, outboxVars, vars
  <2> QED BY <2>1, <2>2 DEF Evidence
<1> QED BY <1>2, <1>3

LEMMA SupportEvidence ==
  ASSUME MailInv, Evidence, [Next]_vars
  PROVE  /\ \A e \in Event : kind'[e] = "support" /\ outbox'[e] # "none" => delivery'[e] # "none"
         /\ \A e \in Event : delivery'[e] = "SENDING" => faults' > 0 \/ \E w \in Worker : Owns(w, e)'
<1> USE DEF MailInv, TypeOK, OutboxTypeOK, SupportTypeOK
<1>1. kind' = kind /\ faults \in Nat /\ faults' \in Nat /\ faults <= faults'
  <2>1. TypeOK'
    BY NextTypes
  <2> QED BY <2>1, Monotone, OutboxAssumption
<1>2. ASSUME NEW e \in Event, kind[e] = "support", outbox'[e] # "none" PROVE delivery'[e] # "none"
  <2>1. CASE outbox[e] # "none"
    <3>1. delivery[e] # "none"
      BY <1>2, <2>1 DEF Evidence
    <3> QED BY <3>1
            DEF Next, Support, ReadSupportMail, ClaimSupportMail, SendSupportMail, RecordSupportMail,
                FailSupportMail, QueueSupportMail, supportVars, vars
  <2>2. CASE outbox[e] = "none"
    <3>1. QueueSupportMail(e)
      <4>1. ASSUME NEW w \in Worker, Notify(w) \/ Support(w) \/ Verify(w) PROVE outbox' = outbox
        BY <4>1, SupportStep
           DEF Notify, LookUp, Claim, TakeOver, Check, Send, Record, Release, Goto, Throw, Leave, outboxVars,
               Verify, ReadVerification, ReadBusiness, CompleteVerification
      <4>2. ASSUME Queue PROVE outbox'[e] = "none"
        BY <2>2, <4>2 DEF Queue, Relay, Take, Return, Finish, Die, RelayBegin, RelaySend, RelayCommit, Receive,
           Acknowledge, Crash, GiveUp, ClaimsDisjoint, Claimed, OInv
      <4> QED BY <1>2, <2>2, <4>1, <4>2
              DEF Next, CreateNotification, LoseRecipient, LeaseExpires, QueueSupportMail, Submit,
                  SetVerificationResult, Enqueue, outboxVars, vars
    <3> QED BY <3>1 DEF QueueSupportMail
  <2> QED BY <2>1, <2>2
<1>3. ASSUME NEW e \in Event, delivery'[e] = "SENDING", faults' = 0 PROVE \E w \in Worker : Owns(w, e)'
  <2>1. faults = 0
    BY <1>1, <1>3
  <2>2. CASE \E w \in Worker : Support(w)
    <3>1. PICK v \in Worker : Support(v)
      BY <2>2
    <3>2. PICK d \in Event : d = TheEvent(v)
      BY <3>1, SupportStep
    <3>3. CASE delivery[e] = "SENDING"
      <4>1. PICK w \in Worker : Owns(w, e)
        BY <2>1, <3>3 DEF Evidence
      <4>2. CASE w # v
        BY <3>1, <4>1, <4>2, SupportStep
      <4>3. CASE w = v
        <5>1. e = d /\ (SendSupportMail(v) \/ RecordSupportMail(v) \/ FailSupportMail(v))
          BY <3>1, <3>2, <4>1, <4>3 DEF Support, ReadSupportMail, ClaimSupportMail, Owns, At
        <5>2. job' = job /\ stage'[v] \in {"record", "fail"}
          BY <1>3, <3>2, <5>1 DEF SendSupportMail, RecordSupportMail, FailSupportMail, Goto, outboxVars
        <5>3. job[v] # NoMessage /\ kind[d] = "support"
          BY <3>2, <4>1, <4>3 DEF Owns, At
        <5>4. TheEvent(v)' = d
          BY <3>2, <5>2 DEF TheEvent
        <5> QED BY <1>1, <4>3, <5>1, <5>2, <5>3, <5>4 DEF Owns, At
      <4> QED BY <4>2, <4>3
    <3>4. CASE delivery[e] # "SENDING"
      <4>1. e = d /\ ClaimSupportMail(v) /\ Goto(v, "send")
        BY <1>3, <3>1, <3>2, <3>4 DEF Support, ReadSupportMail, ClaimSupportMail, SendSupportMail,
           RecordSupportMail, FailSupportMail, supportVars
      <4>2. job' = job /\ stage'[v] = "send" /\ job[v] # NoMessage /\ kind[d] = "support"
        BY <3>2, <4>1 DEF ClaimSupportMail, Goto, outboxVars, At
      <4>3. TheEvent(v)' = d
        BY <3>2, <4>2 DEF TheEvent
      <4> QED BY <1>1, <4>1, <4>2, <4>3 DEF Owns, At
    <3> QED BY <3>3, <3>4
  <2>3. CASE ~\E w \in Worker : Support(w)
    <3>1. delivery[e] = "SENDING"
      BY <1>3, <2>3 DEF Next, QueueSupportMail, supportVars, vars
    <3>2. PICK w \in Worker : Owns(w, e)
      BY <2>1, <3>1 DEF Evidence
    <3>3. job'[w] = job[w] /\ stage'[w] = stage[w]
      <4>1. job[w] # NoMessage /\ kind[TheEvent(w)] = "support" /\ stage[w] \in {"send", "record", "fail"}
        BY <3>2 DEF Owns, At
      <4>2. CASE Queue
        BY <1>3, <2>1, <4>1, <4>2 DEF Queue, Relay, Take, Return, Finish, Die, RelayBegin, RelaySend, RelayCommit,
           Receive, Free, Acknowledge, Crash, GiveUp
      <4>3. ASSUME NEW v \in Worker, Notify(v) PROVE job'[w] = job[w] /\ stage'[w] = stage[w]
        BY <4>1, <4>3, NotifyStep
      <4>4. ASSUME NEW v \in Worker, Verify(v) PROVE job'[w] = job[w] /\ stage'[w] = stage[w]
        BY <4>1, <4>4 DEF Verify, ReadVerification, ReadBusiness, CompleteVerification, At, Goto, outboxVars
      <4> QED BY <2>3, <4>2, <4>3, <4>4
              DEF Next, CreateNotification, LoseRecipient, LeaseExpires, QueueSupportMail, Submit,
                  SetVerificationResult, Enqueue, outboxVars, vars
    <3> QED BY <1>1, <3>2, <3>3 DEF Owns, At, TheEvent
  <2> QED BY <2>2, <2>3
<1> QED BY <1>1, <1>2, <1>3

LEMMA BusinessEvidence ==
  ASSUME MailInv, Evidence, [Next]_vars
  PROVE  business' = "rejected" => decisions' > 0
<1> USE DEF MailInv, TypeOK, VerificationsTypeOK
<1>0. decisions \in Nat
  BY DecisionsAssumption
<1>1. ASSUME NEW w \in Worker, Verify(w)
      PROVE  decisions' = decisions /\ (business' = "rejected" => business = "rejected")
  BY <1>1 DEF Verify, ReadVerification, ReadBusiness, CompleteVerification, verificationVars
<1>2. ASSUME NEW d \in Event, NEW s \in Decided, SetVerificationResult(d, s) PROVE decisions' > 0
  BY <1>0, <1>2 DEF SetVerificationResult
<1>3. ASSUME NEW d \in Event, Submit(d) PROVE decisions' = decisions /\ business' = business
  BY <1>3 DEF Submit
<1> QED BY <1>1, <1>2, <1>3 DEF Evidence, Next, verificationVars, vars

LEMMA NextDone == DoneInv /\ [Next]_vars => DoneInv'
<1> SUFFICES ASSUME DoneInv, [Next]_vars PROVE DoneInv'
  OBVIOUS
<1>1. MailInv /\ Known /\ Evidence /\ MailInv' /\ Known'
  BY NextMails, KnownStays DEF DoneInv
<1>2. Evidence'
  BY <1>1, NotificationEvidence, SupportEvidence, BusinessEvidence DEF Evidence
<1>3. ASSUME NEW w \in Worker, job'[w] # NoMessage, stage'[w] = "ack" PROVE Done(TheEvent(w))'
  <2>1. CASE stage[w] = "ack" /\ job'[w] = job[w]
    <3>1. PICK e \in Event : e = TheEvent(w)
      BY <1>1, <1>3, <2>1, JobOfEvent DEF MailInv
    <3>2. Done(e) /\ outbox[e] # "none"
      BY <1>1, <1>3, <2>1, <3>1 DEF DoneInv, Known
    <3>3. Done(e)'
      BY <1>1, <3>2, DoneStays
    <3>4. TheEvent(w)' = e
      BY <2>1, <3>1 DEF TheEvent
    <3> QED BY <3>3, <3>4
  <2>2. CASE stage[w] # "ack" \/ job'[w] # job[w]
    BY <1>1, <1>3, <2>2, ReachesAck
  <2> QED BY <2>1, <2>2
<1>4. ASSUME NEW e \in handled' PROVE Done(e)'
  <2>1. e \in Event
    BY <1>1, <1>4 DEF MailInv, TypeOK, OutboxTypeOK
  <2>2. Done(e) /\ outbox[e] # "none"
    <3>1. CASE e \in handled
      BY <3>1 DEF DoneInv, Known
    <3>2. CASE e \notin handled
      <4>1. PICK w \in Worker : Return(w) /\ e = TheEvent(w)
        <5>1. \A w \in Worker : Notify(w) \/ Support(w) \/ Verify(w) => handled' = handled
          BY DEF Notify, LookUp, Claim, TakeOver, Check, Send, Record, Release, Support, ReadSupportMail,
             ClaimSupportMail, SendSupportMail, RecordSupportMail, FailSupportMail, Verify, ReadVerification,
             ReadBusiness, CompleteVerification, Goto, Throw, Leave, outboxVars
        <5>2. CASE Queue
          BY <1>4, <3>2, <5>2 DEF Queue, Relay, Take, Return, Finish, Die, RelayBegin, RelaySend, RelayCommit,
             Receive, Acknowledge, Crash, GiveUp, TheEvent
        <5> QED BY <1>4, <3>2, <5>1, <5>2
                DEF Next, CreateNotification, LoseRecipient, LeaseExpires, QueueSupportMail, Submit,
                    SetVerificationResult, Enqueue, outboxVars, vars
      <4>2. job[w] # NoMessage /\ stage[w] = "ack"
        BY <4>1 DEF Return, Finish, Acknowledge
      <4> QED BY <4>1, <4>2 DEF DoneInv, Known
    <3> QED BY <3>1, <3>2
  <2> QED BY <1>1, <2>1, <2>2, DoneStays
<1> QED BY <1>1, <1>2, <1>3, <1>4 DEF DoneInv

\* An acknowledged job was done, whatever failed, died or overtook it, for any
\* number of workers and copies of a job.
THEOREM AcknowledgedIsDone == Spec => []AcknowledgedMeansDone
<1>1. ASSUME DoneInv PROVE AcknowledgedMeansDone
  <2> SUFFICES ASSUME NEW e \in handled
               PROVE  /\ kind[e] = "notification" => mails[e] > 0 \/ e \in gone
                      /\ kind[e] = "support" =>
                           \/ delivery[e] \in {"SENT", "FAILED"}
                           \/ /\ delivery[e] = "SENDING"
                              /\ faults > 0 \/ \E w \in Worker : job[w] # NoMessage /\ TheEvent(w) = e
                      /\ kind[e] = "verification" => verification[e] \in Decided \/ decisions > 0
    BY DEF AcknowledgedMeansDone
  <2>1. Done(e) /\ e \in Event
    BY <1>1 DEF DoneInv, MailInv, TypeOK, OutboxTypeOK
  <2>2. delivery[e] \in {"none", "QUEUED", "SENDING", "SENT", "FAILED"}
    BY <1>1, <2>1 DEF DoneInv, MailInv, TypeOK, SupportTypeOK
  <2>3. delivery[e] = "SENDING" =>
          faults > 0 \/ \E w \in Worker : job[w] # NoMessage /\ TheEvent(w) = e
    BY <1>1, <2>1 DEF DoneInv, Evidence, Owns, At
  <2> QED BY <2>1, <2>2, <2>3 DEF Done
<1> QED BY <1>1, InitDone, NextDone, PTL DEF Spec

-----------------------------------------------------------------------------
(* The block of a business.                                                *)

\* A worker that is about to approve and finds the business blocked after all
\* has read it before an admin decided.
BlockInv ==
  /\ OInv /\ TypeOK
  /\ \A w \in Worker :
       /\ readAt[w] <= decisions
       /\ At(w, "verification", "complete") /\ business = "rejected" => readAt[w] < decisions

LEMMA InitBlock == Init => BlockInv
<1> SUFFICES ASSUME Init PROVE BlockInv
  OBVIOUS
<1>1. OInv /\ TypeOK
  BY InitTypes, InitOInv DEF Init
<1> QED BY <1>1 DEF BlockInv, Init, OutboxInit, VerificationsInit, At

\* A worker comes to the approval only from the read of the business.
LEMMA ComesToComplete ==
  ASSUME TypeOK, [Next]_vars, NEW w \in Worker, At(w, "verification", "complete")', ~ReadBusiness(w)
  PROVE  At(w, "verification", "complete") /\ ~CompleteVerification(w)
<1> USE DEF TypeOK, OutboxTypeOK
<1>1. kind' = kind
  BY Monotone
<1>2. ~CompleteVerification(w)
  BY DEF CompleteVerification, Goto, At
<1>3. job'[w] = job[w] /\ stage'[w] = "complete" /\ stage[w] = "complete"
  <2>1. CASE Queue
    BY <2>1 DEF Queue, Relay, Take, Return, Finish, Die, RelayBegin, RelaySend, RelayCommit, Receive,
       Acknowledge, Crash, GiveUp, At
  <2>2. ASSUME NEW v \in Worker, Notify(v) PROVE job'[w] = job[w] /\ stage[w] = stage'[w]
    <3>1. v # w
      BY <2>2, NotifyStep, <1>1 DEF At, TheEvent
    <3> QED BY <2>2, <3>1, NotifyStep
  <2>3. ASSUME NEW v \in Worker, Support(v) PROVE job'[w] = job[w] /\ stage[w] = stage'[w]
    <3>1. kind[TheEvent(v)] = "support" /\ job'[v] \in {job[v], NoMessage}
      BY <2>3 DEF Support, ReadSupportMail, ClaimSupportMail, SendSupportMail, RecordSupportMail,
         FailSupportMail, Goto, Throw, Leave, outboxVars, At
    <3>2. v # w
      BY <1>1, <3>1 DEF At, TheEvent
    <3> QED BY <2>3, <3>2 DEF Support, ReadSupportMail, ClaimSupportMail, SendSupportMail, RecordSupportMail,
         FailSupportMail, Goto, Throw, Leave, outboxVars
  <2>4. ASSUME NEW v \in Worker, Verify(v) PROVE job'[w] = job[w] /\ stage[w] = stage'[w]
    <3>1. CASE v = w
      BY <1>2, <2>4, <3>1 DEF Verify, ReadVerification, Goto, At
    <3>2. CASE v # w
      BY <2>4, <3>2 DEF Verify, ReadVerification, ReadBusiness, CompleteVerification, Goto, outboxVars
    <3> QED BY <3>1, <3>2
  <2>5. CASE UNCHANGED <<job, stage>>
    BY <2>5 DEF At
  <2>6. stage'[w] = "complete"
    BY DEF At
  <2> QED BY <2>1, <2>2, <2>3, <2>4, <2>5, <2>6
          DEF Next, CreateNotification, LoseRecipient, LeaseExpires, QueueSupportMail, Submit,
              SetVerificationResult, Enqueue, outboxVars, vars
<1> QED BY <1>1, <1>2, <1>3 DEF At, TheEvent

LEMMA NextBlock == BlockInv /\ [Next]_vars => BlockInv'
<1> SUFFICES ASSUME BlockInv, [Next]_vars PROVE BlockInv'
  OBVIOUS
<1> USE DEF BlockInv
<1>1. OInv' /\ TypeOK'
  BY NextTypes, NextOInv, StepIsOutboxStep
<1>2. /\ decisions \in Nat /\ decisions' \in Nat
      /\ \A w \in Worker : readAt[w] \in Nat /\ readAt'[w] \in Nat
  BY <1>1, DecisionsAssumption DEF TypeOK, VerificationsTypeOK
<1>3. ASSUME NEW w \in Worker
      PROVE  /\ readAt'[w] <= decisions'
             /\ At(w, "verification", "complete")' /\ business' = "rejected" => readAt'[w] < decisions'
  <2>1. CASE \E v \in Worker : Verify(v)
    <3>1. PICK v \in Worker : Verify(v)
      BY <2>1
    <3>2. decisions' = decisions /\ (business' = "rejected" => business = "rejected")
      BY <3>1 DEF Verify, ReadVerification, ReadBusiness, CompleteVerification, verificationVars
    <3>3. readAt'[w] = readAt[w] \/ readAt'[w] = decisions \/ readAt'[w] = 0
      BY <3>1 DEF Verify, ReadVerification, ReadBusiness, CompleteVerification, verificationVars,
         TypeOK, VerificationsTypeOK
    <3>4. ASSUME At(w, "verification", "complete")', business' = "rejected" PROVE readAt'[w] < decisions'
      <4>1. ~ReadBusiness(w)
        BY <3>4 DEF ReadBusiness, At, Goto, TypeOK
      <4>2. At(w, "verification", "complete") /\ ~CompleteVerification(w)
        BY <3>4, <4>1, ComesToComplete
      <4>3. readAt'[w] = readAt[w]
        BY <3>1, <4>1, <4>2 DEF Verify, ReadVerification, ReadBusiness, CompleteVerification, verificationVars,
           TypeOK, VerificationsTypeOK
      <4> QED BY <3>2, <3>4, <4>2, <4>3
    <3> QED BY <1>2, <3>2, <3>3, <3>4
  <2>2. CASE \E d \in Event, s \in Decided : SetVerificationResult(d, s)
    <3>1. decisions' = decisions + 1 /\ readAt' = readAt
      BY <2>2 DEF SetVerificationResult
    <3> QED BY <1>2, <3>1
  <2>3. CASE UNCHANGED <<business, decisions, readAt>> /\ ~\E v \in Worker : Verify(v)
    <3>1. ~ReadBusiness(w)
      BY <2>3 DEF Verify
    <3>2. At(w, "verification", "complete")' => At(w, "verification", "complete")
      BY <3>1, ComesToComplete
    <3> QED BY <2>3, <3>2
  <2> QED BY <2>1, <2>2, <2>3 DEF Next, Submit, verificationVars, vars
<1> QED BY <1>1, <1>3

\* A business that an admin blocked comes free by a decision, or by a worker
\* that read it before the block; never by a job that starts later.
THEOREM BlocksHold == Spec => BlockHoldsBetweenJobs
<1>1. ASSUME BlockInv, [Next]_vars
      PROVE  [business = "rejected" /\ business' = "verified" =>
                \/ decisions' # decisions
                \/ \E w \in Worker : At(w, "verification", "complete") /\ readAt[w] < decisions
             ]_<<business, decisions>>
  <2> SUFFICES ASSUME business = "rejected", business' = "verified"
               PROVE  \/ decisions' # decisions
                      \/ \E w \in Worker : At(w, "verification", "complete") /\ readAt[w] < decisions
    OBVIOUS
  <2>1. ASSUME NEW w \in Worker, Verify(w) PROVE At(w, "verification", "complete")
    BY <2>1 DEF Verify, ReadVerification, ReadBusiness, CompleteVerification, verificationVars
  <2>2. ASSUME NEW d \in Event, NEW s \in Decided, SetVerificationResult(d, s) PROVE decisions' # decisions
    BY <1>1, <2>2, DecisionsAssumption DEF SetVerificationResult, BlockInv, TypeOK, VerificationsTypeOK
  <2> QED BY <1>1, <2>1, <2>2 DEF BlockInv, Next, Submit, verificationVars, vars
<1> QED BY <1>1, InitBlock, NextBlock, PTL DEF Spec, BlockHoldsBetweenJobs
=============================================================================
