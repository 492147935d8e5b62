------------------------------ MODULE Delivery ------------------------------
(***************************************************************************)
(* The worker: the outbox and its queues, with the three processors their  *)
(* jobs go to (src/server/src/worker.ts).                                  *)
(***************************************************************************)
EXTENDS Verifications

vars == <<outboxVars, stage, mishaps, notificationVars, supportVars, verificationVars>>

Stage == {"idle", "start", "claim", "takeover", "check", "send", "record", "release", "fail",
          "business", "complete", "ack"}

\* Type correctness of every variable.
TypeOK ==
  /\ OutboxTypeOK
  /\ stage \in [Worker -> Stage]
  /\ mishaps \in 0..MaxMishaps
  /\ NotificationTypeOK
  /\ SupportTypeOK
  /\ VerificationsTypeOK

Init ==
  /\ OutboxInit
  /\ stage = [w \in Worker |-> "idle"]
  /\ mishaps = 0
  /\ NotificationInit
  /\ SupportInit
  /\ VerificationsInit

\* NotificationsService.create: in the transaction of its caller.
CreateNotification(e) ==
  /\ kind[e] = "notification"
  /\ Enqueue(e)
  /\ UNCHANGED <<stage, mishaps>>

Take(w) == \E m \in Message : Receive(w, m) /\ stage' = [stage EXCEPT ![w] = "start"]
Return(w) == stage[w] = "ack" /\ Finish(w)
Die(w) == Crash(w) /\ stage' = [stage EXCEPT ![w] = "idle"]

Relay(w) ==
  /\ \/ \E k \in Kind : RelayBegin(w, k)
     \/ \E e \in Event : RelaySend(w, e)
     \/ RelayCommit(w)
  /\ UNCHANGED stage

Queue ==
  \/ \E w \in Worker : Relay(w) \/ Take(w) \/ Return(w) \/ Die(w)
  \/ \E m \in Message : GiveUp(m) /\ UNCHANGED stage

Next ==
  \/ /\ Queue \/ \E e \in Event : CreateNotification(e)
     /\ UNCHANGED <<mishaps, notificationVars, supportVars, verificationVars>>
  \/ /\ \/ \E w \in Worker : Notify(w)
        \/ \E e \in Event : LoseRecipient(e) \/ LeaseExpires(e)
     /\ UNCHANGED <<supportVars, verificationVars>>
  \/ /\ \/ \E w \in Worker : Support(w)
        \/ \E e \in Event : QueueSupportMail(e)
     /\ UNCHANGED <<notificationVars, verificationVars>>
  \/ /\ \/ \E w \in Worker : Verify(w)
        \/ \E e \in Event : \/ Submit(e)
                            \/ \E s \in Decided : SetVerificationResult(e, s)
     /\ UNCHANGED <<notificationVars, supportVars>>

Spec == Init /\ [][Next]_vars

-----------------------------------------------------------------------------
\* An acknowledged job was done, whatever failed, died or overtook it: the
\* notification was mailed unless its recipient is gone; the message of the
\* support was delivered or shows as failed (it can stay SENDING for ever, but
\* only after a crash); the request was approved unless an admin stepped in.
AcknowledgedMeansDone ==
  \A e \in handled :
    /\ kind[e] = "notification" => mails[e] > 0 \/ e \in gone
    /\ kind[e] = "support" =>
         \/ delivery[e] \in {"SENT", "FAILED"}
         \/ /\ delivery[e] = "SENDING"
            /\ faults > 0 \/ \E w \in Worker : job[w] # NoMessage /\ TheEvent(w) = e
    /\ kind[e] = "verification" => verification[e] \in Decided \/ decisions > 0
=============================================================================
