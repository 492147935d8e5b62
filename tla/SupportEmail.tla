---------------------------- MODULE SupportEmail ----------------------------
(***************************************************************************)
(* Outgoing support mail, as written in                                    *)
(*   src/server/src/modules/email/email.service.ts (sendReply,             *)
(*     sendNewEmail)                                                       *)
(*   src/server/src/modules/notifications/email/support-email.processor.ts *)
(*                                                                         *)
(* A message is stored QUEUED together with its outbox row.  The processor *)
(* moves it to SENDING before it calls SES and never sends it again.       *)
(***************************************************************************)
EXTENDS NotificationEmail

VARIABLES
  delivery,   \* email_messages.delivery_status, "none" before the insert
  replies     \* how often SES accepted the message

supportVars == <<delivery, replies>>

SupportTypeOK ==
  /\ delivery \in [Event -> {"none", "QUEUED", "SENDING", "SENT", "FAILED"}]
  /\ replies \in [Event -> Nat]

SupportInit ==
  /\ delivery = [e \in Event |-> "none"]
  /\ replies = [e \in Event |-> 0]

\* sendReply and sendNewEmail
QueueSupportMail(e) ==
  /\ kind[e] = "support"
  /\ Enqueue(e)
  /\ delivery' = [delivery EXCEPT ![e] = "QUEUED"]
  /\ UNCHANGED <<replies, stage, mishaps>>

ReadSupportMail(w) ==
  /\ At(w, "support", "start")
  /\ IF delivery[TheEvent(w)] = "QUEUED" THEN Goto(w, "claim") ELSE Goto(w, "ack")
  /\ UNCHANGED <<supportVars, mishaps>>

ClaimSupportMail_Unconditional(w) ==
  /\ At(w, "support", "claim")
  /\ delivery' = [delivery EXCEPT ![TheEvent(w)] = "SENDING"]
  /\ Goto(w, "send")
  /\ UNCHANGED <<replies, mishaps>>

ClaimSupportMail(w) ==
  LET e == TheEvent(w) IN
  /\ At(w, "support", "claim")
  /\ IF delivery[e] = "QUEUED"
     THEN delivery' = [delivery EXCEPT ![e] = "SENDING"] /\ Goto(w, "send")
     ELSE Goto(w, "ack") /\ UNCHANGED delivery
  /\ UNCHANGED <<replies, mishaps>>

SendSupportMail(w) ==
  LET e == TheEvent(w) IN
  /\ At(w, "support", "send")
  /\ \/ replies' = [replies EXCEPT ![e] = @ + 1] /\ Goto(w, "record") /\ UNCHANGED mishaps
     \/ Goto(w, "fail") /\ UNCHANGED <<replies, mishaps>>
     \/ /\ mishaps < MaxMishaps
        /\ mishaps' = mishaps + 1
        /\ replies' = [replies EXCEPT ![e] = @ + 1]
        /\ Goto(w, "fail")
  /\ UNCHANGED delivery

\* A database error after the mail is out is caught like an SES error.
RecordSupportMail(w) ==
  /\ At(w, "support", "record")
  /\ \/ /\ delivery' = [delivery EXCEPT ![TheEvent(w)] = "SENT"]
        /\ Goto(w, "ack")
        /\ UNCHANGED mishaps
     \/ /\ mishaps < MaxMishaps
        /\ mishaps' = mishaps + 1
        /\ Goto(w, "fail")
        /\ UNCHANGED delivery
  /\ UNCHANGED replies

FailSupportMail_Requeues(w) ==
  /\ At(w, "support", "fail")
  /\ delivery' = [delivery EXCEPT ![TheEvent(w)] = "QUEUED"]
  /\ Throw(w)
  /\ UNCHANGED <<replies, mishaps>>

FailSupportMail(w) ==
  /\ At(w, "support", "fail")
  /\ delivery' = [delivery EXCEPT ![TheEvent(w)] = "FAILED"]
  /\ Throw(w)
  /\ UNCHANGED <<replies, mishaps>>

Support(w) ==
  \/ ReadSupportMail(w) \/ ClaimSupportMail(w) \/ SendSupportMail(w)
  \/ RecordSupportMail(w) \/ FailSupportMail(w)

-----------------------------------------------------------------------------
\* However often its job is delivered, a customer gets a message once.
SupportMailAtMostOnce == \A e \in Event : replies[e] <= 1
=============================================================================
