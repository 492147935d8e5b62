-------------------------- MODULE NotificationEmail --------------------------
(***************************************************************************)
(* The processor of notification mails, as written in                      *)
(*   src/server/src/modules/notifications/email/                           *)
(*                                      notification-email.processor.ts    *)
(*                                                                         *)
(* A delivery claims its event in email_send_states before it calls SES.   *)
(* The claim is three statements, each of them atomic.  Its lease is a     *)
(* time: it can run out under a worker that is merely slow (a stall).      *)
(***************************************************************************)
EXTENDS Outbox

CONSTANT MaxMishaps   \* bound: lost SES answers and stalls in one behaviour

ASSUME MishapsAssumption == MaxMishaps \in Nat

VARIABLES
  stage,    \* where each worker is in the processor it runs
  claim,    \* email_send_states.status, "none" without a row
  stale,    \* claims whose lease is over
  gone,     \* events whose recipient has no address any more
  mails,    \* how often SES accepted the mail of an event
  mishaps

notificationVars == <<claim, stale, gone, mails>>

NotificationTypeOK ==
  /\ claim \in [Event -> {"none", "sending", "sent"}]
  /\ stale \subseteq Event
  /\ gone \subseteq Event
  /\ mails \in [Event -> Nat]

NotificationInit ==
  /\ claim = [e \in Event |-> "none"]
  /\ stale = {}
  /\ gone = {}
  /\ mails = [e \in Event |-> 0]

TheEvent(w) == job[w].event
At(w, k, s) == job[w] # NoMessage /\ kind[TheEvent(w)] = k /\ stage[w] = s
Goto(w, s) == stage' = [stage EXCEPT ![w] = s] /\ UNCHANGED outboxVars
\* The processor throws.
Throw(w) == Leave(w) /\ stage' = [stage EXCEPT ![w] = "idle"]
\* The processor returns and the message is deleted.
Finish(w) == Acknowledge(w) /\ stage' = [stage EXCEPT ![w] = "idle"]

-----------------------------------------------------------------------------
\* The recipient withdraws, which clears the address.
LoseRecipient(e) ==
  /\ kind[e] = "notification"
  /\ e \notin gone
  /\ gone' = gone \cup {e}
  /\ UNCHANGED <<claim, stale, mails, mishaps, stage, outboxVars>>

LookUp(w) ==
  /\ At(w, "notification", "start")
  /\ IF TheEvent(w) \in gone THEN Goto(w, "ack") ELSE Goto(w, "claim")
  /\ UNCHANGED <<notificationVars, mishaps>>

\* insert ... on conflict do nothing: a new row has a new lease.
Claim(w) ==
  LET e == TheEvent(w) IN
  /\ At(w, "notification", "claim")
  /\ IF claim[e] = "none"
     THEN claim' = [claim EXCEPT ![e] = "sending"] /\ stale' = stale \ {e} /\ Goto(w, "send")
     ELSE Goto(w, "takeover") /\ UNCHANGED <<claim, stale>>
  /\ UNCHANGED <<gone, mails, mishaps>>

TakeOver_LeaseIgnored(w) ==
  /\ At(w, "notification", "takeover")
  /\ IF claim[TheEvent(w)] = "sending"
     THEN stale' = stale \ {TheEvent(w)} /\ Goto(w, "send")
     ELSE Goto(w, "check") /\ UNCHANGED stale
  /\ UNCHANGED <<claim, gone, mails, mishaps>>

\* update ... where status = 'sending' and claimed_at < now() - lease
TakeOver(w) ==
  LET e == TheEvent(w) IN
  /\ At(w, "notification", "takeover")
  /\ IF claim[e] = "sending" /\ e \in stale
     THEN stale' = stale \ {e} /\ Goto(w, "send")
     ELSE Goto(w, "check") /\ UNCHANGED stale
  /\ UNCHANGED <<claim, gone, mails, mishaps>>

Check_InFlightAcked(w) ==
  /\ At(w, "notification", "check")
  /\ Goto(w, "ack")
  /\ UNCHANGED <<notificationVars, mishaps>>

\* "sent" is acknowledged, anything else is in flight elsewhere.
Check(w) ==
  /\ At(w, "notification", "check")
  /\ IF claim[TheEvent(w)] = "sent" THEN Goto(w, "ack") ELSE Throw(w)
  /\ UNCHANGED <<notificationVars, mishaps>>

\* SES is external: it takes the mail, refuses it, or takes it and its
\* answer is lost.
Send(w) ==
  LET e == TheEvent(w) IN
  /\ At(w, "notification", "send")
  /\ \/ mails' = [mails EXCEPT ![e] = @ + 1] /\ Goto(w, "record") /\ UNCHANGED mishaps
     \/ Goto(w, "release") /\ UNCHANGED <<mails, mishaps>>
     \/ /\ mishaps < MaxMishaps
        /\ mishaps' = mishaps + 1
        /\ mails' = [mails EXCEPT ![e] = @ + 1]
        /\ Goto(w, "release")
  /\ UNCHANGED <<claim, stale, gone>>

\* The update is by event: it marks whatever claim is there.
Record(w) ==
  LET e == TheEvent(w) IN
  /\ At(w, "notification", "record")
  /\ claim' = [claim EXCEPT ![e] = IF @ = "none" THEN @ ELSE "sent"]
  /\ Goto(w, "ack")
  /\ UNCHANGED <<stale, gone, mails, mishaps>>

\* releaseClaim deletes a claim that is still "sending", whoever holds it.
Release(w) ==
  LET e == TheEvent(w) IN
  /\ At(w, "notification", "release")
  /\ claim' = [claim EXCEPT ![e] = IF @ = "sending" THEN "none" ELSE @]
  /\ Throw(w)
  /\ UNCHANGED <<stale, gone, mails, mishaps>>

\* Workers between their claim of e and its end.
Holders(e) ==
  {w \in Worker : \E s \in {"send", "record", "release"} :
     At(w, "notification", s) /\ TheEvent(w) = e}

\* EMAIL_SEND_LEASE_MS after the claim.  Under a worker that is still at it,
\* this is a mishap: the lease exceeds one SES call by a wide margin.
LeaseExpires(e) ==
  /\ claim[e] = "sending"
  /\ e \notin stale
  /\ stale' = stale \cup {e}
  /\ IF Holders(e) = {} THEN UNCHANGED mishaps
     ELSE mishaps < MaxMishaps /\ mishaps' = mishaps + 1
  /\ UNCHANGED <<claim, gone, mails, stage, outboxVars>>

Notify(w) ==
  \/ LookUp(w) \/ Claim(w) \/ TakeOver(w) \/ Check(w)
  \/ Send(w) \/ Record(w) \/ Release(w)

-----------------------------------------------------------------------------
\* "Only the claim holder sends; a crash after SES accepts but before 'sent'
\* is recorded can still resend": every mail but the first, and every worker
\* that is about to send one, is accounted for by a crash, a lost answer or
\* a stall.
ExtraMailHasCause ==
  \A e \in Event : kind[e] = "notification" =>
    mails[e] + Cardinality({w \in Worker : At(w, "notification", "send") /\ TheEvent(w) = e})
      <= 1 + faults + mishaps
=============================================================================
