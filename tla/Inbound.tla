------------------------------ MODULE Inbound -------------------------------
(***************************************************************************)
(* Inbound mail of customers: taken from a queue by the workers and filed  *)
(* into threads, as written in                                             *)
(*   src/server/src/modules/email/email.service.ts (ingestInbound)         *)
(*   src/server/src/worker.ts (pollInboundEmails)                          *)
(*                                                                         *)
(* The queue delivers a mail until it is deleted, to several workers when  *)
(* one is slow. A thread is named by the mail that started it.             *)
(***************************************************************************)
EXTENDS Requests

CONSTANTS
  Mail, NoMail,
  AnswerTo       \* the mail that a mail answers, NoMail if none

ASSUME InboundAssumption == NoMail \notin Mail /\ AnswerTo \in [Mail -> Mail \cup {NoMail}]

VARIABLES
  queued,     \* mails in the queue
  thread,     \* email_messages: the thread of a stored mail, or NoMail
  threads,    \* email_threads
  early       \* history: mails received before the mail they answer was stored

inboundVars == <<queued, thread, threads, early>>

IngestCall ==
       [op : {"ingest", "filed"}, mail : Mail]
  \cup [op : {"file"}, mail : Mail, into : Mail]

InboundTypeOK ==
  /\ queued \cup threads \cup early \subseteq Mail
  /\ thread \in [Mail -> Mail \cup {NoMail}]

InboundInit ==
  /\ queued = Mail
  /\ thread = [m \in Mail |-> NoMail]
  /\ threads = {}
  /\ early = {}

Stored(m) == thread[m] # NoMail

\* The queue may hand out an answer before the mail it answers.
ReceiveMail(c, m) ==
  /\ m \in queued
  /\ Begin(c, Staff, [op |-> "ingest", mail |-> m])
  /\ early' = IF AnswerTo[m] # NoMail /\ ~Stored(AnswerTo[m]) THEN early \cup {m} ELSE early
  /\ UNCHANGED <<accountVars, queued, thread, threads>>

\* The checks before the transaction: a mail stored already is acknowledged;
\* else the thread is the one of a stored mail it refers to, or a new one.
ResolveThread(c) ==
  /\ call[c].op = "ingest"
  /\ LET m == call[c].mail
         a == AnswerTo[m]
     IN Continue(c, IF Stored(m) THEN [op |-> "filed", mail |-> m]
                    ELSE [op |-> "file", mail |-> m,
                          into |-> IF a # NoMail /\ Stored(a) THEN thread[a] ELSE m])
  /\ UNCHANGED <<accountVars, inboundVars>>

\* The unique message id stops a second copy, and the thread made for it.
FileMail(c) ==
  /\ call[c].op = "file"
  /\ LET m == call[c].mail
     IN IF Stored(m)
        THEN UNCHANGED <<thread, threads>> /\ Return(c)
        ELSE /\ thread' = [thread EXCEPT ![m] = call[c].into]
             /\ threads' = threads \cup {call[c].into}
             /\ Continue(c, [op |-> "filed", mail |-> m])
  /\ UNCHANGED <<accountVars, queued, early>>

AckMail_AnyOutcome(c) ==
  /\ call[c] \in IngestCall
  /\ queued' = queued \ {call[c].mail}
  /\ Return(c)
  /\ UNCHANGED <<accountVars, thread, threads, early>>

AckMail(c) ==
  /\ call[c].op = "filed"
  /\ queued' = queued \ {call[c].mail}
  /\ Return(c)
  /\ UNCHANGED <<accountVars, thread, threads, early>>

\* A worker that dies, or fails, leaves the mail to the queue.
IngestDies(c) ==
  /\ call[c] \in IngestCall
  /\ Return(c)
  /\ UNCHANGED <<accountVars, inboundVars>>

InboundNext ==
  \E c \in Slot :
    \/ ResolveThread(c) \/ FileMail(c) \/ AckMail(c) \/ IngestDies(c)
    \/ \E m \in Mail : ReceiveMail(c, m)

-----------------------------------------------------------------------------
\* A mail leaves the queue only when it is stored, under whatever copies,
\* orders and failures ("left on the queue to be retried"); a thread never goes
\* without a mail; and an answer received after the mail it answers was stored
\* is in the thread of that mail.
InboundMailKept ==
  /\ \A m \in Mail \ queued : Stored(m)
  /\ \A t \in threads : \E m \in Mail : thread[m] = t
  /\ \A m \in Mail \ early : Stored(m) /\ AnswerTo[m] # NoMail => thread[m] = thread[AnswerTo[m]]
=============================================================================
