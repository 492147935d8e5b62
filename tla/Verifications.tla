---------------------------- MODULE Verifications ----------------------------
(***************************************************************************)
(* Verification requests of one business: submission, automatic approval   *)
(* by the worker, decisions of an admin, as written in                     *)
(*   src/server/src/modules/verifications/verifications.service.ts,        *)
(*     verifications.processor.ts                                          *)
(*   src/server/src/modules/admin/admin.service.ts (setVerificationResult) *)
(*                                                                         *)
(* An admin rejects a request to block the business.                       *)
(***************************************************************************)
EXTENDS SupportEmail

CONSTANT MaxDecisions   \* bound: decisions of admins in one behaviour

ASSUME DecisionsAssumption == MaxDecisions \in Nat

VARIABLES
  verification,   \* verifications.status, "none" before the insert
  business,       \* businesses.verification_status
  newest,         \* the event of the request submitted last, or "none"
  decisions,
  readAt          \* history: the decisions made when a worker read the business

verificationVars == <<verification, business, newest, decisions, readAt>>

Decided == {"verified", "rejected"}

VerificationsTypeOK ==
  /\ verification \in [Event -> Decided \cup {"none", "pending"}]
  /\ business \in Decided
  /\ newest \in Event \cup {"none"}
  /\ decisions \in 0..MaxDecisions
  /\ readAt \in [Worker -> 0..MaxDecisions]

\* BusinessesService.register creates a verified business.
VerificationsInit ==
  /\ verification = [e \in Event |-> "none"]
  /\ business = "verified"
  /\ newest = "none"
  /\ decisions = 0
  /\ readAt = [w \in Worker |-> 0]

\* VerificationsService.submit
Submit(e) ==
  /\ kind[e] = "verification"
  /\ Enqueue(e)
  /\ verification' = [verification EXCEPT ![e] = "pending"]
  /\ newest' = e
  /\ UNCHANGED <<business, decisions, readAt, stage, mishaps>>

\* setVerificationResult: one transaction under the lock of the request.
\* The business follows unless a later request exists.
SetVerificationResult(e, status) ==
  /\ verification[e] \notin {"none", status}
  /\ decisions < MaxDecisions
  /\ decisions' = decisions + 1
  /\ verification' = [verification EXCEPT ![e] = status]
  /\ business' = IF e = newest THEN status ELSE business
  /\ UNCHANGED <<newest, readAt, stage, mishaps, outboxVars>>

ReadVerification(w) ==
  /\ At(w, "verification", "start")
  /\ IF verification[TheEvent(w)] \in Decided THEN Goto(w, "ack") ELSE Goto(w, "business")
  /\ UNCHANGED <<verificationVars, mishaps>>

ReadBusiness_BlockIgnored(w) ==
  /\ At(w, "verification", "business")
  /\ readAt' = [readAt EXCEPT ![w] = decisions]
  /\ Goto(w, "complete")
  /\ UNCHANGED <<verification, business, newest, decisions, mishaps>>

\* A blocked business is not approved automatically.
ReadBusiness(w) ==
  /\ At(w, "verification", "business")
  /\ readAt' = [readAt EXCEPT ![w] = decisions]
  /\ IF business = "rejected" THEN Goto(w, "ack") ELSE Goto(w, "complete")
  /\ UNCHANGED <<verification, business, newest, decisions, mishaps>>

CompleteVerification_BusinessOnly(w) ==
  /\ At(w, "verification", "complete")
  /\ business' = "verified"
  /\ readAt' = [readAt EXCEPT ![w] = 0]
  /\ Goto(w, "ack")
  /\ UNCHANGED <<verification, newest, decisions, mishaps>>

\* completeVerification writes by id what was decided on earlier reads.
CompleteVerification(w) ==
  /\ At(w, "verification", "complete")
  /\ verification' = [verification EXCEPT ![TheEvent(w)] = "verified"]
  /\ business' = "verified"
  /\ Goto(w, "ack")
  /\ readAt' = [readAt EXCEPT ![w] = 0]
  /\ UNCHANGED <<newest, decisions, mishaps>>

Verify(w) == ReadVerification(w) \/ ReadBusiness(w) \/ CompleteVerification(w)

-----------------------------------------------------------------------------
\* "A business an admin blocked is not approved automatically": the worker
\* unblocks one only if the admin decided after the worker had read it.
BlockHoldsBetweenJobs ==
  [][business = "rejected" /\ business' = "verified" =>
       \/ decisions' # decisions
       \/ \E w \in Worker : At(w, "verification", "complete") /\ readAt[w] < decisions
    ]_<<business, decisions>>

\* "Otherwise the worker would overwrite the admin's decision": a request
\* an admin has rejected is approved by an admin or not at all.
AdminDecisionStands ==
  [][\A e \in Event : verification[e] = "rejected" /\ verification'[e] # "rejected" =>
       decisions' # decisions]_<<verification, decisions>>
=============================================================================
