---------------------------- MODULE Certificates ----------------------------
(***************************************************************************)
(* Award certificates, the decisions of admins on them, and the badges     *)
(* they earn, as written in                                                *)
(*   src/server/src/modules/certificates/certificates.service.ts           *)
(*   src/server/src/modules/admin/admin.service.ts (verifyCertificate)     *)
(*   src/server/src/modules/users/users.service.ts (updateProfile)         *)
(*                                                                         *)
(* All certificates carry the same title: badges of other titles do not    *)
(* meet. A row is submitted by the user it belongs to.                     *)
(***************************************************************************)
EXTENDS Requests

CONSTANTS Cert, NoOwner

ASSUME CertificatesAssumption == NoOwner \notin User

VARIABLES
  owner,    \* certificates.userId, NoOwner without a row
  proof,    \* certificates.status
  badge,    \* users.badges has the title
  blurred   \* history: users who edited their badges, withdrew, or had two
            \* decisions on their certificates under way at once

certificateVars == <<owner, proof, badge, blurred>>

CertCall ==
       [op : {"judge"}, cert : Cert, to : {"verified", "rejected"},
        seen : {"pending", "verified", "rejected"}]
  \cup [op : {"award"}, cert : Cert, to : {"verified", "rejected"}, keeps : BOOLEAN]

CertificatesTypeOK ==
  /\ owner \in [Cert -> User \cup {NoOwner}]
  /\ proof \in [Cert -> {"pending", "verified", "rejected"}]
  /\ badge \subseteq User
  /\ blurred \subseteq User

CertificatesInit ==
  /\ owner = [k \in Cert |-> NoOwner]
  /\ proof = [k \in Cert |-> "pending"]
  /\ badge = {}
  /\ blurred = {}

Judging(u) == {c \in Slot : call[c].op \in {"judge", "award"} /\ owner[call[c].cert] = u}

SubmitCertificate(u, k) ==
  /\ owner[k] = NoOwner
  /\ Serve(u)
  /\ owner' = [owner EXCEPT ![k] = u]
  /\ UNCHANGED <<call, accountVars, proof, badge, blurred>>

TargetStatus_AsSent(action) == action
TargetStatus(action) == IF action = "approve" THEN "verified" ELSE "rejected"

\* verifyCertificate up to its transaction.
VerifyCertificate(c, k, action) ==
  /\ owner[k] # NoOwner
  /\ proof[k] # TargetStatus(action)
  /\ Begin(c, Staff, [op |-> "judge", cert |-> k, to |-> TargetStatus(action),
                      seen |-> proof[k]])
  /\ blurred' = IF Judging(owner[k]) = {} THEN blurred ELSE blurred \cup {owner[k]}
  /\ UNCHANGED <<accountVars, owner, proof, badge>>

OthersVerified_Ignored(k) == FALSE

\* Another certificate of the same title keeps the badge.
OthersVerified(k) ==
  \E d \in Cert \ {k} : owner[d] = owner[k] /\ proof[d] = "verified"

\* In the transaction: the update locks the certificate; the second
\* statement sees the certificates that are committed by then. A rejection
\* takes the badge back only if the row read before was verified.
JudgeCertificate(c) ==
  /\ call[c].op = "judge"
  /\ \A d \in Slot : call[d].op = "award" => call[d].cert # call[c].cert
  /\ Continue(c, [op |-> "award", cert |-> call[c].cert, to |-> call[c].to,
                  keeps |-> call[c].seen # "verified" \/ OthersVerified(call[c].cert)])
  /\ UNCHANGED <<accountVars, certificateVars>>

CommitVerdict(c) ==
  /\ call[c].op = "award"
  /\ LET k == call[c].cert
         u == owner[k]
     IN /\ proof' = [proof EXCEPT ![k] = call[c].to]
        /\ badge' = IF call[c].to = "verified" THEN badge \cup {u}
                    ELSE IF call[c].keeps THEN badge ELSE badge \ {u}
  /\ Return(c)
  /\ UNCHANGED <<accountVars, owner, blurred>>

\* updateProfile: users write their badges themselves.
UpdateBadges(u) ==
  /\ Serve(u)
  /\ badge' = IF u \in badge THEN badge \ {u} ELSE badge \cup {u}
  /\ blurred' = blurred \cup {u}
  /\ UNCHANGED <<call, accountVars, owner, proof>>

CertificatesNext ==
  \/ \E u \in User : UpdateBadges(u) \/ \E k \in Cert : SubmitCertificate(u, k)
  \/ \E c \in Slot :
       \/ JudgeCertificate(c) \/ CommitVerdict(c)
       \/ \E k \in Cert, action \in {"approve", "reject"} : VerifyCertificate(c, k, action)

-----------------------------------------------------------------------------
\* "The status and the badge move in one transaction so that they do not
\* drift apart": decided one at a time, a badge is there exactly when one of
\* the certificates of its title is verified.
BadgeMeansVerified ==
  \A u \in User \ blurred :
    u \in badge <=> \E k \in Cert : owner[k] = u /\ proof[k] = "verified"
=============================================================================
