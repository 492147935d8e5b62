----------------------------- MODULE Community ------------------------------
(***************************************************************************)
(* Teams, a posting with its applications, certificates, businesses,       *)
(* profiles, files, the ways of signing in, and the withdrawal of an       *)
(* account, which cuts across all of them, as written in                   *)
(*   src/server/src/modules/auth/auth.service.ts (withdraw)                *)
(*                                                                         *)
(* The subjects share nothing but the accounts and the calls in flight: a  *)
(* behaviour is about one of them, and about withdrawals.                  *)
(***************************************************************************)
EXTENDS Teams, Applications, Certificates, Businesses, Portfolio, Uploads, SignIn

CONSTANTS
  Topic,
  Spent     \* bound: what a topic does without of the budget MaxCalls

ASSUME CommunityAssumption == Spent \in [Topic -> 0..MaxCalls]

VARIABLES
  topic,      \* the subject of this behaviour
  crowded,    \* history: a withdrawal committed while another call overlapped it
  trailing    \* history: users with another call in flight when they withdrew

communityVars == <<topic, crowded, trailing>>
postingVars == <<challengeVars, applicationVars>>

vars == <<call, calls, accountVars, teamVars, postingVars, certificateVars, businessVars,
          portfolioVars, uploadVars, signInVars, communityVars>>

\* heir: whom the user names for the teams and for the business.
\* since: history, the number of calls when the checks ran, 0 if others were
\* in flight.
WithdrawCall == [op : {"withdraw"}, by : User, heir : User, leads : SUBSET Team,
                 owns : SUBSET Business, since : 0..MaxCalls]

TypeOK ==
  /\ AccountsTypeOK /\ TeamsTypeOK /\ ChallengesTypeOK /\ ApplicationsTypeOK
  /\ CertificatesTypeOK /\ BusinessesTypeOK /\ PortfolioTypeOK /\ UploadsTypeOK /\ SignInTypeOK
  /\ call \in [Slot -> {Idle} \cup TeamCall \cup ChallengeCall \cup ApplyCall \cup EditCall
                       \cup CertCall \cup EnrollCall \cup ProfileCall \cup UploadCall
                       \cup SignInCall \cup WithdrawCall]
  /\ topic \in Topic
  /\ crowded \in BOOLEAN
  /\ trailing \subseteq User

Init ==
  /\ topic \in Topic
  /\ RequestsInit(Spent[topic])
  /\ TeamsInit /\ ChallengesInit /\ ApplicationsInit /\ CertificatesInit
  /\ BusinessesInit /\ PortfolioInit /\ UploadsInit
  /\ SignInInit(IF topic = "account" THEN {} ELSE User)
  /\ topic # "challenge" => ~priced /\ ~autoPublish
  /\ topic # "upload" => \A f \in File : public[f] /\ genuine[f]
  /\ crowded = FALSE
  /\ trailing = {}

Led(u) == {t \in Team : leader[t] = u}
OthersIdle(c) == \A d \in Slot \ {c} : call[d] = Idle

NamesNobody(u) == Led(u) = {} /\ Owned(u) = {}

MayInherit_AnyMember(u, heir) ==
  IF NamesNobody(u)
  THEN heir = u
  ELSE /\ heir # u /\ Active(heir)
       /\ \A t \in Led(u) : member[t][heir] # "none"
       /\ Owned(u) # {} => Owned(heir) = {}

MayInherit_OwnerToo(u, heir) ==
  IF NamesNobody(u)
  THEN heir = u
  ELSE heir # u /\ Active(heir) /\ \A t \in Led(u) : member[t][heir] = "accepted"

\* Who leads a team or owns a business names an active user, an accepted
\* member of the team without a business, to take over; the others name nobody
\* (modelled as u).
MayInherit(u, heir) ==
  IF NamesNobody(u)
  THEN heir = u
  ELSE /\ heir # u /\ Active(heir)
       /\ \A t \in Led(u) : member[t][heir] = "accepted"
       /\ Owned(u) # {} => Owned(heir) = {}

\* withdraw up to its first write: nothing it has read is locked. It asks for
\* the password, and sends owners of two businesses to the admins.
Withdraw(c, u, heir) ==
  /\ u \in known
  /\ Cardinality(Owned(u)) <= 1
  /\ MayInherit(u, heir)
  /\ Begin(c, u, [op |-> "withdraw", by |-> u, heir |-> heir, leads |-> Led(u),
                  owns |-> Owned(u), since |-> IF OthersIdle(c) THEN calls + 1 ELSE 0])
  /\ courted' = IF Owned(u) = {} THEN courted ELSE Courting(heir)
  /\ UNCHANGED <<accountVars, teamVars, postingVars, certificateVars, holder, partner,
                 portfolioVars, uploadVars, signInVars, communityVars>>

\* An update by id of a row that is deleted finds nothing.
RowGone(d, u) ==
  IF call[d].op = "decide" /\ call[d].user = u
  THEN [call[d] EXCEPT !.found = FALSE] ELSE call[d]

Trails(d, u) == "by" \in DOMAIN call[d] /\ call[d].by = u

Anonymized_Kept(u) == answers

\* Answers and team mates of the user's applications are emptied.
Anonymized(u) == answers \ Of(u)

\* The writes commit together: the heir takes over, the user's rows in teams
\* and of files are deleted, answers, badges and ways of signing in emptied.
CommitWithdrawal(c) ==
  /\ call[c].op = "withdraw"
  /\ LET u == call[c].by
     IN /\ leader' = [t \in Team |-> IF t \in call[c].leads THEN call[c].heir ELSE leader[t]]
        /\ holder' = [b \in Business |-> IF b \in call[c].owns THEN call[c].heir ELSE holder[b]]
        /\ partner' = IF call[c].owns = {} THEN partner ELSE partner \cup {call[c].heir}
        /\ member' = [t \in Team |-> [member[t] EXCEPT ![u] = "none"]]
        /\ scouted' = [t \in Team |-> scouted[t] \ {u}]
        /\ asked' = [t \in Team |-> asked[t] \ {u}]
        /\ answers' = Anonymized(u)
        /\ badge' = badge \ {u}
        /\ blurred' = blurred \cup {u}
        /\ RowFree(u) /\ ForgetLinks(u)
        /\ ForgetUploads(u)
        /\ ForgetSignIn(u)
        /\ withdrawn' = withdrawn \cup {u}
        /\ crowded' = (crowded \/ call[c].since # calls)
        /\ trailing' = IF \E d \in Slot \ {c} : Trails(d, u) THEN trailing \cup {u} ELSE trailing
        /\ call' = [d \in Slot |-> IF d = c THEN Idle ELSE RowGone(d, u)]
  /\ UNCHANGED <<calls, suspended, revived, challengeVars, applicant, locked, orders, twice,
                 owner, proof, courted, topic>>

AccountsNext ==
  \/ /\ \E u \in accounts, on \in BOOLEAN : SuspendUser(u, on)
     /\ UNCHANGED <<teamVars, postingVars, certificateVars, businessVars, portfolioVars,
                    uploadVars, signInVars, communityVars>>
  \/ \E c \in Slot : CommitWithdrawal(c) \/ \E u, heir \in User : Withdraw(c, u, heir)

TeamStep ==
  /\ topic = "team"
  /\ TeamsNext
  /\ UNCHANGED <<postingVars, certificateVars, businessVars, portfolioVars, uploadVars,
                 signInVars, communityVars>>

ChallengeStep ==
  /\ topic = "challenge"
  /\ \/ ChallengesNext /\ UNCHANGED applicationVars
     \/ ApplicationsNext
  /\ UNCHANGED <<teamVars, certificateVars, businessVars, portfolioVars, uploadVars,
                 signInVars, communityVars>>

CertificateStep ==
  /\ topic = "certificate"
  /\ CertificatesNext
  /\ UNCHANGED <<teamVars, postingVars, businessVars, portfolioVars, uploadVars, signInVars,
                 communityVars>>

BusinessStep ==
  /\ topic = "business"
  /\ BusinessesNext
  /\ UNCHANGED <<teamVars, postingVars, certificateVars, portfolioVars, uploadVars, signInVars,
                 communityVars>>

ProfileStep ==
  /\ topic = "profile"
  /\ PortfolioNext
  /\ UNCHANGED <<teamVars, postingVars, certificateVars, businessVars, uploadVars, signInVars,
                 communityVars>>

UploadStep ==
  /\ topic = "upload"
  /\ UploadsNext
  /\ UNCHANGED <<teamVars, postingVars, certificateVars, businessVars, portfolioVars, signInVars,
                 communityVars>>

SignInStep ==
  /\ topic = "account"
  /\ SignInNext
  /\ UNCHANGED <<teamVars, postingVars, certificateVars, businessVars, portfolioVars, uploadVars,
                 communityVars>>

Next ==
  \/ TeamStep \/ ChallengeStep \/ CertificateStep \/ BusinessStep \/ ProfileStep
  \/ UploadStep \/ SignInStep \/ AccountsNext

Spec == Init /\ [][Next]_vars

-----------------------------------------------------------------------------
\* "All leadership is handed to an accepted member before the account goes":
\* no team and no business is left to an account that has withdrawn, unless
\* another call overlapped a withdrawal.
NothingOrphaned ==
  crowded \/ /\ \A b \in Business : holder[b] \notin withdrawn
             /\ \A t \in Team : leader[t] # Nobody =>
                  leader[t] \notin withdrawn /\ member[t][leader[t]] = "accepted"

\* "Erases direct identifiers": what an account wrote itself is gone once it
\* has withdrawn, unless a call of its own was in flight and wrote later. (A
\* leader can still invite it: that row is not its own writing.)
WithdrawnLeavesNothing ==
  \A u \in withdrawn \ trailing :
    /\ \A t \in Team : member[t][u] # "none" => u \in scouted[t]
    /\ \A a \in answers : applicant[a] # u
    /\ \A f \in File : uploader[f] # u
    /\ links[u] = Blank
=============================================================================
