------------------------------- MODULE Teams --------------------------------
(***************************************************************************)
(* Recruiting teams: a leader, applicants, invitations ("scouts") and the  *)
(* decisions on them, as written in                                        *)
(*   src/server/src/modules/teams/teams.service.ts                         *)
(*                                                                         *)
(* A member row is unique per team and user (index of migration 0004). The *)
(* number of roles a team recruits for never changes after its creation.   *)
(***************************************************************************)
EXTENDS Requests

CONSTANTS
  Team, Nobody,
  Capacity,      \* the leader and the open roles
  ScoutLimit     \* SCOUT_LIMIT_PER_TEAM

ASSUME TeamsAssumption == /\ Nobody \notin User
                          /\ IsFiniteSet(User)
                          /\ Capacity \in Nat \ {0}
                          /\ ScoutLimit \in Nat

VARIABLES
  leader,     \* teams.leaderUserId, Nobody before the insert
  member,     \* team_members.status by team and user, "none" without a row
  scouted,    \* rows with scouted_at
  asked,      \* history: users who applied, or accepted an invitation
  revived     \* history: acceptances that skipped the capacity check and added a member

teamVars == <<leader, member, scouted, asked, revived>>

Verdict == {"accepted", "rejected"}
Status == Verdict \cup {"pending", "invited"}

TeamCall ==
       [op : {"create", "join"}, by : User, team : Team]
  \cup [op : {"invite"}, team : Team, user : User]
  \cup [op : {"decide"}, team : Team, user : User, own : BOOLEAN,
        verdict : Verdict, seen : Status, found : BOOLEAN]

TeamsTypeOK ==
  /\ leader \in [Team -> User \cup {Nobody}]
  /\ member \in [Team -> [User -> Status \cup {"none"}]]
  /\ scouted \in [Team -> SUBSET User]
  /\ asked \in [Team -> SUBSET User]
  /\ revived \in [Team -> Nat]

TeamsInit ==
  /\ leader = [t \in Team |-> Nobody]
  /\ member = [t \in Team |-> [u \in User |-> "none"]]
  /\ scouted = [t \in Team |-> {}]
  /\ asked = [t \in Team |-> {}]
  /\ revived = [t \in Team |-> 0]

Accepted(t) == {u \in User : member[t][u] = "accepted"}
Leads(by, t) == by \in {leader[t], Staff}

CreateTeam(c, u, t) ==
  /\ leader[t] = Nobody
  /\ \A d \in Slot : call[d].op = "create" => call[d].team # t
  /\ Begin(c, u, [op |-> "create", by |-> u, team |-> t])
  /\ UNCHANGED <<accountVars, teamVars>>

InsertTeam(c) ==
  /\ call[c].op = "create"
  /\ LET t == call[c].team
         u == call[c].by
     IN /\ leader' = [leader EXCEPT ![t] = u]
        /\ member' = [member EXCEPT ![t][u] = "accepted"]
  /\ Return(c)
  /\ UNCHANGED <<scouted, asked, revived, accountVars>>

Join(c, u, t) ==
  /\ leader[t] \notin {Nobody, u}
  /\ member[t][u] = "none"
  /\ Begin(c, u, [op |-> "join", by |-> u, team |-> t])
  /\ UNCHANGED <<accountVars, teamVars>>

\* The unique index refuses a second row and rolls the transaction back.
InsertApplicant(c) ==
  /\ call[c].op = "join"
  /\ LET t == call[c].team
         u == call[c].by
     IN IF member[t][u] = "none"
        THEN /\ member' = [member EXCEPT ![t][u] = "pending"]
             /\ asked' = [asked EXCEPT ![t] = @ \cup {u}]
        ELSE UNCHANGED <<member, asked>>
  /\ Return(c)
  /\ UNCHANGED <<leader, scouted, revived, accountVars>>

\* The target may be an account that has withdrawn: only its row is looked up.
Invite(c, by, t, u) ==
  /\ leader[t] \notin {Nobody, u}
  /\ Leads(by, t)
  /\ member[t][u] = "none"
  /\ Begin(c, by, [op |-> "invite", team |-> t, user |-> u])
  /\ UNCHANGED <<accountVars, teamVars>>

InsertInvitation_Unlimited(c) ==
  /\ call[c].op = "invite"
  /\ LET t == call[c].team
         u == call[c].user
     IN IF member[t][u] = "none"
        THEN /\ member' = [member EXCEPT ![t][u] = "invited"]
             /\ scouted' = [scouted EXCEPT ![t] = @ \cup {u}]
        ELSE UNCHANGED <<member, scouted>>
  /\ Return(c)
  /\ UNCHANGED <<leader, asked, revived, accountVars>>

\* The row of the team is locked, then the scouts are counted.
InsertInvitation(c) ==
  /\ call[c].op = "invite"
  /\ LET t == call[c].team
         u == call[c].user
     IN IF member[t][u] = "none" /\ Cardinality(scouted[t]) < ScoutLimit
        THEN /\ member' = [member EXCEPT ![t][u] = "invited"]
             /\ scouted' = [scouted EXCEPT ![t] = @ \cup {u}]
        ELSE UNCHANGED <<member, scouted>>
  /\ Return(c)
  /\ UNCHANGED <<leader, asked, revived, accountVars>>

\* updateMember up to its transaction: the checks run on rows read here.
UpdateMember(c, by, t, u, verdict) ==
  /\ leader[t] \notin {Nobody, u}
  /\ member[t][u] # "none"
  /\ Leads(by, t) \/ (by = u /\ member[t][u] = "invited")
  /\ ~(member[t][u] = "invited" /\ by # u /\ verdict = "accepted")
  /\ Begin(c, by, [op |-> "decide", team |-> t, user |-> u, own |-> by = u,
                   verdict |-> verdict, seen |-> member[t][u], found |-> TRUE])
  /\ UNCHANGED <<accountVars, teamVars>>

HasRoom_OneTooMany(t) == Cardinality(Accepted(t)) <= Capacity

HasRoom(t) == Cardinality(Accepted(t)) < Capacity

\* The transaction: an acceptance locks the team and counts its members,
\* unless the row read earlier was accepted already (a chat link sent again).
\* The update is by id; it finds nothing if the row is gone.
WriteMember(c) ==
  /\ call[c].op = "decide"
  /\ LET t == call[c].team
         u == call[c].user
         accepts == call[c].verdict = "accepted"
         checked == accepts /\ call[c].seen # "accepted"
         gains == accepts /\ member[t][u] # "accepted"
     IN IF call[c].found /\ (checked => HasRoom(t))
        THEN /\ member' = [member EXCEPT ![t][u] = call[c].verdict]
             /\ asked' = [asked EXCEPT ![t] =
                            IF accepts /\ call[c].own THEN @ \cup {u} ELSE @]
             /\ revived' = [revived EXCEPT ![t] = IF gains /\ ~checked THEN @ + 1 ELSE @]
        ELSE UNCHANGED <<member, asked, revived>>
  /\ Return(c)
  /\ UNCHANGED <<leader, scouted, accountVars>>

TeamsNext ==
  \E c \in Slot :
    \/ InsertTeam(c) \/ InsertApplicant(c) \/ InsertInvitation(c) \/ WriteMember(c)
    \/ \E u \in User, t \in Team : CreateTeam(c, u, t) \/ Join(c, u, t)
    \/ \E by \in User \cup {Staff}, t \in Team, u \in User :
         \/ Invite(c, by, t, u)
         \/ \E verdict \in Verdict : UpdateMember(c, by, t, u, verdict)

-----------------------------------------------------------------------------
\* "Serialises scouts so that they do not go past the limit", and "accepted
\* members never outnumber the places": calls that race for the last place are
\* serialised. The only way past it is a chat link sent again to a member who
\* was rejected while the call was under way.
TeamWithinLimits ==
  \A t \in Team : /\ Cardinality(scouted[t]) <= ScoutLimit
                  /\ Cardinality(Accepted(t)) <= Capacity + revived[t]

\* "An invitation is accepted by the invited user alone, the leader can only
\* cancel it": nobody is a member who neither applied nor accepted.
MembersAsked == \A t \in Team : Accepted(t) \subseteq asked[t] \cup {leader[t]}
=============================================================================
