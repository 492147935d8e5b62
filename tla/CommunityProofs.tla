-------------------------- MODULE CommunityProofs ---------------------------
(***************************************************************************)
(* What teams, postings, applications, certificates, businesses, profiles, *)
(* files and ways of signing in promise, with withdrawals among them, for  *)
(* any number of requests in flight and of everything they work on.        *)
(*                                                                         *)
(* The invariant has a part for each subject. A part speaks of the         *)
(* variables of its subject and of the calls in flight that its operations *)
(* made: the steps of the other subjects leave both alone.                 *)
(***************************************************************************)
EXTENDS Community, FiniteSetTheorems, TLAPS

TeamOps == {"create", "join", "invite", "decide"}
ApplyOps == {"apply", "order", "bill"}
CertOps == {"judge", "award"}
ProfileOps == {"save", "store", "review", "settle"}
UploadOps == {"head", "get", "discard", "reject", "copy", "ready", "tidy"}
SignInOps == {"register", "find", "insert", "find again", "associate"}

AnyCall ==
  {Idle} \cup TeamCall \cup ChallengeCall \cup ApplyCall \cup EditCall \cup CertCall
         \cup EnrollCall \cup ProfileCall \cup UploadCall \cup SignInCall \cup WithdrawCall

Doing(c, op) == call[c].op = op

\* A team without a leader is a row about to be inserted, by one call.
TeamInv ==
  /\ TeamsTypeOK
  /\ TeamWithinLimits
  /\ \A t \in Team : leader[t] = Nobody => \A u \in User : member[t][u] = "none"
  /\ \A c \in Slot : Doing(c, "create") => leader[call[c].team] = Nobody
  /\ \A c, d \in Slot : Doing(c, "create") /\ Doing(d, "create") /\ call[c].team = call[d].team => c = d
  /\ \A c \in Slot : call[c].op \in {"join", "invite", "decide"} => leader[call[c].team] # Nobody
  /\ \A c \in Slot : Doing(c, "decide") /\ call[c].found => member[call[c].team][call[c].user] # "none"

\* What a change of status read still holds unless it is marked as moved.
ChallengeInv ==
  /\ ChallengesTypeOK
  /\ \A c \in Slot : Doing(c, "move") /\ ~call[c].moved => <<posting, call[c].to>> \in Allowed

\* The orders of a row but the latest are canceled.
Superseded(a) == \A i \in 1..Len(orders[a]) : i < Len(orders[a]) => orders[a][i] = "canceled"

AtMostOne(S) == \A x, y \in S : x = y

ApplyInv ==
  /\ ApplicationsTypeOK
  /\ \A c \in Slot : call[c].op \in {"order", "bill", "edit"} => applicant[call[c].app] = call[c].by
  /\ \A u \in User \ twice : AtMostOne(Of(u)) /\ AtMostOne(Applying(u)) /\ \A a \in Of(u) : Superseded(a)
  /\ \A c \in Slot : Doing(c, "apply") /\ call[c].by \notin twice => Of(call[c].by) = {}
  /\ \A c \in Slot : Doing(c, "bill") /\ call[c].by \notin twice => ~Payable(orders[call[c].app])

\* A row without an order was free when it was made.
PriceInv ==
  /\ \A a \in App : applicant[a] # NoUser /\ orders[a] = <<>> => ~priced \/ repriced
  /\ \A c \in Slot : Doing(c, "apply") => call[c].priced = priced \/ repriced
  /\ \A c \in Slot : call[c].op \in {"order", "bill"} /\ orders[call[c].app] = <<>> => repriced

CertInv ==
  /\ CertificatesTypeOK
  /\ BadgeMeansVerified
  /\ \A k \in Cert : owner[k] = NoOwner => proof[k] = "pending"
  /\ \A c \in Slot : call[c].op \in CertOps => owner[call[c].cert] # NoOwner
  /\ \A u \in User \ blurred : AtMostOne(Judging(u))
  /\ \A c \in Slot : Doing(c, "judge") /\ owner[call[c].cert] \notin blurred =>
       call[c].seen = proof[call[c].cert]
  /\ \A c \in Slot : Doing(c, "award") /\ owner[call[c].cert] \notin blurred =>
       (call[c].keeps <=> proof[call[c].cert] # "verified" \/ OthersVerified(call[c].cert))

BusinessInv ==
  /\ BusinessesTypeOK
  /\ \A b \in Business : holder[b] \in partner \cup {NoHolder}
  /\ \A u \in User : IsFiniteSet(Owned(u))
  /\ \A u \in User \ courted :
       /\ AtMostOne(Owned(u))
       /\ \A c \in Slot : Courts(c, u) => Owned(u) = {}
       /\ \A c, d \in Slot : Courts(c, u) /\ Courts(d, u) => c = d

Locks(c, u) == \/ Doing(c, "store") /\ call[c].by = u
               \/ Doing(c, "settle") /\ call[c].of = u

ProfileInv ==
  /\ PortfolioTypeOK
  /\ PortfolioKept
  /\ \A c, d \in Slot, u \in User : Locks(c, u) /\ Locks(d, u) => c = d
  /\ \A c \in Slot : Doing(c, "store") =>
       call[c].approved = {l \in Link : links[call[c].by][l] = "approved"}
  /\ \A c \in Slot : Doing(c, "settle") =>
       call[c].read = links[call[c].of] /\ call[c].read[call[c].link] = "pending"

\* What a file is when a finalization that is at op has it in hand.
Reached(f, op) ==
  /\ upload[f] # "none"
  /\ op # "head" => f \in put
  /\ op \in {"discard", "reject"} => ~genuine[f]
  /\ op \in {"copy", "ready", "tidy"} => genuine[f]
  /\ op \in {"copy", "tidy"} => public[f]
  /\ op = "ready" => f \in IF public[f] THEN promoted ELSE pending
  /\ op = "tidy" => f \in promoted /\ (Known(f) => upload[f] = "ready")

FileInv(f) ==
  /\ Known(f) \/ f \in put => upload[f] # "none"
  /\ upload[f] \in {"ready", "rejected"} \/ f \in pending \cup promoted => f \in put
  /\ f \in put /\ Known(f) =>
       /\ upload[f] = "pending" /\ genuine[f] => f \in pending
       /\ upload[f] = "ready" => genuine[f] /\ f \in IF public[f] THEN promoted ELSE pending
       /\ upload[f] = "rejected" => ~genuine[f]

UploadInv ==
  /\ UploadsTypeOK
  /\ \A f \in File : FileInv(f)
  /\ \A c \in Slot : call[c].op \in UploadOps => Reached(call[c].file, call[c].op)

SignInInv ==
  /\ SignInTypeOK
  /\ SignInReachesAccount
  /\ email \notin withdrawn
  /\ withdrawn \subseteq accounts
  /\ \A c \in Slot : Doing(c, "associate") => call[c].account = email \/ call[c].account \in withdrawn

\* No call has begun since the checks of the withdrawal in slot c, and none
\* was in flight then.
Alone(c) == Doing(c, "withdraw") /\ call[c].since = calls

AloneInv ==
  \A c \in Slot : Alone(c) =>
    LET u == call[c].by
        heir == call[c].heir
    IN /\ \A d \in Slot \ {c} : call[d] = Idle
       /\ call[c].leads = Led(u) /\ call[c].owns = Owned(u)
       /\ Led(u) # {} \/ Owned(u) # {} => heir # u /\ heir \notin withdrawn
       /\ \A t \in Led(u) : member[t][heir] = "accepted"

OrphanInv ==
  \/ crowded
  \/ /\ NothingOrphaned
     /\ \A c \in Slot : call[c].op \in {"create", "enroll"} => call[c].by \notin withdrawn
     /\ \A c \in Slot : Doing(c, "decide") => call[c].user # leader[call[c].team]

LeftInv ==
  /\ WithdrawnLeavesNothing
  /\ \A c \in Slot, u \in withdrawn \ trailing : ~Trails(c, u) /\ ~Locks(c, u)

CallInv ==
  /\ AccountsTypeOK
  /\ call \in [Slot -> AnyCall]
  /\ topic \in Topic /\ crowded \in BOOLEAN /\ trailing \subseteq User

WithdrawInv ==
  \A c \in Slot : Doing(c, "withdraw") =>
    /\ call[c].since <= calls /\ calls > 0
    /\ call[c].by \in accounts
    /\ \A t \in call[c].leads : leader[t] # Nobody
    /\ AtMostOne(call[c].owns)

IInv ==
  /\ CallInv /\ WithdrawInv /\ TeamInv /\ ChallengeInv /\ ApplyInv /\ PriceInv /\ CertInv
  /\ BusinessInv /\ ProfileInv /\ UploadInv /\ SignInInv /\ AloneInv /\ OrphanInv /\ LeftInv

-----------------------------------------------------------------------------
(* Calls in flight: the name of an operation tells what the call keeps.    *)

LEMMA OpsOfCalls ==
  /\ Idle.op = "idle"
  /\ \A r \in TeamCall : r.op \in TeamOps
  /\ \A r \in ChallengeCall : r.op = "move"
  /\ \A r \in ApplyCall : r.op \in ApplyOps
  /\ \A r \in EditCall : r.op = "edit"
  /\ \A r \in CertCall : r.op \in CertOps
  /\ \A r \in EnrollCall : r.op = "enroll"
  /\ \A r \in ProfileCall : r.op \in ProfileOps
  /\ \A r \in UploadCall : r.op \in UploadOps
  /\ \A r \in SignInCall : r.op \in SignInOps
  /\ \A r \in WithdrawCall : r.op = "withdraw"
<1>1. Idle.op = "idle"
  BY DEF Idle
<1>2. \A r \in TeamCall : r.op \in TeamOps
  BY DEF TeamCall, TeamOps
<1>3. \A r \in ChallengeCall : r.op = "move"
  BY DEF ChallengeCall
<1>4. \A r \in ApplyCall : r.op \in ApplyOps
  BY DEF ApplyCall, ApplyOps
<1>5. \A r \in EditCall : r.op = "edit"
  BY DEF EditCall
<1>6. \A r \in CertCall : r.op \in CertOps
  BY DEF CertCall, CertOps
<1>7. \A r \in EnrollCall : r.op = "enroll"
  BY DEF EnrollCall
<1>8. \A r \in ProfileCall : r.op \in ProfileOps
  BY DEF ProfileCall, ProfileOps
<1>9. \A r \in UploadCall : r.op \in UploadOps
  BY DEF UploadCall, UploadOps
<1>10. \A r \in SignInCall : r.op \in SignInOps
  BY DEF SignInCall, SignInOps
<1>11. \A r \in WithdrawCall : r.op = "withdraw"
  BY DEF WithdrawCall
<1> QED BY <1>1, <1>2, <1>3, <1>4, <1>5, <1>6, <1>7, <1>8, <1>9, <1>10, <1>11

LEMMA CallsByOp ==
  ASSUME NEW r \in AnyCall
  PROVE  /\ r.op \in TeamOps => r \in TeamCall
         /\ r.op = "move" => r \in ChallengeCall
         /\ r.op \in ApplyOps => r \in ApplyCall
         /\ r.op = "edit" => r \in EditCall
         /\ r.op \in CertOps => r \in CertCall
         /\ r.op = "enroll" => r \in EnrollCall
         /\ r.op \in ProfileOps => r \in ProfileCall
         /\ r.op \in UploadOps => r \in UploadCall
         /\ r.op \in SignInOps => r \in SignInCall
         /\ r.op = "withdraw" => r \in WithdrawCall
         /\ r.op = "idle" => r = Idle
<1> USE OpsOfCalls DEF AnyCall, TeamOps, ApplyOps, CertOps, ProfileOps, UploadOps, SignInOps
<1>1. r.op \in TeamOps => r \in TeamCall
  OBVIOUS
<1>2. r.op = "move" => r \in ChallengeCall
  OBVIOUS
<1>3. r.op \in ApplyOps => r \in ApplyCall
  OBVIOUS
<1>4. r.op = "edit" => r \in EditCall
  OBVIOUS
<1>5. r.op \in CertOps => r \in CertCall
  OBVIOUS
<1>6. r.op = "enroll" => r \in EnrollCall
  OBVIOUS
<1>7. r.op \in ProfileOps => r \in ProfileCall
  OBVIOUS
<1>8. r.op \in UploadOps => r \in UploadCall
  OBVIOUS
<1>9. r.op \in SignInOps => r \in SignInCall
  OBVIOUS
<1>10. r.op = "withdraw" => r \in WithdrawCall
  OBVIOUS
<1>11. r.op = "idle" => r = Idle
  OBVIOUS
<1> QED BY <1>1, <1>2, <1>3, <1>4, <1>5, <1>6, <1>7, <1>8, <1>9, <1>10, <1>11

\* The calls that carry the user they are made for.
Personal == {"create", "join", "enroll", "save", "store", "edit", "withdraw"} \cup ApplyOps

LEMMA CallsOfUsers ==
  ASSUME NEW r \in AnyCall
  PROVE  /\ "by" \in DOMAIN r => r.op \in Personal
         /\ r.op \in Personal => "by" \in DOMAIN r /\ r.by \in User
<1>1. /\ \A q \in ChallengeCall : "by" \notin DOMAIN q
      /\ \A q \in CertCall : "by" \notin DOMAIN q
      /\ \A q \in UploadCall : "by" \notin DOMAIN q
      /\ \A q \in SignInCall : "by" \notin DOMAIN q
      /\ "by" \notin DOMAIN Idle
  <2>1. \A q \in ChallengeCall : "by" \notin DOMAIN q
    BY DEF ChallengeCall
  <2>2. \A q \in CertCall : "by" \notin DOMAIN q
    BY DEF CertCall
  <2>3. \A q \in UploadCall : "by" \notin DOMAIN q
    BY DEF UploadCall
  <2>4. \A q \in SignInCall : "by" \notin DOMAIN q
    <3>1. \A q \in [op : {"register"}] : "by" \notin DOMAIN q
      OBVIOUS
    <3>2. \A q \in [op : {"find", "insert", "find again"}, provider : Provider] : "by" \notin DOMAIN q
      OBVIOUS
    <3>3. \A q \in [op : {"associate"}, provider : Provider, account : User] : "by" \notin DOMAIN q
      OBVIOUS
    <3> QED BY <3>1, <3>2, <3>3 DEF SignInCall
  <2>5. "by" \notin DOMAIN Idle
    BY DEF Idle
  <2> QED BY <2>1, <2>2, <2>3, <2>4, <2>5
<1>2. /\ \A q \in TeamCall : /\ "by" \in DOMAIN q => q.op \in {"create", "join"}
                             /\ q.op \in {"create", "join"} => "by" \in DOMAIN q /\ q.by \in User
  BY DEF TeamCall
<1>3. /\ \A q \in ProfileCall : /\ "by" \in DOMAIN q => q.op \in {"save", "store"}
                                /\ q.op \in {"save", "store"} => "by" \in DOMAIN q /\ q.by \in User
  BY DEF ProfileCall
<1>4. \A q \in ApplyCall \cup EditCall \cup EnrollCall \cup WithdrawCall : "by" \in DOMAIN q /\ q.by \in User
  BY DEF ApplyCall, EditCall, EnrollCall, WithdrawCall
<1> QED BY <1>1, <1>2, <1>3, <1>4, CallsByOp, OpsOfCalls
        DEF AnyCall, Personal, TeamOps, ApplyOps, CertOps, ProfileOps, UploadOps, SignInOps

\* What the steps of one subject, whose calls have the operations ops, may do
\* to the calls in flight.
CallStep(ops) ==
  /\ call' \in [Slot -> AnyCall]
  /\ calls' \in 0..MaxCalls /\ calls <= calls'
  /\ \A d \in Slot : \/ call'[d] = call[d]
                     \/ call[d].op \in ops \cup {"idle"} /\ call'[d].op \in ops \cup {"idle"}
  /\ \A d \in Slot : call[d] = Idle /\ call'[d] # Idle => calls < calls'
  /\ \A d \in Slot, u \in User : Trails(d, u)' => Trails(d, u) \/ Active(u)

LEMMA Begun ==
  ASSUME CallInv, NEW ops, NEW c \in Slot, NEW by, NEW r \in AnyCall, Begin(c, by, r),
         r.op \in ops, "by" \in DOMAIN r => r.by = by
  PROVE  /\ CallStep(ops)
         /\ call[c] = Idle /\ call'[c] = r /\ \A d \in Slot \ {c} : call'[d] = call[d]
         /\ calls < calls' /\ Active(by)
<1>1. call[c] = Idle /\ call' = [call EXCEPT ![c] = r] /\ calls' = calls + 1 /\ calls < MaxCalls /\ Active(by)
  BY DEF Begin
<1>2. call'[c] = r /\ call' \in [Slot -> AnyCall] /\ \A d \in Slot \ {c} : call'[d] = call[d]
  BY <1>1 DEF CallInv
<1>3. calls' \in 0..MaxCalls /\ calls < calls'
  BY <1>1, RequestsAssumption DEF CallInv, AccountsTypeOK
<1>4. call[c].op = "idle"
  BY <1>1 DEF Idle
<1>5. \A d \in Slot, u \in User : Trails(d, u)' => Trails(d, u) \/ Active(u)
  BY <1>1, <1>2 DEF Trails
<1> QED BY <1>1, <1>2, <1>3, <1>4, <1>5 DEF CallStep, CallInv, AccountsTypeOK

LEMMA Continued ==
  ASSUME CallInv, NEW ops, NEW c \in Slot, NEW r \in AnyCall, Continue(c, r),
         r.op \in ops \cup {"idle"}, call[c].op \in ops, "idle" \notin ops,
         \A u \in User : "by" \in DOMAIN r /\ r.by = u => Trails(c, u)
  PROVE  /\ CallStep(ops)
         /\ call'[c] = r /\ \A d \in Slot \ {c} : call'[d] = call[d]
         /\ calls' = calls
<1>1. call' = [call EXCEPT ![c] = r] /\ calls' = calls
  BY DEF Continue
<1>2. call'[c] = r /\ call' \in [Slot -> AnyCall] /\ \A d \in Slot \ {c} : call'[d] = call[d]
  BY <1>1 DEF CallInv
<1>3. call[c] # Idle
  BY DEF Idle
<1>4. \A d \in Slot, u \in User : Trails(d, u)' => Trails(d, u)
  BY <1>2 DEF Trails
<1> QED BY <1>1, <1>2, <1>3, <1>4 DEF CallStep, CallInv, AccountsTypeOK

LEMMA Returned ==
  ASSUME CallInv, NEW ops, NEW c \in Slot, Return(c), call[c].op \in ops, "idle" \notin ops
  PROVE  /\ CallStep(ops)
         /\ call'[c] = Idle /\ \A d \in Slot \ {c} : call'[d] = call[d]
         /\ calls' = calls
<1>1. Continue(c, Idle) /\ Idle \in AnyCall /\ Idle.op = "idle" /\ "by" \notin DOMAIN Idle
  BY DEF Return, AnyCall, Idle
<1> QED BY <1>1, Continued

LEMMA Rested ==
  ASSUME CallInv, NEW ops, UNCHANGED call, UNCHANGED calls \/ \E by \in User \cup {Staff} : Serve(by)
  PROVE  CallStep(ops)
<1>1. calls' \in 0..MaxCalls /\ calls <= calls'
  BY RequestsAssumption DEF Serve, CallInv, AccountsTypeOK
<1>2. \A d \in Slot, u \in User : Trails(d, u)' => Trails(d, u)
  BY DEF Trails
<1> QED BY <1>1, <1>2 DEF CallStep, CallInv

\* No call of these operations is touched.
Spares(ops) ==
  \A d \in Slot : call'[d] = call[d] \/ (call[d].op \notin ops /\ call'[d].op \notin ops)

LEMMA StepSpares ==
  ASSUME NEW ops, CallStep(ops), NEW other, ops \cap other = {}, "idle" \notin other
  PROVE  Spares(other)
BY DEF CallStep, Spares

-----------------------------------------------------------------------------
(* Teams.                                                                  *)

LEMMA TeamFields ==
  ASSUME CallInv, NEW c \in Slot
  PROVE  /\ call[c].op \in {"create", "join"} => call[c].by \in User /\ call[c].team \in Team
         /\ call[c].op \in {"invite", "decide"} => call[c].user \in User /\ call[c].team \in Team
         /\ call[c].op = "decide" => call[c].verdict \in Verdict
BY CallsByOp DEF CallInv, TeamOps, TeamCall

LEMMA TeamCalls ==
  ASSUME CallInv, TeamsTypeOK, TeamsNext
  PROVE  CallStep(TeamOps)
<1> USE DEF TeamOps
<1>1. ASSUME NEW c \in Slot, InsertTeam(c) \/ InsertApplicant(c) \/ InsertInvitation(c) \/ WriteMember(c)
      PROVE  CallStep(TeamOps)
  BY <1>1, Returned DEF InsertTeam, InsertApplicant, InsertInvitation, WriteMember
<1>2. ASSUME NEW c \in Slot, NEW u \in User, NEW t \in Team, CreateTeam(c, u, t) PROVE CallStep(TeamOps)
  <2> DEFINE r == [op |-> "create", by |-> u, team |-> t]
  <2>1. r \in AnyCall /\ r.op = "create" /\ r.by = u
    BY DEF AnyCall, TeamCall
  <2>2. Begin(c, u, r)
    BY <1>2 DEF CreateTeam
  <2> HIDE DEF r
  <2> QED BY <2>1, <2>2, Begun
<1>3. ASSUME NEW c \in Slot, NEW u \in User, NEW t \in Team, Join(c, u, t) PROVE CallStep(TeamOps)
  <2> DEFINE r == [op |-> "join", by |-> u, team |-> t]
  <2>1. r \in AnyCall /\ r.op = "join" /\ r.by = u
    BY DEF AnyCall, TeamCall
  <2>2. Begin(c, u, r)
    BY <1>3 DEF Join
  <2> HIDE DEF r
  <2> QED BY <2>1, <2>2, Begun
<1>4. ASSUME NEW c \in Slot, NEW by \in User \cup {Staff}, NEW t \in Team, NEW u \in User, Invite(c, by, t, u)
      PROVE  CallStep(TeamOps)
  <2> DEFINE r == [op |-> "invite", team |-> t, user |-> u]
  <2>1. r \in AnyCall /\ r.op = "invite" /\ "by" \notin DOMAIN r
    BY DEF AnyCall, TeamCall
  <2>2. Begin(c, by, r)
    BY <1>4 DEF Invite
  <2> HIDE DEF r
  <2> QED BY <2>1, <2>2, Begun
<1>5. ASSUME NEW c \in Slot, NEW by \in User \cup {Staff}, NEW t \in Team, NEW u \in User,
             NEW verdict \in Verdict, UpdateMember(c, by, t, u, verdict)
      PROVE  CallStep(TeamOps)
  <2> DEFINE r == [op |-> "decide", team |-> t, user |-> u, own |-> by = u,
                   verdict |-> verdict, seen |-> member[t][u], found |-> TRUE]
  <2>1. (by = u) \in BOOLEAN /\ member[t][u] \in Status
    BY <1>5 DEF UpdateMember, TeamsTypeOK
  <2>2. r \in AnyCall /\ r.op = "decide" /\ "by" \notin DOMAIN r
    BY <2>1 DEF AnyCall, TeamCall
  <2>3. Begin(c, by, r)
    BY <1>5 DEF UpdateMember
  <2> HIDE DEF r
  <2> QED BY <2>2, <2>3, Begun
<1> QED BY <1>1, <1>2, <1>3, <1>4, <1>5 DEF TeamsNext

\* Sets of users.
LEMMA OneMoreUser ==
  ASSUME NEW S \in SUBSET User, NEW u \in User
  PROVE  /\ Cardinality(S) \in Nat
         /\ Cardinality(S \cup {u}) <= Cardinality(S) + 1
         /\ \A T \in SUBSET S : Cardinality(T) <= Cardinality(S)
<1>1. IsFiniteSet(S)
  BY TeamsAssumption, FS_Subset
<1>2. Cardinality(S) \in Nat
  BY <1>1, FS_CardinalityType
<1>3. Cardinality(S \cup {u}) = IF u \in S THEN Cardinality(S) ELSE Cardinality(S) + 1
  BY <1>1, FS_AddElement
<1>4. \A T \in SUBSET S : Cardinality(T) <= Cardinality(S)
  BY <1>1, FS_Subset
<1> QED BY <1>2, <1>3, <1>4

LEMMA NoUsers == Cardinality({}) = 0
BY FS_EmptySet

\* Only the calls of slot c change, and c ends or begins.
EndsAt(c) == call'[c] = Idle /\ \A d \in Slot \ {c} : call'[d] = call[d]

LEMMA TeamReturns ==
  ASSUME CallInv, NEW c \in Slot, call[c].op \in TeamOps, Return(c)
  PROVE  EndsAt(c) /\ calls' = calls
BY Returned DEF TeamOps, EndsAt

LEMMA TeamInserted ==
  ASSUME CallInv, TeamInv, NEW c \in Slot, InsertTeam(c)
  PROVE  TeamInv'
<1> PICK t \in Team, u \in User : t = call[c].team /\ u = call[c].by
  BY TeamFields DEF InsertTeam
<1>1. leader[t] = Nobody /\ call[c].op = "create"
  BY DEF InsertTeam, TeamInv, Doing
<1>2. EndsAt(c)
  BY <1>1, TeamReturns DEF InsertTeam, TeamOps
<1>3. leader' = [leader EXCEPT ![t] = u] /\ member' = [member EXCEPT ![t][u] = "accepted"]
      /\ UNCHANGED <<scouted, asked, revived>>
  BY DEF InsertTeam
<1>4. TeamsTypeOK'
  BY <1>1, <1>3 DEF TeamsTypeOK, TeamInv, Status, Verdict
<1>5. /\ \A s \in Team \ {t} : leader'[s] = leader[s] /\ member'[s] = member[s]
      /\ leader'[t] = u /\ u # Nobody
      /\ member'[t][u] = "accepted" /\ \A v \in User \ {u} : member'[t][v] = "none"
  BY <1>1, <1>3, TeamsAssumption DEF TeamsTypeOK, TeamInv
<1>6. TeamWithinLimits'
  <2>1. ASSUME NEW s \in Team \ {t} PROVE Accepted(s)' = Accepted(s)
    BY <1>5 DEF Accepted
  <2>2. Accepted(t)' = {} \cup {u}
    BY <1>1, <1>5 DEF Accepted
  <2>3. Cardinality(Accepted(t)') <= 1
    BY <1>1, <2>2, OneMoreUser, NoUsers
  <2>4. revived[t] >= 0 /\ Capacity >= 1
    BY <1>1, TeamsAssumption DEF TeamsTypeOK, TeamInv
  <2>5. Cardinality(Accepted(t)') <= Capacity + revived[t] /\ Cardinality(Accepted(t)') \in Nat
    <3>1. Accepted(t)' \in SUBSET User
      BY DEF Accepted
    <3> HIDE DEF Accepted
    <3>2. Cardinality(Accepted(t)') \in Nat
      BY <1>1, <3>1, OneMoreUser
    <3> QED BY <2>3, <2>4, <3>2, <1>1, TeamsAssumption DEF TeamsTypeOK, TeamInv
  <2> QED BY <1>3, <2>1, <2>5 DEF TeamWithinLimits, TeamInv
<1>7. \A d \in Slot : Doing(d, "create")' => d # c /\ call'[d] = call[d] /\ call[d].op = "create" /\ call[d].team # t
  BY <1>1, <1>2 DEF EndsAt, Doing, Idle, TeamInv
<1>8. \A d \in Slot : call'[d].op \in {"join", "invite", "decide"} =>
         d # c /\ call'[d] = call[d] /\ call[d].team \in Team \ {t}
  BY <1>1, <1>2, TeamFields DEF EndsAt, Doing, Idle, TeamInv
<1>9. \A d \in Slot : Doing(d, "create") => call[d].team \in Team
  BY TeamFields DEF Doing
<1> QED BY <1>4, <1>5, <1>6, <1>7, <1>8, <1>9 DEF TeamInv, Doing

LEMMA TeamLimitsKept ==
  ASSUME TeamInv, NEW t \in Team, TeamsTypeOK',
         \A s \in Team \ {t} : member'[s] = member[s] /\ scouted'[s] = scouted[s] /\ revived'[s] = revived[s],
         Cardinality(scouted'[t]) <= ScoutLimit,
         Cardinality(Accepted(t)') <= Capacity + revived'[t]
  PROVE  TeamWithinLimits'
<1>1. ASSUME NEW s \in Team \ {t} PROVE Accepted(s)' = Accepted(s)
  BY DEF Accepted
<1> QED BY <1>1 DEF TeamWithinLimits, TeamInv

\* A row is added that is not accepted.
LEMMA RowAdded ==
  ASSUME CallInv, TeamInv, NEW c \in Slot, NEW t \in Team, NEW u \in User, NEW status \in {"pending", "invited"},
         call[c].op \in {"join", "invite"}, call[c].team = t, EndsAt(c), member[t][u] = "none",
         member' = [member EXCEPT ![t][u] = status],
         scouted' \in [Team -> SUBSET User], asked' \in [Team -> SUBSET User],
         \A s \in Team \ {t} : scouted'[s] = scouted[s], Cardinality(scouted'[t]) <= ScoutLimit,
         UNCHANGED <<leader, revived>>
  PROVE  TeamInv'
<1>1. /\ member' \in [Team -> [User -> Status \cup {"none"}]]
      /\ member'[t][u] = status
      /\ \A s \in Team, v \in User : s # t \/ v # u => member'[s][v] = member[s][v]
      /\ \A s \in Team \ {t} : member'[s] = member[s]
  BY DEF TeamInv, TeamsTypeOK, Status
<1>2. TeamsTypeOK'
  BY <1>1 DEF TeamInv, TeamsTypeOK
<1>3. Accepted(t)' = Accepted(t)
  BY <1>1 DEF Accepted
<1>4. Cardinality(Accepted(t)') <= Capacity + revived'[t]
  BY <1>3 DEF TeamInv, TeamWithinLimits
<1>5. TeamWithinLimits'
  BY <1>1, <1>2, <1>4, TeamLimitsKept
<1>6. leader[t] # Nobody
  BY DEF TeamInv
<1>7. \A d \in Slot : call'[d].op \in TeamOps => call'[d] = call[d]
  BY DEF EndsAt, Idle, TeamOps
<1>8. \A d \in Slot : call[d].op = "decide" => call[d].team \in Team /\ call[d].user \in User
  BY TeamFields
<1>9. \A s \in Team : leader'[s] = Nobody => \A v \in User : member'[s][v] = "none"
  BY <1>1, <1>6 DEF TeamInv
<1>10. \A d \in Slot : Doing(d, "decide")' /\ call'[d].found => member'[call'[d].team][call'[d].user] # "none"
  BY <1>1, <1>7, <1>8 DEF TeamInv, Doing, TeamOps
<1> QED BY <1>2, <1>5, <1>7, <1>9, <1>10 DEF TeamInv, Doing, TeamOps

LEMMA RowRefused ==
  ASSUME TeamInv, NEW c \in Slot, EndsAt(c), UNCHANGED teamVars
  PROVE  TeamInv'
<1>1. \A d \in Slot : call'[d].op \in TeamOps => call'[d] = call[d]
  BY DEF EndsAt, Idle, TeamOps
<1>2. TeamsTypeOK' /\ TeamWithinLimits'
  BY DEF TeamInv, TeamsTypeOK, TeamWithinLimits, Accepted, teamVars
<1> QED BY <1>1, <1>2 DEF TeamInv, Doing, TeamOps, teamVars

LEMMA ApplicantInserted ==
  ASSUME CallInv, TeamInv, NEW c \in Slot, InsertApplicant(c)
  PROVE  TeamInv'
<1> PICK t \in Team, u \in User : t = call[c].team /\ u = call[c].by
  BY TeamFields DEF InsertApplicant
<1>1. EndsAt(c)
  BY TeamReturns DEF InsertApplicant, TeamOps
<1>2. CASE member[t][u] = "none"
  <2>1. /\ member' = [member EXCEPT ![t][u] = "pending"]
        /\ asked' = [asked EXCEPT ![t] = @ \cup {u}]
        /\ UNCHANGED <<leader, scouted, revived>>
    BY <1>2 DEF InsertApplicant
  <2>2. /\ scouted' \in [Team -> SUBSET User]
        /\ asked' \in [Team -> SUBSET User]
        /\ Cardinality(scouted'[t]) <= ScoutLimit
    BY <2>1 DEF TeamInv, TeamsTypeOK, TeamWithinLimits
  <2> QED BY <1>1, <1>2, <2>1, <2>2, RowAdded DEF InsertApplicant
<1>3. CASE member[t][u] # "none"
  BY <1>1, <1>3, RowRefused DEF InsertApplicant, teamVars
<1> QED BY <1>2, <1>3

LEMMA InvitationInserted ==
  ASSUME CallInv, TeamInv, NEW c \in Slot, InsertInvitation(c)
  PROVE  TeamInv'
<1> PICK t \in Team, u \in User : t = call[c].team /\ u = call[c].user
  BY TeamFields DEF InsertInvitation
<1>1. EndsAt(c)
  BY TeamReturns DEF InsertInvitation, TeamOps
<1>2. CASE member[t][u] = "none" /\ Cardinality(scouted[t]) < ScoutLimit
  <2>1. /\ member' = [member EXCEPT ![t][u] = "invited"]
        /\ scouted' = [scouted EXCEPT ![t] = @ \cup {u}]
        /\ UNCHANGED <<leader, asked, revived>>
    BY <1>2 DEF InsertInvitation
  <2>2. scouted[t] \in SUBSET User /\ scouted'[t] = scouted[t] \cup {u}
    BY <2>1 DEF TeamInv, TeamsTypeOK
  <2>3. Cardinality(scouted'[t]) <= ScoutLimit
    <3>1. Cardinality(scouted[t]) \in Nat /\ Cardinality(scouted[t] \cup {u}) <= Cardinality(scouted[t]) + 1
      BY <2>2, OneMoreUser
    <3>2. Cardinality(scouted[t] \cup {u}) \in Nat
      BY <2>2, OneMoreUser
    <3> QED BY <1>2, <2>2, <3>1, <3>2, TeamsAssumption
  <2>4. /\ scouted' \in [Team -> SUBSET User]
        /\ asked' \in [Team -> SUBSET User]
        /\ \A s \in Team \ {t} : scouted'[s] = scouted[s]
    BY <2>1 DEF TeamInv, TeamsTypeOK
  <2> QED BY <1>1, <1>2, <2>1, <2>3, <2>4, RowAdded DEF InsertInvitation
<1>3. CASE ~(member[t][u] = "none" /\ Cardinality(scouted[t]) < ScoutLimit)
  BY <1>1, <1>3, RowRefused DEF InsertInvitation, teamVars
<1> QED BY <1>2, <1>3

LEMMA MemberWritten ==
  ASSUME CallInv, TeamInv, NEW c \in Slot, WriteMember(c)
  PROVE  TeamInv'
<1> PICK t \in Team, u \in User, verdict \in Verdict :
       t = call[c].team /\ u = call[c].user /\ verdict = call[c].verdict
  BY TeamFields DEF WriteMember
<1> DEFINE checked == verdict = "accepted" /\ call[c].seen # "accepted"
           gains == verdict = "accepted" /\ member[t][u] # "accepted"
           writes == call[c].found /\ (checked => HasRoom(t))
<1>1. EndsAt(c)
  BY TeamReturns DEF WriteMember, TeamOps
<1>2. CASE writes
  <2>1. /\ member' = [member EXCEPT ![t][u] = verdict]
        /\ asked' = [asked EXCEPT ![t] = IF verdict = "accepted" /\ call[c].own THEN @ \cup {u} ELSE @]
        /\ revived' = [revived EXCEPT ![t] = IF gains /\ ~checked THEN @ + 1 ELSE @]
        /\ UNCHANGED <<leader, scouted>>
    BY <1>2 DEF WriteMember
  <2>2. /\ member' \in [Team -> [User -> Status \cup {"none"}]]
        /\ member'[t][u] = verdict /\ verdict # "none"
        /\ \A s \in Team, v \in User : s # t \/ v # u => member'[s][v] = member[s][v]
        /\ \A s \in Team \ {t} : member'[s] = member[s] /\ revived'[s] = revived[s]
    BY <2>1 DEF TeamInv, TeamsTypeOK, Status, Verdict
  <2>3. revived'[t] = IF gains /\ ~checked THEN revived[t] + 1 ELSE revived[t]
    BY <2>1 DEF TeamInv, TeamsTypeOK
  <2>4. revived' \in [Team -> Nat] /\ revived[t] \in Nat
    BY <2>1 DEF TeamInv, TeamsTypeOK
  <2>5. asked' \in [Team -> SUBSET User]
    BY <2>1 DEF TeamInv, TeamsTypeOK
  <2>6. TeamsTypeOK'
    BY <2>1, <2>2, <2>4, <2>5 DEF TeamInv, TeamsTypeOK
  <2>7. /\ Accepted(t) \in SUBSET User /\ Accepted(t)' \in SUBSET User
        /\ gains => Accepted(t)' = Accepted(t) \cup {u}
        /\ ~gains => Accepted(t)' \in SUBSET Accepted(t)
    BY <2>2 DEF Accepted
  <2>8. Cardinality(Accepted(t)') <= Capacity + revived'[t]
    <3>1. /\ Cardinality(Accepted(t)) \in Nat /\ Cardinality(Accepted(t)') \in Nat
          /\ Cardinality(Accepted(t)) <= Capacity + revived[t]
          /\ checked => Cardinality(Accepted(t)) < Capacity
      BY <1>2, <2>7, OneMoreUser DEF TeamInv, TeamWithinLimits, HasRoom
    <3>2. CASE gains
      <4>1. Cardinality(Accepted(t)') <= Cardinality(Accepted(t)) + 1
        BY <2>7, <3>2, OneMoreUser
      <4> HIDE DEF checked, gains
      <4> QED BY <2>3, <2>4, <3>1, <3>2, <4>1, TeamsAssumption
    <3>3. CASE ~gains
      <4>1. Cardinality(Accepted(t)') <= Cardinality(Accepted(t))
        BY <2>7, <3>3, OneMoreUser
      <4> HIDE DEF checked, gains
      <4> QED BY <2>3, <2>4, <3>1, <3>3, <4>1, TeamsAssumption
    <3> QED BY <3>2, <3>3
  <2>9. TeamWithinLimits'
    BY <2>1, <2>2, <2>6, <2>8, TeamLimitsKept DEF TeamInv, TeamWithinLimits
  <2>10. \A d \in Slot : call'[d].op \in TeamOps => call'[d] = call[d]
    BY <1>1 DEF EndsAt, Idle, TeamOps
  <2>11. leader[t] # Nobody
    BY DEF TeamInv, WriteMember
  <2>12. \A s \in Team : leader'[s] = Nobody => \A v \in User : member'[s][v] = "none"
    BY <2>1, <2>2, <2>11 DEF TeamInv
  <2>13. \A d \in Slot : call[d].op = "decide" => call[d].team \in Team /\ call[d].user \in User
    BY TeamFields
  <2>14. \A d \in Slot : Doing(d, "decide")' /\ call'[d].found => member'[call'[d].team][call'[d].user] # "none"
    BY <2>2, <2>10, <2>13 DEF TeamInv, Doing, TeamOps
  <2> QED BY <2>1, <2>6, <2>9, <2>10, <2>12, <2>14 DEF TeamInv, Doing, TeamOps
<1>3. CASE ~writes
  BY <1>1, <1>3, RowRefused DEF WriteMember, teamVars
<1> QED BY <1>2, <1>3

LEMMA TeamRowsStay ==
  ASSUME UNCHANGED teamVars, TeamInv
  PROVE  /\ TeamsTypeOK' /\ TeamWithinLimits'
         /\ \A t \in Team : leader'[t] = Nobody => \A u \in User : member'[t][u] = "none"
BY DEF TeamInv, TeamsTypeOK, TeamWithinLimits, Accepted, teamVars

LEMMA TeamKeeps ==
  ASSUME CallInv, TeamInv, TeamsNext
  PROVE  TeamInv'
<1>1. ASSUME NEW c \in Slot, InsertTeam(c) \/ InsertApplicant(c) \/ InsertInvitation(c) \/ WriteMember(c)
      PROVE  TeamInv'
  BY <1>1, TeamInserted, ApplicantInserted, InvitationInserted, MemberWritten
<1>2. ASSUME NEW c \in Slot, NEW u \in User, NEW t \in Team, CreateTeam(c, u, t) PROVE TeamInv'
  <2>1. call'[c].team = t /\ call'[c].op = "create" /\ \A d \in Slot \ {c} : call'[d] = call[d]
    BY <1>2 DEF CreateTeam, Begin, CallInv
  <2>2. leader[t] = Nobody /\ \A d \in Slot : Doing(d, "create") => call[d].team # t
    BY <1>2 DEF CreateTeam, Doing
  <2> QED BY <1>2, <2>1, <2>2, TeamRowsStay DEF CreateTeam, TeamInv, Doing, teamVars
<1>3. ASSUME NEW c \in Slot, NEW by \in User \cup {Staff}, NEW t \in Team, NEW u \in User,
             \/ Join(c, u, t) \/ Invite(c, by, t, u)
             \/ \E verdict \in Verdict : UpdateMember(c, by, t, u, verdict)
      PROVE  TeamInv'
  <2>1. /\ call'[c].team = t /\ call'[c].op \in {"join", "invite", "decide"}
        /\ \A d \in Slot \ {c} : call'[d] = call[d]
        /\ call'[c].op = "decide" => call'[c].user = u /\ member[t][u] # "none"
    BY <1>3 DEF Join, Invite, UpdateMember, Begin, CallInv
  <2>2. leader[t] # Nobody /\ UNCHANGED teamVars
    BY <1>3 DEF Join, Invite, UpdateMember
  <2> QED BY <2>1, <2>2, TeamRowsStay DEF TeamInv, Doing, teamVars
<1> QED BY <1>1, <1>2, <1>3 DEF TeamsNext

LEMMA TeamStays ==
  ASSUME TeamInv, Spares(TeamOps), UNCHANGED teamVars
  PROVE  TeamInv'
BY TeamRowsStay DEF TeamInv, Spares, TeamOps, Doing, teamVars

-----------------------------------------------------------------------------
(* Withdrawals, and what their commits do to the calls in flight.          *)

LEMMA WithdrawFields ==
  ASSUME CallInv, NEW c \in Slot, call[c].op = "withdraw"
  PROVE  /\ call[c].by \in User /\ call[c].heir \in User
         /\ call[c].leads \in SUBSET Team /\ call[c].owns \in SUBSET Business
         /\ call[c].since \in 0..MaxCalls
BY CallsByOp DEF CallInv, WithdrawCall

LEMMA WithdrawBegun ==
  ASSUME CallInv, NEW c \in Slot, NEW u \in User, NEW heir \in User, Withdraw(c, u, heir)
  PROVE  LET r == [op |-> "withdraw", by |-> u, heir |-> heir, leads |-> Led(u),
                   owns |-> Owned(u), since |-> IF OthersIdle(c) THEN calls + 1 ELSE 0]
         IN /\ CallStep({"withdraw"})
            /\ call[c] = Idle /\ call'[c] = r /\ \A d \in Slot \ {c} : call'[d] = call[d]
            /\ calls' = calls + 1 /\ Active(u)
<1> DEFINE since == IF OthersIdle(c) THEN calls + 1 ELSE 0
           r == [op |-> "withdraw", by |-> u, heir |-> heir, leads |-> Led(u),
                 owns |-> Owned(u), since |-> since]
<1>1. Begin(c, u, r)
  BY DEF Withdraw
<1>2. since \in 0..MaxCalls /\ calls' = calls + 1
  BY <1>1, RequestsAssumption DEF Begin, CallInv, AccountsTypeOK
<1>3. Led(u) \in SUBSET Team /\ Owned(u) \in SUBSET Business
  BY DEF Led, Owned
<1> HIDE DEF since
<1>4. r \in AnyCall /\ r.op = "withdraw" /\ r.by = u
  BY <1>2, <1>3 DEF AnyCall, WithdrawCall
<1> HIDE DEF r
<1>5. CallStep({"withdraw"}) /\ call[c] = Idle /\ call'[c] = r
      /\ (\A d \in Slot \ {c} : call'[d] = call[d]) /\ Active(u)
  BY <1>1, <1>4, Begun
<1> QED BY <1>2, <1>5 DEF r, since

LEMMA WithdrawRecord ==
  ASSUME CallInv, NEW c \in Slot, NEW u \in User, NEW heir \in User, Withdraw(c, u, heir)
  PROVE  /\ call[c] = Idle /\ \A d \in Slot \ {c} : call'[d] = call[d]
         /\ call'[c].op = "withdraw" /\ call'[c].by = u /\ call'[c].heir = heir
         /\ call'[c].leads = Led(u) /\ call'[c].owns = Owned(u)
         /\ call'[c].since = IF OthersIdle(c) THEN calls + 1 ELSE 0
<1> DEFINE since == IF OthersIdle(c) THEN calls + 1 ELSE 0
           r == [op |-> "withdraw", by |-> u, heir |-> heir, leads |-> Led(u),
                 owns |-> Owned(u), since |-> since]
<1>1. call[c] = Idle /\ (\A d \in Slot \ {c} : call'[d] = call[d]) /\ call'[c] = r
  BY WithdrawBegun
<1> HIDE DEF since
<1>2. r.op = "withdraw" /\ r.by = u /\ r.heir = heir /\ r.leads = Led(u) /\ r.owns = Owned(u) /\ r.since = since
  OBVIOUS
<1> QED BY <1>1, <1>2 DEF since

LEMMA CommitCalls ==
  ASSUME CallInv, NEW c \in Slot, CommitWithdrawal(c)
  PROVE  /\ call'[c] = Idle /\ \A d \in Slot \ {c} : call'[d] = RowGone(d, call[c].by)
         /\ call' \in [Slot -> AnyCall] /\ calls' = calls
         /\ \A d \in Slot \ {c} : /\ call'[d].op = call[d].op
                                  /\ call[d].op # "decide" => call'[d] = call[d]
<1>1. call'[c] = Idle /\ (\A d \in Slot \ {c} : call'[d] = RowGone(d, call[c].by)) /\ calls' = calls
      /\ call' = [d \in Slot |-> IF d = c THEN Idle ELSE RowGone(d, call[c].by)]
  BY DEF CommitWithdrawal
<1>2. ASSUME NEW d \in Slot 
      PROVE  /\ RowGone(d, call[c].by) \in AnyCall /\ RowGone(d, call[c].by).op = call[d].op
             /\ call[d].op # "decide" => RowGone(d, call[c].by) = call[d]
  <2>1. CASE call[d].op = "decide" /\ call[d].user = call[c].by
    <3>1. call[d] \in [op : {"decide"}, team : Team, user : User, own : BOOLEAN,
                       verdict : Verdict, seen : Status, found : BOOLEAN]
      BY <2>1, CallsByOp DEF CallInv, TeamOps, TeamCall
    <3>2. [call[d] EXCEPT !.found = FALSE] \in TeamCall /\ [call[d] EXCEPT !.found = FALSE].op = "decide"
      BY <3>1 DEF TeamCall
    <3> QED BY <2>1, <3>2 DEF RowGone, AnyCall
  <2> QED BY <2>1 DEF RowGone, CallInv
<1>3. Idle \in AnyCall
  BY DEF AnyCall
<1>4. \A d \in Slot : (IF d = c THEN Idle ELSE RowGone(d, call[c].by)) \in AnyCall
  BY <1>2, <1>3
<1>5. call' \in [Slot -> AnyCall]
  BY <1>1, <1>4
<1> QED BY <1>1, <1>2, <1>5

\* A decision on a row of the user who withdraws finds no row.
LEMMA CommitDecisions ==
  ASSUME CallInv, NEW c \in Slot, CommitWithdrawal(c), NEW d \in Slot, call'[d].op = "decide"
  PROVE  /\ d # c /\ call[d].op = "decide"
         /\ call'[d].team = call[d].team /\ call'[d].user = call[d].user
         /\ call'[d].found => call[d].found /\ call[d].user # call[c].by
<1>1. d # c /\ call[d].op = "decide" /\ call'[d] = RowGone(d, call[c].by)
  BY CommitCalls DEF Idle
<1>2. call[d] \in [op : {"decide"}, team : Team, user : User, own : BOOLEAN,
                   verdict : Verdict, seen : Status, found : BOOLEAN]
  BY <1>1, CallsByOp DEF CallInv, TeamOps, TeamCall
<1> QED BY <1>1, <1>2 DEF RowGone

LEMMA CommitSpares ==
  ASSUME CallInv, NEW c \in Slot, CommitWithdrawal(c), NEW ops, "decide" \notin ops, "withdraw" \notin ops, "idle" \notin ops
  PROVE  Spares(ops)
<1>1. call[c].op = "withdraw" /\ call'[c].op = "idle"
  BY CommitCalls DEF CommitWithdrawal, Idle
<1> QED BY <1>1, CommitCalls DEF Spares

LEMMA TeamWithdrawn ==
  ASSUME CallInv, WithdrawInv, TeamInv, NEW c \in Slot, CommitWithdrawal(c)
  PROVE  TeamInv'
<1> PICK u \in User, heir \in User, leads \in SUBSET Team :
       u = call[c].by /\ heir = call[c].heir /\ leads = call[c].leads
  BY WithdrawFields DEF CommitWithdrawal
<1>1. /\ leader' = [t \in Team |-> IF t \in leads THEN heir ELSE leader[t]]
      /\ member' = [t \in Team |-> [member[t] EXCEPT ![u] = "none"]]
      /\ scouted' = [t \in Team |-> scouted[t] \ {u}]
      /\ asked' = [t \in Team |-> asked[t] \ {u}]
      /\ UNCHANGED revived
  BY DEF CommitWithdrawal
<1>2. TeamsTypeOK'
  BY <1>1 DEF TeamInv, TeamsTypeOK
<1>3. \A t \in Team, v \in User : member'[t][v] = IF v = u THEN "none" ELSE member[t][v]
  BY <1>1 DEF TeamInv, TeamsTypeOK
<1>4. TeamWithinLimits'
  <2> SUFFICES ASSUME NEW t \in Team
               PROVE  /\ Cardinality(scouted'[t]) <= ScoutLimit
                      /\ Cardinality(Accepted(t)') <= Capacity + revived'[t]
    BY DEF TeamWithinLimits
  <2>1. /\ scouted[t] \in SUBSET User /\ scouted'[t] \in SUBSET scouted[t]
        /\ Accepted(t) \in SUBSET User /\ Accepted(t)' \in SUBSET Accepted(t)
    BY <1>1, <1>3 DEF Accepted, TeamInv, TeamsTypeOK
  <2>2. scouted'[t] \in SUBSET User /\ Accepted(t)' \in SUBSET User
    BY <2>1
  <2>3. /\ Cardinality(scouted[t]) \in Nat /\ Cardinality(scouted'[t]) \in Nat
        /\ Cardinality(scouted'[t]) <= Cardinality(scouted[t])
    BY <2>1, <2>2, OneMoreUser
  <2>4. /\ Cardinality(Accepted(t)) \in Nat /\ Cardinality(Accepted(t)') \in Nat
        /\ Cardinality(Accepted(t)') <= Cardinality(Accepted(t))
    BY <2>1, <2>2, OneMoreUser
  <2>5. revived[t] \in Nat /\ revived'[t] = revived[t]
    BY <1>1 DEF TeamInv, TeamsTypeOK
  <2>6. Cardinality(scouted[t]) <= ScoutLimit /\ Cardinality(Accepted(t)) <= Capacity + revived[t]
    BY DEF TeamInv, TeamWithinLimits
  <2> QED BY <2>3, <2>4, <2>5, <2>6, TeamsAssumption
<1>5. \A t \in Team : leader'[t] = Nobody <=> leader[t] = Nobody
  BY <1>1, TeamsAssumption DEF WithdrawInv, Doing, CommitWithdrawal
<1>6. \A d \in Slot : call'[d].op \in {"create", "join", "invite"} => d # c /\ call'[d] = call[d]
  BY CommitCalls DEF Idle
<1>7. \A d \in Slot : call[d].op \in TeamOps => call[d].team \in Team
  BY TeamFields DEF TeamOps
<1>8. \A d \in Slot : Doing(d, "decide")' =>
        /\ Doing(d, "decide") /\ call'[d].team = call[d].team /\ call'[d].user = call[d].user
        /\ call'[d].found => call[d].found /\ call[d].user # u /\ call[d].user \in User
  BY CommitDecisions, TeamFields DEF Doing
<1>9. \A t \in Team : leader'[t] = Nobody => \A v \in User : member'[t][v] = "none"
  BY <1>3, <1>5 DEF TeamInv
<1>10. \A d \in Slot : call'[d].op \in {"join", "invite", "decide"} => leader'[call'[d].team] # Nobody
  BY <1>5, <1>6, <1>7, <1>8 DEF TeamInv, Doing, TeamOps
<1>11. \A d \in Slot : Doing(d, "decide")' /\ call'[d].found => member'[call'[d].team][call'[d].user] # "none"
  BY <1>3, <1>7, <1>8 DEF TeamInv, Doing, TeamOps
<1>12. \A d \in Slot : Doing(d, "create")' => Doing(d, "create") /\ call'[d] = call[d] /\ leader'[call[d].team] = Nobody
  BY <1>5, <1>6, <1>7 DEF TeamInv, Doing, TeamOps
<1> QED BY <1>2, <1>4, <1>9, <1>10, <1>11, <1>12 DEF TeamInv, Doing

-----------------------------------------------------------------------------
(* Postings.                                                               *)

LEMMA OutdatedCall ==
  ASSUME CallInv, NEW d \in Slot
  PROVE  /\ Outdated(d) \in AnyCall /\ Outdated(d).op = call[d].op
         /\ call[d].op # "move" => Outdated(d) = call[d]
         /\ call[d].op = "move" => Outdated(d).moved
<1>1. CASE call[d].op = "move"
  <2>1. call[d] \in ChallengeCall
    BY <1>1, CallsByOp DEF CallInv
  <2>2. /\ [call[d] EXCEPT !.moved = TRUE] \in ChallengeCall
        /\ [call[d] EXCEPT !.moved = TRUE].op = "move"
        /\ [call[d] EXCEPT !.moved = TRUE].moved
    BY <2>1 DEF ChallengeCall
  <2> QED BY <1>1, <2>2 DEF Outdated, AnyCall
<1>2. CASE call[d].op # "move"
  BY <1>2 DEF Outdated, CallInv
<1> QED BY <1>1, <1>2

\* The status changes, and every read of it in flight is stale, but for the
\* call that has written.
LEMMA PostingMoves ==
  ASSUME CallInv, UNCHANGED calls,
         \A d \in Slot : \/ call'[d] = Outdated(d)
                         \/ call[d].op = "move" /\ call'[d] = Idle,
         DOMAIN call' = Slot, call' = [d \in DOMAIN call' |-> call'[d]]
  PROVE  /\ CallStep({"move"})
         /\ \A d \in Slot : Doing(d, "move")' => call'[d].moved
<1>1. \A d \in Slot : call'[d] \in AnyCall
  BY OutdatedCall DEF AnyCall
<1>2. call' \in [Slot -> AnyCall]
  BY <1>1
<1>3. \A d \in Slot : \/ call'[d] = call[d]
                      \/ call[d].op = "move" /\ call'[d].op \in {"move", "idle"}
  BY OutdatedCall DEF Idle
<1>4. \A d \in Slot : call[d] = Idle => call'[d] = Idle
  BY OutdatedCall DEF Idle
<1>5. \A d \in Slot, u \in User : Trails(d, u)' => Trails(d, u)
  <2> SUFFICES ASSUME NEW d \in Slot, NEW u \in User, Trails(d, u)' PROVE Trails(d, u)
    OBVIOUS
  <2>1. call'[d].op \in Personal
    BY <1>1, CallsOfUsers DEF Trails
  <2>2. call'[d] = call[d]
    BY <1>3, <2>1 DEF Personal, ApplyOps
  <2> QED BY <2>2 DEF Trails
<1>6. \A d \in Slot : Doing(d, "move")' => call'[d].moved
  BY OutdatedCall DEF Doing, Idle
<1> QED BY <1>2, <1>3, <1>4, <1>5, <1>6 DEF CallStep, CallInv, AccountsTypeOK

LEMMA ChallengeKeeps ==
  ASSUME CallInv, ChallengeInv, ChallengesNext
  PROVE  CallStep({"move"}) /\ ChallengeInv' /\ UNCHANGED accountVars
<1> USE DEF ChallengeInv
<1>1. ASSUME NEW stage \in Stages, SetPosting(stage), UNCHANGED <<calls, visible, priced, repriced>>,
             autoPublish' \in BOOLEAN, decrees' \in 0..MaxDecrees
      PROVE  CallStep({"move"}) /\ ChallengeInv'
  <2>1. \A d \in Slot : call'[d] = Outdated(d)
    BY <1>1 DEF SetPosting
  <2>2. DOMAIN call' = Slot /\ call' = [d \in DOMAIN call' |-> call'[d]]
    BY <1>1 DEF SetPosting
  <2>3. CallStep({"move"}) /\ \A d \in Slot : Doing(d, "move")' => call'[d].moved
    BY <1>1, <2>1, <2>2, PostingMoves
  <2> QED BY <1>1, <2>3 DEF SetPosting, ChallengesTypeOK
<1>2. ASSUME Decree PROVE decrees' \in 0..MaxDecrees
  BY <1>2, ChallengesAssumption DEF Decree, ChallengesTypeOK
<1>3. ASSUME NEW requested \in {"draft", "published"}, CreateChallenge(requested)
      PROVE  CallStep({"move"}) /\ ChallengeInv' /\ UNCHANGED accountVars
  <2> DEFINE stage == IF requested = "published" /\ ~autoPublish THEN "draft" ELSE requested
  <2>1. stage \in Stages
    BY DEF Stages
  <2>2. SetPosting(stage)
    BY <1>3 DEF CreateChallenge
  <2> HIDE DEF stage
  <2> QED BY <1>1, <1>3, <2>1, <2>2 DEF CreateChallenge, ChallengesTypeOK
<1>4. CASE PublishChallenge \/ RejectChallenge
  BY <1>1, <1>2, <1>4 DEF PublishChallenge, RejectChallenge, ChallengesTypeOK, Stages
<1>5. CASE UpdateChallenge \/ SetAutoPublish
  <2>1. UNCHANGED <<call, calls, posting, accountVars>>
    BY <1>5 DEF UpdateChallenge, SetAutoPublish
  <2>2. CallStep({"move"})
    BY <2>1, Rested
  <2>3. ChallengesTypeOK'
    BY <1>2, <1>5 DEF UpdateChallenge, SetAutoPublish, ChallengesTypeOK
  <2> QED BY <2>1, <2>2, <2>3 DEF Doing
<1>6. ASSUME NEW c \in Slot, NEW to \in {"published", "closed"}, UpdateStatus(c, to)
      PROVE  CallStep({"move"}) /\ ChallengeInv' /\ UNCHANGED accountVars
  <2> DEFINE r == [op |-> "move", to |-> to, moved |-> FALSE]
  <2>1. r \in AnyCall /\ r.op = "move" /\ r.to = to /\ "by" \notin DOMAIN r
    BY DEF AnyCall, ChallengeCall
  <2>2. Begin(c, Staff, r)
    BY <1>6 DEF UpdateStatus
  <2> HIDE DEF r
  <2>3. CallStep({"move"}) /\ call'[c] = r /\ \A d \in Slot \ {c} : call'[d] = call[d]
    BY <2>1, <2>2, Begun
  <2>4. ChallengesTypeOK' /\ <<posting, to>> \in Allowed /\ UNCHANGED <<posting, accountVars>>
    BY <1>6 DEF UpdateStatus, ChallengesTypeOK, challengeVars
  <2> QED BY <2>1, <2>3, <2>4 DEF Doing
<1>7. ASSUME NEW c \in Slot, WriteStatus(c)
      PROVE  CallStep({"move"}) /\ ChallengeInv' /\ UNCHANGED accountVars
  <2>1. \A d \in Slot : call'[d] = Outdated(d) \/ (call[d].op = "move" /\ call'[d] = Idle)
    BY <1>7 DEF WriteStatus
  <2>2. DOMAIN call' = Slot /\ call' = [d \in DOMAIN call' |-> call'[d]]
    BY <1>7 DEF WriteStatus
  <2>3. UNCHANGED calls
    BY <1>7 DEF WriteStatus
  <2>4. CallStep({"move"}) /\ \A d \in Slot : Doing(d, "move")' => call'[d].moved
    BY <2>1, <2>2, <2>3, PostingMoves
  <2>5. call[c].to \in {"published", "closed"}
    BY <1>7, CallsByOp DEF WriteStatus, CallInv, ChallengeCall
  <2> QED BY <1>7, <2>4, <2>5 DEF WriteStatus, ChallengesTypeOK, Stages
<1> QED BY <1>3, <1>4, <1>5, <1>6, <1>7 DEF ChallengesNext

LEMMA ChallengeStays ==
  ASSUME ChallengeInv, Spares({"move"}), UNCHANGED <<posting, visible, priced, autoPublish, repriced>>,
         decrees' \in 0..MaxDecrees
  PROVE  ChallengeInv'
BY DEF ChallengeInv, ChallengesTypeOK, Spares, Doing

LEMMA PostingAllowed ==
  ASSUME CallInv, ChallengeInv, ChallengesNext, posting' # posting
  PROVE  \/ posting = "none"
         \/ <<posting, posting'>> \in Allowed
         \/ posting' = "rejected"
         \/ \E c \in Slot : call[c].op = "move" /\ call[c].moved /\ call'[c] = Idle
<1>1. CASE \E requested \in {"draft", "published"} : CreateChallenge(requested)
  BY <1>1 DEF CreateChallenge
<1>2. CASE UpdateChallenge \/ PublishChallenge \/ RejectChallenge \/ SetAutoPublish
  BY <1>2 DEF UpdateChallenge, PublishChallenge, RejectChallenge, SetAutoPublish, SetPosting, Allowed
<1>3. ASSUME NEW c \in Slot, NEW to \in {"published", "closed"}, UpdateStatus(c, to) PROVE FALSE
  BY <1>3 DEF UpdateStatus, challengeVars
<1>4. ASSUME NEW c \in Slot, WriteStatus(c)
      PROVE  \/ <<posting, posting'>> \in Allowed
             \/ call[c].op = "move" /\ call[c].moved /\ call'[c] = Idle
  <2>1. call[c].op = "move" /\ posting' = call[c].to /\ call'[c] = Idle
    BY <1>4 DEF WriteStatus
  <2>2. call[c] \in ChallengeCall
    BY <2>1, CallsByOp DEF CallInv
  <2>3. call[c].moved \in BOOLEAN
    BY <2>2 DEF ChallengeCall
  <2> QED BY <2>1, <2>3 DEF ChallengeInv, Doing
<1> QED BY <1>1, <1>2, <1>3, <1>4 DEF ChallengesNext

-----------------------------------------------------------------------------
(* Applications and their orders.                                          *)

EditingOps == ApplyOps \cup {"edit"}
OrderStatus == {"pending", "paid", "canceled"}

LEMMA ApplyFields ==
  ASSUME CallInv, NEW c \in Slot
  PROVE  /\ call[c].op \in EditingOps => call[c].by \in User
         /\ call[c].op \in {"order", "bill", "edit"} => call[c].app \in App
         /\ call[c].op = "apply" => call[c].priced \in BOOLEAN
         /\ call[c].op = "order" =>
              /\ [call[c] EXCEPT !.op = "bill"] \in AnyCall
              /\ [call[c] EXCEPT !.op = "bill"].op = "bill"
              /\ [call[c] EXCEPT !.op = "bill"].by = call[c].by
              /\ [call[c] EXCEPT !.op = "bill"].app = call[c].app
<1>1. CASE call[c].op \in ApplyOps
  <2>1. call[c] \in ApplyCall
    BY <1>1, CallsByOp DEF CallInv
  <2> QED BY <1>1, <2>1 DEF ApplyCall, ApplyOps, AnyCall
<1>2. CASE call[c].op = "edit"
  <2>1. call[c] \in EditCall
    BY <1>2, CallsByOp DEF CallInv
  <2> QED BY <1>2, <2>1 DEF EditCall
<1> QED BY <1>1, <1>2 DEF EditingOps, ApplyOps

LEMMA ApplyCalls ==
  ASSUME CallInv, ApplicationsTypeOK, priced \in BOOLEAN, ApplicationsNext
  PROVE  CallStep(EditingOps)
<1> USE DEF EditingOps, ApplyOps
<1>1. ASSUME NEW c \in Slot, InsertApplication(c) \/ InsertOrder(c) \/ WriteAnswers(c)
      PROVE  CallStep(EditingOps)
  BY <1>1, Returned DEF InsertApplication, InsertOrder, WriteAnswers
<1>2. ASSUME NEW c \in Slot, FindOrder(c) PROVE CallStep(EditingOps)
  <2>1. CASE Return(c)
    BY <1>2, <2>1, Returned DEF FindOrder
  <2>2. CASE Continue(c, [call[c] EXCEPT !.op = "bill"])
    <3> DEFINE r == [call[c] EXCEPT !.op = "bill"]
    <3>1. call[c].op = "order" /\ r \in AnyCall /\ r.op = "bill" /\ r.by = call[c].by
      BY <1>2, ApplyFields DEF FindOrder
    <3>2. \A u \in User : "by" \in DOMAIN r /\ r.by = u => Trails(c, u)
      <4>1. "by" \in DOMAIN call[c]
        BY <3>1, CallsOfUsers DEF CallInv, Personal
      <4> QED BY <3>1, <4>1 DEF Trails
    <3> HIDE DEF r
    <3>3. Continue(c, r)
      BY <2>2 DEF r
    <3> QED BY <3>1, <3>2, <3>3, Continued
  <2> QED BY <1>2, <2>1, <2>2 DEF FindOrder
<1>3. ASSUME NEW c \in Slot, NEW u \in User, Apply(c, u) PROVE CallStep(EditingOps)
  <2>1. CASE Begin(c, u, [op |-> "apply", by |-> u, priced |-> priced])
    <3> DEFINE r == [op |-> "apply", by |-> u, priced |-> priced]
    <3>1. r \in AnyCall /\ r.op = "apply" /\ r.by = u
      BY DEF AnyCall, ApplyCall
    <3> HIDE DEF r
    <3>2. Begin(c, u, r)
      BY <2>1 DEF r
    <3> QED BY <3>1, <3>2, Begun
  <2>2. ASSUME NEW a \in App, Begin(c, u, [op |-> "order", by |-> u, app |-> a])
        PROVE  CallStep(EditingOps)
    <3> DEFINE r == [op |-> "order", by |-> u, app |-> a]
    <3>1. r \in AnyCall /\ r.op = "order" /\ r.by = u
      BY DEF AnyCall, ApplyCall
    <3> HIDE DEF r
    <3>2. Begin(c, u, r)
      BY <2>2 DEF r
    <3> QED BY <3>1, <3>2, Begun
  <2> QED BY <1>3, <2>1, <2>2 DEF Apply, Of
<1>4. ASSUME NEW c \in Slot, NEW a \in App, EditApplication(c, a) PROVE CallStep(EditingOps)
  <2> DEFINE u == applicant[a]
             r == [op |-> "edit", by |-> u, app |-> a]
  <2>1. u \in User /\ Begin(c, u, r)
    BY <1>4 DEF EditApplication, ApplicationsTypeOK
  <2>2. r \in AnyCall /\ r.op = "edit" /\ r.by = u
    BY <2>1 DEF AnyCall, EditCall
  <2> HIDE DEF r, u
  <2> QED BY <2>1, <2>2, Begun
<1>5. ASSUME NEW a \in App, ReviewApplication(a) \/ \E i \in 1..MaxOrders : SettleOrderPaid(a, i) \/ CancelOrder(a, i)
      PROVE  CallStep(EditingOps)
  BY <1>5, Rested DEF ReviewApplication, SettleOrderPaid, CancelOrder, SetOrder
<1> QED BY <1>1, <1>2, <1>3, <1>4, <1>5 DEF ApplicationsNext

LEMMA StatusSet ==
  ASSUME NEW S, NEW s \in Seq(S), NEW i \in DOMAIN s, NEW x \in S
  PROVE  /\ [s EXCEPT ![i] = x] \in Seq(S) /\ Len([s EXCEPT ![i] = x]) = Len(s)
         /\ \A j \in 1..Len(s) : [s EXCEPT ![i] = x][j] = IF j = i THEN x ELSE s[j]
OBVIOUS

LEMMA ApplyRowsStay ==
  ASSUME ApplyInv, UNCHANGED <<applicant, orders, twice>>
  PROVE  /\ \A u \in User : Of(u)' = Of(u)
         /\ \A a \in App : Superseded(a)' = Superseded(a)
BY DEF Of, Superseded

\* Rows and orders stay, and the calls left have been there before.
LEMMA ApplyShrinks ==
  ASSUME CallInv, ApplyInv, ApplicationsTypeOK', UNCHANGED <<applicant, orders, twice>>,
         \A d \in Slot : call'[d].op \in EditingOps =>
           \/ call'[d] = call[d]
           \/ /\ call[d].op = "order" /\ call'[d].op = "bill"
              /\ call'[d].by = call[d].by /\ call'[d].app = call[d].app
              /\ ~Payable(orders[call[d].app])
  PROVE  ApplyInv'
<1> USE DEF EditingOps, ApplyOps
<1>1. \A u \in User \ twice : AtMostOne(Applying(u)')
  <2>1. \A u \in User : Applying(u)' \subseteq Applying(u)
    BY DEF Applying
  <2> QED BY <2>1 DEF ApplyInv, AtMostOne
<1>2. \A u \in User \ twice' : AtMostOne(Of(u))' /\ AtMostOne(Applying(u))' /\ \A a \in Of(u)' : Superseded(a)'
  <2>1. \A u \in User \ twice : AtMostOne(Of(u)') /\ \A a \in Of(u)' : Superseded(a)'
    <3>1. \A u \in User \ twice : Of(u) \subseteq App
      BY DEF Of
    <3> QED BY <3>1, ApplyRowsStay DEF ApplyInv
  <2> QED BY <1>1, <2>1 DEF AtMostOne
<1>3. \A d \in Slot : Doing(d, "apply")' /\ call'[d].by \notin twice' => Of(call[d].by)' = {}
  <2>1. \A d \in Slot : Doing(d, "apply")' => call'[d] = call[d] /\ Doing(d, "apply") /\ call[d].by \in User
    BY ApplyFields DEF Doing
  <2> QED BY <2>1, ApplyRowsStay DEF ApplyInv
<1>4. \A d \in Slot : Doing(d, "bill")' /\ call'[d].by \notin twice' => ~Payable(orders[call[d].app]) /\ call'[d].app = call[d].app
  BY DEF ApplyInv, Doing
<1>5. \A d \in Slot : call'[d].op \in {"order", "bill", "edit"} => applicant'[call'[d].app] = call'[d].by
  BY DEF ApplyInv
<1> QED BY <1>2, <1>3, <1>4, <1>5 DEF ApplyInv

LEMMA ApplyBegins ==
  ASSUME CallInv, ApplyInv, NEW c \in Slot, NEW u \in User, Apply(c, u), priced \in BOOLEAN
  PROVE  ApplyInv'
<1>1. /\ call[c] = Idle /\ \A d \in Slot \ {c} : call'[d] = call[d]
      /\ call'[c].by = u
      /\ \/ call'[c].op = "apply" /\ Of(u) = {}
         \/ call'[c].op = "order" /\ call'[c].app \in Of(u)
  <2>1. CASE Begin(c, u, [op |-> "apply", by |-> u, priced |-> priced]) /\ Of(u) = {}
    BY <2>1 DEF Begin, CallInv
  <2>2. ASSUME NEW a \in Of(u), Begin(c, u, [op |-> "order", by |-> u, app |-> a])
        PROVE  /\ call[c] = Idle /\ \A d \in Slot \ {c} : call'[d] = call[d]
               /\ call'[c].by = u /\ call'[c].op = "order" /\ call'[c].app = a
    BY <2>2 DEF Begin, CallInv
  <2> QED BY <2>1, <2>2 DEF Apply
<1>2. UNCHANGED <<applicant, locked, answers, orders>> /\ twice' = IF Applying(u) = {} THEN twice ELSE twice \cup {u}
  BY DEF Apply
<1>3. ApplicationsTypeOK'
  BY <1>2 DEF ApplicationsTypeOK, ApplyInv
<1>4. /\ \A v \in User : Of(v)' = Of(v) /\ Of(v) \subseteq App
      /\ \A a \in App : Superseded(a)' = Superseded(a)
  BY <1>2 DEF Of, Superseded
<1>5. ASSUME NEW v \in User \ twice' PROVE AtMostOne(Applying(v)')
  <2>1. v \notin twice
    BY <1>2
  <2>2. CASE v = u
    <3>1. Applying(u) = {}
      BY <1>2, <2>2
    <3>2. Applying(v)' \subseteq {c}
      BY <1>1, <2>2, <3>1 DEF Applying
    <3> QED BY <3>2 DEF AtMostOne
  <2>3. CASE v # u
    <3>1. Applying(v)' \subseteq Applying(v)
      BY <1>1, <2>3 DEF Applying
    <3> QED BY <2>1, <3>1 DEF ApplyInv, AtMostOne
  <2> QED BY <2>2, <2>3
<1>6. \A v \in User \ twice' : AtMostOne(Of(v))' /\ AtMostOne(Applying(v))' /\ \A a \in Of(v)' : Superseded(a)'
  <2>1. \A v \in User \ twice : AtMostOne(Of(v)') /\ \A a \in Of(v)' : Superseded(a)'
    BY <1>4 DEF ApplyInv
  <2>2. twice \subseteq twice'
    BY <1>2
  <2> QED BY <1>5, <2>1, <2>2 DEF AtMostOne
<1>7. \A d \in Slot : Doing(d, "apply")' /\ call'[d].by \notin twice' => Of(call[d].by)' = {}
  <2>1. \A d \in Slot : Doing(d, "apply")' =>
          /\ call'[d].by \in User
          /\ (d # c /\ call'[d] = call[d] /\ Doing(d, "apply")) \/ (Of(call'[d].by) = {})
    BY <1>1, ApplyFields DEF Doing, EditingOps, ApplyOps
  <2> QED BY <1>2, <1>4, <2>1 DEF ApplyInv
<1>8. \A d \in Slot : Doing(d, "bill")' => d # c /\ call'[d] = call[d] /\ Doing(d, "bill")
  BY <1>1 DEF Doing
<1>9. \A d \in Slot : call'[d].op \in {"order", "bill", "edit"} => applicant'[call'[d].app] = call'[d].by
  BY <1>1, <1>2 DEF ApplyInv, Of
<1>10. \A d \in Slot : Doing(d, "bill")' /\ call'[d].by \notin twice' => ~Payable(orders'[call'[d].app])
  BY <1>2, <1>8 DEF ApplyInv
<1> QED BY <1>3, <1>6, <1>7, <1>9, <1>10 DEF ApplyInv, Payable

LEMMA ApplyReturns ==
  ASSUME CallInv, NEW c \in Slot, call[c].op \in EditingOps, Return(c)
  PROVE  EndsAt(c)
BY Returned DEF EndsAt, EditingOps, ApplyOps

LEMMA ApplicationInserted ==
  ASSUME CallInv, ApplyInv, NEW c \in Slot, InsertApplication(c)
  PROVE  ApplyInv'
<1> USE DEF EditingOps, ApplyOps
<1> PICK a \in App, u \in User :
      /\ u = call[c].by /\ applicant[a] = NoUser
      /\ applicant' = [applicant EXCEPT ![a] = u]
      /\ answers' = answers \cup {a}
      /\ orders' = [orders EXCEPT ![a] = IF call[c].priced THEN <<"pending">> ELSE <<>>]
  BY ApplyFields DEF InsertApplication
<1>1. EndsAt(c) /\ call[c].op = "apply" /\ UNCHANGED <<locked, twice>>
  BY ApplyReturns DEF InsertApplication
<1>2. /\ applicant'[a] = u /\ \A b \in App \ {a} : applicant'[b] = applicant[b]
      /\ \A b \in App \ {a} : orders'[b] = orders[b]
      /\ orders'[a] \in {<<"pending">>, <<>>}
      /\ u # NoUser
  BY ApplicationsAssumption DEF ApplyInv, ApplicationsTypeOK
<1>3. ApplicationsTypeOK'
  <2>1. <<"pending">> \in Seq(OrderStatus) /\ <<>> \in Seq(OrderStatus)
    BY DEF OrderStatus
  <2>2. applicant' \in [App -> User \cup {NoUser}] /\ answers' \subseteq App /\ locked' \subseteq App /\ twice' \subseteq User
    BY <1>1 DEF ApplyInv, ApplicationsTypeOK
  <2> QED BY <2>1, <2>2 DEF ApplyInv, ApplicationsTypeOK, OrderStatus
<1>4. \A v \in User : Of(v)' = IF v = u THEN Of(u) \cup {a} ELSE Of(v)
  <2>1. \A b \in App, v \in User : applicant'[b] = v <=> applicant[b] = v \/ (b = a /\ v = u)
    BY <1>2, ApplicationsAssumption
  <2> QED BY <2>1 DEF Of
<1>5. \A v \in User : Applying(v)' \subseteq Applying(v) \ {c}
  BY <1>1 DEF Applying, EndsAt, Idle
<1>6. c \in Applying(u) /\ a \notin Of(u)
  BY <1>1, <1>2 DEF Applying, Of
<1>7. ASSUME NEW v \in User \ twice'
      PROVE  AtMostOne(Of(v))' /\ AtMostOne(Applying(v))' /\ \A b \in Of(v)' : Superseded(b)'
  <2>1. AtMostOne(Applying(v)')
    BY <1>1, <1>5 DEF ApplyInv, AtMostOne
  <2>2. AtMostOne(Of(v)')
    <3>1. CASE v = u
      <4>1. Of(u) = {}
        BY <1>1, <3>1 DEF ApplyInv, Doing
      <4> QED BY <1>4, <3>1, <4>1 DEF AtMostOne
    <3> QED BY <1>1, <1>4, <3>1 DEF ApplyInv
  <2>3. ASSUME NEW b \in Of(v)' PROVE Superseded(b)'
    <3>1. CASE b = a
      <4>1. Len(<<"pending">>) = 1 /\ Len(<<>>) = 0
        OBVIOUS
      <4>2. Len(orders'[a]) \in {0, 1}
        BY <1>2, <4>1
      <4>3. \A n \in {0, 1} : \A i \in 1..n : ~(i < n)
        OBVIOUS
      <4>4. \A i \in 1..Len(orders'[a]) : ~(i < Len(orders'[a]))
        BY <4>2, <4>3
      <4> QED BY <3>1, <4>4 DEF Superseded
    <3>2. CASE b # a
      <4>1. b \in Of(v) /\ b \in App /\ orders'[b] = orders[b]
        BY <1>2, <1>4, <3>2 DEF Of
      <4> QED BY <1>1, <4>1 DEF ApplyInv, Superseded
    <3> QED BY <3>1, <3>2
  <2> QED BY <2>1, <2>2, <2>3 DEF AtMostOne
<1>8. \A d \in Slot : call'[d].op \in EditingOps => d # c /\ call'[d] = call[d]
  BY <1>1 DEF EndsAt, Idle
<1>9. \A d \in Slot : call[d].op \in {"order", "bill", "edit"} =>
        call[d].app \in App \ {a} /\ applicant'[call[d].app] = call[d].by
  <2>1. \A d \in Slot : call[d].op \in {"order", "bill", "edit"} =>
          call[d].app \in App /\ call[d].by \in User /\ applicant[call[d].app] = call[d].by
    BY ApplyFields DEF ApplyInv
  <2> QED BY <1>2, <2>1, ApplicationsAssumption
<1>10. ASSUME NEW d \in Slot, Doing(d, "apply")', call'[d].by \notin twice' PROVE Of(call[d].by)' = {}
  <2>1. d # c /\ call'[d] = call[d] /\ Doing(d, "apply") /\ call[d].by \in User \ twice
    BY <1>1, <1>8, <1>10, ApplyFields DEF Doing
  <2>2. d \in Applying(call[d].by)
    BY <2>1 DEF Applying, Doing
  <2>3. call[d].by # u
    BY <1>6, <2>1, <2>2 DEF ApplyInv, AtMostOne
  <2> DEFINE v == call[d].by
  <2>4. Of(v) = {}
    BY <2>1 DEF ApplyInv
  <2>5. \A w \in User \ {u} : Of(w)' = Of(w)
    BY <1>4
  <2>6. call'[d].by = v
    BY <2>1
  <2> QED BY <2>1, <2>3, <2>4, <2>5, <2>6
<1>11. \A d \in Slot : Doing(d, "bill")' /\ call'[d].by \notin twice' => ~Payable(orders'[call'[d].app])
  BY <1>1, <1>2, <1>8, <1>9 DEF ApplyInv, Doing
<1>12. \A d \in Slot : call'[d].op \in {"order", "bill", "edit"} => applicant'[call'[d].app] = call'[d].by
  BY <1>8, <1>9
<1> QED BY <1>3, <1>7, <1>10, <1>11, <1>12 DEF ApplyInv, Payable

\* An order of a row changes, and no other row: what is not the latest order
\* is canceled as before.
LEMMA OrdersChanged ==
  ASSUME CallInv, ApplyInv, NEW a \in App, ApplicationsTypeOK', UNCHANGED <<applicant, twice>>,
         \A b \in App \ {a} : orders'[b] = orders[b],
         applicant[a] \in User \ twice => Superseded(a)',
         \A d \in Slot : call'[d].op \in EditingOps => call'[d] = call[d],
         \A d \in Slot : Doing(d, "bill")' /\ call[d].app = a /\ call[d].by \notin twice => ~Payable(orders'[a])
  PROVE  ApplyInv'
<1> USE DEF EditingOps, ApplyOps
<1>1. \A v \in User : Of(v)' = Of(v) /\ Applying(v)' \subseteq Applying(v) /\ Of(v) \subseteq App
  BY DEF Of, Applying
<1>2. ASSUME NEW v \in User \ twice' PROVE AtMostOne(Of(v))' /\ AtMostOne(Applying(v))' /\ \A b \in Of(v)' : Superseded(b)'
  <2>1. AtMostOne(Of(v)') /\ AtMostOne(Applying(v)')
    BY <1>1 DEF ApplyInv, AtMostOne
  <2>2. ASSUME NEW b \in Of(v) PROVE Superseded(b)'
    <3>1. CASE b = a
      BY <3>1 DEF Of
    <3>2. CASE b # a
      <4>1. Superseded(b) /\ orders'[b] = orders[b]
        BY <1>1, <3>2 DEF ApplyInv
      <4> QED BY <4>1 DEF Superseded
    <3> QED BY <3>1, <3>2
  <2> QED BY <1>1, <2>1, <2>2 DEF AtMostOne
<1>3. \A d \in Slot : Doing(d, "apply")' /\ call'[d].by \notin twice' => Of(call[d].by)' = {}
  <2>1. \A d \in Slot : Doing(d, "apply")' => call'[d] = call[d] /\ Doing(d, "apply") /\ call[d].by \in User
    BY ApplyFields DEF Doing
  <2>2. \A d \in Slot : Doing(d, "apply")' /\ call'[d].by \notin twice' => Of(call[d].by) = {}
    BY <2>1 DEF ApplyInv
  <2>3. \A d \in Slot : Doing(d, "apply")' => Of(call[d].by)' = Of(call[d].by)
    BY <1>1, <2>1
  <2> QED BY <2>2, <2>3
<1>4. \A d \in Slot : Doing(d, "bill")' /\ call'[d].by \notin twice' => ~Payable(orders'[call'[d].app])
  <2>1. \A d \in Slot : Doing(d, "bill")' => call'[d] = call[d] /\ Doing(d, "bill") /\ call[d].app \in App
    BY ApplyFields DEF Doing
  <2> QED BY <2>1 DEF ApplyInv
<1>5. \A d \in Slot : call'[d].op \in {"order", "bill", "edit"} => applicant'[call'[d].app] = call'[d].by
  BY DEF ApplyInv
<1> QED BY <1>2, <1>3, <1>4, <1>5 DEF ApplyInv, Payable

LEMMA OrderInserted ==
  ASSUME CallInv, ApplyInv, NEW c \in Slot, InsertOrder(c)
  PROVE  ApplyInv'
<1> PICK a \in App, u \in User : a = call[c].app /\ u = call[c].by
  BY ApplyFields DEF InsertOrder, EditingOps, ApplyOps
<1>1. /\ EndsAt(c) /\ call[c].op = "bill" /\ UNCHANGED <<applicant, locked, answers, twice>>
      /\ orders' = [orders EXCEPT ![a] = Append(@, "pending")]
  BY ApplyReturns DEF InsertOrder, EditingOps, ApplyOps
<1>2. orders[a] \in Seq(OrderStatus) /\ applicant[a] = u
  BY <1>1 DEF ApplyInv, ApplicationsTypeOK, OrderStatus
<1>3. orders'[a] = Append(orders[a], "pending") /\ \A b \in App \ {a} : orders'[b] = orders[b]
  BY <1>1 DEF ApplyInv, ApplicationsTypeOK
<1>4. ApplicationsTypeOK'
  <2>1. Append(orders[a], "pending") \in Seq(OrderStatus)
    BY <1>2 DEF OrderStatus
  <2> QED BY <1>1, <2>1 DEF ApplyInv, ApplicationsTypeOK, OrderStatus
<1>5. \A d \in Slot : call'[d].op \in EditingOps => call'[d] = call[d] /\ d # c
  BY <1>1 DEF EndsAt, Idle, EditingOps, ApplyOps
<1>6. ASSUME u \notin twice PROVE Superseded(a)'
  <2> DEFINE n == Len(orders[a])
  <2>1. /\ Len(orders'[a]) = n + 1 /\ n \in Nat
        /\ \A i \in 1..n : orders'[a][i] = orders[a][i] /\ orders[a][i] \in OrderStatus
    BY <1>2, <1>3
  <2>2. \A i \in 1..n : i < n => orders[a][i] = "canceled"
    BY <1>2, <1>6 DEF ApplyInv, Superseded, Of
  <2>3. ~Payable(orders[a])
    BY <1>1, <1>6 DEF ApplyInv, Doing
  <2>4. n > 0 => orders[a][n] = "canceled"
    BY <1>2, <2>1, <2>3 DEF Payable, OrderStatus
  <2> HIDE DEF n
  <2>5. \A i \in 1..(n + 1) : i < n + 1 => i \in 1..n /\ (i < n \/ i = n)
    BY <2>1
  <2>6. \A i \in 1..(n + 1) : i < n + 1 => orders'[a][i] = "canceled"
    BY <2>1, <2>2, <2>4, <2>5
  <2> QED BY <2>1, <2>6 DEF Superseded
<1>7. ASSUME NEW d \in Slot, Doing(d, "bill")', call[d].app = a, call[d].by \notin twice PROVE FALSE
  <2>1. d # c /\ call[d].op = "bill" /\ call[d].by = u
    BY <1>2, <1>5, <1>7 DEF ApplyInv, Doing, EditingOps, ApplyOps
  <2>2. c \in Applying(u) /\ d \in Applying(u)
    BY <1>1, <2>1 DEF Applying
  <2> QED BY <1>7, <2>1, <2>2 DEF ApplyInv, AtMostOne
<1> QED BY <1>1, <1>2, <1>3, <1>4, <1>5, <1>6, <1>7, OrdersChanged

LEMMA OrderSet ==
  ASSUME CallInv, ApplyInv, NEW a \in App, NEW i \in Nat, NEW from \in SUBSET {"pending", "paid"},
         NEW to \in {"paid", "canceled"}, SetOrder(a, i, from, to)
  PROVE  ApplyInv'
<1> DEFINE s == orders[a]
<1>1. /\ i \in DOMAIN s /\ s[i] \in from /\ orders' = [orders EXCEPT ![a][i] = to]
      /\ UNCHANGED <<call, applicant, locked, answers, twice>>
  BY DEF SetOrder
<1>2. s \in Seq(OrderStatus) /\ to \in OrderStatus
  BY DEF ApplyInv, ApplicationsTypeOK, OrderStatus
<1>3. orders' = [orders EXCEPT ![a] = [s EXCEPT ![i] = to]]
  BY <1>1
<1>4. orders'[a] = [s EXCEPT ![i] = to] /\ \A b \in App \ {a} : orders'[b] = orders[b]
  BY <1>3 DEF ApplyInv, ApplicationsTypeOK
<1> HIDE DEF s
<1>5. /\ orders'[a] \in Seq(OrderStatus) /\ Len(orders'[a]) = Len(s)
      /\ \A j \in 1..Len(s) : orders'[a][j] = IF j = i THEN to ELSE s[j]
  <2>1. i \in DOMAIN s
    BY <1>1
  <2>2. /\ [s EXCEPT ![i] = to] \in Seq(OrderStatus) /\ Len([s EXCEPT ![i] = to]) = Len(s)
        /\ \A j \in 1..Len(s) : [s EXCEPT ![i] = to][j] = IF j = i THEN to ELSE s[j]
    BY <1>2, <2>1, StatusSet
  <2> QED BY <1>4, <2>2
<1>6. ApplicationsTypeOK'
  BY <1>1, <1>3, <1>4, <1>5 DEF ApplyInv, ApplicationsTypeOK, OrderStatus
<1>7. i \in 1..Len(s) /\ Len(s) \in Nat /\ s[i] \in {"pending", "paid"}
  BY <1>1, <1>2
<1>8. ASSUME applicant[a] \in User \ twice PROVE Superseded(a)'
  <2>1. \A j \in 1..Len(s) : j < Len(s) => s[j] = "canceled"
    <3>1. Superseded(a)
      BY <1>8 DEF ApplyInv, Of
    <3> QED BY <3>1 DEF Superseded, s
  <2>2. ~(i < Len(s))
    BY <1>7, <2>1
  <2> QED BY <1>5, <1>7, <2>1, <2>2 DEF Superseded
<1>9. ASSUME NEW d \in Slot, Doing(d, "bill")', call[d].app = a, call[d].by \notin twice PROVE ~Payable(orders'[a])
  <2>1. Doing(d, "bill") /\ applicant[a] = call[d].by /\ call[d].by \in User
    BY <1>1, <1>9, ApplyFields DEF ApplyInv, Doing, EditingOps, ApplyOps
  <2>2. ~Payable(s)
    BY <1>9, <2>1 DEF ApplyInv, s
  <2>3. \A j \in 1..Len(s) : j < Len(s) => s[j] = "canceled"
    <3>1. Superseded(a)
      BY <1>9, <2>1 DEF ApplyInv, Of
    <3> QED BY <3>1 DEF Superseded, s
  <2> QED BY <1>7, <2>2, <2>3 DEF Payable
<1> QED BY <1>1, <1>4, <1>6, <1>8, <1>9, OrdersChanged DEF EditingOps

LEMMA ApplyKeeps ==
  ASSUME CallInv, ApplyInv, priced \in BOOLEAN, ApplicationsNext
  PROVE  ApplyInv'
<1> USE DEF EditingOps, ApplyOps
<1>1. ASSUME NEW c \in Slot, InsertApplication(c) \/ InsertOrder(c) PROVE ApplyInv'
  BY <1>1, ApplicationInserted, OrderInserted
<1>2. ASSUME NEW c \in Slot, NEW u \in User, Apply(c, u) PROVE ApplyInv'
  BY <1>2, ApplyBegins
<1>3. ASSUME NEW c \in Slot, FindOrder(c) PROVE ApplyInv'
  <2>1. UNCHANGED applicationVars /\ call[c].op = "order"
    BY <1>3 DEF FindOrder
  <2>2. ApplicationsTypeOK'
    BY <2>1 DEF ApplyInv, ApplicationsTypeOK, applicationVars
  <2>3. CASE Payable(orders[call[c].app]) /\ Return(c)
    <3>1. EndsAt(c)
      BY <2>1, <2>3, ApplyReturns
    <3> QED BY <2>1, <2>2, <3>1, ApplyShrinks DEF EndsAt, Idle, applicationVars
  <2>4. CASE ~Payable(orders[call[c].app]) /\ Continue(c, [call[c] EXCEPT !.op = "bill"])
    <3>1. call'[c] = [call[c] EXCEPT !.op = "bill"] /\ \A d \in Slot \ {c} : call'[d] = call[d]
      BY <2>4 DEF Continue, CallInv
    <3>2. call'[c].op = "bill" /\ call'[c].by = call[c].by /\ call'[c].app = call[c].app
      BY <2>1, <3>1, ApplyFields
    <3> QED BY <2>1, <2>2, <2>4, <3>1, <3>2, ApplyShrinks DEF applicationVars
  <2> QED BY <1>3, <2>3, <2>4 DEF FindOrder
<1>4. ASSUME NEW c \in Slot, WriteAnswers(c) PROVE ApplyInv'
  <2>1. EndsAt(c) /\ UNCHANGED <<applicant, locked, orders, twice>> /\ call[c].app \in App
        /\ answers' = answers \cup {call[c].app}
    BY <1>4, ApplyReturns, ApplyFields DEF WriteAnswers
  <2>2. ApplicationsTypeOK'
    BY <2>1 DEF ApplyInv, ApplicationsTypeOK
  <2> QED BY <2>1, <2>2, ApplyShrinks DEF EndsAt, Idle
<1>5. ASSUME NEW c \in Slot, NEW a \in App, EditApplication(c, a) PROVE ApplyInv'
  <2>1. /\ call'[c].op = "edit" /\ call'[c].by = applicant[a] /\ call'[c].app = a
        /\ \A d \in Slot \ {c} : call'[d] = call[d]
    BY <1>5 DEF EditApplication, Begin, CallInv
  <2>2. UNCHANGED applicationVars
    BY <1>5 DEF EditApplication
  <2>3. ApplicationsTypeOK'
    BY <2>2 DEF ApplyInv, ApplicationsTypeOK, applicationVars
  <2>4. /\ \A u \in User : Of(u)' = Of(u) /\ Applying(u)' \subseteq Applying(u) /\ Of(u) \subseteq App
        /\ \A b \in App : Superseded(b)' = Superseded(b)
    BY <2>1, <2>2 DEF Of, Superseded, Applying, applicationVars
  <2>5. \A u \in User \ twice' : AtMostOne(Of(u))' /\ AtMostOne(Applying(u))' /\ \A b \in Of(u)' : Superseded(b)'
    <3>1. \A u \in User \ twice : AtMostOne(Of(u)') /\ AtMostOne(Applying(u)') /\ \A b \in Of(u)' : Superseded(b)'
      BY <2>4 DEF ApplyInv, AtMostOne
    <3> QED BY <2>2, <3>1 DEF AtMostOne, applicationVars
  <2>6. \A d \in Slot : call'[d].op \in ApplyOps => call'[d] = call[d]
    BY <2>1
  <2>7. \A d \in Slot : Doing(d, "apply")' /\ call'[d].by \notin twice' => Of(call[d].by)' = {}
    <3>1. \A d \in Slot : Doing(d, "apply")' => call'[d] = call[d] /\ Doing(d, "apply") /\ call[d].by \in User
      BY <2>6, ApplyFields DEF Doing
    <3> QED BY <2>2, <2>4, <3>1 DEF ApplyInv, applicationVars
  <2>8. \A d \in Slot : Doing(d, "bill")' /\ call'[d].by \notin twice' => ~Payable(orders'[call'[d].app])
    BY <2>2, <2>6 DEF ApplyInv, Doing, applicationVars
  <2>9. \A d \in Slot : call'[d].op \in {"order", "bill", "edit"} => applicant'[call'[d].app] = call'[d].by
    BY <2>1, <2>2 DEF ApplyInv, applicationVars
  <2> QED BY <2>3, <2>5, <2>7, <2>8, <2>9 DEF ApplyInv, Payable
<1>6. ASSUME NEW a \in App, ReviewApplication(a) PROVE ApplyInv'
  <2>1. UNCHANGED <<call, applicant, answers, orders, twice>> /\ locked' \subseteq App
    BY <1>6 DEF ReviewApplication, ApplyInv, ApplicationsTypeOK
  <2>2. ApplicationsTypeOK'
    BY <2>1 DEF ApplyInv, ApplicationsTypeOK
  <2> QED BY <2>1, <2>2, ApplyShrinks
<1>7. ASSUME NEW a \in App, NEW i \in 1..MaxOrders, SettleOrderPaid(a, i) \/ CancelOrder(a, i) PROVE ApplyInv'
  BY <1>7, OrderSet DEF SettleOrderPaid, CancelOrder
<1> QED BY <1>1, <1>2, <1>3, <1>4, <1>5, <1>6, <1>7 DEF ApplicationsNext

LEMMA ApplyStays ==
  ASSUME CallInv, ApplyInv, Spares(EditingOps), UNCHANGED <<applicant, locked, orders, twice>>, answers' \subseteq App
  PROVE  ApplyInv'
<1>1. ApplicationsTypeOK'
  BY DEF ApplyInv, ApplicationsTypeOK
<1> QED BY <1>1, ApplyShrinks DEF Spares

LEMMA PriceStays ==
  ASSUME PriceInv, Spares(EditingOps), UNCHANGED <<applicant, orders>>,
         UNCHANGED <<priced, repriced>> \/ repriced'
  PROVE  PriceInv'
BY DEF PriceInv, Spares, EditingOps, ApplyOps, Doing

LEMMA PriceOfPosting ==
  ASSUME ChallengesNext
  PROVE  UNCHANGED <<priced, repriced>> \/ repriced'
BY DEF ChallengesNext, CreateChallenge, UpdateChallenge, PublishChallenge, RejectChallenge, SetAutoPublish,
       WriteStatus, UpdateStatus, challengeVars

LEMMA PriceKeeps ==
  ASSUME CallInv, ApplyInv, PriceInv, ApplicationsNext
  PROVE  PriceInv'
<1> USE DEF PriceInv, EditingOps, ApplyOps
<1>1. ASSUME NEW c \in Slot, InsertApplication(c) PROVE PriceInv'
  <2>1. EndsAt(c) /\ call[c].op = "apply" /\ call[c].priced \in BOOLEAN /\ UNCHANGED <<priced, repriced>>
    BY <1>1, ApplyReturns, ApplyFields DEF InsertApplication, challengeVars
  <2> PICK a \in App : /\ applicant[a] = NoUser
                       /\ applicant' = [applicant EXCEPT ![a] = call[c].by]
                       /\ orders' = [orders EXCEPT ![a] = IF call[c].priced THEN <<"pending">> ELSE <<>>]
    BY <1>1 DEF InsertApplication
  <2>2. /\ \A b \in App \ {a} : applicant'[b] = applicant[b] /\ orders'[b] = orders[b]
        /\ orders'[a] = IF call[c].priced THEN <<"pending">> ELSE <<>>
    BY DEF ApplyInv, ApplicationsTypeOK
  <2>3. <<"pending">> # <<>>
    OBVIOUS
  <2>4. \A d \in Slot : call[d].op \in {"order", "bill"} => call[d].app \in App \ {a}
    <3>1. \A d \in Slot : call[d].op \in {"order", "bill"} =>
            call[d].app \in App /\ call[d].by \in User /\ applicant[call[d].app] = call[d].by
      BY ApplyFields DEF ApplyInv
    <3> QED BY <3>1, ApplicationsAssumption
  <2>5. \A d \in Slot : call'[d].op \in ApplyOps => call'[d] = call[d]
    BY <2>1 DEF EndsAt, Idle
  <2>6. orders'[a] = <<>> => ~priced \/ repriced
    BY <2>1, <2>2, <2>3 DEF Doing
  <2>7. \A b \in App : applicant'[b] # NoUser /\ orders'[b] = <<>> => ~priced' \/ repriced'
    BY <2>1, <2>2, <2>6
  <2>8. \A d \in Slot : Doing(d, "apply")' => call'[d].priced = priced' \/ repriced'
    BY <2>1, <2>5 DEF Doing
  <2>9. \A d \in Slot : call'[d].op \in {"order", "bill"} /\ orders'[call'[d].app] = <<>> => repriced'
    BY <2>1, <2>2, <2>4, <2>5
  <2> QED BY <2>7, <2>8, <2>9
<1>2. ASSUME NEW c \in Slot, FindOrder(c) PROVE PriceInv'
  <2>1. UNCHANGED <<applicant, orders, priced, repriced>> /\ call[c].op = "order"
    BY <1>2 DEF FindOrder, applicationVars, challengeVars
  <2>2. \A d \in Slot : call'[d].op \in ApplyOps =>
          \/ call'[d] = call[d]
          \/ call[d].op = "order" /\ call'[d].op = "bill" /\ call'[d].app = call[d].app
    <3>1. CASE Return(c)
      BY <2>1, <3>1, ApplyReturns DEF EndsAt, Idle
    <3>2. CASE Continue(c, [call[c] EXCEPT !.op = "bill"])
      <4>1. call'[c] = [call[c] EXCEPT !.op = "bill"] /\ \A d \in Slot \ {c} : call'[d] = call[d]
        BY <3>2 DEF Continue, CallInv
      <4>2. call'[c].op = "bill" /\ call'[c].app = call[c].app
        BY <2>1, <4>1, ApplyFields
      <4> QED BY <2>1, <4>1, <4>2
    <3> QED BY <1>2, <3>1, <3>2 DEF FindOrder
  <2> QED BY <2>1, <2>2 DEF Doing
<1>3. ASSUME NEW c \in Slot, NEW u \in User, Apply(c, u) PROVE PriceInv'
  <2>1. UNCHANGED <<applicant, orders, priced, repriced>>
    BY <1>3 DEF Apply, challengeVars
  <2>2. CASE Begin(c, u, [op |-> "apply", by |-> u, priced |-> priced])
    <3>1. call'[c].op = "apply" /\ call'[c].priced = priced /\ \A d \in Slot \ {c} : call'[d] = call[d]
      BY <2>2 DEF Begin, CallInv
    <3> QED BY <2>1, <3>1 DEF Doing
  <2>3. ASSUME NEW a \in Of(u), priced, Begin(c, u, [op |-> "order", by |-> u, app |-> a]) PROVE PriceInv'
    <3>1. call'[c].op = "order" /\ call'[c].app = a /\ \A d \in Slot \ {c} : call'[d] = call[d]
      BY <2>3 DEF Begin, CallInv
    <3>2. a \in App /\ applicant[a] # NoUser
      BY ApplicationsAssumption DEF Of
    <3>3. orders[a] = <<>> => repriced
      BY <2>3, <3>2
    <3> QED BY <2>1, <3>1, <3>3 DEF Doing
  <2> QED BY <1>3, <2>2, <2>3 DEF Apply
<1>4. ASSUME NEW c \in Slot, InsertOrder(c) PROVE PriceInv'
  <2>1. EndsAt(c) /\ UNCHANGED <<applicant, priced, repriced>>
    BY <1>4, ApplyReturns DEF InsertOrder, challengeVars
  <2>2. \A d \in Slot : call'[d].op \in ApplyOps => call'[d] = call[d]
    BY <2>1 DEF EndsAt, Idle
  <2> PICK a \in App : a = call[c].app
    BY <1>4, ApplyFields DEF InsertOrder
  <2>3. orders[a] \in Seq(OrderStatus) /\ orders'[a] = Append(orders[a], "pending")
        /\ \A b \in App \ {a} : orders'[b] = orders[b]
    BY <1>4 DEF InsertOrder, ApplyInv, ApplicationsTypeOK, OrderStatus
  <2>4. Append(orders[a], "pending") # <<>>
    BY <2>3
  <2>5. \A d \in Slot : call[d].op \in {"order", "bill"} => call[d].app \in App
    BY ApplyFields
  <2> QED BY <2>1, <2>2, <2>3, <2>4, <2>5 DEF Doing
<1>5. ASSUME NEW a \in App, NEW i \in 1..MaxOrders, SettleOrderPaid(a, i) \/ CancelOrder(a, i) PROVE PriceInv'
  <2>1. \A b \in App : orders'[b] = <<>> => orders[b] = <<>>
    <3>1. i \in DOMAIN orders[a]
      BY <1>5 DEF SettleOrderPaid, CancelOrder, SetOrder
    <3>2. \E to : orders' = [orders EXCEPT ![a] = [orders[a] EXCEPT ![i] = to]]
      BY <1>5 DEF SettleOrderPaid, CancelOrder, SetOrder
    <3>3. DOMAIN orders'[a] = DOMAIN orders[a] /\ \A b \in App \ {a} : orders'[b] = orders[b]
      BY <3>2 DEF ApplyInv, ApplicationsTypeOK
    <3>4. DOMAIN <<>> = {}
      OBVIOUS
    <3> QED BY <3>1, <3>3, <3>4
  <2>2. UNCHANGED <<call, applicant, priced, repriced>>
    BY <1>5 DEF SettleOrderPaid, CancelOrder, SetOrder, challengeVars
  <2>3. \A d \in Slot : call[d].op \in {"order", "bill"} => call[d].app \in App
    BY ApplyFields
  <2> QED BY <2>1, <2>2, <2>3 DEF Doing
<1>6. ASSUME UNCHANGED <<applicant, orders, priced, repriced>>,
             \A d \in Slot : call'[d].op \in ApplyOps => call'[d] = call[d]
      PROVE  PriceInv'
  BY <1>6 DEF Doing
<1>7. ASSUME NEW c \in Slot, WriteAnswers(c) PROVE PriceInv'
  BY <1>6, <1>7, ApplyReturns DEF WriteAnswers, EndsAt, Idle, challengeVars
<1>8. ASSUME NEW c \in Slot, NEW a \in App, EditApplication(c, a) PROVE PriceInv'
  <2>1. call'[c].op = "edit" /\ \A d \in Slot \ {c} : call'[d] = call[d]
    BY <1>8 DEF EditApplication, Begin, CallInv
  <2> QED BY <1>6, <1>8, <2>1 DEF EditApplication, applicationVars, challengeVars
<1>9. ASSUME NEW a \in App, ReviewApplication(a) PROVE PriceInv'
  BY <1>6, <1>9 DEF ReviewApplication
<1> QED BY <1>1, <1>2, <1>3, <1>4, <1>5, <1>7, <1>8, <1>9 DEF ApplicationsNext

\* A row that counts as received goes on counting.
LEMMA StaysEffective ==
  ASSUME CallInv, ApplyInv, PriceInv, ApplicationsNext, NEW a \in App, Effective(a), ~Effective(a)'
  PROVE  \/ orders[a] = <<>> /\ repriced
         \/ \E i \in DOMAIN orders[a] : orders[a][i] = "paid" /\ orders'[a][i] = "canceled"
<1>1. ASSUME UNCHANGED <<applicant, orders>> PROVE FALSE
  BY <1>1 DEF Effective
<1>2. CASE \E c \in Slot : \/ FindOrder(c) \/ WriteAnswers(c)
                           \/ \E u \in User : Apply(c, u)
                           \/ \E b \in App : EditApplication(c, b)
  BY <1>1, <1>2 DEF FindOrder, WriteAnswers, Apply, EditApplication, applicationVars
<1>3. CASE \E b \in App : ReviewApplication(b)
  BY <1>1, <1>3 DEF ReviewApplication
<1>4. ASSUME NEW c \in Slot, InsertApplication(c) PROVE FALSE
  <2> PICK b \in App : /\ applicant[b] = NoUser
                       /\ applicant' = [applicant EXCEPT ![b] = call[c].by]
                       /\ orders' = [orders EXCEPT ![b] = IF call[c].priced THEN <<"pending">> ELSE <<>>]
    BY <1>4 DEF InsertApplication
  <2>1. a # b /\ applicant'[a] = applicant[a] /\ orders'[a] = orders[a]
    BY DEF Effective, ApplyInv, ApplicationsTypeOK
  <2> QED BY <2>1 DEF Effective
<1>5. ASSUME NEW c \in Slot, InsertOrder(c) PROVE orders[a] = <<>> /\ repriced
  <2> PICK b \in App : b = call[c].app /\ orders' = [orders EXCEPT ![b] = Append(@, "pending")]
    BY <1>5, ApplyFields DEF InsertOrder, EditingOps, ApplyOps
  <2>1. applicant' = applicant /\ call[c].op = "bill"
    BY <1>5 DEF InsertOrder
  <2>2. orders[a] \in Seq(OrderStatus)
    BY DEF ApplyInv, ApplicationsTypeOK, OrderStatus
  <2>3. a = b
    BY <2>1 DEF Effective, ApplyInv, ApplicationsTypeOK
  <2>4. orders'[a] = Append(orders[a], "pending")
    BY <2>3 DEF ApplyInv, ApplicationsTypeOK
  <2>5. \A i \in DOMAIN orders[a] : i \in DOMAIN orders'[a] /\ orders'[a][i] = orders[a][i]
    BY <2>2, <2>4
  <2>6. orders[a] = <<>>
    BY <2>1, <2>5 DEF Effective
  <2> QED BY <2>1, <2>3, <2>6 DEF PriceInv
<1>6. ASSUME NEW b \in App, NEW i \in 1..MaxOrders, SettleOrderPaid(b, i) \/ CancelOrder(b, i)
      PROVE  \E j \in DOMAIN orders[a] : orders[a][j] = "paid" /\ orders'[a][j] = "canceled"
  <2> PICK to \in {"paid", "canceled"} :
         /\ i \in DOMAIN orders[b] /\ orders' = [orders EXCEPT ![b] = [orders[b] EXCEPT ![i] = to]]
         /\ applicant' = applicant
    BY <1>6 DEF SettleOrderPaid, CancelOrder, SetOrder
  <2>1. a = b
    BY DEF Effective, ApplyInv, ApplicationsTypeOK
  <2>2. orders'[a] = [orders[a] EXCEPT ![i] = to]
    BY <2>1 DEF ApplyInv, ApplicationsTypeOK
  <2>3. DOMAIN orders'[a] = DOMAIN orders[a] /\ orders'[a][i] = to
        /\ \A j \in DOMAIN orders[a] \ {i} : orders'[a][j] = orders[a][j]
    BY <2>1, <2>2
  <2>4. PICK j \in DOMAIN orders[a] : orders[a][j] = "paid"
    <3>1. orders[a] # <<>>
      BY <2>1
    <3> QED BY <3>1 DEF Effective
  <2>5. \A k \in DOMAIN orders'[a] : orders'[a][k] # "paid"
    BY DEF Effective
  <2> QED BY <2>3, <2>4, <2>5
<1> QED BY <1>2, <1>3, <1>4, <1>5, <1>6 DEF ApplicationsNext

-----------------------------------------------------------------------------
(* Certificates.                                                           *)

LEMMA CertFields ==
  ASSUME CallInv, NEW c \in Slot, call[c].op \in CertOps
  PROVE  /\ call[c].cert \in Cert /\ call[c].to \in {"verified", "rejected"}
         /\ call[c].op = "award" => call[c].keeps \in BOOLEAN
BY CallsByOp DEF CallInv, CertOps, CertCall

LEMMA CertBegun ==
  ASSUME CallInv, CertInv, NEW c \in Slot, NEW k \in Cert, NEW action \in {"approve", "reject"},
         VerifyCertificate(c, k, action)
  PROVE  CallStep(CertOps) /\ CertInv'
<1> DEFINE r == [op |-> "judge", cert |-> k, to |-> TargetStatus(action), seen |-> proof[k]]
<1>1. /\ r \in AnyCall /\ r.op = "judge" /\ r.cert = k /\ r.seen = proof[k] /\ "by" \notin DOMAIN r
      /\ owner[k] \in User
  <2>1. TargetStatus(action) \in {"verified", "rejected"} /\ proof[k] \in {"pending", "verified", "rejected"}
        /\ owner[k] \in User
    BY DEF TargetStatus, CertInv, CertificatesTypeOK, VerifyCertificate
  <2> QED BY <2>1 DEF AnyCall, CertCall
<1>2. Begin(c, Staff, r)
  BY DEF VerifyCertificate
<1> HIDE DEF r
<1>3. CallStep(CertOps) /\ call'[c] = r /\ call[c] = Idle /\ \A d \in Slot \ {c} : call'[d] = call[d]
  BY <1>1, <1>2, Begun DEF CertOps
<1> PICK u \in User : u = owner[k]
  BY <1>1
<1>4. /\ UNCHANGED <<owner, proof, badge>>
      /\ blurred' = IF Judging(u) = {} THEN blurred ELSE blurred \cup {u}
  BY DEF VerifyCertificate
<1>5. CertificatesTypeOK'
  BY <1>1, <1>4 DEF CertInv, CertificatesTypeOK
<1>6. BadgeMeansVerified'
  BY <1>4 DEF CertInv, BadgeMeansVerified
<1>7. ASSUME NEW v \in User \ blurred' PROVE AtMostOne(Judging(v)')
  <2>1. CASE v = u
    <3>1. Judging(u) = {}
      BY <1>4, <2>1
    <3>2. Judging(v)' \subseteq {c}
      BY <1>3, <1>4, <2>1, <3>1 DEF Judging
    <3> QED BY <3>2 DEF AtMostOne
  <2>2. CASE v # u
    <3>1. Judging(v)' \subseteq Judging(v)
      BY <1>1, <1>3, <1>4, <2>2 DEF Judging
    <3> QED BY <1>4, <2>2, <3>1 DEF CertInv, AtMostOne
  <2> QED BY <2>1, <2>2
<1>8. \A d \in Slot : call'[d].op \in CertOps /\ d # c => call'[d] = call[d]
  BY <1>3
<1>9. \A d \in Slot : call'[d].op \in CertOps => owner'[call'[d].cert] # NoOwner
  BY <1>1, <1>3, <1>4, CertificatesAssumption DEF CertInv
<1>10. \A d \in Slot : Doing(d, "judge")' /\ owner'[call'[d].cert] \notin blurred' => call'[d].seen = proof'[call'[d].cert]
  BY <1>1, <1>3, <1>4 DEF CertInv, Doing
<1>11. \A d \in Slot : Doing(d, "award")' /\ owner'[call'[d].cert] \notin blurred' =>
         (call'[d].keeps <=> proof[call'[d].cert] # "verified" \/ OthersVerified(call'[d].cert))
  BY <1>1, <1>3, <1>4 DEF CertInv, Doing
<1>12. \A x \in Cert : OthersVerified(x)' = OthersVerified(x)
  BY <1>4 DEF OthersVerified
<1>13. \A d \in Slot : Doing(d, "award")' => call'[d] = call[d] /\ call[d].cert \in Cert
  BY <1>1, <1>3, CertFields DEF Doing, CertOps
<1> QED BY <1>3, <1>4, <1>5, <1>6, <1>7, <1>9, <1>10, <1>11, <1>12, <1>13 DEF CertInv, AtMostOne, OthersVerified

LEMMA CertSubmitted ==
  ASSUME CallInv, CertInv, NEW u \in User, NEW k \in Cert, SubmitCertificate(u, k)
  PROVE  CallStep(CertOps) /\ CertInv'
<1>1. /\ owner[k] = NoOwner /\ owner' = [owner EXCEPT ![k] = u]
      /\ UNCHANGED <<call, proof, badge, blurred>> /\ proof[k] = "pending" /\ u # NoOwner
  BY CertificatesAssumption DEF SubmitCertificate, CertInv
<1>2. CallStep(CertOps)
  BY Rested DEF SubmitCertificate
<1>3. owner'[k] = u /\ \A x \in Cert \ {k} : owner'[x] = owner[x]
  BY <1>1 DEF CertInv, CertificatesTypeOK
<1>4. CertificatesTypeOK'
  BY <1>1 DEF CertInv, CertificatesTypeOK
<1>5. \A v \in User : (\E x \in Cert : owner'[x] = v /\ proof[x] = "verified")
                       <=> (\E x \in Cert : owner[x] = v /\ proof[x] = "verified")
  BY <1>1, <1>3, CertificatesAssumption
<1>6. BadgeMeansVerified'
  BY <1>1, <1>5 DEF CertInv, BadgeMeansVerified
<1>7. \A d \in Slot : call[d].op \in CertOps => call[d].cert \in Cert \ {k}
  BY <1>1, CertFields DEF CertInv
<1>8. \A d \in Slot : call[d].op \in CertOps => OthersVerified(call[d].cert)' = OthersVerified(call[d].cert)
  <2>1. \A x \in Cert \ {k} : OthersVerified(x)' = OthersVerified(x)
    BY <1>1, <1>3, CertificatesAssumption DEF OthersVerified, CertInv, CertificatesTypeOK
  <2> QED BY <1>1, <1>7, <2>1
<1>9. \A v \in User : Judging(v)' = Judging(v)
  BY <1>1, <1>3, <1>7 DEF Judging, CertOps
<1> QED BY <1>1, <1>2, <1>3, <1>4, <1>6, <1>7, <1>8, <1>9 DEF CertInv, AtMostOne, OthersVerified, CertOps, Doing

LEMMA CertJudged ==
  ASSUME CallInv, CertInv, NEW c \in Slot, JudgeCertificate(c)
  PROVE  CallStep(CertOps) /\ CertInv'
<1> PICK k \in Cert, to \in {"verified", "rejected"} : k = call[c].cert /\ to = call[c].to
  BY CertFields DEF JudgeCertificate, CertOps
<1> DEFINE keeps == call[c].seen # "verified" \/ OthersVerified(k)
           r == [op |-> "award", cert |-> k, to |-> to, keeps |-> keeps]
<1>1. keeps \in BOOLEAN
  BY DEF OthersVerified
<1>2. Continue(c, r) /\ call[c].op = "judge" /\ UNCHANGED certificateVars
  BY DEF JudgeCertificate
<1> HIDE DEF keeps
<1>3. r \in AnyCall /\ r.op = "award" /\ r.cert = k /\ (r.keeps <=> keeps) /\ "by" \notin DOMAIN r
  BY <1>1 DEF AnyCall, CertCall
<1> HIDE DEF r
<1>4. CallStep(CertOps) /\ call'[c] = r /\ \A d \in Slot \ {c} : call'[d] = call[d]
  BY <1>2, <1>3, Continued DEF CertOps
<1>5. CertificatesTypeOK' /\ BadgeMeansVerified'
  BY <1>2 DEF CertInv, CertificatesTypeOK, BadgeMeansVerified, certificateVars
<1>6. \A v \in User : Judging(v)' = Judging(v)
  BY <1>2, <1>3, <1>4 DEF Judging, certificateVars
<1>7. \A x \in Cert : OthersVerified(x)' = OthersVerified(x)
  BY <1>2 DEF OthersVerified, certificateVars
<1>8. owner[k] \notin blurred => (keeps <=> proof[k] # "verified" \/ OthersVerified(k))
  BY <1>2 DEF CertInv, Doing, keeps
<1>9. \A d \in Slot : call'[d].op \in CertOps => call'[d].cert \in Cert
  BY <1>3, <1>4, CertFields
<1>10. \A d \in Slot : call'[d].op \in CertOps => owner'[call'[d].cert] # NoOwner
  BY <1>2, <1>3, <1>4 DEF CertInv, certificateVars, CertOps
<1>11. \A d \in Slot : Doing(d, "judge")' => d # c /\ call'[d] = call[d]
  BY <1>3, <1>4 DEF Doing
<1>12. \A d \in Slot : Doing(d, "judge")' /\ owner'[call'[d].cert] \notin blurred' => call'[d].seen = proof'[call'[d].cert]
  BY <1>2, <1>11 DEF CertInv, Doing, certificateVars
<1>13. \A d \in Slot : Doing(d, "award")' /\ owner'[call'[d].cert] \notin blurred' =>
         (call'[d].keeps <=> proof'[call'[d].cert] # "verified" \/ OthersVerified(call'[d].cert))
  BY <1>2, <1>3, <1>4, <1>8 DEF CertInv, Doing, certificateVars
<1> QED BY <1>2, <1>4, <1>5, <1>6, <1>7, <1>9, <1>10, <1>12, <1>13
        DEF CertInv, AtMostOne, OthersVerified, CertOps, Doing, certificateVars

LEMMA VerdictCommitted ==
  ASSUME CallInv, CertInv, NEW c \in Slot, CommitVerdict(c)
  PROVE  CallStep(CertOps) /\ CertInv'
<1> PICK k \in Cert, to \in {"verified", "rejected"} : k = call[c].cert /\ to = call[c].to
  BY CertFields DEF CommitVerdict, CertOps
<1> PICK u \in User : u = owner[k]
  BY DEF CommitVerdict, CertInv, CertificatesTypeOK, CertOps
<1>1. /\ call[c].op = "award" /\ call[c].keeps \in BOOLEAN /\ UNCHANGED <<owner, blurred>>
      /\ proof' = [proof EXCEPT ![k] = to]
      /\ to = "verified" => badge' = badge \cup {u}
      /\ to # "verified" => badge' = IF call[c].keeps THEN badge ELSE badge \ {u}
  BY CertFields DEF CommitVerdict, CertOps
<1>2. CallStep(CertOps) /\ call'[c] = Idle /\ \A d \in Slot \ {c} : call'[d] = call[d]
  BY <1>1, Returned DEF CommitVerdict, CertOps
<1>3. proof'[k] = to /\ \A x \in Cert \ {k} : proof'[x] = proof[x]
  BY <1>1 DEF CertInv, CertificatesTypeOK
<1>4. CertificatesTypeOK'
  BY <1>1 DEF CertInv, CertificatesTypeOK
<1>5. ASSUME NEW v \in User \ blurred'
      PROVE  v \in badge' <=> \E x \in Cert : owner'[x] = v /\ proof'[x] = "verified"
  <2>1. v \in badge <=> \E x \in Cert : owner[x] = v /\ proof[x] = "verified"
    BY <1>1 DEF CertInv, BadgeMeansVerified
  <2>2. CASE v # u
    <3>1. v \in badge' <=> v \in badge
      BY <1>1, <2>2
    <3> QED BY <1>1, <1>3, <2>1, <2>2, <3>1
  <2>3. CASE v = u /\ to = "verified"
    <3>1. badge' = badge \cup {u}
      BY <1>1, <2>3
    <3>2. owner'[k] = u /\ proof'[k] = "verified"
      BY <1>1, <1>3, <2>3
    <3> QED BY <2>3, <3>1, <3>2
  <2>4. CASE v = u /\ to # "verified"
    <3>1. call[c].keeps <=> proof[k] # "verified" \/ OthersVerified(k)
      BY <1>1, <2>4 DEF CertInv, Doing
    <3>2. (\E x \in Cert : owner'[x] = u /\ proof'[x] = "verified") <=> OthersVerified(k)
      BY <1>1, <1>3, <2>4 DEF OthersVerified
    <3>3. CASE call[c].keeps
      <4>1. badge' = badge
        BY <1>1, <2>4, <3>3
      <4>2. v \in badge <=> OthersVerified(k)
        BY <2>1, <2>4, <3>1, <3>3 DEF OthersVerified
      <4> QED BY <2>4, <3>2, <4>1, <4>2
    <3>4. CASE ~call[c].keeps
      <4>1. badge' = badge \ {u}
        BY <1>1, <2>4, <3>4
      <4> QED BY <2>4, <3>1, <3>2, <3>4, <4>1
    <3> QED BY <3>3, <3>4
  <2> QED BY <2>2, <2>3, <2>4
<1>6. \A v \in User : Judging(v)' \subseteq Judging(v) \ {c}
  BY <1>1, <1>2 DEF Judging, Idle
<1>7. \A d \in Slot : call'[d].op \in CertOps => d # c /\ call'[d] = call[d] /\ call[d].cert \in Cert
  BY <1>2, CertFields DEF Idle, CertOps
<1>8. ASSUME NEW d \in Slot, call'[d].op \in CertOps, owner'[call'[d].cert] \notin blurred'
      PROVE  owner[call[d].cert] # u
  <2>1. call'[d] = call[d] /\ d # c /\ call[d].cert \in Cert
    BY <1>7, <1>8
  <2>2. owner[call[d].cert] = u => c \in Judging(u) /\ d \in Judging(u)
    BY <1>1, <1>8, <2>1 DEF Judging, CertOps
  <2> QED BY <1>1, <1>8, <2>1, <2>2 DEF CertInv, AtMostOne
<1>9. \A x \in Cert : owner[x] # u => OthersVerified(x)' = OthersVerified(x) /\ proof'[x] = proof[x]
  BY <1>1, <1>3 DEF OthersVerified
<1>10. \A x \in Cert : owner'[x] = NoOwner => proof'[x] = "pending"
  BY <1>1, <1>3, CertificatesAssumption DEF CertInv
<1>11. \A d \in Slot : call'[d].op \in CertOps => owner'[call'[d].cert] # NoOwner
  BY <1>1, <1>7 DEF CertInv
<1>12. \A v \in User \ blurred' : AtMostOne(Judging(v)')
  BY <1>1, <1>6 DEF CertInv, AtMostOne
<1>13. \A d \in Slot : Doing(d, "judge")' /\ owner'[call'[d].cert] \notin blurred' => call'[d].seen = proof'[call'[d].cert]
  BY <1>1, <1>7, <1>8, <1>9 DEF CertInv, Doing, CertOps
<1>14. \A d \in Slot : Doing(d, "award")' /\ owner'[call'[d].cert] \notin blurred' =>
         (call'[d].keeps <=> proof'[call[d].cert] # "verified" \/ OthersVerified(call[d].cert)')
  BY <1>1, <1>7, <1>8, <1>9 DEF CertInv, Doing, CertOps
<1>15. BadgeMeansVerified'
  BY <1>5 DEF BadgeMeansVerified
<1> QED BY <1>2, <1>4, <1>7, <1>10, <1>11, <1>12, <1>13, <1>14, <1>15 DEF CertInv, AtMostOne, Doing, CertOps

LEMMA CertKeeps ==
  ASSUME CallInv, CertInv, CertificatesNext
  PROVE  CallStep(CertOps) /\ CertInv'
<1>1. ASSUME NEW u \in User, UpdateBadges(u) PROVE CallStep(CertOps) /\ CertInv'
  <2>1. UNCHANGED <<call, owner, proof>> /\ blurred' = blurred \cup {u} /\ badge' \subseteq badge \cup {u}
        /\ \A v \in User \ {u} : v \in badge' <=> v \in badge
    BY <1>1 DEF UpdateBadges
  <2>2. CallStep(CertOps)
    BY <1>1, Rested DEF UpdateBadges
  <2>3. CertificatesTypeOK' /\ BadgeMeansVerified'
    BY <2>1 DEF CertInv, CertificatesTypeOK, BadgeMeansVerified
  <2>4. \A v \in User : Judging(v)' = Judging(v)
    BY <2>1 DEF Judging
  <2>5. \A x \in Cert : OthersVerified(x)' = OthersVerified(x)
    BY <2>1 DEF OthersVerified
  <2>6. \A d \in Slot : call[d].op \in CertOps => call[d].cert \in Cert
    BY CertFields
  <2> QED BY <2>1, <2>2, <2>3, <2>4, <2>5, <2>6 DEF CertInv, Doing, CertOps, AtMostOne, OthersVerified
<1> QED BY <1>1, CertSubmitted, CertBegun, CertJudged, VerdictCommitted DEF CertificatesNext

\* A user who withdraws has no badge and is blurred.
LEMMA CertStays ==
  ASSUME CallInv, CertInv, Spares(CertOps), UNCHANGED <<owner, proof>>,
         \/ UNCHANGED <<badge, blurred>>
         \/ \E u \in User : badge' = badge \ {u} /\ blurred' = blurred \cup {u}
  PROVE  CertInv'
<1>1. blurred \subseteq blurred' /\ \A v \in User \ blurred' : v \in badge' <=> v \in badge
  OBVIOUS
<1>2. CertificatesTypeOK' /\ BadgeMeansVerified'
  BY <1>1 DEF CertInv, CertificatesTypeOK, BadgeMeansVerified
<1>3. \A v \in User : Judging(v)' \subseteq Judging(v)
  BY DEF Judging, Spares, CertOps
<1>4. \A x \in Cert : OthersVerified(x)' = OthersVerified(x)
  BY DEF OthersVerified
<1>5. \A d \in Slot : call'[d].op \in CertOps => call'[d] = call[d] /\ call[d].cert \in Cert
  BY CertFields DEF Spares
<1> QED BY <1>1, <1>2, <1>3, <1>4, <1>5 DEF CertInv, Doing, CertOps, AtMostOne, OthersVerified

-----------------------------------------------------------------------------
(* Businesses.                                                             *)

LEMMA AtMostOneCounts ==
  ASSUME NEW S, AtMostOne(S)
  PROVE  IsFiniteSet(S) /\ Cardinality(S) <= 1
<1>1. CASE S = {}
  BY <1>1, FS_EmptySet
<1>2. ASSUME NEW x \in S PROVE IsFiniteSet(S) /\ Cardinality(S) <= 1
  <2>1. S = {x}
    BY DEF AtMostOne
  <2>2. IsFiniteSet({x}) /\ Cardinality({x}) = 1
    BY FS_Singleton
  <2> QED BY <2>1, <2>2
<1> QED BY <1>1, <1>2

LEMMA CountsAtMostOne ==
  ASSUME NEW S, IsFiniteSet(S), Cardinality(S) <= 1
  PROVE  AtMostOne(S)
<1> SUFFICES ASSUME NEW x \in S, NEW y \in S, x # y PROVE FALSE
  BY DEF AtMostOne
<1>1. IsFiniteSet(S \ {x}) /\ Cardinality(S \ {x}) = Cardinality(S) - 1 /\ Cardinality(S) \in Nat
  BY FS_RemoveElement, FS_CardinalityType
<1>2. Cardinality(S \ {x}) \in Nat
  BY <1>1, FS_CardinalityType
<1>3. Cardinality(S \ {x}) = 0
  BY <1>1, <1>2
<1>4. S \ {x} = {}
  BY <1>1, <1>3, FS_EmptySet
<1> QED BY <1>4

\* Begin and insert: the calls that give user v a business.
LEMMA CourtsOfUsers ==
  ASSUME CallInv, NEW c \in Slot, NEW u, Courts(c, u)
  PROVE  call[c].op \in {"enroll", "withdraw"} /\ call[c] # Idle
BY DEF Courts, Idle

LEMMA EnrollFields ==
  ASSUME CallInv, NEW c \in Slot, call[c].op = "enroll"
  PROVE  call[c].by \in User
BY CallsByOp DEF CallInv, EnrollCall

LEMMA BusinessBegun ==
  ASSUME CallInv, BusinessInv, NEW c \in Slot, NEW u \in User, RegisterBusiness(c, u)
  PROVE  CallStep({"enroll"}) /\ BusinessInv'
<1>1. PICK r : r = [op |-> "enroll", by |-> u]
  OBVIOUS
<1>2. Begin(c, u, r) /\ r \in AnyCall /\ r.op = "enroll" /\ r.by = u
  BY <1>1 DEF RegisterBusiness, AnyCall, EnrollCall
<1>3. CallStep({"enroll"}) /\ call'[c] = r /\ call[c] = Idle /\ \A d \in Slot \ {c} : call'[d] = call[d]
  BY <1>2, Begun
<1>4. Owned(u) = {} /\ UNCHANGED <<holder, partner>> /\ courted' = Courting(u)
  BY DEF RegisterBusiness
<1>5. \A v \in User : Owned(v)' = Owned(v)
  BY <1>4 DEF Owned
<1>6. BusinessesTypeOK'
  BY <1>4 DEF Courting, BusinessInv, BusinessesTypeOK
<1>7. ~Courts(c, u) /\ \A v \in User : ~Courts(c, v)
  BY <1>3 DEF Courts, Idle
<1>8. \A d \in Slot \ {c}, v \in User : Courts(d, v)' <=> Courts(d, v)
  BY <1>3 DEF Courts
<1>9. Courts(c, u)' /\ \A v \in User \ {u} : ~Courts(c, v)'
  BY <1>2, <1>3 DEF Courts
<1>10. ASSUME NEW v \in User \ courted'
       PROVE  /\ AtMostOne(Owned(v)')
              /\ \A d \in Slot : Courts(d, v)' => Owned(v)' = {}
              /\ \A d, e \in Slot : Courts(d, v)' /\ Courts(e, v)' => d = e
  <2>1. v \in User \ courted
    BY <1>4 DEF Courting
  <2>2. CASE v = u
    <3>1. \A d \in Slot : ~Courts(d, u)
      BY <1>4, <2>2 DEF Courting
    <3>2. \A d \in Slot : Courts(d, u)' => d = c
      BY <3>1, <1>8
    <3> QED BY <2>1, <2>2, <3>2, <1>4, <1>5 DEF BusinessInv
  <2>3. CASE v # u
    BY <2>1, <2>3, <1>5, <1>8, <1>9 DEF BusinessInv
  <2> QED BY <2>2, <2>3
<1>11. \A b \in Business : holder'[b] \in partner' \cup {NoHolder}
  BY <1>4 DEF BusinessInv
<1>12. \A v \in User : IsFiniteSet(Owned(v)')
  BY <1>5 DEF BusinessInv
<1> QED BY <1>3, <1>6, <1>10, <1>11, <1>12 DEF BusinessInv

LEMMA BusinessInserted ==
  ASSUME CallInv, BusinessInv, NEW c \in Slot, InsertBusiness(c)
  PROVE  CallStep({"enroll"}) /\ BusinessInv'
<1> PICK u \in User : u = call[c].by
  BY EnrollFields DEF InsertBusiness
<1>1. call[c].op = "enroll" /\ UNCHANGED courted /\ Courts(c, u)
  BY DEF InsertBusiness, Courts
<1>2. CallStep({"enroll"}) /\ call'[c] = Idle /\ \A d \in Slot \ {c} : call'[d] = call[d]
  BY <1>1, Returned DEF InsertBusiness
<1>3. \A d \in Slot, v \in User : Courts(d, v)' => d # c /\ Courts(d, v)
  BY <1>2 DEF Courts, Idle
<1>4. CASE UNCHANGED <<holder, partner>>
  <2>1. \A v \in User : Owned(v)' = Owned(v)
    BY <1>4 DEF Owned
  <2> QED BY <1>1, <1>2, <1>3, <1>4, <2>1 DEF BusinessInv, BusinessesTypeOK
<1>5. ASSUME NEW b \in Business, holder[b] = NoHolder, holder' = [holder EXCEPT ![b] = u],
             partner' = partner \cup {u}
      PROVE  BusinessInv'
  <2>1. BusinessesTypeOK' /\ \A x \in Business : holder'[x] \in partner' \cup {NoHolder}
    BY <1>1, <1>5 DEF BusinessInv, BusinessesTypeOK
  <2>2. Owned(u)' = Owned(u) \cup {b} /\ \A v \in User \ {u} : Owned(v)' = Owned(v)
    BY <1>5, BusinessesAssumption DEF Owned, BusinessInv, BusinessesTypeOK
  <2>3. \A v \in User : IsFiniteSet(Owned(v)')
    <3>1. \A v \in User : IsFiniteSet(Owned(v))
      BY DEF BusinessInv
    <3> HIDE DEF Owned
    <3>2. \A S : IsFiniteSet(S) => IsFiniteSet(S \cup {b})
      BY FS_AddElement
    <3> QED BY <2>2, <3>1, <3>2
  <2>4. u \notin courted => Owned(u)' = {b} /\ \A d \in Slot : ~Courts(d, u)'
    BY <1>1, <1>3, <2>2 DEF BusinessInv
  <2>5. ASSUME NEW v \in User \ courted'
        PROVE  /\ AtMostOne(Owned(v)')
               /\ \A d \in Slot : Courts(d, v)' => Owned(v)' = {}
               /\ \A d, e \in Slot : Courts(d, v)' /\ Courts(e, v)' => d = e
    <3>1. CASE v = u
      BY <1>1, <2>4, <3>1 DEF AtMostOne
    <3>2. CASE v # u
      BY <1>1, <1>3, <2>2, <3>2 DEF BusinessInv
    <3> QED BY <3>1, <3>2
  <2> QED BY <2>1, <2>3, <2>5 DEF BusinessInv
<1> QED BY <1>2, <1>4, <1>5 DEF InsertBusiness

LEMMA BusinessKeeps ==
  ASSUME CallInv, BusinessInv, BusinessesNext
  PROVE  CallStep({"enroll"}) /\ BusinessInv'
BY BusinessBegun, BusinessInserted DEF BusinessesNext

LEMMA BusinessStays ==
  ASSUME BusinessInv, Spares({"enroll", "withdraw"}), UNCHANGED businessVars
  PROVE  BusinessInv'
<1>1. \A v \in User : Owned(v)' = Owned(v)
  BY DEF Owned, businessVars
<1>2. \A d \in Slot, v \in User : Courts(d, v)' <=> Courts(d, v)
  BY DEF Courts, Spares
<1>3. BusinessesTypeOK' /\ (\A b \in Business : holder'[b] \in partner' \cup {NoHolder}) /\ courted' = courted
  BY DEF BusinessInv, BusinessesTypeOK, businessVars
<1> QED BY <1>1, <1>2, <1>3 DEF BusinessInv

\* The heir is asked to have no business before the withdrawal hands one over.
LEMMA BusinessPromised ==
  ASSUME CallInv, BusinessInv, NEW c \in Slot, NEW u \in User, NEW heir \in User, Withdraw(c, u, heir)
  PROVE  BusinessInv' /\ AtMostOne(call'[c].owns)
<1>1. /\ call[c] = Idle /\ \A d \in Slot \ {c} : call'[d] = call[d]
      /\ call'[c].op = "withdraw" /\ call'[c].heir = heir /\ call'[c].owns = Owned(u)
  BY WithdrawRecord
<1>2. UNCHANGED <<holder, partner>> /\ courted' = IF Owned(u) = {} THEN courted ELSE Courting(heir)
  BY DEF Withdraw
<1>3. \A v \in User : Owned(v)' = Owned(v)
  BY <1>2 DEF Owned
<1>4. BusinessesTypeOK' /\ (\A b \in Business : holder'[b] \in partner' \cup {NoHolder})
      /\ \A v \in User : IsFiniteSet(Owned(v)')
  BY <1>2, <1>3 DEF Courting, BusinessInv, BusinessesTypeOK
<1>5. \A v \in User : ~Courts(c, v)
  BY <1>1 DEF Courts, Idle
<1>6. \A d \in Slot \ {c}, v \in User : Courts(d, v)' <=> Courts(d, v)
  BY <1>1 DEF Courts
<1>7. \A v \in User : Courts(c, v)' <=> v = heir /\ Owned(u) # {}
  BY <1>1 DEF Courts
<1>8. Owned(u) # {} => Owned(heir) = {}
  BY DEF Withdraw, MayInherit, NamesNobody
<1>9. ASSUME NEW v \in User \ courted'
      PROVE  /\ AtMostOne(Owned(v)')
             /\ \A d \in Slot : Courts(d, v)' => Owned(v)' = {}
             /\ \A d, e \in Slot : Courts(d, v)' /\ Courts(e, v)' => d = e
  <2>1. v \in User \ courted
    BY <1>2 DEF Courting
  <2>2. CASE v = heir /\ Owned(u) # {}
    <3>1. \A d \in Slot : ~Courts(d, heir)
      BY <1>2, <2>2 DEF Courting
    <3>2. \A d \in Slot : Courts(d, heir)' => d = c
      BY <3>1, <1>6
    <3> QED BY <2>1, <2>2, <3>2, <1>3, <1>8 DEF BusinessInv
  <2>3. CASE ~(v = heir /\ Owned(u) # {})
    BY <2>1, <2>3, <1>3, <1>6, <1>7 DEF BusinessInv
  <2> QED BY <2>2, <2>3
<1>10. AtMostOne(Owned(u))
  BY CountsAtMostOne DEF Withdraw, BusinessInv
<1> QED BY <1>1, <1>4, <1>9, <1>10 DEF BusinessInv

\* What is handed over is all that a user has who has nothing yet.
LEMMA BusinessWithdrawn ==
  ASSUME CallInv, WithdrawInv, BusinessInv, NEW c \in Slot, CommitWithdrawal(c)
  PROVE  BusinessInv'
<1> PICK u \in User, heir \in User, owns \in SUBSET Business :
      u = call[c].by /\ heir = call[c].heir /\ owns = call[c].owns
  BY WithdrawFields DEF CommitWithdrawal
<1>1. /\ holder' = [b \in Business |-> IF b \in owns THEN heir ELSE holder[b]]
      /\ partner' = IF owns = {} THEN partner ELSE partner \cup {heir}
      /\ UNCHANGED courted /\ call[c].op = "withdraw"
  BY DEF CommitWithdrawal
<1>2. BusinessesTypeOK' /\ \A b \in Business : holder'[b] \in partner' \cup {NoHolder}
  BY <1>1 DEF BusinessInv, BusinessesTypeOK
<1>3. AtMostOne(owns)
  BY <1>1 DEF WithdrawInv, Doing
<1>4. Owned(heir)' = Owned(heir) \cup owns /\ \A v \in User \ {heir} : Owned(v)' = Owned(v) \ owns
  BY <1>1 DEF Owned
<1>5. \A v \in User : IsFiniteSet(Owned(v)')
  <2>1. IsFiniteSet(owns) /\ \A v \in User : IsFiniteSet(Owned(v))
    BY <1>3, AtMostOneCounts DEF BusinessInv
  <2>2. IsFiniteSet(Owned(heir) \cup owns) /\ \A v \in User : IsFiniteSet(Owned(v) \ owns)
    BY <2>1, FS_Union, FS_Difference
  <2> QED BY <1>4, <2>2
<1>6. \A d \in Slot, v \in User : Courts(d, v)' => d # c /\ Courts(d, v)
  BY CommitCalls DEF Courts, Idle
<1>7. owns # {} => Courts(c, heir)
  BY <1>1 DEF Courts
<1>8. ASSUME NEW v \in User \ courted'
      PROVE  /\ AtMostOne(Owned(v)')
             /\ \A d \in Slot : Courts(d, v)' => Owned(v)' = {}
             /\ \A d, e \in Slot : Courts(d, v)' /\ Courts(e, v)' => d = e
  <2>1. v \in User \ courted
    BY <1>1
  <2>2. CASE v = heir /\ owns # {}
    <3>1. Owned(v)' = owns /\ \A d \in Slot : ~Courts(d, v)'
      BY <1>4, <1>6, <1>7, <2>1, <2>2 DEF BusinessInv
    <3> QED BY <1>3, <3>1
  <2>3. CASE ~(v = heir /\ owns # {})
    <3>1. Owned(v)' \subseteq Owned(v)
      BY <1>4, <2>3
    <3> QED BY <1>6, <2>1, <3>1 DEF BusinessInv, AtMostOne
  <2> QED BY <2>2, <2>3
<1> QED BY <1>2, <1>5, <1>8 DEF BusinessInv

-----------------------------------------------------------------------------
(* Profiles.                                                               *)

LEMMA ProfileFields ==
  ASSUME CallInv, NEW c \in Slot
  PROVE  /\ call[c].op \in {"save", "store"} => call[c].by \in User /\ call[c].form \in Form
         /\ call[c].op \in {"review", "settle"} =>
              call[c].of \in User /\ call[c].link \in Link /\ call[c].approve \in BOOLEAN
         /\ call[c].op = "store" => call[c].approved \in SUBSET Link
         /\ call[c].op = "settle" => call[c].read \in [Link -> Badge \cup {"absent"}]
BY CallsByOp DEF CallInv, ProfileOps, ProfileCall

LEMMA RowsFree ==
  ASSUME NEW u, RowFree(u)
  PROVE  \A d \in Slot : ~Locks(d, u)
BY DEF RowFree, Locks, Doing

\* The rows of users stay, and no call takes a lock on a row.
LEMMA RowsUnlocked ==
  ASSUME CallInv, ProfileInv, UNCHANGED portfolioVars,
         \A d \in Slot : call'[d].op \in {"store", "settle"} => call'[d] = call[d]
  PROVE  ProfileInv'
<1>1. \A d \in Slot, u \in User : Locks(d, u)' => Locks(d, u)
  BY DEF Locks, Doing
<1>2. PortfolioTypeOK' /\ PortfolioKept'
  BY DEF ProfileInv, PortfolioTypeOK, PortfolioKept, portfolioVars
<1>3. \A d \in Slot : Doing(d, "store")' =>
        call'[d].approved = {l \in Link : links'[call'[d].by][l] = "approved"}
  BY DEF ProfileInv, Doing, portfolioVars
<1>4. \A d \in Slot : Doing(d, "settle")' =>
        call'[d].read = links'[call'[d].of] /\ call'[d].read[call'[d].link] = "pending"
  BY DEF ProfileInv, Doing, portfolioVars
<1> QED BY <1>1, <1>2, <1>3, <1>4 DEF ProfileInv

LEMMA ProfileBegun ==
  ASSUME CallInv, ProfileInv, NEW c \in Slot, NEW u \in User,
         \/ \E form \in Form : SaveProfile(c, u, form)
         \/ \E l \in Link, approve \in BOOLEAN : ReviewPortfolioBadge(c, u, l, approve)
  PROVE  CallStep(ProfileOps) /\ ProfileInv'
<1>1. ASSUME NEW form \in Form, SaveProfile(c, u, form) PROVE CallStep(ProfileOps) /\ ProfileInv'
  <2>1. PICK r : r = [op |-> "save", by |-> u, form |-> form]
    OBVIOUS
  <2>2. Begin(c, u, r) /\ r \in AnyCall /\ r.op = "save" /\ r.by = u /\ UNCHANGED portfolioVars
    BY <1>1, <2>1 DEF SaveProfile, AnyCall, ProfileCall
  <2>3. CallStep(ProfileOps) /\ call'[c] = r /\ \A d \in Slot \ {c} : call'[d] = call[d]
    BY <2>2, Begun DEF ProfileOps
  <2> QED BY <2>2, <2>3, RowsUnlocked
<1>2. ASSUME NEW l \in Link, NEW approve \in BOOLEAN, ReviewPortfolioBadge(c, u, l, approve)
      PROVE  CallStep(ProfileOps) /\ ProfileInv'
  <2>1. PICK r : r = [op |-> "review", of |-> u, link |-> l, approve |-> approve]
    OBVIOUS
  <2>2. Begin(c, Staff, r) /\ r \in AnyCall /\ r.op = "review" /\ "by" \notin DOMAIN r /\ UNCHANGED portfolioVars
    BY <1>2, <2>1 DEF ReviewPortfolioBadge, AnyCall, ProfileCall
  <2>3. CallStep(ProfileOps) /\ call'[c] = r /\ \A d \in Slot \ {c} : call'[d] = call[d]
    BY <2>2, Begun DEF ProfileOps
  <2> QED BY <2>2, <2>3, RowsUnlocked
<1> QED BY <1>1, <1>2

LEMMA ApprovedRead ==
  ASSUME CallInv, ProfileInv, NEW c \in Slot, ReadApproved(c)
  PROVE  CallStep(ProfileOps) /\ ProfileInv'
<1> PICK u \in User, form \in Form : u = call[c].by /\ form = call[c].form
  BY ProfileFields DEF ReadApproved
<1> PICK approved \in SUBSET Link : approved = {l \in Link : links[u][l] = "approved"}
  OBVIOUS
<1>1. PICK r : r = [op |-> "store", by |-> u, form |-> form, approved |-> approved]
  OBVIOUS
<1>2. Continue(c, r) /\ r \in AnyCall /\ r.op = "store" /\ r.by = u /\ r.approved = approved
      /\ UNCHANGED portfolioVars /\ call[c].op = "save" /\ RowFree(u)
  BY <1>1 DEF ReadApproved, AnyCall, ProfileCall
<1>3. Trails(c, u)
  BY <1>2, CallsOfUsers DEF Trails, Personal, CallInv
<1>4. CallStep(ProfileOps) /\ call'[c] = r /\ \A d \in Slot \ {c} : call'[d] = call[d]
  BY <1>2, <1>3, Continued DEF ProfileOps
<1>5. \A d \in Slot : ~Locks(d, u)
  BY <1>2, RowsFree
<1>6. \A d \in Slot \ {c}, v \in User : Locks(d, v)' <=> Locks(d, v)
  BY <1>4 DEF Locks, Doing
<1>7. \A v \in User : Locks(c, v)' => v = u
  BY <1>2, <1>4 DEF Locks, Doing
<1>8. \A d, e \in Slot, v \in User : Locks(d, v)' /\ Locks(e, v)' => d = e
  BY <1>5, <1>6, <1>7 DEF ProfileInv
<1>9. PortfolioTypeOK' /\ PortfolioKept'
  BY <1>2 DEF ProfileInv, PortfolioTypeOK, PortfolioKept, portfolioVars
<1>10. \A d \in Slot : Doing(d, "store")' =>
        call'[d].approved = {l \in Link : links'[call'[d].by][l] = "approved"}
  BY <1>2, <1>4 DEF ProfileInv, Doing, portfolioVars
<1>11. \A d \in Slot : Doing(d, "settle")' =>
        call'[d].read = links'[call'[d].of] /\ call'[d].read[call'[d].link] = "pending"
  BY <1>2, <1>4 DEF ProfileInv, Doing, portfolioVars
<1> QED BY <1>4, <1>8, <1>9, <1>10, <1>11 DEF ProfileInv

LEMMA PendingRead ==
  ASSUME CallInv, ProfileInv, NEW c \in Slot, ReadPending(c)
  PROVE  CallStep(ProfileOps) /\ ProfileInv'
<1> PICK u \in User, l \in Link, approve \in BOOLEAN :
      u = call[c].of /\ l = call[c].link /\ approve = call[c].approve
  BY ProfileFields DEF ReadPending
<1>1. CASE links[u][l] # "pending"
  <2>1. Return(c) /\ call[c].op = "review" /\ UNCHANGED portfolioVars
    BY <1>1 DEF ReadPending
  <2>2. CallStep(ProfileOps) /\ call'[c] = Idle /\ \A d \in Slot \ {c} : call'[d] = call[d]
    BY <2>1, Returned DEF ProfileOps
  <2> QED BY <2>1, <2>2, RowsUnlocked DEF Idle
<1>2. CASE links[u][l] = "pending"
  <2>1. PICK r : r = [op |-> "settle", of |-> u, link |-> l, approve |-> approve, read |-> links[u]]
    OBVIOUS
  <2>2. links[u] \in [Link -> Badge \cup {"absent"}]
    BY DEF ProfileInv, PortfolioTypeOK
  <2>3. Continue(c, r) /\ r \in AnyCall /\ r.op = "settle" /\ r.of = u /\ r.read = links[u] /\ r.link = l
        /\ "by" \notin DOMAIN r /\ UNCHANGED portfolioVars /\ call[c].op = "review" /\ RowFree(u)
    BY <1>2, <2>1, <2>2 DEF ReadPending, AnyCall, ProfileCall
  <2>4. CallStep(ProfileOps) /\ call'[c] = r /\ \A d \in Slot \ {c} : call'[d] = call[d]
    BY <2>3, Continued DEF ProfileOps
  <2>5. \A d \in Slot : ~Locks(d, u)
    BY <2>3, RowsFree
  <2>6. \A d \in Slot \ {c}, v \in User : Locks(d, v)' <=> Locks(d, v)
    BY <2>4 DEF Locks, Doing
  <2>7. \A v \in User : Locks(c, v)' => v = u
    BY <2>3, <2>4 DEF Locks, Doing
  <2>8. \A d, e \in Slot, v \in User : Locks(d, v)' /\ Locks(e, v)' => d = e
    BY <2>5, <2>6, <2>7 DEF ProfileInv
  <2>9. PortfolioTypeOK' /\ PortfolioKept'
    BY <2>3 DEF ProfileInv, PortfolioTypeOK, PortfolioKept, portfolioVars
  <2>10. \A d \in Slot : Doing(d, "store")' =>
          call'[d].approved = {x \in Link : links'[call'[d].by][x] = "approved"}
    BY <2>3, <2>4 DEF ProfileInv, Doing, portfolioVars
  <2>11. \A d \in Slot : Doing(d, "settle")' =>
          call'[d].read = links'[call'[d].of] /\ call'[d].read[call'[d].link] = "pending"
    BY <1>2, <2>3, <2>4 DEF ProfileInv, Doing, portfolioVars
  <2> QED BY <2>4, <2>8, <2>9, <2>10, <2>11 DEF ProfileInv
<1> QED BY <1>1, <1>2

KeptOf(u) ==
  \A l \in Link :
    /\ links[u][l] = "absent" <=> wish[u][l] = "absent"
    /\ links[u][l] = "approved" <=> l \in granted[u]
    /\ links[u][l] = "pending" => wish[u][l] = "flagged"

\* The row of u is written, and no call is left that has it locked.
LEMMA RowWritten ==
  ASSUME CallInv, ProfileInv, NEW u \in User, PortfolioTypeOK', KeptOf(u)',
         \A v \in User \ {u} : /\ links'[v] = links[v] /\ wish'[v] = wish[v] /\ granted'[v] = granted[v],
         \A d \in Slot : ~Locks(d, u)',
         \A d \in Slot : call'[d].op \in {"store", "settle"} => call'[d] = call[d]
  PROVE  ProfileInv'
<1>1. \A d \in Slot, v \in User : Locks(d, v)' => v # u /\ Locks(d, v)
  BY DEF Locks, Doing
<1>2. PortfolioKept'
  <2>1. ASSUME NEW v \in User, NEW l \in Link
        PROVE  /\ links'[v][l] = "absent" <=> wish'[v][l] = "absent"
               /\ links'[v][l] = "approved" <=> l \in granted'[v]
               /\ links'[v][l] = "pending" => wish'[v][l] = "flagged"
    BY DEF KeptOf, ProfileInv, PortfolioKept
  <2> QED BY <2>1 DEF PortfolioKept
<1>3. ASSUME NEW d \in Slot, Doing(d, "store")'
      PROVE  call'[d].approved = {l \in Link : links'[call'[d].by][l] = "approved"}
  <2>1. call'[d] = call[d] /\ call[d].by \in User /\ call[d].by # u
    BY <1>3, ProfileFields DEF Doing, Locks
  <2> QED BY <1>3, <2>1 DEF ProfileInv, Doing
<1>4. ASSUME NEW d \in Slot, Doing(d, "settle")'
      PROVE  call'[d].read = links'[call'[d].of] /\ call'[d].read[call'[d].link] = "pending"
  <2>1. call'[d] = call[d] /\ call[d].of \in User /\ call[d].of # u
    BY <1>4, ProfileFields DEF Doing, Locks
  <2> QED BY <1>4, <2>1 DEF ProfileInv, Doing
<1> QED BY <1>1, <1>2, <1>3, <1>4 DEF ProfileInv

LEMMA LinksStored ==
  ASSUME CallInv, ProfileInv, NEW c \in Slot, StoreLinks(c)
  PROVE  CallStep(ProfileOps) /\ ProfileInv'
<1> PICK u \in User, form \in Form, approved \in SUBSET Link :
      u = call[c].by /\ form = call[c].form /\ approved = call[c].approved
  BY ProfileFields DEF StoreLinks
<1>1. /\ call[c].op = "store" /\ Locks(c, u)
      /\ links' = [links EXCEPT ![u] = Saved(form, approved)]
      /\ wish' = [wish EXCEPT ![u] = form]
      /\ granted' = [granted EXCEPT ![u] = {l \in @ : form[l] = "flagged"}]
  BY DEF StoreLinks, Locks, Doing
<1>2. CallStep(ProfileOps) /\ call'[c] = Idle /\ \A d \in Slot \ {c} : call'[d] = call[d]
  BY <1>1, Returned DEF StoreLinks, ProfileOps
<1>3. Saved(form, approved) \in [Link -> Badge \cup {"absent"}]
  BY DEF Saved, Form, Badge
<1>4. PortfolioTypeOK'
  BY <1>1, <1>3 DEF ProfileInv, PortfolioTypeOK
<1>5. /\ links'[u] = Saved(form, approved) /\ wish'[u] = form
      /\ granted'[u] = {l \in granted[u] : form[l] = "flagged"}
      /\ \A v \in User \ {u} : links'[v] = links[v] /\ wish'[v] = wish[v] /\ granted'[v] = granted[v]
  BY <1>1 DEF ProfileInv, PortfolioTypeOK
<1>6. \A l \in Link : l \in approved <=> l \in granted[u]
  BY <1>1 DEF ProfileInv, PortfolioKept, Doing
<1>7. \A l \in Link : Saved(form, approved)[l] =
        IF form[l] # "flagged" THEN form[l] ELSE IF l \in approved THEN "approved" ELSE "pending"
  BY DEF Saved
<1>8. \A l \in Link : form[l] \in {"absent", "plain", "flagged"}
  BY DEF Form
<1>9. KeptOf(u)'
  BY <1>5, <1>6, <1>7, <1>8 DEF KeptOf
<1>10. \A d \in Slot : ~Locks(d, u)'
  BY <1>1, <1>2 DEF ProfileInv, Locks, Doing, Idle
<1>11. \A d \in Slot : call'[d].op \in {"store", "settle"} => call'[d] = call[d]
  BY <1>2 DEF Idle
<1> QED BY <1>2, <1>4, <1>5, <1>9, <1>10, <1>11, RowWritten

LEMMA BadgeSettled ==
  ASSUME CallInv, ProfileInv, NEW c \in Slot, SettleBadge(c)
  PROVE  CallStep(ProfileOps) /\ ProfileInv'
<1> PICK u \in User, l \in Link, approve \in BOOLEAN :
      u = call[c].of /\ l = call[c].link /\ approve = call[c].approve
  BY ProfileFields DEF SettleBadge
<1>1. /\ call[c].op = "settle" /\ Locks(c, u)
      /\ call[c].read = links[u] /\ links[u][l] = "pending"
      /\ links' = [links EXCEPT ![u] = [call[c].read EXCEPT ![l] = IF approve THEN "approved" ELSE "plain"]]
      /\ granted' = [granted EXCEPT ![u] = IF approve THEN @ \cup {l} ELSE @]
      /\ UNCHANGED wish
  BY DEF SettleBadge, Locks, Doing, ProfileInv
<1>2. CallStep(ProfileOps) /\ call'[c] = Idle /\ \A d \in Slot \ {c} : call'[d] = call[d]
  BY <1>1, Returned DEF SettleBadge, ProfileOps
<1>3. /\ links'[u] = [links[u] EXCEPT ![l] = IF approve THEN "approved" ELSE "plain"]
      /\ granted'[u] = IF approve THEN granted[u] \cup {l} ELSE granted[u]
      /\ \A v \in User \ {u} : links'[v] = links[v] /\ wish'[v] = wish[v] /\ granted'[v] = granted[v]
  BY <1>1 DEF ProfileInv, PortfolioTypeOK
<1>4. PortfolioTypeOK'
  <2>1. links[u] \in [Link -> Badge \cup {"absent"}] /\ granted[u] \in SUBSET Link
    BY DEF ProfileInv, PortfolioTypeOK
  <2>2. links'[u] \in [Link -> Badge \cup {"absent"}] /\ granted'[u] \in SUBSET Link
    BY <1>3, <2>1 DEF Badge
  <2>3. \A v \in User : links'[v] \in [Link -> Badge \cup {"absent"}] /\ granted'[v] \in SUBSET Link
    BY <1>3, <2>2 DEF ProfileInv, PortfolioTypeOK
  <2> QED BY <1>1, <2>3 DEF ProfileInv, PortfolioTypeOK
<1>5. /\ links'[u][l] = IF approve THEN "approved" ELSE "plain"
      /\ \A x \in Link \ {l} : links'[u][x] = links[u][x]
  BY <1>3 DEF ProfileInv, PortfolioTypeOK
<1>6. wish'[u] = wish[u] /\ wish[u][l] = "flagged" /\ l \notin granted[u]
  BY <1>1 DEF ProfileInv, PortfolioKept
<1>7. KeptOf(u)'
  <2>1. ASSUME NEW x \in Link \ {l}
        PROVE  /\ links'[u][x] = "absent" <=> wish'[u][x] = "absent"
               /\ links'[u][x] = "approved" <=> x \in granted'[u]
               /\ links'[u][x] = "pending" => wish'[u][x] = "flagged"
    BY <1>3, <1>5, <1>6 DEF ProfileInv, PortfolioKept
  <2>2. /\ links'[u][l] # "absent" /\ wish'[u][l] # "absent"
        /\ links'[u][l] = "approved" <=> l \in granted'[u]
        /\ links'[u][l] # "pending"
    BY <1>3, <1>5, <1>6
  <2> QED BY <2>1, <2>2 DEF KeptOf
<1>8. \A d \in Slot : ~Locks(d, u)'
  BY <1>1, <1>2 DEF ProfileInv, Locks, Doing, Idle
<1>9. \A d \in Slot : call'[d].op \in {"store", "settle"} => call'[d] = call[d]
  BY <1>2 DEF Idle
<1> QED BY <1>2, <1>3, <1>4, <1>7, <1>8, <1>9, RowWritten

LEMMA ProfileKeeps ==
  ASSUME CallInv, ProfileInv, PortfolioNext
  PROVE  CallStep(ProfileOps) /\ ProfileInv'
BY ProfileBegun, ApprovedRead, PendingRead, LinksStored, BadgeSettled DEF PortfolioNext

LEMMA ProfileStays ==
  ASSUME CallInv, ProfileInv, Spares(ProfileOps), UNCHANGED portfolioVars
  PROVE  ProfileInv'
<1>1. \A d \in Slot : call'[d].op \in {"store", "settle"} => call'[d] = call[d]
  BY DEF Spares, ProfileOps
<1> QED BY <1>1, RowsUnlocked

LEMMA ProfileWithdrawn ==
  ASSUME CallInv, ProfileInv, NEW c \in Slot, CommitWithdrawal(c)
  PROVE  ProfileInv'
<1> PICK u \in User : u = call[c].by
  BY WithdrawFields DEF CommitWithdrawal
<1>1. RowFree(u) /\ ForgetLinks(u)
  BY DEF CommitWithdrawal
<1>2. \A d \in Slot : ~Locks(d, u)
  BY <1>1, RowsFree
<1>3. \A d \in Slot : call'[d].op \in {"store", "settle"} => call'[d] = call[d]
  BY CommitCalls DEF Idle
<1>4. \A d \in Slot : ~Locks(d, u)'
  BY <1>2, <1>3 DEF Locks, Doing
<1>5. Blank \in [Link -> Badge \cup {"absent"}] /\ Blank \in Form /\ \A l \in Link : Blank[l] = "absent"
  BY DEF Blank, Badge, Form
<1>6. PortfolioTypeOK'
  BY <1>1, <1>5 DEF ForgetLinks, ProfileInv, PortfolioTypeOK
<1>7. /\ links'[u] = Blank /\ wish'[u] = Blank /\ granted'[u] = {}
      /\ \A v \in User \ {u} : links'[v] = links[v] /\ wish'[v] = wish[v] /\ granted'[v] = granted[v]
  BY <1>1 DEF ForgetLinks, ProfileInv, PortfolioTypeOK
<1>8. KeptOf(u)'
  BY <1>5, <1>7 DEF KeptOf
<1> QED BY <1>3, <1>4, <1>6, <1>7, <1>8, RowWritten

-----------------------------------------------------------------------------
(* Files.                                                                  *)

LEMMA UploadFields ==
  ASSUME CallInv, NEW c \in Slot, call[c].op \in UploadOps
  PROVE  /\ call[c] \in UploadCall /\ call[c].file \in File
         /\ \A op \in UploadOps : /\ [call[c] EXCEPT !.op = op] \in AnyCall
                                  /\ [call[c] EXCEPT !.op = op].op = op
                                  /\ [call[c] EXCEPT !.op = op].file = call[c].file
                                  /\ "by" \notin DOMAIN [call[c] EXCEPT !.op = op]
<1>1. call[c] \in UploadCall
  BY CallsByOp DEF CallInv
<1>2. \A op \in UploadOps : [call[c] EXCEPT !.op = op] \in UploadCall
  BY <1>1 DEF UploadCall, UploadOps
<1> QED BY <1>1, <1>2 DEF AnyCall, UploadCall, UploadOps

SameFile(f) ==
  /\ uploader'[f] = uploader[f] /\ upload'[f] = upload[f]
  /\ public'[f] = public[f] /\ genuine'[f] = genuine[f]
  /\ f \in pending' <=> f \in pending
  /\ f \in promoted' <=> f \in promoted
  /\ f \in put' <=> f \in put

LEMMA FileStays ==
  ASSUME NEW f, SameFile(f)
  PROVE  /\ FileInv(f) => FileInv(f)'
         /\ \A op : Reached(f, op) => Reached(f, op)'
BY DEF SameFile, FileInv, Reached, Known

\* One file changes, and at most one finalization, which has it in hand.
LEMMA FileChanged ==
  ASSUME UploadInv, UploadsTypeOK', NEW f \in File, FileInv(f)', NEW c \in Slot,
         \A g \in File \ {f} : SameFile(g),
         \A op \in UploadOps : Reached(f, op) => Reached(f, op)',
         \A d \in Slot \ {c} : call'[d] = call[d],
         \A d \in Slot : call[d].op \in UploadOps => call[d].file \in File,
         call'[c].op \in UploadOps => call'[c].file = f /\ Reached(f, call[c].op)'
  PROVE  UploadInv'
<1>1. \A g \in File : FileInv(g)'
  <2>1. \A g \in File \ {f} : FileInv(g)'
    BY FileStays DEF UploadInv
  <2> QED BY <2>1
<1>2. ASSUME NEW d \in Slot, call'[d].op \in UploadOps PROVE Reached(call[d].file, call[d].op)'
  <2>1. CASE d = c
    BY <1>2, <2>1
  <2>2. CASE d # c
    <3>1. call'[d] = call[d] /\ call[d].op \in UploadOps /\ call[d].file \in File
      BY <1>2, <2>2
    <3>2. PICK g \in File, op \in UploadOps : g = call[d].file /\ op = call[d].op
      BY <3>1
    <3>3. Reached(g, op)
      BY <3>1, <3>2 DEF UploadInv
    <3>4. Reached(g, op)'
      <4>1. CASE g = f
        BY <3>3, <4>1
      <4>2. CASE g # f
        <5>1. SameFile(g)
          BY <4>2
        <5> QED BY <3>3, <5>1, FileStays
      <4> QED BY <4>1, <4>2
    <3> QED BY <3>1, <3>2, <3>4
  <2> QED BY <2>1, <2>2
<1> QED BY <1>1, <1>2 DEF UploadInv

LEMMA NoFileChanged ==
  ASSUME CallInv, UploadInv, UNCHANGED uploadVars, NEW c \in Slot,
         \A d \in Slot \ {c} : call'[d] = call[d],
         call'[c].op \in UploadOps => call'[c].file \in File /\ Reached(call'[c].file, call'[c].op)
  PROVE  UploadInv'
<1>1. UploadsTypeOK'
  BY DEF UploadInv, UploadsTypeOK, uploadVars
<1>2. \A g : SameFile(g)
  BY DEF SameFile, uploadVars
<1>3. \A g \in File : FileInv(g)' /\ \A op : Reached(g, op) => Reached(g, op)'
  BY <1>2, FileStays DEF UploadInv
<1>4. ASSUME NEW d \in Slot, call'[d].op \in UploadOps PROVE Reached(call[d].file, call[d].op)'
  <2>1. PICK g \in File, op \in UploadOps : g = call'[d].file /\ op = call'[d].op
    BY <1>4, UploadFields
  <2>2. Reached(g, op)
    BY <1>4, <2>1 DEF UploadInv
  <2> QED BY <1>3, <2>1, <2>2
<1> QED BY <1>1, <1>3, <1>4 DEF UploadInv

LEMMA GoesOn ==
  ASSUME CallInv, NEW c \in Slot, call[c].op \in UploadOps, NEW op \in UploadOps, Goto(c, op)
  PROVE  /\ CallStep(UploadOps) /\ \A d \in Slot \ {c} : call'[d] = call[d]
         /\ call'[c].op = op /\ call'[c].file = call[c].file
<1>1. PICK r : r = [call[c] EXCEPT !.op = op]
  OBVIOUS
<1>2. r \in AnyCall /\ r.op = op /\ r.file = call[c].file /\ "by" \notin DOMAIN r
  BY <1>1, UploadFields
<1>3. Continue(c, r) /\ "idle" \notin UploadOps
  BY <1>1 DEF Goto, UploadOps
<1> QED BY <1>2, <1>3, Continued

LEMMA GoesHome ==
  ASSUME CallInv, NEW c \in Slot, call[c].op \in UploadOps, Return(c)
  PROVE  /\ CallStep(UploadOps) /\ \A d \in Slot \ {c} : call'[d] = call[d]
         /\ call'[c].op \notin UploadOps
BY Returned DEF UploadOps, Idle

LEMMA UploadRequested ==
  ASSUME CallInv, UploadInv, NEW u \in User, NEW f \in File, RequestUpload(u, f)
  PROVE  CallStep(UploadOps) /\ UploadInv'
<1>1. /\ upload[f] = "none" /\ UNCHANGED <<call, public, genuine, pending, promoted, put>>
      /\ uploader' = [uploader EXCEPT ![f] = u] /\ upload' = [upload EXCEPT ![f] = "pending"]
  BY DEF RequestUpload
<1>2. CallStep(UploadOps)
  BY <1>1, Rested DEF RequestUpload
<1>3. UploadsTypeOK'
  BY <1>1 DEF UploadInv, UploadsTypeOK
<1>4. upload'[f] = "pending" /\ \A g \in File \ {f} : SameFile(g)
  BY <1>1 DEF SameFile, UploadInv, UploadsTypeOK
<1>5. f \notin put /\ f \notin pending \cup promoted
  BY <1>1 DEF UploadInv, FileInv
<1>6. FileInv(f)'
  BY <1>1, <1>4, <1>5 DEF FileInv
<1>7. ASSUME NEW d \in Slot, call'[d].op \in UploadOps PROVE Reached(call[d].file, call[d].op)'
  <2>1. PICK g \in File, op \in UploadOps : g = call[d].file /\ op = call[d].op
    BY <1>1, <1>7, UploadFields
  <2>2. Reached(g, op)
    BY <1>1, <1>7, <2>1 DEF UploadInv
  <2>3. g # f
    BY <1>1, <2>2 DEF Reached
  <2>4. SameFile(g)
    BY <1>4, <2>3
  <2>5. Reached(g, op)'
    BY <2>2, <2>4, FileStays
  <2> QED BY <1>1, <2>1, <2>5
<1>8. \A g \in File : FileInv(g)'
  <2>1. \A g \in File \ {f} : FileInv(g)'
    BY <1>4, FileStays DEF UploadInv
  <2> QED BY <1>6, <2>1
<1> QED BY <1>2, <1>3, <1>7, <1>8 DEF UploadInv

LEMMA ObjectPut ==
  ASSUME CallInv, UploadInv, NEW f \in File, PutObject(f)
  PROVE  CallStep(UploadOps) /\ UploadInv'
<1>1. /\ Known(f) /\ pending' = pending \cup {f} /\ put' = put \cup {f} /\ f \notin pending
      /\ UNCHANGED <<call, calls, uploader, upload, public, genuine, promoted>>
  BY DEF PutObject
<1>2. CallStep(UploadOps)
  BY <1>1, Rested
<1>3. UploadsTypeOK'
  BY <1>1 DEF UploadInv, UploadsTypeOK
<1>4. \A g \in File \ {f} : SameFile(g)
  BY <1>1 DEF SameFile
<1>5. FileInv(f)'
  <2>1. FileInv(f)
    BY DEF UploadInv
  <2> QED BY <1>1, <2>1 DEF FileInv, Known
<1>6. ASSUME NEW op \in UploadOps, Reached(f, op) PROVE Reached(f, op)'
  BY <1>1, <1>6 DEF Reached, Known
<1>7. \A g \in File : FileInv(g)'
  <2>1. \A g \in File \ {f} : FileInv(g)'
    BY <1>4, FileStays DEF UploadInv
  <2> QED BY <1>5, <2>1
<1>8. ASSUME NEW d \in Slot, call'[d].op \in UploadOps PROVE Reached(call[d].file, call[d].op)'
  <2>1. PICK g \in File, op \in UploadOps : g = call[d].file /\ op = call[d].op
    BY <1>1, <1>8, UploadFields
  <2>2. Reached(g, op)
    BY <1>1, <1>8, <2>1 DEF UploadInv
  <2>3. Reached(g, op)'
    <3>1. CASE g = f
      BY <1>6, <2>2, <3>1
    <3>2. CASE g # f
      <4>1. SameFile(g)
        BY <1>4, <3>2
      <4> QED BY <2>2, <4>1, FileStays
    <3> QED BY <3>1, <3>2
  <2> QED BY <1>1, <2>1, <2>3
<1> QED BY <1>2, <1>3, <1>7, <1>8 DEF UploadInv

LEMMA FinalizeBegun ==
  ASSUME CallInv, UploadInv, NEW c \in Slot, NEW f \in File, FinalizeUpload(c, f)
  PROVE  CallStep(UploadOps) /\ UploadInv'
<1>1. PICK r : r = [op |-> "head", file |-> f]
  OBVIOUS
<1>2. Begin(c, uploader[f], r) /\ r \in AnyCall /\ r.op = "head" /\ r.file = f /\ "by" \notin DOMAIN r
      /\ UNCHANGED uploadVars /\ Known(f)
  BY <1>1 DEF FinalizeUpload, AnyCall, UploadCall
<1>3. CallStep(UploadOps) /\ call'[c] = r /\ \A d \in Slot \ {c} : call'[d] = call[d]
  BY <1>2, Begun DEF UploadOps
<1>4. Reached(f, "head")
  BY <1>2 DEF Reached, UploadInv, FileInv
<1>5. UploadInv'
  BY <1>2, <1>3, <1>4, NoFileChanged
<1> QED BY <1>3, <1>5

\* The steps that only read: they end, or go on with what they have seen.
LEMMA FileRead ==
  ASSUME CallInv, UploadInv, NEW c \in Slot, HeadObject(c) \/ GetObject(c) \/ FinalizeDies(c)
  PROVE  CallStep(UploadOps) /\ UploadInv'
<1>1. call[c].op \in UploadOps /\ UNCHANGED uploadVars
  BY DEF HeadObject, GetObject, FinalizeDies, At, UploadOps, UploadCall
<1> PICK f \in File : f = call[c].file
  BY <1>1, UploadFields
<1>2. FileInv(f) /\ Reached(f, call[c].op)
  BY <1>1 DEF UploadInv
<1>3. CASE Return(c)
  BY <1>1, <1>3, GoesHome, NoFileChanged
<1>4. ASSUME NEW op \in UploadOps, Goto(c, op), Reached(f, op)
      PROVE  CallStep(UploadOps) /\ UploadInv'
  <2>1. /\ CallStep(UploadOps) /\ \A d \in Slot \ {c} : call'[d] = call[d]
        /\ call'[c].op = op /\ call'[c].file = f
    BY <1>1, <1>4, GoesOn
  <2> QED BY <1>1, <1>4, <2>1, NoFileChanged
<1>5. CASE HeadObject(c) /\ ~Return(c)
  <2>1. f \in pending /\ (Goto(c, "get") \/ (~genuine[f] /\ Goto(c, "discard")))
    BY <1>5 DEF HeadObject
  <2>2. Reached(f, "get") /\ (~genuine[f] => Reached(f, "discard"))
    BY <1>2, <2>1 DEF Reached, FileInv
  <2> QED BY <1>4, <2>1, <2>2 DEF UploadOps
<1>6. CASE GetObject(c) /\ ~Return(c)
  <2>1. f \in pending /\ Goto(c, IF ~genuine[f] THEN "discard" ELSE IF public[f] THEN "copy" ELSE "ready")
    BY <1>6 DEF GetObject
  <2>2. CASE ~genuine[f]
    <3>1. Reached(f, "discard") /\ Goto(c, "discard")
      BY <1>2, <2>1, <2>2 DEF Reached, FileInv
    <3> QED BY <1>4, <3>1 DEF UploadOps
  <2>3. CASE genuine[f] /\ public[f]
    <3>1. Reached(f, "copy") /\ Goto(c, "copy")
      BY <1>2, <2>1, <2>3 DEF Reached, FileInv
    <3> QED BY <1>4, <3>1 DEF UploadOps
  <2>4. CASE genuine[f] /\ ~public[f]
    <3>1. Reached(f, "ready") /\ Goto(c, "ready")
      BY <1>2, <2>1, <2>4 DEF Reached, FileInv
    <3> QED BY <1>4, <3>1 DEF UploadOps
  <2> QED BY <2>2, <2>3, <2>4
<1> QED BY <1>3, <1>5, <1>6 DEF FinalizeDies

LEMMA ObjectDiscarded ==
  ASSUME CallInv, UploadInv, NEW c \in Slot, DiscardObject(c)
  PROVE  CallStep(UploadOps) /\ UploadInv'
<1>1. call[c].op = "discard" /\ call[c].op \in UploadOps
  BY DEF DiscardObject, At, UploadOps
<1> PICK f \in File : f = call[c].file
  BY <1>1, UploadFields
<1>2. /\ pending' = pending \ {f} /\ UNCHANGED <<uploader, upload, public, genuine, promoted, put>>
      /\ Goto(c, "reject")
  BY DEF DiscardObject
<1>3. /\ CallStep(UploadOps) /\ \A d \in Slot \ {c} : call'[d] = call[d]
      /\ call'[c].op = "reject" /\ call'[c].file = f
  BY <1>1, <1>2, GoesOn DEF UploadOps
<1>4. FileInv(f) /\ Reached(f, "discard")
  BY <1>1 DEF UploadInv
<1>5. UploadsTypeOK'
  BY <1>2 DEF UploadInv, UploadsTypeOK
<1>6. FileInv(f)'
  BY <1>2, <1>4 DEF FileInv, Reached, Known
<1>7. \A op \in UploadOps : Reached(f, op) => Reached(f, op)'
  BY <1>2, <1>4 DEF Reached, Known
<1>8. \A g \in File \ {f} : SameFile(g)
  BY <1>2 DEF SameFile
<1>9. Reached(f, call[c].op)'
  BY <1>2, <1>3, <1>4 DEF Reached
<1>10. \A d \in Slot : call[d].op \in UploadOps => call[d].file \in File
  BY UploadFields
<1> QED BY <1>3, <1>5, <1>6, <1>7, <1>8, <1>9, <1>10, FileChanged

\* The row takes a status that its object bears out.
LEMMA RowSet ==
  ASSUME CallInv, UploadInv, NEW c \in Slot, NEW f \in File, call[c].op \in UploadOps, call[c].file = f,
         NEW status \in {"ready", "rejected"}, SetUpload(f, status),
         UNCHANGED <<uploader, public, genuine, pending, promoted, put>>,
         status = "ready" => Reached(f, "ready"), status = "rejected" => Reached(f, "reject")
  PROVE  /\ UploadsTypeOK' /\ FileInv(f)' /\ \A g \in File \ {f} : SameFile(g)
         /\ \A op \in UploadOps : Reached(f, op) => Reached(f, op)'
         /\ Known(f) => upload'[f] = status
         /\ upload'[f] # "none"
<1>1. /\ \A g \in File \ {f} : upload'[g] = upload[g]
      /\ upload'[f] = IF Known(f) THEN status ELSE upload[f]
      /\ upload' \in [File -> {"none", "pending", "ready", "rejected"}]
  BY DEF SetUpload, UploadInv, UploadsTypeOK
<1>2. UploadsTypeOK'
  BY <1>1 DEF UploadInv, UploadsTypeOK
<1>3. \A g \in File \ {f} : SameFile(g)
  BY <1>1 DEF SameFile
<1>4. FileInv(f)
  BY DEF UploadInv
<1>5. FileInv(f)'
  <2>1. CASE status = "ready"
    BY <1>1, <1>4, <2>1 DEF FileInv, Reached, Known
  <2>2. CASE status = "rejected"
    BY <1>1, <1>4, <2>2 DEF FileInv, Reached, Known
  <2> QED BY <2>1, <2>2
<1>6. \A op \in UploadOps : Reached(f, op) => Reached(f, op)'
  <2>1. CASE status = "ready"
    BY <1>1, <2>1 DEF Reached, Known
  <2>2. CASE status = "rejected"
    BY <1>1, <2>2 DEF Reached, Known
  <2> QED BY <2>1, <2>2
<1> QED BY <1>1, <1>2, <1>3, <1>4, <1>5, <1>6 DEF FileInv, Reached

LEMMA RowRejected ==
  ASSUME CallInv, UploadInv, NEW c \in Slot, RejectRow(c)
  PROVE  CallStep(UploadOps) /\ UploadInv'
<1>1. call[c].op = "reject" /\ call[c].op \in UploadOps
  BY DEF RejectRow, At, UploadOps
<1> PICK f \in File : f = call[c].file
  BY <1>1, UploadFields
<1>2. SetUpload(f, "rejected") /\ UNCHANGED <<uploader, public, genuine, pending, promoted, put>> /\ Return(c)
  BY DEF RejectRow
<1>3. /\ CallStep(UploadOps) /\ \A d \in Slot \ {c} : call'[d] = call[d]
      /\ call'[c].op \notin UploadOps
  BY <1>1, <1>2, GoesHome
<1>4. Reached(f, "reject")
  BY <1>1 DEF UploadInv
<1>5. /\ UploadsTypeOK' /\ FileInv(f)' /\ \A g \in File \ {f} : SameFile(g)
      /\ \A op \in UploadOps : Reached(f, op) => Reached(f, op)'
  BY <1>1, <1>2, <1>4, RowSet
<1>6. \A d \in Slot : call[d].op \in UploadOps => call[d].file \in File
  BY UploadFields
<1> QED BY <1>3, <1>5, <1>6, FileChanged

LEMMA ObjectCopied ==
  ASSUME CallInv, UploadInv, NEW c \in Slot, CopyObject(c)
  PROVE  CallStep(UploadOps) /\ UploadInv'
<1>1. call[c].op = "copy" /\ call[c].op \in UploadOps
  BY DEF CopyObject, At, UploadOps
<1> PICK f \in File : f = call[c].file
  BY <1>1, UploadFields
<1>2. UNCHANGED <<uploader, upload, public, genuine, pending, put>>
  BY DEF CopyObject
<1>3. CASE f \notin pending
  <2>1. UNCHANGED uploadVars /\ Return(c)
    BY <1>2, <1>3 DEF CopyObject, uploadVars
  <2> QED BY <1>1, <2>1, GoesHome, NoFileChanged
<1>4. CASE f \in pending
  <2>1. promoted' = promoted \cup {f} /\ Goto(c, "ready")
    BY <1>4 DEF CopyObject
  <2>2. /\ CallStep(UploadOps) /\ \A d \in Slot \ {c} : call'[d] = call[d]
        /\ call'[c].op = "ready" /\ call'[c].file = f
    BY <1>1, <2>1, GoesOn DEF UploadOps
  <2>3. FileInv(f) /\ Reached(f, "copy")
    BY <1>1 DEF UploadInv
  <2>4. UploadsTypeOK'
    BY <1>2, <2>1 DEF UploadInv, UploadsTypeOK
  <2>5. FileInv(f)'
    BY <1>2, <2>1, <2>3 DEF FileInv, Reached, Known
  <2>6. \A op \in UploadOps : Reached(f, op) => Reached(f, op)'
    BY <1>2, <2>1 DEF Reached, Known
  <2>7. \A g \in File \ {f} : SameFile(g)
    BY <1>2, <2>1 DEF SameFile
  <2>8. Reached(f, call[c].op)'
    BY <1>2, <2>1, <2>2, <2>3 DEF Reached
  <2>9. \A d \in Slot : call[d].op \in UploadOps => call[d].file \in File
    BY UploadFields
  <2> QED BY <2>2, <2>4, <2>5, <2>6, <2>7, <2>8, <2>9, FileChanged
<1> QED BY <1>3, <1>4

LEMMA MarkedReady ==
  ASSUME CallInv, UploadInv, NEW c \in Slot, MarkReady(c)
  PROVE  CallStep(UploadOps) /\ UploadInv'
<1>1. call[c].op = "ready" /\ call[c].op \in UploadOps
  BY DEF MarkReady, At, UploadOps
<1> PICK f \in File : f = call[c].file
  BY <1>1, UploadFields
<1>2. SetUpload(f, "ready") /\ UNCHANGED <<uploader, public, genuine, pending, promoted, put>>
  BY DEF MarkReady
<1>3. Reached(f, "ready")
  BY <1>1 DEF UploadInv
<1>4. /\ UploadsTypeOK' /\ FileInv(f)' /\ \A g \in File \ {f} : SameFile(g)
      /\ \A op \in UploadOps : Reached(f, op) => Reached(f, op)'
      /\ Known(f) => upload'[f] = "ready"
      /\ upload'[f] # "none"
  BY <1>1, <1>2, <1>3, RowSet
<1>5. \A d \in Slot : call[d].op \in UploadOps => call[d].file \in File
  BY UploadFields
<1>6. CASE ~public[f]
  <2>1. Return(c)
    BY <1>6 DEF MarkReady, AfterReady
  <2>2. /\ CallStep(UploadOps) /\ \A d \in Slot \ {c} : call'[d] = call[d]
        /\ call'[c].op \notin UploadOps
    BY <1>1, <2>1, GoesHome
  <2> QED BY <1>4, <1>5, <2>2, FileChanged
<1>7. CASE public[f]
  <2>1. Goto(c, "tidy")
    BY <1>7 DEF MarkReady, AfterReady
  <2>2. /\ CallStep(UploadOps) /\ \A d \in Slot \ {c} : call'[d] = call[d]
        /\ call'[c].op = "tidy" /\ call'[c].file = f
    BY <1>1, <2>1, GoesOn DEF UploadOps
  <2>3. Reached(f, call[c].op)'
    BY <1>2, <1>3, <1>4, <1>7, <2>2 DEF Reached, Known
  <2> QED BY <1>4, <1>5, <2>2, <2>3, FileChanged
<1> QED BY <1>6, <1>7

LEMMA PendingTidied ==
  ASSUME CallInv, UploadInv, NEW c \in Slot, TidyPending(c)
  PROVE  CallStep(UploadOps) /\ UploadInv'
<1>1. call[c].op = "tidy" /\ call[c].op \in UploadOps
  BY DEF TidyPending, At, UploadOps
<1> PICK f \in File : f = call[c].file
  BY <1>1, UploadFields
<1>2. /\ pending' \in {pending, pending \ {f}} /\ Return(c)
      /\ UNCHANGED <<uploader, upload, public, genuine, promoted, put>>
  BY DEF TidyPending
<1>3. /\ CallStep(UploadOps) /\ \A d \in Slot \ {c} : call'[d] = call[d]
      /\ call'[c].op \notin UploadOps
  BY <1>1, <1>2, GoesHome
<1>4. FileInv(f) /\ Reached(f, "tidy")
  BY <1>1 DEF UploadInv
<1>5. UploadsTypeOK'
  BY <1>2 DEF UploadInv, UploadsTypeOK
<1>6. FileInv(f)'
  BY <1>2, <1>4 DEF FileInv, Reached, Known
<1>7. \A op \in UploadOps : Reached(f, op) => Reached(f, op)'
  BY <1>2, <1>4 DEF Reached, Known
<1>8. \A g \in File \ {f} : SameFile(g)
  BY <1>2 DEF SameFile
<1>9. \A d \in Slot : call[d].op \in UploadOps => call[d].file \in File
  BY UploadFields
<1> QED BY <1>3, <1>5, <1>6, <1>7, <1>8, <1>9, FileChanged

LEMMA UploadKeeps ==
  ASSUME CallInv, UploadInv, UploadsNext
  PROVE  CallStep(UploadOps) /\ UploadInv'
BY UploadRequested, ObjectPut, FinalizeBegun, FileRead, ObjectDiscarded, RowRejected, ObjectCopied,
   MarkedReady, PendingTidied DEF UploadsNext

LEMMA UploadStays ==
  ASSUME CallInv, UploadInv, Spares(UploadOps),
         UNCHANGED <<upload, public, genuine, pending, promoted, put>>,
         uploader' \in [File -> User \cup {NoUploader}],
         \A f \in File : uploader'[f] \in {uploader[f], NoUploader}
  PROVE  UploadInv'
<1>1. UploadsTypeOK'
  BY DEF UploadInv, UploadsTypeOK
<1>2. \A f \in File : FileInv(f)' /\ \A op : Reached(f, op) => Reached(f, op)'
  BY DEF UploadInv, FileInv, Reached, Known
<1>3. ASSUME NEW d \in Slot, call'[d].op \in UploadOps PROVE Reached(call[d].file, call[d].op)'
  <2>1. call'[d] = call[d]
    BY <1>3 DEF Spares
  <2>2. PICK f \in File, op \in UploadOps : f = call[d].file /\ op = call[d].op
    BY <1>3, <2>1, UploadFields
  <2>3. Reached(f, op)
    BY <1>3, <2>1, <2>2 DEF UploadInv
  <2> QED BY <1>2, <2>1, <2>2, <2>3
<1> QED BY <1>1, <1>2, <1>3 DEF UploadInv

LEMMA UploadWithdrawn ==
  ASSUME CallInv, UploadInv, NEW c \in Slot, CommitWithdrawal(c)
  PROVE  UploadInv'
<1>1. Spares(UploadOps)
  BY CommitSpares DEF UploadOps
<1>2. PICK u : ForgetUploads(u)
  BY DEF CommitWithdrawal
<1>3. uploader' \in [File -> User \cup {NoUploader}] /\ \A f \in File : uploader'[f] \in {uploader[f], NoUploader}
  BY <1>2 DEF ForgetUploads, UploadInv, UploadsTypeOK
<1> QED BY <1>1, <1>2, <1>3, UploadStays DEF ForgetUploads

-----------------------------------------------------------------------------
(* Ways of signing in.                                                     *)

LEMMA SignInFields ==
  ASSUME CallInv, NEW c \in Slot
  PROVE  /\ call[c].op \in {"find", "insert", "find again", "associate"} => call[c].provider \in Provider
         /\ call[c].op = "associate" => call[c].account \in User
         /\ call[c].op = "find" =>
              /\ [call[c] EXCEPT !.op = "insert"] \in AnyCall
              /\ [call[c] EXCEPT !.op = "insert"].op = "insert"
              /\ "by" \notin DOMAIN [call[c] EXCEPT !.op = "insert"]
         /\ call[c].op = "insert" =>
              /\ [call[c] EXCEPT !.op = "find again"] \in AnyCall
              /\ [call[c] EXCEPT !.op = "find again"].op = "find again"
              /\ "by" \notin DOMAIN [call[c] EXCEPT !.op = "find again"]
<1>1. call[c].op \in SignInOps => call[c] \in SignInCall
  BY CallsByOp DEF CallInv
<1>2. call[c].op \in {"find", "insert", "find again"} =>
        call[c] \in [op : {"find", "insert", "find again"}, provider : Provider]
  BY <1>1 DEF SignInOps, SignInCall
<1>3. call[c].op = "associate" => call[c] \in [op : {"associate"}, provider : Provider, account : User]
  BY <1>1 DEF SignInOps, SignInCall
<1>4. call[c].op = "find" => [call[c] EXCEPT !.op = "insert"] \in [op : {"find", "insert", "find again"}, provider : Provider]
  BY <1>2
<1>5. call[c].op = "insert" => [call[c] EXCEPT !.op = "find again"] \in [op : {"find", "insert", "find again"}, provider : Provider]
  BY <1>2
<1>6. \A r \in [op : {"find", "insert", "find again"}, provider : Provider] :
        r \in AnyCall /\ "by" \notin DOMAIN r
  BY DEF AnyCall, SignInCall
<1>7. call[c].op = "find" => [call[c] EXCEPT !.op = "insert"].op = "insert"
  BY <1>2
<1>8. call[c].op = "insert" => [call[c] EXCEPT !.op = "find again"].op = "find again"
  BY <1>2
<1>9. call[c].op \in {"find", "insert", "find again", "associate"} => call[c].provider \in Provider
  BY <1>2, <1>3
<1>10. call[c].op = "associate" => call[c].account \in User
  BY <1>3
<1> QED BY <1>4, <1>5, <1>6, <1>7, <1>8, <1>9, <1>10

\* What the person has signs in with stays, and the calls that link an
\* account have found one.
LEMMA NothingLinked ==
  ASSUME CallInv, SignInInv, UNCHANGED <<signInVars, withdrawn>>,
         \A d \in Slot : Doing(d, "associate")' =>
           call'[d] = call[d] \/ call'[d].account = email
  PROVE  SignInInv'
<1>1. SignInTypeOK' /\ SignInReachesAccount' /\ email' \notin withdrawn' /\ withdrawn' \subseteq accounts'
  BY DEF SignInInv, SignInTypeOK, SignInReachesAccount, signInVars
<1>2. \A d \in Slot : Doing(d, "associate")' => call'[d].account = email' \/ call'[d].account \in withdrawn'
  BY DEF SignInInv, Doing, signInVars
<1> QED BY <1>1, <1>2 DEF SignInInv

LEMMA SignInBegun ==
  ASSUME CallInv, SignInInv, NEW c \in Slot, Register(c) \/ \E p \in Provider : LoginWith(c, p)
  PROVE  CallStep(SignInOps) /\ UNCHANGED accountVars /\ SignInInv'
<1>1. PICK r \in SignInCall : /\ Begin(c, Staff, r) /\ UNCHANGED <<accountVars, signInVars>>
                              /\ r.op # "associate"
  <2>1. CASE Register(c)
    <3>1. PICK r : r = [op |-> "register"]
      OBVIOUS
    <3>2. r \in SignInCall /\ r.op = "register"
      BY <3>1 DEF SignInCall
    <3> QED BY <2>1, <3>1, <3>2 DEF Register
  <2>2. ASSUME NEW p \in Provider, LoginWith(c, p)
        PROVE  \E r \in SignInCall : /\ Begin(c, Staff, r) /\ UNCHANGED <<accountVars, signInVars>>
                                    /\ r.op # "associate"
    <3>1. PICK r : r = [op |-> "find", provider |-> p]
      OBVIOUS
    <3>2. r \in SignInCall /\ r.op = "find"
      BY <3>1 DEF SignInCall
    <3> QED BY <2>2, <3>1, <3>2 DEF LoginWith
  <2> QED BY <2>1, <2>2
<1>2. r \in AnyCall /\ r.op \in SignInOps /\ "by" \notin DOMAIN r
  BY CallsOfUsers, OpsOfCalls DEF AnyCall, Personal, SignInOps, ApplyOps
<1>3. CallStep(SignInOps) /\ call'[c] = r /\ \A d \in Slot \ {c} : call'[d] = call[d]
  BY <1>1, <1>2, Begun
<1>4. SignInInv'
  BY <1>1, <1>3, NothingLinked DEF Doing, accountVars
<1> QED BY <1>1, <1>3, <1>4

LEMMA SignInEnds ==
  ASSUME CallInv, NEW c \in Slot, call[c].op \in SignInOps, Return(c)
  PROVE  CallStep(SignInOps) /\ EndsAt(c) /\ \A d \in Slot : Doing(d, "associate")' => d # c /\ call'[d] = call[d]
<1>1. CallStep(SignInOps) /\ EndsAt(c)
  BY Returned DEF SignInOps, EndsAt
<1>2. \A d \in Slot : Doing(d, "associate")' => d # c /\ call'[d] = call[d]
  BY <1>1 DEF EndsAt, Doing, Idle
<1> QED BY <1>1, <1>2

LEMMA SignInGoesOn ==
  ASSUME CallInv, NEW c \in Slot, call[c].op \in SignInOps, NEW r \in AnyCall, Continue(c, r),
         r.op \in SignInOps, "by" \notin DOMAIN r
  PROVE  CallStep(SignInOps) /\ call'[c] = r /\ \A d \in Slot \ {c} : call'[d] = call[d]
BY Continued DEF SignInOps

\* A look for the address of the person.
LEMMA AddressFound ==
  ASSUME CallInv, SignInInv, NEW c \in Slot, FindByEmail(c) \/ FindAgain(c)
  PROVE  CallStep(SignInOps) /\ UNCHANGED accountVars /\ SignInInv'
<1>1. call[c].op \in SignInOps /\ UNCHANGED <<accountVars, signInVars>>
  BY DEF FindByEmail, FindAgain, SignInOps
<1> PICK p \in Provider : p = call[c].provider
  BY SignInFields DEF FindByEmail, FindAgain
<1>2. CASE email # NoAccount
  <2>1. PICK r : r = [op |-> "associate", provider |-> p, account |-> email]
    OBVIOUS
  <2>2. Continue(c, r)
    BY <1>2, <2>1 DEF FindByEmail, FindAgain, FoundByEmail
  <2>3. email \in User
    BY <1>2 DEF SignInInv, SignInTypeOK
  <2>4. r \in AnyCall /\ r.op \in SignInOps /\ "by" \notin DOMAIN r /\ r.account = email
    BY <2>1, <2>3 DEF AnyCall, SignInCall, SignInOps
  <2>5. CallStep(SignInOps) /\ call'[c] = r /\ \A d \in Slot \ {c} : call'[d] = call[d]
    BY <1>1, <2>2, <2>4, SignInGoesOn
  <2>6. SignInInv'
    BY <1>1, <2>4, <2>5, NothingLinked DEF accountVars
  <2> QED BY <1>1, <2>5, <2>6
<1>3. CASE email = NoAccount /\ FindByEmail(c)
  <2>1. PICK r : r = [call[c] EXCEPT !.op = "insert"]
    OBVIOUS
  <2>2. Continue(c, r) /\ call[c].op = "find"
    BY <1>3, <2>1 DEF FindByEmail, FoundByEmail
  <2>3. r \in AnyCall /\ r.op = "insert" /\ "by" \notin DOMAIN r
    BY <2>1, <2>2, SignInFields
  <2>4. CallStep(SignInOps) /\ call'[c] = r /\ \A d \in Slot \ {c} : call'[d] = call[d]
    BY <1>1, <2>2, <2>3, SignInGoesOn DEF SignInOps
  <2>5. SignInInv'
    BY <1>1, <2>3, <2>4, NothingLinked DEF accountVars, Doing
  <2> QED BY <1>1, <2>4, <2>5
<1>4. CASE email = NoAccount /\ FindAgain(c)
  <2>1. Return(c)
    BY <1>4 DEF FindAgain, FoundByEmail
  <2>2. CallStep(SignInOps) /\ \A d \in Slot : Doing(d, "associate")' => call'[d] = call[d]
    BY <1>1, <2>1, SignInEnds
  <2> QED BY <1>1, <2>2, NothingLinked DEF accountVars
<1> QED BY <1>2, <1>3, <1>4

\* The person gets an account that has the address.
LEMMA AccountCreated ==
  ASSUME CallInv, SignInInv, NEW c \in Slot, EndsAt(c), NEW r \in User, CreateAccount(r), email = NoAccount,
         known' \in {known, known \cup {r}}, UNCHANGED <<accountVars, late>>,
         \/ UNCHANGED linked
         \/ \E p \in Provider : linked' = [linked EXCEPT ![p] = r]
  PROVE  SignInInv'
<1>1. r \notin accounts /\ accounts' = accounts \cup {r} /\ email' = r /\ r \notin withdrawn
  BY DEF CreateAccount, SignInInv
<1>2. SignInTypeOK'
  BY <1>1 DEF SignInInv, SignInTypeOK, accountVars
<1>3. \A p \in Provider : linked'[p] \in {linked[p], r}
  BY DEF SignInInv, SignInTypeOK
<1>4. SignInReachesAccount'
  BY <1>1, <1>3 DEF SignInInv, SignInReachesAccount, accountVars
<1>5. \A d \in Slot : Doing(d, "associate")' => call'[d] = call[d] /\ call[d].account \in withdrawn
  <2>1. \A d \in Slot : Doing(d, "associate")' => call'[d] = call[d] /\ call[d].op = "associate"
    BY DEF EndsAt, Doing, Idle
  <2>2. \A d \in Slot : call[d].op = "associate" => call[d].account \in User
    BY SignInFields
  <2>3. \A d \in Slot : call[d].op = "associate" => call[d].account = email \/ call[d].account \in withdrawn
    BY DEF SignInInv, Doing
  <2> QED BY <2>1, <2>2, <2>3, SignInAssumption
<1> QED BY <1>1, <1>2, <1>4, <1>5 DEF SignInInv, accountVars

LEMMA RegisteredInserted ==
  ASSUME CallInv, SignInInv, NEW c \in Slot, InsertRegistered(c)
  PROVE  CallStep(SignInOps) /\ UNCHANGED accountVars /\ SignInInv'
<1>1. Return(c) /\ call[c].op \in SignInOps /\ UNCHANGED <<accountVars, linked, late>>
  BY DEF InsertRegistered, SignInOps
<1>2. CallStep(SignInOps) /\ EndsAt(c) /\ \A d \in Slot : Doing(d, "associate")' => call'[d] = call[d]
  BY <1>1, SignInEnds
<1>3. CASE UNCHANGED <<accounts, known, email>>
  BY <1>1, <1>2, <1>3, NothingLinked DEF signInVars, accountVars
<1>4. ASSUME NEW r \in User, CreateAccount(r), known' = known \cup {r}, email = NoAccount
      PROVE  SignInInv'
  BY <1>1, <1>2, <1>4, AccountCreated
<1> QED BY <1>1, <1>2, <1>3, <1>4 DEF InsertRegistered

LEMMA LinkedInserted ==
  ASSUME CallInv, SignInInv, NEW c \in Slot, InsertLinked(c)
  PROVE  CallStep(SignInOps) /\ UNCHANGED accountVars /\ SignInInv'
<1>1. call[c].op = "insert" /\ call[c].op \in SignInOps /\ UNCHANGED <<accountVars, known, late>>
  BY DEF InsertLinked, SignInOps
<1> PICK p \in Provider : p = call[c].provider
  BY <1>1, SignInFields
<1>2. CASE Return(c)
  <2>1. CallStep(SignInOps) /\ EndsAt(c) /\ \A d \in Slot : Doing(d, "associate")' => call'[d] = call[d]
    BY <1>1, <1>2, SignInEnds
  <2>2. CASE UNCHANGED <<accounts, email, linked>>
    BY <1>1, <2>1, <2>2, NothingLinked DEF signInVars, accountVars
  <2>3. ASSUME NEW r \in User, CreateAccount(r), linked' = [linked EXCEPT ![p] = r], email = NoAccount
        PROVE  SignInInv'
    BY <1>1, <2>1, <2>3, AccountCreated
  <2> QED BY <1>1, <2>1, <2>2, <2>3 DEF InsertLinked
<1>3. CASE ~Return(c)
  <2>1. PICK r : r = [call[c] EXCEPT !.op = "find again"]
    OBVIOUS
  <2>2. Continue(c, r) /\ UNCHANGED <<accounts, email, linked>>
    BY <1>3, <2>1 DEF InsertLinked
  <2>3. r \in AnyCall /\ r.op = "find again" /\ "by" \notin DOMAIN r
    BY <1>1, <2>1, SignInFields
  <2>4. CallStep(SignInOps) /\ call'[c] = r /\ \A d \in Slot \ {c} : call'[d] = call[d]
    BY <1>1, <2>2, <2>3, SignInGoesOn DEF SignInOps
  <2>5. SignInInv'
    BY <1>1, <2>2, <2>3, <2>4, NothingLinked DEF accountVars, signInVars, Doing
  <2> QED BY <1>1, <2>4, <2>5
<1> QED BY <1>2, <1>3

LEMMA SubjectLinked ==
  ASSUME CallInv, SignInInv, NEW c \in Slot, Associate(c)
  PROVE  CallStep(SignInOps) /\ UNCHANGED accountVars /\ SignInInv'
<1>1. call[c].op = "associate" /\ call[c].op \in SignInOps /\ UNCHANGED <<accountVars, accounts, known, email>>
      /\ Return(c)
  BY DEF Associate, SignInOps
<1> PICK p \in Provider, account \in User : p = call[c].provider /\ account = call[c].account
  BY <1>1, SignInFields
<1>2. CallStep(SignInOps) /\ EndsAt(c) /\ \A d \in Slot : Doing(d, "associate")' => call'[d] = call[d]
  BY <1>1, SignInEnds
<1>3. CASE linked[p] # NoAccount
  <2>1. UNCHANGED <<linked, late>>
    BY <1>3 DEF Associate
  <2> QED BY <1>1, <1>2, <2>1, NothingLinked DEF signInVars, accountVars
<1>4. CASE linked[p] = NoAccount
  <2>1. linked' = [linked EXCEPT ![p] = account] /\ late' = IF account \in withdrawn THEN late \cup {p} ELSE late
    BY <1>4 DEF Associate
  <2>2. account = email \/ account \in withdrawn
    BY <1>1 DEF SignInInv, Doing
  <2>3. SignInTypeOK'
    BY <1>1, <2>1 DEF SignInInv, SignInTypeOK
  <2>4. linked'[p] = account /\ \A q \in Provider \ {p} : linked'[q] = linked[q]
    BY <2>1 DEF SignInInv, SignInTypeOK
  <2>5. SignInReachesAccount'
    <3>1. ASSUME NEW q \in Provider
          PROVE  \/ linked'[q] \in {NoAccount, email}
                 \/ linked'[q] \in withdrawn /\ q \in late' \cup {Kakao}
      <4>1. CASE q = p
        BY <2>1, <2>2, <2>4, <4>1
      <4>2. CASE q # p
        BY <2>1, <2>4, <4>2 DEF SignInInv, SignInReachesAccount
      <4> QED BY <4>1, <4>2
    <3> QED BY <1>1, <3>1 DEF SignInReachesAccount, accountVars
  <2>6. \A d \in Slot : Doing(d, "associate")' => call'[d].account = email' \/ call'[d].account \in withdrawn'
    BY <1>1, <1>2 DEF SignInInv, Doing, accountVars
  <2>7. email' \notin withdrawn' /\ withdrawn' \subseteq accounts'
    BY <1>1 DEF SignInInv, accountVars
  <2>8. SignInInv'
    BY <2>3, <2>5, <2>6, <2>7 DEF SignInInv
  <2> QED BY <1>1, <1>2, <2>8
<1> QED BY <1>3, <1>4

LEMMA SignInKeeps ==
  ASSUME CallInv, SignInInv, SignInNext
  PROVE  CallStep(SignInOps) /\ UNCHANGED accountVars /\ SignInInv'
BY SignInBegun, AddressFound, RegisteredInserted, LinkedInserted, SubjectLinked DEF SignInNext

LEMMA SignInStays ==
  ASSUME CallInv, SignInInv, Spares(SignInOps), UNCHANGED <<signInVars, withdrawn>>
  PROVE  SignInInv'
<1>1. \A d \in Slot : Doing(d, "associate")' => call'[d] = call[d]
  BY DEF Spares, SignInOps, Doing
<1> QED BY <1>1, NothingLinked

LEMMA SignInWithdrawn ==
  ASSUME CallInv, WithdrawInv, SignInInv, NEW c \in Slot, CommitWithdrawal(c)
  PROVE  SignInInv'
<1> PICK u \in User : u = call[c].by
  BY WithdrawFields DEF CommitWithdrawal
<1>1. ForgetSignIn(u) /\ withdrawn' = withdrawn \cup {u} /\ call[c].op = "withdraw"
  BY DEF CommitWithdrawal
<1>2. u \in accounts
  BY <1>1 DEF WithdrawInv, Doing
<1>3. /\ email' = IF email = u THEN NoAccount ELSE email
      /\ \A p \in Provider : linked'[p] = IF p \in Erased /\ linked[p] = u THEN NoAccount ELSE linked[p]
      /\ UNCHANGED <<accounts, late>> /\ known' = known \ {u}
      /\ linked' = [p \in Provider |-> linked'[p]]
  BY <1>1 DEF ForgetSignIn
<1>4. SignInTypeOK'
  BY <1>3 DEF SignInInv, SignInTypeOK
<1>5. \A p \in Provider : p \in Erased \/ p = Kakao
  BY DEF Provider, Erased
<1>6. SignInReachesAccount'
  BY <1>1, <1>3, <1>5 DEF SignInInv, SignInReachesAccount
<1>7. email' \notin withdrawn' /\ withdrawn' \subseteq accounts'
  BY <1>1, <1>2, <1>3, SignInAssumption DEF SignInInv, CallInv, AccountsTypeOK
<1>8. \A d \in Slot : Doing(d, "associate")' => call'[d] = call[d]
  BY CommitCalls DEF Doing, Idle
<1>9. \A d \in Slot : Doing(d, "associate")' => call'[d].account = email' \/ call'[d].account \in withdrawn'
  BY <1>1, <1>3, <1>8 DEF SignInInv, Doing
<1> QED BY <1>4, <1>6, <1>7, <1>9 DEF SignInInv

-----------------------------------------------------------------------------
(* The steps of the subjects, and withdrawals under way beside them.       *)

\* A step of a subject: it makes nobody withdraw, and it moves teams and
\* businesses only for a call in flight.
Aside(ops) ==
  /\ CallStep(ops)
  /\ UNCHANGED <<withdrawn, communityVars>> /\ suspended' \subseteq User
  /\ accounts \subseteq accounts'
  /\ \A t \in Team : leader[t] # Nobody => leader'[t] # Nobody
  /\ UNCHANGED <<leader, member, holder>> \/ \E d \in Slot : call[d].op \in ops

LEMMA CallsAside ==
  ASSUME IInv, NEW ops, Aside(ops)
  PROVE  CallInv'
BY DEF IInv, CallInv, AccountsTypeOK, Aside, CallStep, communityVars

LEMMA WithdrawAside ==
  ASSUME IInv, NEW ops, Aside(ops), "withdraw" \notin ops
  PROVE  WithdrawInv'
<1> SUFFICES ASSUME NEW c \in Slot, Doing(c, "withdraw")'
             PROVE  /\ call'[c].since <= calls' /\ calls' > 0
                    /\ call'[c].by \in accounts'
                    /\ \A t \in call'[c].leads : leader'[t] # Nobody
                    /\ AtMostOne(call'[c].owns)
  BY DEF WithdrawInv, AtMostOne
<1>1. call'[c] = call[c] /\ call[c].op = "withdraw"
  BY DEF Aside, CallStep, Doing
<1>2. call[c].leads \in SUBSET Team /\ call[c].since \in Nat
  BY <1>1, WithdrawFields, RequestsAssumption DEF IInv
<1>3. calls \in Nat /\ calls' \in Nat /\ calls <= calls'
  BY RequestsAssumption DEF Aside, CallStep, IInv, CallInv, AccountsTypeOK
<1>4. /\ call[c].since <= calls /\ calls > 0
      /\ call[c].by \in accounts
      /\ \A t \in call[c].leads : leader[t] # Nobody
      /\ AtMostOne(call[c].owns)
  BY <1>1 DEF IInv, WithdrawInv, Doing
<1>5. call[c].since <= calls' /\ calls' > 0
  BY <1>2, <1>3, <1>4
<1> QED BY <1>1, <1>2, <1>4, <1>5 DEF Aside

LEMMA AloneAside ==
  ASSUME IInv, NEW ops, Aside(ops), "withdraw" \notin ops, "idle" \notin ops
  PROVE  AloneInv'
<1> SUFFICES ASSUME NEW c \in Slot, Alone(c)'
             PROVE  /\ \A d \in Slot \ {c} : call'[d] = Idle
                    /\ call'[c].leads = Led(call[c].by)' /\ call'[c].owns = Owned(call[c].by)'
                    /\ call'[c] = call[c]
                    /\ Led(call[c].by)' # {} \/ Owned(call[c].by)' # {} =>
                         call[c].heir # call[c].by /\ call[c].heir \notin withdrawn'
                    /\ \A t \in Led(call[c].by)' : member'[t][call[c].heir] = "accepted"
  BY DEF AloneInv, Led, Owned
<1>1. call'[c] = call[c] /\ call[c].op = "withdraw" /\ call[c].since = calls'
  BY DEF Alone, Aside, CallStep, Doing
<1>2. calls \in Nat /\ calls' \in Nat /\ calls <= calls'
  BY RequestsAssumption DEF Aside, CallStep, IInv, CallInv, AccountsTypeOK
<1>3. call[c].since <= calls
  BY <1>1 DEF IInv, WithdrawInv, Doing
<1>4. calls' = calls
  BY <1>1, <1>2, <1>3
<1>5. Alone(c)
  BY <1>1, <1>4 DEF Alone, Doing
<1>6. \A d \in Slot \ {c} : call[d] = Idle
  BY <1>5 DEF IInv, AloneInv
<1>7. \A d \in Slot \ {c} : call'[d] = Idle
  BY <1>2, <1>4, <1>6 DEF Aside, CallStep
<1>8. UNCHANGED <<leader, member, holder>>
  BY <1>1, <1>6 DEF Aside, Idle
<1>9. Led(call[c].by)' = Led(call[c].by) /\ Owned(call[c].by)' = Owned(call[c].by)
  BY <1>1, <1>8 DEF Led, Owned
<1>10. /\ call[c].leads = Led(call[c].by) /\ call[c].owns = Owned(call[c].by)
       /\ Led(call[c].by) # {} \/ Owned(call[c].by) # {} =>
            call[c].heir # call[c].by /\ call[c].heir \notin withdrawn
       /\ \A t \in Led(call[c].by) : member[t][call[c].heir] = "accepted"
  BY <1>5 DEF IInv, AloneInv
<1> QED BY <1>1, <1>7, <1>8, <1>9, <1>10 DEF Aside

LEMMA OrphansAside ==
  ASSUME OrphanInv, UNCHANGED <<leader, member, holder, withdrawn, crowded>>,
         Spares({"create", "enroll", "decide"})
  PROVE  OrphanInv'
<1>1. NothingOrphaned => NothingOrphaned'
  BY DEF NothingOrphaned
<1>2. \A d \in Slot : call'[d].op \in {"create", "enroll", "decide"} => call'[d] = call[d]
  BY DEF Spares
<1> QED BY <1>1, <1>2 DEF OrphanInv, Doing

\* Who has withdrawn begins nothing.
LEMMA NobodyReturns ==
  ASSUME LeftInv, NEW ops, CallStep(ops), UNCHANGED <<withdrawn, trailing>>
  PROVE  \A c \in Slot, u \in User : u \in withdrawn' \ trailing' => ~Trails(c, u)'
BY DEF LeftInv, CallStep, Active

LEMMA LocksStay ==
  ASSUME Spares(ProfileOps), NEW c \in Slot, NEW u
  PROVE  Locks(c, u)' <=> Locks(c, u)
BY DEF Spares, ProfileOps, Locks, Doing

LeftBy(u) ==
  /\ \A t \in Team : member[t][u] # "none" => u \in scouted[t]
  /\ \A a \in answers : applicant[a] # u
  /\ \A f \in File : uploader[f] # u
  /\ links[u] = Blank

LEMMA LeftAside ==
  ASSUME IInv, NEW ops, CallStep(ops), UNCHANGED <<withdrawn, trailing>>,
         \A u \in withdrawn \ trailing : LeftBy(u)' /\ \A c \in Slot : ~Locks(c, u)'
  PROVE  LeftInv'
<1>1. withdrawn' \subseteq User
  BY DEF IInv, CallInv, AccountsTypeOK
<1>2. WithdrawnLeavesNothing'
  BY DEF WithdrawnLeavesNothing, LeftBy
<1>3. \A c \in Slot, u \in withdrawn' \ trailing' : ~Trails(c, u)'
  BY <1>1, NobodyReturns DEF IInv
<1> QED BY <1>2, <1>3 DEF LeftInv

LEMMA LeftUntouched ==
  ASSUME IInv, NEW ops, CallStep(ops), ops \cap ProfileOps = {}, "idle" \notin ops,
         UNCHANGED <<withdrawn, trailing, member, scouted, answers, applicant, uploader, links>>
  PROVE  LeftInv'
<1>1. Spares(ProfileOps)
  BY StepSpares DEF ProfileOps
<1>2. \A u \in withdrawn \ trailing : LeftBy(u)' /\ \A c \in Slot : ~Locks(c, u)'
  BY <1>1, LocksStay DEF IInv, LeftInv, WithdrawnLeavesNothing, LeftBy
<1> QED BY <1>2, LeftAside

-----------------------------------------------------------------------------
(* Every step keeps the invariant.                                         *)

LEMMA SubjectsStay ==
  ASSUME IInv, NEW ops, CallStep(ops), "idle" \notin ops, UNCHANGED withdrawn
  PROVE  /\ ops \cap TeamOps = {} /\ UNCHANGED teamVars => TeamInv'
         /\ ops \cap {"move"} = {} /\ UNCHANGED challengeVars => ChallengeInv'
         /\ ops \cap EditingOps = {} /\ UNCHANGED applicationVars => ApplyInv'
         /\ ops \cap EditingOps = {} /\ UNCHANGED postingVars => PriceInv'
         /\ ops \cap CertOps = {} /\ UNCHANGED certificateVars => CertInv'
         /\ ops \cap {"enroll", "withdraw"} = {} /\ UNCHANGED businessVars => BusinessInv'
         /\ ops \cap ProfileOps = {} /\ UNCHANGED portfolioVars => ProfileInv'
         /\ ops \cap UploadOps = {} /\ UNCHANGED uploadVars => UploadInv'
         /\ ops \cap SignInOps = {} /\ UNCHANGED signInVars => SignInInv'
<1>1. ASSUME ops \cap TeamOps = {}, UNCHANGED teamVars PROVE TeamInv'
  BY <1>1, StepSpares, TeamStays DEF IInv, TeamOps
<1>2. ASSUME ops \cap {"move"} = {}, UNCHANGED challengeVars PROVE ChallengeInv'
  <2>1. Spares({"move"})
    BY <1>2, StepSpares
  <2>2. decrees' \in 0..MaxDecrees
    BY <1>2 DEF challengeVars, IInv, ChallengeInv, ChallengesTypeOK
  <2> QED BY <1>2, <2>1, <2>2, ChallengeStays DEF IInv, challengeVars
<1>3. ASSUME ops \cap EditingOps = {}, UNCHANGED applicationVars PROVE ApplyInv'
  <2>1. Spares(EditingOps)
    BY <1>3, StepSpares DEF EditingOps, ApplyOps
  <2>2. answers' \subseteq App
    BY <1>3 DEF applicationVars, IInv, ApplyInv, ApplicationsTypeOK
  <2> QED BY <1>3, <2>1, <2>2, ApplyStays DEF IInv, applicationVars
<1>4. ASSUME ops \cap EditingOps = {}, UNCHANGED postingVars PROVE PriceInv'
  <2>1. Spares(EditingOps)
    BY <1>4, StepSpares DEF EditingOps, ApplyOps
  <2> QED BY <1>4, <2>1, PriceStays DEF IInv, postingVars, applicationVars, challengeVars
<1>5. ASSUME ops \cap CertOps = {}, UNCHANGED certificateVars PROVE CertInv'
  <2>1. Spares(CertOps)
    BY <1>5, StepSpares DEF CertOps
  <2> QED BY <1>5, <2>1, CertStays DEF IInv, certificateVars
<1>6. ASSUME ops \cap {"enroll", "withdraw"} = {}, UNCHANGED businessVars PROVE BusinessInv'
  BY <1>6, StepSpares, BusinessStays DEF IInv
<1>7. ASSUME ops \cap ProfileOps = {}, UNCHANGED portfolioVars PROVE ProfileInv'
  BY <1>7, StepSpares, ProfileStays DEF IInv, ProfileOps
<1>8. ASSUME ops \cap UploadOps = {}, UNCHANGED uploadVars PROVE UploadInv'
  <2>1. Spares(UploadOps)
    BY <1>8, StepSpares DEF UploadOps
  <2>2. uploader' \in [File -> User \cup {NoUploader}] /\ \A f \in File : uploader'[f] \in {uploader[f], NoUploader}
    BY <1>8 DEF uploadVars, IInv, UploadInv, UploadsTypeOK
  <2> QED BY <1>8, <2>1, <2>2, UploadStays DEF IInv, uploadVars
<1>9. ASSUME ops \cap SignInOps = {}, UNCHANGED signInVars PROVE SignInInv'
  <2>1. Spares(SignInOps)
    BY <1>9, StepSpares DEF SignInOps
  <2> QED BY <1>9, <2>1, SignInStays DEF IInv
<1> QED BY <1>1, <1>2, <1>3, <1>4, <1>5, <1>6, <1>7, <1>8, <1>9

LEMMA CertificateStepKeeps ==
  ASSUME IInv, CertificateStep
  PROVE  IInv'
<1>1. CallStep(CertOps) /\ CertInv'
  BY CertKeeps DEF CertificateStep, IInv
<1>2. UNCHANGED accountVars
  BY DEF CertificateStep, CertificatesNext, VerifyCertificate, SubmitCertificate, JudgeCertificate, CommitVerdict, UpdateBadges
<1>3. UNCHANGED <<teamVars, postingVars, businessVars, portfolioVars, uploadVars, signInVars, communityVars>>
  BY DEF CertificateStep
<1>4. Aside(CertOps)
  <2>1. suspended' \subseteq User
    BY <1>2 DEF accountVars, IInv, CallInv, AccountsTypeOK
  <2> QED BY <1>1, <1>2, <1>3, <2>1 DEF Aside, accountVars, signInVars, teamVars, businessVars
<1>5. CallInv' /\ WithdrawInv' /\ AloneInv'
  BY <1>4, CallsAside, WithdrawAside, AloneAside DEF CertOps
<1>6. /\ TeamInv' /\ ChallengeInv' /\ ApplyInv' /\ PriceInv' /\ BusinessInv'
      /\ ProfileInv' /\ UploadInv' /\ SignInInv'
  <2>1. /\ CertOps \cap TeamOps = {} /\ CertOps \cap {"move"} = {} /\ CertOps \cap EditingOps = {}
        /\ CertOps \cap {"enroll", "withdraw"} = {} /\ CertOps \cap ProfileOps = {}
        /\ CertOps \cap UploadOps = {} /\ CertOps \cap SignInOps = {} /\ "idle" \notin CertOps
    BY DEF CertOps, TeamOps, EditingOps, ApplyOps, ProfileOps, UploadOps, SignInOps
  <2> QED BY <1>1, <1>2, <1>3, <2>1, SubjectsStay DEF accountVars, postingVars
<1>7. OrphanInv'
  <2>1. Spares({"create", "enroll", "decide"})
    BY <1>1, StepSpares DEF CertOps
  <2> QED BY <1>2, <1>3, <2>1, OrphansAside DEF IInv, accountVars, teamVars, businessVars, communityVars
<1>8. LeftInv'
  <2>1. CertOps \cap ProfileOps = {} /\ "idle" \notin CertOps
    BY DEF CertOps, ProfileOps
  <2> QED BY <1>1, <1>2, <1>3, <2>1, LeftUntouched
          DEF accountVars, teamVars, postingVars, applicationVars, uploadVars, portfolioVars, communityVars
<1> QED BY <1>1, <1>5, <1>6, <1>7, <1>8 DEF IInv

LEMMA BusinessStepKeeps ==
  ASSUME IInv, BusinessStep
  PROVE  IInv'
<1> DEFINE ops == {"enroll"}
<1>1. CallStep(ops) /\ BusinessInv'
  BY BusinessKeeps DEF BusinessStep, IInv
<1>2. UNCHANGED accountVars
  BY DEF BusinessStep, BusinessesNext, RegisterBusiness, InsertBusiness
<1>3. UNCHANGED <<teamVars, postingVars, certificateVars, portfolioVars, uploadVars, signInVars, communityVars>>
  BY DEF BusinessStep
<1>4. ops \cap {"withdraw", "idle", "create", "decide"} = {}
  OBVIOUS
<1>5. UNCHANGED holder \/ \E d \in Slot : call[d].op \in ops
  BY DEF BusinessStep, BusinessesNext, RegisterBusiness, InsertBusiness
<1>6. ops \cap ProfileOps = {}
  BY DEF ProfileOps
<1>7. Aside(ops)
  <2>1. suspended' \subseteq User
    BY <1>2 DEF accountVars, IInv, CallInv, AccountsTypeOK
  <2> HIDE DEF ops
  <2> QED BY <1>1, <1>2, <1>3, <1>5, <2>1 DEF Aside, accountVars, signInVars, teamVars
<1>8. CallInv' /\ WithdrawInv' /\ AloneInv'
  BY <1>4, <1>7, CallsAside, WithdrawAside, AloneAside
<1>9. /\ TeamInv' /\ ChallengeInv' /\ ApplyInv' /\ PriceInv' /\ CertInv'
      /\ ProfileInv' /\ UploadInv' /\ SignInInv'
  <2>1. /\ ops \cap TeamOps = {} /\ ops \cap {"move"} = {} /\ ops \cap EditingOps = {}
        /\ ops \cap CertOps = {} /\ ops \cap UploadOps = {} /\ ops \cap SignInOps = {}
    BY DEF CertOps, TeamOps, EditingOps, ApplyOps, UploadOps, SignInOps
  <2> HIDE DEF ops
  <2> QED BY <1>1, <1>2, <1>3, <1>4, <1>6, <2>1, SubjectsStay DEF accountVars, postingVars
<1>10. OrphanInv'
  <2>1. UNCHANGED <<leader, member, withdrawn, crowded>>
    BY <1>2, <1>3 DEF teamVars, accountVars, communityVars
  <2>2. CASE ~crowded
    <3>1. NothingOrphaned /\ \A c \in Slot : call[c].op \in {"create", "enroll"} => call[c].by \notin withdrawn
      BY <2>2 DEF IInv, OrphanInv
    <3>2. \A b \in Business : holder'[b] \notin withdrawn
      <4>1. ASSUME NEW c \in Slot, InsertBusiness(c) PROVE \A b \in Business : holder'[b] \notin withdrawn
        <5>1. CASE UNCHANGED holder
          BY <2>2, <3>1, <5>1 DEF NothingOrphaned
        <5>2. ASSUME NEW x \in Business, holder' = [holder EXCEPT ![x] = call[c].by]
              PROVE  \A b \in Business : holder'[b] \notin withdrawn
          BY <2>2, <3>1, <4>1, <5>2 DEF NothingOrphaned, InsertBusiness, IInv, BusinessInv, BusinessesTypeOK
        <5> QED BY <4>1, <5>1, <5>2 DEF InsertBusiness
      <4>2. ASSUME NEW c \in Slot, NEW u \in User, RegisterBusiness(c, u) PROVE UNCHANGED holder
        BY <4>2 DEF RegisterBusiness
      <4> QED BY <2>2, <3>1, <4>1, <4>2 DEF BusinessStep, BusinessesNext, NothingOrphaned
    <3>3. NothingOrphaned'
      BY <2>1, <2>2, <3>1, <3>2 DEF NothingOrphaned
    <3>4. \A d \in Slot : Doing(d, "decide")' => call'[d] = call[d] /\ call[d].op = "decide"
      BY <1>1 DEF CallStep, Doing
    <3>5. \A d \in Slot : call'[d].op \in {"create", "enroll"} => call'[d].by \notin withdrawn'
      <4>1. ASSUME NEW d \in Slot, call'[d].op \in {"create", "enroll"} PROVE call'[d].by \notin withdrawn'
        <5>1. call'[d] \in AnyCall
          BY <1>1 DEF CallStep
        <5>2. call'[d].by \in User /\ "by" \in DOMAIN call'[d]
          BY <4>1, <5>1, CallsOfUsers DEF Personal
        <5>3. PICK u \in User : u = call'[d].by
          BY <5>2
        <5>4. Trails(d, u)'
          BY <5>2, <5>3 DEF Trails
        <5>5. Trails(d, u) \/ Active(u)
          BY <1>1, <5>4 DEF CallStep
        <5>6. CASE Active(u)
          BY <2>1, <5>3, <5>6 DEF Active
        <5>7. CASE call'[d] = call[d]
          BY <2>1, <3>1, <4>1, <5>7
        <5>8. CASE call'[d] # call[d] /\ Trails(d, u)
          <6>1. call[d].op \in {"enroll", "idle"} /\ "by" \in DOMAIN call[d] /\ call[d].by = u
            BY <1>1, <5>8 DEF CallStep, Trails
          <6>2. "by" \notin DOMAIN Idle /\ call[d] \in AnyCall
            BY DEF Idle, IInv, CallInv
          <6>3. call[d].op = "enroll"
            BY <6>1, <6>2, CallsByOp
          <6> QED BY <2>1, <3>1, <5>3, <6>1, <6>3
        <5> QED BY <5>5, <5>6, <5>7, <5>8
      <4> QED BY <4>1
    <3>6. \A d \in Slot : Doing(d, "decide")' => call'[d].user # leader'[call'[d].team]
      BY <2>1, <2>2, <3>4 DEF OrphanInv, IInv, Doing
    <3> QED BY <3>3, <3>5, <3>6 DEF OrphanInv
  <2> QED BY <2>1, <2>2 DEF OrphanInv
<1>11. LeftInv'
  <2> HIDE DEF ops
  <2> QED BY <1>1, <1>2, <1>3, <1>4, <1>6, LeftUntouched
          DEF accountVars, teamVars, postingVars, applicationVars, uploadVars, portfolioVars, communityVars
<1> QED BY <1>1, <1>8, <1>9, <1>10, <1>11 DEF IInv

LEMMA SignInStepKeeps ==
  ASSUME IInv, SignInStep
  PROVE  IInv'
<1>1. CallStep(SignInOps) /\ SignInInv' /\ UNCHANGED accountVars
  BY SignInKeeps DEF SignInStep, IInv
<1>2. UNCHANGED <<teamVars, postingVars, certificateVars, businessVars, portfolioVars, uploadVars, communityVars>>
  BY DEF SignInStep
<1>3. accounts \subseteq accounts'
  BY DEF SignInStep, SignInNext, Register, InsertRegistered, CreateAccount, LoginWith, FindByEmail,
         Associate, InsertLinked, FindAgain, signInVars
<1>4. Aside(SignInOps)
  <2>1. suspended' \subseteq User
    BY <1>1 DEF accountVars, IInv, CallInv, AccountsTypeOK
  <2> QED BY <1>1, <1>2, <1>3, <2>1 DEF Aside, accountVars, teamVars, businessVars
<1>5. CallInv' /\ WithdrawInv' /\ AloneInv'
  BY <1>4, CallsAside, WithdrawAside, AloneAside DEF SignInOps
<1>6. /\ TeamInv' /\ ChallengeInv' /\ ApplyInv' /\ PriceInv' /\ CertInv' /\ BusinessInv'
      /\ ProfileInv' /\ UploadInv'
  <2>1. /\ SignInOps \cap TeamOps = {} /\ SignInOps \cap {"move"} = {} /\ SignInOps \cap EditingOps = {}
        /\ SignInOps \cap {"enroll", "withdraw"} = {} /\ SignInOps \cap ProfileOps = {}
        /\ SignInOps \cap UploadOps = {} /\ SignInOps \cap CertOps = {} /\ "idle" \notin SignInOps
    BY DEF CertOps, TeamOps, EditingOps, ApplyOps, ProfileOps, UploadOps, SignInOps
  <2> QED BY <1>1, <1>2, <2>1, SubjectsStay DEF accountVars, postingVars
<1>7. OrphanInv'
  <2>1. SignInOps \cap {"create", "enroll", "decide"} = {}
    BY DEF SignInOps
  <2>2. Spares({"create", "enroll", "decide"})
    BY <1>1, <2>1, StepSpares
  <2> QED BY <1>1, <1>2, <2>2, OrphansAside DEF IInv, accountVars, teamVars, businessVars, communityVars
<1>8. LeftInv'
  <2>1. SignInOps \cap ProfileOps = {} /\ "idle" \notin SignInOps
    BY DEF SignInOps, ProfileOps
  <2> QED BY <1>1, <1>2, <2>1, LeftUntouched
          DEF accountVars, teamVars, postingVars, applicationVars, uploadVars, portfolioVars, communityVars
<1> QED BY <1>1, <1>5, <1>6, <1>7, <1>8 DEF IInv

LEMMA UploadStepKeeps ==
  ASSUME IInv, UploadStep
  PROVE  IInv'
<1>1. CallStep(UploadOps) /\ UploadInv'
  BY UploadKeeps DEF UploadStep, IInv
<1>2. UNCHANGED accountVars
  BY DEF UploadStep, UploadsNext, PutObject, RequestUpload, HeadObject, GetObject, DiscardObject, RejectRow,
         CopyObject, MarkReady, TidyPending, FinalizeDies, FinalizeUpload
<1>3. UNCHANGED <<teamVars, postingVars, certificateVars, businessVars, portfolioVars, signInVars, communityVars>>
  BY DEF UploadStep
<1>4. Aside(UploadOps)
  <2>1. suspended' \subseteq User
    BY <1>2 DEF accountVars, IInv, CallInv, AccountsTypeOK
  <2> QED BY <1>1, <1>2, <1>3, <2>1 DEF Aside, accountVars, signInVars, teamVars, businessVars
<1>5. CallInv' /\ WithdrawInv' /\ AloneInv'
  BY <1>4, CallsAside, WithdrawAside, AloneAside DEF UploadOps
<1>6. /\ TeamInv' /\ ChallengeInv' /\ ApplyInv' /\ PriceInv' /\ CertInv' /\ BusinessInv'
      /\ ProfileInv' /\ SignInInv'
  <2>1. /\ UploadOps \cap TeamOps = {} /\ UploadOps \cap {"move"} = {} /\ UploadOps \cap EditingOps = {}
        /\ UploadOps \cap {"enroll", "withdraw"} = {} /\ UploadOps \cap ProfileOps = {}
        /\ UploadOps \cap CertOps = {} /\ UploadOps \cap SignInOps = {} /\ "idle" \notin UploadOps
    BY DEF CertOps, TeamOps, EditingOps, ApplyOps, ProfileOps, UploadOps, SignInOps
  <2> QED BY <1>1, <1>2, <1>3, <2>1, SubjectsStay DEF accountVars, postingVars
<1>7. OrphanInv'
  <2>1. Spares({"create", "enroll", "decide"})
    BY <1>1, StepSpares DEF UploadOps
  <2> QED BY <1>2, <1>3, <2>1, OrphansAside DEF IInv, accountVars, teamVars, businessVars, communityVars
<1>8. LeftInv'
  <2>1. UNCHANGED <<withdrawn, trailing, member, scouted, answers, applicant, links>>
    BY <1>2, <1>3 DEF accountVars, teamVars, postingVars, applicationVars, portfolioVars, communityVars
  <2>2. \A f \in File, u \in User : uploader'[f] = u => uploader[f] = u \/ Active(u)
    <3>1. ASSUME NEW v \in User, NEW f \in File, RequestUpload(v, f)
          PROVE  \A g \in File, u \in User : uploader'[g] = u => uploader[g] = u \/ Active(u)
      <4>1. Active(v) /\ uploader' = [uploader EXCEPT ![f] = v]
        BY <3>1 DEF RequestUpload, Serve
      <4>2. \A g \in File : uploader'[g] = IF g = f THEN v ELSE uploader[g]
        BY <4>1 DEF IInv, UploadInv, UploadsTypeOK
      <4> QED BY <4>1, <4>2
    <3>2. CASE UNCHANGED uploader
      BY <3>2
    <3>3. UNCHANGED uploader \/ \E v \in User, f \in File : RequestUpload(v, f)
      BY DEF UploadStep, UploadsNext, PutObject, HeadObject, GetObject, DiscardObject, RejectRow,
             CopyObject, MarkReady, TidyPending, FinalizeDies, FinalizeUpload, uploadVars
    <3> QED BY <3>1, <3>2, <3>3
  <2>3. \A f \in File, u \in withdrawn : uploader'[f] = u => uploader[f] = u
    BY <2>2 DEF Active, IInv, CallInv, AccountsTypeOK
  <2>4. Spares(ProfileOps)
    BY <1>1, StepSpares DEF UploadOps, ProfileOps
  <2>5. \A u \in withdrawn \ trailing : LeftBy(u)' /\ \A c \in Slot : ~Locks(c, u)'
    BY <2>1, <2>3, <2>4, LocksStay DEF IInv, LeftInv, WithdrawnLeavesNothing, LeftBy
  <2> QED BY <1>1, <2>1, <2>5, LeftAside
<1> QED BY <1>1, <1>5, <1>6, <1>7, <1>8 DEF IInv

LEMMA ProfileStepKeeps ==
  ASSUME IInv, ProfileStep
  PROVE  IInv'
<1>1. CallStep(ProfileOps) /\ ProfileInv'
  BY ProfileKeeps DEF ProfileStep, IInv
<1>2. UNCHANGED accountVars
  BY DEF ProfileStep, PortfolioNext, SaveProfile, ReadApproved, StoreLinks, ReviewPortfolioBadge, ReadPending, SettleBadge
<1>3. UNCHANGED <<teamVars, postingVars, certificateVars, businessVars, uploadVars, signInVars, communityVars>>
  BY DEF ProfileStep
<1>4. Aside(ProfileOps)
  <2>1. suspended' \subseteq User
    BY <1>2 DEF accountVars, IInv, CallInv, AccountsTypeOK
  <2> QED BY <1>1, <1>2, <1>3, <2>1 DEF Aside, accountVars, signInVars, teamVars, businessVars
<1>5. CallInv' /\ WithdrawInv' /\ AloneInv'
  BY <1>4, CallsAside, WithdrawAside, AloneAside DEF ProfileOps
<1>6. /\ TeamInv' /\ ChallengeInv' /\ ApplyInv' /\ PriceInv' /\ CertInv' /\ BusinessInv'
      /\ UploadInv' /\ SignInInv'
  <2>1. /\ ProfileOps \cap TeamOps = {} /\ ProfileOps \cap {"move"} = {} /\ ProfileOps \cap EditingOps = {}
        /\ ProfileOps \cap {"enroll", "withdraw"} = {} /\ ProfileOps \cap UploadOps = {}
        /\ ProfileOps \cap CertOps = {} /\ ProfileOps \cap SignInOps = {} /\ "idle" \notin ProfileOps
    BY DEF CertOps, TeamOps, EditingOps, ApplyOps, ProfileOps, UploadOps, SignInOps
  <2> QED BY <1>1, <1>2, <1>3, <2>1, SubjectsStay DEF accountVars, postingVars
<1>7. OrphanInv'
  <2>1. Spares({"create", "enroll", "decide"})
    BY <1>1, StepSpares DEF ProfileOps
  <2> QED BY <1>2, <1>3, <2>1, OrphansAside DEF IInv, accountVars, teamVars, businessVars, communityVars
<1> DEFINE Gone == withdrawn \ trailing
<1>8. ASSUME NEW u \in Gone
      PROVE  links'[u] = links[u] /\ \A c \in Slot : ~Locks(c, u)'
  <2> u \in User
    BY DEF IInv, CallInv, AccountsTypeOK
  <2>1. /\ links[u] = Blank /\ \A l \in Link : links[u][l] # "pending"
        /\ \A c \in Slot : ~Trails(c, u) /\ ~Locks(c, u)
    BY DEF IInv, LeftInv, WithdrawnLeavesNothing, Blank
  <2>2. \A c \in Slot : ~Trails(c, u)'
    BY <1>1, <2>1 DEF CallStep, Active
  <2>3. links'[u] = links[u]
    <3>1. ASSUME NEW c \in Slot, StoreLinks(c) PROVE links'[u] = links[u]
      <4>1. call[c].op = "store" /\ links' = [links EXCEPT ![call[c].by] = Saved(call[c].form, call[c].approved)]
        BY <3>1 DEF StoreLinks
      <4>2. call[c].by # u
        BY <2>1, <4>1 DEF Locks, Doing
      <4> QED BY <4>1, <4>2 DEF IInv, ProfileInv, PortfolioTypeOK
    <3>2. ASSUME NEW c \in Slot, SettleBadge(c) PROVE links'[u] = links[u]
      <4>1. PICK x : call[c].op = "settle" /\ links' = [links EXCEPT ![call[c].of] = x]
        BY <3>2 DEF SettleBadge
      <4>2. call[c].of # u
        BY <2>1, <4>1 DEF Locks, Doing
      <4> QED BY <4>1, <4>2 DEF IInv, ProfileInv, PortfolioTypeOK
    <3>3. (\E c \in Slot : StoreLinks(c) \/ SettleBadge(c)) \/ UNCHANGED links
      BY DEF ProfileStep, PortfolioNext, SaveProfile, ReadApproved, ReviewPortfolioBadge, ReadPending, portfolioVars
    <3> QED BY <3>1, <3>2, <3>3
  <2>4. ASSUME NEW c \in Slot, Locks(c, u)' PROVE FALSE
    <3>1. PICK r \in AnyCall : r = call'[c]
      BY <1>1 DEF CallStep
    <3>2. r.op # "store" \/ r.by # u
      BY <2>2, <3>1, CallsOfUsers DEF Trails, Personal
    <3>3. r.op = "settle" /\ r.of = u
      BY <2>4, <3>1, <3>2 DEF Locks, Doing
    <3>4. r.link \in Link
      BY <3>3, CallsByOp DEF ProfileOps, ProfileCall
    <3>5. r.read = links'[u] /\ r.read[r.link] = "pending"
      BY <1>1, <3>1, <3>3 DEF ProfileInv, Doing
    <3> QED BY <2>1, <2>3, <3>4, <3>5
  <2> QED BY <2>3, <2>4
<1>9. UNCHANGED <<withdrawn, trailing, member, scouted, answers, applicant, uploader>>
  BY <1>2, <1>3 DEF accountVars, teamVars, postingVars, applicationVars, uploadVars, communityVars
<1>10. \A u \in Gone : LeftBy(u)
  BY DEF IInv, LeftInv, WithdrawnLeavesNothing, LeftBy
<1>11. \A u \in withdrawn \ trailing : LeftBy(u)' /\ \A c \in Slot : ~Locks(c, u)'
  BY <1>8, <1>9, <1>10 DEF LeftBy
<1>12. LeftInv'
  BY <1>1, <1>9, <1>11, LeftAside
<1> QED BY <1>1, <1>5, <1>6, <1>7, <1>12 DEF IInv

\* What the steps of teams do to the rows, and to who leads.
LEMMA TeamMoves ==
  ASSUME CallInv, TeamInv, TeamsNext
  PROVE  /\ UNCHANGED accountVars
         /\ UNCHANGED teamVars \/ \E c \in Slot : call[c].op \in TeamOps /\ EndsAt(c)
         /\ \A t \in Team : leader[t] # Nobody => leader'[t] = leader[t]
         /\ \A t \in Team : leader[t] = Nobody /\ leader'[t] # Nobody =>
              \E c \in Slot : /\ Doing(c, "create") /\ call[c].by \in User /\ leader'[t] = call[c].by
                              /\ member'[t][call[c].by] = "accepted"
         /\ \A t \in Team, u \in User : member'[t][u] # member[t][u] =>
              \/ leader[t] = Nobody
              \/ member[t][u] = "none"
              \/ \E c \in Slot : Doing(c, "decide") /\ call[c].team = t /\ call[c].user = u
         /\ \A t \in Team : scouted[t] \subseteq scouted'[t]
         /\ \A t \in Team, u \in User : member[t][u] = "none" /\ member'[t][u] # "none" =>
              \/ u \in scouted'[t]
              \/ \E c \in Slot : call[c].op \in {"create", "join"} /\ call[c].by = u
<1> DEFINE Moves ==
         /\ \A t \in Team : leader[t] # Nobody => leader'[t] = leader[t]
         /\ \A t \in Team : leader[t] = Nobody /\ leader'[t] # Nobody =>
              \E c \in Slot : /\ Doing(c, "create") /\ call[c].by \in User /\ leader'[t] = call[c].by
                              /\ member'[t][call[c].by] = "accepted"
         /\ \A t \in Team, u \in User : member'[t][u] # member[t][u] =>
              \/ leader[t] = Nobody
              \/ member[t][u] = "none"
              \/ \E c \in Slot : Doing(c, "decide") /\ call[c].team = t /\ call[c].user = u
         /\ \A t \in Team : scouted[t] \subseteq scouted'[t]
         /\ \A t \in Team, u \in User : member[t][u] = "none" /\ member'[t][u] # "none" =>
              \/ u \in scouted'[t]
              \/ \E c \in Slot : call[c].op \in {"create", "join"} /\ call[c].by = u
<1>1. ASSUME UNCHANGED teamVars PROVE Moves
  BY <1>1 DEF teamVars
<1>2. ASSUME NEW c \in Slot, InsertTeam(c) PROVE Moves /\ call[c].op \in TeamOps /\ EndsAt(c)
  <2> PICK t \in Team, u \in User : t = call[c].team /\ u = call[c].by
    BY <1>2, TeamFields DEF InsertTeam
  <2>1. leader[t] = Nobody /\ Doing(c, "create") /\ call[c].op \in TeamOps /\ Return(c) /\ UNCHANGED scouted
    BY <1>2 DEF InsertTeam, TeamInv, Doing, TeamOps
  <2>2. /\ leader'[t] = u /\ \A s \in Team \ {t} : leader'[s] = leader[s]
        /\ member'[t][u] = "accepted"
        /\ \A s \in Team, v \in User : s # t \/ v # u => member'[s][v] = member[s][v]
    BY <1>2 DEF InsertTeam, TeamInv, TeamsTypeOK
  <2>3. EndsAt(c)
    BY <2>1, TeamReturns
  <2>4. Moves
    BY <2>1, <2>2 DEF Doing
  <2> QED BY <2>1, <2>3, <2>4
<1>3. ASSUME NEW c \in Slot, InsertApplicant(c) \/ InsertInvitation(c)
      PROVE  Moves /\ call[c].op \in TeamOps /\ EndsAt(c)
  <2>1. call[c].op \in TeamOps /\ Return(c) /\ UNCHANGED leader
    BY <1>3 DEF InsertApplicant, InsertInvitation, TeamOps
  <2>2. EndsAt(c)
    BY <2>1, TeamReturns
  <2>3. CASE InsertApplicant(c)
    <3> PICK t \in Team, u \in User : t = call[c].team /\ u = call[c].by
      BY <2>3, TeamFields DEF InsertApplicant
    <3>1. /\ \A s \in Team, v \in User : s # t \/ v # u => member'[s][v] = member[s][v]
          /\ member'[t][u] # member[t][u] => member[t][u] = "none"
          /\ call[c].op = "join" /\ UNCHANGED scouted
      BY <2>3 DEF InsertApplicant, TeamInv, TeamsTypeOK
    <3> QED BY <2>1, <2>2, <3>1
  <2>4. CASE InsertInvitation(c)
    <3> PICK t \in Team, u \in User : t = call[c].team /\ u = call[c].user
      BY <2>4, TeamFields DEF InsertInvitation
    <3>1. /\ \A s \in Team, v \in User : s # t \/ v # u => member'[s][v] = member[s][v]
          /\ member'[t][u] # member[t][u] => member[t][u] = "none" /\ u \in scouted'[t]
          /\ \A s \in Team : scouted[s] \subseteq scouted'[s]
      BY <2>4 DEF InsertInvitation, TeamInv, TeamsTypeOK
    <3> QED BY <2>1, <2>2, <3>1
  <2> QED BY <1>3, <2>3, <2>4
<1>4. ASSUME NEW c \in Slot, WriteMember(c) PROVE Moves /\ call[c].op \in TeamOps /\ EndsAt(c)
  <2> PICK t \in Team, u \in User : t = call[c].team /\ u = call[c].user
    BY <1>4, TeamFields DEF WriteMember
  <2>1. call[c].op \in TeamOps /\ Return(c) /\ UNCHANGED <<leader, scouted>> /\ Doing(c, "decide")
    BY <1>4 DEF WriteMember, TeamOps, Doing
  <2>2. EndsAt(c)
    BY <2>1, TeamReturns
  <2>3. /\ \A s \in Team, v \in User : s # t \/ v # u => member'[s][v] = member[s][v]
        /\ member'[t][u] # member[t][u] => member[t][u] # "none"
    BY <1>4, <2>1 DEF WriteMember, TeamInv, TeamsTypeOK
  <2>4. Moves
    BY <2>1, <2>3
  <2> QED BY <2>1, <2>2, <2>4
<1>5. ASSUME NEW c \in Slot, InsertTeam(c) \/ InsertApplicant(c) \/ InsertInvitation(c) \/ WriteMember(c)
      PROVE  UNCHANGED accountVars
  BY <1>5 DEF InsertTeam, InsertApplicant, InsertInvitation, WriteMember
<1>6. ASSUME NEW c \in Slot, NEW by \in User \cup {Staff}, NEW t \in Team, NEW u \in User,
             \/ CreateTeam(c, u, t) \/ Join(c, u, t) \/ Invite(c, by, t, u)
             \/ \E verdict \in Verdict : UpdateMember(c, by, t, u, verdict)
      PROVE  UNCHANGED <<accountVars, teamVars>>
  BY <1>6 DEF CreateTeam, Join, Invite, UpdateMember
<1>7. CASE \E c \in Slot : InsertTeam(c) \/ InsertApplicant(c) \/ InsertInvitation(c) \/ WriteMember(c)
  <2> PICK c \in Slot : InsertTeam(c) \/ InsertApplicant(c) \/ InsertInvitation(c) \/ WriteMember(c)
    BY <1>7
  <2>1. Moves /\ call[c].op \in TeamOps /\ EndsAt(c)
    BY <1>2, <1>3, <1>4
  <2> HIDE DEF Moves
  <2>2. UNCHANGED accountVars
    BY <1>5
  <2> USE DEF Moves
  <2> QED BY <2>1, <2>2
<1>8. CASE ~\E c \in Slot : InsertTeam(c) \/ InsertApplicant(c) \/ InsertInvitation(c) \/ WriteMember(c)
  <2>1. UNCHANGED <<accountVars, teamVars>>
    BY <1>6, <1>8 DEF TeamsNext
  <2>2. Moves
    BY <1>1, <2>1
  <2> QED BY <2>1, <2>2
<1> QED BY <1>7, <1>8

\* Calls of teams that begin are of users who have not withdrawn, and do not
\* decide about a leader.
LEMMA TeamBeginners ==
  ASSUME CallInv, TeamInv, TeamsNext, NEW d \in Slot, call'[d] # call[d], call'[d] # Idle
  PROVE  /\ UNCHANGED teamVars
         /\ call'[d].op = "create" => call'[d].by \notin withdrawn
         /\ call'[d].op = "decide" => call'[d].user # leader[call'[d].team]
<1>1. ~\E c \in Slot : InsertTeam(c) \/ InsertApplicant(c) \/ InsertInvitation(c) \/ WriteMember(c)
  BY TeamReturns DEF InsertTeam, InsertApplicant, InsertInvitation, WriteMember, EndsAt, TeamOps
<1>2. ASSUME NEW c \in Slot, NEW u \in User, NEW t \in Team, CreateTeam(c, u, t)
      PROVE  /\ UNCHANGED teamVars /\ call'[d].op = "create" /\ call'[d].by \notin withdrawn
  <2>1. Active(u) /\ d = c /\ call'[c] = [op |-> "create", by |-> u, team |-> t] /\ UNCHANGED teamVars
    BY <1>2 DEF CreateTeam, Begin, CallInv
  <2> QED BY <2>1 DEF Active
<1>3. ASSUME NEW c \in Slot, NEW by \in User \cup {Staff}, NEW t \in Team, NEW u \in User,
             \/ Join(c, u, t) \/ Invite(c, by, t, u)
             \/ \E verdict \in Verdict : UpdateMember(c, by, t, u, verdict)
      PROVE  /\ UNCHANGED teamVars /\ call'[d].op # "create"
             /\ call'[d].op = "decide" => call'[d].user # leader[call'[d].team]
  <2>1. /\ d = c /\ call'[c].op \in {"join", "invite", "decide"} /\ UNCHANGED teamVars
        /\ leader[t] # u
        /\ call'[c].op = "decide" => call'[c].user = u /\ call'[c].team = t
    BY <1>3 DEF Join, Invite, UpdateMember, Begin, CallInv
  <2> QED BY <2>1
<1> QED BY <1>1, <1>2, <1>3 DEF TeamsNext

LEMMA TeamStepKeeps ==
  ASSUME IInv, TeamStep
  PROVE  IInv'
<1>1. CallStep(TeamOps) /\ TeamInv' /\ TeamsNext
  BY TeamKeeps, TeamCalls DEF TeamStep, IInv, TeamInv
<1>2. UNCHANGED accountVars
  BY <1>1, TeamMoves DEF IInv
<1>3. UNCHANGED <<postingVars, certificateVars, businessVars, portfolioVars, uploadVars, signInVars, communityVars>>
  BY DEF TeamStep
<1>4. Aside(TeamOps)
  <2>1. suspended' \subseteq User
    BY <1>2 DEF accountVars, IInv, CallInv, AccountsTypeOK
  <2>2. \A t \in Team : leader[t] # Nobody => leader'[t] # Nobody
    BY <1>1, TeamMoves DEF IInv
  <2>3. UNCHANGED <<leader, member>> \/ \E d \in Slot : call[d].op \in TeamOps
    BY <1>1, TeamMoves DEF IInv, teamVars
  <2> QED BY <1>1, <1>2, <1>3, <2>1, <2>2, <2>3 DEF Aside, accountVars, signInVars, businessVars
<1>5. CallInv' /\ WithdrawInv' /\ AloneInv'
  BY <1>4, CallsAside, WithdrawAside, AloneAside DEF TeamOps
<1>6. /\ ChallengeInv' /\ ApplyInv' /\ PriceInv' /\ CertInv' /\ BusinessInv'
      /\ ProfileInv' /\ UploadInv' /\ SignInInv'
  <2>1. /\ TeamOps \cap UploadOps = {} /\ TeamOps \cap {"move"} = {} /\ TeamOps \cap EditingOps = {}
        /\ TeamOps \cap {"enroll", "withdraw"} = {} /\ TeamOps \cap ProfileOps = {}
        /\ TeamOps \cap CertOps = {} /\ TeamOps \cap SignInOps = {} /\ "idle" \notin TeamOps
    BY DEF CertOps, TeamOps, EditingOps, ApplyOps, ProfileOps, UploadOps, SignInOps
  <2> QED BY <1>1, <1>2, <1>3, <2>1, SubjectsStay DEF accountVars, postingVars
<1>7. OrphanInv'
  <2>1. UNCHANGED <<holder, withdrawn, crowded>>
    BY <1>2, <1>3 DEF businessVars, accountVars, communityVars
  <2>2. CASE ~crowded
    <3>1. /\ NothingOrphaned
          /\ \A c \in Slot : call[c].op \in {"create", "enroll"} => call[c].by \notin withdrawn
          /\ \A c \in Slot : Doing(c, "decide") => call[c].user # leader[call[c].team]
      BY <2>2 DEF IInv, OrphanInv
    <3>2. ASSUME NEW t \in Team, leader'[t] # Nobody
          PROVE  leader'[t] \notin withdrawn /\ member'[t][leader'[t]] = "accepted"
      <4>1. CASE leader[t] = Nobody
        BY <1>1, <3>1, <3>2, <4>1, TeamMoves DEF IInv, Doing
      <4>2. CASE leader[t] # Nobody
        <5>1. PICK u \in User : u = leader[t]
          BY <4>2 DEF IInv, TeamInv, TeamsTypeOK
        <5>2. leader'[t] = u /\ u \notin withdrawn /\ member[t][u] = "accepted"
          BY <1>1, <2>2, <3>1, <4>2, <5>1, TeamMoves DEF IInv, NothingOrphaned
        <5>3. ~\E c \in Slot : Doing(c, "decide") /\ call[c].team = t /\ call[c].user = u
          BY <3>1, <5>1
        <5>4. member'[t][u] = member[t][u]
          BY <1>1, <4>2, <5>2, <5>3, TeamMoves DEF IInv
        <5> QED BY <5>2, <5>4
      <4> QED BY <4>1, <4>2
    <3>3. NothingOrphaned'
      BY <2>1, <2>2, <3>1, <3>2 DEF NothingOrphaned
    <3>4. ASSUME NEW d \in Slot, call'[d] # Idle
          PROVE  /\ call'[d].op \in {"create", "enroll"} => call'[d].by \notin withdrawn
                 /\ Doing(d, "decide")' => call'[d].user # leader'[call'[d].team]
      <4>1. CASE call'[d] # call[d]
        <5>1. /\ UNCHANGED teamVars
              /\ call'[d].op = "create" => call'[d].by \notin withdrawn
              /\ call'[d].op = "decide" => call'[d].user # leader[call'[d].team]
          BY <1>1, <3>4, <4>1, TeamBeginners DEF IInv
        <5>2. call'[d].op # "enroll"
          BY <1>1, <4>1 DEF CallStep, TeamOps
        <5> QED BY <5>1, <5>2 DEF Doing, teamVars
      <4>2. CASE call'[d] = call[d]
        <5>1. Doing(d, "decide") => call[d].team \in Team /\ leader'[call[d].team] = leader[call[d].team]
          BY <1>1, TeamFields, TeamMoves DEF IInv, TeamInv, Doing
        <5> QED BY <3>1, <4>2, <5>1 DEF Doing
      <4> QED BY <4>1, <4>2
    <3>5. \A d \in Slot : call'[d] = Idle => call'[d].op \notin {"create", "enroll", "decide"}
      BY DEF Idle
    <3> QED BY <2>1, <3>3, <3>4, <3>5 DEF OrphanInv, Doing
  <2> QED BY <2>1, <2>2 DEF OrphanInv
<1>8. LeftInv'
  <2>1. UNCHANGED <<withdrawn, trailing, answers, applicant, uploader, links>>
    BY <1>2, <1>3 DEF accountVars, postingVars, applicationVars, portfolioVars, uploadVars, communityVars
  <2>2. TeamOps \cap ProfileOps = {} /\ "idle" \notin ProfileOps
    BY DEF TeamOps, ProfileOps
  <2>3. Spares(ProfileOps)
    BY <1>1, <2>2, StepSpares
  <2>4. ASSUME NEW u \in withdrawn \ trailing PROVE LeftBy(u)' /\ \A c \in Slot : ~Locks(c, u)'
    <3> u \in User
      BY DEF IInv, CallInv, AccountsTypeOK
    <3>1. LeftBy(u) /\ \A c \in Slot : ~Trails(c, u) /\ ~Locks(c, u)
      BY DEF IInv, LeftInv, WithdrawnLeavesNothing, LeftBy
    <3>2. \A c \in Slot : call[c].op \in {"create", "join"} => call[c].by # u
      BY <3>1, CallsOfUsers DEF Trails, Personal, IInv, CallInv
    <3>3. \A t \in Team : member'[t][u] # "none" => u \in scouted'[t]
      BY <1>1, <3>1, <3>2, TeamMoves DEF IInv, LeftBy
    <3> QED BY <2>1, <2>3, <3>1, <3>3, LocksStay DEF LeftBy
  <2> QED BY <1>1, <2>1, <2>4, LeftAside
<1> QED BY <1>1, <1>5, <1>6, <1>7, <1>8 DEF IInv

\* A step on the posting or on its applications, whose calls have the
\* operations ops, leaves all other subjects alone.
LEMMA PostingAside ==
  ASSUME IInv, NEW ops \in {{"move"}, EditingOps}, CallStep(ops), UNCHANGED accountVars,
         UNCHANGED <<teamVars, certificateVars, businessVars, portfolioVars, uploadVars, signInVars, communityVars>>,
         ChallengeInv', ApplyInv', PriceInv',
         \A a \in answers', u \in User : applicant'[a] = u =>
           \/ a \in answers /\ applicant[a] = u
           \/ \E c \in Slot : Trails(c, u)
  PROVE  IInv'
<1>1. /\ ops \cap TeamOps = {} /\ ops \cap UploadOps = {} /\ ops \cap ProfileOps = {} /\ ops \cap CertOps = {}
      /\ ops \cap SignInOps = {} /\ ops \cap {"enroll", "withdraw"} = {}
      /\ ops \cap {"create", "enroll", "decide"} = {} /\ "idle" \notin ops /\ "withdraw" \notin ops
  <2>1. CASE ops = {"move"}
    BY <2>1 DEF CertOps, TeamOps, ProfileOps, UploadOps, SignInOps
  <2>2. CASE ops = EditingOps
    BY <2>2 DEF CertOps, TeamOps, EditingOps, ApplyOps, ProfileOps, UploadOps, SignInOps
  <2> QED BY <2>1, <2>2
<1>2. Aside(ops)
  <2>1. suspended' \subseteq User
    BY DEF accountVars, IInv, CallInv, AccountsTypeOK
  <2> QED BY <2>1 DEF Aside, accountVars, teamVars, signInVars, businessVars
<1>3. CallInv' /\ WithdrawInv' /\ AloneInv'
  BY <1>1, <1>2, CallsAside, WithdrawAside, AloneAside
<1>4. TeamInv' /\ CertInv' /\ BusinessInv' /\ ProfileInv' /\ UploadInv' /\ SignInInv'
  BY <1>1, SubjectsStay DEF accountVars
<1>5. OrphanInv'
  <2>1. Spares({"create", "enroll", "decide"})
    BY <1>1, StepSpares
  <2> QED BY <2>1, OrphansAside DEF IInv, accountVars, teamVars, businessVars, communityVars
<1>6. LeftInv'
  <2>1. Spares(ProfileOps)
    BY <1>1, StepSpares DEF ProfileOps
  <2>2. ASSUME NEW u \in withdrawn \ trailing PROVE LeftBy(u)' /\ \A c \in Slot : ~Locks(c, u)'
    <3> u \in User
      BY DEF IInv, CallInv, AccountsTypeOK
    <3>1. LeftBy(u) /\ \A c \in Slot : ~Trails(c, u) /\ ~Locks(c, u)
      BY DEF IInv, LeftInv, WithdrawnLeavesNothing, LeftBy
    <3>2. \A a \in answers' : applicant'[a] # u
      BY <3>1 DEF LeftBy
    <3> QED BY <2>1, <3>1, <3>2, LocksStay DEF LeftBy, teamVars, uploadVars, portfolioVars
  <2> QED BY <2>2, LeftAside DEF accountVars, communityVars
<1> QED BY <1>3, <1>4, <1>5, <1>6 DEF IInv

LEMMA AnswersWritten ==
  ASSUME CallInv, ApplyInv, ApplicationsNext
  PROVE  \A a \in answers', u \in User : applicant'[a] = u =>
           \/ a \in answers /\ applicant[a] = u
           \/ \E c \in Slot : Trails(c, u)
<1>1. ASSUME NEW c \in Slot, call[c].op \in EditingOps
      PROVE  call[c].by \in User /\ Trails(c, call[c].by)
  BY <1>1, CallsOfUsers, ApplyFields DEF Trails, Personal, CallInv, EditingOps
<1>2. ASSUME NEW c \in Slot, InsertApplication(c)
      PROVE  \A a \in answers', u \in User : applicant'[a] = u =>
               (a \in answers /\ applicant[a] = u) \/ \E d \in Slot : Trails(d, u)
  <2>1. PICK b \in App : /\ applicant' = [applicant EXCEPT ![b] = call[c].by]
                         /\ answers' = answers \cup {b} /\ call[c].op = "apply"
    BY <1>2 DEF InsertApplication
  <2>2. Trails(c, call[c].by)
    BY <1>1, <2>1 DEF EditingOps, ApplyOps
  <2>3. \A a \in App : applicant'[a] = IF a = b THEN call[c].by ELSE applicant[a]
    BY <2>1 DEF ApplyInv, ApplicationsTypeOK
  <2>4. answers \subseteq App
    BY DEF ApplyInv, ApplicationsTypeOK
  <2> QED BY <2>1, <2>2, <2>3, <2>4
<1>3. ASSUME NEW c \in Slot, WriteAnswers(c)
      PROVE  \A a \in answers', u \in User : applicant'[a] = u =>
               (a \in answers /\ applicant[a] = u) \/ \E d \in Slot : Trails(d, u)
  <2>1. answers' = answers \cup {call[c].app} /\ call[c].op = "edit" /\ UNCHANGED applicant
    BY <1>3 DEF WriteAnswers
  <2>2. applicant[call[c].app] = call[c].by
    BY <2>1 DEF ApplyInv
  <2>3. Trails(c, call[c].by)
    BY <1>1, <2>1 DEF EditingOps, ApplyOps
  <2> QED BY <2>1, <2>2, <2>3
<1>4. \/ UNCHANGED <<answers, applicant>>
      \/ \E c \in Slot : InsertApplication(c) \/ WriteAnswers(c)
  BY DEF ApplicationsNext, FindOrder, InsertOrder, Apply, EditApplication, ReviewApplication, SettleOrderPaid,
         CancelOrder, SetOrder, applicationVars
<1> QED BY <1>2, <1>3, <1>4

LEMMA ChallengeStepKeeps ==
  ASSUME IInv, ChallengeStep
  PROVE  IInv'
<1>1. UNCHANGED <<teamVars, certificateVars, businessVars, portfolioVars, uploadVars, signInVars, communityVars>>
  BY DEF ChallengeStep
<1>2. CASE ChallengesNext /\ UNCHANGED applicationVars
  <2>1. CallStep({"move"}) /\ ChallengeInv' /\ UNCHANGED accountVars
    BY <1>2, ChallengeKeeps DEF IInv
  <2>2. {"move"} \cap EditingOps = {} /\ "idle" \notin {"move"} /\ "idle" \notin EditingOps
    BY DEF EditingOps, ApplyOps
  <2>3. ApplyInv'
    BY <1>2, <2>1, <2>2, SubjectsStay DEF accountVars
  <2>4. Spares(EditingOps)
    BY <2>1, <2>2, StepSpares
  <2>5. PriceInv'
    BY <1>2, <2>4, PriceOfPosting, PriceStays DEF IInv, applicationVars
  <2> QED BY <1>1, <1>2, <2>1, <2>3, <2>5, PostingAside DEF applicationVars
<1>3. CASE ApplicationsNext
  <2>1. ApplicationsTypeOK /\ priced \in BOOLEAN
    BY DEF IInv, ApplyInv, ChallengeInv, ChallengesTypeOK
  <2>2. CallStep(EditingOps) /\ ApplyInv' /\ PriceInv'
    BY <1>3, <2>1, ApplyCalls, ApplyKeeps, PriceKeeps DEF IInv
  <2>3. UNCHANGED accountVars
    BY <1>3 DEF ApplicationsNext, InsertApplication, FindOrder, InsertOrder, WriteAnswers, Apply, EditApplication,
                ReviewApplication, SettleOrderPaid, CancelOrder, SetOrder
  <2>4. UNCHANGED <<posting, visible, priced, autoPublish, repriced>> /\ decrees' \in 0..MaxDecrees
    <3>1. ASSUME NEW a \in App, ReviewApplication(a)
          PROVE  UNCHANGED <<posting, visible, priced, autoPublish, repriced>> /\ decrees' \in 0..MaxDecrees
      BY <3>1, ChallengesAssumption DEF ReviewApplication, Decree, IInv, ChallengeInv, ChallengesTypeOK
    <3>2. UNCHANGED challengeVars \/ \E a \in App : ReviewApplication(a)
      BY <1>3 DEF ApplicationsNext, InsertApplication, FindOrder, InsertOrder, WriteAnswers, Apply, EditApplication,
                  SettleOrderPaid, CancelOrder, SetOrder
    <3>3. CASE UNCHANGED challengeVars
      BY <3>3 DEF challengeVars, IInv, ChallengeInv, ChallengesTypeOK
    <3> QED BY <3>1, <3>2, <3>3
  <2>5. Spares({"move"})
    BY <2>2, StepSpares DEF EditingOps, ApplyOps
  <2>6. ChallengeInv'
    BY <2>4, <2>5, ChallengeStays DEF IInv
  <2> QED BY <1>1, <1>3, <2>2, <2>3, <2>6, AnswersWritten, PostingAside DEF IInv
<1> QED BY <1>2, <1>3 DEF ChallengeStep

\* Neither calls in flight nor subjects move.
LEMMA NothingMoves ==
  ASSUME IInv, CallStep({}), UNCHANGED <<call, withdrawn>>, suspended' \subseteq User,
         UNCHANGED <<teamVars, postingVars, certificateVars, businessVars, portfolioVars, uploadVars,
                     signInVars, communityVars>>
  PROVE  IInv'
<1>1. Aside({})
  BY DEF Aside, teamVars, businessVars, signInVars
<1>2. CallInv' /\ WithdrawInv' /\ AloneInv'
  BY <1>1, CallsAside, WithdrawAside, AloneAside
<1>3. /\ TeamInv' /\ ChallengeInv' /\ ApplyInv' /\ PriceInv' /\ CertInv' /\ BusinessInv'
      /\ ProfileInv' /\ UploadInv' /\ SignInInv'
  BY SubjectsStay DEF postingVars
<1>4. OrphanInv'
  <2>1. Spares({"create", "enroll", "decide"})
    BY StepSpares
  <2> QED BY <2>1, OrphansAside DEF IInv, teamVars, businessVars, communityVars
<1>5. LeftInv'
  BY LeftUntouched DEF teamVars, postingVars, applicationVars, uploadVars, portfolioVars, communityVars
<1> QED BY <1>2, <1>3, <1>4, <1>5 DEF IInv

LEMMA SuspensionKeeps ==
  ASSUME IInv, NEW u \in accounts, NEW on \in BOOLEAN, SuspendUser(u, on),
         UNCHANGED <<teamVars, postingVars, certificateVars, businessVars, portfolioVars, uploadVars,
                     signInVars, communityVars>>
  PROVE  IInv'
<1>1. UNCHANGED <<call, withdrawn>> /\ Serve(Staff) /\ suspended' \subseteq User
  BY DEF SuspendUser, IInv, CallInv, AccountsTypeOK, SignInInv, SignInTypeOK
<1>2. CallStep({})
  BY <1>1, Rested DEF IInv
<1> QED BY <1>1, <1>2, NothingMoves

LEMMA WithdrawKeeps ==
  ASSUME IInv, NEW c \in Slot, NEW u \in User, NEW heir \in User, Withdraw(c, u, heir)
  PROVE  IInv'
<1> DEFINE ops == {"withdraw"}
<1>1. CallStep(ops) /\ calls' = calls + 1 /\ Active(u)
  BY WithdrawBegun DEF IInv
<1>2. /\ call[c] = Idle /\ \A d \in Slot \ {c} : call'[d] = call[d]
      /\ call'[c].op = "withdraw" /\ call'[c].by = u /\ call'[c].heir = heir
      /\ call'[c].leads = Led(u) /\ call'[c].owns = Owned(u)
      /\ call'[c].since = IF OthersIdle(c) THEN calls + 1 ELSE 0
  BY WithdrawRecord DEF IInv
<1>3. UNCHANGED <<accountVars, teamVars, postingVars, certificateVars, holder, partner, portfolioVars,
                  uploadVars, signInVars, communityVars>>
  BY DEF Withdraw
<1>4. BusinessInv' /\ AtMostOne(call'[c].owns)
  BY BusinessPromised DEF IInv
<1>5. CallInv'
  BY <1>1, <1>3 DEF IInv, CallInv, AccountsTypeOK, CallStep, accountVars, communityVars
<1>6. calls \in Nat
  BY RequestsAssumption DEF IInv, CallInv, AccountsTypeOK
<1>7. WithdrawInv'
  <2>1. u \in accounts
    BY DEF Withdraw, IInv, SignInInv, SignInTypeOK
  <2>2. \A t \in Led(u) : leader[t] # Nobody
    BY TeamsAssumption DEF Led
  <2>3. ASSUME NEW d \in Slot, Doing(d, "withdraw")'
        PROVE  /\ call'[d].since <= calls' /\ calls' > 0
               /\ call'[d].by \in accounts'
               /\ \A t \in call'[d].leads : leader'[t] # Nobody
               /\ AtMostOne(call'[d].owns)
    <3>1. CASE d = c
      BY <1>1, <1>2, <1>3, <1>4, <1>6, <2>1, <2>2, <3>1 DEF signInVars, teamVars
    <3>2. CASE d # c
      <4>1. call'[d] = call[d] /\ Doing(d, "withdraw")
        BY <1>2, <2>3, <3>2 DEF Doing
      <4>2. call[d].since \in Nat
        BY <4>1, WithdrawFields, RequestsAssumption DEF IInv, Doing
      <4>3. /\ call[d].since <= calls /\ call[d].by \in accounts
            /\ \A t \in call[d].leads : leader[t] # Nobody
            /\ AtMostOne(call[d].owns)
        BY <4>1 DEF IInv, WithdrawInv
      <4>4. call[d].since <= calls' /\ calls' > 0
        BY <1>1, <1>6, <4>2, <4>3
      <4> QED BY <1>3, <4>1, <4>3, <4>4 DEF signInVars, teamVars
    <3> QED BY <3>1, <3>2
  <2> QED BY <2>3 DEF WithdrawInv, AtMostOne
<1>8. AloneInv'
  <2>1. Led(u)' = Led(u) /\ Owned(u)' = Owned(u) /\ UNCHANGED <<member, withdrawn>>
    BY <1>3 DEF Led, Owned, teamVars, accountVars
  <2>2. ASSUME NEW d \in Slot \ {c} PROVE ~Alone(d)'
    <3>1. SUFFICES ASSUME Alone(d)' PROVE FALSE
      OBVIOUS
    <3>2. call'[d] = call[d] /\ Doing(d, "withdraw") /\ call[d].since = calls'
      BY <1>2, <3>1 DEF Alone, Doing
    <3>3. call[d].since <= calls
      BY <3>2 DEF IInv, WithdrawInv
    <3> QED BY <1>1, <1>6, <3>2, <3>3
  <2>3. ASSUME Alone(c)'
        PROVE  /\ \A d \in Slot \ {c} : call'[d] = Idle
               /\ Led(u) # {} \/ Owned(u) # {} => heir # u /\ heir \notin withdrawn
               /\ \A t \in Led(u) : member[t][heir] = "accepted"
    <3>1. call'[c].since = calls + 1
      BY <1>1, <2>3 DEF Alone
    <3>2. OthersIdle(c)
      BY <1>2, <1>6, <3>1
    <3>3. \A d \in Slot \ {c} : call'[d] = Idle
      BY <1>2, <3>2 DEF OthersIdle
    <3>4. /\ Led(u) # {} \/ Owned(u) # {} => heir # u /\ heir \notin withdrawn
          /\ \A t \in Led(u) : member[t][heir] = "accepted"
      BY DEF Withdraw, MayInherit, NamesNobody, Active
    <3> QED BY <3>3, <3>4
  <2>4. ASSUME NEW d \in Slot, Alone(d)'
        PROVE  /\ \A e \in Slot \ {d} : call'[e] = Idle
               /\ call'[d].leads = Led(u)' /\ call'[d].owns = Owned(u)' /\ call'[d].by = u
               /\ Led(u)' # {} \/ Owned(u)' # {} => call'[d].heir # u /\ call'[d].heir \notin withdrawn'
               /\ \A t \in Led(u)' : member'[t][call'[d].heir] = "accepted"
    BY <1>2, <2>1, <2>2, <2>3, <2>4
  <2> QED BY <2>4 DEF AloneInv, Led, Owned
<1>9. /\ TeamInv' /\ ChallengeInv' /\ ApplyInv' /\ PriceInv' /\ CertInv'
      /\ ProfileInv' /\ UploadInv' /\ SignInInv'
  <2>1. /\ ops \cap TeamOps = {} /\ ops \cap {"move"} = {} /\ ops \cap EditingOps = {}
        /\ ops \cap CertOps = {} /\ ops \cap UploadOps = {} /\ ops \cap SignInOps = {}
        /\ ops \cap ProfileOps = {} /\ "idle" \notin ops
    BY DEF CertOps, TeamOps, EditingOps, ApplyOps, UploadOps, SignInOps, ProfileOps
  <2> HIDE DEF ops
  <2> QED BY <1>1, <1>3, <2>1, SubjectsStay DEF accountVars, postingVars
<1>10. OrphanInv'
  <2>1. Spares({"create", "enroll", "decide"})
    BY <1>1, StepSpares
  <2> QED BY <1>3, <2>1, OrphansAside DEF IInv, accountVars, teamVars, communityVars
<1>11. LeftInv'
  <2>1. ops \cap ProfileOps = {} /\ "idle" \notin ops
    BY DEF ProfileOps
  <2> HIDE DEF ops
  <2> QED BY <1>1, <1>3, <2>1, LeftUntouched
          DEF accountVars, teamVars, postingVars, applicationVars, uploadVars, portfolioVars, communityVars
<1> QED BY <1>4, <1>5, <1>7, <1>8, <1>9, <1>10, <1>11 DEF IInv

\* Nobody is left leading or owning what a withdrawal hands over, if nothing
\* ran beside it.
LEMMA HandedOver ==
  ASSUME IInv, NEW c \in Slot, CommitWithdrawal(c)
  PROVE  OrphanInv'
<1> PICK u \in User, heir \in User : u = call[c].by /\ heir = call[c].heir
  BY WithdrawFields DEF CommitWithdrawal, IInv
<1> PICK leads \in SUBSET Team, owns \in SUBSET Business : leads = call[c].leads /\ owns = call[c].owns
  BY WithdrawFields DEF CommitWithdrawal, IInv
<1>1. /\ leader' = [t \in Team |-> IF t \in leads THEN heir ELSE leader[t]]
      /\ holder' = [b \in Business |-> IF b \in owns THEN heir ELSE holder[b]]
      /\ member' = [t \in Team |-> [member[t] EXCEPT ![u] = "none"]]
      /\ withdrawn' = withdrawn \cup {u}
      /\ crowded' = (crowded \/ call[c].since # calls)
      /\ call[c].op = "withdraw"
  BY DEF CommitWithdrawal
<1>2. CASE crowded'
  BY <1>2 DEF OrphanInv
<1>3. CASE ~crowded'
  <2>1. ~crowded /\ Alone(c)
    BY <1>1, <1>3 DEF Alone, Doing
  <2>2. /\ \A d \in Slot \ {c} : call[d] = Idle
        /\ leads = Led(u) /\ owns = Owned(u)
        /\ Led(u) # {} \/ Owned(u) # {} => heir # u /\ heir \notin withdrawn
        /\ \A t \in Led(u) : member[t][heir] = "accepted"
    BY <2>1 DEF IInv, AloneInv
  <2>3. /\ \A b \in Business : holder[b] \notin withdrawn
        /\ \A t \in Team : leader[t] # Nobody => leader[t] \notin withdrawn /\ member[t][leader[t]] = "accepted"
    BY <2>1 DEF IInv, OrphanInv, NothingOrphaned
  <2>4. ASSUME NEW b \in Business PROVE holder'[b] \notin withdrawn'
    <3>1. CASE b \in owns
      BY <1>1, <2>2, <3>1
    <3>2. CASE b \notin owns
      BY <1>1, <2>2, <2>3, <3>2 DEF Owned
    <3> QED BY <3>1, <3>2
  <2>5. ASSUME NEW t \in Team, leader'[t] # Nobody
        PROVE  leader'[t] \notin withdrawn' /\ member'[t][leader'[t]] = "accepted"
    <3>1. member[t] \in [User -> Status \cup {"none"}]
      BY DEF IInv, TeamInv, TeamsTypeOK
    <3>2. \A v \in User : v # u => member'[t][v] = member[t][v]
      BY <1>1, <3>1
    <3>3. CASE t \in leads
      BY <1>1, <2>2, <3>2, <3>3
    <3>4. CASE t \notin leads
      <4>1. leader'[t] = leader[t] /\ leader[t] \in User /\ leader[t] # u
        BY <1>1, <2>2, <2>5, <3>4 DEF Led, IInv, TeamInv, TeamsTypeOK
      <4> QED BY <1>1, <2>3, <2>5, <3>2, <4>1
    <3> QED BY <3>3, <3>4
  <2>6. NothingOrphaned'
    BY <2>4, <2>5 DEF NothingOrphaned
  <2>7. \A d \in Slot : call'[d].op \notin {"create", "enroll", "decide"}
    <3>1. call'[c] = Idle /\ \A d \in Slot \ {c} : call'[d].op = call[d].op
      BY CommitCalls DEF IInv
    <3> QED BY <2>2, <3>1 DEF Idle
  <2> QED BY <2>6, <2>7 DEF OrphanInv, Doing
<1> QED BY <1>2, <1>3

\* The account that withdraws leaves nothing, and nobody else returns.
LEMMA NothingLeft ==
  ASSUME IInv, NEW c \in Slot, CommitWithdrawal(c)
  PROVE  LeftInv'
<1> PICK u \in User : u = call[c].by
  BY WithdrawFields DEF CommitWithdrawal, IInv
<1>1. /\ member' = [t \in Team |-> [member[t] EXCEPT ![u] = "none"]]
      /\ scouted' = [t \in Team |-> scouted[t] \ {u}]
      /\ answers' = answers \ Of(u)
      /\ uploader' = [f \in File |-> IF uploader[f] = u THEN NoUploader ELSE uploader[f]]
      /\ links' = [links EXCEPT ![u] = Blank]
      /\ RowFree(u) /\ withdrawn' = withdrawn \cup {u} /\ UNCHANGED applicant
  BY DEF CommitWithdrawal, Anonymized, ForgetUploads, ForgetLinks
<1>2. trailing' = IF \E d \in Slot \ {c} : Trails(d, u) THEN trailing \cup {u} ELSE trailing
  BY DEF CommitWithdrawal
<1>3. \A d \in Slot, v \in User : /\ Trails(d, v)' => d # c /\ Trails(d, v)
                                  /\ Locks(d, v)' => Locks(d, v)
  <2>1. call'[c] = Idle /\ \A d \in Slot \ {c} : call'[d].op = call[d].op /\ (call[d].op # "decide" => call'[d] = call[d])
    BY CommitCalls DEF IInv
  <2>2. \A d \in Slot : call'[d] \in AnyCall
    BY CommitCalls DEF IInv
  <2>3. \A d \in Slot, v \in User : Trails(d, v)' => d # c /\ Trails(d, v)
    <3>1. ASSUME NEW d \in Slot, NEW v \in User, Trails(d, v)' PROVE d # c /\ Trails(d, v)
      <4>1. "by" \in DOMAIN call'[d] /\ call'[d].by = v
        BY <3>1 DEF Trails
      <4>2. call'[d].op \in Personal
        BY <2>2, <4>1, CallsOfUsers
      <4>3. d # c
        BY <2>1, <4>2 DEF Personal, ApplyOps, Idle
      <4>4. call'[d] = call[d]
        BY <2>1, <4>2, <4>3 DEF Personal, ApplyOps
      <4> QED BY <4>1, <4>3, <4>4 DEF Trails
    <3> QED BY <3>1
  <2>4. \A d \in Slot, v \in User : Locks(d, v)' => Locks(d, v)
    BY <2>1 DEF Locks, Doing, Idle
  <2> QED BY <2>3, <2>4
<1>4. ASSUME NEW v \in withdrawn' \ trailing'
      PROVE  LeftBy(v)' /\ \A d \in Slot : ~Trails(d, v)' /\ ~Locks(d, v)'
  <2> v \in User
    BY <1>1 DEF IInv, CallInv, AccountsTypeOK
  <2>1. CASE v = u
    <3>1. \A d \in Slot \ {c} : ~Trails(d, u)
      BY <1>2, <1>4, <2>1
    <3>2. \A d \in Slot : ~Trails(d, u)' /\ ~Locks(d, u)'
      BY <1>1, <1>3, <3>1, RowsFree
    <3>3. \A t \in Team : member'[t][u] = "none"
      BY <1>1 DEF IInv, TeamInv, TeamsTypeOK
    <3>4. /\ \A a \in answers' : applicant'[a] # u
          /\ \A f \in File : uploader'[f] # u
          /\ links'[u] = Blank
      BY <1>1, UploadsAssumption
         DEF Of, IInv, ApplyInv, ApplicationsTypeOK, ProfileInv, PortfolioTypeOK
    <3> QED BY <2>1, <3>2, <3>3, <3>4 DEF LeftBy, Blank
  <2>2. CASE v # u
    <3>1. v \in withdrawn \ trailing
      BY <1>1, <1>2, <1>4, <2>2
    <3>2. LeftBy(v) /\ \A d \in Slot : ~Trails(d, v) /\ ~Locks(d, v)
      BY <3>1 DEF IInv, LeftInv, WithdrawnLeavesNothing, LeftBy
    <3>3. \A t \in Team : member'[t][v] = member[t][v] /\ scouted'[t] = scouted[t] \ {u}
      BY <1>1, <2>2 DEF IInv, TeamInv, TeamsTypeOK
    <3>4. /\ \A a \in answers' : applicant'[a] # v
          /\ \A f \in File : uploader'[f] # v
          /\ links'[v] = Blank
      BY <1>1, <2>2, <3>2, UploadsAssumption DEF LeftBy, IInv, ProfileInv, PortfolioTypeOK
    <3>5. \A t \in Team : member'[t][v] # "none" => v \in scouted'[t]
      BY <2>2, <3>2, <3>3 DEF LeftBy
    <3> QED BY <1>3, <3>2, <3>4, <3>5 DEF LeftBy, Blank
  <2> QED BY <2>1, <2>2
<1>5. WithdrawnLeavesNothing'
  BY <1>4 DEF WithdrawnLeavesNothing, LeftBy
<1> QED BY <1>4, <1>5 DEF LeftInv

LEMMA CommitKeeps ==
  ASSUME IInv, NEW c \in Slot, CommitWithdrawal(c)
  PROVE  IInv'
<1> PICK u \in User, heir \in User, leads \in SUBSET Team :
      u = call[c].by /\ heir = call[c].heir /\ leads = call[c].leads
  BY WithdrawFields DEF CommitWithdrawal, IInv
<1>1. /\ call[c].op = "withdraw" /\ withdrawn' = withdrawn \cup {u} /\ crowded' \in BOOLEAN
      /\ trailing' \in {trailing, trailing \cup {u}}
      /\ badge' = badge \ {u} /\ blurred' = blurred \cup {u}
      /\ answers' = answers \ Of(u)
      /\ leader' = [t \in Team |-> IF t \in leads THEN heir ELSE leader[t]]
      /\ UNCHANGED <<calls, suspended, challengeVars, applicant, locked, orders, twice, owner, proof, topic>>
  BY DEF CommitWithdrawal, Anonymized, IInv, CallInv
<1>2. UNCHANGED accounts
  BY DEF CommitWithdrawal, ForgetSignIn
<1>3. /\ call'[c] = Idle /\ call' \in [Slot -> AnyCall] /\ calls' = calls
      /\ \A d \in Slot \ {c} : call'[d].op = call[d].op /\ (call[d].op # "decide" => call'[d] = call[d])
  BY CommitCalls DEF IInv
<1>4. CallInv'
  BY <1>1, <1>3 DEF IInv, CallInv, AccountsTypeOK
<1>5. \A d \in Slot : Doing(d, "withdraw")' => d # c /\ call'[d] = call[d] /\ Doing(d, "withdraw")
  BY <1>3 DEF Doing, Idle
<1>6. WithdrawInv'
  <2>1. \A t \in Team : leader[t] # Nobody => leader'[t] # Nobody
    BY <1>1, TeamsAssumption
  <2>2. ASSUME NEW d \in Slot, Doing(d, "withdraw")'
        PROVE  /\ call'[d].since <= calls' /\ calls' > 0
               /\ call'[d].by \in accounts'
               /\ \A t \in call'[d].leads : leader'[t] # Nobody
               /\ AtMostOne(call'[d].owns)
    <3>1. call'[d] = call[d] /\ Doing(d, "withdraw")
      BY <1>5, <2>2
    <3>2. call[d].leads \in SUBSET Team
      BY <3>1, WithdrawFields DEF IInv, Doing
    <3>3. /\ call[d].since <= calls /\ calls > 0 /\ call[d].by \in accounts
          /\ \A t \in call[d].leads : leader[t] # Nobody
          /\ AtMostOne(call[d].owns)
      BY <3>1 DEF IInv, WithdrawInv
    <3> QED BY <1>2, <1>3, <2>1, <3>1, <3>2, <3>3
  <2> QED BY <2>2 DEF WithdrawInv, AtMostOne
<1>7. AloneInv'
  <2>1. ASSUME NEW d \in Slot, Alone(d)' PROVE FALSE
    <3>1. d # c /\ Alone(d)
      BY <1>3, <1>5, <2>1 DEF Alone
    <3>2. call[c] = Idle
      BY <3>1 DEF IInv, AloneInv
    <3> QED BY <1>1, <3>2 DEF Idle
  <2> QED BY <2>1 DEF AloneInv
<1>8. Spares({"move"}) /\ Spares(EditingOps) /\ Spares(CertOps)
  <2>1. /\ "decide" \notin {"move"} /\ "withdraw" \notin {"move"} /\ "idle" \notin {"move"}
        /\ "decide" \notin EditingOps /\ "withdraw" \notin EditingOps /\ "idle" \notin EditingOps
        /\ "decide" \notin CertOps /\ "withdraw" \notin CertOps /\ "idle" \notin CertOps
    BY DEF EditingOps, ApplyOps, CertOps
  <2> QED BY <2>1, CommitSpares DEF IInv
<1>9. ChallengeInv'
  BY <1>1, <1>8, ChallengeStays DEF IInv, challengeVars, ChallengeInv, ChallengesTypeOK
<1>10. ApplyInv'
  <2>1. answers' \subseteq App
    BY <1>1 DEF IInv, ApplyInv, ApplicationsTypeOK
  <2> QED BY <1>1, <1>8, <2>1, ApplyStays DEF IInv
<1>11. PriceInv'
  BY <1>1, <1>8, PriceStays DEF IInv, challengeVars
<1>12. CertInv'
  BY <1>1, <1>8, CertStays DEF IInv
<1>13. TeamInv' /\ BusinessInv' /\ ProfileInv' /\ UploadInv' /\ SignInInv'
  BY TeamWithdrawn, BusinessWithdrawn, ProfileWithdrawn, UploadWithdrawn, SignInWithdrawn DEF IInv
<1> QED BY <1>4, <1>6, <1>7, <1>9, <1>10, <1>11, <1>12, <1>13, HandedOver, NothingLeft DEF IInv

LEMMA Initial == Init => IInv
<1> SUFFICES ASSUME Init PROVE IInv
  OBVIOUS
<1> USE DEF Init
<1>1. /\ call = [c \in Slot |-> Idle] /\ calls = Spent[topic] /\ suspended = {} /\ withdrawn = {}
      /\ topic \in Topic
  BY DEF RequestsInit
<1>2. calls \in 0..MaxCalls
  BY <1>1, CommunityAssumption
<1>3. \A c \in Slot : call[c].op = "idle"
  BY <1>1 DEF Idle
<1>4. CallInv
  BY <1>1, <1>2 DEF CallInv, AccountsTypeOK, AnyCall
<1>5. WithdrawInv /\ AloneInv
  BY <1>3 DEF WithdrawInv, AloneInv, Alone, Doing
<1>6. TeamInv
  <2>1. TeamsTypeOK
    BY DEF TeamsInit, TeamsTypeOK
  <2>2. TeamWithinLimits
    <3>1. \A t \in Team : scouted[t] = {} /\ Accepted(t) = {} /\ revived[t] = 0
      BY DEF TeamsInit, Accepted
    <3> QED BY <3>1, NoUsers, TeamsAssumption DEF TeamWithinLimits
  <2>3. \A t \in Team, u \in User : member[t][u] = "none"
    BY DEF TeamsInit
  <2> QED BY <1>3, <2>1, <2>2, <2>3 DEF TeamInv, Doing
<1>7. ChallengeInv
  <2>1. ChallengesTypeOK
    <3>1. posting = "none" /\ visible = TRUE /\ priced \in BOOLEAN /\ autoPublish \in BOOLEAN
          /\ repriced = FALSE /\ decrees = 0
      BY Zenon DEF ChallengesInit
    <3>2. 0 \in 0..MaxDecrees
      BY ChallengesAssumption
    <3> QED BY <3>1, <3>2 DEF ChallengesTypeOK
  <2>2. \A c \in Slot : ~Doing(c, "move")
    BY <1>3 DEF Doing
  <2> QED BY <2>1, <2>2 DEF ChallengeInv
<1>8. ApplyInv
  <2>1. ApplicationsTypeOK
    BY DEF ApplicationsInit, ApplicationsTypeOK
  <2>2. \A u \in User : Of(u) = {} /\ Applying(u) = {}
    BY <1>3, ApplicationsAssumption DEF ApplicationsInit, Of, Applying
  <2> QED BY <1>3, <2>1, <2>2 DEF ApplyInv, Doing, AtMostOne
<1>9. PriceInv
  BY <1>3 DEF ApplicationsInit, PriceInv, Doing
<1>10. CertInv
  <2>1. CertificatesTypeOK /\ \A k \in Cert : proof[k] = "pending"
    BY DEF CertificatesInit, CertificatesTypeOK
  <2>2. BadgeMeansVerified
    BY DEF CertificatesInit, BadgeMeansVerified
  <2>3. \A u \in User : Judging(u) = {}
    BY <1>3 DEF Judging
  <2> QED BY <1>3, <2>1, <2>2, <2>3 DEF CertInv, CertOps, Doing, AtMostOne
<1>11. BusinessInv
  <2>1. BusinessesTypeOK /\ \A b \in Business : holder[b] = NoHolder
    BY DEF BusinessesInit, BusinessesTypeOK
  <2>2. \A u \in User : Owned(u) = {}
    BY <2>1, BusinessesAssumption DEF Owned
  <2>3. \A c \in Slot, u \in User : ~Courts(c, u)
    BY <1>3 DEF Courts
  <2>4. \A u \in User : IsFiniteSet(Owned(u)) /\ AtMostOne(Owned(u))
    BY <2>2, FS_EmptySet DEF AtMostOne
  <2> QED BY <2>1, <2>3, <2>4 DEF BusinessInv
<1>12. ProfileInv
  <2>1. PortfolioTypeOK
    BY DEF PortfolioInit, PortfolioTypeOK, Blank, Form
  <2>2. PortfolioKept
    BY DEF PortfolioInit, PortfolioKept, Blank
  <2> QED BY <1>3, <2>1, <2>2 DEF ProfileInv, Locks, Doing
<1>13. UploadInv
  <2>1. UploadsTypeOK
    BY DEF UploadsInit, UploadsTypeOK
  <2>2. \A f \in File : FileInv(f)
    BY DEF UploadsInit, FileInv, Known
  <2> QED BY <1>3, <2>1, <2>2 DEF UploadInv, UploadOps
<1>14. SignInInv
  <2>1. accounts \subseteq User /\ known = accounts /\ email = NoAccount /\ late = {}
        /\ linked = [p \in Provider |-> NoAccount]
    BY DEF SignInInit
  <2>2. email \notin withdrawn /\ withdrawn \subseteq accounts
    BY <1>1
  <2> QED BY <1>3, <2>1, <2>2 DEF SignInInv, SignInTypeOK, SignInReachesAccount, Doing
<1>15. OrphanInv
  BY <1>1, <1>3 DEF OrphanInv, NothingOrphaned, TeamsInit, Doing
<1>16. LeftInv
  BY <1>1 DEF LeftInv, WithdrawnLeavesNothing
<1> QED BY <1>4, <1>5, <1>6, <1>7, <1>8, <1>9, <1>10, <1>11, <1>12, <1>13, <1>14, <1>15, <1>16 DEF IInv

LEMMA Inductive == IInv /\ [Next]_vars => IInv'
<1> SUFFICES ASSUME IInv, [Next]_vars PROVE IInv'
  OBVIOUS
<1>1. CASE Next
  <2>1. CASE AccountsNext
    BY <2>1, SuspensionKeeps, WithdrawKeeps, CommitKeeps DEF AccountsNext
  <2> QED BY <1>1, <2>1, TeamStepKeeps, ChallengeStepKeeps, CertificateStepKeeps, BusinessStepKeeps,
             ProfileStepKeeps, UploadStepKeeps, SignInStepKeeps DEF Next
<1>2. CASE UNCHANGED vars
  <2>1. UNCHANGED <<call, calls, suspended, withdrawn>>
    BY <1>2 DEF vars, accountVars
  <2>2. CallStep({})
    BY <2>1, Rested DEF IInv
  <2>3. suspended' \subseteq User
    BY <2>1 DEF IInv, CallInv, AccountsTypeOK
  <2> QED BY <1>2, <2>1, <2>2, <2>3, NothingMoves DEF vars
<1> QED BY <1>1, <1>2

\* The invariant of the server's requests: what each of the eight parts keeps
\* of its rows, what the calls in flight have read of them, and what a
\* withdrawal has checked before its transaction, however they interleave.
THEOREM CommunityInvariant == Spec => []IInv
BY Initial, Inductive, PTL DEF Spec

-----------------------------------------------------------------------------
(* What the invariant is for.                                              *)

LEMMA InvariantTypes == IInv => TypeOK
BY DEF IInv, CallInv, TeamInv, ChallengeInv, ApplyInv, CertInv, BusinessInv, ProfileInv, UploadInv, SignInInv,
       TypeOK, AnyCall

LEMMA OneOrder ==
  ASSUME ApplyInv
  PROVE  OneApplicationOneOrder
<1> SUFFICES ASSUME NEW u \in User \ twice
             PROVE  /\ Cardinality(Of(u)) <= 1
                    /\ \A a \in Of(u) : Cardinality({i \in DOMAIN orders[a] : orders[a][i] # "canceled"}) <= 1
  BY DEF OneApplicationOneOrder
<1>1. AtMostOne(Of(u)) /\ \A a \in Of(u) : Superseded(a)
  BY DEF ApplyInv
<1>2. Cardinality(Of(u)) <= 1
  BY <1>1, AtMostOneCounts
<1>3. ASSUME NEW a \in Of(u) PROVE Cardinality({i \in DOMAIN orders[a] : orders[a][i] # "canceled"}) <= 1
  <2>1. PICK S : S = {i \in DOMAIN orders[a] : orders[a][i] # "canceled"}
    OBVIOUS
  <2>2. a \in App /\ orders[a] \in Seq({"pending", "paid", "canceled"})
    BY DEF Of, ApplyInv, ApplicationsTypeOK
  <2>3. Len(orders[a]) \in Nat /\ DOMAIN orders[a] = 1..Len(orders[a])
    BY <2>2
  <2>4. \A i \in S : i = Len(orders[a])
    BY <1>1, <2>1, <2>3 DEF Superseded
  <2>5. AtMostOne(S)
    BY <2>4 DEF AtMostOne
  <2> QED BY <2>1, <2>5, AtMostOneCounts
<1> QED BY <1>2, <1>3

LEMMA OneBusinessEach ==
  ASSUME BusinessInv
  PROVE  OneBusiness
<1>1. \A u \in User \ courted : Cardinality(Owned(u)) <= 1
  BY AtMostOneCounts DEF BusinessInv
<1> QED BY <1>1 DEF OneBusiness, BusinessInv

LEMMA FilesSurvive ==
  ASSUME UploadInv
  PROVE  UploadSurvives
BY DEF UploadInv, FileInv, UploadSurvives, UploadsTypeOK

\* Every call in flight is one of the handlers', with what that handler keeps
\* between its statements, and every row has the values that its column has.
THEOREM CommunityTypes == Spec => []TypeOK
BY CommunityInvariant, InvariantTypes, PTL

\* updateMember and inviteMember lock the team and count: however many calls
\* race for the last places, a team has no more scouts than the limit and no
\* more accepted members than places, but for those a chat link sent again
\* brought back.
THEOREM TeamLimits == Spec => []TeamWithinLimits
<1>1. IInv => TeamWithinLimits
  BY DEF IInv, TeamInv
<1> QED BY <1>1, CommunityInvariant, PTL

\* apply and its retries leave a user with one application and one order that
\* is not canceled, unless two calls of the user overlapped.
THEOREM OneApplication == Spec => []OneApplicationOneOrder
<1>1. IInv => OneApplicationOneOrder
  BY OneOrder DEF IInv
<1> QED BY <1>1, CommunityInvariant, PTL

\* verifyCertificate keeps the badge of a user whose certificates are decided
\* one at a time on exactly while one of them is verified.
THEOREM BadgeIsVerified == Spec => []BadgeMeansVerified
<1>1. IInv => BadgeMeansVerified
  BY DEF IInv, CertInv
<1> QED BY <1>1, CommunityInvariant, PTL

\* register and withdraw give nobody a second business, unless two calls that
\* give the user one overlapped, and owners have the role of a business.
THEOREM OneBusinessOnly == Spec => []OneBusiness
<1>1. IInv => OneBusiness
  BY OneBusinessEach DEF IInv
<1> QED BY <1>1, CommunityInvariant, PTL

\* updateProfile and reviewPortfolioBadge lose none of each other's writes of
\* the links of a user: both lock the row they read and write back.
THEOREM PortfolioSafe == Spec => []PortfolioKept
<1>1. IInv => PortfolioKept
  BY DEF IInv, ProfileInv
<1> QED BY <1>1, CommunityInvariant, PTL

\* finalizeUpload, run any number of times at once and dying anywhere, loses
\* no genuine file, and marks none ready that is forged or gone.
THEOREM UploadsSafe == Spec => []UploadSurvives
<1>1. IInv => UploadSurvives
  BY FilesSurvive DEF IInv
<1> QED BY <1>1, CommunityInvariant, PTL

\* However registrations, logins and withdrawals race, a subject leads to the
\* account with the address, or to a withdrawn one in the two known ways.
THEOREM SignInSafe == Spec => []SignInReachesAccount
<1>1. IInv => SignInReachesAccount
  BY DEF IInv, SignInInv
<1> QED BY <1>1, CommunityInvariant, PTL

\* withdraw checks who inherits before its transaction and locks nothing it
\* has read: if no other call overlapped a withdrawal, every team and every
\* business is left to an account that is still there.
THEOREM NoOrphans == Spec => []NothingOrphaned
<1>1. IInv => NothingOrphaned
  BY DEF IInv, OrphanInv, NothingOrphaned
<1> QED BY <1>1, CommunityInvariant, PTL

\* Nothing that an account wrote is left once it has withdrawn, unless a call
\* of its own was in flight.
THEOREM NothingRemains == Spec => []WithdrawnLeavesNothing
<1>1. IInv => WithdrawnLeavesNothing
  BY DEF IInv, LeftInv
<1> QED BY <1>1, CommunityInvariant, PTL

LEMMA StatusMoves ==
  ASSUME IInv, Next, posting' # posting
  PROVE  \/ posting = "none"
         \/ <<posting, posting'>> \in Allowed
         \/ posting' = "rejected"
         \/ \E c \in Slot : call[c].op = "move" /\ call[c].moved /\ call'[c] = Idle
<1>1. CASE ChallengeStep
  <2>1. CASE ChallengesNext
    BY <2>1, PostingAllowed DEF IInv
  <2>2. CASE ApplicationsNext
    BY <2>2 DEF ApplicationsNext, InsertApplication, FindOrder, InsertOrder, WriteAnswers, Apply, EditApplication,
                ReviewApplication, SettleOrderPaid, CancelOrder, SetOrder, challengeVars
  <2> QED BY <1>1, <2>1, <2>2 DEF ChallengeStep
<1>2. CASE ~ChallengeStep
  BY <1>2 DEF Next, TeamStep, CertificateStep, BusinessStep, ProfileStep, UploadStep, SignInStep, AccountsNext,
              Withdraw, CommitWithdrawal, postingVars, challengeVars
<1> QED BY <1>1, <1>2

\* A posting goes the way its state machine allows, apart from the late write
\* of a call that read it before an earlier change: updateStatus writes by id.
THEOREM TransitionsAllowed == Spec => NoOtherTransition
<1>1. IInv /\ [Next]_vars =>
        [posting' # posting =>
           \/ posting = "none"
           \/ <<posting, posting'>> \in Allowed
           \/ posting' = "rejected"
           \/ \E c \in Slot : /\ call[c].op = "move"
                              /\ call[c].moved /\ call'[c] = Idle]_<<posting, call>>
  BY StatusMoves DEF vars, postingVars, challengeVars
<1> QED BY <1>1, CommunityInvariant, PTL DEF Spec, NoOtherTransition

LEMMA EffectiveMoves ==
  ASSUME IInv, Next, NEW a \in App, Effective(a), ~Effective(a)'
  PROVE  \/ orders[a] = <<>> /\ repriced
         \/ \E i \in DOMAIN orders[a] : orders[a][i] = "paid" /\ orders'[a][i] = "canceled"
<1>1. CASE ApplicationsNext
  BY <1>1, StaysEffective DEF IInv
<1>2. CASE ~ApplicationsNext
  <2>1. UNCHANGED <<applicant, orders>>
    BY <1>2 DEF Next, TeamStep, ChallengeStep, CertificateStep, BusinessStep, ProfileStep, UploadStep, SignInStep,
                AccountsNext, Withdraw, CommitWithdrawal, postingVars, applicationVars
  <2> QED BY <2>1 DEF Effective
<1> QED BY <1>1, <1>2

\* An application that counts goes on counting until its paid order is
\* canceled, or until a retry bills a free one after the price has changed.
THEOREM ApplicationsCount == Spec => EffectiveUntilCanceled
<1>1. IInv /\ [Next]_vars =>
        [\A a \in App : Effective(a) /\ ~Effective(a)' =>
           \/ orders[a] = <<>> /\ repriced
           \/ \E i \in DOMAIN orders[a] : orders[a][i] = "paid" /\ orders'[a][i] = "canceled"]_<<applicant, orders>>
  BY EffectiveMoves DEF vars, postingVars, applicationVars
<1> QED BY <1>1, CommunityInvariant, PTL DEF Spec, EffectiveUntilCanceled
=============================================================================
