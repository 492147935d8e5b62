--------------------------- MODULE GatewaysProofs ---------------------------
(***************************************************************************)
(* What the protocols at the edge of the server promise, for any number of *)
(* requests in flight, codes, challenges, keys, mails, dates and lost      *)
(* connections, and any limit, ttl and skew of the clocks. The invariants  *)
(* of the views are those of ViewsProofs.                                  *)
(*                                                                         *)
(* A behaviour is about one protocol, so the invariant is that of its      *)
(* protocol, and the others are at rest.                                   *)
(***************************************************************************)
EXTENDS Gateways, SecondFactorProofs, ViewsProofs

Handles(c, k) == call[c] \in CardCall /\ call[c].key = k

CardInv ==
  /\ CardsTypeOK
  /\ call \in [Slot -> {Idle} \cup CardCall]
  /\ \A c, d \in Slot, k \in AuthKey : Handles(c, k) /\ Handles(d, k) => c = d
  /\ \A c \in Slot, k \in AuthKey : Handles(c, k) => attempt[k] = "open"
  /\ \A c \in Slot, k \in AuthKey : Handles(c, k) /\ call[c].op \in {"exchange", "forget"} => k \notin answered
  /\ \A k \in answered : attempt[k] # "none"
  /\ \A k \in card \ orphaned : attempt[k] = "linked" \/ \E c \in Slot : Handles(c, k) /\ call[c].op = "link"

\* A mail in flight answers a stored one, unless it came early.
Answers(c) ==
  LET m == call[c].mail
  IN m \notin early /\ AnswerTo[m] # NoMail =>
       /\ Stored(AnswerTo[m])
       /\ call[c].op = "file" => call[c].into = thread[AnswerTo[m]]

MailInv ==
  /\ InboundTypeOK
  /\ call \in [Slot -> {Idle} \cup IngestCall]
  /\ \A c \in Slot : call[c].op = "filed" => Stored(call[c].mail)
  /\ \A c \in Slot : call[c].op \in {"ingest", "file"} => Answers(c)
  /\ InboundMailKept

FactorRest ==
  /\ \A s \in Secret, n \in Step : passes[s][n] = 0
  /\ \A p \in Token : sessions[p] = 0
  /\ ~verified
  /\ passkey => Issued

CardRest == answered = {} /\ card = {}

MailRest == queued = Mail /\ threads = {} /\ \A m \in Mail : ~Stored(m)

SettingRest ==
  /\ SettingsTypeOK
  /\ InOrder(stored)
  /\ contended \/ stored = asked

Puts(c) == call[c].op = "put"

\* An update in flight carries a window in order; the only one there has ever
\* been at a time carries what is stored in the keys it does not name.
SettingInv ==
  /\ SettingRest
  /\ call \in [Slot -> {Idle} \cup SettingsCall]
  /\ \A c \in Slot : Puts(c) => InOrder(call[c].values)
  /\ \A c, d \in Slot : Puts(c) /\ Puts(d) => c = d \/ contended
  /\ \A c \in Slot : Puts(c) =>
       contended \/ \A k \in Setting \ call[c].named : call[c].values[k] = stored[k]

\* Only the current client is open, and it is there exactly when no timer is.
StreamInv ==
  /\ StreamTypeOK
  /\ \A n \in Client : Open(n) => n = client /\ ~stopped
  /\ stopped => timers = 0
  /\ ~stopped => \/ client = 0 /\ timers = 1
                 \/ client # 0 /\ timers = 0 /\ (Open(client) \/ due[client] # {})

ViewsInv ==
  /\ gate = "notices" => NoticesInv
  /\ gate # "notices" => NoticesRest
  /\ gate = "events" => EventsInv
  /\ gate # "events" => EventsRest
  /\ gate = "bookmarks" => BookmarksInv
  /\ gate # "bookmarks" => BookmarksRest
  /\ ListInv
  /\ PosterInv

\* The window of the i-th request let in is over on the clock of some server.
Over(i) == admitted[i].at + Ttl <= clock + Skew
\* Its member is still there.
Remains(i) == \E h \in hits : h.seq = admitted[i].seq /\ h.expires >= admitted[i].at + Ttl

AdmittedInOrder ==
  /\ \A i \in 1..Len(admitted) : admitted[i].at <= clock /\ admitted[i].seq <= seq
  /\ \A i, j \in 1..Len(admitted) :
       i < j => admitted[i].at <= admitted[j].at /\ admitted[i].seq < admitted[j].seq

\* A member leaves the set no sooner than its window is over; a block, which
\* throws all of them away at its end, outlasts every window.
ThrottleInv ==
  /\ ThrottleTypeOK
  /\ IsFiniteSet(hits)
  /\ AdmittedInOrder
  /\ \A i \in 1..Len(admitted) : Over(i) \/ Remains(i)
  /\ isBlocked => blockMs # 0 /\ \A i \in 1..Len(admitted) : admitted[i].at + Ttl <= blockExpiresAt
  /\ WindowLimit

IInv ==
  /\ AccountsTypeOK
  /\ gate = "factor" => FactorInv
  /\ gate # "factor" => FactorRest
  /\ gate = "card" => CardInv
  /\ gate # "card" => CardRest
  /\ gate = "mail" => MailInv
  /\ gate # "mail" => MailRest
  /\ gate = "settings" => SettingInv
  /\ SettingRest
  /\ StreamInv
  /\ ThrottleInv
  /\ gate \notin {"factor", "card", "mail", "settings", "notices", "events", "bookmarks"}
       => call \in [Slot -> {Idle}]
  /\ ViewsInv

-----------------------------------------------------------------------------
(* Cards.                                                                  *)

LEMMA CardFields ==
  /\ Idle \notin CardCall
  /\ \A r \in CardCall : r.key \in AuthKey /\ r.op \in {"exchange", "forget", "save", "link"}
  /\ \A k \in AuthKey : LET r == [op |-> "exchange", key |-> k]
                        IN r \in CardCall /\ r.op = "exchange" /\ r.key = k
BY DEF CardCall, Idle

\* A handler of a key in its stage.
LEMMA AtStage ==
  ASSUME call \in [Slot -> {Idle} \cup CardCall], NEW c \in Slot, call[c].op # "idle"
  PROVE  call[c] \in CardCall /\ call[c].key \in AuthKey /\ Handles(c, call[c].key)
BY CardFields DEF Idle, Handles

LEMMA Staging ==
  ASSUME call \in [Slot -> {Idle} \cup CardCall], NEW c \in Slot, call[c] \in CardCall,
         NEW op \in {"exchange", "forget", "save", "link"}, Stage(c, op)
  PROVE  /\ call' \in [Slot -> {Idle} \cup CardCall]
         /\ call'[c] \in CardCall /\ call'[c].op = op /\ call'[c].key = call[c].key
         /\ \A d \in Slot \ {c} : call'[d] = call[d]
<1> DEFINE r == [call[c] EXCEPT !.op = op]
<1>1. r \in CardCall /\ r.op = op /\ r.key = call[c].key
  BY DEF CardCall
<1>2. call' = [call EXCEPT ![c] = r]
  BY DEF Stage, Continue
<1> HIDE DEF r
<1> QED BY <1>1, <1>2

LEMMA CardStepKeeps ==
  ASSUME CardInv, CardsNext
  PROVE  CardInv'
<1> USE DEF CardsTypeOK
<1>1. ASSUME NEW c \in Slot, NEW k \in AuthKey, IssueCard(c, k) PROVE CardInv'
  <2>1. /\ call'[c] \in CardCall /\ call'[c].key = k /\ call'[c].op = "exchange"
        /\ \A d \in Slot \ {c} : call'[d] = call[d]
        /\ call' \in [Slot -> {Idle} \cup CardCall]
    BY <1>1, CardFields DEF IssueCard, Begin, CardInv
  <2>2. /\ attempt'[k] = "open" /\ attempt[k] = "none" /\ \A j \in AuthKey \ {k} : attempt'[j] = attempt[j]
        /\ attempt' \in [AuthKey -> {"none", "open", "linked"}]
        /\ UNCHANGED <<spent, card, answered, orphaned>>
    BY <1>1 DEF IssueCard, CardInv
  <2>3. \A d \in Slot : ~Handles(d, k)
    BY <2>2 DEF CardInv
  <2>4. \A d \in Slot, j \in AuthKey : Handles(d, j)' => (d = c /\ j = k) \/ (d # c /\ j # k /\ Handles(d, j))
    BY <2>1, <2>3 DEF Handles
  <2>5. \A j \in card \ orphaned : j # k /\ (attempt[j] = "linked" \/ \E d \in Slot \ {c} : Handles(d, j) /\ call[d].op = "link")
    BY <1>1, <2>2, <2>3, CardFields DEF CardInv, IssueCard, Begin, Handles
  <2> QED BY <2>1, <2>2, <2>4, <2>5 DEF CardInv, Handles
<1>2. ASSUME NEW c \in Slot, ExchangeAnswered(c) \/ ExchangeLost(c) \/ SaveCard(c) PROVE CardInv'
  <2> DEFINE k == call[c].key
  <2>1. call[c] \in CardCall /\ k \in AuthKey /\ Handles(c, k)
    BY <1>2, AtStage DEF ExchangeAnswered, ExchangeLost, SaveCard, IsAt, CardInv
  <2>2. /\ call' \in [Slot -> {Idle} \cup CardCall] /\ \A d \in Slot \ {c} : call'[d] = call[d]
        /\ \/ call'[c] = Idle
           \/ call'[c] \in CardCall /\ call'[c].key = k
    <3>1. CASE Return(c)
      BY <3>1 DEF Return, Continue, CardInv
    <3>2. ASSUME NEW op \in {"exchange", "forget", "save", "link"}, Stage(c, op)
          PROVE  /\ call' \in [Slot -> {Idle} \cup CardCall] /\ \A d \in Slot \ {c} : call'[d] = call[d]
                 /\ call'[c] \in CardCall /\ call'[c].key = k
      BY <2>1, <3>2, Staging DEF CardInv
    <3> QED BY <1>2, <3>1, <3>2 DEF ExchangeAnswered, ExchangeLost, SaveCard
  <2>3. \A d \in Slot, j \in AuthKey : Handles(d, j)' => Handles(d, j) /\ (j = k => d = c)
    BY <2>1, <2>2, CardFields DEF CardInv, Handles
  <2>4. UNCHANGED <<attempt, orphaned>> /\ answered \subseteq answered' /\ card \subseteq card'
    BY <1>2 DEF ExchangeAnswered, ExchangeLost, SaveCard
  <2>5. spent' \cup card' \cup answered' \cup orphaned' \subseteq AuthKey
    BY <1>2, <2>1 DEF ExchangeAnswered, ExchangeLost, SaveCard, CardInv
  <2>6. call[c].op # "link" /\ attempt[k] = "open"
    BY <1>2, <2>1 DEF ExchangeAnswered, ExchangeLost, SaveCard, IsAt, CardInv
  <2>7. \A j \in card \ orphaned : attempt[j] = "linked" \/ \E d \in Slot : Handles(d, j)' /\ call'[d].op = "link"
    BY <2>2, <2>6 DEF CardInv, Handles
  <2>8. CASE ExchangeAnswered(c)
    <3>1. answered' = answered \cup {k} /\ UNCHANGED card
      BY <2>8 DEF ExchangeAnswered
    <3>2. call'[c].op \in {"save", "idle"}
      <4>1. CASE Return(c)
        BY <4>1 DEF Return, Continue, CardInv, Idle
      <4>2. CASE Stage(c, "save")
        BY <2>1, <4>2, Staging DEF CardInv
      <4> QED BY <2>8, <4>1, <4>2 DEF ExchangeAnswered
    <3> HIDE DEF k
    <3> QED BY <2>1, <2>2, <2>3, <2>4, <2>5, <2>6, <2>7, <3>1, <3>2 DEF CardInv, Handles
  <2>9. CASE ExchangeLost(c)
    <3>1. UNCHANGED <<answered, card>>
      BY <2>9 DEF ExchangeLost
    <3>2. call[c].op = "exchange"
      BY <2>9 DEF ExchangeLost, IsAt
    <3> HIDE DEF k
    <3> QED BY <2>1, <2>2, <2>3, <2>4, <2>5, <2>6, <2>7, <3>1, <3>2 DEF CardInv, Handles
  <2>10. CASE SaveCard(c)
    <3>1. UNCHANGED answered /\ card' = card \cup {k}
      BY <2>10 DEF SaveCard
    <3>2. call'[c].op = "link" /\ call'[c] \in CardCall /\ call'[c].key = k
      BY <2>1, <2>10, Staging DEF SaveCard, CardInv, Handles
    <3> HIDE DEF k
    <3>3. \A j \in card' \ orphaned' : attempt'[j] = "linked" \/ \E d \in Slot : Handles(d, j)' /\ call'[d].op = "link"
      BY <2>4, <2>7, <3>1, <3>2 DEF Handles
    <3>4. \A d \in Slot, j \in AuthKey : Handles(d, j)' /\ call'[d].op \in {"exchange", "forget"} => j \notin answered'
      BY <2>2, <2>3, <3>1, <3>2 DEF CardInv, Handles
    <3> QED BY <2>2, <2>3, <2>4, <2>5, <3>1, <3>3, <3>4 DEF CardInv
  <2> QED BY <1>2, <2>8, <2>9, <2>10
<1>3. ASSUME NEW c \in Slot, ForgetAttempt(c) \/ LinkCard(c) \/ IssueDies(c) PROVE CardInv'
  <2> DEFINE k == call[c].key
  <2>1. call[c] \in CardCall /\ k \in AuthKey /\ Handles(c, k) /\ attempt[k] = "open"
    BY <1>3, AtStage, CardFields DEF ForgetAttempt, LinkCard, IssueDies, IsAt, CardInv, Idle
  <2>2. call' \in [Slot -> {Idle} \cup CardCall] /\ call'[c] = Idle /\ \A d \in Slot \ {c} : call'[d] = call[d]
    BY <1>3 DEF ForgetAttempt, LinkCard, IssueDies, Return, Continue, CardInv
  <2>3. \A d \in Slot, j \in AuthKey : Handles(d, j)' => d # c /\ j # k /\ Handles(d, j)
    BY <2>1, <2>2, CardFields DEF CardInv, Handles
  <2>4. UNCHANGED <<spent, card, answered>> /\ orphaned \subseteq orphaned' /\ orphaned' \subseteq AuthKey
    BY <1>3, <2>1 DEF ForgetAttempt, LinkCard, IssueDies, CardInv
  <2>5. /\ attempt' \in [AuthKey -> {"none", "open", "linked"}]
        /\ \A j \in AuthKey \ {k} : attempt'[j] = attempt[j]
    BY <1>3 DEF ForgetAttempt, LinkCard, IssueDies, CardInv
  <2>6. \A j \in card \ orphaned :
          \/ attempt[j] = "linked" /\ j # k
          \/ \E d \in Slot \ {c} : Handles(d, j)' /\ call'[d].op = "link" /\ j # k
          \/ j = k /\ call[c].op = "link"
    BY <2>1, <2>2 DEF CardInv, Handles
  <2>7. k \in answered => attempt'[k] # "none"
    BY <1>3, <2>1 DEF ForgetAttempt, LinkCard, IssueDies, IsAt, CardInv
  <2>8. k \in card \ orphaned' /\ call[c].op = "link" => attempt'[k] = "linked"
    BY <1>3, <2>1 DEF ForgetAttempt, LinkCard, IssueDies, IsAt, CardInv
  <2> HIDE DEF k
  <2> QED BY <2>1, <2>2, <2>3, <2>4, <2>5, <2>6, <2>7, <2>8 DEF CardInv, Handles
<1> QED BY <1>1, <1>2, <1>3 DEF CardsNext

LEMMA CardsSafe ==
  ASSUME CardInv
  PROVE  KeyExchangedOnce
<1> SUFFICES ASSUME NEW k \in AuthKey
             PROVE  /\ Cardinality({c \in Slot : call[c] \in CardCall /\ call[c].key = k}) <= 1
                    /\ k \in answered => attempt[k] # "none" /\ \A c \in Slot : ~(IsAt(c, "exchange") /\ call[c].key = k)
                    /\ k \in card \ orphaned => attempt[k] = "linked" \/ \E c \in Slot : IsAt(c, "link") /\ call[c].key = k
  BY DEF KeyExchangedOnce
<1> DEFINE S == {c \in Slot : call[c] \in CardCall /\ call[c].key = k}
<1>1. Cardinality(S) <= 1
  <2>1. CASE S = {}
    BY <2>1, FS_EmptySet
  <2>2. ASSUME NEW c \in S PROVE Cardinality(S) <= 1
    <3>1. S = {c}
      BY <2>2 DEF CardInv, Handles
    <3> QED BY <3>1, FS_Singleton
  <2> QED BY <2>1, <2>2
<1>2. k \in answered => attempt[k] # "none" /\ \A c \in Slot : ~(IsAt(c, "exchange") /\ call[c].key = k)
  BY AtStage DEF CardInv, IsAt, Handles
<1>3. k \in card \ orphaned => attempt[k] = "linked" \/ \E c \in Slot : IsAt(c, "link") /\ call[c].key = k
  BY DEF CardInv, IsAt, Handles
<1> QED BY <1>1, <1>2, <1>3

-----------------------------------------------------------------------------
(* Mail.                                                                   *)

LEMMA MailFields ==
  /\ Idle \notin IngestCall
  /\ \A r \in IngestCall : r.mail \in Mail /\ r.op \in {"ingest", "filed", "file", "put"}
  /\ \A r \in IngestCall : r.op = "file" => r.into \in Mail
  /\ \A m \in Mail : [op |-> "ingest", mail |-> m] \in IngestCall /\ [op |-> "filed", mail |-> m] \in IngestCall
  /\ \A m, t \in Mail : [op |-> "file", mail |-> m, into |-> t] \in IngestCall
BY DEF IngestCall, Idle

LEMMA MailStepKeeps ==
  ASSUME MailInv, InboundNext
  PROVE  MailInv'
<1> USE InboundAssumption DEF InboundTypeOK
<1>1. ASSUME NEW c \in Slot, NEW m \in Mail, ReceiveMail(c, m) PROVE MailInv'
  <2>1. /\ call' \in [Slot -> {Idle} \cup IngestCall] /\ \A d \in Slot \ {c} : call'[d] = call[d]
        /\ call'[c].op = "ingest" /\ call'[c].mail = m
    BY <1>1, MailFields DEF ReceiveMail, Begin, MailInv
  <2>2. UNCHANGED <<queued, thread, threads>> /\ early \subseteq early' /\ early' \subseteq early \cup {m}
    BY <1>1 DEF ReceiveMail
  <2>3. m \notin early' /\ AnswerTo[m] # NoMail => Stored(AnswerTo[m])
    BY <1>1 DEF ReceiveMail
  <2>4. \A d \in Slot : call'[d].op \in {"ingest", "file"} => Answers(d)'
    BY <2>1, <2>2, <2>3 DEF MailInv, Answers, Stored
  <2>5. \A d \in Slot : call'[d].op = "filed" => Stored(call[d].mail)'
    BY <2>1, <2>2 DEF MailInv, Stored
  <2>6. InboundMailKept'
    BY <2>2 DEF MailInv, InboundMailKept, Stored
  <2>7. InboundTypeOK'
    BY <2>2 DEF MailInv
  <2> QED BY <2>1, <2>4, <2>5, <2>6, <2>7 DEF MailInv
<1>2. ASSUME NEW c \in Slot, ResolveThread(c) PROVE MailInv'
  <2> DEFINE m == call[c].mail
             a == AnswerTo[m]
             t == IF a # NoMail /\ Stored(a) THEN thread[a] ELSE m
  <2>1. call[c].op = "ingest" /\ call[c] \in IngestCall /\ m \in Mail /\ UNCHANGED inboundVars
    BY <1>2, MailFields DEF ResolveThread, MailInv, Idle
  <2>2. t \in Mail
    BY <2>1 DEF MailInv, Stored
  <2>3. /\ call' \in [Slot -> {Idle} \cup IngestCall] /\ \A d \in Slot \ {c} : call'[d] = call[d]
        /\ call'[c].mail = m
        /\ \/ call'[c].op = "filed" /\ Stored(m)
           \/ call'[c].op = "file" /\ call'[c].into = t
    <3>1. call' = [call EXCEPT ![c] = IF Stored(m) THEN [op |-> "filed", mail |-> m]
                                      ELSE [op |-> "file", mail |-> m, into |-> t]]
      BY <1>2 DEF ResolveThread, Continue
    <3> HIDE DEF t, m
    <3>2. CASE Stored(m)
      BY <2>1, <3>1, <3>2, MailFields DEF MailInv
    <3>3. CASE ~Stored(m)
      BY <2>1, <2>2, <3>1, <3>3, MailFields DEF MailInv
    <3> QED BY <3>2, <3>3
  <2>4. Answers(c)
    BY <2>1 DEF MailInv
  <2>5. \A d \in Slot : call'[d].op \in {"ingest", "file"} => Answers(d)'
    <3>1. \A d \in Slot \ {c} : call'[d].op \in {"ingest", "file"} => Answers(d)'
      BY <2>1, <2>3 DEF MailInv, Answers, Stored, inboundVars
    <3>2. call'[c].op = "file" => Answers(c)'
      BY <2>1, <2>3, <2>4 DEF Answers, Stored, inboundVars
    <3> QED BY <2>3, <3>1, <3>2
  <2> QED BY <2>1, <2>3, <2>5 DEF MailInv, InboundMailKept, Stored, inboundVars
<1>3. ASSUME NEW c \in Slot, FileMail(c) PROVE MailInv'
  <2> DEFINE m == call[c].mail
             t == call[c].into
  <2>1. call[c].op = "file" /\ call[c] \in IngestCall /\ m \in Mail /\ t \in Mail /\ UNCHANGED <<queued, early>>
    BY <1>3, MailFields DEF FileMail, MailInv, Idle
  <2>2. CASE Stored(m)
    <3>1. UNCHANGED inboundVars /\ \A d \in Slot : call'[d] = IF d = c THEN Idle ELSE call[d]
      BY <1>3, <2>2 DEF FileMail, Return, Continue, MailInv, inboundVars
    <3>2. call' \in [Slot -> {Idle} \cup IngestCall]
      BY <1>3, <2>2 DEF FileMail, Return, Continue, MailInv
    <3> QED BY <3>1, <3>2 DEF MailInv, InboundMailKept, Stored, Answers, inboundVars, Idle
  <2>3. CASE ~Stored(m)
    <3>1. /\ thread' = [thread EXCEPT ![m] = t] /\ threads' = threads \cup {t}
          /\ call' = [call EXCEPT ![c] = [op |-> "filed", mail |-> m]]
      BY <1>3, <2>3 DEF FileMail, Continue
    <3>2. /\ thread'[m] = t /\ \A x \in Mail \ {m} : thread'[x] = thread[x]
          /\ thread' \in [Mail -> Mail \cup {NoMail}]
      BY <2>1, <3>1 DEF MailInv
    <3>3. /\ call'[c].op = "filed" /\ call'[c].mail = m /\ \A d \in Slot \ {c} : call'[d] = call[d]
          /\ call' \in [Slot -> {Idle} \cup IngestCall]
      BY <2>1, <3>1, MailFields DEF MailInv
    <3> HIDE DEF t, m
    <3>4. \A x \in Mail : Stored(x) => thread'[x] # NoMail /\ x # m /\ thread'[x] = thread[x]
      BY <2>1, <2>3, <3>2 DEF Stored
    <3>5. thread'[m] # NoMail
      BY <2>1, <3>2
    <3>6. \A d \in Slot : call'[d].op = "filed" => Stored(call[d].mail)'
      BY <3>3, <3>4, <3>5, MailFields DEF MailInv, Idle, Stored
    <3>7. \A d \in Slot : call'[d].op \in {"ingest", "file"} => Answers(d)'
      <4> SUFFICES ASSUME NEW d \in Slot, call'[d].op \in {"ingest", "file"} PROVE Answers(d)'
        OBVIOUS
      <4>1. call'[d] = call[d] /\ Answers(d) /\ call[d].mail \in Mail
        BY <3>3, MailFields DEF MailInv, Idle
      <4>2. AnswerTo[call[d].mail] \in Mail \cup {NoMail}
        BY <4>1
      <4> QED BY <2>1, <3>4, <4>1, <4>2 DEF Answers, Stored
    <3>8. \A x \in Mail \ queued' : Stored(x)'
      BY <2>1, <3>4 DEF MailInv, InboundMailKept, Stored
    <3>9. \A u \in threads' : \E x \in Mail : thread'[x] = u
      <4>1. \A u \in threads : \E x \in Mail : thread[x] = u /\ Stored(x)
        BY DEF MailInv, InboundMailKept, Stored
      <4> QED BY <2>1, <3>1, <3>2, <3>4, <4>1
    <3>10. ASSUME NEW x \in Mail \ early', Stored(x)', AnswerTo[x] # NoMail
           PROVE  thread'[x] = thread'[AnswerTo[x]]
      <4>1. CASE x = m
        <5>1. Answers(c)
          BY <2>1 DEF MailInv
        <5>2. Stored(AnswerTo[m]) /\ t = thread[AnswerTo[m]]
          BY <2>1, <3>10, <4>1, <5>1 DEF Answers, t, m
        <5> QED BY <2>1, <3>2, <3>4, <3>10, <4>1, <5>2
      <4>2. CASE x # m
        <5>1. Stored(x) /\ thread[x] = thread[AnswerTo[x]]
          BY <2>1, <3>2, <3>10, <4>2 DEF MailInv, InboundMailKept, Stored
        <5>2. Stored(AnswerTo[x]) /\ AnswerTo[x] \in Mail
          BY <3>10, <5>1 DEF Stored
        <5> QED BY <3>4, <5>1, <5>2
      <4> QED BY <4>1, <4>2
    <3>11. InboundTypeOK' /\ InboundMailKept'
      BY <2>1, <3>1, <3>2, <3>8, <3>9, <3>10 DEF MailInv, InboundMailKept
    <3> QED BY <3>3, <3>6, <3>7, <3>11 DEF MailInv
  <2> QED BY <2>2, <2>3
<1>4. ASSUME NEW c \in Slot, AckMail(c) \/ IngestDies(c) PROVE MailInv'
  <2>1. /\ call' \in [Slot -> {Idle} \cup IngestCall]
        /\ \A d \in Slot : call'[d] = IF d = c THEN Idle ELSE call[d]
    BY <1>4 DEF AckMail, IngestDies, Return, Continue, MailInv
  <2>2. UNCHANGED <<thread, threads, early>> /\ queued' \subseteq queued
    BY <1>4 DEF AckMail, IngestDies, inboundVars
  <2>3. \A x \in Mail \ queued' : Stored(x)
    BY <1>4, MailFields DEF AckMail, IngestDies, MailInv, InboundMailKept, inboundVars
  <2> QED BY <2>1, <2>2, <2>3 DEF MailInv, InboundMailKept, Stored, Answers, Idle
<1> QED BY <1>1, <1>2, <1>3, <1>4 DEF InboundNext

-----------------------------------------------------------------------------
(* Settings.                                                               *)

LEMMA SettingFields ==
  /\ Idle \notin SettingsCall /\ ~(Idle.op = "put")
  /\ \A r \in SettingsCall : r.op = "put" /\ r.values \in Values /\ r.named \subseteq Setting
  /\ \A v \in Values, names \in SUBSET Setting :
       LET r == [op |-> "put", values |-> v, named |-> names]
       IN r \in SettingsCall /\ r.op = "put" /\ r.values = v /\ r.named = names
BY DEF SettingsCall, Idle

LEMMA SettingStepKeeps ==
  ASSUME SettingInv, SettingsNext
  PROVE  SettingInv'
<1>1. CASE \E c \in Slot, partial \in Partial : UpdateSettings(c, partial)
  <2>1. PICK c \in Slot, partial \in Partial : UpdateSettings(c, partial)
    BY <1>1
  <2> DEFINE v == Merged(stored, partial)
             r == [op |-> "put", values |-> v, named |-> DOMAIN partial]
  <2>2. DOMAIN partial \subseteq Setting
    BY DEF Partial
  <2>3. v \in Values /\ InOrder(v) /\ \A k \in Setting \ DOMAIN partial : v[k] = stored[k]
    BY <2>1 DEF UpdateSettings, Merged
  <2>4. r \in SettingsCall /\ r.op = "put" /\ r.values = v /\ r.named = DOMAIN partial
    BY <2>2, <2>3, SettingFields
  <2>5. call' = [call EXCEPT ![c] = r] /\ UNCHANGED <<stored, asked>>
    BY <2>1 DEF UpdateSettings, Begin
  <2>6. contended' = (contended \/ \E d \in Slot : Puts(d))
    BY <2>1 DEF UpdateSettings, Puts
  <2> HIDE DEF v, r
  <2>7. call' \in [Slot -> {Idle} \cup SettingsCall]
    BY <2>4, <2>5 DEF SettingInv
  <2>8. call'[c] = r /\ \A d \in Slot \ {c} : call'[d] = call[d]
    BY <2>5 DEF SettingInv
  <2>9. SettingRest'
    BY <2>5, <2>6 DEF SettingInv, SettingRest, SettingsTypeOK, InOrder, Values, Setting
  <2>10. \A d \in Slot : Puts(d)' => InOrder(call[d].values)'
    BY <2>3, <2>4, <2>8 DEF SettingInv, Puts, InOrder
  <2>11. \A d, e \in Slot : Puts(d)' /\ Puts(e)' => d = e \/ contended'
    BY <2>6, <2>8 DEF SettingInv, Puts
  <2>12. \A d \in Slot : Puts(d)' =>
           contended' \/ \A k \in Setting \ call'[d].named : call'[d].values[k] = stored'[k]
    BY <2>3, <2>4, <2>5, <2>6, <2>8 DEF SettingInv, Puts
  <2> QED BY <2>7, <2>9, <2>10, <2>11, <2>12 DEF SettingInv
<1>2. CASE \E c \in Slot : PutSettings(c)
  <2>1. PICK c \in Slot : PutSettings(c)
    BY <1>2
  <2>2. call[c] \in SettingsCall /\ Puts(c) /\ call[c].values \in Values /\ InOrder(call[c].values)
    BY <2>1, SettingFields DEF PutSettings, SettingInv, Puts
  <2>3. /\ call' = [call EXCEPT ![c] = Idle]
        /\ stored' = call[c].values
        /\ asked' = [k \in Setting |-> IF k \in call[c].named THEN call[c].values[k] ELSE asked[k]]
        /\ contended' = contended
    BY <2>1 DEF PutSettings, Written, Return, Continue
  <2>4. call' \in [Slot -> {Idle} \cup SettingsCall]
    BY <2>3 DEF SettingInv
  <2>5. call'[c] = Idle /\ \A d \in Slot \ {c} : call'[d] = call[d]
    BY <2>3 DEF SettingInv
  <2>6. asked' \in Values
    BY <2>2, <2>3, SettingFields DEF SettingInv, SettingRest, SettingsTypeOK, Values, Setting
  <2>7. contended \/ stored' = asked'
    BY <2>2, <2>3, SettingFields DEF SettingInv, SettingRest, SettingsTypeOK, Values
  <2>8. SettingRest'
    BY <2>2, <2>3, <2>6, <2>7 DEF SettingInv, SettingRest, SettingsTypeOK, InOrder
  <2>9. \A d \in Slot : Puts(d)' => d # c /\ Puts(d) /\ contended
    BY <2>2, <2>5, SettingFields DEF SettingInv, Puts
  <2> QED BY <2>3, <2>4, <2>5, <2>8, <2>9 DEF SettingInv, Puts, InOrder
<1> QED BY <1>1, <1>2 DEF SettingsNext

-----------------------------------------------------------------------------
(* The stream.                                                             *)

LEMMA StreamStepKeeps ==
  ASSUME StreamInv, StreamNext
  PROVE  StreamInv'
<1> USE StreamAssumption DEF StreamInv, StreamTypeOK, Open
<1>1. CASE TimerFires
  BY <1>1 DEF TimerFires, Client
<1>2. CASE Stop
  BY <1>2 DEF Stop, End, Closing, Client, Callback
<1>3. ASSUME NEW n \in Client, Listening(n)  PROVE StreamInv'
  BY <1>3 DEF Listening, Client
<1>4. ASSUME NEW n \in Client, Refused(n)  PROVE StreamInv'
  BY <1>4 DEF Refused, Client, Callback
<1>5. ASSUME NEW n \in Client, Breaks(n)  PROVE StreamInv'
  <2>1. PICK more \in SUBSET {"error"} : due' = [due EXCEPT ![n] = @ \cup Closing(n) \cup more]
    BY <1>5 DEF Breaks
  <2>2. Closing(n) \cup more \subseteq Callback /\ Closing(n) # {}
    BY DEF Closing, Callback
  <2>3. due' \in [Client -> SUBSET Callback] /\ due'[n] # {} /\ \A d \in Client \ {n} : due'[d] = due[d]
    BY <2>1, <2>2
  <2> QED BY <1>5, <2>3 DEF Breaks, Client
<1>6. ASSUME NEW n \in Client, NEW callback \in Callback, ScheduleReconnect(n, callback)  PROVE StreamInv'
  BY <1>6 DEF ScheduleReconnect, Ignored, End, Closing, Client, Callback
<1> QED BY <1>1, <1>2, <1>3, <1>4, <1>5, <1>6 DEF StreamNext

LEMMA StreamSafe ==
  ASSUME StreamInv
  PROVE  OneListener
<1> DEFINE open == {n \in Client : Open(n)}
<1>1. Cardinality(open) + timers <= 1
  <2>1. CASE open = {}
    BY <2>1, FS_EmptySet DEF StreamInv, StreamTypeOK
  <2>2. CASE open # {}
    <3>1. open = {client} /\ timers = 0
      BY <2>2 DEF StreamInv, StreamTypeOK, Client
    <3> QED BY <3>1, FS_Singleton
  <2> QED BY <2>1, <2>2
<1>2. stopped => open = {}
  BY DEF StreamInv
<1>3. client # 0 => (Open(client) <=> client \in open)
  BY StreamAssumption DEF StreamInv, StreamTypeOK, Client
<1> QED BY <1>1, <1>2, <1>3 DEF StreamInv, OneListener

-----------------------------------------------------------------------------
(* The rate limit.                                                         *)

LEMMA ThrottleStarts ==
  ASSUME ThrottleInit
  PROVE  ThrottleInv
<1> USE ThrottleAssumption DEF ThrottleInit
<1>1. ThrottleTypeOK
  <2>1. 0 \in Times /\ 0 \in 0..MaxClock
    BY DEF Times
  <2>2. admitted \in Seq([at : 0..MaxClock, seq : Nat])
    OBVIOUS
  <2> QED BY <2>1, <2>2 DEF ThrottleTypeOK
<1>2. IsFiniteSet(hits)
  BY FS_EmptySet
<1>3. Len(admitted) = 0
  OBVIOUS
<1> QED BY <1>1, <1>2, <1>3 DEF ThrottleInv, AdmittedInOrder, WindowLimit

LEMMA AdmittedFields ==
  ASSUME ThrottleTypeOK
  PROVE  /\ clock \in Nat /\ seq \in Nat /\ Len(admitted) \in Nat /\ blockExpiresAt \in Nat
         /\ Ttl \in Nat /\ Ttl > 0 /\ Skew \in Nat /\ Limit \in Nat /\ Limit > 0
         /\ MaxClock \in Nat
         /\ \A i \in 1..Len(admitted) : admitted[i].at \in Nat /\ admitted[i].seq \in Nat
         /\ \A h \in hits : h.seq \in Nat /\ h.expires \in Nat
<1>1. clock \in Nat /\ blockExpiresAt \in Nat /\ Ttl \in Nat /\ Ttl > 0 /\ Skew \in Nat /\ MaxClock \in Nat
      /\ Limit \in Nat /\ Limit > 0
  BY ThrottleAssumption DEF ThrottleTypeOK, Times
<1>2. \A i \in 1..Len(admitted) : admitted[i] \in [at : 0..MaxClock, seq : Nat]
  <2> DEFINE S == [at : 0..MaxClock, seq : Nat]
  <2>1. admitted \in Seq(S)
    BY DEF ThrottleTypeOK
  <2> HIDE DEF S
  <2>2. \A i \in 1..Len(admitted) : admitted[i] \in S
    BY <2>1
  <2> QED BY <2>2 DEF S
<1>3. \A i \in 1..Len(admitted) : admitted[i].at \in Nat /\ admitted[i].seq \in Nat
  BY <1>1, <1>2
<1>4. \A h \in hits : h.seq \in Nat /\ h.expires \in Nat
  BY <1>1 DEF ThrottleTypeOK, Times
<1> QED BY <1>1, <1>3, <1>4 DEF ThrottleTypeOK

\* When the set has room for one more, the request as far back as the limit
\* has no member left in it, so its window is over.
LEMMA Room ==
  ASSUME ThrottleInv, NEW now \in clock..(clock + Skew), ~TooMany(Cardinality(Live(now)) + 1),
         NEW i \in 1..Len(admitted), i + Limit = Len(admitted) + 1
  PROVE  Over(i)
<1> SUFFICES ASSUME ~Over(i) PROVE FALSE
  OBVIOUS
<1> DEFINE n == Len(admitted)
           recent == i..n
           f == [j \in recent |-> CHOOSE h \in Live(now) : h.seq = admitted[j].seq]
<1>0. n \in Nat /\ i \in Nat /\ i >= 1 /\ Limit \in Nat /\ clock \in Nat /\ Skew \in Nat /\ Ttl \in Nat /\ now \in Nat
  BY AdmittedFields DEF ThrottleInv
<1>1. IsFiniteSet(recent) /\ Cardinality(recent) = Limit
  <2>1. n - i + 1 = Limit /\ ~(i > n)
    BY <1>0
  <2> QED BY <1>0, <2>1, FS_Interval
<1>2. IsFiniteSet(Live(now))
  BY FS_Subset DEF ThrottleInv, Live
<1>3. \A j \in recent : j \in 1..n
  BY <1>0
<1>4. ASSUME NEW j \in recent PROVE \E h \in Live(now) : h.seq = admitted[j].seq
  <2>1. j \in 1..n
    BY <1>3
  <2>2. admitted[i].at <= admitted[j].at
    <3>1. CASE i = j
      BY <1>0, <2>1, <3>1, AdmittedFields DEF ThrottleInv
    <3>2. CASE i # j
      BY <1>0, <2>1, <3>2 DEF ThrottleInv, AdmittedInOrder
    <3> QED BY <3>1, <3>2
  <2>3. admitted[i].at \in Nat /\ admitted[j].at \in Nat
    BY <2>1, AdmittedFields DEF ThrottleInv
  <2>4. ~Over(j)
    <3>1. ~(admitted[i].at + Ttl <= clock + Skew)
      BY DEF Over
    <3>2. ~(admitted[j].at + Ttl <= clock + Skew)
      BY <1>0, <2>2, <2>3, <3>1
    <3> QED BY <3>2 DEF Over
  <2>5. PICK h \in hits : h.seq = admitted[j].seq /\ h.expires >= admitted[j].at + Ttl
    BY <2>1, <2>4 DEF ThrottleInv, Remains
  <2>6. h.expires > now
    <3>1. h.expires \in Nat
      BY AdmittedFields DEF ThrottleInv
    <3> QED BY <1>0, <2>3, <2>4, <2>5, <3>1 DEF Over
  <2> QED BY <2>5, <2>6 DEF Live
<1>5. f \in [recent -> Live(now)] /\ \A j \in recent : f[j].seq = admitted[j].seq
  BY <1>4
<1>6. \A j, k \in recent : admitted[j].seq = admitted[k].seq => j = k
  <2> SUFFICES ASSUME NEW j \in recent, NEW k \in recent, j < k PROVE admitted[j].seq # admitted[k].seq
    BY <1>0
  <2>1. j \in 1..n /\ k \in 1..n
    BY <1>3
  <2>2. admitted[j].seq \in Nat /\ admitted[k].seq \in Nat
    BY <2>1, AdmittedFields DEF ThrottleInv
  <2> QED BY <2>1, <2>2 DEF ThrottleInv, AdmittedInOrder
<1> HIDE DEF f, recent
<1>7. f \in Injection(recent, Live(now))
  BY <1>5, <1>6 DEF Injection, IsInjective
<1>8. Cardinality(recent) <= Cardinality(Live(now))
  BY <1>2, <1>7, FS_Injection
<1>9. Cardinality(Live(now)) \in Nat
  BY <1>2, FS_CardinalityType
<1> QED BY <1>0, <1>1, <1>8, <1>9 DEF TooMany

\* The members of the requests let in survive a script, or their windows are over.
LEMMA MembersStay ==
  ASSUME ThrottleInv, NEW now \in clock..(clock + Skew), Live(now) \subseteq hits',
         NEW i \in 1..Len(admitted)
  PROVE  Over(i) \/ \E h \in hits' : h.seq = admitted[i].seq /\ h.expires >= admitted[i].at + Ttl
<1>1. CASE Over(i)
  BY <1>1
<1>2. CASE ~Over(i)
  <2>1. PICK h \in hits : h.seq = admitted[i].seq /\ h.expires >= admitted[i].at + Ttl
    BY <1>2 DEF ThrottleInv, Remains
  <2>2. /\ h.expires \in Nat /\ admitted[i].at \in Nat /\ Ttl \in Nat /\ clock \in Nat /\ Skew \in Nat
    BY AdmittedFields DEF ThrottleInv
  <2>3. ~(admitted[i].at + Ttl <= clock + Skew)
    BY <1>2 DEF Over
  <2>4. h.expires > now
    BY <2>1, <2>2, <2>3
  <2>5. h \in hits'
    BY <2>4 DEF Live
  <2> QED BY <2>1, <2>5
<1> QED BY <1>1, <1>2

\* A request that is let in.
LEMMA Admitting ==
  ASSUME ThrottleInv, NEW now \in clock..(clock + Skew), LetIn, clock' = clock, seq' = seq + 1,
         Hit(now) \in hits',
         \A i \in 1..Len(admitted) :
           Over(i) \/ \E h \in hits' : h.seq = admitted[i].seq /\ h.expires >= admitted[i].at + Ttl,
         \A i \in 1..Len(admitted) : i + Limit = Len(admitted) + 1 => Over(i)
  PROVE  /\ admitted' \in Seq([at : 0..MaxClock, seq : Nat])
         /\ AdmittedInOrder'
         /\ \A i \in 1..Len(admitted') : Over(i)' \/ Remains(i)'
         /\ WindowLimit'
<1> DEFINE n == Len(admitted)
           S == [at : 0..MaxClock, seq : Nat]
           r == [at |-> clock, seq |-> seq + 1]
<1>0. /\ clock \in Nat /\ seq \in Nat /\ n \in Nat /\ Ttl \in Nat /\ Skew \in Nat /\ Limit \in Nat /\ Limit > 0
      /\ now \in Nat /\ now >= clock /\ now <= clock + Skew
  BY AdmittedFields DEF ThrottleInv
<1>1. admitted \in Seq(S) /\ r \in S /\ r.at = clock /\ r.seq = seq + 1
  BY <1>0 DEF ThrottleInv, ThrottleTypeOK
<1>2. admitted' = Append(admitted, r)
  BY DEF LetIn
<1> HIDE DEF S, r
<1>3. /\ admitted' \in Seq(S) /\ Len(admitted') = n + 1 /\ admitted'[n + 1] = r
      /\ \A i \in 1..n : admitted'[i] = admitted[i]
  BY <1>1, <1>2
<1>4. \A i \in 1..n : admitted[i].at \in Nat /\ admitted[i].seq \in Nat /\ admitted[i].at <= clock /\ admitted[i].seq <= seq
  BY AdmittedFields DEF ThrottleInv, AdmittedInOrder
<1> DEFINE m == n + 1
<1>5. \A i \in 1..m : i = m \/ i \in 1..n
  BY <1>0
<1>6. AdmittedInOrder'
  <2>1. \A i \in 1..m : admitted'[i].at <= clock' /\ admitted'[i].seq <= seq'
    BY <1>0, <1>1, <1>3, <1>4, <1>5
  <2>2. ASSUME NEW i \in 1..m, NEW j \in 1..m, i < j
        PROVE  admitted'[i].at <= admitted'[j].at /\ admitted'[i].seq < admitted'[j].seq
    <3>1. i \in 1..n
      BY <1>0, <2>2
    <3>2. CASE j = m
      BY <1>0, <1>1, <1>3, <1>4, <3>1, <3>2
    <3>3. CASE j \in 1..n
      BY <1>3, <2>2, <3>1, <3>3 DEF ThrottleInv, AdmittedInOrder
    <3> QED BY <1>5, <3>2, <3>3
  <2> QED BY <1>3, <2>1, <2>2 DEF AdmittedInOrder
<1>7. ASSUME NEW i \in 1..m PROVE Over(i)' \/ Remains(i)'
  <2>1. CASE i = m
    <3>1. Hit(now).seq = seq + 1 /\ Hit(now).expires = now + Ttl
      BY DEF Hit
    <3>2. Hit(now).expires >= clock + Ttl
      BY <1>0, <3>1
    <3> QED BY <1>1, <1>3, <2>1, <3>1, <3>2 DEF Remains
  <2>2. CASE i \in 1..n
    BY <1>3, <2>2 DEF Over, Remains
  <2> QED BY <1>5, <2>1, <2>2
<1>8. WindowLimit'
  <2> SUFFICES ASSUME NEW i \in 1..m, i + Limit <= m
               PROVE  admitted'[i].at + Ttl <= admitted'[i + Limit].at + Skew
    BY <1>3 DEF WindowLimit
  <2>1. i \in 1..n
    BY <1>0
  <2>2. CASE i + Limit = m
    <3>1. admitted[i].at + Ttl <= clock + Skew
      BY <2>1, <2>2 DEF Over
    <3> QED BY <1>1, <1>3, <2>1, <2>2, <3>1
  <2>3. CASE i + Limit # m
    <3>1. i + Limit \in 1..n /\ i + Limit <= n
      <4>1. n \in Nat /\ i \in Nat /\ i >= 1 /\ Limit \in Nat /\ i + Limit <= n + 1 /\ i + Limit # n + 1
        BY <1>0, <2>1, <2>3
      <4> HIDE DEF n
      <4> QED BY <4>1
    <3>2. admitted[i].at + Ttl <= admitted[i + Limit].at + Skew
      BY <2>1, <3>1 DEF ThrottleInv, WindowLimit
    <3> QED BY <1>3, <2>1, <3>1, <3>2
  <2> QED BY <2>2, <2>3
<1> QED BY <1>3, <1>6, <1>7, <1>8 DEF S

LEMMA ThrottleStepKeeps ==
  ASSUME ThrottleInv, ThrottleNext
  PROVE  ThrottleInv'
<1>0. /\ clock \in Nat /\ seq \in Nat /\ Len(admitted) \in Nat /\ Ttl \in Nat /\ Ttl > 0 /\ Skew \in Nat /\ Limit \in Nat
      /\ MaxClock \in Nat /\ clock <= MaxClock /\ blockExpiresAt \in Nat
      /\ \A i \in 1..Len(admitted) : admitted[i].at \in Nat /\ admitted[i].seq \in Nat
  BY AdmittedFields DEF ThrottleInv, ThrottleTypeOK
<1>1. CASE Pass(1)
  <2>1. clock' = clock + 1 /\ clock' \in 0..MaxClock
    BY <1>0, <1>1 DEF Pass
  <2>2. UNCHANGED <<hits, seq, isBlocked, blockExpiresAt, blockMs, admitted>>
    BY <1>1 DEF Pass
  <2>3. ThrottleTypeOK'
    BY <2>1, <2>2 DEF ThrottleInv, ThrottleTypeOK
  <2>4. AdmittedInOrder'
    BY <1>0, <2>1, <2>2 DEF ThrottleInv, AdmittedInOrder
  <2>5. \A i \in 1..Len(admitted') : Over(i)' \/ Remains(i)'
    <3> SUFFICES ASSUME NEW i \in 1..Len(admitted) PROVE Over(i)' \/ Remains(i)'
      BY <2>2
    <3>1. Over(i) => Over(i)'
      BY <1>0, <2>1, <2>2 DEF Over
    <3>2. Remains(i) => Remains(i)'
      BY <2>2 DEF Remains
    <3> QED BY <3>1, <3>2 DEF ThrottleInv
  <2> QED BY <2>2, <2>3, <2>4, <2>5 DEF ThrottleInv, WindowLimit
<1>2. ASSUME NEW now \in clock..(clock + Skew), Increment(now) PROVE ThrottleInv'
  <2>0. clock' = clock /\ blockMs' = blockMs /\ now \in Nat /\ now >= clock /\ now <= clock + Skew
    BY <1>0, <1>2 DEF Increment
  <2>1. Hit(now) \in [seq : Nat, expires : Times]
    BY <1>0, <2>0 DEF Hit, Times
  <2>2. IsFiniteSet(Live(now)) /\ Live(now) \subseteq [seq : Nat, expires : Times]
    BY FS_Subset DEF ThrottleInv, ThrottleTypeOK, Live
  <2>3. ASSUME NEW left, left \in {Live(now), {}}, FireHit(left, now)
        PROVE  /\ IsFiniteSet(hits') /\ hits' \subseteq [seq : Nat, expires : Times] /\ Hit(now) \in hits'
               /\ left \subseteq hits' /\ seq' = seq + 1 /\ seq' \in Nat
    <3>1. hits' = left \cup {Hit(now)} /\ seq' = seq + 1
      BY <2>3 DEF FireHit
    <3>2. IsFiniteSet(left) /\ left \subseteq [seq : Nat, expires : Times]
      BY <2>2, <2>3, FS_EmptySet
    <3>3. IsFiniteSet(left \cup {Hit(now)})
      BY <3>2, FS_AddElement
    <3> QED BY <1>0, <2>1, <3>1, <3>2, <3>3
  \* A request that is refused: its hit, if any, is the only trace.
  <2>4. ASSUME UNCHANGED admitted, Live(now) \subseteq hits', IsFiniteSet(hits'),
               hits' \subseteq [seq : Nat, expires : Times], seq' \in Nat, seq <= seq',
               \/ UNCHANGED <<isBlocked, blockExpiresAt>>
               \/ isBlocked' = TRUE /\ blockExpiresAt' = now + Ttl /\ blockMs # 0
        PROVE  ThrottleInv'
    <3>1. ThrottleTypeOK'
      <4>1. now + Ttl \in Times
        BY <1>0, <2>0 DEF Times
      <4> QED BY <2>0, <2>4, <4>1 DEF ThrottleInv, ThrottleTypeOK
    <3>2. AdmittedInOrder'
      BY <1>0, <2>0, <2>4 DEF ThrottleInv, AdmittedInOrder
    <3>3. \A i \in 1..Len(admitted') : Over(i)' \/ Remains(i)'
      BY <2>0, <2>4, MembersStay DEF Over, Remains
    <3>4. isBlocked' => blockMs' # 0 /\ \A i \in 1..Len(admitted') : admitted'[i].at + Ttl <= blockExpiresAt'
      <4>1. CASE UNCHANGED <<isBlocked, blockExpiresAt>>
        BY <2>0, <2>4, <4>1 DEF ThrottleInv
      <4>2. CASE blockExpiresAt' = now + Ttl /\ blockMs # 0
        <5>1. \A i \in 1..Len(admitted) : admitted[i].at <= clock
          BY DEF ThrottleInv, AdmittedInOrder
        <5> QED BY <1>0, <2>0, <2>4, <4>2, <5>1
      <4> QED BY <2>4, <4>1, <4>2
    <3>5. WindowLimit'
      BY <2>4 DEF ThrottleInv, WindowLimit
    <3> QED BY <2>4, <3>1, <3>2, <3>3, <3>4, <3>5 DEF ThrottleInv
  \* A request that is let in; no block holds then.
  <2>5. ASSUME LetIn, Hit(now) \in hits', IsFiniteSet(hits'),
               hits' \subseteq [seq : Nat, expires : Times], seq' = seq + 1, isBlocked' = FALSE,
               UNCHANGED blockExpiresAt,
               \/ Live(now) \subseteq hits' /\ ~TooMany(Cardinality(Live(now)) + 1)
               \/ isBlocked /\ blockExpiresAt <= now
        PROVE  ThrottleInv'
    <3>1. isBlocked /\ blockExpiresAt <= now => \A i \in 1..Len(admitted) : Over(i)
      <4> SUFFICES ASSUME isBlocked, blockExpiresAt <= now, NEW i \in 1..Len(admitted)
                   PROVE  admitted[i].at + Ttl <= clock + Skew
        BY DEF Over
      <4>1. admitted[i].at + Ttl <= blockExpiresAt
        BY DEF ThrottleInv
      <4> QED BY <1>0, <2>0, <4>1
    <3>2. \A i \in 1..Len(admitted) :
            Over(i) \/ \E h \in hits' : h.seq = admitted[i].seq /\ h.expires >= admitted[i].at + Ttl
      BY <2>5, <3>1, MembersStay
    <3>3. \A i \in 1..Len(admitted) : i + Limit = Len(admitted) + 1 => Over(i)
      BY <2>5, <3>1, Room
    <3>4. /\ admitted' \in Seq([at : 0..MaxClock, seq : Nat])
          /\ AdmittedInOrder'
          /\ \A i \in 1..Len(admitted') : Over(i)' \/ Remains(i)'
          /\ WindowLimit'
      BY <2>0, <2>5, <3>2, <3>3, Admitting
    <3>5. ThrottleTypeOK'
      <4>1. clock' \in 0..MaxClock /\ blockExpiresAt' \in Times /\ blockMs' \in {0, Ttl} /\ seq' \in Nat
        BY <1>0, <2>0, <2>5 DEF ThrottleInv, ThrottleTypeOK
      <4> QED BY <2>5, <3>4, <4>1 DEF ThrottleTypeOK
    <3> QED BY <2>5, <3>4, <3>5 DEF ThrottleInv
  <2>6. CASE IncrementUnblocked(now)
    <3>1. ~isBlocked
      BY <2>6 DEF IncrementUnblocked, ThrottleInv
    <3>2. CASE TooMany(Cardinality(Live(now)) + 1)
      BY <1>0, <2>2, <2>4, <2>6, <3>2 DEF IncrementUnblocked
    <3>3. CASE ~TooMany(Cardinality(Live(now)) + 1)
      <4>1. FireHit(Live(now), now) /\ LetIn /\ UNCHANGED <<isBlocked, blockExpiresAt>>
        BY <2>6, <3>3 DEF IncrementUnblocked
      <4>2. isBlocked' = FALSE
        BY <3>1, <4>1 DEF ThrottleInv, ThrottleTypeOK
      <4> QED BY <2>3, <2>5, <3>3, <4>1, <4>2
    <3> QED BY <3>2, <3>3
  <2>7. CASE IncrementBlocking(now)
    <3>0. blockMs = Ttl /\ blockMs # 0
      BY <1>0, <2>7 DEF IncrementBlocking, ThrottleInv, ThrottleTypeOK
    <3>1. CASE isBlocked /\ blockExpiresAt > now
      <4>0. ~(blockExpiresAt <= now)
        BY <1>0, <2>0, <3>1
      <4>1. hits' = Live(now) /\ UNCHANGED <<seq, isBlocked, blockExpiresAt, admitted>>
        BY <2>7, <3>1, <4>0 DEF IncrementBlocking
      <4> QED BY <1>0, <2>2, <2>4, <4>1
    <3>2. CASE isBlocked /\ blockExpiresAt <= now
      <4>0. ~(blockExpiresAt > now)
        BY <1>0, <2>0, <3>2
      <4>1. FireHit({}, now) /\ LetIn /\ isBlocked' = FALSE /\ UNCHANGED blockExpiresAt
        BY <2>7, <3>2, <4>0 DEF IncrementBlocking
      <4> QED BY <2>3, <2>5, <3>2, <4>1
    <3>3. CASE ~isBlocked /\ TooMany(Cardinality(Live(now)) + 1)
      <4>1. FireHit(Live(now), now) /\ isBlocked' = TRUE /\ blockExpiresAt' = now + blockMs /\ UNCHANGED admitted
        BY <2>7, <3>3 DEF IncrementBlocking
      <4>2. Live(now) \subseteq hits' /\ seq <= seq'
        BY <1>0, <2>3, <4>1
      <4> QED BY <2>3, <2>4, <3>0, <4>1, <4>2
    <3>4. CASE ~isBlocked /\ ~TooMany(Cardinality(Live(now)) + 1)
      <4>1. FireHit(Live(now), now) /\ LetIn /\ UNCHANGED <<isBlocked, blockExpiresAt>>
        BY <2>7, <3>4 DEF IncrementBlocking
      <4>2. isBlocked' = FALSE
        BY <3>4, <4>1 DEF ThrottleInv, ThrottleTypeOK
      <4> QED BY <2>3, <2>5, <3>4, <4>1, <4>2
    <3>5. blockExpiresAt > now \/ blockExpiresAt <= now
      BY <1>0, <2>0
    <3> QED BY <3>1, <3>2, <3>3, <3>4, <3>5
  <2> QED BY <1>2, <2>6, <2>7 DEF Increment
<1> QED BY <1>1, <1>2 DEF ThrottleNext

-----------------------------------------------------------------------------
(* The protocols together.                                                 *)

LEMMA Start ==
  ASSUME Init
  PROVE  IInv
<1> USE RequestsAssumption, IdleIsCall DEF Init, RequestsInit
<1>1. call = [c \in Slot |-> Idle]
  OBVIOUS
<1>2. AccountsTypeOK
  BY GatewaysAssumption DEF AccountsTypeOK
<1>3. gate = "factor" => FactorInv
  BY <1>1, <1>2, FactorStart
<1>4. gate # "factor" => FactorRest
  <2>1. passkey => Issued
    BY DEF SecondFactorInit, Issued, Token
  <2> QED BY <2>1 DEF SecondFactorInit, FactorRest
<1>5. gate = "card" => CardInv
  BY <1>1, CardFields DEF CardInv, CardsInit, CardsTypeOK, Handles
<1>6. CardRest
  BY DEF CardRest, CardsInit
<1>7. InboundTypeOK /\ MailRest /\ InboundMailKept
  BY InboundAssumption DEF MailRest, InboundInit, Stored, InboundTypeOK, InboundMailKept
<1>8. gate = "mail" => MailInv
  BY <1>1, <1>7 DEF MailInv, Idle
<1>9. SettingRest
  BY DEF SettingRest, SettingsInit, SettingsTypeOK, Values, InOrder, Setting
<1>10. gate = "settings" => SettingInv
  BY <1>1, <1>9, SettingFields DEF SettingInv, Puts
<1>11. StreamInv
  <2>1. 1 \in Client /\ 0 \in 0..MaxClients /\ 1 \in 0..MaxClients /\ 0 \in Nat
    BY StreamAssumption DEF Client
  <2>2. StreamTypeOK
    BY <2>1 DEF StreamInit, StreamTypeOK
  <2> QED BY <2>1, <2>2 DEF StreamInit, StreamInv, Open
<1>12. ViewsInv
  <2>1. NoticesInv /\ NoticesRest
    BY <1>1, NoticesStart DEF ViewsInit, NoticesInit, NoticesRest
  <2>2. EventsInv /\ EventsRest
    <3>1. window = NoWindow /\ admittedEvents = <<>> /\ time = 1 /\ recentEventIds \in [EventId -> Nat]
      BY DEF ViewsInit, AdEventsInit
    <3> QED BY <1>1, <3>1 DEF EventsInv, EventsRest, EventsCountedOnce
  <2>3. BookmarksInv /\ (gate # "bookmarks" => BookmarksRest)
    BY <1>1 DEF ViewsInit, BookmarksInit, BookmarksInv, BookmarksRest, NoFetch
  <2>4. ListInv /\ PosterInv
    BY ListingStarts, PosterStarts DEF ViewsInit
  <2> QED BY <2>1, <2>2, <2>3, <2>4 DEF ViewsInv
<1>13. ThrottleInv
  BY ThrottleStarts
<1> QED BY <1>1, <1>2, <1>3, <1>4, <1>5, <1>6, <1>7, <1>8, <1>9, <1>10, <1>11, <1>12, <1>13 DEF IInv

\* What a step of one protocol leaves of the others.
LEMMA AtRest ==
  ASSUME UNCHANGED gate, IInv
  PROVE  /\ UNCHANGED secondFactorVars => (gate # "factor" => FactorRest')
         /\ UNCHANGED cardVars => (gate # "card" => CardRest')
         /\ UNCHANGED inboundVars => (gate # "mail" => MailRest')
         /\ UNCHANGED settingVars => SettingRest'
         /\ UNCHANGED streamVars => StreamInv'
         /\ UNCHANGED throttleVars => ThrottleInv'
         /\ UNCHANGED viewVars => (gate \notin {"notices", "events", "bookmarks"} \/ UNCHANGED call => ViewsInv')
<1>0. UNCHANGED viewVars => (gate \notin {"notices", "events", "bookmarks"} \/ UNCHANGED call => ViewsInv')
  BY RestStays, ViewsStutter DEF IInv, ViewsInv, viewVars
<1>1. UNCHANGED settingVars => SettingRest'
  BY DEF IInv, SettingRest, SettingsTypeOK, InOrder, settingVars
<1>2. UNCHANGED streamVars => StreamInv'
  BY DEF IInv, StreamInv, StreamTypeOK, Open, streamVars
<1>3. UNCHANGED throttleVars => ThrottleInv'
  BY DEF IInv, ThrottleInv, ThrottleTypeOK, AdmittedInOrder, Over, Remains, WindowLimit, throttleVars
<1> QED BY <1>0, <1>1, <1>2, <1>3
       DEF IInv, FactorRest, CardRest, MailRest, Issued, Stored, secondFactorVars, totpVars, tokenVars, cardVars,
           inboundVars

LEMMA Budget ==
  ASSUME AccountsTypeOK, UNCHANGED accountVars,
         \/ UNCHANGED calls
         \/ calls < MaxCalls /\ calls' = calls + 1
  PROVE  AccountsTypeOK'
BY RequestsAssumption DEF AccountsTypeOK, accountVars

LEMMA ViewStepKeeps ==
  ASSUME ViewsInv, ViewsNext(gate), gate' = gate
  PROVE  ViewsInv' /\ (gate \in {"list", "poster"} => UNCHANGED call)
<1> USE DEF ViewsInv
<1>1. CASE gate = "notices" /\ NoticesStep
  BY <1>1, NoticesStepKeeps, RestStays DEF NoticesStep
<1>2. CASE gate = "list" /\ ListingStep
  BY <1>2, ListingStepKeeps, RestStays DEF ListingStep
<1>3. CASE gate = "events" /\ AdEventsStep
  BY <1>3, EventsStepKeeps, RestStays DEF AdEventsStep
<1>4. CASE gate = "bookmarks" /\ BookmarksStep
  BY <1>4, BookmarksStepKeeps, RestStays DEF BookmarksStep
<1>5. CASE gate = "poster" /\ PosterStep
  BY <1>5, PosterStepKeeps, RestStays DEF PosterStep
<1> QED BY <1>1, <1>2, <1>3, <1>4, <1>5 DEF ViewsNext

LEMMA ViewBudget ==
  ASSUME AccountsTypeOK, ViewsNext(gate)
  PROVE  AccountsTypeOK'
<1>1. CASE NoticesStep
  BY <1>1, Budget
     DEF NoticesStep, NoticesNext, HourPasses, Change, BeginScan, InsertNotices, ReadNext, EndScan, FailScan,
         Continue, Return
<1>2. CASE ListingStep \/ PosterStep
  BY <1>2, Budget DEF ListingStep, PosterStep
<1>3. CASE AdEventsStep
  <2>1. UNCHANGED accountVars /\ (UNCHANGED calls \/ (calls < MaxCalls /\ calls' = calls + 1))
    BY <1>3
       DEF AdEventsStep, AdEventsNext, TimePasses, Restart, ReceiveEvent, Judge, CountEvent, Begin, Continue, Return
  <2> QED BY <2>1, Budget
<1>4. CASE BookmarksStep
  <2>1. UNCHANGED accountVars /\ (UNCHANGED calls \/ (calls < MaxCalls /\ calls' = calls + 1))
    BY <1>4
       DEF BookmarksStep, BookmarksNext, Refetch, ReadBookmarks, FetchAnswered, FetchFailed, Click, CancelQueries,
           ShowGuess, SaveBookmark, RefuseToggle, OnSuccess, OnError, OnSettled, Begin, Continue, Return
  <2> QED BY <2>1, Budget
<1> QED BY <1>1, <1>2, <1>3, <1>4 DEF ViewsNext

LEMMA StepKeepsAll ==
  ASSUME IInv, [Next]_vars
  PROVE  IInv'
<1>1. CASE FactorStep
  <2>1. FactorInv'
    BY <1>1, FactorStepKeeps DEF IInv, FactorStep
  <2>2. AccountsTypeOK'
    BY <2>1 DEF FactorInv, TypesOK
  <2> QED BY <1>1, <2>1, <2>2, AtRest DEF IInv, FactorStep
<1>2. CASE CardStep
  <2>1. CardInv'
    BY <1>2, CardStepKeeps DEF IInv, CardStep
  <2>2. AccountsTypeOK'
    BY <1>2, Budget
       DEF IInv, CardStep, CardsNext, IssueCard, ExchangeAnswered, ExchangeLost, ForgetAttempt, SaveCard,
           LinkCard, IssueDies, Begin, Stage, Return, Continue
  <2> QED BY <1>2, <2>1, <2>2, AtRest DEF IInv, CardStep
<1>3. CASE InboundStep
  <2>1. MailInv'
    BY <1>3, MailStepKeeps DEF IInv, InboundStep
  <2>2. AccountsTypeOK'
    BY <1>3, Budget
       DEF IInv, InboundStep, InboundNext, ReceiveMail, ResolveThread, FileMail, AckMail, IngestDies,
           Begin, Return, Continue
  <2> QED BY <1>3, <2>1, <2>2, AtRest DEF IInv, InboundStep
<1>4. CASE LimitStep
  <2>1. AccountsTypeOK'
    BY <1>4, Budget DEF IInv, LimitStep
  <2>2. ThrottleInv'
    BY <1>4, ThrottleStepKeeps DEF IInv, LimitStep
  <2> QED BY <1>4, <2>1, <2>2, AtRest DEF IInv, LimitStep
<1>5. CASE SettingStep
  <2>1. SettingInv'
    BY <1>5, SettingStepKeeps DEF IInv, SettingStep
  <2>2. AccountsTypeOK'
    BY <1>5, Budget
       DEF IInv, SettingStep, SettingsNext, UpdateSettings, PutSettings, Begin, Return, Continue
  <2> QED BY <1>5, <2>1, <2>2, AtRest DEF IInv, SettingStep, SettingInv
<1>6. CASE StreamStep
  <2>1. StreamInv'
    BY <1>6, StreamStepKeeps DEF IInv, StreamStep
  <2>2. AccountsTypeOK'
    BY <1>6, Budget DEF IInv, StreamStep
  <2> QED BY <1>6, <2>1, <2>2, AtRest DEF IInv, StreamStep
<1>8. CASE ViewStep
  <2>1. /\ gate \in {"notices", "list", "events", "bookmarks", "poster"} /\ gate' = gate
        /\ UNCHANGED <<secondFactorVars, cardVars, inboundVars, throttleVars, settingVars, streamVars>>
    BY <1>8 DEF ViewStep, ViewsNext
  <2>2. ViewsInv' /\ (gate \in {"list", "poster"} => call' \in [Slot -> {Idle}])
    BY <1>8, ViewStepKeeps DEF IInv, ViewStep
  <2>3. AccountsTypeOK'
    BY <1>8, ViewBudget DEF IInv, ViewStep
  <2> QED BY <2>1, <2>2, <2>3, AtRest DEF IInv
<1>7. CASE UNCHANGED vars
  <2>1. gate = "factor" => FactorInv'
    BY <1>7, FactorStutters DEF IInv, vars
  <2>2. AccountsTypeOK'
    BY <1>7, Budget DEF IInv, vars
  <2>3. gate = "card" => CardInv'
    BY <1>7 DEF IInv, vars, CardInv, CardsTypeOK, Handles, cardVars
  <2>4. gate = "mail" => MailInv'
    BY <1>7 DEF IInv, vars, MailInv, InboundTypeOK, InboundMailKept, Stored, Answers, inboundVars
  <2>5. gate = "settings" => SettingInv'
    BY <1>7, AtRest DEF IInv, vars, SettingInv, Puts, InOrder, settingVars
  <2> QED BY <1>7, <2>1, <2>2, <2>3, <2>4, <2>5, AtRest DEF IInv, vars
<1> QED BY <1>1, <1>2, <1>3, <1>4, <1>5, <1>6, <1>7, <1>8 DEF Next

LEMMA Safe ==
  ASSUME IInv
  PROVE  OneSessionEach /\ RecoveryCodesIssued /\ KeyExchangedOnce /\ InboundMailKept
         /\ SettingsKept /\ OneListener /\ LimitsHold
         /\ DueNoticeArrives /\ PagesComplete /\ BrowserFollows
<1>1. OneSessionEach /\ RecoveryCodesIssued
  <2>1. CASE gate = "factor"
    BY <2>1, FactorSafe DEF IInv
  <2>2. CASE gate # "factor"
    BY <2>2 DEF IInv, FactorRest, OneSessionEach, RecoveryCodesIssued, Issued
  <2> QED BY <2>1, <2>2
<1>2. KeyExchangedOnce
  <2>1. CASE gate = "card"
    BY <2>1, CardsSafe DEF IInv
  <2>2. CASE gate # "card"
    <3>1. \A c \in Slot : call[c] \notin CardCall
      <4>1. \A r \in CardCall : r.op \notin {"idle", "code", "confirm", "first", "codes", "consume", "respond",
                                          "assert", "register", "ingest", "filed", "file", "put"}
        BY DEF CardCall
      <4>2. \A r \in FactorCall : r.op \in {"code", "confirm", "first", "codes", "consume", "respond",
                                          "assert", "register"}
        BY DEF FactorCall
      <4>3. CASE gate = "factor"
        BY <4>1, <4>2, <4>3, IdleIsCall DEF IInv, FactorInv, TypesOK, AnyCall
      <4>4. CASE gate = "mail"
        BY <4>1, <4>4, IdleIsCall, MailFields DEF IInv, MailInv
      <4>5. CASE gate = "settings"
        BY <4>1, <4>5, IdleIsCall, SettingFields DEF IInv, SettingInv
      <4>6. CASE gate \in {"notices", "events", "bookmarks"}
        BY <4>6, ViewCalls, CardFields, IdleIsCall DEF IInv, ViewsInv
      <4>7. CASE gate \notin {"factor", "card", "mail", "settings", "notices", "events", "bookmarks"}
        BY <4>7, CardFields DEF IInv
      <4> QED BY <2>2, <4>3, <4>4, <4>5, <4>6, <4>7
    <3>2. \A k : {c \in Slot : call[c] \in CardCall /\ call[c].key = k} = {}
      BY <3>1
    <3>3. answered = {} /\ card = {}
      BY <2>2 DEF IInv, CardRest
    <3> QED BY <3>2, <3>3, FS_EmptySet DEF KeyExchangedOnce
  <2> QED BY <2>1, <2>2
<1>3. InboundMailKept
  BY DEF IInv, MailInv, MailRest, InboundMailKept
<1>4. SettingsKept /\ OneListener
  BY StreamSafe DEF IInv, SettingRest, SettingsKept
<1>5. DueNoticeArrives /\ PagesComplete /\ EventsCountedOnce /\ BrowserFollows
  BY NoticesSafe, ListingSafe, EventsSafe, BookmarksSafe, PosterSafe DEF IInv, ViewsInv, BrowserFollows
<1>6. LimitsHold
  BY <1>5 DEF IInv, ThrottleInv, LimitsHold
<1> QED BY <1>1, <1>2, <1>3, <1>4, <1>5, <1>6

LEMMA Inductive == Spec => []IInv
<1>1. Init => IInv
  BY Start
<1>2. IInv /\ [Next]_vars => IInv'
  BY StepKeepsAll
<1> QED BY <1>1, <1>2, PTL DEF Spec

\* What is in flight is of the protocol.
AnyGateCall == {Idle} \cup FactorCall \cup CardCall \cup IngestCall \cup SettingsCall \cup ViewCall

LEMMA TypesStart ==
  ASSUME Init
  PROVE  TypeOK
<1>0. IInv
  BY Start
<1>1. SecondFactorTypeOK
  <2>1. /\ 0 \in 0..0 /\ 0 \in 0..MaxSecrets /\ 0 \in 0..MaxStep /\ 1 \in Step
    BY SecondFactorAssumption DEF Step
  <2>2. token \in [Token -> {"none", "unused", "used"}]
    BY DEF Init, SecondFactorInit
  <2>3. /\ type \in [Challenge -> {"none", "auth", "register"}]
        /\ passes \in [Secret -> [Step -> Nat]] /\ sessions \in [Token -> Nat]
    BY DEF Init, SecondFactorInit
  <2>4. secret = 0 /\ drawn = 0 /\ lastUsed = 0 /\ step = 1 /\ rewound = {}
    BY DEF Init, SecondFactorInit
  <2>5. verified \in BOOLEAN /\ passkey \in BOOLEAN /\ abreast \in BOOLEAN
    BY DEF Init, SecondFactorInit
  <2> QED BY <2>1, <2>2, <2>3, <2>4, <2>5 DEF SecondFactorTypeOK
<1>2. CardsTypeOK
  BY DEF Init, CardsInit, CardsTypeOK
<1>3. InboundTypeOK
  BY InboundAssumption DEF Init, InboundInit, InboundTypeOK
<1>4. NoticesTypeOK
  <2>1. 0 \in 0..LastHour /\ 0 \in 0..MaxFaults /\ 0 \in 0..MaxChanges /\ Never \in 0..Never
    BY NoticesAssumption DEF Never
  <2> QED BY <2>1 DEF Init, ViewsInit, NoticesInit, NoticesTypeOK
<1>5. ListingTypeOK
  BY ListingAssumption DEF Init, ViewsInit, ListingInit, ListingTypeOK
<1>6. AdEventsTypeOK
  <2>1. NoWindow \in [startedAt : 0..(LastTime + 1), count : 0..MaxPerWindow]
    BY AdEventsAssumption DEF NoWindow
  <2>2. 0 \in 0..(LastTime + 1 + EventWindow) /\ 1 \in 1..(LastTime + 1)
    BY AdEventsAssumption
  <2> QED BY <2>1, <2>2 DEF Init, ViewsInit, AdEventsInit, AdEventsTypeOK
<1>7. BookmarksTypeOK
  BY DEF Init, ViewsInit, BookmarksInit, BookmarksTypeOK
<1>8. gate \in Gate
  BY DEF Init
<1>9. call \in [Slot -> {Idle} \cup FactorCall \cup CardCall \cup IngestCall \cup SettingsCall \cup ViewCall]
  BY DEF Init, RequestsInit
<1> QED BY <1>0, <1>1, <1>2, <1>3, <1>4, <1>5, <1>6, <1>7, <1>8, <1>9
       DEF TypeOK, ViewsTypeOK, IInv, ThrottleInv, SettingRest, StreamInv, ViewsInv, PosterInv

\* The types of the views.
LEMMA ViewsTyped ==
  ASSUME IInv, IInv', ViewsTypeOK, ViewsNext(gate), UNCHANGED gate
  PROVE  ViewsTypeOK'
<1> USE DEF ViewsTypeOK
<1>0. PosterTypeOK'
  BY DEF IInv, ViewsInv, PosterInv
<1>1. UNCHANGED noticeVars => NoticesTypeOK'
  BY DEF noticeVars, NoticesTypeOK
<1>2. UNCHANGED listingVars => ListingTypeOK'
  BY DEF listingVars, ListingTypeOK
<1>3. UNCHANGED adEventVars => AdEventsTypeOK'
  BY DEF adEventVars, AdEventsTypeOK
<1>4. UNCHANGED bookmarkVars => BookmarksTypeOK'
  BY DEF bookmarkVars, BookmarksTypeOK
<1>5. CASE gate = "notices" /\ NoticesStep
  <2>1. NoticesTypeOK'
    BY <1>5, NoticesTyped DEF NoticesStep, IInv, ViewsInv, NoticesInv
  <2> QED BY <1>0, <1>2, <1>3, <1>4, <1>5, <2>1 DEF NoticesStep
<1>6. CASE gate = "list" /\ ListingStep
  BY <1>0, <1>1, <1>3, <1>4, <1>6, ListingTyped DEF ListingStep
<1>7. CASE gate = "events" /\ AdEventsStep
  <2>1. AdEventsTypeOK'
    BY <1>7, EventsTyped DEF AdEventsStep, IInv, ViewsInv
  <2> QED BY <1>0, <1>1, <1>2, <1>4, <1>7, <2>1 DEF AdEventsStep
<1>8. CASE gate = "bookmarks" /\ BookmarksStep
  <2>1. BookmarksTypeOK'
    BY <1>8 DEF IInv, ViewsInv, BookmarksInv, BookmarksTypeOK
  <2> QED BY <1>0, <1>1, <1>2, <1>3, <1>8, <2>1 DEF BookmarksStep
<1>9. CASE gate = "poster" /\ PosterStep
  BY <1>0, <1>1, <1>2, <1>3, <1>4, <1>9 DEF PosterStep
<1> QED BY <1>5, <1>6, <1>7, <1>8, <1>9 DEF ViewsNext

LEMMA FlagsTyped ==
  ASSUME verified \in BOOLEAN, passkey \in BOOLEAN, abreast \in BOOLEAN, SecondFactorNext
  PROVE  verified' \in BOOLEAN /\ passkey' \in BOOLEAN /\ abreast' \in BOOLEAN
<1> USE DEF totpVars, tokenVars, secondFactorVars
<1>1. CASE Tick \/ SetupTotp \/ DeleteTotp \/ DeletePasskey
  BY <1>1 DEF Tick, SetupTotp, DeleteTotp, DeletePasskey
<1>2. ASSUME NEW n \in Challenge, NEW kind \in {"auth", "register"}, StoreChallenge(n, kind)
      PROVE  verified' \in BOOLEAN /\ passkey' \in BOOLEAN /\ abreast' \in BOOLEAN
  BY <1>2 DEF StoreChallenge
<1>3. ASSUME NEW c \in Slot,
             \/ WriteConfirmation(c) \/ CountPasskeys(c) \/ GenerateRecoveryCodes(c)
             \/ UseCode(c) \/ RegenerateRecoveryCodes(c)
             \/ ReadChallenge(c) \/ ConsumeToken(c) \/ AssertPasskey(c) \/ SavePasskey(c)
      PROVE  verified' \in BOOLEAN /\ passkey' \in BOOLEAN /\ abreast' \in BOOLEAN
  BY <1>3
     DEF WriteConfirmation, CountPasskeys, GenerateRecoveryCodes, UseCode, RegenerateRecoveryCodes,
         ReadChallenge, ConsumeToken, AssertPasskey, SavePasskey
<1>4. ASSUME NEW c \in Slot,
             \/ \E s \in Step : ConfirmTotp(c, s) \/ VerifyTotpCode(c, s)
             \/ \E p \in RecoveryCode : PresentRecoveryCode(c, p)
             \/ \E n \in Challenge : AnswerChallenge(c, n)
      PROVE  verified' \in BOOLEAN /\ passkey' \in BOOLEAN /\ abreast' \in BOOLEAN
  BY <1>4 DEF ConfirmTotp, VerifyTotpCode, PresentRecoveryCode, AnswerChallenge
<1> QED BY <1>1, <1>2, <1>3, <1>4 DEF SecondFactorNext

LEMMA TypesKept ==
  ASSUME IInv, TypeOK, [Next]_vars
  PROVE  TypeOK'
<1>0. IInv' /\ AccountsTypeOK' /\ ThrottleTypeOK' /\ SettingsTypeOK' /\ StreamTypeOK'
  BY StepKeepsAll DEF IInv, ThrottleInv, SettingRest, StreamInv
<1>1. call' \in [Slot -> AnyGateCall]
  <2> USE DEF AnyGateCall
  <2>1. CASE gate' = "factor"
    BY <1>0, <2>1 DEF IInv, FactorInv, TypesOK, AnyCall
  <2>2. CASE gate' = "card"
    BY <1>0, <2>2 DEF IInv, CardInv
  <2>3. CASE gate' = "mail"
    BY <1>0, <2>3 DEF IInv, MailInv
  <2>4. CASE gate' = "settings"
    BY <1>0, <2>4 DEF IInv, SettingInv
  <2>5. CASE gate' \in {"notices", "events", "bookmarks"}
    BY <1>0, <2>5 DEF IInv, ViewsInv, NoticesInv, ScanInv, EventsInv, BookmarksInv, ViewCall
  <2>6. CASE gate' \notin {"factor", "card", "mail", "settings", "notices", "events", "bookmarks"}
    BY <1>0, <2>6 DEF IInv
  <2> QED BY <2>1, <2>2, <2>3, <2>4, <2>5, <2>6
<1>2. UNCHANGED gate
  BY DEF Next, vars, FactorStep, CardStep, InboundStep, LimitStep, SettingStep, StreamStep, ViewStep
<1>3. SecondFactorTypeOK'
  <2>1. CASE FactorStep
    <3>1. FactorInv'
      BY <1>0, <1>2, <2>1 DEF IInv, FactorStep
    <3>2. (verified \in BOOLEAN)' /\ (passkey \in BOOLEAN)' /\ (abreast \in BOOLEAN)'
      BY <2>1, FlagsTyped DEF FactorStep, TypeOK, SecondFactorTypeOK
    <3> QED BY <3>1, <3>2 DEF FactorInv, TypesOK, ValuesOK, SecondFactorTypeOK
  <2>2. CASE UNCHANGED secondFactorVars
    BY <2>2 DEF TypeOK, SecondFactorTypeOK, secondFactorVars, totpVars, tokenVars
  <2> QED BY <2>1, <2>2 DEF Next, vars, CardStep, InboundStep, LimitStep, SettingStep, StreamStep, ViewStep
<1>4. CardsTypeOK'
  <2>1. CASE CardStep
    BY <1>0, <1>2, <2>1 DEF IInv, CardStep, CardInv
  <2>2. CASE UNCHANGED cardVars
    BY <2>2 DEF TypeOK, CardsTypeOK, cardVars
  <2> QED BY <2>1, <2>2 DEF Next, vars, FactorStep, InboundStep, LimitStep, SettingStep, StreamStep, ViewStep
<1>5. InboundTypeOK'
  <2>1. CASE InboundStep
    BY <1>0, <1>2, <2>1 DEF IInv, InboundStep, MailInv
  <2>2. CASE UNCHANGED inboundVars
    BY <2>2 DEF TypeOK, InboundTypeOK, inboundVars
  <2> QED BY <2>1, <2>2 DEF Next, vars, FactorStep, CardStep, LimitStep, SettingStep, StreamStep, ViewStep
<1>6. ViewsTypeOK'
  <2>1. CASE ViewStep
    BY <1>0, <1>2, <2>1, ViewsTyped DEF TypeOK, ViewStep
  <2>2. CASE UNCHANGED viewVars
    <3>1. NoticesTypeOK'
      BY <2>2 DEF TypeOK, ViewsTypeOK, viewVars, noticeVars, NoticesTypeOK
    <3>2. ListingTypeOK'
      BY <2>2 DEF TypeOK, ViewsTypeOK, viewVars, listingVars, ListingTypeOK
    <3>3. AdEventsTypeOK'
      BY <2>2 DEF TypeOK, ViewsTypeOK, viewVars, adEventVars, AdEventsTypeOK
    <3>4. BookmarksTypeOK'
      BY <2>2 DEF TypeOK, ViewsTypeOK, viewVars, bookmarkVars, BookmarksTypeOK
    <3>5. PosterTypeOK'
      BY <1>0 DEF IInv, ViewsInv, PosterInv
    <3> QED BY <3>1, <3>2, <3>3, <3>4, <3>5 DEF ViewsTypeOK
  <2> QED BY <2>1, <2>2 DEF Next, vars, FactorStep, CardStep, InboundStep, LimitStep, SettingStep, StreamStep
<1>7. (gate \in Gate)'
  BY <1>2 DEF TypeOK
<1> QED BY <1>0, <1>1, <1>3, <1>4, <1>5, <1>6, <1>7 DEF TypeOK, AnyGateCall

\* Every protocol keeps to the states it declares, those it is not about too.
THEOREM GatewayTypes == Spec => []TypeOK
<1>1. Init => TypeOK
  BY TypesStart
<1>2. IInv /\ TypeOK /\ [Next]_vars => TypeOK'
  BY TypesKept
<1> QED BY <1>1, <1>2, Inductive, PTL DEF Spec

\* A one-time code, a recovery code and a passkey challenge open at most one
\* session each, in whatever order requests present, revoke and delete them.
THEOREM CodesOpenOneSession == Spec => []OneSessionEach
<1>1. IInv => OneSessionEach
  BY Safe
<1> QED BY <1>1, Inductive, PTL

\* An account with a second factor has been given recovery codes, or a call
\* is about to make them, unless two first methods were set up at once.
THEOREM FirstMethodBringsCodes == Spec => []RecoveryCodesIssued
<1>1. IInv => RecoveryCodesIssued
  BY Safe
<1> QED BY <1>1, Inductive, PTL

\* A one-time key of Toss has one handler, is not taken to Toss again after an
\* answer, and its card is found unless its handler died.
THEOREM KeyHasOneHandler == Spec => []KeyExchangedOnce
<1>1. IInv => KeyExchangedOnce
  BY Safe
<1> QED BY <1>1, Inductive, PTL

\* A mail leaves the queue only when it is stored, and lies in the thread of
\* the mail it answers unless it was received first.
THEOREM MailIsFiled == Spec => []InboundMailKept
<1>1. IInv => InboundMailKept
  BY Safe
<1> QED BY <1>1, Inductive, PTL

\* No window that ends before it starts is ever stored; updates that do not
\* overlap change no key they do not name.
THEOREM WindowStaysInOrder == Spec => []SettingsKept
<1>1. IInv => SettingsKept
  BY Safe
<1> QED BY <1>1, Inductive, PTL

\* However connections fail, a server listens once or waits for one timer,
\* and after it stopped does neither.
THEOREM ListensOnce == Spec => []OneListener
<1>1. IInv => OneListener
  BY Safe
<1> QED BY <1>1, Inductive, PTL

\* A notice that its user wanted for all of its time is made, unless no scan
\* went well for as many hours in a row.
THEOREM NoticesArrive == Spec => []DueNoticeArrives
<1>1. IInv => DueNoticeArrives
  BY Safe
<1> QED BY <1>1, Inductive, PTL

\* Who reads the list to its end sees each row that stayed in it once.
THEOREM ListIsComplete == Spec => []PagesComplete
<1>1. IInv => PagesComplete
  BY Safe
<1> QED BY <1>1, Inductive, PTL

\* An event is counted once in a window's time, and at most twice the limit of
\* them; no window of the ttl, less the skew of the clocks, lets in more
\* requests of a key than its limit, blocked or not.
THEOREM LimitsAreKept == Spec => []LimitsHold
<1>1. IInv => LimitsHold
  BY Safe
<1> QED BY <1>1, Inductive, PTL

\* A browser at rest shows the bookmarks of the server, and a poster with what
\* belongs to it, however many toggles and picks have overlapped.
THEOREM BrowserKeepsUp == Spec => []BrowserFollows
<1>1. IInv => BrowserFollows
  BY Safe
<1> QED BY <1>1, Inductive, PTL
=============================================================================
