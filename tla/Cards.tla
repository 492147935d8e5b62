------------------------------- MODULE Cards --------------------------------
(***************************************************************************)
(* Registration of a card: the one-time authKey of a card entry is         *)
(* exchanged at Toss for a billing key, as written in                      *)
(*   src/server/src/modules/billing/billing.service.ts (issueCard)         *)
(*                                                                         *)
(* Toss exchanges a key once. A retry that finds the attempt of its key    *)
(* returns the linked card or a conflict and changes nothing.              *)
(***************************************************************************)
EXTENDS Requests

CONSTANT AuthKey

VARIABLES
  attempt,    \* billing_auth_attempts by key: "none", "open", "linked"
  spent,      \* at Toss: keys that were exchanged
  card,       \* payment_cards, by the key they came from
  answered,   \* history: keys for which an answer of Toss has arrived
  orphaned    \* history: keys whose handler died

cardVars == <<attempt, spent, card, answered, orphaned>>

CardCall == [op : {"exchange", "forget", "save", "link"}, key : AuthKey]

CardsTypeOK ==
  /\ attempt \in [AuthKey -> {"none", "open", "linked"}]
  /\ spent \cup card \cup answered \cup orphaned \subseteq AuthKey

CardsInit ==
  /\ attempt = [k \in AuthKey |-> "none"]
  /\ spent = {} /\ card = {} /\ answered = {} /\ orphaned = {}

\* The unique hash of the key lets one handler in.
IssueCard(c, k) ==
  /\ attempt[k] = "none"
  /\ Begin(c, Staff, [op |-> "exchange", key |-> k])
  /\ attempt' = [attempt EXCEPT ![k] = "open"]
  /\ UNCHANGED <<accountVars, spent, card, answered, orphaned>>

Stage(c, op) == Continue(c, [call[c] EXCEPT !.op = op])

IsAt(c, op) == call[c].op = op

ExchangeAnswered_ForgetRefused(c) ==
  /\ IsAt(c, "exchange")
  /\ answered' = answered \cup {call[c].key}
  /\ \/ call[c].key \notin spent /\ spent' = spent \cup {call[c].key} /\ Stage(c, "save")
     \/ UNCHANGED spent /\ Stage(c, "forget")
  /\ UNCHANGED <<accountVars, attempt, card, orphaned>>

\* An answer arrived: the attempt stays, also when Toss refuses the key.
ExchangeAnswered(c) ==
  /\ IsAt(c, "exchange")
  /\ answered' = answered \cup {call[c].key}
  /\ \/ call[c].key \notin spent /\ spent' = spent \cup {call[c].key} /\ Stage(c, "save")
     \/ UNCHANGED spent /\ Return(c)
  /\ UNCHANGED <<accountVars, attempt, card, orphaned>>

\* No answer: Toss may or may not have exchanged the key.
ExchangeLost(c) ==
  /\ IsAt(c, "exchange")
  /\ spent' \in {spent, spent \cup {call[c].key}}
  /\ Stage(c, "forget")
  /\ UNCHANGED <<accountVars, attempt, card, answered, orphaned>>

ForgetAttempt(c) ==
  /\ IsAt(c, "forget")
  /\ attempt' = [attempt EXCEPT ![call[c].key] = "none"]
  /\ Return(c)
  /\ UNCHANGED <<accountVars, spent, card, answered, orphaned>>

SaveCard(c) ==
  /\ IsAt(c, "save")
  /\ card' = card \cup {call[c].key}
  /\ Stage(c, "link")
  /\ UNCHANGED <<accountVars, attempt, spent, answered, orphaned>>

LinkCard(c) ==
  /\ IsAt(c, "link")
  /\ attempt' = [attempt EXCEPT ![call[c].key] = "linked"]
  /\ Return(c)
  /\ UNCHANGED <<accountVars, spent, card, answered, orphaned>>

IssueDies(c) ==
  /\ call[c] \in CardCall
  /\ orphaned' = orphaned \cup {call[c].key}
  /\ Return(c)
  /\ UNCHANGED <<accountVars, attempt, spent, card, answered>>

CardsNext ==
  \E c \in Slot :
    \/ ExchangeAnswered(c) \/ ExchangeLost(c) \/ ForgetAttempt(c)
    \/ SaveCard(c) \/ LinkCard(c) \/ IssueDies(c)
    \/ \E k \in AuthKey : IssueCard(c, k)

-----------------------------------------------------------------------------
\* "Toss is not called again with the same one-time key": one handler holds
\* a key at a time, and once an answer has arrived no other takes it to Toss.
\* "A stored card is not reported as a failure": a retry finds the card of
\* its key unless the handler that stored it has died.
KeyExchangedOnce ==
  \A k \in AuthKey :
    /\ Cardinality({c \in Slot : call[c] \in CardCall /\ call[c].key = k}) <= 1
    /\ k \in answered => attempt[k] # "none" /\ \A c \in Slot : ~(IsAt(c, "exchange") /\ call[c].key = k)
    /\ k \in card \ orphaned => attempt[k] = "linked" \/ \E c \in Slot : IsAt(c, "link") /\ call[c].key = k
=============================================================================
