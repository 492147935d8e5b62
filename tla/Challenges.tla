----------------------------- MODULE Challenges -----------------------------
(***************************************************************************)
(* Postings of a business and the decisions of admins on them, as written  *)
(* in                                                                      *)
(*   src/server/src/modules/challenges/challenges.service.ts               *)
(*   src/server/src/modules/admin/admin.service.ts (publishChallenge,      *)
(*     rejectChallenge)                                                    *)
(*                                                                         *)
(* One posting. Its dates are left out: before and after them an           *)
(* application is refused as on a posting that is not published.           *)
(***************************************************************************)
EXTENDS Requests

CONSTANT MaxDecrees   \* bound: changes of a setting or a price, decisions of admins

ASSUME ChallengesAssumption == MaxDecrees \in Nat

VARIABLES
  posting,      \* challenges.status, "none" before the insert
  visible,      \* challenges.visibility is public
  priced,       \* challenges.price > 0
  autoPublish,  \* the setting contestAutoPublish
  repriced,     \* history: the price has changed since the posting was created
  decrees

challengeVars == <<posting, visible, priced, autoPublish, repriced, decrees>>

Stages == {"draft", "published", "closed", "rejected"}

\* moved: history, the status has changed since the handler read it.
ChallengeCall == [op : {"move"}, to : {"published", "closed"}, moved : BOOLEAN]

ChallengesTypeOK ==
  /\ posting \in Stages \cup {"none"}
  /\ visible \in BOOLEAN
  /\ priced \in BOOLEAN
  /\ autoPublish \in BOOLEAN
  /\ repriced \in BOOLEAN
  /\ decrees \in 0..MaxDecrees

ChallengesInit ==
  /\ posting = "none"
  /\ visible = TRUE
  /\ priced \in BOOLEAN
  /\ autoPublish \in BOOLEAN
  /\ repriced = FALSE
  /\ decrees = 0

Decree == decrees < MaxDecrees /\ decrees' = decrees + 1

\* Whoever changes the status makes the reads of the calls in flight stale.
Outdated(c) == IF call[c].op = "move" THEN [call[c] EXCEPT !.moved = TRUE] ELSE call[c]

SetPosting(stage) ==
  /\ posting' = stage
  /\ call' = [c \in Slot |-> Outdated(c)]

\* create: a posting waits for an admin unless the setting publishes it.
CreateChallenge(requested) ==
  /\ posting = "none"
  /\ SetPosting(IF requested = "published" /\ ~autoPublish THEN "draft" ELSE requested)
  /\ UNCHANGED <<calls, visible, priced, autoPublish, repriced, decrees, accountVars>>

\* update: any field at any time, the status apart.
UpdateChallenge ==
  /\ posting # "none"
  /\ Decree
  /\ \/ visible' = ~visible /\ UNCHANGED <<priced, repriced>>
     \/ priced' = ~priced /\ repriced' = TRUE /\ UNCHANGED visible
  /\ UNCHANGED <<call, calls, posting, autoPublish, accountVars>>

Allowed == {<<"draft", "published">>, <<"published", "closed">>}

UpdateStatus(c, to) ==
  /\ <<posting, to>> \in Allowed
  /\ posting = "draft" => autoPublish
  /\ Begin(c, Staff, [op |-> "move", to |-> to, moved |-> FALSE])
  /\ UNCHANGED <<challengeVars, accountVars>>

\* The update is by id, whatever the status has become.
WriteStatus(c) ==
  /\ call[c].op = "move"
  /\ posting' = call[c].to
  /\ call' = [d \in Slot |-> IF d = c THEN Idle ELSE Outdated(d)]
  /\ UNCHANGED <<calls, visible, priced, autoPublish, repriced, decrees, accountVars>>

PublishChallenge_AnyStage ==
  /\ posting \notin {"none", "published"}
  /\ Decree
  /\ SetPosting("published")
  /\ UNCHANGED <<calls, visible, priced, autoPublish, repriced, accountVars>>

\* Admins decide in one conditional update.
PublishChallenge ==
  /\ posting = "draft"
  /\ Decree
  /\ SetPosting("published")
  /\ UNCHANGED <<calls, visible, priced, autoPublish, repriced, accountVars>>

RejectChallenge ==
  /\ posting \notin {"none", "rejected"}
  /\ Decree
  /\ SetPosting("rejected")
  /\ UNCHANGED <<calls, visible, priced, autoPublish, repriced, accountVars>>

SetAutoPublish ==
  /\ Decree
  /\ autoPublish' = ~autoPublish
  /\ UNCHANGED <<call, calls, posting, visible, priced, repriced, accountVars>>

ChallengesNext ==
  \/ \E requested \in {"draft", "published"} : CreateChallenge(requested)
  \/ UpdateChallenge \/ PublishChallenge \/ RejectChallenge \/ SetAutoPublish
  \/ \E c \in Slot : WriteStatus(c) \/ \E to \in {"published", "closed"} : UpdateStatus(c, to)

-----------------------------------------------------------------------------
\* "draft -> published -> closed; no other transition is valid", and what an
\* admin rejected stays rejected: any other change is the late write of a
\* call that was under way at an earlier change.
NoOtherTransition ==
  [][posting' # posting =>
       \/ posting = "none"
       \/ <<posting, posting'>> \in Allowed
       \/ posting' = "rejected"
       \/ \E c \in Slot : /\ call[c].op = "move"
                          /\ call[c].moved /\ call'[c] = Idle]_<<posting, call>>
=============================================================================
