------------------------------ MODULE Portfolio ------------------------------
(***************************************************************************)
(* The links of a profile and the portfolio badges that admins give them,  *)
(* as written in                                                           *)
(*   src/server/src/modules/users/users.service.ts (updateProfile)         *)
(*   src/server/src/modules/admin/admin.service.ts (reviewPortfolioBadge)  *)
(*                                                                         *)
(* All links of a user are one JSON value: a save and a decision both read *)
(* it, compute, and write it back. They lock the row of the user meanwhile.*)
(***************************************************************************)
EXTENDS Requests

CONSTANT Link

VARIABLES
  links,      \* users.externalLinks, by user and url
  wish,       \* history: the links of the last save of a user
  granted     \* history: links that an admin approved and every save since has
              \* asked a badge for

portfolioVars == <<links, wish, granted>>

Badge == {"plain", "pending", "approved"}
Form == [Link -> {"absent", "plain", "flagged"}]

ProfileCall ==
       [op : {"save"}, by : User, form : Form]
  \cup [op : {"store"}, by : User, form : Form, approved : SUBSET Link]
  \cup [op : {"review"}, of : User, link : Link, approve : BOOLEAN]
  \cup [op : {"settle"}, of : User, link : Link, approve : BOOLEAN,
        read : [Link -> Badge \cup {"absent"}]]

PortfolioTypeOK ==
  /\ links \in [User -> [Link -> Badge \cup {"absent"}]]
  /\ wish \in [User -> Form]
  /\ granted \in [User -> SUBSET Link]

Blank == [l \in Link |-> "absent"]

PortfolioInit ==
  /\ links = [u \in User |-> Blank]
  /\ wish = [u \in User |-> Blank]
  /\ granted = [u \in User |-> {}]

RowFree_Unlocked(u) == TRUE

\* SELECT ... FOR UPDATE, and the update of a withdrawal, wait for the row.
RowFree(u) ==
  \A c \in Slot :
    /\ call[c].op = "store" => call[c].by # u
    /\ call[c].op = "settle" => call[c].of # u

SaveProfile(c, u, form) ==
  /\ Begin(c, u, [op |-> "save", by |-> u, form |-> form])
  /\ UNCHANGED <<accountVars, portfolioVars>>

\* sanitizeExternalLinks: the links that are approved by now.
ReadApproved(c) ==
  /\ call[c].op = "save"
  /\ LET u == call[c].by
     IN /\ RowFree(u)
        /\ Continue(c, [op |-> "store", by |-> u, form |-> call[c].form,
                        approved |-> {l \in Link : links[u][l] = "approved"}])
  /\ UNCHANGED <<accountVars, portfolioVars>>

Saved(form, approved) ==
  [l \in Link |-> IF form[l] # "flagged" THEN form[l]
                  ELSE IF l \in approved THEN "approved" ELSE "pending"]

StoreLinks(c) ==
  /\ call[c].op = "store"
  /\ LET u == call[c].by
         form == call[c].form
     IN /\ links' = [links EXCEPT ![u] = Saved(form, call[c].approved)]
        /\ wish' = [wish EXCEPT ![u] = form]
        /\ granted' = [granted EXCEPT ![u] = {l \in @ : form[l] = "flagged"}]
  /\ Return(c)
  /\ UNCHANGED accountVars

\* Admins pick from a list of the links that are pending.
ReviewPortfolioBadge(c, u, l, approve) ==
  /\ links[u][l] = "pending"
  /\ Begin(c, Staff, [op |-> "review", of |-> u, link |-> l, approve |-> approve])
  /\ UNCHANGED <<accountVars, portfolioVars>>

\* A link that is not pending any more is a conflict.
ReadPending(c) ==
  /\ call[c].op = "review"
  /\ LET u == call[c].of
     IN /\ RowFree(u)
        /\ IF links[u][call[c].link] = "pending"
           THEN Continue(c, [op |-> "settle", of |-> u, link |-> call[c].link,
                             approve |-> call[c].approve, read |-> links[u]])
           ELSE Return(c)
  /\ UNCHANGED <<accountVars, portfolioVars>>

SettleBadge(c) ==
  /\ call[c].op = "settle"
  /\ LET u == call[c].of
         l == call[c].link
         approve == call[c].approve
     IN /\ links' = [links EXCEPT ![u] = [call[c].read EXCEPT ![l] =
                       IF approve THEN "approved" ELSE "plain"]]
        /\ granted' = [granted EXCEPT ![u] = IF approve THEN @ \cup {l} ELSE @]
  /\ Return(c)
  /\ UNCHANGED <<accountVars, wish>>

\* What a withdrawal of u does to the profile.
ForgetLinks(u) ==
  /\ links' = [links EXCEPT ![u] = Blank]
  /\ wish' = [wish EXCEPT ![u] = Blank]
  /\ granted' = [granted EXCEPT ![u] = {}]

PortfolioNext ==
  \E c \in Slot :
    \/ ReadApproved(c) \/ StoreLinks(c) \/ ReadPending(c) \/ SettleBadge(c)
    \/ \E u \in User :
         \/ \E form \in Form : SaveProfile(c, u, form)
         \/ \E l \in Link, approve \in BOOLEAN : ReviewPortfolioBadge(c, u, l, approve)

-----------------------------------------------------------------------------
\* "The row is locked so that no update is lost when a save, an approval and
\* another approval of the same user overlap", and "only an admin gives the
\* badge": the profile has the links of the user's last save, with the badge
\* on exactly those an admin has approved since the user first asked for it.
PortfolioKept ==
  \A u \in User, l \in Link :
    /\ links[u][l] = "absent" <=> wish[u][l] = "absent"
    /\ links[u][l] = "approved" <=> l \in granted[u]
    /\ links[u][l] = "pending" => wish[u][l] = "flagged"
=============================================================================
