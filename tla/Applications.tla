---------------------------- MODULE Applications ----------------------------
(***************************************************************************)
(* Applications for a challenge and the orders that pay for them, as       *)
(* written in                                                              *)
(*   src/server/src/modules/applications/applications.service.ts,          *)
(*     effective-application.ts                                            *)
(*   src/server/src/modules/orders/orders.service.ts                       *)
(*                                                                         *)
(* apply is one transaction without locks, and no index stops a second     *)
(* application of a user: each statement sees what has been committed.     *)
(* The capacity of a challenge is left out: no code writes that column.    *)
(***************************************************************************)
EXTENDS Challenges

CONSTANTS
  App,        \* application rows
  NoUser,
  MaxOrders   \* bound: orders of one application

ASSUME ApplicationsAssumption == /\ NoUser \notin User
                                 /\ MaxOrders \in Nat

VARIABLES
  applicant,  \* applications.userId, NoUser without a row
  locked,     \* applications.status is reviewing, accepted or rejected
  answers,    \* rows whose answers and team mates are not empty
  orders,     \* statuses of the orders of a row, by creation
  twice       \* history: users with two calls of apply in flight at once

applicationVars == <<applicant, locked, answers, orders, twice>>

ApplyCall ==
       [op : {"apply"}, by : User, priced : BOOLEAN]
  \cup [op : {"order", "bill"}, by : User, app : App]
EditCall == [op : {"edit"}, by : User, app : App]

ApplicationsTypeOK ==
  /\ applicant \in [App -> User \cup {NoUser}]
  /\ locked \subseteq App
  /\ answers \subseteq App
  /\ orders \in [App -> Seq({"pending", "paid", "canceled"})]
  /\ twice \subseteq User

ApplicationsInit ==
  /\ applicant = [a \in App |-> NoUser]
  /\ locked = {}
  /\ answers = {}
  /\ orders = [a \in App |-> <<>>]
  /\ twice = {}

Of(u) == {a \in App : applicant[a] = u}
Applying(u) == {c \in Slot : call[c].op \in {"apply", "order", "bill"} /\ call[c].by = u}

\* effectiveApplicationCondition: free of charge, or paid.
Effective(a) ==
  /\ applicant[a] # NoUser
  /\ orders[a] = <<>> \/ \E i \in DOMAIN orders[a] : orders[a][i] = "paid"

Apply_EditableOnly(c, u) ==
  /\ posting # "none" /\ visible
  /\ IF Of(u) \ locked = {}
     THEN /\ posting = "published"
          /\ Begin(c, u, [op |-> "apply", by |-> u, priced |-> priced])
     ELSE /\ priced
          /\ \E a \in Of(u) : Begin(c, u, [op |-> "order", by |-> u, app |-> a])
  /\ twice' = IF Applying(u) = {} THEN twice ELSE twice \cup {u}
  /\ UNCHANGED <<accountVars, challengeVars, applicant, locked, answers, orders>>

\* apply: reads the challenge and an existing application. A retry works on
\* the existing one, even when the challenge is closed; on a free challenge
\* it returns.
Apply(c, u) ==
  /\ posting # "none" /\ visible
  /\ IF Of(u) = {}
     THEN /\ posting = "published"
          /\ Begin(c, u, [op |-> "apply", by |-> u, priced |-> priced])
     ELSE /\ priced
          /\ \E a \in Of(u) : Begin(c, u, [op |-> "order", by |-> u, app |-> a])
  /\ twice' = IF Applying(u) = {} THEN twice ELSE twice \cup {u}
  /\ UNCHANGED <<accountVars, challengeVars, applicant, locked, answers, orders>>

InsertApplication_BilledLater(c) ==
  /\ call[c].op = "apply"
  /\ \E a \in App :
       /\ applicant[a] = NoUser
       /\ applicant' = [applicant EXCEPT ![a] = call[c].by]
       /\ answers' = answers \cup {a}
       /\ IF call[c].priced
          THEN Continue(c, [op |-> "bill", by |-> call[c].by, app |-> a])
          ELSE Return(c)
  /\ UNCHANGED <<accountVars, challengeVars, locked, orders, twice>>

\* The application and its first order are committed together.
InsertApplication(c) ==
  /\ call[c].op = "apply"
  /\ \E a \in App :
       /\ applicant[a] = NoUser
       /\ applicant' = [applicant EXCEPT ![a] = call[c].by]
       /\ answers' = answers \cup {a}
       /\ orders' = [orders EXCEPT ![a] = IF call[c].priced THEN <<"pending">> ELSE <<>>]
  /\ Return(c)
  /\ UNCHANGED <<accountVars, challengeVars, locked, twice>>

Payable_Oldest(s) == s # <<>> /\ s[1] \in {"pending", "paid"}

\* The latest order is paid, or pending and used again.
Payable(s) == s # <<>> /\ s[Len(s)] \in {"pending", "paid"}

FindOrder(c) ==
  /\ call[c].op = "order"
  /\ IF Payable(orders[call[c].app])
     THEN Return(c)
     ELSE Continue(c, [call[c] EXCEPT !.op = "bill"])
  /\ UNCHANGED <<accountVars, challengeVars, applicationVars>>

InsertOrder(c) ==
  /\ call[c].op = "bill"
  /\ LET a == call[c].app
     IN /\ Len(orders[a]) < MaxOrders
        /\ orders' = [orders EXCEPT ![a] = Append(@, "pending")]
  /\ Return(c)
  /\ UNCHANGED <<accountVars, challengeVars, applicant, locked, answers, twice>>

\* settleOrderPaid and cancelOrder hold the lock of the order.
SetOrder(a, i, from, to) ==
  /\ i \in DOMAIN orders[a]
  /\ orders[a][i] \in from
  /\ orders' = [orders EXCEPT ![a][i] = to]
  /\ UNCHANGED <<call, calls, accountVars, challengeVars, applicant, locked, answers, twice>>

SettleOrderPaid(a, i) == SetOrder(a, i, {"pending"}, "paid")
CancelOrder(a, i) == SetOrder(a, i, {"pending", "paid"}, "canceled")

\* update by the applicant: refused once the business has begun its review.
EditApplication(c, a) ==
  /\ applicant[a] # NoUser
  /\ a \notin locked
  /\ Begin(c, applicant[a], [op |-> "edit", by |-> applicant[a], app |-> a])
  /\ UNCHANGED <<accountVars, challengeVars, applicationVars>>

WriteAnswers(c) ==
  /\ call[c].op = "edit"
  /\ answers' = answers \cup {call[c].app}
  /\ Return(c)
  /\ UNCHANGED <<accountVars, challengeVars, applicant, locked, orders, twice>>

\* update by the business: any status after any other.
ReviewApplication(a) ==
  /\ applicant[a] # NoUser
  /\ Decree
  /\ locked' = IF a \in locked THEN locked \ {a} ELSE locked \cup {a}
  /\ UNCHANGED <<call, calls, accountVars, posting, visible, priced, autoPublish, repriced,
                 applicant, answers, orders, twice>>

ApplicationsNext ==
  \/ \E c \in Slot :
       \/ InsertApplication(c) \/ FindOrder(c) \/ InsertOrder(c) \/ WriteAnswers(c)
       \/ \E u \in User : Apply(c, u)
       \/ \E a \in App : EditApplication(c, a)
  \/ \E a \in App :
       \/ ReviewApplication(a)
       \/ \E i \in 1..MaxOrders : SettleOrderPaid(a, i) \/ CancelOrder(a, i)

-----------------------------------------------------------------------------
\* "A retry reuses the existing application and its payable pending order":
\* whatever is settled, canceled and retried, a user has one application, and
\* it has one order that is paid or can be, unless two of the user's calls were
\* in flight at once.
OneApplicationOneOrder ==
  \A u \in User \ twice :
    /\ Cardinality(Of(u)) <= 1
    /\ \A a \in Of(u) :
         Cardinality({i \in DOMAIN orders[a] : orders[a][i] # "canceled"}) <= 1

\* An application that was received stays received until the order that paid
\* for it is canceled, or until a free one is billed by a retry because
\* the business has put a price on the challenge since.
EffectiveUntilCanceled ==
  [][\A a \in App : Effective(a) /\ ~Effective(a)' =>
       \/ orders[a] = <<>> /\ repriced
       \/ \E i \in DOMAIN orders[a] : orders[a][i] = "paid" /\ orders'[a][i] = "canceled"
    ]_<<applicant, orders>>
=============================================================================
