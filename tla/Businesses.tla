----------------------------- MODULE Businesses -----------------------------
(***************************************************************************)
(* Who owns a business, as written in                                      *)
(*   src/server/src/modules/businesses/businesses.service.ts (register)    *)
(* Its hand-over by a withdrawal (auth.service.ts) is in Community.        *)
(*                                                                         *)
(* No index keeps a user from owning two businesses: register looks for    *)
(* one, asks the tax office, and then inserts.                             *)
(***************************************************************************)
EXTENDS Requests

CONSTANTS Business, NoHolder

ASSUME BusinessesAssumption == NoHolder \notin User

VARIABLES
  holder,     \* businesses.ownerUserId, NoHolder without a row
  partner,    \* users whose role is business
  courted     \* history: users with two calls at once that would give them a business

businessVars == <<holder, partner, courted>>

EnrollCall == [op : {"enroll"}, by : User]

BusinessesTypeOK ==
  /\ holder \in [Business -> User \cup {NoHolder}]
  /\ partner \subseteq User
  /\ courted \subseteq User

BusinessesInit ==
  /\ holder = [b \in Business |-> NoHolder]
  /\ partner = {}
  /\ courted = {}

Owned(u) == {b \in Business : holder[b] = u}

\* c and the other calls that are about to give u a business.
Courts(c, u) ==
  \/ call[c].op = "enroll" /\ call[c].by = u
  \/ call[c].op = "withdraw" /\ call[c].heir = u /\ call[c].owns # {}

Courting(u) == IF \E c \in Slot : Courts(c, u) THEN courted \cup {u} ELSE courted

\* register up to the insert: the look for a business of the user, and the
\* question to the tax office.
RegisterBusiness(c, u) ==
  /\ Owned(u) = {}
  /\ Begin(c, u, [op |-> "enroll", by |-> u])
  /\ courted' = Courting(u)
  /\ UNCHANGED <<accountVars, holder, partner>>

\* The insert and the role commit together, unless the tax office refused.
InsertBusiness(c) ==
  /\ call[c].op = "enroll"
  /\ \/ \E b \in Business :
          /\ holder[b] = NoHolder
          /\ holder' = [holder EXCEPT ![b] = call[c].by]
          /\ partner' = partner \cup {call[c].by}
     \/ UNCHANGED <<holder, partner>>
  /\ Return(c)
  /\ UNCHANGED <<accountVars, courted>>

BusinessesNext ==
  \E c \in Slot : InsertBusiness(c) \/ \E u \in User : RegisterBusiness(c, u)

-----------------------------------------------------------------------------
\* "One business per owner: findByOwner and the console assume it", also when
\* a business is handed over, unless two calls that give the user a business
\* were in flight at once. And an owner has the role the console asks for.
OneBusiness ==
  /\ \A u \in User \ courted : Cardinality(Owned(u)) <= 1
  /\ \A b \in Business : holder[b] \in partner \cup {NoHolder}
=============================================================================
