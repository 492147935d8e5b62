------------------------------ MODULE Requests ------------------------------
(***************************************************************************)
(* Requests of users and admins in flight in the API server, and the       *)
(* accounts they come from, as written in                                  *)
(*   src/server/src/modules/auth/jwt-auth.guard.ts                         *)
(*   src/server/src/modules/admin/admin.service.ts (suspendUser)           *)
(*                                                                         *)
(* A handler awaits the database between its statements, so a call in      *)
(* flight keeps what it has read while the others run: call[c] is the      *)
(* local state of the handler that runs in slot c.                         *)
(***************************************************************************)
EXTENDS Naturals, FiniteSets, Sequences

CONSTANTS
  Slot,       \* requests that can be in flight at once
  User,
  Staff,      \* an admin or a business: its account stays active
  MaxCalls    \* bound: requests in one behaviour

ASSUME RequestsAssumption == /\ Staff \notin User
                             /\ MaxCalls \in Nat

VARIABLES call, calls, suspended, withdrawn

accountVars == <<suspended, withdrawn>>

Idle == [op |-> "idle"]

AccountsTypeOK ==
  /\ calls \in 0..MaxCalls
  /\ suspended \subseteq User
  /\ withdrawn \subseteq User

RequestsInit(spent) ==
  /\ call = [c \in Slot |-> Idle]
  /\ calls = spent
  /\ suspended = {}
  /\ withdrawn = {}

Active(u) == u \notin suspended \cup withdrawn

\* The guard reads the account on every request; what follows may be late.
Begin(c, by, handler) ==
  /\ call[c] = Idle
  /\ calls < MaxCalls
  /\ Active(by)
  /\ calls' = calls + 1
  /\ call' = [call EXCEPT ![c] = handler]

Continue(c, handler) ==
  /\ call' = [call EXCEPT ![c] = handler]
  /\ UNCHANGED calls

Return(c) == Continue(c, Idle)

\* A request that is one step: it reads nothing before it writes.
Serve(by) ==
  /\ calls < MaxCalls
  /\ Active(by)
  /\ calls' = calls + 1

\* suspendUser: one unconditional update; it does not look at withdrawnAt.
SuspendUser(u, on) ==
  /\ Serve(Staff)
  /\ suspended' = IF on THEN suspended \cup {u} ELSE suspended \ {u}
  /\ suspended' # suspended
  /\ UNCHANGED <<call, withdrawn>>
=============================================================================
