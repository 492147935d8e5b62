------------------------------- MODULE SignIn -------------------------------
(***************************************************************************)
(* How one person gets an account: registration with a password, and       *)
(* logins with Google, Naver and Kakao that find, link or create one, as   *)
(* written in                                                              *)
(*   src/server/src/modules/auth/auth.service.ts                           *)
(*                                                                         *)
(* The person has one email address and one subject with each provider.    *)
(* The address and each subject are unique over the accounts. Between      *)
(* their statements the handlers hold no lock.                             *)
(***************************************************************************)
EXTENDS Requests

CONSTANTS Google, Naver, Kakao, NoAccount

ASSUME SignInAssumption == NoAccount \notin User

VARIABLES
  accounts,   \* accounts of the person
  known,      \* those whose password the person knows: the others' is random
  email,      \* the account with the address of the person, or NoAccount
  linked,     \* the account with the subject of a provider, or NoAccount
  late        \* history: providers linked to an account that had withdrawn

signInVars == <<accounts, known, email, linked, late>>

Provider == {Google, Naver, Kakao}

SignInCall ==
       [op : {"register"}]
  \cup [op : {"find", "insert", "find again"}, provider : Provider]
  \cup [op : {"associate"}, provider : Provider, account : User]

SignInTypeOK ==
  /\ known \subseteq accounts
  /\ accounts \subseteq User
  /\ email \in User \cup {NoAccount}
  /\ linked \in [Provider -> User \cup {NoAccount}]
  /\ late \subseteq Provider

SignInInit(present) ==
  /\ accounts = present
  /\ known = present
  /\ email = NoAccount
  /\ linked = [p \in Provider |-> NoAccount]
  /\ late = {}

\* Nobody is signed in yet: these calls do not pass the guard.
Register(c) ==
  /\ email = NoAccount
  /\ Begin(c, Staff, [op |-> "register"])
  /\ UNCHANGED <<accountVars, signInVars>>

CreateAccount(r) ==
  /\ r \notin accounts
  /\ accounts' = accounts \cup {r}
  /\ email' = r

\* The unique address refuses the loser of a race: a conflict.
InsertRegistered(c) ==
  /\ call[c].op = "register"
  /\ \/ email # NoAccount /\ UNCHANGED <<accounts, known, email>>
     \/ /\ email = NoAccount
        /\ \E r \in User : CreateAccount(r) /\ known' = known \cup {r}
  /\ Return(c)
  /\ UNCHANGED <<accountVars, linked, late>>

\* A login whose subject is found ends there; else it looks for the address.
LoginWith(c, p) ==
  /\ linked[p] = NoAccount
  /\ Begin(c, Staff, [op |-> "find", provider |-> p])
  /\ UNCHANGED <<accountVars, signInVars>>

FoundByEmail(c, otherwise) ==
  IF email # NoAccount
  THEN Continue(c, [op |-> "associate", provider |-> call[c].provider, account |-> email])
  ELSE otherwise

FindByEmail(c) ==
  /\ call[c].op = "find"
  /\ FoundByEmail(c, Continue(c, [call[c] EXCEPT !.op = "insert"]))
  /\ UNCHANGED <<accountVars, signInVars>>

\* An update by id, of whatever has become of the account: the unique subject
\* refuses it only if another account has the subject by now.
Associate(c) ==
  /\ call[c].op = "associate"
  /\ LET p == call[c].provider
     IN IF linked[p] = NoAccount
        THEN /\ linked' = [linked EXCEPT ![p] = call[c].account]
             /\ late' = IF call[c].account \in withdrawn THEN late \cup {p} ELSE late
        ELSE UNCHANGED <<linked, late>>
  /\ Return(c)
  /\ UNCHANGED <<accountVars, accounts, known, email>>

\* Refused by the address or by the subject: a login that finds its subject
\* now goes on with it; failing that Google looks for the address once more,
\* the others end with an error.
InsertLinked(c) ==
  /\ call[c].op = "insert"
  /\ LET p == call[c].provider
     IN \/ /\ email = NoAccount /\ linked[p] = NoAccount
           /\ \E r \in User : CreateAccount(r) /\ linked' = [linked EXCEPT ![p] = r]
           /\ Return(c)
        \/ /\ email # NoAccount \/ linked[p] # NoAccount
           /\ IF linked[p] = NoAccount /\ p = Google
              THEN Continue(c, [call[c] EXCEPT !.op = "find again"])
              ELSE Return(c)
           /\ UNCHANGED <<accounts, email, linked>>
  /\ UNCHANGED <<accountVars, known, late>>

FindAgain(c) ==
  /\ call[c].op = "find again"
  /\ FoundByEmail(c, Return(c))
  /\ UNCHANGED <<accountVars, signInVars>>

Erased_GoogleOnly == {Google}

\* The subjects that withdraw clears: the one of Kakao stays.
Erased == {Google, Naver}

\* What a withdrawal of u does to the ways of signing in.
ForgetSignIn(u) ==
  /\ email' = IF email = u THEN NoAccount ELSE email
  /\ linked' = [p \in Provider |-> IF p \in Erased /\ linked[p] = u THEN NoAccount ELSE linked[p]]
  /\ known' = known \ {u}
  /\ UNCHANGED <<accounts, late>>

SignInNext ==
  \E c \in Slot :
    \/ Register(c) \/ InsertRegistered(c)
    \/ FindByEmail(c) \/ Associate(c) \/ InsertLinked(c) \/ FindAgain(c)
    \/ \E p \in Provider : LoginWith(c, p)

-----------------------------------------------------------------------------
\* "Finds or creates the local account for a verified identity": whatever
\* registrations, logins and withdrawals race, every provider leads to the
\* one account that has the address. It leads to a withdrawn account, which
\* lets nobody in, only if the login looked the account up before it
\* withdrew, or with Kakao, whose subject a withdrawal leaves on the account.
SignInReachesAccount ==
  \A p \in Provider :
    \/ linked[p] \in {NoAccount, email}
    \/ linked[p] \in withdrawn /\ p \in late \cup {Kakao}
=============================================================================
