---------------------------- MODULE SecondFactor ----------------------------
(***************************************************************************)
(* One-time codes, recovery codes and passkey challenges of one account,   *)
(* as written in                                                           *)
(*   src/server/src/modules/auth/mfa/mfa.service.ts                        *)
(*                                                                         *)
(* A secret is the number of its set-up. A code stands for the secret and  *)
(* the time step it was computed for. No statement here holds a lock       *)
(* across an await.                                                        *)
(***************************************************************************)
EXTENDS Requests

CONSTANTS
  RecoveryCode,   \* each one stands for the ten that are made together
  MaxSecrets,     \* bound: set-ups of the one-time code
  MaxStep,        \* bound: 30-second steps of the clock
  MaxChallenges   \* bound: passkey challenges, numbered as they are made

ASSUME SecondFactorAssumption == /\ MaxSecrets \in Nat
                                 /\ MaxStep \in Nat \ {0}
                                 /\ MaxChallenges \in Nat
                                 /\ RecoveryCode \cap (1..MaxChallenges) = {}

VARIABLES
  secret,     \* secretCiphertext, 0 without a row
  drawn,      \* history: secrets made so far
  verified,   \* verifiedAt is set
  lastUsed,   \* lastUsedStep, 0 for null
  step,       \* the clock
  token,      \* recovery codes and challenges
  type,       \* of a challenge
  passkey,    \* a passkey is registered
  passes,     \* history: sessions issued for the code of a secret and a step
  sessions,   \* history: sessions issued for a token
  rewound,    \* history: secrets whose lastUsedStep went back while a code was in flight,
              \* or by the late write of a confirmation
  abreast     \* history: a registration looked for other methods while a confirmation
              \* had yet to do so

totpVars == <<secret, drawn, verified, lastUsed, step, passes, rewound>>
tokenVars == <<token, type, passkey, sessions, abreast>>
secondFactorVars == <<totpVars, tokenVars>>

Secret == 1..MaxSecrets
Step == 1..MaxStep
Challenge == 1..MaxChallenges
Token == RecoveryCode \cup Challenge

FactorCall ==
       [op : {"confirm", "code"}, secret : Secret, step : Step]
  \cup [op : {"first", "codes"}]
  \cup [op : {"consume"}, token : RecoveryCode]
  \cup [op : {"respond"}, answers : Challenge, first : BOOLEAN]
  \cup [op : {"consume", "assert", "register"}, token : Challenge, answers : Challenge,
        first : BOOLEAN]

SecondFactorTypeOK ==
  /\ secret \in 0..drawn
  /\ drawn \in 0..MaxSecrets
  /\ verified \in BOOLEAN
  /\ lastUsed \in 0..MaxStep
  /\ step \in Step
  /\ token \in [Token -> {"none", "unused", "used"}]
  /\ type \in [Challenge -> {"none", "auth", "register"}]
  /\ passkey \in BOOLEAN
  /\ passes \in [Secret -> [Step -> Nat]]
  /\ sessions \in [Token -> Nat]
  /\ rewound \subseteq Secret
  /\ abreast \in BOOLEAN

\* An account without a second factor, or with a passkey and its codes.
SecondFactorInit ==
  /\ secret = 0
  /\ drawn = 0
  /\ verified = FALSE
  /\ lastUsed = 0
  /\ step = 1
  /\ passkey \in BOOLEAN
  /\ \E codes \in SUBSET RecoveryCode :
       /\ passkey => codes # {}
       /\ ~passkey => codes = {}
       /\ Cardinality(codes) <= 1
       /\ token = [p \in Token |-> IF p \in codes THEN "unused" ELSE "none"]
  /\ type = [n \in Challenge |-> "none"]
  /\ passes = [s \in Secret |-> [n \in Step |-> 0]]
  /\ sessions = [p \in Token |-> 0]
  /\ rewound = {}
  /\ abreast = FALSE

InFlight(s) == \E c \in Slot : call[c].op = "code" /\ call[c].secret = s
Forgotten == IF InFlight(secret) THEN rewound \cup {secret} ELSE rewound

\* A code is good for the step before the current one and the one after it.
Valid(s) == s \in {step - 1, step, step + 1}

Tick ==
  /\ step < MaxStep
  /\ step' = step + 1
  /\ UNCHANGED <<call, calls, accountVars, secret, drawn, verified, lastUsed, passes, rewound, tokenVars>>

\* setupTotp: an upsert; the old secret and its lastUsedStep are gone.
SetupTotp ==
  /\ drawn < MaxSecrets
  /\ Serve(Staff)
  /\ drawn' = drawn + 1
  /\ secret' = drawn'
  /\ verified' = FALSE
  /\ lastUsed' = 0
  /\ rewound' = Forgotten
  /\ UNCHANGED <<call, accountVars, step, passes, tokenVars>>

DeleteTotp ==
  /\ secret # 0
  /\ Serve(Staff)
  /\ secret' = 0
  /\ verified' = FALSE
  /\ lastUsed' = 0
  /\ rewound' = Forgotten
  /\ UNCHANGED <<call, accountVars, drawn, step, passes, tokenVars>>

ConfirmTotp(c, s) ==
  /\ secret # 0 /\ ~verified
  /\ Valid(s)
  /\ Begin(c, Staff, [op |-> "confirm", secret |-> secret, step |-> s])
  /\ UNCHANGED <<accountVars, secondFactorVars>>

\* The update is unconditional: it may confirm another secret, or none.
WriteConfirmation(c) ==
  /\ call[c].op = "confirm"
  /\ IF secret = 0
     THEN UNCHANGED <<verified, lastUsed, rewound>>
     ELSE /\ verified' = TRUE
          /\ lastUsed' = call[c].step
          /\ rewound' = IF call[c].step < lastUsed THEN rewound \cup {secret} ELSE rewound
  /\ Continue(c, [op |-> "first"])
  /\ UNCHANGED <<accountVars, secret, drawn, step, passes, tokenVars>>

\* Without a passkey this is the first method: recovery codes come with it.
CountPasskeys(c) ==
  /\ call[c].op = "first"
  /\ IF passkey THEN Return(c) ELSE Continue(c, [op |-> "codes"])
  /\ UNCHANGED <<accountVars, secondFactorVars>>

GenerateRecoveryCodes(c) ==
  /\ call[c].op = "codes"
  /\ \E p \in RecoveryCode :
       /\ token[p] = "none"
       /\ token' = [token EXCEPT ![p] = "unused"]
  /\ Return(c)
  /\ UNCHANGED <<accountVars, totpVars, type, passkey, sessions, abreast>>

VerifyTotpCode(c, s) ==
  /\ secret # 0 /\ verified
  /\ Valid(s)
  /\ Begin(c, Staff, [op |-> "code", secret |-> secret, step |-> s])
  /\ UNCHANGED <<accountVars, secondFactorVars>>

Unspent_SameStep(s) == lastUsed <= s

\* The condition of the update: no code of this step or a later one yet.
Unspent(s) == lastUsed < s

UseCode(c) ==
  /\ call[c].op = "code"
  /\ IF secret # 0 /\ Unspent(call[c].step)
     THEN /\ lastUsed' = call[c].step
          /\ passes' = [passes EXCEPT ![call[c].secret][call[c].step] = @ + 1]
     ELSE UNCHANGED <<lastUsed, passes>>
  /\ Return(c)
  /\ UNCHANGED <<accountVars, secret, drawn, verified, step, rewound, tokenVars>>

\* regenerateRecoveryCodes begins by using up the old ones.
RegenerateRecoveryCodes(c) ==
  /\ Begin(c, Staff, [op |-> "codes"])
  /\ token' = [p \in Token |->
                 IF p \in RecoveryCode /\ token[p] = "unused" THEN "used" ELSE token[p]]
  /\ UNCHANGED <<accountVars, totpVars, type, passkey, sessions, abreast>>

DeletePasskey ==
  /\ passkey
  /\ Serve(Staff)
  /\ passkey' = FALSE
  /\ UNCHANGED <<call, accountVars, totpVars, token, type, sessions, abreast>>

\* beginPasskeyAuthentication needs a passkey, beginPasskeyRegistration none.
StoreChallenge(n, kind) ==
  /\ token[n] = "none" /\ \A k \in 1..(n - 1) : token[k] # "none"
  /\ kind = "auth" => passkey
  /\ Serve(Staff)
  /\ token' = [token EXCEPT ![n] = "unused"]
  /\ type' = [type EXCEPT ![n] = kind]
  /\ UNCHANGED <<call, accountVars, totpVars, passkey, sessions, abreast>>

\* verifyRecoveryCode: read an unused row ...
PresentRecoveryCode(c, p) ==
  /\ token[p] = "unused"
  /\ Begin(c, Staff, [op |-> "consume", token |-> p])
  /\ UNCHANGED <<accountVars, secondFactorVars>>

HasMethod_Pending == secret # 0 \/ passkey

HasMethod == verified \/ passkey

\* verifyPasskey, or completePasskeyRegistration, which first looks whether
\* there is another method: the browser answers challenge n.
AnswerChallenge(c, n) ==
  /\ type[n] # "none"
  /\ Begin(c, Staff, [op |-> "respond", answers |-> n,
                      first |-> type[n] = "register" /\ ~HasMethod])
  /\ abreast' = (abreast \/ (type[n] = "register" /\ \E d \in Slot : call[d].op = "first"))
  /\ UNCHANGED <<accountVars, totpVars, token, type, passkey, sessions>>

\* consumeChallenge: read the newest unused challenge of the type ...
ReadChallenge(c) ==
  /\ call[c].op = "respond"
  /\ LET unused == {n \in Challenge : token[n] = "unused" /\ type[n] = type[call[c].answers]}
     IN \/ unused = {} /\ Return(c)
        \/ \E n \in unused :
             /\ \A k \in unused : k <= n
             /\ Continue(c, [op |-> "consume", token |-> n, answers |-> call[c].answers,
                             first |-> call[c].first])
  /\ UNCHANGED <<accountVars, secondFactorVars>>

\* ... and use it up in an update on condition that it is unused still.
StillUnused(p) == token[p] = "unused"

ConsumeToken(c) ==
  /\ call[c].op = "consume"
  /\ LET p == call[c].token
     IN IF ~StillUnused(p)
        THEN Return(c) /\ UNCHANGED <<token, sessions>>
        ELSE /\ token' = [token EXCEPT ![p] = "used"]
             /\ \/ /\ p \in RecoveryCode
                   /\ sessions' = [sessions EXCEPT ![p] = @ + 1]
                   /\ Return(c)
                \/ /\ p \in Challenge /\ p = call[c].answers
                   /\ Continue(c, [call[c] EXCEPT !.op = IF type[p] = "auth" THEN "assert" ELSE "register"])
                   /\ UNCHANGED sessions
                \/ /\ p \in Challenge /\ p # call[c].answers
                   /\ Return(c)
                   /\ UNCHANGED sessions
  /\ UNCHANGED <<accountVars, totpVars, type, passkey, abreast>>

\* verifyPasskey after its challenge: the passkey may be gone by now.
AssertPasskey(c) ==
  /\ call[c].op = "assert"
  /\ sessions' = IF passkey THEN [sessions EXCEPT ![call[c].token] = @ + 1] ELSE sessions
  /\ Return(c)
  /\ UNCHANGED <<accountVars, totpVars, token, type, passkey, abreast>>

SavePasskey(c) ==
  /\ call[c].op = "register"
  /\ passkey' = TRUE
  /\ IF call[c].first THEN Continue(c, [op |-> "codes"]) ELSE Return(c)
  /\ UNCHANGED <<accountVars, totpVars, token, type, sessions, abreast>>

SecondFactorNext ==
  \/ Tick \/ SetupTotp \/ DeleteTotp \/ DeletePasskey
  \/ \E n \in Challenge, kind \in {"auth", "register"} : StoreChallenge(n, kind)
  \/ \E c \in Slot :
       \/ WriteConfirmation(c) \/ CountPasskeys(c) \/ GenerateRecoveryCodes(c)
       \/ UseCode(c) \/ RegenerateRecoveryCodes(c)
       \/ ReadChallenge(c) \/ ConsumeToken(c) \/ AssertPasskey(c) \/ SavePasskey(c)
       \/ \E s \in Step : ConfirmTotp(c, s) \/ VerifyTotpCode(c, s)
       \/ \E p \in RecoveryCode : PresentRecoveryCode(c, p)
       \/ \E n \in Challenge : AnswerChallenge(c, n)

-----------------------------------------------------------------------------
\* "The update is conditional, so that a code passes once even when requests
\* race": one session per code, unless lastUsedStep went back under it (the
\* secret was replaced or confirmed again while the code was in flight). And
\* "a recovery code is for one use", as is a challenge: whatever is presented,
\* revoked or deleted at once, it opens at most one session.
OneSessionEach ==
  /\ \A s \in Secret \ rewound, n \in Step : passes[s][n] <= 1
  /\ \A p \in Token : sessions[p] <= 1

\* "The first verified method makes ten recovery codes": an account with a
\* second factor has been given codes, or a call is about to do so, unless a
\* passkey was registered while a one-time code was being confirmed: then
\* each can take the other for the first.
RecoveryCodesIssued ==
  verified \/ passkey =>
    \/ \E p \in RecoveryCode : token[p] # "none"
    \/ \E c \in Slot : call[c].op \in {"first", "codes"}
    \/ abreast
=============================================================================
