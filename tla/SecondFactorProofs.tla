------------------------- MODULE SecondFactorProofs -------------------------
(***************************************************************************)
(* What a second factor promises, for any number of requests in flight,    *)
(* secrets, codes and challenges: a code or a token opens at most one      *)
(* session, and an account with a second factor has recovery codes.        *)
(*                                                                         *)
(* Three facts are inductive next to the types: a code in flight is of the *)
(* secret in use, or of one that has been rewound (CodesOK); a token that  *)
(* is asserted or has opened a session is used (TokensOK); and a call that *)
(* took its method for a second one was right (MethodsOK).                 *)
(***************************************************************************)
EXTENDS SecondFactor, TLAPS

AnyCall == {Idle} \cup FactorCall

ValuesOK ==
  /\ secret \in 0..drawn
  /\ drawn \in 0..MaxSecrets
  /\ lastUsed \in 0..MaxStep
  /\ step \in Step
  /\ token \in [Token -> {"none", "unused", "used"}]
  /\ type \in [Challenge -> {"none", "auth", "register"}]
  /\ passes \in [Secret -> [Step -> Nat]]
  /\ sessions \in [Token -> Nat]
  /\ rewound \subseteq Secret

TypesOK ==
  /\ AccountsTypeOK
  /\ ValuesOK
  /\ call \in [Slot -> AnyCall]

CodesOK ==
  /\ \A c \in Slot : call[c].op = "code" =>
       /\ call[c].secret <= drawn
       /\ call[c].secret = secret \/ call[c].secret \in rewound
  /\ \A s \in Secret, n \in Step : s > drawn => passes[s][n] = 0
  /\ \A s \in Secret \ rewound, n \in Step :
       /\ passes[s][n] <= 1
       /\ s = secret /\ passes[s][n] > 0 => n <= lastUsed

Asserts(c, p) == call[c].op = "assert" /\ call[c].token = p

TokensOK ==
  /\ \A p \in Token : sessions[p] <= 1
  /\ \A p \in Token : sessions[p] > 0 => token[p] = "used" /\ \A c \in Slot : ~Asserts(c, p)
  /\ \A c \in Slot, p \in Token : Asserts(c, p) => token[p] = "used"
  /\ \A c, d \in Slot, p \in Token : Asserts(c, p) /\ Asserts(d, p) => c = d

Issued == \E p \in RecoveryCode : token[p] # "none"
Issuing == \E c \in Slot : call[c].op = "codes"
Confirming == \E c \in Slot : call[c].op = "first"
Covered == Issued \/ Issuing \/ abreast

Passkeys(c) == call[c].op \in {"respond", "register"} \/ (call[c].op = "consume" /\ call[c].token \in Challenge)

\* A call for a passkey that took it for a second method was right.
Sound(c) ==
  /\ call[c].answers \in Challenge /\ call[c].first \in BOOLEAN
  /\ type[call[c].answers] # "none"
  /\ type[call[c].answers] = "register" /\ ~call[c].first => Covered
  /\ call[c].op = "register" => type[call[c].answers] = "register"

MethodsOK ==
  /\ \A n \in Challenge : type[n] # "none" => token[n] # "none"
  /\ \A c \in Slot : Passkeys(c) => Sound(c)
  /\ passkey => Covered
  /\ verified => Covered \/ Confirming

FactorInv == TypesOK /\ CodesOK /\ TokensOK /\ MethodsOK

-----------------------------------------------------------------------------
(* Calls.                                                                  *)

LEMMA Fields ==
  ASSUME NEW r \in AnyCall
  PROVE  /\ r.op \in {"code", "confirm"} => r.secret \in Secret /\ r.step \in Step
         /\ r.op = "consume" => r.token \in Token
         /\ r.op = "consume" /\ r.token \in Challenge => r.answers \in Challenge /\ r.first \in BOOLEAN
         /\ r.op \in {"assert", "register"} =>
              r.token \in Challenge /\ r.answers \in Challenge /\ r.first \in BOOLEAN
         /\ r.op = "respond" => r.answers \in Challenge /\ r.first \in BOOLEAN
<1>1. CASE r = Idle
  BY <1>1 DEF Idle
<1>2. CASE r \in [op : {"confirm", "code"}, secret : Secret, step : Step]
  BY <1>2
<1>3. CASE r \in [op : {"first", "codes"}]
  BY <1>3
<1>4. CASE r \in [op : {"consume"}, token : RecoveryCode]
  BY <1>4, SecondFactorAssumption DEF Token, Challenge
<1>5. CASE r \in [op : {"respond"}, answers : Challenge, first : BOOLEAN]
  BY <1>5
<1>6. CASE r \in [op : {"consume", "assert", "register"}, token : Challenge, answers : Challenge,
                  first : BOOLEAN]
  BY <1>6 DEF Token
<1> QED BY <1>1, <1>2, <1>3, <1>4, <1>5, <1>6 DEF AnyCall, FactorCall

\* A handler that goes on with h, or returns.
LEMMA Going ==
  ASSUME call \in [Slot -> AnyCall], NEW c \in Slot, NEW h \in AnyCall,
         call' = [call EXCEPT ![c] = h]
  PROVE  /\ call' \in [Slot -> AnyCall]
         /\ call'[c] = h
         /\ \A d \in Slot \ {c} : call'[d] = call[d]
OBVIOUS

LEMMA CodePassed ==
  ASSUME NEW f \in [Secret -> [Step -> Nat]], NEW s \in Secret, NEW n \in Step
  PROVE  LET g == [f EXCEPT ![s][n] = @ + 1]
         IN /\ g \in [Secret -> [Step -> Nat]]
            /\ g[s][n] = f[s][n] + 1
            /\ \A r \in Secret, m \in Step : r # s \/ m # n => g[r][m] = f[r][m]
<1> DEFINE g == [f EXCEPT ![s][n] = @ + 1]
<1>1. g[s] = [f[s] EXCEPT ![n] = f[s][n] + 1] /\ \A r \in Secret \ {s} : g[r] = f[r]
  OBVIOUS
<1>2. g[s] \in [Step -> Nat]
  BY <1>1
<1>3. g \in [Secret -> [Step -> Nat]]
  BY <1>1, <1>2
<1> QED BY <1>1, <1>3

LEMMA IdleIsCall == Idle \in AnyCall /\ Idle.op = "idle"
BY DEF AnyCall, Idle

-----------------------------------------------------------------------------
(* Types.                                                                  *)

LEMMA TypesStep ==
  ASSUME TypesOK, SecondFactorNext
  PROVE  TypesOK'
<1> USE RequestsAssumption, SecondFactorAssumption DEF TypesOK, AccountsTypeOK, accountVars
<1>0. /\ \A s \in Secret, n \in Step : \A op \in {"confirm", "code"} :
              [op |-> op, secret |-> s, step |-> n] \in AnyCall
      /\ [op |-> "first"] \in AnyCall /\ [op |-> "codes"] \in AnyCall
      /\ \A p \in RecoveryCode : [op |-> "consume", token |-> p] \in AnyCall
      /\ \A n \in Challenge, b \in BOOLEAN : [op |-> "respond", answers |-> n, first |-> b] \in AnyCall
      /\ \A n, k \in Challenge, b \in BOOLEAN :
           [op |-> "consume", token |-> n, answers |-> k, first |-> b] \in AnyCall
  BY DEF AnyCall, FactorCall
<1>1. CASE Tick
  BY <1>1 DEF Tick, ValuesOK, Step, tokenVars
<1>2. CASE SetupTotp
  <2>1. Forgotten \subseteq Secret
    <3>1. \A c \in Slot : call[c].op = "code" => call[c].secret \in Secret
      BY Fields
    <3> QED BY <3>1 DEF Forgotten, InFlight, ValuesOK
  <2>2. secret' \in 0..drawn' /\ drawn' \in 0..MaxSecrets /\ lastUsed' \in 0..MaxStep
    BY <1>2 DEF SetupTotp, ValuesOK
  <2> QED BY <1>2, <2>1, <2>2 DEF SetupTotp, Serve, ValuesOK, tokenVars
<1>3. CASE DeleteTotp
  <2>1. Forgotten \subseteq Secret
    BY <1>3 DEF DeleteTotp, Forgotten, ValuesOK, Secret
  <2> QED BY <1>3, <2>1 DEF DeleteTotp, Serve, ValuesOK, Secret, tokenVars
<1>4. CASE DeletePasskey
  BY <1>4 DEF DeletePasskey, Serve, ValuesOK, totpVars
<1>5. ASSUME NEW n \in Challenge, NEW kind \in {"auth", "register"}, StoreChallenge(n, kind)
      PROVE  TypesOK'
  BY <1>5 DEF StoreChallenge, Serve, ValuesOK, totpVars, Token
<1>6. ASSUME NEW c \in Slot, WriteConfirmation(c) PROVE TypesOK'
  <2>1. call[c].step \in Step
    BY <1>6, Fields DEF WriteConfirmation
  <2>2. ValuesOK'
    <3>1. secret # 0 => secret \in Secret
      BY DEF ValuesOK, Secret
    <3>2. lastUsed' \in 0..MaxStep
      BY <1>6, <2>1 DEF WriteConfirmation, ValuesOK, Step
    <3>3. rewound' \subseteq Secret
      BY <1>6, <3>1 DEF WriteConfirmation, ValuesOK
    <3> QED BY <1>6, <3>2, <3>3 DEF WriteConfirmation, ValuesOK, tokenVars
  <2> QED BY <1>0, <1>6, <2>2, Going DEF WriteConfirmation, Continue
<1>7. ASSUME NEW c \in Slot, CountPasskeys(c) PROVE TypesOK'
  <2>1. ValuesOK'
    BY <1>7 DEF CountPasskeys, ValuesOK, secondFactorVars, totpVars, tokenVars
  <2> QED BY <1>0, <1>7, <2>1, Going, IdleIsCall DEF CountPasskeys, Continue, Return
<1>8. ASSUME NEW c \in Slot, GenerateRecoveryCodes(c) PROVE TypesOK'
  <2>1. ValuesOK'
    BY <1>8 DEF GenerateRecoveryCodes, ValuesOK, totpVars, Token
  <2> QED BY <1>8, <2>1, Going, IdleIsCall DEF GenerateRecoveryCodes, Continue, Return
<1>9. ASSUME NEW c \in Slot, UseCode(c) PROVE TypesOK'
  <2>1. call[c].secret \in Secret /\ call[c].step \in Step
    BY <1>9, Fields DEF UseCode
  <2>2. ValuesOK'
    <3>1. lastUsed' \in 0..MaxStep
      BY <1>9, <2>1 DEF UseCode, ValuesOK, Step
    <3>2. passes' \in [Secret -> [Step -> Nat]]
      <4>1. CASE UNCHANGED passes
        BY <4>1 DEF ValuesOK
      <4>2. CASE passes' = [passes EXCEPT ![call[c].secret][call[c].step] = @ + 1]
        BY <4>2, <2>1, CodePassed DEF ValuesOK
      <4> QED BY <1>9, <4>1, <4>2 DEF UseCode
    <3> QED BY <1>9, <3>1, <3>2 DEF UseCode, ValuesOK, tokenVars
  <2> QED BY <1>9, <2>2, Going, IdleIsCall DEF UseCode, Continue, Return
<1>10. ASSUME NEW c \in Slot, RegenerateRecoveryCodes(c) PROVE TypesOK'
  <2>1. ValuesOK'
    BY <1>10 DEF RegenerateRecoveryCodes, ValuesOK, totpVars, Token
  <2> QED BY <1>0, <1>10, <2>1, Going DEF RegenerateRecoveryCodes, Begin
<1>11. ASSUME NEW c \in Slot, ReadChallenge(c) PROVE TypesOK'
  <2>1. ValuesOK'
    BY <1>11 DEF ReadChallenge, ValuesOK, secondFactorVars, totpVars, tokenVars
  <2>2. call[c].answers \in Challenge /\ call[c].first \in BOOLEAN
    BY <1>11, Fields DEF ReadChallenge
  <2>3. call' \in [Slot -> AnyCall] /\ UNCHANGED calls
    <3>1. CASE Return(c)
      BY <3>1, Going, IdleIsCall DEF Continue, Return
    <3>2. ASSUME NEW n \in Challenge,
                 Continue(c, [op |-> "consume", token |-> n, answers |-> call[c].answers,
                              first |-> call[c].first])
          PROVE  call' \in [Slot -> AnyCall] /\ UNCHANGED calls
      BY <1>0, <2>2, <3>2, Going DEF Continue
    <3> QED BY <1>11, <3>1, <3>2 DEF ReadChallenge
  <2> QED BY <1>11, <2>1, <2>3 DEF ReadChallenge
<1>12. ASSUME NEW c \in Slot, ConsumeToken(c) PROVE TypesOK'
  <2>1. call[c].token \in Token /\ (call[c].token \in Challenge =>
          call[c].answers \in Challenge /\ call[c].first \in BOOLEAN)
    BY <1>12, Fields DEF ConsumeToken
  <2>2. ValuesOK'
    BY <1>12, <2>1 DEF ConsumeToken, ValuesOK, totpVars
  <2>3. call' \in [Slot -> AnyCall] /\ UNCHANGED calls
    <3>1. CASE Return(c)
      BY <3>1, Going, IdleIsCall DEF Continue, Return
    <3>2. ASSUME call[c].token \in Challenge, NEW op \in {"assert", "register"},
                 Continue(c, [call[c] EXCEPT !.op = op])
          PROVE  call' \in [Slot -> AnyCall] /\ UNCHANGED calls
      <4>1. call[c] \in [op : {"consume"}, token : Challenge, answers : Challenge, first : BOOLEAN]
        BY <1>12, <3>2, SecondFactorAssumption DEF ConsumeToken, AnyCall, FactorCall, Idle, Challenge
      <4>2. [call[c] EXCEPT !.op = op] \in AnyCall
        BY <4>1 DEF AnyCall, FactorCall
      <4> QED BY <3>2, <4>2, Going DEF Continue
    <3> QED BY <1>12, <3>1, <3>2 DEF ConsumeToken
  <2> QED BY <1>12, <2>2, <2>3 DEF ConsumeToken
<1>13. ASSUME NEW c \in Slot, AssertPasskey(c) PROVE TypesOK'
  <2>1. ValuesOK'
    <3>1. call[c].token \in Token
      BY <1>13, Fields DEF AssertPasskey, Token
    <3> QED BY <1>13, <3>1 DEF AssertPasskey, ValuesOK, totpVars
  <2> QED BY <1>13, <2>1, Going, IdleIsCall DEF AssertPasskey, Continue, Return
<1>14. ASSUME NEW c \in Slot, SavePasskey(c) PROVE TypesOK'
  <2>1. ValuesOK'
    BY <1>14 DEF SavePasskey, ValuesOK, totpVars
  <2> QED BY <1>0, <1>14, <2>1, Going, IdleIsCall DEF SavePasskey, Continue, Return
<1>15. ASSUME NEW c \in Slot, NEW n \in Step, ConfirmTotp(c, n) \/ VerifyTotpCode(c, n) PROVE TypesOK'
  <2>1. ValuesOK'
    BY <1>15 DEF ConfirmTotp, VerifyTotpCode, ValuesOK, secondFactorVars, totpVars, tokenVars
  <2>2. secret \in Secret
    BY <1>15 DEF ConfirmTotp, VerifyTotpCode, ValuesOK, Secret
  <2>3. PICK op \in {"confirm", "code"} : Begin(c, Staff, [op |-> op, secret |-> secret, step |-> n])
    BY <1>15 DEF ConfirmTotp, VerifyTotpCode
  <2>4. [op |-> op, secret |-> secret, step |-> n] \in AnyCall
    BY <1>0, <2>2
  <2>5. UNCHANGED accountVars
    BY <1>15 DEF ConfirmTotp, VerifyTotpCode
  <2> QED BY <2>1, <2>3, <2>4, <2>5, Going DEF Begin
<1>16. ASSUME NEW c \in Slot, NEW p \in RecoveryCode, PresentRecoveryCode(c, p) PROVE TypesOK'
  <2>1. ValuesOK'
    BY <1>16 DEF PresentRecoveryCode, ValuesOK, secondFactorVars, totpVars, tokenVars
  <2> QED BY <1>0, <1>16, <2>1, Going DEF PresentRecoveryCode, Begin
<1>17. ASSUME NEW c \in Slot, NEW n \in Challenge, AnswerChallenge(c, n) PROVE TypesOK'
  <2>1. ValuesOK'
    BY <1>17 DEF AnswerChallenge, ValuesOK, totpVars
  <2> DEFINE b == type[n] = "register" /\ ~HasMethod
  <2>2. b \in BOOLEAN
    BY Zenon
  <2>3. Begin(c, Staff, [op |-> "respond", answers |-> n, first |-> b])
    BY <1>17 DEF AnswerChallenge
  <2> HIDE DEF b
  <2>4. [op |-> "respond", answers |-> n, first |-> b] \in AnyCall
    BY <1>0, <2>2
  <2> QED BY <1>17, <2>1, <2>3, <2>4, Going DEF AnswerChallenge, Begin
<1> QED BY <1>1, <1>2, <1>3, <1>4, <1>5, <1>6, <1>7, <1>8, <1>9, <1>10, <1>11, <1>12, <1>13, <1>14,
           <1>15, <1>16, <1>17 DEF SecondFactorNext

-----------------------------------------------------------------------------
(* Codes.                                                                  *)

\* A step that leaves the one-time code alone and adds no code in flight.
LEMMA CodesQuiet ==
  ASSUME CodesOK, UNCHANGED <<secret, drawn, lastUsed, passes, rewound>>,
         \A d \in Slot : call'[d] = call[d] \/ call'[d].op # "code"
  PROVE  CodesOK'
BY DEF CodesOK

LEMMA CodesStep ==
  ASSUME TypesOK, CodesOK, SecondFactorNext
  PROVE  CodesOK'
<1> USE SecondFactorAssumption DEF TypesOK
<1>1. CASE Tick \/ DeletePasskey \/ \E n \in Challenge, kind \in {"auth", "register"} : StoreChallenge(n, kind)
  BY <1>1, CodesQuiet DEF Tick, DeletePasskey, StoreChallenge, totpVars
<1>2. CASE SetupTotp
  <2>1. /\ drawn' = drawn + 1 /\ secret' = drawn + 1 /\ UNCHANGED <<call, passes>>
        /\ rewound' = Forgotten
    BY <1>2 DEF SetupTotp
  <2>2. drawn \in Nat /\ Secret \subseteq Nat
    BY DEF ValuesOK, Secret
  <2>3. \A c \in Slot : call[c].op = "code" =>
          /\ call[c].secret \in Nat /\ call[c].secret <= drawn
          /\ call[c].secret \in Forgotten
    BY <2>2, Fields DEF CodesOK, Forgotten, InFlight
  <2>4. rewound \subseteq rewound'
    BY <2>1 DEF Forgotten
  <2> QED BY <2>1, <2>2, <2>3, <2>4 DEF CodesOK
<1>3. CASE DeleteTotp
  <2>1. secret' = 0 /\ UNCHANGED <<call, passes, drawn>> /\ rewound' = Forgotten
    BY <1>3 DEF DeleteTotp
  <2>2. \A c \in Slot : call[c].op = "code" => call[c].secret \in Forgotten
    BY DEF CodesOK, Forgotten, InFlight
  <2>3. rewound \subseteq rewound' /\ 0 \notin Secret
    BY <2>1 DEF Forgotten, Secret
  <2> QED BY <2>1, <2>2, <2>3 DEF CodesOK
<1>4. ASSUME NEW c \in Slot, WriteConfirmation(c) PROVE CodesOK'
  <2>1. UNCHANGED <<secret, drawn, passes>> /\ \A d \in Slot : call'[d] = call[d] \/ call'[d].op # "code"
    BY <1>4 DEF WriteConfirmation, Continue
  <2>2. rewound \subseteq rewound' /\ (secret \in Secret \ rewound' => lastUsed <= lastUsed')
    <3>1. lastUsed \in Nat /\ call[c].step \in Nat /\ 0 \notin Secret
      BY <1>4, Fields DEF WriteConfirmation, ValuesOK, Step, Secret
    <3>2. CASE secret = 0
      BY <1>4, <3>1, <3>2 DEF WriteConfirmation
    <3>3. CASE secret # 0
      BY <1>4, <3>1, <3>3 DEF WriteConfirmation
    <3> QED BY <3>2, <3>3
  <2>3. \A s \in Secret \ rewound', n \in Step : s = secret /\ passes[s][n] > 0 => n <= lastUsed'
    <3>1. lastUsed \in Nat /\ Step \subseteq Nat /\ (secret \in Secret \ rewound' => lastUsed' \in Nat)
      BY <1>4, Fields DEF WriteConfirmation, ValuesOK, Step, Secret
    <3> SUFFICES ASSUME NEW s \in Secret \ rewound', NEW n \in Step, s = secret, passes[s][n] > 0
                 PROVE  n <= lastUsed'
      OBVIOUS
    <3>2. n <= lastUsed
      <4>1. s \in Secret \ rewound
        BY <2>2
      <4> QED BY <4>1 DEF CodesOK
    <3> QED BY <2>2, <3>1, <3>2
  <2> QED BY <2>1, <2>2, <2>3 DEF CodesOK
<1>5. ASSUME NEW c \in Slot, UseCode(c) PROVE CodesOK'
  <2>1. UNCHANGED <<secret, drawn, rewound>> /\ \A d \in Slot : call'[d] = call[d] \/ call'[d].op # "code"
    BY <1>5, IdleIsCall DEF UseCode, Return, Continue
  <2>2. CASE UNCHANGED <<lastUsed, passes>>
    BY <2>1, <2>2, CodesQuiet
  <2>3. CASE /\ Unspent(call[c].step) /\ lastUsed' = call[c].step
             /\ passes' = [passes EXCEPT ![call[c].secret][call[c].step] = @ + 1]
    <3> DEFINE r == call[c].secret
               m == call[c].step
    <3>1. r \in Secret /\ m \in Step /\ lastUsed < m /\ (r = secret \/ r \in rewound) /\ r <= drawn
      BY <1>5, <2>3, Fields DEF UseCode, Unspent, CodesOK
    <3>2. /\ passes'[r][m] = passes[r][m] + 1
          /\ \A s \in Secret, n \in Step : s # r \/ n # m => passes'[s][n] = passes[s][n]
      BY <2>3, <3>1, CodePassed DEF ValuesOK
    <3>3. lastUsed \in Nat /\ Step \subseteq Nat /\ Secret \subseteq Nat /\ drawn \in Nat
      BY DEF ValuesOK, Step, Secret
    <3>4. \A s \in Secret, n \in Step : passes[s][n] \in Nat
      BY DEF ValuesOK
    <3>5. r \notin rewound => passes[r][m] = 0
      <4> SUFFICES ASSUME r \notin rewound PROVE passes[r][m] = 0
        OBVIOUS
      <4>1. passes[r][m] > 0 => m <= lastUsed
        BY <3>1 DEF CodesOK
      <4>2. passes[r][m] \in Nat /\ m \in Nat /\ lastUsed < m
        BY <3>1, <3>3, <3>4
      <4> HIDE DEF r, m
      <4> QED BY <3>3, <4>1, <4>2
    <3>6. \A s \in Secret, n \in Step : s > drawn => passes'[s][n] = 0
      BY <3>1, <3>2, <3>3 DEF CodesOK
    <3>7. ASSUME NEW s \in Secret \ rewound, NEW n \in Step
          PROVE  passes'[s][n] <= 1 /\ (s = secret /\ passes'[s][n] > 0 => n <= lastUsed')
      <4>1. CASE s = r /\ n = m
        BY <2>3, <3>2, <3>3, <3>5, <4>1
      <4>2. CASE s # r \/ n # m
        BY <2>3, <3>1, <3>2, <3>3, <4>2 DEF CodesOK
      <4> QED BY <4>1, <4>2
    <3> QED BY <2>1, <3>6, <3>7 DEF CodesOK
  <2> QED BY <1>5, <2>2, <2>3 DEF UseCode
<1>6. ASSUME NEW c \in Slot, NEW n \in Step, VerifyTotpCode(c, n) PROVE CodesOK'
  <2>1. UNCHANGED <<secret, drawn, lastUsed, passes, rewound>>
    BY <1>6 DEF VerifyTotpCode, secondFactorVars, totpVars
  <2>2. secret <= drawn
    BY DEF ValuesOK
  <2>3. \A d \in Slot : call'[d].op = "code" => call'[d] = call[d] \/ call'[d].secret = secret
    BY <1>6 DEF VerifyTotpCode, Begin
  <2> QED BY <2>1, <2>2, <2>3 DEF CodesOK
<1>7. ASSUME NEW c \in Slot,
             \/ CountPasskeys(c) \/ GenerateRecoveryCodes(c) \/ RegenerateRecoveryCodes(c)
             \/ ReadChallenge(c) \/ AssertPasskey(c) \/ SavePasskey(c)
      PROVE  CodesOK'
  <2>1. UNCHANGED <<secret, drawn, lastUsed, passes, rewound>>
    BY <1>7 DEF CountPasskeys, GenerateRecoveryCodes, RegenerateRecoveryCodes, ReadChallenge,
                AssertPasskey, SavePasskey, secondFactorVars, totpVars
  <2>2. \A d \in Slot : call'[d] = call[d] \/ call'[d].op # "code"
    BY <1>7, IdleIsCall
       DEF CountPasskeys, GenerateRecoveryCodes, RegenerateRecoveryCodes, ReadChallenge,
           AssertPasskey, SavePasskey, Begin, Continue, Return
  <2> QED BY <2>1, <2>2, CodesQuiet
<1>8. ASSUME NEW c \in Slot, ConsumeToken(c) PROVE CodesOK'
  <2>1. UNCHANGED <<secret, drawn, lastUsed, passes, rewound>>
    BY <1>8 DEF ConsumeToken, totpVars
  <2>2. \A op : call[c].op = "consume" => [call[c] EXCEPT !.op = op].op = op
    BY DEF AnyCall, FactorCall, Idle
  <2>3. \A d \in Slot : call'[d] = call[d] \/ call'[d].op # "code"
    BY <1>8, <2>2, IdleIsCall DEF ConsumeToken, Continue, Return
  <2> QED BY <2>1, <2>3, CodesQuiet
<1>9. ASSUME NEW c \in Slot, NEW n \in Step, ConfirmTotp(c, n) PROVE CodesOK'
  <2>1. UNCHANGED <<secret, drawn, lastUsed, passes, rewound>>
    BY <1>9 DEF ConfirmTotp, secondFactorVars, totpVars
  <2>2. \A d \in Slot : call'[d] = call[d] \/ call'[d].op # "code"
    BY <1>9 DEF ConfirmTotp, Begin
  <2> QED BY <2>1, <2>2, CodesQuiet
<1>10. ASSUME NEW c \in Slot, NEW p \in RecoveryCode, PresentRecoveryCode(c, p) PROVE CodesOK'
  <2>1. UNCHANGED <<secret, drawn, lastUsed, passes, rewound>>
    BY <1>10 DEF PresentRecoveryCode, secondFactorVars, totpVars
  <2>2. \A d \in Slot : call'[d] = call[d] \/ call'[d].op # "code"
    BY <1>10 DEF PresentRecoveryCode, Begin
  <2> QED BY <2>1, <2>2, CodesQuiet
<1>11. ASSUME NEW c \in Slot, NEW n \in Challenge, AnswerChallenge(c, n) PROVE CodesOK'
  <2>1. UNCHANGED <<secret, drawn, lastUsed, passes, rewound>>
    BY <1>11 DEF AnswerChallenge, totpVars
  <2>2. \A d \in Slot : call'[d] = call[d] \/ call'[d].op # "code"
    BY <1>11 DEF AnswerChallenge, Begin
  <2> QED BY <2>1, <2>2, CodesQuiet
<1> QED BY <1>1, <1>2, <1>3, <1>4, <1>5, <1>6, <1>7, <1>8, <1>9, <1>10, <1>11 DEF SecondFactorNext

-----------------------------------------------------------------------------
(* Tokens.                                                                 *)

\* A step that opens no session for a token, revives none and has none asserted.
LEMMA TokensQuiet ==
  ASSUME TokensOK, UNCHANGED sessions,
         \A p \in Token : token[p] = "used" => token'[p] = "used",
         \A d \in Slot : call'[d] = call[d] \/ call'[d].op # "assert"
  PROVE  TokensOK'
BY DEF TokensOK, Asserts

LEMMA TokensStep ==
  ASSUME TypesOK, TokensOK, SecondFactorNext
  PROVE  TokensOK'
<1> USE SecondFactorAssumption DEF TypesOK
<1>1. CASE Tick \/ SetupTotp \/ DeleteTotp \/ DeletePasskey
  BY <1>1, TokensQuiet DEF Tick, SetupTotp, DeleteTotp, DeletePasskey, tokenVars
<1>2. ASSUME NEW n \in Challenge, NEW kind \in {"auth", "register"}, StoreChallenge(n, kind)
      PROVE  TokensOK'
  <2>1. \A p \in Token : token[p] = "used" => token'[p] = "used"
    BY <1>2 DEF StoreChallenge, ValuesOK
  <2> QED BY <1>2, <2>1, TokensQuiet DEF StoreChallenge
<1>3. ASSUME NEW c \in Slot,
             \/ WriteConfirmation(c) \/ CountPasskeys(c) \/ GenerateRecoveryCodes(c) \/ UseCode(c)
             \/ RegenerateRecoveryCodes(c) \/ ReadChallenge(c) \/ SavePasskey(c)
      PROVE  TokensOK'
  <2>1. UNCHANGED sessions
    BY <1>3 DEF WriteConfirmation, CountPasskeys, GenerateRecoveryCodes, UseCode, RegenerateRecoveryCodes,
                ReadChallenge, SavePasskey, secondFactorVars, tokenVars
  <2>2. \A p \in Token : token[p] = "used" => token'[p] = "used"
    BY <1>3 DEF WriteConfirmation, CountPasskeys, GenerateRecoveryCodes, UseCode, RegenerateRecoveryCodes,
                ReadChallenge, SavePasskey, secondFactorVars, tokenVars, ValuesOK
  <2>3. \A d \in Slot : call'[d] = call[d] \/ call'[d].op # "assert"
    BY <1>3, IdleIsCall DEF WriteConfirmation, CountPasskeys, GenerateRecoveryCodes, UseCode,
                RegenerateRecoveryCodes, ReadChallenge, SavePasskey, Begin, Continue, Return
  <2> QED BY <2>1, <2>2, <2>3, TokensQuiet
<1>4. ASSUME NEW c \in Slot, NEW n \in Step, ConfirmTotp(c, n) \/ VerifyTotpCode(c, n) PROVE TokensOK'
  <2>1. \A d \in Slot : call'[d] = call[d] \/ call'[d].op # "assert"
    BY <1>4 DEF ConfirmTotp, VerifyTotpCode, Begin
  <2> QED BY <1>4, <2>1, TokensQuiet DEF ConfirmTotp, VerifyTotpCode, secondFactorVars, tokenVars
<1>5. ASSUME NEW c \in Slot, NEW p \in RecoveryCode, PresentRecoveryCode(c, p) PROVE TokensOK'
  <2>1. \A d \in Slot : call'[d] = call[d] \/ call'[d].op # "assert"
    BY <1>5 DEF PresentRecoveryCode, Begin
  <2> QED BY <1>5, <2>1, TokensQuiet DEF PresentRecoveryCode, secondFactorVars, tokenVars
<1>6. ASSUME NEW c \in Slot, NEW n \in Challenge, AnswerChallenge(c, n) PROVE TokensOK'
  <2>1. \A d \in Slot : call'[d] = call[d] \/ call'[d].op # "assert"
    BY <1>6 DEF AnswerChallenge, Begin
  <2> QED BY <1>6, <2>1, TokensQuiet DEF AnswerChallenge
<1>7. ASSUME NEW c \in Slot, ConsumeToken(c) PROVE TokensOK'
  <2> DEFINE p == call[c].token
  <2>1. call[c].op = "consume" /\ p \in Token
    BY <1>7, Fields DEF ConsumeToken
  <2>2. CASE Return(c) /\ UNCHANGED <<token, sessions>>
    BY <2>2, IdleIsCall, TokensQuiet DEF Return, Continue
  <2>3. CASE token[p] = "unused" /\ token' = [token EXCEPT ![p] = "used"]
    <3>1. token'[p] = "used" /\ \A q \in Token \ {p} : token'[q] = token[q]
      BY <2>1, <2>3 DEF ValuesOK
    <3>2. sessions[p] = 0 /\ \A d \in Slot : ~Asserts(d, p)
      <4>1. token[p] # "used" /\ sessions[p] \in Nat
        BY <2>1, <2>3 DEF ValuesOK
      <4> QED BY <2>1, <4>1 DEF TokensOK
    <3>3. CASE sessions' = [sessions EXCEPT ![p] = @ + 1] /\ Return(c)
      <4>1. sessions'[p] = 1 /\ \A q \in Token \ {p} : sessions'[q] = sessions[q]
        BY <2>1, <3>2, <3>3 DEF ValuesOK
      <4>2. \A d \in Slot, q \in Token : Asserts(d, q)' => Asserts(d, q)
        BY <3>3, IdleIsCall DEF Return, Continue, Asserts
      <4> QED BY <3>1, <3>2, <4>1, <4>2 DEF TokensOK
    <3>4. CASE UNCHANGED sessions /\ Continue(c, [call[c] EXCEPT !.op = "assert"])
      <4>1. \A d \in Slot, q \in Token : Asserts(d, q)' => Asserts(d, q) \/ (d = c /\ q = p)
        <5>1. [call[c] EXCEPT !.op = "assert"].token = p
          BY <2>1, SecondFactorAssumption DEF AnyCall, FactorCall, Idle
        <5>2. call'[c].token = p /\ \A d \in Slot \ {c} : call'[d] = call[d]
          BY <3>4, <5>1 DEF Continue
        <5> HIDE DEF p
        <5> QED BY <5>2 DEF Asserts
      <4> QED BY <3>1, <3>2, <3>4, <4>1 DEF TokensOK
    <3>5. CASE UNCHANGED sessions /\ (Return(c) \/ Continue(c, [call[c] EXCEPT !.op = "register"]))
      <4>1. [call[c] EXCEPT !.op = "register"].op = "register"
        BY <2>1 DEF AnyCall, FactorCall, Idle
      <4>2. \A d \in Slot : call'[d] = call[d] \/ call'[d].op # "assert"
        BY <3>5, <4>1, IdleIsCall DEF Return, Continue
      <4> QED BY <3>1, <3>5, <4>2, TokensQuiet
    <3> QED BY <1>7, <2>3, <3>3, <3>4, <3>5 DEF ConsumeToken, StillUnused
  <2> QED BY <1>7, <2>2, <2>3 DEF ConsumeToken, StillUnused
<1>8. ASSUME NEW c \in Slot, AssertPasskey(c) PROVE TokensOK'
  <2> DEFINE p == call[c].token
  <2>1. p \in Token /\ Asserts(c, p) /\ UNCHANGED token
    BY <1>8, Fields DEF AssertPasskey, Token, Asserts
  <2>2. \A d \in Slot : call'[d] = call[d] \/ call'[d].op # "assert"
    BY <1>8, IdleIsCall DEF AssertPasskey, Return, Continue
  <2>3. CASE UNCHANGED sessions
    BY <2>1, <2>2, <2>3, TokensQuiet
  <2>4. CASE sessions' = [sessions EXCEPT ![p] = @ + 1]
    <3>1. sessions[p] = 0
      <4>1. ~(sessions[p] > 0) /\ sessions[p] \in Nat
        BY <2>1 DEF TokensOK, ValuesOK
      <4> QED BY <4>1
    <3>2. sessions'[p] = 1 /\ \A q \in Token \ {p} : sessions'[q] = sessions[q]
      BY <2>1, <2>4, <3>1 DEF ValuesOK
    <3>3. \A d \in Slot, q \in Token : Asserts(d, q)' => Asserts(d, q) /\ q # p
      <4>1. \A d \in Slot, q \in Token : Asserts(d, q)' => Asserts(d, q) /\ d # c
        BY <1>8, IdleIsCall DEF AssertPasskey, Return, Continue, Asserts
      <4> QED BY <2>1, <4>1 DEF TokensOK
    <3> QED BY <2>1, <3>2, <3>3 DEF TokensOK
  <2> QED BY <1>8, <2>3, <2>4 DEF AssertPasskey
<1> QED BY <1>1, <1>2, <1>3, <1>4, <1>5, <1>6, <1>7, <1>8 DEF SecondFactorNext

-----------------------------------------------------------------------------
(* Methods.                                                                *)

\* What no step undoes.
Kept ==
  /\ \A p \in Token : token[p] # "none" => token'[p] # "none"
  /\ \A n \in Challenge : type[n] # "none" => type'[n] = type[n]
  /\ \A n \in Challenge : type'[n] # "none" => token'[n] # "none"
  /\ abreast => abreast'
  /\ Covered => Covered'

\* Facts that carry MethodsOK over a step.
Carried ==
  /\ Kept
  /\ \A d \in Slot : call'[d] = call[d] \/ (Passkeys(d) => Sound(d))'
  /\ passkey' => passkey \/ Covered'
  /\ verified' => verified \/ Confirming'
  /\ Confirming => Confirming' \/ Covered'

LEMMA MethodsCarried ==
  ASSUME MethodsOK, Carried
  PROVE  MethodsOK'
<1>1. (\A n \in Challenge : type[n] # "none" => token[n] # "none")'
  BY DEF Carried, Kept
<1>2. ASSUME NEW c \in Slot, Passkeys(c)' PROVE Sound(c)'
  <2>1. CASE call'[c] = call[c]
    <3>1. Sound(c)
      BY <1>2, <2>1 DEF MethodsOK, Passkeys
    <3>2. type'[call[c].answers] = type[call[c].answers]
      BY <3>1 DEF Carried, Kept, Sound
    <3> QED BY <2>1, <3>1, <3>2 DEF Carried, Kept, Sound
  <2> QED BY <1>2, <2>1 DEF Carried
<1>3. (passkey => Covered)' /\ (verified => Covered \/ Confirming)'
  BY DEF MethodsOK, Carried, Kept
<1> QED BY <1>1, <1>2, <1>3 DEF MethodsOK

LEMMA StepKeeps ==
  ASSUME TypesOK, MethodsOK, SecondFactorNext
  PROVE  Kept
<1> USE SecondFactorAssumption DEF TypesOK
<1>0. \A n \in Challenge : type[n] # "none" => token[n] # "none"
  BY DEF MethodsOK
<1>1. /\ \A p \in Token : token[p] # "none" => token'[p] # "none"
      /\ abreast => abreast'
  <2>1. CASE UNCHANGED <<token, abreast>>
    BY <2>1
  <2>2. ASSUME NEW n \in Challenge, NEW kind \in {"auth", "register"}, StoreChallenge(n, kind)
        PROVE  UNCHANGED abreast /\ token' = [token EXCEPT ![n] = "unused"]
    BY <2>2 DEF StoreChallenge
  <2>3. ASSUME NEW c \in Slot, GenerateRecoveryCodes(c)
        PROVE  UNCHANGED abreast /\ \E p \in RecoveryCode : token' = [token EXCEPT ![p] = "unused"]
    BY <2>3 DEF GenerateRecoveryCodes
  <2>4. ASSUME NEW c \in Slot, ConsumeToken(c), token' # token
        PROVE  UNCHANGED abreast /\ token' = [token EXCEPT ![call[c].token] = "used"]
    BY <2>4 DEF ConsumeToken
  <2>5. ASSUME NEW c \in Slot, RegenerateRecoveryCodes(c)
        PROVE  UNCHANGED abreast /\ \A p \in Token : token[p] # "none" => token'[p] # "none"
    BY <2>5 DEF RegenerateRecoveryCodes, ValuesOK
  <2>6. ASSUME NEW c \in Slot, NEW n \in Challenge, AnswerChallenge(c, n)
        PROVE  (abreast => abreast') /\ UNCHANGED token
    BY <2>6 DEF AnswerChallenge
  <2>7. ASSUME NEW c \in Slot, ConsumeToken(c) PROVE UNCHANGED abreast
    BY <2>7 DEF ConsumeToken
  <2>8. \A p, q \in Token, s \in {"unused", "used"} :
          token[q] # "none" => [token EXCEPT ![p] = s][q] # "none"
    BY DEF ValuesOK
  <2>9. \A c \in Slot : ConsumeToken(c) => call[c].token \in Token
    BY Fields DEF ConsumeToken
  <2>10. \/ UNCHANGED <<token, abreast>>
         \/ \E n \in Challenge, kind \in {"auth", "register"} : StoreChallenge(n, kind)
         \/ \E c \in Slot : \/ GenerateRecoveryCodes(c) \/ ConsumeToken(c) \/ RegenerateRecoveryCodes(c)
                            \/ \E n \in Challenge : AnswerChallenge(c, n)
    BY DEF SecondFactorNext, Tick, SetupTotp, DeleteTotp, DeletePasskey, WriteConfirmation, CountPasskeys,
           UseCode, ReadChallenge, AssertPasskey, SavePasskey, ConfirmTotp, VerifyTotpCode,
           PresentRecoveryCode, secondFactorVars, totpVars, tokenVars
  <2>11. abreast => abreast'
    BY <2>2, <2>3, <2>5, <2>6, <2>7, <2>10
  <2>12. \/ UNCHANGED token
         \/ \E p \in Token, s \in {"unused", "used"} : token' = [token EXCEPT ![p] = s]
         \/ \E c \in Slot : RegenerateRecoveryCodes(c)
    BY <2>2, <2>3, <2>4, <2>6, <2>9, <2>10 DEF Token
  <2> QED BY <2>5, <2>8, <2>11, <2>12
<1>2. /\ \A n \in Challenge : type[n] # "none" => type'[n] = type[n]
      /\ \A n \in Challenge : type'[n] # "none" => token'[n] # "none"
  <2>1. CASE UNCHANGED type
    BY <1>0, <1>1, <2>1 DEF Token
  <2>2. ASSUME NEW n \in Challenge, NEW kind \in {"auth", "register"}, StoreChallenge(n, kind)
        PROVE  /\ \A k \in Challenge : type[k] # "none" => type'[k] = type[k]
               /\ \A k \in Challenge : type'[k] # "none" => token'[k] # "none"
    BY <1>0, <2>2 DEF StoreChallenge, ValuesOK, Token
  <2> QED BY <2>1, <2>2
       DEF SecondFactorNext, Tick, SetupTotp, DeleteTotp, DeletePasskey,
           WriteConfirmation, CountPasskeys, GenerateRecoveryCodes, UseCode, RegenerateRecoveryCodes,
           ReadChallenge, ConsumeToken, AssertPasskey, SavePasskey, ConfirmTotp, VerifyTotpCode,
           PresentRecoveryCode, AnswerChallenge, secondFactorVars, totpVars, tokenVars
<1>3. Covered => Covered'
  <2>1. Issued => Issued'
    BY <1>1 DEF Issued, Token
  <2>2. ASSUME NEW c \in Slot, GenerateRecoveryCodes(c) PROVE Issued'
    <3>1. PICK p \in RecoveryCode : token' = [token EXCEPT ![p] = "unused"]
      BY <2>2 DEF GenerateRecoveryCodes
    <3>2. token'[p] = "unused"
      BY <3>1 DEF ValuesOK, Token
    <3> QED BY <3>2 DEF Issued
  <2>3. CASE \A c \in Slot : ~GenerateRecoveryCodes(c)
    <3>1. \A d \in Slot : call[d].op = "codes" => call'[d] = call[d]
      BY <2>3, IdleIsCall
         DEF SecondFactorNext, Tick, SetupTotp, DeleteTotp, DeletePasskey, StoreChallenge,
           WriteConfirmation, CountPasskeys, UseCode, RegenerateRecoveryCodes,
           ReadChallenge, ConsumeToken, AssertPasskey, SavePasskey, ConfirmTotp, VerifyTotpCode,
           PresentRecoveryCode, AnswerChallenge, secondFactorVars, Begin, Continue, Return, Serve
    <3> QED BY <1>1, <2>1, <3>1 DEF Covered, Issuing
  <2> QED BY <2>2, <2>3 DEF Covered
<1> QED BY <1>1, <1>2, <1>3 DEF Kept

LEMMA MethodsStep ==
  ASSUME TypesOK, MethodsOK, SecondFactorNext
  PROVE  MethodsOK'
<1> USE SecondFactorAssumption DEF TypesOK
<1>0. Kept
  BY StepKeeps
<1>1. CASE Tick \/ SetupTotp \/ DeleteTotp \/ DeletePasskey
           \/ \E n \in Challenge, kind \in {"auth", "register"} : StoreChallenge(n, kind)
  <2>1. UNCHANGED call /\ (passkey' => passkey) /\ (verified' => verified)
    BY <1>1 DEF Tick, SetupTotp, DeleteTotp, DeletePasskey, StoreChallenge, totpVars, tokenVars
  <2>2. Carried
    BY <1>0, <2>1 DEF Carried, Passkeys, Confirming
  <2> QED BY <2>2, MethodsCarried
<1>2. ASSUME NEW c \in Slot, WriteConfirmation(c) PROVE MethodsOK'
  <2>1. call'[c].op = "first" /\ (\A d \in Slot \ {c} : call'[d] = call[d]) /\ UNCHANGED passkey
    BY <1>2 DEF WriteConfirmation, Continue, tokenVars
  <2>2. Carried
    BY <1>0, <2>1 DEF Carried, Passkeys, Confirming
  <2> QED BY <2>2, MethodsCarried
<1>3. ASSUME NEW c \in Slot, CountPasskeys(c) PROVE MethodsOK'
  <2>1. /\ \A d \in Slot \ {c} : call'[d] = call[d]
        /\ call'[c].op \in {"idle", "codes"}
        /\ UNCHANGED <<passkey, verified>>
    BY <1>3, IdleIsCall DEF CountPasskeys, Continue, Return, secondFactorVars, totpVars, tokenVars
  <2>2. Covered'
    <3>1. CASE passkey
      BY <1>0, <3>1 DEF MethodsOK, Kept
    <3>2. CASE ~passkey
      <4>1. call'[c].op = "codes"
        BY <1>3, <3>2 DEF CountPasskeys, Continue
      <4> QED BY <4>1 DEF Covered, Issuing
    <3> QED BY <3>1, <3>2
  <2>3. Carried
    BY <1>0, <2>1, <2>2 DEF Carried, Passkeys
  <2> QED BY <2>3, MethodsCarried
<1>4. ASSUME NEW c \in Slot,
             \/ GenerateRecoveryCodes(c) \/ UseCode(c) \/ RegenerateRecoveryCodes(c) \/ AssertPasskey(c)
             \/ \E n \in Step : ConfirmTotp(c, n) \/ VerifyTotpCode(c, n)
             \/ \E p \in RecoveryCode : PresentRecoveryCode(c, p)
      PROVE  MethodsOK'
  <2>1. UNCHANGED <<passkey, verified>>
    BY <1>4 DEF GenerateRecoveryCodes, UseCode, RegenerateRecoveryCodes, AssertPasskey, ConfirmTotp,
                VerifyTotpCode, PresentRecoveryCode, secondFactorVars, totpVars, tokenVars
  <2>2. \A d \in Slot : call'[d] = call[d] \/ ~Passkeys(d)'
    <3>1. \A p \in RecoveryCode : p \notin Challenge
      BY DEF Challenge
    <3> QED BY <1>4, <3>1, IdleIsCall
         DEF GenerateRecoveryCodes, UseCode, RegenerateRecoveryCodes, AssertPasskey, ConfirmTotp,
             VerifyTotpCode, PresentRecoveryCode, Begin, Continue, Return, Passkeys
  <2>3. \A d \in Slot : call[d].op = "first" => call'[d] = call[d]
    BY <1>4, IdleIsCall
       DEF GenerateRecoveryCodes, UseCode, RegenerateRecoveryCodes, AssertPasskey, ConfirmTotp,
           VerifyTotpCode, PresentRecoveryCode, Begin, Continue, Return
  <2>4. Carried
    BY <1>0, <2>1, <2>2, <2>3 DEF Carried, Confirming
  <2> QED BY <2>4, MethodsCarried
<1>5. ASSUME NEW c \in Slot, SavePasskey(c) PROVE MethodsOK'
  <2>1. call[c].op = "register" /\ Passkeys(c) /\ UNCHANGED verified
    BY <1>5 DEF SavePasskey, Passkeys, totpVars
  <2>2. \A d \in Slot : call'[d] = call[d] \/ ~Passkeys(d)'
    BY <1>5, IdleIsCall DEF SavePasskey, Continue, Return, Passkeys
  <2>3. \A d \in Slot : call[d].op = "first" => call'[d] = call[d]
    BY <1>5 DEF SavePasskey, Continue, Return
  <2>4. Covered'
    <3>1. CASE call[c].first
      <4>1. call'[c].op = "codes"
        BY <1>5, <3>1 DEF SavePasskey, Continue
      <4> QED BY <4>1 DEF Covered, Issuing
    <3>2. CASE ~call[c].first
      BY <1>0, <2>1, <3>2 DEF MethodsOK, Kept, Sound
    <3> QED BY <3>1, <3>2
  <2>5. Carried
    BY <1>0, <2>1, <2>2, <2>3, <2>4 DEF Carried, Confirming
  <2> QED BY <2>5, MethodsCarried
<1>6. ASSUME NEW c \in Slot, ReadChallenge(c) PROVE MethodsOK'
  <2>1. call[c].op = "respond" /\ UNCHANGED <<passkey, verified, type>>
    BY <1>6 DEF ReadChallenge, secondFactorVars, totpVars, tokenVars
  <2>2. Sound(c)
    BY <2>1 DEF MethodsOK, Passkeys
  <2>3. /\ \A d \in Slot \ {c} : call'[d] = call[d]
        /\ \/ call'[c].op = "idle"
           \/ /\ call'[c].op = "consume"
              /\ call'[c].answers = call[c].answers /\ call'[c].first = call[c].first
    BY <1>6, IdleIsCall DEF ReadChallenge, Continue, Return
  <2>4. (Passkeys(c) => Sound(c))'
    BY <1>0, <2>1, <2>2, <2>3 DEF Passkeys, Sound, Kept
  <2>5. Carried
    BY <1>0, <2>1, <2>3, <2>4 DEF Carried, Confirming
  <2> QED BY <2>5, MethodsCarried
<1>7. ASSUME NEW c \in Slot, ConsumeToken(c) PROVE MethodsOK'
  <2> DEFINE p == call[c].token
  <2>1. call[c].op = "consume" /\ UNCHANGED <<passkey, verified, type>>
    BY <1>7 DEF ConsumeToken, totpVars
  <2>2. /\ \A d \in Slot \ {c} : call'[d] = call[d]
        /\ \/ call'[c].op = "idle"
           \/ /\ p \in Challenge /\ p = call[c].answers
              /\ call'[c] = [call[c] EXCEPT !.op = IF type[p] = "auth" THEN "assert" ELSE "register"]
    BY <1>7, IdleIsCall DEF ConsumeToken, Continue, Return
  <2>3. (Passkeys(c) => Sound(c))'
    <3>1. CASE call'[c].op = "idle"
      BY <3>1 DEF Passkeys
    <3>2. CASE /\ p \in Challenge /\ p = call[c].answers
               /\ call'[c] = [call[c] EXCEPT !.op = IF type[p] = "auth" THEN "assert" ELSE "register"]
      <4>1. Sound(c)
        BY <2>1, <3>2 DEF MethodsOK, Passkeys
      <4>2. call[c] \in [op : {"consume"}, token : Challenge, answers : Challenge, first : BOOLEAN]
        BY <2>1, <3>2, SecondFactorAssumption DEF AnyCall, FactorCall, Idle, Challenge
      <4>3. /\ call'[c].answers = call[c].answers /\ call'[c].first = call[c].first
            /\ call'[c].op = IF type[p] = "auth" THEN "assert" ELSE "register"
        BY <3>2, <4>2
      <4>4. type[p] \in {"auth", "register"}
        BY <3>2, <4>1 DEF Sound, ValuesOK
      <4> QED BY <1>0, <2>1, <3>2, <4>1, <4>3, <4>4 DEF Sound, Passkeys, Kept
    <3> QED BY <2>2, <3>1, <3>2
  <2>4. Carried
    BY <1>0, <2>1, <2>2, <2>3 DEF Carried, Confirming
  <2> QED BY <2>4, MethodsCarried
<1>8. ASSUME NEW c \in Slot, NEW n \in Challenge, AnswerChallenge(c, n) PROVE MethodsOK'
  <2> DEFINE b == type[n] = "register" /\ ~HasMethod
  <2>1. /\ call[c].op = "idle" /\ (\A d \in Slot \ {c} : call'[d] = call[d])
        /\ call'[c].answers = n /\ call'[c].first = b /\ call'[c].op = "respond"
        /\ type[n] # "none" /\ UNCHANGED <<passkey, verified, type>>
    BY <1>8, IdleIsCall DEF AnswerChallenge, Begin, totpVars
  <2>2. type[n] = "register" /\ ~b => Covered'
    <3>1. CASE passkey
      BY <1>0, <3>1 DEF MethodsOK, Kept
    <3>2. CASE verified
      <4>1. CASE Covered
        BY <1>0, <4>1 DEF Kept
      <4>2. CASE Confirming /\ type[n] = "register"
        BY <1>8, <4>2 DEF AnswerChallenge, Confirming, Covered
      <4> QED BY <3>2, <4>1, <4>2 DEF MethodsOK
    <3> QED BY <3>1, <3>2 DEF HasMethod
  <2>3. b \in BOOLEAN
    BY Zenon
  <2> HIDE DEF b
  <2>4. (Passkeys(c) => Sound(c))'
    BY <2>1, <2>2, <2>3 DEF Passkeys, Sound
  <2>5. Carried
    BY <1>0, <2>1, <2>4 DEF Carried, Confirming
  <2> QED BY <2>5, MethodsCarried
<1> QED BY <1>1, <1>2, <1>3, <1>4, <1>5, <1>6, <1>7, <1>8 DEF SecondFactorNext

-----------------------------------------------------------------------------
(* The invariant.                                                          *)

LEMMA FactorStart ==
  ASSUME call = [c \in Slot |-> Idle], AccountsTypeOK, SecondFactorInit
  PROVE  FactorInv
<1> USE SecondFactorAssumption, IdleIsCall DEF SecondFactorInit
<1>1. ValuesOK
  BY DEF ValuesOK, Secret, Step
<1>2. \A c \in Slot : call[c].op = "idle"
  OBVIOUS
<1>3. TypesOK
  BY <1>1 DEF TypesOK
<1>4. CodesOK
  BY <1>2 DEF CodesOK
<1>5. TokensOK
  BY <1>2 DEF TokensOK, Asserts
<1>6. MethodsOK
  <2>1. passkey => Issued
    BY DEF Issued, Token
  <2> QED BY <1>2, <2>1 DEF MethodsOK, Passkeys, Covered
<1> QED BY <1>3, <1>4, <1>5, <1>6 DEF FactorInv

LEMMA FactorStepKeeps ==
  ASSUME FactorInv, SecondFactorNext
  PROVE  FactorInv'
BY TypesStep, CodesStep, TokensStep, MethodsStep DEF FactorInv

LEMMA FactorStutters ==
  ASSUME FactorInv, UNCHANGED <<call, calls, accountVars, secondFactorVars>>
  PROVE  FactorInv'
<1>1. TypesOK'
  BY DEF FactorInv, TypesOK, AccountsTypeOK, ValuesOK, accountVars, secondFactorVars, totpVars, tokenVars
<1>2. CodesOK'
  BY CodesQuiet DEF FactorInv, secondFactorVars, totpVars
<1>3. TokensOK'
  BY TokensQuiet DEF FactorInv, secondFactorVars, tokenVars
<1>4. MethodsOK'
  BY DEF FactorInv, MethodsOK, Passkeys, Sound, Covered, Issued, Issuing, Confirming,
         secondFactorVars, totpVars, tokenVars
<1> QED BY <1>1, <1>2, <1>3, <1>4 DEF FactorInv

LEMMA FactorSafe ==
  ASSUME FactorInv
  PROVE  OneSessionEach /\ RecoveryCodesIssued
<1>1. OneSessionEach
  BY DEF FactorInv, CodesOK, TokensOK, OneSessionEach
<1>2. RecoveryCodesIssued
  BY DEF FactorInv, MethodsOK, Covered, Issued, Issuing, Confirming, RecoveryCodesIssued
<1> QED BY <1>1, <1>2
=============================================================================
