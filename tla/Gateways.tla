------------------------------ MODULE Gateways ------------------------------
(***************************************************************************)
(* The small protocols at the edge of the server that share no data with   *)
(* each other: the second factor of a login, the registration of a card at *)
(* Toss, inbound mail, the rate limit, the settings of the admins, the     *)
(* stream of live notifications, and the views. A behaviour is about one.  *)
(***************************************************************************)
EXTENDS SecondFactor, Cards, Inbound, Throttle, Settings, Stream, Views

CONSTANTS
  Gate,
  Spent     \* bound: what a gate does without of the budget MaxCalls

ASSUME GatewaysAssumption == Spent \in [Gate -> 0..MaxCalls]

VARIABLE gate     \* the protocol of this behaviour

vars == <<call, calls, accountVars, secondFactorVars, cardVars, inboundVars, throttleVars,
          settingVars, streamVars, viewVars, gate>>

TypeOK ==
  /\ AccountsTypeOK /\ SecondFactorTypeOK /\ CardsTypeOK /\ InboundTypeOK /\ ThrottleTypeOK
  /\ SettingsTypeOK /\ StreamTypeOK /\ ViewsTypeOK
  /\ call \in [Slot -> {Idle} \cup FactorCall \cup CardCall \cup IngestCall \cup SettingsCall
                       \cup ViewCall]
  /\ gate \in Gate

Init ==
  /\ gate \in Gate
  /\ RequestsInit(Spent[gate])
  /\ SecondFactorInit /\ CardsInit /\ InboundInit /\ ThrottleInit
  /\ SettingsInit /\ StreamInit
  /\ passkey => gate = "factor"
  /\ blockMs # 0 => gate = "limit"
  /\ ViewsInit(gate)

FactorStep ==
  /\ gate = "factor"
  /\ SecondFactorNext
  /\ UNCHANGED <<cardVars, inboundVars, throttleVars, settingVars, streamVars, viewVars, gate>>

CardStep ==
  /\ gate = "card"
  /\ CardsNext
  /\ UNCHANGED <<secondFactorVars, inboundVars, throttleVars, settingVars, streamVars, viewVars, gate>>

InboundStep ==
  /\ gate = "mail"
  /\ InboundNext
  /\ UNCHANGED <<secondFactorVars, cardVars, throttleVars, settingVars, streamVars, viewVars, gate>>

LimitStep ==
  /\ gate = "limit"
  /\ ThrottleNext
  /\ UNCHANGED <<call, calls, accountVars, secondFactorVars, cardVars, inboundVars,
                 settingVars, streamVars, viewVars, gate>>

SettingStep ==
  /\ gate = "settings"
  /\ SettingsNext
  /\ UNCHANGED <<secondFactorVars, cardVars, inboundVars, throttleVars, streamVars, viewVars, gate>>

StreamStep ==
  /\ gate = "stream"
  /\ StreamNext
  /\ UNCHANGED <<call, calls, accountVars, secondFactorVars, cardVars, inboundVars,
                 throttleVars, settingVars, viewVars, gate>>

ViewStep ==
  /\ ViewsNext(gate)
  /\ UNCHANGED <<secondFactorVars, cardVars, inboundVars, throttleVars, settingVars, streamVars,
                 gate>>

Next ==
  \/ FactorStep \/ CardStep \/ InboundStep \/ LimitStep \/ SettingStep \/ StreamStep
  \/ ViewStep

Spec == Init /\ [][Next]_vars

-----------------------------------------------------------------------------
\* Both limits on what anyone may send: the requests of a key, and the events
\* of an advertisement.
LimitsHold == WindowLimit /\ EventsCountedOnce
=============================================================================
