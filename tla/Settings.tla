------------------------------ MODULE Settings ------------------------------
(***************************************************************************)
(* The settings of the admins and the maintenance window among them, as    *)
(* written in                                                              *)
(*   src/server/src/modules/admin/admin-settings.service.ts                *)
(*                                                                         *)
(* A partial update reads the stored JSON value, merges, checks the window *)
(* and writes the whole value back without a lock.                         *)
(***************************************************************************)
EXTENDS Requests

CONSTANT Date   \* dates of the window; 0 is null

ASSUME SettingsAssumption == Date \subseteq Nat \ {0}

VARIABLES
  stored,     \* adminSettings.values
  asked,      \* history: what the last update that named a key asked for
  contended   \* history: two updates were in flight at once

settingVars == <<stored, asked, contended>>

Setting == {"alert", "start", "end"}
Values == {v \in [Setting -> Date \cup {0}] : v["alert"] \in {0, 1}}
Partial == UNION {[keys -> Date \cup {0}] : keys \in SUBSET Setting \ {{}}}

SettingsCall == [op : {"put"}, values : Values, named : SUBSET Setting]

SettingsTypeOK ==
  /\ stored \in Values
  /\ asked \in Values
  /\ contended \in BOOLEAN

SettingsInit ==
  /\ stored = [k \in Setting |-> 0]
  /\ asked = stored
  /\ contended = FALSE

InOrder(v) == v["start"] # 0 /\ v["end"] # 0 => v["start"] < v["end"]

Merged(v, partial) == [k \in Setting |-> IF k \in DOMAIN partial THEN partial[k] ELSE v[k]]

\* update up to its write: the read, the merge and the check.
UpdateSettings(c, partial) ==
  /\ Merged(stored, partial) \in Values
  /\ InOrder(Merged(stored, partial))
  /\ Begin(c, Staff, [op |-> "put", values |-> Merged(stored, partial),
                      named |-> DOMAIN partial])
  /\ contended' = (contended \/ \E d \in Slot : call[d].op = "put")
  /\ UNCHANGED <<accountVars, stored, asked>>

Written_NamedOnly(c) ==
  [k \in Setting |-> IF k \in call[c].named THEN call[c].values[k] ELSE stored[k]]

Written(c) == call[c].values

PutSettings(c) ==
  /\ call[c].op = "put"
  /\ stored' = Written(c)
  /\ asked' = [k \in Setting |-> IF k \in call[c].named THEN call[c].values[k] ELSE asked[k]]
  /\ Return(c)
  /\ UNCHANGED <<accountVars, contended>>

SettingsNext ==
  \E c \in Slot : PutSettings(c) \/ \E partial \in Partial : UpdateSettings(c, partial)

-----------------------------------------------------------------------------
\* "The window is checked before it is stored, so that no wrong one gets in":
\* also when an update of its start races one of its end. "Only the keys of
\* the update are overwritten": unless two updates were in flight at once,
\* every key has the value it was last given.
SettingsKept ==
  /\ InOrder(stored)
  /\ ~contended => stored = asked
=============================================================================
