------------------------------- MODULE AdEvents -------------------------------
(***************************************************************************)
(* The impressions or clicks of one advertisement, counted by one API      *)
(* server from requests that anyone may send, as written in                *)
(*   src/server/src/modules/ads/ads.service.ts (recordEvent)               *)
(*                                                                         *)
(* The ids seen and the window are in the memory of the server.            *)
(***************************************************************************)
EXTENDS Requests

CONSTANTS
  EventId, NoId,      \* an event need not have an id
  EventWindow,        \* EVENT_WINDOW_MS
  MaxPerWindow,       \* MAX_EVENTS_PER_WINDOW
  LastTime            \* bound

ASSUME AdEventsAssumption == /\ NoId \notin EventId
                             /\ EventWindow \in Nat \ {0} /\ MaxPerWindow \in Nat \ {0}
                             /\ LastTime \in Nat

VARIABLES
  time,
  recentEventIds,   \* when an id is forgotten, 0 for one not there
  window,           \* eventWindowStarts
  counter,          \* ad_event_counters, over all hours
  admittedEvents    \* history: events let through since the server started

adEventVars == <<time, recentEventIds, window, counter, admittedEvents>>

NoWindow == [startedAt |-> 0, count |-> 0]
EventCall == [op : {"judge"}, id : EventId \cup {NoId}] \cup [op : {"count"}]

AdEventsTypeOK ==
  /\ time \in 1..(LastTime + 1)
  /\ recentEventIds \in [EventId -> 0..(LastTime + 1 + EventWindow)]
  /\ window \in [startedAt : 0..(LastTime + 1), count : 0..MaxPerWindow]
  /\ counter \in Nat
  /\ admittedEvents \in Seq([id : EventId \cup {NoId}, at : 1..(LastTime + 1)])

AdEventsInit ==
  /\ time = 1
  /\ recentEventIds = [i \in EventId |-> 0]
  /\ window = NoWindow
  /\ counter = 0
  /\ admittedEvents = <<>>

TimePasses ==
  /\ time <= LastTime
  /\ time' = time + 1
  /\ UNCHANGED <<call, calls, accountVars, recentEventIds, window, counter, admittedEvents>>

\* The advertisement is read as active; otherwise nothing is recorded.
ReceiveEvent(c, id) ==
  /\ Begin(c, Staff, [op |-> "judge", id |-> id])
  /\ UNCHANGED <<adEventVars, accountVars>>

\* pruneRecentEventIds
Remembered(id) == id # NoId /\ recentEventIds[id] > time

Fresh == window = NoWindow \/ time - window.startedAt >= EventWindow

\* All of it happens between two awaits. An id is kept also when the limit
\* refuses its event.
Judge(c) ==
  /\ call[c].op = "judge"
  /\ LET id == call[c].id
         full == ~Fresh /\ window.count >= MaxPerWindow
         pruned == [i \in EventId |-> IF Remembered(i) THEN recentEventIds[i] ELSE 0]
     IN IF Remembered(id)
        THEN /\ recentEventIds' = pruned
             /\ Return(c)
             /\ UNCHANGED <<window, admittedEvents>>
        ELSE /\ recentEventIds' = [i \in EventId |-> IF i = id THEN time + EventWindow ELSE pruned[i]]
             /\ IF full
                THEN Return(c) /\ UNCHANGED <<window, admittedEvents>>
                ELSE /\ window' = IF Fresh THEN [startedAt |-> time, count |-> 1]
                                           ELSE [window EXCEPT !.count = @ + 1]
                     /\ admittedEvents' = Append(admittedEvents, [id |-> id, at |-> time])
                     /\ Continue(c, [op |-> "count"])
  /\ UNCHANGED <<time, counter, accountVars>>

\* The increment in the database, or an error.
CountEvent(c) ==
  /\ call[c].op = "count"
  /\ counter' \in {counter, counter + 1}
  /\ Return(c)
  /\ UNCHANGED <<time, recentEventIds, window, admittedEvents, accountVars>>

\* Requests in flight are lost with the memory.
Restart ==
  /\ admittedEvents # <<>>
  /\ call' = [c \in Slot |-> Idle]
  /\ recentEventIds' = [i \in EventId |-> 0]
  /\ window' = NoWindow
  /\ admittedEvents' = <<>>
  /\ UNCHANGED <<calls, time, counter, accountVars>>

AdEventsNext ==
  \/ TimePasses \/ Restart
  \/ \E c \in Slot : \/ \E id \in EventId \cup {NoId} : ReceiveEvent(c, id)
                     \/ Judge(c) \/ CountEvent(c)

-----------------------------------------------------------------------------
\* A server counts an id once in a window's time, whether its event was let
\* through or not; the windows are fixed, so two of them together let through
\* at most twice the limit, and never more in any window's time.
EventsCountedOnce ==
  LET e == admittedEvents
  IN /\ \A i, j \in 1..Len(e) : i < j /\ e[i].id = e[j].id /\ e[i].id # NoId => e[i].at + EventWindow <= e[j].at
     /\ \A i \in 1..Len(e) : i + 2 * MaxPerWindow <= Len(e) => e[i].at + EventWindow <= e[i + 2 * MaxPerWindow].at
==============================================================================
