------------------------------- MODULE Stream -------------------------------
(***************************************************************************)
(* The LISTEN connection through which an API server hears of new          *)
(* notifications and pushes them to the open browsers, as written in       *)
(*   src/server/src/modules/notifications/notifications-stream.service.ts  *)
(*                                                                         *)
(* Every connection is a client object of its own, numbered as it is made; *)
(* callbacks of a client come in any order, also after it was given up.    *)
(***************************************************************************)
EXTENDS Naturals, FiniteSets

CONSTANT MaxClients   \* bound: connections of one process

ASSUME StreamAssumption == MaxClients \in Nat \ {0}

VARIABLES
  made,       \* clients made so far
  line,       \* of a client: "deaf" is open without LISTEN
  due,        \* callbacks of a client that are still to come
  client,     \* this.client, 0 for null
  timers,     \* timers that will call connect
  stopped

streamVars == <<made, line, due, client, timers, stopped>>

Client == 1..MaxClients
Callback == {"error", "end", "reject"}

StreamTypeOK ==
  /\ made \in 0..MaxClients
  /\ line \in [Client -> {"none", "opening", "listening", "deaf", "closed"}]
  /\ due \in [Client -> SUBSET Callback]
  /\ client \in 0..MaxClients
  /\ timers \in Nat
  /\ stopped \in BOOLEAN

\* onModuleInit has called connect.
StreamInit ==
  /\ made = 1
  /\ line = [n \in Client |-> IF n = 1 THEN "opening" ELSE "none"]
  /\ due = [n \in Client |-> {}]
  /\ client = 1
  /\ timers = 0
  /\ stopped = FALSE

\* connect and LISTEN have succeeded.
Listening(n) ==
  /\ line[n] = "opening"
  /\ line' = [line EXCEPT ![n] = "listening"]
  /\ UNCHANGED <<made, due, client, timers, stopped>>

\* LISTEN fails on a connection that stays.
Refused(n) ==
  /\ line[n] = "opening"
  /\ line' = [line EXCEPT ![n] = "deaf"]
  /\ due' = [due EXCEPT ![n] = {"reject"}]
  /\ UNCHANGED <<made, client, timers, stopped>>

Open(n) == line[n] \in {"opening", "listening", "deaf"}

\* What a client whose connection closes has still to say.
Closing(n) == {"end"} \cup (IF line[n] = "opening" THEN {"reject"} ELSE {})

\* The connection is refused or lost, with or without an error event.
Breaks(n) ==
  /\ Open(n)
  /\ line' = [line EXCEPT ![n] = "closed"]
  /\ \E more \in SUBSET {"error"} : due' = [due EXCEPT ![n] = @ \cup Closing(n) \cup more]
  /\ UNCHANGED <<made, client, timers, stopped>>

\* client.end(), once the callback in hand is done.
End(n, done) ==
  /\ line' = [line EXCEPT ![n] = "closed"]
  /\ due' = [due EXCEPT ![n] = (IF Open(n) THEN @ \cup Closing(n) ELSE @) \ done]

Ignored_StoppedOnly(n) == stopped

\* Callbacks of a client that was given up already change nothing.
Ignored(n) == stopped \/ client # n

ScheduleReconnect(n, callback) ==
  /\ callback \in due[n]
  /\ IF Ignored(n)
     THEN due' = [due EXCEPT ![n] = @ \ {callback}] /\ UNCHANGED <<line, client, timers>>
     ELSE /\ client' = 0
          /\ timers' = timers + 1
          /\ End(n, {callback})
  /\ UNCHANGED <<made, stopped>>

\* The timer calls connect.
TimerFires ==
  /\ timers > 0
  /\ made < MaxClients
  /\ timers' = timers - 1
  /\ IF stopped
     THEN UNCHANGED <<made, line, client>>
     ELSE /\ made' = made + 1
          /\ client' = made'
          /\ line' = [line EXCEPT ![made'] = "opening"]
  /\ UNCHANGED <<due, stopped>>

\* onModuleDestroy clears the timer and ends the client.
Stop ==
  /\ ~stopped
  /\ stopped' = TRUE
  /\ timers' = IF timers > 0 THEN timers - 1 ELSE 0
  /\ IF client # 0 THEN End(client, {}) ELSE UNCHANGED <<line, due>>
  /\ UNCHANGED <<made, client>>

StreamNext ==
  \/ TimerFires \/ Stop
  \/ \E n \in Client :
       \/ Listening(n) \/ Refused(n) \/ Breaks(n)
       \/ \E callback \in Callback : ScheduleReconnect(n, callback)

-----------------------------------------------------------------------------
\* "Ignore stale clients and the duplicate error/end pair of the current one":
\* a server has one connection or one timer at most, so that a notification
\* is pushed once; it never waits for neither, and a stopped one has none.
OneListener ==
  LET open == {n \in Client : Open(n)}
  IN /\ Cardinality(open) + timers <= 1
     /\ stopped => open = {} /\ timers = 0
     /\ stopped \/ timers = 1 \/ (client # 0 /\ (client \in open \/ due[client] # {}))
=============================================================================
