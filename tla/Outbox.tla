------------------------------- MODULE Outbox -------------------------------
(***************************************************************************)
(* From a committed outbox row to a handled job: the relay of the worker,  *)
(* the SQS queue behind it and the worker's receive loop, as written in    *)
(*   src/server/src/outbox/outbox.service.ts, outbox-relay.service.ts      *)
(*   src/server/src/queue/sqs.service.ts, src/server/src/worker.ts         *)
(*                                                                         *)
(* relay[w] is the relay transaction of worker w: it locks its rows (FOR   *)
(* UPDATE SKIP LOCKED), posts them one by one, and writes what became of   *)
(* them when it commits.  What a worker does with a job it received is the *)
(* subject of the modules that extend this one.                            *)
(*                                                                         *)
(* SQS is external: it delivers a message at any time, also while another  *)
(* worker is busy with it (the visibility timeout is over), and moves it   *)
(* to the dead-letter queue after MaxReceive deliveries.                   *)
(*                                                                         *)
(* An operator D_Bug is no part of the model: it is D with a bug in it,    *)
(* there to see that the properties would notice.                          *)
(***************************************************************************)
EXTENDS Integers, FiniteSets

CONSTANTS
  Event,         \* outbox_events
  Kind,          \* their event types, relayed to different queues
  Workload,      \* which event is of which type, in the instances to check
  Worker,        \* concurrent worker tasks
  MaxAttempts,   \* MAX_ATTEMPTS of the relay
  MaxReceive,    \* maxReceiveCount of the queues
  MaxFaults,     \* bound: crashes and lost answers in one behaviour
  NoMessage

\* One delivery can go wrong at a time, so a row is posted at most once more
\* than there are faults.
Message == [event : Event, copy : 1..(MaxFaults + 1)]

ASSUME OutboxAssumption ==
  /\ Workload \subseteq [Event -> Kind]
  /\ MaxAttempts \in Nat \ {0}
  /\ MaxReceive \in Nat
  /\ MaxFaults \in Nat
  /\ NoMessage \notin Message

VARIABLES
  kind,      \* outbox_events.event_type
  outbox,    \* outbox_events.status, "none" before the row is inserted
  attempts,  \* outbox_events.attempts
  queue,     \* messages on the queues
  received,  \* how often SQS delivered a message
  dead,      \* messages in the dead-letter queue
  handled,   \* events a worker has processed and acknowledged
  relay,     \* the relay transaction of each worker
  job,       \* the message each worker is processing
  faults     \* faults so far

outboxVars == <<kind, outbox, attempts, queue, received, dead, handled, relay, job, faults>>

Batch == [todo : SUBSET Event, posted : SUBSET Event, refused : SUBSET Event]
NoBatch == [todo |-> {}, posted |-> {}, refused |-> {}]

\* Type correctness of every variable.
OutboxTypeOK ==
  /\ kind \in [Event -> Kind]
  /\ outbox \in [Event -> {"none", "pending", "sent", "failed"}]
  /\ attempts \in [Event -> 0..MaxAttempts]
  /\ queue \subseteq Message
  /\ received \in [Message -> 0..MaxReceive]
  /\ dead \subseteq Message
  /\ handled \subseteq Event
  /\ relay \in [Worker -> Batch]
  /\ job \in [Worker -> Message \cup {NoMessage}]
  /\ faults \in 0..MaxFaults

OutboxInit ==
  /\ kind \in Workload
  /\ outbox = [e \in Event |-> "none"]
  /\ attempts = [e \in Event |-> 0]
  /\ queue = {}
  /\ received = [m \in Message |-> 0]
  /\ dead = {}
  /\ handled = {}
  /\ relay = [w \in Worker |-> NoBatch]
  /\ job = [w \in Worker |-> NoMessage]
  /\ faults = 0

Claimed(w) == relay[w].todo \cup relay[w].posted \cup relay[w].refused
Free(w) == Claimed(w) = {} /\ job[w] = NoMessage
\* Rows no relay transaction holds a lock on.
Eligible(k) ==
  {e \in Event : outbox[e] = "pending" /\ kind[e] = k /\ \A w \in Worker : e \notin Claimed(w)}
Copies(e) == {m \in Message : m.event = e /\ (m \in queue \/ m \in dead)}

-----------------------------------------------------------------------------
(* The outbox and its relay.                                               *)

\* OutboxService.enqueue, in the transaction of the business row.
Enqueue(e) ==
  /\ outbox[e] = "none"
  /\ outbox' = [outbox EXCEPT ![e] = "pending"]
  /\ UNCHANGED <<kind, attempts, queue, received, dead, handled, relay, job, faults>>

\* The batch takes every eligible row: instances stay below its size, ten.
RelayBegin(w, k) ==
  /\ Free(w)
  /\ Eligible(k) # {}
  /\ relay' = [relay EXCEPT ![w].todo = Eligible(k)]
  /\ UNCHANGED <<kind, outbox, attempts, queue, received, dead, handled, job, faults>>

\* A new message for event e appears on its queue, the next copy of it.
Used(e) == {m \in Message : m.event = e /\ (m \in queue \cup dead \/ received[m] > 0)}
Post(e) ==
  \E n \in 1..(MaxFaults + 1) :
    /\ n = Cardinality(Used(e)) + 1
    /\ queue' = queue \cup {[event |-> e, copy |-> n]}

Settled(w, e, posted, refused) ==
  relay' = [relay EXCEPT ![w] =
              [todo |-> relay[w].todo \ {e}, posted |-> posted, refused |-> refused]]
Sent(w, e) == Settled(w, e, relay[w].posted \cup {e}, relay[w].refused)
Refused(w, e) == Settled(w, e, relay[w].posted, relay[w].refused \cup {e})

RelaySend_ErrorIgnored(w, e) ==
  /\ e \in relay[w].todo
  /\ Sent(w, e)
  /\ Post(e) \/ UNCHANGED queue
  /\ UNCHANGED <<kind, outbox, attempts, received, dead, handled, job, faults>>

RelaySend(w, e) ==
  /\ e \in relay[w].todo
  /\ \/ Post(e) /\ Sent(w, e) /\ UNCHANGED faults
     \/ Refused(w, e) /\ UNCHANGED <<queue, faults>>
     \/ \* SQS has the message, the worker sees an error
        /\ faults < MaxFaults
        /\ faults' = faults + 1
        /\ Post(e)
        /\ Refused(w, e)
  /\ UNCHANGED <<kind, outbox, attempts, received, dead, handled, job>>

RelayCommit_RetriesForEver(w) ==
  /\ Claimed(w) # {}
  /\ relay[w].todo = {}
  /\ attempts' = [e \in Event |-> IF e \in relay[w].refused THEN attempts[e] + 1 ELSE attempts[e]]
  /\ outbox' = [e \in Event |-> IF e \in relay[w].posted THEN "sent" ELSE outbox[e]]
  /\ relay' = [relay EXCEPT ![w] = NoBatch]
  /\ UNCHANGED <<kind, queue, received, dead, handled, job, faults>>

RelayCommit(w) ==
  LET r == relay[w] IN
  /\ Claimed(w) # {}
  /\ r.todo = {}
  /\ attempts' = [e \in Event |-> IF e \in r.refused THEN attempts[e] + 1 ELSE attempts[e]]
  /\ outbox' = [e \in Event |->
       IF e \in r.posted THEN "sent"
       ELSE IF e \in r.refused /\ attempts[e] + 1 >= MaxAttempts THEN "failed"
       ELSE outbox[e]]
  /\ relay' = [relay EXCEPT ![w] = NoBatch]
  /\ UNCHANGED <<kind, queue, received, dead, handled, job, faults>>

-----------------------------------------------------------------------------
(* The queue and the receive loop.                                         *)

Receive(w, m) ==
  /\ Free(w)
  /\ m \in queue
  /\ received[m] < MaxReceive
  /\ received' = [received EXCEPT ![m] = @ + 1]
  /\ job' = [job EXCEPT ![w] = m]
  /\ UNCHANGED <<kind, outbox, attempts, queue, dead, handled, relay, faults>>

\* The processor returned: the message is deleted.
Acknowledge(w) ==
  /\ job[w] # NoMessage
  /\ queue' = queue \ {job[w]}
  /\ handled' = handled \cup {job[w].event}
  /\ job' = [job EXCEPT ![w] = NoMessage]
  /\ UNCHANGED <<kind, outbox, attempts, received, dead, relay, faults>>

\* The processor threw: the message stays on the queue.
Leave(w) ==
  /\ job[w] # NoMessage
  /\ job' = [job EXCEPT ![w] = NoMessage]
  /\ UNCHANGED <<kind, outbox, attempts, queue, received, dead, handled, relay, faults>>

GiveUp(m) ==
  /\ m \in queue
  /\ received[m] = MaxReceive
  /\ queue' = queue \ {m}
  /\ dead' = dead \cup {m}
  /\ UNCHANGED <<kind, outbox, attempts, received, handled, relay, job, faults>>

\* The worker dies, or its database does: a relay transaction is rolled
\* back, whatever it has posted, and the job it was at stays on the queue.
Crash(w) ==
  /\ ~Free(w)
  /\ faults < MaxFaults
  /\ faults' = faults + 1
  /\ relay' = [relay EXCEPT ![w] = NoBatch]
  /\ job' = [job EXCEPT ![w] = NoMessage]
  /\ UNCHANGED <<kind, outbox, attempts, queue, received, dead, handled>>

OutboxNext ==
  \/ \E e \in Event : Enqueue(e)
  \/ \E m \in Message : GiveUp(m)
  \/ \E w \in Worker :
       \/ \E k \in Kind : RelayBegin(w, k)
       \/ \E e \in Event : RelaySend(w, e)
       \/ RelayCommit(w)
       \/ \E m \in Message : Receive(w, m)
       \/ Acknowledge(w) \/ Leave(w) \/ Crash(w)

OutboxSpec == OutboxInit /\ [][OutboxNext]_outboxVars

-----------------------------------------------------------------------------
(* What the outbox is for: "a crash right after commit can never lose the  *)
(* SQS job".                                                               *)

\* The relay gave up on the row, after MaxAttempts errors.
GivenUp(e) == outbox[e] = "failed" /\ attempts[e] = MaxAttempts

\* A committed event is still to be relayed, on a queue, dead-lettered or
\* given up where an operator finds it, or processed: never just gone.
NoEventLost ==
  \A e \in Event : outbox[e] # "none" =>
    outbox[e] = "pending" \/ GivenUp(e) \/ Copies(e) # {} \/ e \in handled

\* Two relays never hold the same row, and hold pending rows only.
ClaimsDisjoint ==
  \A v, w \in Worker :
    /\ v # w => Claimed(v) \cap Claimed(w) = {}
    /\ \A e \in Claimed(w) : outbox[e] = "pending"
=============================================================================
