------------------------------ MODULE Throttle ------------------------------
(***************************************************************************)
(* The rate limit of one key: the script that Redis runs for each request, *)
(* as written in                                                           *)
(*   src/server/src/common/throttling/redis-throttler.storage.ts           *)
(*                                                                         *)
(* Redis runs a script as one step. The time in it is the clock of the API *)
(* server that sent it, which may be ahead of another's by up to Skew.     *)
(***************************************************************************)
EXTENDS Naturals, Sequences, FiniteSets

CONSTANTS
  Ttl, Limit,
  Skew,
  MaxClock, MaxHits     \* bounds: the clock, and the requests let in

ASSUME ThrottleAssumption == /\ Ttl \in Nat \ {0} /\ Limit \in Nat \ {0}
                             /\ Skew \in 0..Ttl
                             /\ MaxClock \in Nat /\ MaxHits \in Nat

VARIABLES
  clock,          \* of the slowest server
  hits,           \* the sorted set: members are named by a number, their scores expire
  seq,            \* the number of the last member
  isBlocked,
  blockExpiresAt,
  blockMs,        \* of the limit on this key: 0, or the default of the guard, its ttl
  admitted        \* history: when requests were let in, and the members they left

throttleVars == <<clock, hits, seq, isBlocked, blockExpiresAt, blockMs, admitted>>

Times == 0..(MaxClock + Skew + Ttl)

ThrottleTypeOK ==
  /\ clock \in 0..MaxClock
  /\ hits \subseteq [seq : Nat, expires : Times]
  /\ seq \in Nat
  /\ isBlocked \in BOOLEAN
  /\ blockExpiresAt \in Times
  /\ blockMs \in {0, Ttl}
  /\ admitted \in Seq([at : 0..MaxClock, seq : Nat])

ThrottleInit ==
  /\ clock = 0
  /\ hits = {}
  /\ seq = 0
  /\ isBlocked = FALSE
  /\ blockExpiresAt = 0
  /\ blockMs \in {0, Ttl}
  /\ admitted = <<>>

Pass(t) ==
  /\ clock < MaxClock
  /\ clock' = clock + t
  /\ UNCHANGED <<hits, seq, isBlocked, blockExpiresAt, blockMs, admitted>>

\* ZREMRANGEBYSCORE -inf now: an expiry at now is over.
Live(now) == {h \in hits : h.expires > now}

Hit_KeptThroughBlock(now) == [seq |-> seq + 1, expires |-> now + Ttl + blockMs]

Hit(now) == [seq |-> seq + 1, expires |-> now + Ttl]

\* fire_hit, on the members that are left.
FireHit(left, now) ==
  /\ hits' = left \cup {Hit(now)}
  /\ seq' = seq + 1

LetIn == admitted' = Append(admitted, [at |-> clock, seq |-> seq + 1])

TooMany_OneMore(total) == total > Limit + 1

TooMany(total) == total > Limit

\* No block: a request over the limit is refused and leaves no trace.
IncrementUnblocked(now) ==
  /\ blockMs = 0
  /\ IF TooMany(Cardinality(Live(now)) + 1)
     THEN hits' = Live(now) /\ UNCHANGED <<seq, admitted>>
     ELSE FireHit(Live(now), now) /\ LetIn
  /\ UNCHANGED <<isBlocked, blockExpiresAt>>

\* The request that crosses the limit leaves a hit and starts the block; the
\* first after the block starts over with itself as the only hit.
IncrementBlocking(now) ==
  /\ blockMs > 0
  /\ \/ /\ isBlocked /\ blockExpiresAt > now
        /\ hits' = Live(now)
        /\ UNCHANGED <<seq, isBlocked, blockExpiresAt, admitted>>
     \/ /\ isBlocked /\ blockExpiresAt <= now
        /\ FireHit({}, now)
        /\ LetIn
        /\ isBlocked' = FALSE
        /\ UNCHANGED blockExpiresAt
     \/ /\ ~isBlocked
        /\ FireHit(Live(now), now)
        /\ IF TooMany(Cardinality(Live(now)) + 1)
           THEN /\ isBlocked' = TRUE
                /\ blockExpiresAt' = now + blockMs
                /\ UNCHANGED admitted
           ELSE LetIn /\ UNCHANGED <<isBlocked, blockExpiresAt>>

Increment(now) ==
  /\ Len(admitted) < MaxHits
  /\ IncrementUnblocked(now) \/ IncrementBlocking(now)
  /\ UNCHANGED <<clock, blockMs>>

ThrottleNext == Pass(1) \/ \E now \in clock..(clock + Skew) : Increment(now)

-----------------------------------------------------------------------------
\* "Sliding-window semantics": however requests, blocks and the clocks of the
\* servers meet, no window of the ttl, less the skew of the clocks, lets in
\* more than the limit.
WindowLimit ==
  \A i \in 1..Len(admitted) :
    i + Limit <= Len(admitted) => admitted[i].at + Ttl <= admitted[i + Limit].at + Skew
=============================================================================
