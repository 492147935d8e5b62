------------------------------- MODULE Notices -------------------------------
(***************************************************************************)
(* The hourly scan of the worker that tells users of deadlines and new     *)
(* challenges, as written in                                               *)
(*   src/server/src/modules/notifications/                                 *)
(*     challenge-notification-scan.service.ts                              *)
(*   src/server/src/worker.ts (scanChallengeNotifications)                 *)
(*                                                                         *)
(* Time is in hours, the interval of the scan. A slot is a worker; a scan  *)
(* is three reads, each followed by inserts in chunks, and is over before  *)
(* the next hour. What the interest scan reads of challenges and of users  *)
(* is one read.                                                            *)
(***************************************************************************)
EXTENDS Requests

CONSTANTS
  Reader, Post,
  CreatedAt, StartDate, EndDate,    \* of a post, in hours
  Fans,                             \* who is interested in the category of a post
  DeadlineWindow, RecentWindow,     \* DEADLINE_WINDOW_DAYS, RECENT_WINDOW_MS
  InsertChunk,                      \* INSERT_CHUNK
  LastHour, MaxFaults, MaxChanges   \* bounds

ASSUME NoticesAssumption ==
  /\ CreatedAt \in [Post -> Nat] /\ StartDate \in [Post -> Nat] /\ EndDate \in [Post -> Nat]
  /\ Fans \subseteq Reader \X Post
  /\ DeadlineWindow \in Nat /\ RecentWindow \in Nat /\ InsertChunk \in Nat \ {0}
  /\ LastHour \in Nat /\ MaxFaults \in Nat /\ MaxChanges \in Nat

VARIABLES
  hour,
  bookmarked,   \* bookmarks
  muted,        \* switches of users.notificationSettings that are off
  barred,       \* users suspended or withdrawn
  published,    \* challenges.status is published
  noticed,      \* notifications, one per user and dedupeKey
  scannedAt,    \* lastChallengeScanAt of a worker, Never after a start
  faults, changes,
  kept,         \* history: notices that were wanted whenever their time was
  served,       \* history: a scan of this hour met no fault
  gap, longest  \* history: hours in a row without such a scan, and the most so far

noticeVars == <<hour, bookmarked, muted, barred, published, noticed, scannedAt,
                faults, changes, kept, served, gap, longest>>
wishVars == <<bookmarked, muted, barred, published>>

Kind == {"deadline", "open", "new"}
Notice == [user : Reader, kind : Kind, post : Post]
Never == LastHour + 1

ScanCall == [op : {"scan"}, now : 0..LastHour, kind : Kind, todo : SUBSET Notice]

NoticesTypeOK ==
  /\ hour \in 0..LastHour
  /\ bookmarked \subseteq Reader \X Post
  /\ muted \subseteq Reader \X {"deadline", "challenge"}
  /\ barred \subseteq Reader /\ published \subseteq Post
  /\ noticed \cup kept \subseteq Notice
  /\ scannedAt \in [Slot -> 0..Never]
  /\ faults \in 0..MaxFaults /\ changes \in 0..MaxChanges
  /\ served \in BOOLEAN /\ gap \in Nat /\ longest \in Nat

SwitchOf(kind) == IF kind = "deadline" THEN "deadline" ELSE "challenge"

\* The dates in the conditions of the three reads.
Timely(kind, p, now) ==
  /\ now < EndDate[p]
  /\ \/ kind = "deadline" /\ EndDate[p] <= now + DeadlineWindow
     \/ kind = "open" /\ StartDate[p] <= now /\ now < StartDate[p] + RecentWindow
     \/ kind = "new" /\ CreatedAt[p] <= now /\ now < CreatedAt[p] + RecentWindow

\* The rest of the conditions, and isOptedIn.
Wanted(n) ==
  /\ n.post \in published
  /\ n.user \notin barred
  /\ <<n.user, SwitchOf(n.kind)>> \notin muted
  /\ <<n.user, n.post>> \in IF n.kind = "new" THEN Fans ELSE bookmarked

Due(kind, now) == {n \in Notice : n.kind = kind /\ Timely(kind, n.post, now) /\ Wanted(n)}

\* The history after a step: who stops wanting a notice in its time drops out.
Keep == kept' = {n \in kept : Timely(n.kind, n.post, hour') => Wanted(n)'}

NoticesInit ==
  /\ hour = 0
  /\ bookmarked \in SUBSET (Reader \X Post)
  /\ muted = {} /\ barred = {}
  /\ published = Post
  /\ noticed = {}
  /\ scannedAt = [c \in Slot |-> Never]
  /\ faults = 0 /\ changes = 0
  /\ kept = {n \in Notice : Timely(n.kind, n.post, 0) => Wanted(n)}
  /\ served = FALSE /\ gap = 0 /\ longest = 0

\* The hour is noted before the scan, so that a scan that fails is not repeated.
BeginScan(c) ==
  /\ call[c] = Idle
  /\ scannedAt[c] # hour
  /\ scannedAt' = [scannedAt EXCEPT ![c] = hour]
  /\ Continue(c, [op |-> "scan", now |-> hour, kind |-> "deadline",
                  todo |-> Due("deadline", hour)])
  /\ UNCHANGED <<hour, wishVars, noticed, faults, changes, kept, served, gap, longest>>

Chunks(todo) ==
  {chunk \in SUBSET todo : \/ Cardinality(chunk) = InsertChunk
                           \/ chunk = todo /\ Cardinality(todo) \in 1..InsertChunk}

InsertNotices_Strict(c) ==
  /\ call[c].op = "scan"
  /\ \E chunk \in Chunks(call[c].todo) :
       IF chunk \cap noticed # {}
       THEN Return(c) /\ served' = TRUE /\ UNCHANGED noticed
       ELSE /\ noticed' = noticed \cup chunk
            /\ Continue(c, [call[c] EXCEPT !.todo = @ \ chunk])
            /\ UNCHANGED served
  /\ UNCHANGED <<hour, wishVars, scannedAt, faults, changes, kept, gap, longest>>

\* ON CONFLICT DO NOTHING: rows that are there already are skipped.
InsertNotices(c) ==
  /\ call[c].op = "scan"
  /\ \E chunk \in Chunks(call[c].todo) :
       /\ noticed' = noticed \cup chunk
       /\ Continue(c, [call[c] EXCEPT !.todo = @ \ chunk])
  /\ UNCHANGED <<hour, wishVars, scannedAt, faults, changes, kept, served, gap, longest>>

\* The next of the three reads, with the time of the first.
ReadNext(c) ==
  /\ call[c].op = "scan" /\ call[c].todo = {}
  /\ \E kind \in Kind :
       /\ <<call[c].kind, kind>> \in {<<"deadline", "open">>, <<"open", "new">>}
       /\ Continue(c, [call[c] EXCEPT !.kind = kind, !.todo = Due(kind, call[c].now)])
  /\ UNCHANGED noticeVars

EndScan(c) ==
  /\ call[c].op = "scan" /\ call[c].todo = {} /\ call[c].kind = "new"
  /\ Return(c)
  /\ served' = TRUE
  /\ UNCHANGED <<hour, wishVars, noticed, scannedAt, faults, changes, kept, gap, longest>>

\* A statement fails and the worker goes on, or it is started anew.
FailScan(c) ==
  /\ call[c].op = "scan"
  /\ faults < MaxFaults
  /\ faults' = faults + 1
  /\ Return(c)
  /\ scannedAt' \in {scannedAt, [scannedAt EXCEPT ![c] = Never]}
  /\ UNCHANGED <<hour, wishVars, noticed, changes, kept, served, gap, longest>>

HourPasses ==
  /\ hour < LastHour
  /\ \A c \in Slot : call[c] = Idle /\ scannedAt[c] = hour
  /\ hour' = hour + 1
  /\ gap' = IF served THEN 0 ELSE gap + 1
  /\ longest' = IF gap' > longest THEN gap' ELSE longest
  /\ served' = FALSE
  /\ UNCHANGED <<call, calls, wishVars, noticed, scannedAt, faults, changes>>
  /\ Keep

Switched(set, x) == IF x \in set THEN set \ {x} ELSE set \cup {x}

\* A bookmark, a switch, the account of a user or the status of a post changes.
Change ==
  /\ changes < MaxChanges
  /\ changes' = changes + 1
  /\ \/ /\ \E b \in Reader \X Post : bookmarked' = Switched(bookmarked, b)
        /\ UNCHANGED <<muted, barred, published>>
     \/ /\ \E s \in Reader \X {"deadline", "challenge"} : muted' = Switched(muted, s)
        /\ UNCHANGED <<bookmarked, barred, published>>
     \/ /\ \E u \in Reader : barred' = Switched(barred, u)
        /\ UNCHANGED <<bookmarked, muted, published>>
     \/ /\ \E p \in Post : published' = Switched(published, p)
        /\ UNCHANGED <<bookmarked, muted, barred>>
  /\ UNCHANGED <<call, calls, hour, noticed, scannedAt, faults, served, gap, longest>>
  /\ Keep

NoticesNext ==
  \/ HourPasses \/ Change
  \/ \E c \in Slot : \/ BeginScan(c) \/ InsertNotices(c) \/ ReadNext(c)
                     \/ EndScan(c) \/ FailScan(c)

-----------------------------------------------------------------------------
TimeOf(n) == {h \in 0..LastHour : Timely(n.kind, n.post, h)}

\* "Only made once by the unique index, so that overlapping scans and several
\* workers are safe", and the windows are wider than the interval "for gaps
\* between scans": a notice that its user wanted for all of its time has been
\* made when the time is over, unless no scan went well for as long.
DueNoticeArrives ==
  \A n \in kept : /\ \A h \in TimeOf(n) : h < hour
                  /\ longest < Cardinality(TimeOf(n))
                  => n \in noticed
=============================================================================
