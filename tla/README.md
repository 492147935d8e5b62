# A TLA+ development of the challenge platform

The repository is a platform on which companies publish challenges and users apply
to them, form teams and book ads. `src/server` is a NestJS API (one ECS task) and a
worker (another task) over one PostgreSQL database, with Redis for rate limits, S3
for files, SQS between API and worker, SES for mail and Toss as payment provider.
`src/front` renders it. What is hard in this system is mostly in the server: money
moves at Toss and in the database at different times, jobs cross a queue that delivers
more than once, and most handlers read a row, wait for something, and then write. A few
parts of the browser have overlapping asynchronous work of their own.

## Inventory

| Part | State | Operations | What makes it correct |
|---|---|---|---|
| Payments (`modules/payments`) | `payments` rows, Toss payments | confirm, five webhooks, compensation, retry scan | an order is paid exactly with its payment; nobody is charged twice; a charge that cannot be used goes back |
| Orders (`modules/orders`) | `orders.status` | settleOrderPaid, cancelOrder, cancelPendingByOwner | pending to paid or canceled, canceled is final |
| Refund requests (`modules/refunds`) | `refund_requests.status` | request, approve, reject | approved means the money is back and the order closed |
| Ads (`modules/ads`, `admin.pauseAd`) | `ads.status`, `paused_by`, `expires_at`; event maps in memory, `ad_event_counters` | create, updateStatus, pauseAd, expiry, recordEvent | no date of a slot is sold twice; only paid ads serve; an event counts once and within the limit |
| Outbox and queues (`outbox`, `queue`) | `outbox_events`, SQS | enqueue, relay, receive, delete | a committed event is never lost |
| Notification mail | `email_send_states` | claim, take over, send, record, release | mailed at least once, and twice only for a fault |
| Support mail | `email_threads`, `email_messages` | reply, new mail, processor; ingestInbound | sent at most once; every mail received is filed once, in its thread |
| Verification | `verifications`, `businesses.verification_status` | submit, admin decision, automatic approval | every request is decided, a decision of an admin stands |
| Worker loop (`worker.ts`) | timers | scans, relay passes, polls | one job's failure does not stop the others |
| Challenges | `challenges`, `contestAutoPublish` | create, update, updateStatus, publish, reject; list | only the allowed transitions; a reader of the list sees every row once |
| Applications | `applications`, orders | apply, update, orderForApplication | one application and one payable order per user; received stays received |
| Teams | `teams`, `team_members` | create, join, invite, updateMember, hand-over on withdrawal | scout limit, places, nobody is a member unasked |
| Certificates and badges | `certificates`, `users.badges` | create, verify, edit | a badge has its certificate |
| Businesses | `businesses` | register, hand-over on withdrawal | one business per owner |
| Profiles | `users.external_links` | save, review of a badge | no update is lost; only an admin gives the badge |
| Accounts (`modules/auth`) | `users`, sign-in subjects | register, three logins, withdraw, suspend, the guard of every request | each provider leads to one account; a withdrawn user leads nothing and leaves nothing |
| Second factor (`auth/mfa`) | credentials, codes, challenges | TOTP, passkeys, recovery codes | a code opens one session; the first method brings recovery codes |
| Files, billing cards | `files`, two S3 buckets; `billing_auth_attempts`, Toss | request, finalize, reject; issueCard | a ready file exists; a key is exchanged once and its card found again |
| Rate limiting, settings | Redis keys; `admin_settings` | one Lua script; read, merge, check, write | the limit holds over any window; no wrong maintenance window |
| Live notifications, hourly scan | LISTEN connection; `notifications` | connect, reconnect, stop; scan | one listener; a due notice arrives, once |
| Browser: bookmarks, poster of a posting | query cache; dialog and form | toggle, fetch; pick, recognize, crop, upload | what is shown is what was saved; parts of one pick stay together |
| Reports and moderation, people, dashboard, rest of the front end, infrastructure | | | reads, conditional updates of one row, rendering |

How they interact: settlement (Orders) runs in the transaction of a payment handler and
activates an ad or completes an application; every transaction that tells a user
something inserts an outbox row; the worker relays those rows and runs the retry scan
of Payments and the scan for notices. A withdrawal cuts across teams, businesses,
certificates, profiles, files, applications and sign-in. API handlers, the worker and
Toss are concurrent with each other. The behaviours that are hard to test are listed,
each at its line, under `hazards` in `PROJECT.json`.

## Modules

| Module | Models |
|---|---|
| `Payments` | payments, orders and refund requests against an external Toss |
| `AdWindow` | what orders and payments are promised about an ad: an abstract payment window |
| `Ads` | ad reservations; implements `AdWindow` |
| `Outbox` | outbox rows, relay transactions, queues and dead-letter queue |
| `NotificationEmail`, `SupportEmail`, `Verifications` | the three processors, each a layer with its own variables on the one before |
| `Delivery` | the worker: composes the four |
| `Requests` | requests in flight and the accounts they come from; every module below builds on it |
| `Teams`, `Challenges`, `Applications`, `Certificates`, `Businesses`, `Portfolio`, `Uploads`, `SignIn` | one component each |
| `Community` | composes them with suspension and withdrawal |
| `SecondFactor`, `Cards`, `Inbound`, `Throttle`, `Settings`, `Stream` | small protocols at the edge of the server |
| `Notices`, `Listing`, `AdEvents`, `Bookmarks`, `Poster` | what users are shown and what is counted of it |
| `Views`, `Gateways` | compose the last two groups |
| `MCPayments`, `MCAds`, `MCDelivery`, `MCCommunity`, `MCGateways` | instances for TLC |
| `PaymentsProofs`, `AdsProofs`, `OutboxProofs`, `DeliveryProofs`, `CommunityProofs`, `SecondFactorProofs`, `ViewsProofs`, `GatewaysProofs` | theorems |

### Payments

`frame[a]` is the handler that actor `a` runs: which operation, where it is, and what
it has read so far (an order, the view of Toss, a number). Each `await` on Toss or on
another database statement is a step boundary; a database transaction is one step,
because it writes the unique `payments` row of the order first and locks the order
row before it decides, and holds both. Handlers that share code share actions:
`RecordLocally` is entered by the compensation of confirm, by a DONE webhook and by
the worker's scan; `Settle` by confirm and DONE. A `Key` is a Toss paymentKey. An
order can be paid with a second key (`orderForApplication` re-uses a pending order),
and this is where the deepest interleavings come from. Toss is external: it charges
once per Idempotency-Key, it may have acted although its answer is lost, the shop
operator may cancel a payment in its console, and its webhooks stay in `hooks` until
they are acknowledged, in any order, so that they are delivered again and late.

Left out: the comparison of amount and order id with Toss (a key belongs to one order),
the secret of the webhook, texts, and the notification a settlement inserts.

### Ads

A settlement is two steps, the check under locks and the commit. `create` is two
steps under the lock of the product row. `updateStatus` is a read with its checks and a
later write that checks only the order again. `Midnight` and `Expire` are the clock.
Dates are small integers. `ImplementsWindow` maps an ad to the window of `AdWindow`:
open while it can be paid (or is being settled), closed otherwise.

### Outbox, processors and Delivery

`relay[w]` is the open relay transaction of worker `w`, with the rows it holds and what
became of each; a crash rolls it back and leaves what it has posted on the queue.
A message can be delivered to a second worker while the first is still at it: the
visibility timeout is not modelled as time. `stage[w]` is where a worker is in its
processor. A claim of a notification mail is three atomic statements (`Claim`,
`TakeOver`, `Check`); its lease may run out under a worker that is slow. A poll
of ten messages is ten single receives, and a message that waits in a batch is like a
worker that has not started yet. The code assumes that mail is configured
(`isConfigured()`); a type without a template is treated like a lost recipient.

Two workers are checked: `outbox-relay.service.ts:24` calls the relay safe for several
replicas, and tasks overlap in a deployment although one is the configured number.

### Requests, Community and Gateways

`call[c]` is the local state of the handler that runs in slot `c`: its operation, its
arguments and what it has read. `Begin` passes the guard, which reads the account on
every request; each following `Continue` is one statement or transaction, and `Return`
is the answer. So what a handler knows may be out of date when it writes, and that is
what the properties are about. A handler that is one statement is one step (`Serve`).
`MaxCalls` bounds the requests of a behaviour.

The subjects of `Community` share nothing but the accounts and the calls, and the
protocols of `Gateways` share nothing at all. A behaviour is therefore about one of
them, chosen at the start (`topic`, `gate`): the behaviours of the product are
interleavings of these, and an interleaving of parts without common state breaks no
property of one part. `Spent` gives each its share of the budget. What a withdrawal
does to a subject is an action of that subject (`Forget...`, `Anonymized`,
`MayInherit`), taken within `CommitWithdrawal`.

Properties are stated together with the circumstances in which the code gives the
promise up. History variables record those: `crowded` and `trailing` (a call overlapped
a withdrawal), `contended` (two settings updates at once), `abreast` (a passkey
registered while a code is confirmed), `blurred` (rows created in the millisecond of
the last row of a page), `crossed` (a poster picked while another is read). Each is
explained under "Seen while modelling".

### Views

`Notices` measures time in hours, the interval of the scan. A scan is three reads with
inserts in chunks; it may fail between any two statements, the worker may restart, and
bookmarks, switches, accounts and posts change meanwhile. `kept` holds the notices that
were wanted whenever their time was, and `longest` counts hours in a row without a
good scan: `DueNoticeArrives` says that only a gap as long as the window of a notice
loses it. `Listing` keeps for each row its sort value to the millisecond and the
microseconds below, because the cursor drops the latter. `AdEvents` is one server's
memory with restarts. `Bookmarks` models the cache of TanStack Query as the hook uses
it: a fetch remembers the state a cancellation returns to, `setQueryData` makes the data
fresh, `invalidateQueries` drops a fetch for a new one. `Poster` covers the form and
its dialog up to the upload of the two files.

## Runs

| Run | Bounds | Shows |
|---|---|---|
| `PaymentsCharge` | 1 ad order, 2 keys, 2 handlers, 1 worker, 1 retry, 1 fault | `IInv`, `PaidOrderWasCharged`, `NeverRefundsSettledOrder`, `OneChargePerOrder`, `CanceledIsFinal` |
| `PaymentsRefund` | 1 order, 1 key, 2 requests, amount 2, 2 handlers, 1 fault | `ApprovedMeansRefunded` |
| `PaymentsLive` | 1 key, 1 handler, 1 worker, 2 retries, 1 fault, fair | `ChargeResolved`, `CanceledAtTossConverges` |
| `PaymentsTrailKey`, `PaymentsPartialLive` | 2 keys, or a partial amount | violations, see below |
| `Ads` | 2 overlapping ads, 3 handlers, days 0 to 3 | `ServingIsPaid`, `NoDoubleReservation`, `ImplementsWindow` |
| `AdsBooking` | 2 ads, 2 handlers | violation |
| `Delivery` | 2 workers; 2 requests of a business or 1 mail; 2 attempts, 2 receives, 1 crash or lost answer, 2 mishaps, 1 admin decision | types, `NoEventLost` and the promises of the three processors |
| `VerificationRace` | as `Delivery` | violation |
| `Community` | 2 calls at a time, 7 in all less `Spent`, 3 users; 1 team of 2 places and 1 scout, or 1 posting with 2 applications and 3 orders, or 2 certificates, 2 businesses, 2 links, 1 file, 3 providers | one property or two for each subject, and what a withdrawal leaves |
| `TeamsUnasked` | the team of `Community` | violation |
| `Gateways` | 2 calls at a time, 6 in all less `Spent`; see below | one property for each protocol and view |

`Gateways` has 2 recovery codes, 2 challenges and 2 secrets; 2 keys of cards; 3 mails of
which two answer; a ttl of 3, a limit of 2, clocks 1 apart, 6 hits; 3 settings updates;
4 connections; 2 workers, 2 readers and a post that opens at hour 2 and closes at hour 4
with windows of 3 and 2 hours, 1 failure and 1 change; 3 rows, pages of one, sort values
0 to 2, 1 change; 1 event id, a window of 2 and a limit of 1 in 6 ticks; 3 toggles of 2
bookmarks; 3 picks. `Community` and `Gateways` take about a minute and a half each.

Why these bounds: rows are independent but for the order a key belongs to, the slot an
ad lies in, the business of a request, the places of a team and the title of a
certificate, so one order with two keys, two clashing ads, two requests, three users for
two places are the smallest instances with every conflict. Two handlers are enough for
a read of one and a write of the other; the third handler of `Ads` lets a settlement
and an update run around a creation. One fault can hit any step; what needs two is a
sequence of two recoveries from the same states. Retry caps of 1 and 2 reach the cap and
the step before it. Three rows and pages of one give a first, a middle and a last page;
three toggles or picks give one that ends while two others are under way; the clocks
reach past the end of every window they are compared with. Bounds named `Max...`,
`Last...` and `Spent` end runs; `MaxAttempts`, `MaxReceive`, `Limit`, `Ttl`, `PageSize`,
`InsertChunk` and the windows are settings of the code, made small.
`CHECK_DEADLOCK FALSE` is set because an instance really stops: all orders are closed,
all jobs done, all calls made, the clock at its end.

An operator named `D_Bug` is definition `D` with a plausible bug. It is used nowhere;
substituting it for `D` makes the property listed under `mutants` fail.

### Fairness

`PaymentsLive` and `PaymentsPartialLive` use `FairSpec`: a handler that runs is run on
(the event loop), Toss redelivers DONE, CANCELED and PARTIAL_CANCELED until they are
acknowledged, and the worker scans every ten minutes (`worker.ts:27`). The last two are
strong fairness, since a free handler is found again and again but not without a
break. Nothing is assumed of buyers, admins, the shop operator, or of EXPIRED and
ABORTED webhooks. A failed call is not repeated for ever: faults are bounded.
Delivery states no liveness: whether a mail is sent in the end depends on SES, on the
retries SQS allows and on an operator for the dead-letter queue. That a notice arrives
is stated as safety, by counting hours: `HourPasses` waits for the scan of each worker,
which a restart makes due again, and a scan that failed counts as a missed hour.

### What the violations show

- `PaymentsTrailKey`: the `refund_pending` row of an order whose first checkout was
  aborted keeps the key of that checkout, and the scan cancels the wrong payment.
- `PaymentsPartialLive`: a partial cancellation before DONE is handled blocks both.
- `AdsBooking`: the window closes between check and commit of a settlement.
- `VerificationRace`: the worker overwrites a rejection made after its read.
- `TeamsUnasked`: a leader can accept an invitation that was rejected, and a user is a
  member of a team that the user never applied for.

### Seen while modelling

Behaviour that the models have and the properties make room for, without a comment or
test in the repository that says otherwise:

- A late EXPIRED or ABORTED webhook turns `refund_pending` into `expired`
  (`payments.service.ts:719`); two partial cancellations handled out of order leave the
  smaller amount (`:676`); a paused ad keeps its dates after its order was refunded
  (`orders.service.ts:107`).
- A chat link sent again to a member rejected meanwhile can take a team over its
  places; a rejected team still takes members; a user who has withdrawn can be invited.
- `verifyCertificate` gives a badge to a user who has withdrawn; a withdrawal leaves the
  Kakao subject on the account.
- Two concurrent `register` calls give one owner two businesses; of two concurrent
  settings updates one is lost.
- A one-time code confirmed while a passkey is registered: each takes the other for the
  first method, and no recovery codes are made.
- The cursor of the sort `latest` has milliseconds and `created_at` microseconds: rows
  created in the millisecond of the last row of a page are skipped.
- An ad event whose insert failed is not counted when it is sent again with its id. The
  maps are one server's: with several servers each has a limit of its own.
- Notices of the scan are not pushed to open browsers; a user who withdraws between
  read and insert still gets one; a challenge published more than a day after its
  creation is never announced (the code has a TODO about it).
- Two posters picked before the first is read: the dialog keeps the first one's
  position, a read that fails closes the dialog of the other, and an original can be
  uploaded with the thumbnail of the other. A crop confirmed during an upload is dropped.

## Proofs

For every value of the constants, and all bounds. Every invariant and action property
that a passing run checks is the statement of a theorem, and so are both refinements.

- `PaymentsProofs!Invariance`: `Spec => []IInv`, by one step per action. The
  invariant adds `RowsFit` and `FramesFit` to `PaidIffPaymentPaid`. They are needed
  because compensation acts on reads: a handler about to cancel at Toss serves an order
  of `Unsettleable`, and that set only grows (an order leaves it never: canceled is
  final and a lapsed ad cannot be paid for). From this `PaidTogether`,
  `SettledOrderKeepsItsCharge` (a compensated charge never belongs to a paid order) and
  `CanceledStays` follow.
- `PaymentsProofs!ChargeInvariance`: a second invariant on top of the first, about what
  Toss has recorded. `TossFits` says that Toss took money of a key only for
  a confirmation or a deposit and that at most one key of an order was ever opened,
  `RowsBacked` that a paid row names a key Toss took money for, `Backed` that what a
  handler has seen of a charge is still so when it writes. What Toss has taken it never
  untakes, which is why an old answer is good enough. Gives `PaidWasCharged`,
  `ChargedOnce` and `ApprovedWasRefunded`.
- `AdsProofs!Invariance`: `Spec => []IInv` for `Ads`, whose extra part
  `CreationsFit` says that the check of a creation still holds at its insert, because
  the slot is locked. `ServedOnlyWhilePaid` and `ReservationsDisjoint` follow.
- `AdsProofs!WindowImplemented`: `Ads` implements `AdWindow`. `FramesHold` says that a
  handler holds the rows of its ad as it found them (a settlement, those of an unpaid
  ad, and no second one beside it); with it each step maps to a step of the window or to
  none: the insert opens it, the commit of a settlement pays and so closes it; midnight,
  an expiry, an update or a failed settlement may close it unpaid (`WindowStep`).
- `OutboxProofs!OutboxInvariance`: `OutboxSpec => []OInv`. Besides types the invariant
  holds `ClaimsDisjoint`, `NoEventLost` and what makes them inductive, `Backed`: an
  event that an open relay has posted is on a queue, dead-lettered or handled already,
  before its row says `sent`; and a pending row has an attempt left.
- `DeliveryProofs!ImplementsOutbox`: every step of a processor is a step of the outbox
  or leaves it alone, so `EventsSurvive` and `RelaysApart` hold of the whole worker.
  `TypeCorrect` is its type invariant. The promises of the processors:
  - `MailsFit`: at most one worker is past the claim of a support mail, since `QUEUED`
    is written by the insert only, and a mail that can still be claimed was never sent.
    Gives `SupportMailOnce`.
  - `Accounted`: the mails of an event, the workers that may add one, and the permit to
    become such a worker (no claim, or one that has lapsed or lost its holder) are
    together no more than one and the faults and mishaps so far. Gives
    `ExtraMailsExplained`.
  - `DoneInv`: what a processor reads tells what was done (`Evidence`), jobs are jobs of
    inserted rows (`Known`), and a job about to be acknowledged is done and stays so.
    Gives `AcknowledgedIsDone`.
  - `BlockInv`: a worker about to approve a business that is blocked has read it before
    the last decision. Gives `BlocksHold`.
- `CommunityProofs`: thirteen theorems of `Spec` from one invariant with a part for each
  subject. A part speaks of the variables of its subject and of the calls in flight that
  its operations made; the steps of the other subjects leave both alone.
  - `TeamInv`: a team without a leader is a row one call is about to insert, and an
    operation on a team found its row there. Gives `TeamLimits`.
  - `ApplyInv`: of a user whose calls did not overlap, a second application or order is
    not about to be made. `PriceInv`: a row without an order was free when it was made.
    Give `OneApplication`, `ApplicationsCount`.
  - `ChallengeInv`: a change of status moves on what it read, or is marked as overtaken.
    Gives `TransitionsAllowed`.
  - `CertInv`: of a user whose certificates are decided one at a time, a decision still
    knows the state of its certificate and of the others. Gives `BadgeIsVerified`.
  - `BusinessInv`: one call at a time is about to give a user a business, who has none.
    Gives `OneBusinessOnly`.
  - `ProfileInv`: whoever holds the lock of a user's row has read its links as they are.
    Gives `PortfolioSafe`.
  - `UploadInv`: for each file and each finalization of it, what its place in the code
    says of the two buckets. Two of them may be anywhere: what one has established the
    other does not undo. Gives `UploadsSafe`.
  - `SignInInv`: an association in flight is about the account of the address, or one
    that has withdrawn. Gives `SignInSafe`.
  - `AloneInv`, `OrphanInv`, `LeftInv`: a withdrawal that ran alone still knows what its
    user leads and owns, and that the heir is there; and no call writes for a withdrawn
    user unless it was in flight. Give `NoOrphans`, `NothingRemains`.
- `GatewaysProofs`: eleven theorems of `Spec`, one invariant (`IInv`) that holds the
  invariant of the protocol the behaviour is about and says of the others that they are
  at rest. `GatewayTypes` is its type invariant. The other parts:
  - `FactorInv` (`SecondFactorProofs`): a code in flight is of the secret in use or of
    one that was rewound; a token asserted or spent is used; a call that took its method
    for a second one was right. Gives `CodesOpenOneSession`, `FirstMethodBringsCodes`.
  - `CardInv`: one handler per key, and its attempt is open while it runs. Gives
    `KeyHasOneHandler`.
  - `MailInv`: a mail in flight knows the thread of a stored mail it answers. Gives
    `MailIsFiled`.
  - `SettingInv`: what a handler is about to put is in order, and without contention
    agrees with the store on all it does not name. Gives `WindowStaysInOrder`.
  - `StreamInv`: only the current client is open, and it is there exactly when no timer
    is. Gives `ListensOnce`.
  - `NoticesInv`: a scan leaves no wanted notice of its hour behind, so the hours a
    notice has been missing for are hours in a row without a good scan, and are at most
    `longest`. Gives `NoticesArrive`.
  - `ListInv`: a steady row lies behind the cursor and was shown once, or ahead of it
    and not yet, or in its millisecond. Gives `ListIsComplete`.
  - `ThrottleInv`: a request that was let in keeps its member in the sorted set until
    its window is over on the clock of some server, and a block, which ends by throwing
    all members away, outlasts every window. So whoever finds fewer than `Limit` members
    has fewer than that many requests in the window, less the skew, before it.
    `EventsInv`: ids are remembered for as long as their events are recent, and the
    current window starts at an event with a full window, or none, before it. Give
    `LimitsAreKept`.
  - `BookmarksInv`: with no toggle under way, a fetch that has read the server carries
    its bookmarks. Every toggle ends with a fetch of its own, so its roll-back is
    never the last word. `PosterInv`: a recognition with the last number is of the image
    in the dialog. Together they give `BrowserKeepsUp`.

The proofs assume what the models do: a statement, or a transaction under its row
locks, is atomic. Assumptions on the constants are the `ASSUME`s of the modules, and
TLC evaluates each.

Only model-checked: the two liveness properties of `PaymentsLive` (`ChargeResolved`,
`CanceledAtTossConverges`), because liveness under fairness, and the `ENABLED` it is
made of, are out of the prover's reach; and the violations, which are counterexamples
of a small instance and need no proof.

What the proofs changed in the models: `CommitVerdict` of `Certificates`, `Saved` of
`Portfolio` and `Verdict` of `Payments` were CASE expressions whose conditions overlap.
TLC takes the first arm that is true, but a CASE promises no order, and the theorems
did not follow; they are now chains of IF in the order of the code. The members of the
sorted set of `Throttle` are numbered as the Lua script numbers them (they used to be a
bag of times), which gives each request let in a member of its own to speak of.

## Plan

1. Reports and the decisions of admins on teams, reviews and comments.
2. Proofs: lemmas that several modules state for themselves, in one place; smaller
   invariants where a part is stronger than its theorem needs.
3. Invariants of the models that no run states, such as what a withdrawal promises of
   every subject when other calls overlap it.

Abstract specifications worth stating: the payment window (done), an at-least-once
channel for the outbox, a bounded seat counter for teams.

## Not modelled

- Reports, content moderation: `createReport` is one insert and the decisions are
  conditional updates of one row, like `rejectChallenge` in `Challenges`.
- People, interests, dashboard, statistics, lists of admins: reads.
- Passwords, tokens, TOTP, WebAuthn: cryptography; a code is valid or not.
- The capacity of a challenge: no code writes that column.
- Prices, texts, mail templates, input checks, health checks.
- Schema and migrations: the unique indexes that protocols rely on are part of the
  modules that use them.
- Most of the front end, the generated API client, infrastructure other than queue
  settings, and scripts. These are the larger part of the lines of the repository
  (the API client alone is a fifth), and they are rendering, forms, generated calls and
  configuration without a state machine behind them; the share of lines the modules map
  is small for this reason.
