# Verification of OmniSell OS

TLA+ models of the parts of OmniSell (`src/apps/api`, a NestJS application over
PostgreSQL, Redis and third-party connectors, with its connector library and
the mobile app's offline queue) whose correctness depends on what happens
*between* two statements. TLC checks the models on small instances; TLAPS proves
every safety property that a passing run checks, and both refinements, for every
size; liveness is checked by TLC only.

`PROJECT.json` lists, for tools: the components, the runs, for every property a
mutant of the code that breaks it, the source lines each definition stands for,
the disagreements found, the hazards, and the theorems.

## 1. Inventory

All paths are under `src/apps/api/src` unless they start otherwise. The
application may run as several processes over one PostgreSQL database, and the
modelled services keep nothing in memory between requests (the rate limiter
excepted, which is per process). **No transaction asks for an isolation level**,
so every `$transaction` runs at READ COMMITTED, and most services use no
transaction at all: an operation is a chain of awaited statements, between any
two of which other requests run and after any of which the process may die.

| component | state | operations | talks to | what is hard |
|---|---|---|---|---|
| **Points wallet** `points/wallet`, `redemption`, `expiry`, `earning-rule` | `Wallet` (balance, version), `PointTransaction` (status, source key), `ProductPurchaseWithPoints`, ledger account `points_liability` | adjust, award, confirm, refund, expire, reject | called by video watch and orders; posts to the ledger | a cached balance under concurrent transactions, reads before a transaction, retries |
| **Video watch** `points/video-watch`, `fraud`, `points-queue` | `VideoWatch` row | start, heartbeat, complete, approve, reject | awards through the wallet; a queue | read, clock, decide, write without a guard; overlapping requests; reviewers |
| **Orders** `orders/order-status.machine`, `orders`, `shipment`, `fulfilment`, `returns-refunds` | `Order.status`, event log, `Fulfilment`, `Shipment`, `Refund` | hold, release, cancel, fulfil, ship, deliver, refund | connectors, wallet | status asserted on one read, written later; an external call in the middle |
| **Order ingestion** `orders/order-ingestion` | webhook events, poll cursor | webhook, poll, upsert | writes `Order.status` directly | duplicates, lost events, overlapping polls, a cursor that moves last |
| **Connector library** `src/packages/connectors`, `connections/adapter-runner` | token buckets, waiters, one timer | acquire, pump | providers | lost wake-ups, fairness, rounding of the timer |
| **Finance** `finance/*`, `points/ledger` | ledger entries, period lock, payouts, expenses | recognise, approve, reject, expect, reconcile, lock, correct | orders | guards read outside the transaction that posts |
| **Billing** `finance/stripe-billing`, `ai-credit` | `Subscription`, `AiCreditLedger` | subscribe, cancel | Stripe | two systems, one row, no transaction |
| **Sessions** `auth` | `Session`, challenges, reset tokens | login, challenge, refresh, revoke, reset | second factor, mailer | rotation under concurrent use, sweeps |
| **Second factor** `mfa` | `MfaSecret`, recovery codes | setup, activate, disable, verify | sessions | check, then act |
| **Members and invites** `tenants`, `invites` | `Membership`, `Invite` | change role, remove, invite, revoke, resend, accept | mailer | who may act is resolved before the act |
| **Connections, vault, token refresh** | `Connection`, `Credential`, `ConnectorOAuthState`, `TenantDataKey` | authorize, save, refresh, test, disconnect | providers | deactivate, then create; a sweep beside the user |
| **Digital goods** `digital/*` | coupons, licence keys and activations, delivery tokens | redeem, activate, deactivate, download, revoke | orders, storage | a limit that is checked before it is counted |
| **Idempotency** `common/idempotency` | stored responses | run once per key | all money routes | two first requests at once, a response that is not stored |
| **Publishing** `publishing/*`, `queue` | listings, sync job items, export packs, BullMQ jobs | create, publish, retry, sweep, confirm, approve, delete | connectors' queues | one publication in five writes, failures that are themselves recorded in two |
| **Studio assets** `studio/assets` | assets, versions, upload sessions, scratch files | upload, complete, roll back, delete | storage | an offset read before the append; two writes that belong together |
| **Mobile offline queue** `src/apps/mobile/lib` | two items of device storage | enqueue, flush, discard | the API, with idempotency keys | whole-item writes, an app that is closed between two of them |
| Order exceptions | `OrderException` | acknowledge, resolve, sweep | orders | none now: `open` has no caller |
| Catalog, marketplace, tax/ZATCA, transforms, linter, drift, audit, notifications, flags, marketplace API, web and admin clients | rows or nothing | CRUD, pure computation, I/O | | no protocol of their own |

What makes each component correct:

- **wallet**: the cached balance equals the sum of the validated rows at every
  commit; each source is posted once; purchases, rows and ledger agree; every
  call ends.
- **video watch**: no second of a session is counted twice; nothing is paid for a
  session that did not last; a suspect session stays suspect until a reviewer
  decides; overlapping sessions are not both paid; a credited session was paid.
- **orders**: the late statuses are earned; a held order can be released; a
  provider gets a submission once per key; refunds stay within the total.
- **ingestion**: the cursor never passes an order that was not stored; an event is
  taken once; polling repairs what webhooks lost.
- **rate limiter**: the provider's limit is kept; no wake-up is lost; every waiter is
  served, and tenants in turn.
- **finance**: an order's entries are together and posted once; a payout's variance
  is real; a lock is final; the report balances.
- **identity**: a revoked session stays revoked; tokens and codes are used once;
  MFA that is on was proven; a tenant keeps a manager; settled invites stay.
- **limits**: credentials stay readable, authorizations single; counts are those of
  the rows, and a limit gives way by the overlap and no more.
- **publishing, studio, mobile**: a listing agrees with its items, packs and queue; a
  chunk is appended once; an asset points at its latest version; what the user
  was told is queued is sent, waits, or is shown.

## 2. Modules

| module | what it is |
|---|---|
| `ColumnSums` | sums of points, refunds and ledger lines (the repositories' `reduce`), as cardinalities so that they can be proved about |
| `PointsBook` | abstract specification: a book whose entries are posted once, reversed at most once, and move the balance in the same step |
| `RedemptionMath` | `computeMath`'s quote |
| `PointsWallet` | every operation that moves points, statement by statement |
| `VideoWatch` | sessions of one user, await by await |
| `Orders` | one order and everything that writes its status, await by await |
| `OrderIngestion` | a channel's orders, its webhooks and the polling sweep |
| `RateLimiter`, `LeakyBucket` | the limiter's loop and timer; the abstract bucket a provider is promised |
| `LedgerPostings`, `Finance` | the postings and the report as functions; the operations that post, and the subscription |
| `Sessions`, `SecondFactor`, `Members` | sessions and reset tokens; MFA; members and invites |
| `Credentials` | one connection, its credentials and the tenant's data key |
| `Coupons`, `LicenceKeys`, `Deliveries`, `Idempotency` | four limits that are checked and then counted |
| `Publishing`, `StudioAssets`, `OfflineQueue` | a listing; an asset and its upload; the mobile queue |
| `MC…` | TLC instances; `MCPoints`, `MCIdentity`, `MCLimits`, `MCChannels` put modules side by side |
| `ColumnSumsProofs`, `PointsProofs`, `OrdersProofs`, `RateLimiterProofs`, `FinanceProofs`, `IdentityProofs`, `LimitsProofs`, `ChannelsProofs` | inductive invariants, theorems and two refinement proofs |

Modules that share no state are checked side by side in one `MC` module: a
constant variable `part` says which of them moves in a behaviour, so their
graphs are added and not multiplied. `MCOrders` uses `part` for
instances of one module in the same way; in `MCPoints` each run chooses, as `Parts`,
what `part` may be.

Throughout, a *call* `c \in Call` is a request under way: `pc[c]` is the await it is
at and `job[c]` what it holds of what it has read. When it ends another may begin
in its place, so the number of requests is not bounded. `Fail`, `Die`, `Abort`
and `Abandon` end a call at any await (an error, a lost connection, the death of
the process). History variables record that two calls overlapped on one thing
(`contended`, `crossed`, `raced`, `overlapped`, `torn`, `askew`, `late`), how many did
(`crowd`), or that one ended half-way (`broken`, `drifted`, `unsettled`, `exposed`). Properties say "unless": what the code does not
guarantee under such an overlap is excepted exactly there, and the exception is
described in section 4. They are not a way around the hazard: everything the
overlap does *not* break is claimed through it.

### PointsWallet

| model | code |
|---|---|
| `wallet[u]` | `Wallet.balance`, `Wallet.version`; version 0 = no row yet |
| `row[t]` | the `PointTransaction` request `t` inserted (a call inserts at most one, so it is named by its request) |
| `purchase[t]` | the `ProductPurchaseWithPoints` request `t` inserted |
| `liability` | ledger account `points_liability` |
| `pc`, `job`, `seen` | the statement a call is at, its arguments, the wallet it read in `applyValidatedDelta` |
| `Adjust … Reject` | a call up to its transaction, with the reads made *before* it (`findValidatedBySource`, the purchase's status, the sweep's list, `findBySource`) |
| `Open`, `CheckCaps`, `Insert`, `ReadWallet`, `Verify`, `CasUpdate`, `Commit` | the statements of the transaction |
| `Abort` | any throw in the callback, a lost connection, a crash |

READ COMMITTED is modelled by what it does here: a statement sees committed rows
and the transaction's own; an insert under a unique key held by an open
transaction waits (`HoldsKey`), as does an update of a wallet row another open
transaction has written (`"written"`). Writes become visible in `Commit`.
`PointsWallet!Book` maps the committed state to `PointsBook`; `ImplementsBook`
says every history of commits is one the book allows.

### VideoWatch

`watch[w]` is the `VideoWatch` row, `award[w]` the transaction of source
`video_watch` and who made it, `queued` the jobs of `points-award-validation`.
A call loads the row (`Load`), looks at the clock (`Stamp`), decides and writes
(`Beat`, `Assess`, `MarkFraudSuspect`, `MarkCompleted`), settles (`Settle`:
queue, or award at once when the queue is unreachable), awards (`MakeAward`); a
complete with a final heartbeat is called `finish` and reloads (`Refresh`).
Reviews are `Approve` and `Reject`, `Reverse`, `RejectWatch`. The wallet's
transactions are one step each, which is what the wallet's module justifies. Time
is a clock in ticks; `TicksPerSecond = 2` makes half seconds, where `Math.round`
matters. `late` are the calls that were at work on a session when it became suspect: each
may undo the suspicion, because no write looks at what it overwrites. `SuspectsStay`
says that nobody else does, but for the award of an approval. Signals that need other users' sessions (device and address fan-out)
and the client's reported position are free choices.

### Orders and OrderIngestion

`status` is `Order.status`; `heldFrom` is what `release` would find in the event
log; `refund`, `fulfilment`, `accepted`, `shipment`, `purchase` are the rows
around it. `shipment` is how far the *tracking events* have got: the column
`Shipment.status`, which `ShipmentService.update` sets to anything
(`shipment.service.ts:49`), is read by nobody and left out. `OrdersService.transition` is `Hold`/`Cancel`/`Read` (read and
assert), `Write` (by id alone), `Log`, `ListRedemptions`, `Restore`. `Release`
and `FindHold` are release's own two reads. `Sync` is `upsertNormalisedOrder` of
a known order, followed by `Write`. `Submit` … `MarkFailed` are
`FulfilmentService.submit` with its try and catch, which also marks FAILED what the provider
has accepted when only the event or the audit after it throws; `Ship` … `FollowShipment` the
shipment service; `IssueRefund` … `CompleteRefund` `issueRefund`. `crowd` remembers the
most refunds that were ever past its check at once: each may pay the total over again. Only what the
HTTP controllers reach is an operation: `transition` is called by hold, release,
cancel and a full refund only, so nothing moves an order to CONFIRMED or CLOSED
except a release or a channel.

`OrderIngestion` is the other side: the channel places orders and moves their
versions (a status is its number in the channel's history), a webhook is
recorded, looked up and applied or lost, and the sweep pulls the page at the
cursor, stores each order of it, and moves the cursor last. Either direction of
listing occurs.

### RateLimiter

`pump` is a loop inside one JavaScript turn, so its steps exclude everything else
(`scanned`); `timer` is its `setTimeout`. Tokens are refilled when looked at;
`Level` is what a look would find, and with it the limiter implements
`LeakyBucket`, which fills all the time. Tokens are counted exactly, in a unit small
enough for what a millisecond refills, where the code has doubles (section 6).

### Finance

Rows and counts of entries by source; `Balance` recomputes the accounts from
them with the lines of `LedgerPostings`. A posting asks whether its source was
posted and whether the period is locked, outside the transaction it then joins;
those are steps of their own (`job.posts`, `job.checked`). A subscription's row has the id
of one at Stripe, or 0 where Stripe is not configured or the plan has no price there
(`SkipStripe`); a row without an id is cancelled without asking Stripe. `ops` chooses which
operations are in use together, and whether two calls may work on one row.

### Sessions, SecondFactor, Members

A session is named by its number; `parent` is the one it was exchanged for.
`swept` says that a password reset or a detected reuse came after the login it
goes back to began, `late` that a call it goes back to was in flight then.
`SecondFactor` follows one code of each batch of ten. `Members` has two roles: who
manages everything (OWNER, ADMIN) and who does not.

### Credentials, Coupons, LicenceKeys, Deliveries, Idempotency

`Credentials` is one connection: OAuth states, saving (deactivate all, find or make
the data key, store), the refresh sweep (which deactivates the row *it read*), the
test and disconnection. The other four share a shape: look at a count, later act,
later count; what differs is which of the writes are in one transaction (the
coupon's redemption and its count are, an activation and its count are not) and
which unique key stops a repetition.

### Publishing, StudioAssets, OfflineQueue

`Publishing` follows one listing: the listing, its items with their jobs' statuses, its
packs, and the connector's queue. `ListingRepository.update` is two awaits:
`FindListing` and, later, a write by id alone (`SetStatus`, `DecideApproval`), which
reaches a listing that was deleted in between; `raced` notes that as `"delete"`. `processListingItem` is `FindForPack`, `CreatePack`, `SavePack`,
`Succeed` or `FindForQueue`, `Enqueue`, `LinkItem`, `MarkQueued`; its catch is `Throw`, `FailListing`,
`FailItem`. Nothing starts the queue's worker, so jobs stay. `StudioAssets` follows
one asset; a chunk counts as one byte. `OfflineQueue` has the two storage items,
read and written whole.

## 3. Runs

| run | question | instance |
|---|---|---|
| `points` | is every commit one of the abstract book, once; do purchases and ledger agree with the rows; are overlapping sessions paid once? | 2 users (one perhaps without a wallet), 3 requests of any kind but adjust, 1 watch, 1 idempotency key, amounts 1 and 2; beside them 2 sessions of 2 orderly callers, 1 heartbeat each, 2 seconds |
| `wallet_live` | does every call end; are balances the sums of the rows, with manual adjustments too? | 1 user, 3 requests of any kind, amount 1, fair statements, with a cooldown |
| `wallet_overdraft` | violated: two redemptions overdraw | 1 user, 2 confirms under 2 keys |
| `watch` | does time count once, are gates real, is CREDITED backed; who can undo a suspicion? | 1 session with 2 calls at once of any kind and 3 half seconds |
| `orders` | are late statuses earned, keys kept; by how much do racing refunds exceed the total; can a held order be released, are REFUNDED orders paid back? | an order made by hand (hold, release, fulfil, ship, deliver, refund), also with refunds of any amount; and a channel's order (hold, release, cancel, sync, refund) with 1 redemption; 2 calls, 2 refund keys, 1 fulfilment key, total 2 |
| `ingestion` | does polling repair what was lost? | 2 calls, 1 event, 3 orders of 2 statuses, pages of 2, 1 failure, both directions of listing |
| `limiter` | is a wake-up lost or wrong, is a tenant overtaken twice, is everyone served, is the provider's limit kept? | 3 tenants, 3 requests, 2 tokens in every 5 ms, burst 2 |
| `finance` | are an order's entries together, a payout's variance real, the report balanced, a lock final, a subscription what Stripe has? | 2 calls, 2 orders of 3 kinds, 1 expense, 2 payouts; six sets of operations used together |
| `identity` | do revoked sessions stay so, are codes used once, is MFA proven, does a tenant keep a manager? | 2 calls; 3 sessions, 1 reset token; 3 secrets, 3 batches of codes; 2 persons, 2 invites |
| `limits` | do credentials stay readable; by how much do limits give way? | 2 calls; 2 OAuth states, 3 credentials; 3 coupon keys, 2 buyers, limit 2; 3 devices for 1 activation; 2 links of 2 downloads; 2 bodies under a key |
| `channels` | does the cursor pass an order, is an event taken twice; does a listing agree with its items, packs and queue, does an approval stand; are uploads and versions sound; is a queued mutation kept? | 2 calls; 3 orders of 1 status, 1 event, pages of 2, 1 failure, both directions; 2 items and 1 pack or 1 and 2 (2 rows in all on an automated channel, or once something raced); uploads of 2 chunks, 3 versions; 2 mutations |
| `channels_unlinked` | violated: no upload session is linked to its asset | 1 upload |

### Bounds

- *Calls.* A property relates at most two operations and a third that one of them
  undoes: three requests on the wallet give award, reject and expire of one row,
  or confirm and two refunds. Elsewhere two calls are under way at once, which is
  every two-party race, and as each may end and another begin the *number* of
  operations is not bounded. The theorems hold for any number of calls.
- *Points*: amounts 1 and 2 with `MaxAmount = 2` tell different rows apart and make
  the caps (3), the floor (1) and the 50 % discount limit bite.
- *Time*: 3 half seconds and `MaxBeats = 2` (`watch`) allow a heartbeat in time, one
  after a second and a half, which the interval of 1 second caps, and two overlapping
  ones; a session is suspect there by an impossible position, too many seconds or too
  few heartbeats, for the gap that is fraud is 2 seconds. Its one session starts with the
  clock (`LoneSpec`; the theorems are about `MCSpec`): to start later is to have less
  time. In `points`, where that gap is 1 second, 2 seconds and one heartbeat a session
  are enough to be paid, to come too late, and to open a session before or after the
  other's end. `Duration` and `MinWatchSeconds` are reachable in both.
- *Order*: `TotalMinor = 2` with two keys and refunds of 1 to 3 has partial, full
  and excessive refunds (part `refund`), which race each other past the check. The others
  refund the whole (`track`) or two halves (`sync`), one at a time past the check
  (`RefundsRaceAlone`); the hand-made order leaves out cancel and the channel's
  fulfilment, so that each stays small.
- *Listing*: `FewRows` bounds items and packs together, more so after a race. `FewRaces`
  ends a behaviour that has raced in one way before it races in a second, since each
  clause of the properties is about one kind. Both are in `BoundedSpec`, which TLC
  checks; the theorems are about `MCSpec`, which has neither.
- *Ingestion*: three orders in pages of two give a full page, a short one, and an
  order placed after the cursor. `MaxFailures = 1` bounds failures because
  `PollingCatchesUp` needs them to end; the theorem has any number. A second status of
  an order matters to what polling repairs (`ingestion`), not to the cursor, which
  asks whether an order is stored at all (`channels`).
- *Limiter*: 2 tokens in 5 ms make the refill a fraction, so that the wait is
  rounded; three tenants are the fewest with which one can be overtaken by
  another while a third is served.
- *Finance*: an order with fees, one whose discount exceeds its subtotal, and one
  whose total holds a tax that its columns do not. `MaxPostings = 2` lets an
  expense or an order be posted twice, which is how many overlapping calls can.
- *Counters that only grow* (sessions, secrets, batches of codes, invites,
  credentials, runs, versions, items, packs) are rows that are used up. Two or three
  give a family with a branch, a replaced secret while the old one is in use, a second
  invite of one person, a credential replaced by two. When they are used up a
  behaviour may stop, and so may a tenant whose managers removed each other:
  `identity`, `limits` and `channels` do not check for deadlock. All other runs do.
- Calls, keys and rows are symmetric except where a run names a role or checks
  liveness.

### Fairness and other assumptions

- `FairSpec` of `PointsWallet`: weak fairness on the *statements of open
  transactions* only (the database runs them). Nobody is obliged to call, and
  `Abort` is never obliged to happen. `RequestsFinish` then says that no lock
  wait is for ever: waits form chains, never cycles, because a transaction holds
  one source key and then takes one wallet row.
- `FairSpec` of `OrderIngestion`: weak fairness on the continuation of each call that
  has begun. That polls keep coming is a premise of `PollingCatchesUp` (a cron
  job, and the connection stays CONNECTED), not an assumption of the model.
- `FairSpec` of `RateLimiter`: time passes, due timers fire, the loop runs. Calls
  that hold a token are under no obligation.
- `Orderly` in `VideoWatch` (run `points`): a client sends one request per
  session at a time and a reviewer picks from the FRAUD_SUSPECT queue. Nothing in
  the API enforces that, and only `OnePaidOfTwo` needs it. The properties of `watch`
  hold without it.
- `Orders` assumes nothing about who calls when.
- `Orderly` in `Finance`: two calls do not work on one row at once; `ops` contains
  `"overlap"` when they may. And the key for Stripe is not taken out of the
  configuration while a subscription has an id there.
- The wallet's transactions are single steps in `VideoWatch` and `Orders`, which is
  what `ImplementsBook` justifies.

## 4. What disagrees with the repository's own words

Two runs that TLC must find violated:

1. `wallet_overdraft`: `confirm` checks the balance on the wallet read when the
   transaction opens; `applyValidatedDelta` reads it again and checks only that it is
   consistent. Two redemptions under different keys go below zero.
2. `channels_unlinked`: nothing gives an upload session its asset before
   `completeResumableUpload` asks for it, so every resumable upload ends in 404.

The models contain more that is worth knowing and has no run of its own. Where
a property says "unless", this is what it excepts.

**Points and watch.** The expiry sweep's list is old when a row's turn comes, so an award
reversed meanwhile is expired too and its points are taken twice
(`expiry.service.ts:36`); the list is the oldest 500 rows, which rows that stay on
it can fill (`point-transaction.repository.ts:144`). The daily cap and the
cooldown are summed from committed rows, so two awards at once both pass
(`earning-rule.service.ts:81`); refunds of redemptions are rows of type EARN and count
against the cap. `recordHeartbeat` and `markCompleted` write the status
unconditionally, so a suspect session does "self-resolve" by a heartbeat or a completion
that was at work when it became suspect (`late`): `SuspectsStay` says that this is the
only way. Gaps between heartbeats are rounded one by one, so beats half a second apart
count double: `VerifiedAtMostDoubled` is the bound that holds. Approve and reject
of one session can both succeed; a session is COMPLETED before it is awarded, and a
failure in between leaves it unpayable; a queued award waits for a worker nothing
starts.

**Orders.** `transition` asserts on the row it read and writes by id: a hold
overwrites CANCELLED and a release then revives the order, whose points were
given back (`orders.service.ts:217`). A failure after a cancellation is written
leaves its points spent, and it cannot be cancelled again. A channel's
cancellation bypasses `transition`, so its points stay spent; `confirm` does not
look at the order, so points can be spent on a cancelled one. A full refund of an
undelivered order is COMPLETED and then refused by the machine, and a retry returns
the refund without trying again. Refunds at once under different keys all compare with what is
COMPLETED (`returns-refunds.service.ts:72`), so "Refund would exceed the order total"
stops none of them: `RefundsWithinTotal` bounds the overshoot by how many they were.
An order still NEW is accepted by the provider
and then marked FAILED, as is a fulfilment whose audit row fails; a cancelled order can be submitted, and a stale submission
writes IN_PRODUCTION over CANCELLED.

**Ingestion and limiter.** Overlapping pulls let a stale page overwrite a newer status
until a later pass. A failed webhook event is never taken again, and the sweep
skips connections whose mechanism is the webhook, so for those nothing repairs it. The
fallback event id is a hash of the body. An event's order is looked up before a poll
creates it. The limiter is per process; a clock set back refills twice;
`withRetry` has no caller; "exactly one health sample" of `AdapterRunner.run` fails if
recording the success throws.

**Finance.** Two recognitions at once post an order twice despite "a real no-op"
(`fee-decomposition.service.ts:44`). `reconcile` asks for no status, and a second
expected payout can be created after it. The lock is looked up outside the
transaction (`ledger.service.ts:62`). An order whose total includes tax or shipping
that are not in its columns can never be recognised. Refunds are never posted.
Approve beside reject leaves a REJECTED expense with an entry. A subscription that
fails after its row loses the grant, one that fails before leaves an orphan at
Stripe; after a cancellation the row stays, so "cancel it before subscribing to a new
plan" (`stripe-billing.service.ts:63`) cannot be followed. `AiCreditService.spend`
has no caller.

**Identity.** Two concurrent refreshes of one token both rotate; a refresh or an
unanswered challenge that is under way survives a reset or a detected reuse
(`late`); a refresh that fails after revoking makes the client's retry look like theft
(`auth.service.ts:173`). A set-up racing an activation can switch MFA off or enable
a secret that was never proven. Two managers acting on each other can leave a tenant
without one, and an ADMIN may demote the only OWNER. A removed member's row stays, so
a new invite can never be accepted. An invite marked EXPIRED by one accept is
accepted by the next (`invite.service.ts:176`) and cannot be resent; two creates at
once give two pending invites; among accept, revoke and expire the last writer wins.

**Connections and limits.** A token refresh deactivates the row it read and stores
its own whatever became of the connection; failing in between leaves a
CONNECTED connection without a credential. A test under way overwrites DISCONNECTED.
`rotateCredential` stores an OAUTH2 credential as API_KEY, which is never
refreshed again. Authorization and rotation are allowed on a disconnected
connection. `rotateMasterKeyWrap` has no caller. The loser of the race for a tenant's
first data key fails. A deactivated device can never be activated again, though its
slot is freed; two overlapping deactivations free two slots. A coupon's
idempotency key is looked up across coupons. Limits are exceeded by overlapping
calls, by at most `Cardinality(Call) - 1` for coupons. A download is counted before its
URL is signed; `revokeToken` has no caller. `expiresAt` of idempotency records is
never read; an unrecorded response runs again.

**Publishing.** The queue has no worker, so nothing automated becomes LIVE by
itself, and retrying such an item asks the queue to replay a job that refuses;
`{replayed: false}` is ignored. `recomputeCounters`, "called after every item
transition" (`sync-job.repository.ts:36`), is called by `publish` alone;
`publishExisting`'s job stays RUNNING. A LIVE listing can be submitted, rejected and
deleted without being unpublished; a QUEUED one that is republished and fails is
deletable with its first job still queued. `update` finds a listing and writes it by id
(`listing.repository.ts:85`, `:89`): a pack, a confirmation or a submission that has
found it writes QUEUED, LIVE or PENDING on a listing deleted meanwhile. Approval is no gate on publishing, and a
submission that races an approval overwrites it. A download overwrites CONFIRMED.
Undoing a price change restores the first variant only. `scheduledAt` is never cleared.

**Assets and the offline queue.** All versions of an asset share one storage key, so
a rollback changes numbers only. A PATCH that overlaps another, or is repeated after one
that died between the append and the new offset, appends twice despite "never
double-appends" (`assets.service.ts:107`; `torn`). Overlapping rollbacks, or one that
dies between its two writes, leave `currentVersion` behind the highest (`askew`).
`completePresigned` works on any asset. The mobile app, closed between the two
writes of a flush, loses a conflict "never silently dropped"; a mutation
enqueued during a flush is overwritten; a refused mutation (400, 404) is retried
for ever; one that fails is overtaken by the next.

## 5. Proofs

Eight modules hold theorems. Every assumption used is a named `ASSUME` of the
module it is about, and TLC evaluates it on that module's runs. The theorems hold
for every value of the constants that satisfies it.

### The wallet

`PointsProofs` proves, for any finite set of requests and any users, watches,
keys and amounts:

- `TypeCorrect`, `BalanceCorrect`, `PostedOnce`: the invariants `TypeOK`,
  `BalanceIsDerived`, `SourceRowsUnique`;
- `RefundsMakeWhole`, `LiabilityCorrect`: `PurchaserMadeWhole`, `LiabilityReconciles`;
- `WalletImplementsBook`: `Spec => ImplementsBook`, the refinement of `PointsBook`.

Assumptions: `WalletAssumption` (the constants' types; `Request` finite so that
sums exist) and `MaxAmountAssumption` (no row carries more than `MaxAmount`
points, any natural number).

*The argument.* The balance is correct when a commit writes it only if two facts
hold while a transaction is open, and neither follows from the balance being
correct now; hence the inductive invariant `IInv`:

- `JobShape`: a request undoing another one has its owner and the opposite amount;
- `RowsAreCommits`: a row exists exactly when its request has committed;
- `KeyHeld`: nobody else inserts, or has inserted, under a key an open request
  holds (this carries `SourceRowsUnique` through `Commit`);
- `SeenIsCoherent`: an unchanged version means an unchanged balance;
- `OneWriter`: a wallet has one writer, who wrote on its current version, so
  that what `Commit` writes is the current balance plus the amount;
- `ReversalPending`: a reversal that passed the derivation check, on a version
  still current, reverses a row that still counts. This is the only thing that
  stops a second rejection of one award: it has no unique key, and is caught because
  the derived sum would not match.

`Called`, `Moved`, `Inserted`, … reduce the disjuncts of `Next` to seven shapes of
step (`StepShape`), each conjunct of `IInv` has a lemma saying every shape
preserves it, and `BalanceStep` uses `TotalUpdate` of `ColumnSumsProofs`, which
counts points as pairs so that sums need no induction.

The other two tables need, beside `IInv`, that only awards are ever reversed and
that a purchase is REFUNDED exactly when it has a refund row (`LedgerInv`): a refund
read the purchase's status outside its transaction, and it is the refund's own source
key that makes it the first (`RefundsConfirmed`). The book follows from
`CommitEffect`: every statement but `Commit` stutters, and `Commit` posts or reverses.

### Watching

`PointsProofs` also proves, for any number of sessions and calls, any clock and any
settings (`WatchAssumption`: they are numbers, an interval and the clock's precision are
positive, and there is a finite set of sessions, not empty):

- `WatchIsSound`: `VerifiedAndPaid`, for requests and reviews that overlap in any way;
- `SuspicionStands`: the action property `SuspectsStay`, again without assuming any order;
- `OverlapIsPaidOnce`: `OnePaidOfTwo`, if requests come in order (`Orderly`).

*The argument.* No write looks at what it overwrites, so a row may at any time go back to
something older. What is inductive is that everything a call has read was real when it
was read: a heartbeat's row accounts for the time up to its own last heartbeat
(`Real`), so the sum it writes, however stale, accounts for the time up to its instant
(`HeartbeatIsReal`); what a completion has read fits before the instant it closes with
(`ReadsAreReal`). `RoundedAtMostDoubles` is where the factor 2 comes from.

For `SuspectsStay`, `LateAreNoted`: a user's call that works on a suspect session was there
when it became suspect, because `loadOwnedOpenWatch` admits none to it. A reviewer's call
writes CREDITED only with the award of an approval, and otherwise FRAUD_SUSPECT.

With requests in order, a call that works on a session knows its status until its next
write (`StatusIsKnown`): a user's call that it is open, or COMPLETED while the call
settles it; a reviewer's that it is suspect or already credited, and never paid by
itself. A completion that has passed saw no other session
open, so those open now were created after its instant, which becomes its end; hence a
session that was cleared and one that is open are apart (`ClearedApart`), and
so are two that were cleared. That the first two clauses of `ClearedApart` are about *open*
sessions is what makes the third, which is the property, inductive.

`WatchStepShape` reduces the 16 actions of a call to nine things it may do.

### The order

`OrdersProofs` proves, for any number of calls, keys, redemptions and amounts,
any of the operations, and orders made by hand or by a channel:

- `TypeCorrect`, `EndStatesEarned`, `SubmittedOnce`, `ReleaseAllowed`: the
  invariants `TypeOK`, `EndStatesAreEarned`, `SubmittedOncePerKey` and
  `HeldCanBeReleased`;
- `RefundsBounded`: `RefundsWithinTotal`, however refunds race: they never exceed as many
  totals as there were refunds past the check at once;
- `RefundedPaidBack`: the action property `RefundedIsPaidBack`.

Assumptions: `OrdersAssumption` (`RefundKey` finite so that the sum exists, `Call` so that
calls can be counted, the types of the constants) and `MaxAmountAssumption`.

*The argument.* A status is written by a call that decided on it several awaits
ago, so nothing about the status is inductive by itself. `IInv` says what is true
of a call in between:

- `JobShape`: where a call is tells what it does and which status it carries;
- `SenderOwnsKey`, `RefunderOwnsKey`: a call past its insert is the only one
  under its key, so `Send` and `CompleteRefund` happen once per row;
- `HoldsAreAsserted`: the status a hold remembers could be held, so what an
  event offers to `release` can be returned to, however late it is written;
- `RoomIsLeft`: what is completed *and what is about to be* (`Owed`) stays within the
  bound. A call that passes the check leaves the completed refunds and its own within one
  total, and each of the others past it asks for one at most (`TotalIsSmall`); that
  the completed refunds alone keep within it is not inductive;
- `SumsGrow`: a sum read earlier can only be too low, so a refund that asks for
  REFUNDED has rightly found that the whole amount is paid back;
- `NothingUnearned`: no status that is read, remembered in the event log or
  about to be written by any call has failed to be earned. It is inductive
  because what earns a status (shipments, refunds) is never undone
  (`EarnedGrows`): a stale status is an old one, but never a false one.

`StepShape` reduces the 27 actions of a call to three ways it can move (`Called`,
`Moved`, `Ended`) and `StepEffect` to what it does to the rows (`Effect`); each
conjunct then has one lemma.

### Ingestion

`ChannelsProofs` proves `IngestionSound`: `Spec => []IngestionIsSound`, for any
number of calls, events, orders and failures, any page size and both directions
of listing, from `IngestionAssumption` (sizes; a page is not empty and an order has
at least one status, without which an order could be listed but never stored).

*The argument.* The cursor is saved after the page it passes, by a call that read
its own cursor long ago. `PullsAreCovered` says that what lies before the cursor a
call *pulls at* is stored, and what lies before the one it is *going to save* is
stored or still on its page. Both survive every other call, because a
stored order is never removed. `EventTakenOnce` needs that a call which works on
an event found it free, and no other holds it.

### The rate limiter

`RateLimiterProofs` proves, for any tenants, requests, rates and bursts
(`LimiterAssumption`: the three numbers are positive):

- `WakeUpsSound`: `WakeUpsAreSound`; the timer set when the loop stops is due
  exactly when a refill gives the token, which is the arithmetic of a rounded-up
  quotient (`CeilDivBounds`);
- `TurnsAreFair`: the action property `FairShare`; while a tenant waits, whoever was
  served since comes after it in the order (`PassedAreBehind`), and has nobody waiting
  when the loop has passed over it (`ScannedAreEmpty`);
- `LimiterImplementsBucket`: `ImplementsBucket`; the bucket refilled when looked at,
  read through `Level`, is one that fills all the time.

### Finance

`FinanceProofs` proves, for any number of calls, orders, expenses and payouts, any
amounts and any choice of operations in use together, overlapping or not:

- `EntriesHold`: `EntriesAreSound`, the types included;
- `LockIsKept`: the action property `LockHolds`;
- `SubscriptionHolds`: `SubscriptionAgrees`;
- `ProfitHolds`: `ProfitIsNetAssets`;
- `PayoutsHold`: `PayoutsAreSound`.

Assumption: `FinanceAssumption` (the rows are finite and of kinds that can be told
apart; bounds are numbers; the orders' columns are amounts).

*The argument* has four layers, each an invariant that uses the one before:

- `Base`: what a call holds fits its stage. A posting holds exactly the entries of its
  row, in the order in which they are checked (`OrderEntries`). `LockHolds` needs no
  more: a call that was told the period is open is a call that `Passed`;
- `LedgerInv`: fees are posted with the revenue they belong to, and only orders whose
  parts add up are recognised, whatever overlaps or fails;
- `OnceInv`: where calls on one row do not overlap, they exclude each other
  (`Exclusive`; a reconciliation also excludes every other expectation of the period), so
  what a call has read of its row is true until it writes (`ReadsAreCurrent`). Posting
  once and the variance on record follow;
- `BillingInv`: a call about to grant has made the row, and only one has, because the row's
  key is unique; one about to cancel holds the row's own subscription, or 0 if the row has none at Stripe.

*The accounts* are sums over rows. `TotalAdd` says that columns may be added row by row,
and `TotalNegated` that a debit and a credit of the same amount cancel. `ProfitHolds` then
needs only that the lines of one order, one expense and one payout add up to nothing
over all accounts, and `PayoutsHold` that what an order leaves in the receivable is
`NetOf` it. `TotalAdd` is an induction over a finite set; the library's induction theorem
takes an operator, so it is done by a smallest counterexample (`WFMin` on the strict
subsets), which takes a set.

An attempt to prove that every posting adds nothing to the sum of all accounts failed for a
correction from an account to itself, which `postManualCorrection` does not forbid:
`Transfer` kept the debit and dropped the credit. It now has both lines, as the code does.

### Identity

`IdentityProofs` is about `MCIdentity`, the three modules side by side, for any number of
calls, sessions, tokens, batches of codes, persons and invites. `SideBySide` shows that
a behaviour of the composition is one of each part (so the theorems about a part
alone hold in it too):

- `TypeCorrect`, `SweptIsDead` (`SweepsEndSessions`) and `RotationIsAChain`
  (`RotationIsLinear`), of `Sessions`;
- `UsedOnceHolds` (`UsedOnce`), `EnabledHolds` (`EnabledIsProven`), `MembersAreSound`
  (`MembersHold`), and the action property `SettledStays` (`SettledIsKept`).

Assumptions: `SessionsAssumption` (`MaxSessions` is a number) and `PartsAssumption` (the
other parts' constants have their types).

*The argument.* All are about a call that acts on what it has read, so each invariant says
what every *other* call must know of it. A refresh between its revocation and its new
session has a claim on its token, which every other claim and every successor must know
about (`ClaimInv`); a token that was exchanged or is being exchanged is dead (`DeadInv`); a
call that will issue a session carries what swept its family meanwhile (`SweepInv`). A call
that holds a reset token or a code of a batch is the only one, or noted in `contended`
(`ResetInv`, `CodeInv`), and one that was right about the secret was right about the
one that is there unless a set-up is under way (`FactorInv`). A call that changes a member
was admitted by *another* manager, whom nobody else can be changing without being noted
(`ManagersInv`); a call on an invite holds its row's person, who is a member by the
time the invite is marked (`HoldsInv`); two calls that found no pending invite for one person,
or work on one invite, are noted (`PendingInv`, `SettledInv`).

### Limits

`LimitsProofs` is about `MCLimits`, five modules side by side, for any number of calls, keys,
buyers, devices, links and bodies; `SideBySide` again:

- `TypeCorrect`, `EveryCredentialReadable` (`KeyIsKept`) and `AuthorizationOnce`
  (`StateOnce`), of `Credentials`;
- `CredentialAgreesHolds` (`CredentialAgrees`), `LimitsAreHeld` (`LimitsHold`) and
  `KeysAreOnce` (`OncePerKey`).

Assumptions: `CredentialsAssumption` and `PartsAssumption`: bounds are numbers, the calls
and the keys are finite so that they can be counted, and the marks for "no buyer" and "no
body" are not a buyer or a body.

*The argument.*

- `KeyInv`, `StateInv`: a call about to store a credential holds the tenant's data key,
  one about to make a key has generated it itself, and a consumed state is with one
  call at most until it is exchanged.
- `ChangeInv`: without overlap one call at a time changes the connection, so it may rely on
  what it saw and did: nothing is active while it stores (`Alright`), and it will
  leave the status it has to (`Intends`); the status agrees with the rows
  whenever nobody is half-way.
- `CInv`, `LInv`, `DInv` count who is at work. That `usageCount < highest + N` for `N` calls
  is not inductive; what is: the uses *and the calls about to add one* stay
  below it, because a call passes the check only while there is room, and then at most
  `N` of them are past it. The same for a buyer's redemptions, activations and downloads.
  That the count agrees with the rows needs, for licences, the activations
  written but not yet counted and the deactivations not yet subtracted.
- `ReqInv`: on a key that is settled one request at most is at work, and it has run
  the operation or nobody has.

`Recount` says what one call that moves does to the number of calls at a stage, and `SameCounts`
that the `Cardinality` of each instance is the one the library's theorems are about.

### Listings, assets and the mobile queue

`ChannelsProofs` is about `MCChannels`, four modules side by side (ingestion is the
first of them). `SideBySide` shows that a behaviour of the composition is one of each
part, and the theorems about the others are, for any number of calls, items, packs,
chunks, versions and mutations:

- `ListingHolds` (`ListingAgrees`) and the action property `ApprovalIsKept`
  (`ApprovalStands`), of `Publishing`;
- `AssetsHold` (`AssetsAreSound`), of `StudioAssets`;
- `MutationsHold` (`MutationsAreKept`), of `OfflineQueue`.

Assumptions: `AssetsAssumption` (a file has a chunk, an asset may have a version) and, as
`MCChannels` extends `OrderIngestion`, `IngestionAssumption`. `Publishing` and `OfflineQueue` need none.

*A listing.* The properties exempt publications and decisions that raced, so the
invariant has two kinds of conjunct.

- `Rightly` is true whatever races: the item and the pack that a call holds exist,
  what it was to write before this await is written, and what it goes by was so when it
  read it. It is kept by every other call because rows, jobs in the queue and confirmations
  by a user are never taken back (`RightlyOn`). `ApprovalStands`, `LiveIsConfirmed` and
  `DeletedIsIdle` follow from it: a decision that has read an approval leaves it, or
  is noted in `raced`, as is a write that has found a listing which is deleted by then.
- `OnePublishes` is true while publications have not raced: one is under way at most, it
  works on the *latest* item, and the listing and that item tell one story (`OneStory`)
  except between its steps, where `InStep` says how far apart they are. That a finished
  publication leaves them in agreement is not inductive by itself: an attempt fails in
  `FailListing`, which writes the listing an await before the item. Three lemmas share the
  work of the 27 actions: a call that is not publishing (`Bystander`), one that goes on or
  ends (`Publisher`), one that begins (`Starter`).

*An asset.* `OneAppends` says that, until chunks tear the file, one call at most is between
reading the offset and noting it, and appends where the session stands; `OneRollsBack`
the same of a roll-back and the number it gives. `AssetJobInv` says that versions are
always `1..n`, which is why `findLatest + 1` is a new one (`NextVersion`), and also that *no session is ever
linked or complete*: `completeResumableUpload` never gets past its check, which is
what `channels_unlinked` shows on an instance.

*The mobile queue.* Each mutation that was kept is in some place (`SomePlace`) and in no two
(`OnePlace`): the queue, the conflicts, sent, dismissed, or refused in a flush that has yet
to write it (`Unsaid`). A flush works on copies of both items, so the places of what it
holds must be known too: it deals with each mutation once (`FlushDealsOnce`), and a
conflict it has read is one still, or was dismissed, or was overwritten, which `exposed`
notes (`ReadsAreKnown`). A mutation on its way in is with one call and in no place
(`FreshIsNowhere`).

### Only model-checked

Liveness (`RequestsFinish`, `PollingCatchesUp`, `EveryoneIsServed`) is out of the
prover's reach. Everything else that a passing run checks is stated by a theorem. The
quote of `computeMath` (`RedemptionMath`) is what the wallet's instances redeem at, where it
bites (section 3); the theorems about the wallet hold for any quote, and none is
about the quote itself.

## 6. Not modelled

- *Read-only operations* (lists, views, exports, statements), wording, audit rows and
  notifications change nothing a property speaks of. Tenancy is one tenant:
  every query carries `tenantId`.
- *Order exceptions, returns, packing slips, saved views, messages, affiliates, tasks,
  catalog, marketplace*: rows that are created, edited and read, with no protocol
  between them. Exceptions have a state machine, but nothing opens one.
- *Tax, FX and ZATCA*: arithmetic and documents over data that stays fixed. Worth
  knowing: `nextInvoiceNumber` is read outside a transaction, so two invoices
  made at once ask for one number; invoices are not chained to each other.
- *Transforms, policy linter, drift*: pure functions of their inputs, without state.
- *Connectors*: the adapters translate requests; what they may answer is a free
  choice wherever a module calls one.
- *The limiter's floating point*: `refill` and `msUntilAvailable`
  (`rate-limiter.ts:36`, `:53`) compute in doubles, so a timer's `Math.ceil` may come out a
  millisecond off; the loop looks again when it fires, which the model's `pump`
  does too, but that a timer is due *exactly* with the token is shown of exact numbers.
- *OAuth sign-in, feature flags, RBAC guards*: look-ups at the start of a request;
  their result is a free choice, or a guard, of the operation.
- *Web, admin and mobile screens, seeds, configuration*: no state of their own, the
  mobile queue excepted.

The mapped definitions stand for about 3,100 of some 51,000 lines, 6 %. The other
lines are mostly those of the list above: controllers, DTOs, React
pages, seed data, adapters, enumerations and CRUD services. They hold no
state that two steps could disagree about, and modelling them would be to
transcribe them. The services that do are modelled, those marked `partly` in
`PROJECT.json` without the operations their notes name.

What would come next, most important first: `OrderIngestion` composed with `Orders`'
`Sync`; the expiry sweep's list with its limit; and the invoice counter.
