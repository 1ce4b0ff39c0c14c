# CueBX in TLA+

Specifications, TLC configurations and TLAPS proofs for the CueBX back end
(`src/app`, FastAPI + SQLAlchemy/PostgreSQL + RabbitMQ + Redis + Stripe). The models
follow the code, not its documentation; where the two disagree it is said below (Disagreements).

## 1. The system

| component | state it keeps | operations | talks to | module |
|---|---|---|---|---|
| usage metering, API product (`apps/cubex_api/services/quota.py`, `db/crud/workspace.py`) | `usage_logs`, `api_subscription_contexts.credits_used`, `api_keys.last_used_at` | `validate_and_log_usage` (reserve), `commit_usage` (settle), `expire_pending` (scheduler) | key cache, plan cache, rate limiter, `usage_commits` queue | `UsageQuota`, `UsageLedger` |
| message retry and dead letters (`infrastructure/messaging`, `admin/views.py`) | work, retry and `_dead` queues, `dlq_messages` | `publish_event`, `process_message`, `handle_dlq_message`, bulk retry and discard | every queue handler | `MessageRetry`, `MessageLedger` |
| API subscriptions (`apps/cubex_api/services/subscription.py`, `messaging/handlers/stripe.py`, `core/routers/webhook.py`) | `subscriptions`, the context that links one to a workspace, workspace status, processed-event keys in Redis | checkout session, checkout completed, updated, deleted, cancel, reactivate, seats, upgrade | Stripe, queues, e-mail queues | `SubscriptionSync`; seats and upgrades in `WorkspaceSeats` |
| workspaces (`apps/cubex_api/services/workspace.py`) | `workspaces`, `workspace_members`, `workspace_invitations` | invite, accept, revoke, enable/disable, role, remove, leave, transfer, freeze, reactivate | subscription seat count | `WorkspaceSeats` |
| API key cache (`services/quota.py`, `services/quota_cache.py`) | Redis hashes with a 15 s TTL | resolve, fill | `api_keys` | `RequestAdmission` |
| plan and pricing cache (`core/services/quota_cache.py`) | Redis/in-process entries, ORM listeners | read-through, overwrite on ORM events | plans, feature costs | `RequestAdmission` |
| rate limit of a workspace (`_check_rate_limit`, `core/services/redis_service.py`) | a Redis counter with a TTL | check and increment | validation | `RequestAdmission` |
| accounts (`core/services/auth.py`, `core/services/lifecycle.py`, `db/crud/otp.py`, `db/crud/refresh_token.py`) | users, OTP rows, refresh-token rows, OAuth links, personal workspace, free Career subscription | sign-up, verify, sign-in, OAuth, reset, change, sign-out, delete, purge | hooks of both products, e-mail queues | `AccountLifecycle` |
| Career subscriptions (`apps/cubex_career/services/subscription.py`) | `subscriptions`, the context of the user | checkout, events, cancel, upgrade | Stripe | `CareerSubscription` |
| Stripe client, e-mails (`core/services/payment/stripe`, `core/services/email_manager.py`, `core/services/brevo.py`) | what Stripe and Brevo have done; `users.stripe_customer_id` | retry loops, idempotency keys, customer, checkout session, e-mail handlers | Stripe, Brevo | `OutboundCalls` |
| scheduler (`infrastructure/scheduler`) | job table | expire pending logs, purge deleted users | metering, accounts | `UsageQuota.ExpirePending`, `AccountLifecycle.Purge` |
| Career metering (`apps/cubex_career/services/quota.py`) | `career_usage_logs`, `analysis_results` | validate, commit | queue | none, see "Not modelled" |
| OAuth and Cloudinary wrappers, HTTP layer, schemas, admin CRUD views | none of their own | | remote services | none |

What is hard about it. Every request runs as one READ COMMITTED transaction of several
statements with awaits in between: what a statement reads may be stale at the next one, and the
only mutual exclusion is the row lock an `UPDATE` takes. Queue consumers deliver at least once,
several at a time (prefetch), out of order, and acknowledge after the effect; processes and
connections fail in between. Stripe sends events late, twice and out of order, and handlers call
Stripe in the middle of a transaction. Caches are filled and invalidated beside the database.

What makes each component correct:

* metering: a request is decided once; its row, its `credits_charged` and the counter agree;
  nothing is debited that was not reported; the counter is the total of the billing period; the
  allocation is exceeded only by what was open; nothing stays `PENDING`; no deadlock.
* messages: none is lost, duplicates come from faults and from administrators only, a poison
  message stops after `max_retries`, every message is handled or ends up as a row.
* subscriptions: once the events are processed, the local row says what Stripe says, one row is
  linked to the workspace, and the workspace is frozen exactly when that row is not active.
* workspaces: one owner, who is enabled; enabled members never exceed the seats.
* caches and limiter: staleness is bounded; a revoked key stops working; a reached limit lifts.
* accounts: a code is used once; a new password ends the sessions; one personal workspace.
* Career: the plan is the one Stripe is paid for, and is not lost early.
* calls to others: a call that is repeated takes effect once, or a bounded number of times.

Several of these hold in the code only of requests that do not overlap. The properties below say
how far overlapping requests can go beyond them, and no further.

## 2. Modules

### UsageQuota

One workspace. A *request* is one (workspace, request id, fingerprint), the key of the unique
index on `usage_logs`; `log[r]` is its row. `credits_used` and `period` are the columns of the
subscription context and of the subscription. `tx[s]` is what transaction `s` has read and done
so far; its `pc` says at which statement it is:

| action | code | statement |
|---|---|---|
| `ValidateReplay`, `ValidateStart` | `_check_idempotency` | SELECT of the row |
| `ValidateAdmit` | `_resolve_api_key`, `_check_quota_for_live_key` | UPDATE of the key (locks it), then the counter is read |
| `ValidateInsert` | end of `validate_and_log_usage` | INSERT and COMMIT, or a unique violation |
| `CommitRead` | `commit_usage` | SELECT of the row |
| `CommitUpdateLog` | `UsageLogDB.commit` | UPDATE by id (waits for the row lock) |
| `CommitIncrement` | `increment_credits_used` | UPDATE of the context (waits for it) |
| `CommitFinish` | `commit_usage` | COMMIT: both writes become visible |
| `Rollback` | `get_async_session` | any exception, refusal or crash |
| `Age`, `ExpirePending` | `expire_pending_usage_logs` | one UPDATE of the old pending rows |
| `RenewRead`, `RenewFetch`, `RenewReset`, `RenewWrite` | `handle_subscription_updated` | SELECT, Stripe call, UPDATE of the context, UPDATE of the subscription with COMMIT |

An uncommitted write is kept in `tx` and applied by the action that commits, since nobody else
can see it; the locks (`HoldsKey`, `HoldsLog`, `ContextLocked`) are read off the same variable.
`debits`, `answers`, `delivered`, `newest` and `consumed` are history variables.
The row's token metrics, failure text and client address are left out.

### UsageLedger

What metering promises: the same rows and counter with one atomic action per promise
(`Record`, `Succeed`, `Fail`, `Repeat`, `Expire`, `Reset`). `UsageQuota` implements it
(`LedgerSpec`, an identity mapping on `log`, `credits_used`, `debits`): the interleaving of the
statements is invisible. The ledger contains the code's own anomalies (`Repeat`, settling a row
that is settled already) and no others.

### MessageRetry

One work queue with its retry queue and its dead-letter queue. A *copy* is a delivery with its
`x-retry-attempt`; a token tells copies apart. `work[c]` is a run of `process_message`,
`drain[d]` one of `handle_dlq_message`, `admin[a]` a bulk retry with the rows it still has to do
and has done; `rows` is `dlq_messages`. `Forward` publishes to the retry or the dead-letter
queue, `Settle` acknowledges or rejects, so a crash or a connection loss falls between them.
After `ConnectionLost` the deliveries are requeued *and* the runs go on (`held = FALSE`);
after `Crash` the runs are gone. `Republish` of the admin reads the status when it comes to the
row and writes `retried` for all rows at the end, as the loop and its single commit do.
`lost` is history: the copies the layer gives up, because a publish or an insert failed while the
delivery was valid, or because the broker restarted without its dead letters.
Payloads, error headers and the alert e-mail are left out.

### MessageLedger

What the layer promises of a message, without queues, timers and acknowledgements: how many copies the
broker answers for (`owed`), how many runs go on for a copy it has taken back (`stray`), and what came of
the others (`effects`, `stored`, `lost`). A copy is used up by an effect (`Handle`), a row (`Store`) or by
being given up (`Lose`, only where the layer can fail); a stray run may also bring a copy back (`Revive`)
or end without one (`Abandon`); copies are added by a publication, by an administrator, and by
redeliveries (`Crash`, `Disconnect`), each counted in `again`. `MessageRetry` implements it
(`LedgerSpec`) under a mapping that counts sets: `owed` counts the ready copies and those held by runs that have
yet to act (`Owed`), `stray` the runs whose delivery is void (`Stray`), `stored` the rows (`Stored`).
Deliveries, forwarding to the retry or dead-letter queue, acknowledgements and the administrators'
bookkeeping are stutters; that `Forward` is one says that the copy it publishes and the delivery it then
rejects are one obligation.

### SubscriptionSync

One workspace, the subscriptions it may buy at Stripe and the free one it may start with.
`stripe` is Stripe's side; `row`, `link` and `workspace` are `subscriptions.status`, the
`subscription_id` of the context row and `workspaces.status`. An event goes `Deliver` (the Redis
mark is looked up), `…Read`, (`UpdatedFetch`, `UpdatedUpdate`,) `…Commit`, `Mark`. A handler's
transaction writes at its commit action. `UPDATE`s are by id and unconditional, so an earlier
`UPDATE` of a transaction matters only when it reads again after it: the update handler does
(is the workspace frozen?), hence `Locked`. `handler[h].linked` is read at the start, as the code
reads `api_context` before its Stripe call. `Fail` stands for an exception anywhere (a deadlock
broken by PostgreSQL or a lost race for the context row, too) and for a crash, also between
commit and mark; the event returns through the retry queue, which is `MessageRetry`'s subject:
`MaxFaults` stays below the five retries of these queues. A mark that Redis does not store, or does
not find again because the command failed, lets a repeated event be handled once more; for the tables that
is the event that failed between commit and mark and waited, so it has no action of its own, and
`EventsProcessed` assumes that a mark is stored unless the run fails. CareerSubscription treats marks
alike. Stripe's other statuses behave like `past_due` here (a row that neither freezes nor reactivates) and are left out, as are amounts, and
plans, seats and members, which are in WorkspaceSeats. `disturbed` is history: two transactions
overlapped, or an update or deletion was skipped because its row did not exist yet. A replaced
subscription is canceled locally and not at Stripe, so a later update can make its row active
again; the properties speak of the linked row.

### WorkspaceSeats

One workspace, with the users who are or may become its members. Each request of
`services/workspace.py` is two steps: the first (`InviteMember`, `AcceptInvitation`,
`RevokeInvitation`, `UpdateMemberStatus`, `UpdateMemberRole`, `RemoveMember`, `LeaveWorkspace`,
`TransferOwnership`, `UpdateSeatCount`, `UpgradePlan`, `ReactivateWorkspace`) makes all its reads and
checks and keeps the ids it will write by, the second (`CreateInvitation`, `CreateMember`, `WriteStatus`,
...) writes and commits, to whatever those rows are by then. The code has no lock before its first
write, so nothing more happens in between than other requests' commits. Seat changes and upgrades
have their call to Stripe as a step of its own (`ChargeSeats`, `ChargeUpgrade`), and a crash after it
leaves Stripe ahead of the row (`unrecorded`). `SubscriptionBought`, `SeatsSynced` and
`SubscriptionEnded` are what the events of SubscriptionSync do to members and seats. A membership is
known by the invitation it came from, so that a row deleted and made again is another row.
`RacingTransfers` says whether a transfer of ownership may overlap another write to members.

### AccountLifecycle

One e-mail address: its `users` row, one-time codes, refresh tokens, OAuth links, and what the
sign-up hooks of the products add. Transactions read (`VerifySignup`, `OauthCallback`, `Signin`,
`ResetPassword`, `ChangePassword`, `ResendVerification`, ...), look for the products
(`LookForProducts`), choose the workspace's slug (`ChooseSlug`) and commit (`FinishVerify`,
`FinishOauth`, `CreateToken` in each, ...). An `UPDATE` of the user locks its row to the end of the
transaction (`LocksUser`), which is why two password changes follow one another, and a sign-in
still runs beside one. The hooks swallow their errors (`lifecycle.py`), so the free plans may be
missing (`seeded`). `late` marks a session that began beside a transaction that had looked for the
sessions to end, or with a password that was no longer the user's; `uses` counts a code's uses.
Access tokens are stateless and left out, as is the refresh of one, which only reads:
`refresh_access_token` does not rotate the refresh token. A code's `attempts` are compared with
their limit (auth.py:342) and left out as well: nothing calls `increment_attempts`, so that the comparison
never refuses anything.

### RequestAdmission

What a request for one live key passes before UsageQuota's part begins: the cached key, the cached
pricing rule and the rate limit. Each Redis command is a step. `Resolve`, `Lookup`, `CacheId`,
`CacheExpiry`, `CacheRest` are `_resolve_api_key` and `cache_api_key_info`, whose three commands another
request, an expiry or a crash may separate; `RevokeApiKey` changes the row alone, since nothing calls
`invalidate_api_key_cache`. `ReadConfig`, `ReadRule`, `StoreSetting` are a read through the plan cache, and
`BeginEdit`, `WriteSetting`, `CommitEdit`, `RollbackEdit` an administrator's edit: the ORM listener starts
its task when the edit is flushed, so the task writes before, after or without the commit.
`CountRequest` is the Lua script of the rate limit. `fills` counts the fills after a revocation.

Every Redis command may fail, before or after it had its effect. `RedisService` catches the exception
(redis_service.py:142, 174, 468, 500), and its callers take `None` for a miss or an admission and look at no
`False`: a failed `HGETALL` or `GET` is a look-up in the database, `CacheId`, `CacheRest`, `StoreSetting` and
`WriteSetting` go on whether their value was stored or not, an `EXPIRE` that failed leaves the hash without
a time to live (`NoExpiry`), and a failed script admits the request. History keeps what that does to the
properties: `unexpiring`, that the entry was left with an id and without a time to live by such a failure or
by a process that died, until an `EXPIRE` of another fill mends it; `spoiled`, that the last edit was rolled
back, met another edit or a fill, or lost a `SET`. A `SET` that a fill lost is no excuse: the fill leaves a
missing setting missing, or the rule's.

### CareerSubscription

One user's Career subscription, where the handlers and the user's own cancellation and upgrade
each call Stripe in the middle of their transaction. A subscription that ends is not frozen; its row
becomes an active free one that forgets the subscription (`Downgraded`), so a late event finds no row.
As in SubscriptionSync a handler goes read, fetch, commit, mark, and `Fail` repeats its event.

### OutboundCalls

One user's checkouts in both products, and messages of the e-mail queues. `CreateCustomer` and
`CreateSession` are attempts that arrive at Stripe, answered or not; `AttemptFails` are those that do not
arrive; `Refused` a client error. `named[k]` is the customer of the call Stripe remembers for the
idempotency key `k`: the key is made of workspace, plan and seats (API product only), the same key with
another customer is refused, and Stripe forgets it after a day (`KeyExpires`, modelled from Stripe's
documented behaviour). `StoreCustomer` updates the `users` row and holds its lock over the calls that
follow. An e-mail message is run by its queue, which calls Brevo with the same retry loop and no key;
`Undelivered` is the path from the swallowed exception over `False` to the exception that makes the queue
retry.

### How they fit together

The modules are composed by their interfaces: each takes what the others do to it as an action of
its own with the guarantee the other shows. `RequestAdmission` stands before `ValidateStart`.
`CommitRead` takes a report any number of times up to `MaxDeliveries`, because `MessageRetry` shows that a
message is run more than once only by a retry or fault, and never lost. `SubscriptionSync` and
`CareerSubscription` get every event until it is marked, for the same reason. `SubscriptionEnded` of
`WorkspaceSeats` is `DeletedCommit` and the owner's cancellation of `SubscriptionSync`. `RenewReset` of
`UsageQuota` is the same handler, `handle_subscription_updated`, seen from the counter. `UsageLedger` is
the abstraction of `UsageQuota`, `MessageLedger` that of `MessageRetry`.

## 3. Runs

`race`, `replace`, `members`, `account`, `career` and `duplicates` search every interleaving under
`Spec`; the others add fairness.

| run | configuration | properties | shows |
|---|---|---|---|
| race | 3 requests at one price, live + test key, 2 transactions, 2 reports each, denied requests committed too | `TypeOK`, `LedgerAgrees`, `DebitsBounded`, `OneAnswer`, `OvershootBounded`, `LedgerSpec` | rows, counter and answers agree under every interleaving and rollback; how far the counter passes the allocation; each step is one of the ledger |
| metering_live | 1 request, 2 transactions, 2 reports, 2 renewals, fair | `CounterIsPeriodTotal`, `PendingResolved`, `TransactionsEnd` | resets against increments, expiry, no endless lock wait |
| retry (violated) | one report twice | `DebitedOnce` | a retried report is charged again |
| duplicates | 2 consumers, an admin, every kind of fault | `FatesAccounted`, `RunsBounded`, `NoMessageLost`, `LedgerSpec` | each extra copy or run is accounted for, nothing vanishes that was not given up, and each step is one of the ledger |
| messages_live | 2 consumers, 1 crash or connection loss, fair | `EventuallySettled` | every message comes to an end |
| replace | 2 subscriptions, 2 handlers, one change, one repetition | `WorkspaceFollows`, `LinkedAtCreation` | a replaced subscription never comes back and its end does not freeze |
| sync | 1 subscription, 2 handlers, an owner, one change, repetition and failure, fair | `TypeOK`, `LinkedFollowsStripe`, `EventsProcessed` | the local state converges to Stripe's, and every event is processed |
| members | 3 users, 2 invitations, 2 transactions, 2 seats | `SeatsOverrunBounded`, `OwnershipAgrees`, `InvitationSpent`, `OpenInvitationsBounded`, `PlanAsPaid` | what racing requests can do to seats, invitations, ownership and plan, and what they cannot |
| account | 2 transactions, 2 codes, 2 sessions, one change of password | `TypeOK`, `CodeUsesBounded`, `OpenCodesBounded`, `SessionsFollowPassword`, `ProductsBounded` | codes, sessions and products multiply only by requests that overlapped |
| admission | 2 requests, a revocation, an edit, fair | `StaleFillsBounded`, `SettingsFollowRule`, `RevokedIsRefused`, `LimitLifts` | how long caches are wrong, and that a limit lifts |
| career | 1 subscription, 3 rows, 2 handlers, a request, 2 paid plans, one change, one failure | `TypeOK`, `PlanFollowsStripe`, `NoEarlyDowngrade` | the plan follows Stripe, and is never lost before its subscription |
| calls | 2 checkouts at a time, in all 2; an e-mail; 2 attempts, 1 retry, fair | `OneSessionPerKey`, `CallsAccounted`, `KeysUsable`, `CallsEnd` | what repeated calls do at most, and that they end |

**Disagreements.** The run `retry` contradicts internal.py:397 ("safe to retry"). What follows is in the
models too, and has no violated run of its own; the properties are stated so that they say what does hold.

* Two commits, or a commit and the expiry job, that both read `PENDING` write by id: a FAILED row may
  keep the credits of the success it overwrote, and EXPIRED may be overwritten (db/crud/workspace.py:924).
* Two events of one renewal handled at a time reset the counter twice (subscription.py:501);
  `CounterIsPeriodTotal` has one renewer.
* A dead letter whose insert into `dlq_messages` fails is dropped (dlq_handler.py:68; `StoreMayFail`), and one
  published without `PERSISTENT` does not survive the broker (`BrokerMayRestart`). `lost` counts both.
* A bulk retry writes `RETRIED` over a row discarded meanwhile (admin/views.py:894).
* A deletion handled before its checkout is skipped and marked, and the checkout then creates an active
  row (handlers/stripe.py:318, subscription.py:376); an update that fetched `active` before a deletion
  committed writes it after. `disturbed` notes both.
* Two overlapping transfers of ownership leave two owners, or a removal beside one leaves none
  (services/workspace.py:1263; set `RacingTransfers = TRUE`).
* A subscription with a base and a seat item never takes a plan from an event, so an upgrade whose
  transaction was lost after Stripe is not repaired (`unrecorded`); the upgrade sends the seats it read.
* A seat update back to an earlier count gets Stripe's first answer again (`ChargeSeats`, `repeated`).
* A revoked key is accepted until its entry expires, and for ever if the entry was left without a time
  to live (`unexpiring`): the process died between `HSET` and `EXPIRE`, or the `EXPIRE` failed. `hset` then
  returns `False` (redis_service.py:494-502), and `cache_api_key_info` stores the other fields all the same
  (quota_cache.py:49-52).
* Settings are "kept in sync" with a rule (core/services/quota_cache.py:600) only by edits that commit and
  overlap nothing, and whose `SET`s all succeed: `set` answers a failure with `False`
  (redis_service.py:170-176), the task writes the next setting, and nobody writes the first one again, so
  that the old value stays until the next edit (`spoiled`).
* A change of password is documented to keep the session it is made from: "current session preserved"
  (core/routers/auth.py:1839, and 1852, 1886, 1908), "signed out from other devices" (1924). The
  route's access token names no session and `change_password` revokes every refresh token of the
  user (services/auth.py:1082), this device's too, which is signed out when its access token expires.
  `SessionsFollowPassword`, in the run `account`, says what the code does: no session that began before is
  left.
* Overlapping sign-ups can create two personal workspaces and links: services/workspace.py:360 looks
  and then creates, without a unique index.

**Bounds.** Races of the code are between two transactions over the same rows: two of them reach every
pair of program counters, and a third only repeats one of the two or waits for the same locks. In
`race` three requests with two open at a time let one be settled while the other two race, at a price equal
to the allocation, the worst overshoot; two reports give a retry; two periods and two events a reset, a
repeated event and an event without a renewal. One message is enough for the retry protocol because
messages share nothing but the consumers; tokens are as many as the copies one fault can create, two
rows as many as its dead letters; `MaxRetries = 1` has a retry, a last attempt and a dead letter. Two
subscriptions give a replacement, two handlers a race of any two events; one change of payment state
is a missed status, one repetition a replay of any event, one failure a crash at any step. Two
users beside the founder can race for one seat, two invitations can be of one address or of two; a seat count of
two and the free plan's one have a full and a free seat, above it nothing new is compared. Two codes
supersede one another, two sessions are one before and one beside a change of password;
`MaxWorkspaces = 2` is above what two transactions create. `Limit = 1` has a request below, at and above
the limit. In `calls` two checkouts are two browser windows or a repetition.
Symmetry is used only where no property of the run is a liveness property; box formulas
(`LedgerSpec`, `LinkedAtCreation`, `NoEarlyDowngrade`) name no element of a symmetric set.
`CHECK_DEADLOCK FALSE` is said everywhere, since the bounded counters (`delivered`, `events`, `changes`,
`started`, `MaxEdits`, the finite sets of ids) let every instance come to rest.

**Fairness.** Metering: a started transaction goes on (`SF` on its steps: PostgreSQL queues lock
waiters, so a waiter is served although others come back), the clock ages pending rows, APScheduler
runs the expiry job every five minutes (`SF`: a locked row may disable it now and then). Nothing is
assumed of callers and of Stripe. Subscriptions: deliveries and handler runs go on, nothing is
assumed of Stripe, faults and the owner. Messages: the broker delivers ready copies and expires TTLs,
handlers end, consumers go on; nothing is assumed of faults, publishers and administrators. Admission: a
request that has begun goes on or is abandoned (`WF` on its steps; nobody has to send one), and Redis
expires what has a time to live (`WF`). Calls: a request goes on (`SF`: it may wait for the lock of the
user's row), since every call has a timeout, and the queue runs its handlers (`WF`); no call has to succeed.

## 4. Proofs

For every value of the constants, under the named assumptions of the modules (finitely many transactions
at a time, `None` and the like distinct from what they stand beside, bounds that are natural numbers).

**UsageQuotaProofs**

* `TypeCorrect`, `LedgerAgreesCorrect`: `LedgerInv` is inductive. It is `TypeOK`, `RowsSeen` (a
  transaction that settles a request has seen its row: `TypeOK` alone is not inductive, since
  `CommitFinish` prices a row that must exist), `ChargesJustified` (a charge in progress is of a
  live key and either comes with the row's update or finds the row charged), `DebitedRows` and
  `LedgerAgrees`.
* `RowImmutableCorrect` from `RowStep`, which says how any step may change a row.
* `OneAnswerCorrect`: inductive with `LedgerInv`; the unique index is what the step of
  `ValidateInsert` needs.
* `DebitsBoundedCorrect`: `DebitsDelivered`, the debits made plus the commits in progress
  (`Cardinality(Settling(r))`) do not exceed the reports received.
* `LedgerRefined`: with `Priced` (an insert in progress carries a legal price) each step is a step of
  `UsageLedger` or leaves its variables alone.
* `OvershootCorrect`: the counter passes the allocation by less than the open requests can charge, when the
  caller keeps to the answers and the replies. Its invariant singles out the request that was admitted
  last: its price fitted when the counter was read (`Within`), and every other debit still to come is
  one of an open request, of at most the highest price each (`Due`, `Owing`). With no request open at all the
  bound would say that nothing is charged, hence `MaxOpen >= 1`.
* `CounterCorrect`: with at most one renewal transaction at a time `credits_used = consumed`,
  from `RenewalCurrent` (what an idle or running renewal has read is the newest period).

**WorkspaceSeatsProofs**

* `TypeCorrect` with `InvitationsSeen` (what is to be marked is there: an invitation never disappears).
* `InvitationSpentCorrect` from `Spent`, which adds that the invitation of a member exists.
* `OpenInvitationsCorrect`: the pending invitations of an address *plus* the requests that have found
  none and will write one stay below the number of transactions; each write moves one from the second
  set to the first, and a request joins the second only when the first is empty.
* `SeatsOverrunCorrect` by the same idea: enabled members plus `Admitted` requests. It needs `FreeSeat`
  (the free plan has one seat) and, for the seat of the owner, `OwnershipCorrect`.
* `OwnershipCorrect` from `OwnerKnown`: what an open request has read of the owner is still so. Both are
  of `~RacingTransfers`; without it they do not hold.
* `PlanAsPaidCorrect` from `UpgradesPaid`.

**RequestAdmissionProofs**

* `TypeCorrect`; `StaleFillsCorrect` from `StaleInv`, the fills plus the requests that hold the key's old
  state; `SettingsFollowRuleCorrect` from `FollowInv`: while an edit that is not `spoiled` is unfinished it
  is the only writer and the first settings are its own (`OneWriter`), and after it fills store the rule
  (`SettledCache`).

**CareerSubscriptionProofs**

* `TypeCorrect` and `NoEarlyDowngradeCorrect` from `Inv`: what a handler or request has read stays true as
  far as rows are never deleted or given to another subscription (`RowIs`), a deletion is sent only of a
  subscription that has ended (`Genuine`), and one that has ended does not come back.
* `PlanFollowsStripeCorrect` from `History` (a subscription has one row, `OneRow`; events are told apart,
  `Named`), which holds whatever overlaps, and `Serial`: while nothing is disturbed, the linked row shows what
  is at Stripe, or an event that will tell it is pending (`Reflecting`, `Told`: no run has it, or one that has
  not gone past it). A free row knows no subscription, so it must also hold that the end of a subscription
  with a row is still to be told (`EndTold`) and that one without a row that goes on has its checkout pending
  (`CheckoutTold`). `StripeTells` says that a change at Stripe is told; there is one lemma
  (`ReadOrderly`, `CheckoutOrderly`, ...) for each step of a run or a request.

**OutboundCallsProofs**

* `TypeCorrect` with `RunsLeft` (a queued message has a run left); `OneSessionPerKeyCorrect`, inductive as it
  stands; `KeysUsableCorrect` from `Undisturbed`: without overlap one checkout runs, and the customer it
  names is the user's or will be.
* `CallsAccountedCorrect`: the calls made *plus* those still to come, one pair for each running checkout
  or handler run and attempt it has left, stay within `MaxAttempts` for each checkout begun or run of a
  message (`CustomersAccounted`, `SessionsAccounted`, `MailsAccounted`); an attempt moves one pair from the second
  to the first.

**AccountLifecycleProofs**

* `TypeCorrect` from `Inv`: what a transaction has read is still there (`Grounded`; rows only go with
  the purge, which waits for the transactions), one transaction at a time sets a password
  (`EndsLocked`), and codes and sessions belong to a user (`Owned`). Its lemmas divide the steps into
  those that only read (`ReadingStep`) and those that end a transaction by writing (`CodesWritten`).
* `CodeUsesCorrect` from `UsesBounded`: an open code has not been used, and its uses *plus* the requests
  that have checked it stay below the number of transactions.
* `OpenCodesCorrect` from `OpenBounded`, which speaks of every set of the transactions that are sending
  a code: the property itself is the case of all of them, and the step of one of them needs the others
  without it.
* `SessionsFollowPasswordCorrect` from `SessionInv`: a transaction that sets a password has seen every
  session that is not late.
* `ProductsCorrect` from `ProductInv`: personal workspaces plus the transactions that found none, and
  links plus the transactions that found none.

**MessageRetryProofs**

* `TypeCorrect` from `Inv`: the queues are finite (`Finite`) and a row an administrator has selected stays
  (`RowsSeen`).
* `LedgerRefined`: every step is a step of `MessageLedger` or leaves its variables alone, one lemma for each
  kind of step. It needs `Apart` (a copy is in one place) and `OneHolder` (a valid delivery has one holder),
  so that a run that acts takes exactly its copy out of `Owed`, and so that a lost connection makes no
  more stray runs than it voids deliveries (`HandStrays`, `StoreStrays`). The lemmas on `Count` (`CountLess`,
  `CountMore`, `CountBounds`) carry set facts over to the counts.
* `NoMessageLostCorrect` under every fault, from the ledger alone: `Answered` (a published message is
  owed, or has an effect, a row or a copy given up) is inductive for `MessageLedger`. `NoMessageLost` itself is
  not inductive: it counts a stray run as a copy, whose end may leave no trace.
* `FatesAccountedCorrect` under every fault, from `Apart` and `Fates`, which
  allows a message nothing before it is published: each step moves it from one count to another.
* `RunsBoundedCorrect` under every fault, from `RunsInv`: the runs had *plus* those still to come, one
  pair for each attempt a ready copy has left (`Left`) or that follows when a run in progress fails
  (`HandLeft`).

**SubscriptionSyncProofs**

* `TypeCorrect` from `Inv`: whatever has been sent, stored or linked is of a subscription that was paid
  once (`Known`), and what a handler run or a request has learnt stays so (`Follows`, `Asks`): rows are
  never deleted, an ended subscription does not come back. `LinkedAtCreationCorrect` from `LinkStep`.
* `LinkedFollowsStripeCorrect` from `Serial`: while nothing is disturbed, one run or request goes on at a
  time (`Alone`), and the row tells the state at Stripe, or an event that will make it do so waits
  (`Pending`) or is being applied (`Working`); what has been fetched is Stripe's state, or a later event
  waits (`Fresh`). `PendingStep` and `WorkingStep` say how an event's life goes on, `NewsStep` that a change
  at Stripe starts one, `WriteStep` that no write contradicts it. When all is quiet nothing is pending.
* `WorkspaceFollowsCorrect` from `Matching` besides: the workspace is frozen exactly when the linked row is
  canceled (`FrozenWhenCanceled`), for which a run's `linked` and a request's `sub` must still be right when
  they write (`RunsMatch`, `RequestsMatch`).

Only model-checked: the liveness properties (`PendingResolved`, `TransactionsEnd`, `EventuallySettled`,
`EventsProcessed`, `RevokedIsRefused`, `LimitLifts`, `CallsEnd`), since fairness and `ENABLED` are out of the
prover's reach. Every safety property of a passing run is a theorem.

## 5. Plan

The modules of the first plan are written. In this order, what a further step would add:

1. One instance that runs `UsageQuota` on the deliveries of `MessageRetry` instead of a bounded number of
   reports.
2. The API keys of a workspace as a set in `RequestAdmission`, with test keys.

### Not modelled

* Career usage metering: it has no reachable state. The route of a validation first reads the context
  (apps/cubex_career/routers/internal.py:219), which begins a transaction of the session, and then calls
  `session.begin()` (line 241), which raises `InvalidRequestError`; no `career_usage_logs` row is ever
  created, and every commit finds none and returns success. When this is repaired, the module is
  `UsageQuota` with the user in place of the workspace, plus the stored result.
* Failed payments of invoices (`invoice.payment_failed`, `invoice.payment_action_required`; they only
  send e-mails), previews, and the reports of usage (read-only). `invoice.paid` goes to the handler of
  subscription updates (core/routers/webhook.py:27) and is an `updated` event of the models.
* `accept_invitations_for_email`, the clean-up of expired codes and tokens (`cleanup_expired`) and
  `increment_attempts`: nothing calls them.
* The `RateLimiter` dependency of the routes: its Redis backend increments and sets the expiry in two
  commands, its memory backend is made anew for each request and limits nothing.
* The `retry_queues` ladder of the consumer (no queue is configured with it) and the dead-letter alert.
* OAuth, Cloudinary and the other methods of the Stripe client: wrappers of remote calls; what they answer
  is an input of the modules.
* HTTP layer, schemas, exception handlers, templates, logging, generated admin views, CSV and
  pagination: parsing and formatting without shared state.
