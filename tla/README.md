# MicroMart: formal models

MicroMart is a shop made of FastAPI services behind a gateway. This directory holds TLA+ models of all of them -
orders, stock, payments, sessions, the gateway and the notifications -, the TLC runs that check them on small
instances, and proofs, checked by TLAPS, that their main properties hold for every instance.

Every definition is translated from the code under `src/services/`; `PROJECT.json` ("map") names the lines each
one stands for. Docs and comments of the repository are used only as claims to check (see *Findings*).

    tlc -workers 2 -config MCOrderSaga_faults.cfg MCOrderSaga.tla     # a run
    tlapm OrderSaga_proofs.tla                                        # a proof module

## 1. The system

Paths are relative to `src/services/<service>/app/`. All services are single-process asyncio programs: a handler
is a coroutine that runs undisturbed from one `await` to the next, so the awaits (SQL, HTTP, Redis, NATS) are
exactly the points where other requests get in between. Nothing is shared between services but HTTP calls and one
NATS subject; each has a database of its own.

| Component | State | Operations | Talks to |
|---|---|---|---|
| **order-service** (`services/order_service.py`, `services/http_clients.py`) | `orders` and `order_items`; per request the locals `products`, `deducted_items`, `rollback_success` | `create_order` (a saga in six numbered steps), `get_order`, `list_orders` | product-service and payment-service over HTTP (timeout 5 s), NATS |
| **product-service** (`services/product_service.py`, `cache.py`) | `products` (stock, version, is_active, price), Redis entries `product:detail:{id}` with a TTL | list, GET, POST, PUT, DELETE (soft), `deduct-stock`, `restore-stock` | Redis |
| **payment-service** (`services/payment_service.py`) | `payments` (unique `order_id`), `refunds` | POST payment, GET, POST refund | a simulated PG (a chaos setting) |
| **user-service** (`auth.py`, `services/auth_service.py`) | `users` (unique email); Redis `refresh:user:{id}:{device}` and `refresh:token:{t}` (owner or `REVOKED:` tombstone) | register, login, refresh (rotation), logout, revoke all, JWKS | Redis |
| **api-gateway** (`main.py`, `middleware/`, `services/proxy_service.py`) | the JWKS cache (keys, fetch time, a lock), rate-limit counters | authenticate, limit, forward | all services |
| **notification-service** (`services/notification_service.py`, `main.py`) | a NATS subscription | handle `order.completed` | NATS |
| telemetry, k6, docker, k8s, gitops, scripts | none that a service acts on | - | - |

### How an order runs

1. look every item up (GET each product; nothing is stored if one fails);
2. INSERT the order, `PENDING`/`STARTED`;
3. deduct the items one after the other, with the version just read; on `VERSION_CONFLICT` read the product again
   and retry, at most `max_optimistic_retry` (3) attempts; on any failure restore what was deducted and commit
   `FAILED`;
4. commit `STOCK_DEDUCTED` with `stock_deducted`;
5. commit `PAYMENT_REQUESTED`, call payment-service; on failure commit `STOCK_ROLLBACK_NEEDED`, restore every
   item, commit `FAILED` with `STOCK_ROLLED_BACK` or, if some restore failed, `STOCK_ROLLBACK_NEEDED`;
6. commit `COMPLETED`, publish `order.completed` (best effort), answer.

Nothing resumes an order after a crash. The comments speak of a batch job that scans for `STOCK_ROLLBACK_NEEDED`;
it is not in the repository. Nothing in the repository calls the refund endpoint either.

### What is hard, and what makes each part right

* **order-service.** A timed-out call may still be executed later. A crash loses the local `deducted_items`. Orders
  compete for the same rows. Right means: no stock is ever made by compensation, a `COMPLETED` order is paid and has
  its items, `STOCK_ROLLED_BACK` hides no more than is unknown, a 4xx means not charged, every order ends, and no
  commit of the row skips a step.
* **product-service.** One conditional UPDATE carries all mutual exclusion. An edit is read-modify-write over two
  statements. The cache is filled and dropped outside the transaction. Right means: no update of the stock is lost,
  a version admits one deduction, a stale entry does not stay.
* **payment-service.** A check before an INSERT, a lock on an index entry, a sum that is read before it is used.
  Right means: one decision per order, answers agree with the table, a status never moves back.
* **user-service.** Several Redis calls per rotation, with others in between; two keys per session. Right means: one
  current token per device, which can be looked up; an exchanged or logged-out token opens nothing; the sessions of
  other users are never touched; an address is registered once.
* **api-gateway.** A cache refilled under a lock by many waiters, a fetch that may fail or be slow, an identity header
  that clients could send themselves. Right means: no service sees an identity nobody signed, one fetch serves the
  queue, an outage is masked by the old key, an old key does not come back, every waiter gets on.
* **notification-service.** At-most-once delivery with no reconnection logic of its own, on both sides. Right means:
  a notification only for a completed order, at most one each; what `/health` says of the connection is true
  of the subscription.

`PROJECT.json` ("hazards") lists the places in the code where these can go wrong, with the properties that watch
them.

## 2. The modules

| Module | What it is |
|---|---|
| `OrderLifecycle` | abstract: the life of a row of `orders` as order-service writes it; `saga_status` is not as `models.py` documents it (finding 4) |
| `OrderSaga` | `create_order` and its HTTP clients, with both services and the network; refines `OrderLifecycle` and the producer of `OrderEvents`, and, on the tables of the two services, `StockAccounts` and `PaymentRecord` |
| `PaymentRecord` | abstract: the committed status of an order's payment |
| `Payment` | payment-service's POST payment and POST refund; refines `PaymentRecord` |
| `StockAccounts` | abstract: stock, version and is_active of the products, changed by orders and by edits |
| `ProductStore` | product-service's handlers of a single product and the Redis cache; refines `StockAccounts` |
| `Sessions` | abstract: the current refresh token of each device, and what opens and ends a session |
| `RefreshTokens` | user-service's register, login, refresh and logout over Redis and `users`; refines `Sessions` |
| `Gateway` | api-gateway: identity headers, JWKS cache and lock, rate limit, proxy |
| `OrderEvents` | order-service's NATS client, core NATS and notification-service, over the rows of `OrderLifecycle` |
| `MC*` | instances for TLC |
| `*_proofs` | theorems (section 5) |
| `SumTheorems` | what the proofs need to know of sums over finite sets |

Each model has a section of *slips* before its actions: mistakes one could plausibly make in an action. They are
not part of the model; the mutants of `PROJECT.json` put one in the place of the right definition, and the
property that guards against it must fail.

### OrderSaga

`pc[o]` is where the coroutine of order `o` is suspended; every action is the code from one await to the next.
`item` is the position in `payload.items` (in `deducted_items` while undoing), `held` the length of
`deducted_items` - a prefix of the items, as they are deducted in order - `seen` the version last read per item,
`attempt` the loop variable of `deduct_stock`, `undone` is `rollback_success`, `exc` the code and HTTP status of
the exception being handled, `answer` what the client got.

| Code | Actions |
|---|---|
| step 1, lines 79-105 | `LookUp`, `LookUpFails` |
| step 2, 107-148 | `CreateOrder` |
| step 3 with `deduct_stock` | `SendDeduct`, `Deducted`, `DeductConflicts`, `Reread`, `DeductFails` |
| steps 4, 5 | `CommitStockDeducted`, `CommitPaymentRequested`, `SendPayment`, `PaymentApproved`, `PaymentFails` |
| compensation | `CommitRollbackNeeded`, `SendRestore`, `RestoreReturns`, `CommitFailed` |
| step 6 | `CommitCompleted`, `Publish` |
| a database error, a crash | `RequestDies`, `Crash` |
| the services' transactions | `ServeDeduct`, `Diagnose`, `ServeRestore`, `ServePayment`, `AdminSetsActive` |

`net` is the set of requests sent and neither executed nor lost. The caller may give up at any time (`TimesOut`)
while its request is still there, which is how a deduction or a payment comes to be executed after the saga has
compensated. A deduction whose UPDATE matched nothing lives on in `net` as its own diagnosis, because the reason
is read by a second statement. A commit that fails may have gone through all the same, with only its acknowledgement
lost: so the services may answer 5xx *behind* a change as well as before it, and a coroutine may die behind its commit.
`CONSTANT Faults` switches the environment's misbehaviour on: crashes, network loss and timeouts, 5xx, a stale product
cache, products switched off and on, no NATS.

The ledger `taken`/`given` counts what product-service really did for each item. No program has it; the properties
compare the saga's belief with it. Abstracted: prices, users, the item rows and the wording of errors; the four
codes of an unanswered call are one, `TIMEOUT` with 504 (the code says 503 when the connection breaks). Payment
and products are here with one transaction per request; their own interleavings are the subject of the next two
modules. The simulated PG's probability is a free choice.

### Payment

A handler is a sequence of statements in a READ COMMITTED session of its own. `CheckDuplicate` sees committed
payments only; `Flush` is the INSERT: it waits while another session holds the index entry of the order
(`holder`), and fails with 409 if a payment is committed by then; `Approve`/`Reject` commit; `Refresh` reads back.
A refund is `LoadPayment`, `SumRefunds`, `CommitRefund`; only a refund equal to what was refundable *when it summed*
writes the status. `Dies` rolls the session back and frees the entry.

### ProductStore

A request is a GET (`ReadCache`, `Select`, `Fill`), a deduction (`Arrive`, `Deduct`, `Diagnose`, `Invalidate`), a
restoration (`Restore`, `Invalidate`), an edit (`LoadRow`, `CommitEdit`, `Invalidate`; PUT and DELETE) or a creation
(`Insert`: one INSERT, nothing cached). `listed` is the set of products that have a row; the `row` of any other
product is what its POST will insert, so a creation is the step that puts it on sale. A deduction waits for the row it
names, since its caller has read the version somewhere. An edit's UPDATE names only the columns whose value differs
from the loaded one - what SQLAlchemy's unit of work emits - and never `version`. Redis may fail (swallowed by the
code), handlers may die at any await, entries with a TTL expire. The list keys are not here: they are dropped but
never filled.

### RefreshTokens

`forward[d]` is the Redis key `refresh:user:{id}:{device}` (the current token of the device), `reverse[t]` is
`refresh:token:{t}`: nothing, the owner (`Live`) or a `REVOKED:` tombstone. A token is named after the login or
refresh that issues it. A handler reads keys one by one and writes them in one MULTI/EXEC pipeline; `target`, `shown`,
`seen`, `left`, `scan` and `values` are its locals.

| Code | Actions |
|---|---|
| `register_service` over the unique index of `users.email` | `CheckEmail`, `InsertUser` (waits for `holder`), `CommitUser` |
| `login_service`, `create_refresh_token` | `FindUser`, `ReadForward`, `StoreSession` |
| `refresh_service`: `get_user_id_from_refresh_token`, `verify_refresh_token`, the user, `rotate_refresh_token` | `LookUpToken`, `Verify`, `CheckUser`, `ReadForward`, `Rotate` |
| the reuse alarm, `revoke_all_refresh_tokens` | `Alarm` (part of the two above it), `FindKey`, `ReadKey`, `DeleteAll` |
| `logout_service`, `revoke_refresh_token` | `LookUpLogout`, `ReadForward`, `ReadTtl`, `Revoke` |
| a call that fails (`get_db` rolls back), a lost reply to a pipeline | `Fails`, the second disjunct of `Written` |
| Redis expiry, an administrator's UPDATE | `Expire`, `Deactivate` |

`redis.ttl` is read a call after the key and rounds, so a key about to expire may leave no time for a tombstone
(`left`). A client can show only tokens it was given (`Handed`). Passwords, JWT contents and the number of seconds are
abstracted; a wrong password is answered like an unknown address.

### Gateway

A request goes from `new` through the middleware to a route and a service. `identity` is the `X-User-ID` that the
gateway will pass on, at first what the client itself has sent (`Claims`). Up to its first await `dispatch` is one step
(`Anonymous`, `RefusedAtOnce`, `CacheHit`, `CacheMiss`); each of them strips the client's headers. `queue` is
`_refresh_lock` with its holder first - asyncio grants a lock in order; `TakeLock` looks at the cache again,
`JwksServed` is user-service reading its key, `FetchSucceeds` and `FetchFails` are the two ends of `_refresh`. Between
`JwksServed` and `FetchSucceeds` the issuer may change its key (`Rekey`), which is how a reply can be old.
`HealthCheck`, `GatewayProxy` (rate limit, then `get_target_url`), `Forward`, `Return` and `GiveUp` are the rest;
`ServiceHandles` is the service behind, which may act after the gateway has given up. A token is a record of its kid,
the key that signed it, whether it is expired, and its user. `get_jwks_service` always serves one key under one kid,
so the cached key set is `keys`: one key or none.

### OrderEvents

The rows of `orders` follow `OrderLifecycle`, and `OrderSaga` implements the actions of order-service
(`ProducesEvents`); `running` are the coroutines alive. `link` and `client` are the two NATS clients, which are made
once per process; `wire` is what is published and neither delivered nor lost; `inbox`, `handling` and `outcome` are
the subscription, the callback at its one await and its counters. `Publish` is `_publish_order_completed`; `Connect`,
`Subscribe` and `SubscribeFails` are notification-service's lifespan with its error paths (`unclosed`: the close after
a failed subscribe failed as well); `Receive` and `SendEnds` are `handle_order_completed_message` up to and from
`simulate_notification_send`. Both services may restart at any time and each client may give up and stay closed. The
receiving client may also lose its connection and be `reconnecting` for a while: it is not closed (`Alive`, and so
`Connected`) and keeps its subscription, but hears nothing (`Hears`). `Foreign` messages are what other publishers put
on the subject.

## 3. The runs

| Run | Instance | States | Shows |
|---|---|---|---|
| `saga_faults` | 2 orders, 2 products with one piece each, 2 attempts, all faults | 1.5 million | every safety property under everything that can go wrong, and the refinements |
| `saga_progress` | the same, network loss, 5xx and no NATS | 115 thousand | every order is answered and settled; `ORDER_STOCK_CONFLICT` and `INSUFFICIENT_STOCK` are said only when true |
| `saga_crash` | crashes only | violation | finding 1 |
| `saga_charge` | network only | violation | finding 2 |
| `saga_rollback` | 5xx only | violation | findings 3 and 4 |
| `payment` | 2 payers, 3 refunds (1, 1 and 2 of 2) of one order | 30 thousand | one decision, truthful answers, `REFUNDED` is paid back, the record's transitions; everybody ends |
| `product` | 1 product with 1 piece, created first; a GET, 2 deductions, a restoration, a DELETE, Redis failures, deaths | 160 thousand | accounts add up, a version is spent once, the refinement, no stale entry for ever |
| `product_stale` | a GET and a PUT of the price | violation | finding 5 |
| `sessions` | 2 users, 2 devices with sessions, any 3 of 2 registers, a login, 2 refreshes, a logout; failures, expiry, a deactivation | 270 thousand | sessions open and end as `Sessions` says, used tokens stay out of use, an address is registered once and nobody waits for it for ever |
| `gateway` | any 3 of 10 kinds of requests, 2 clients, limit 2, key change, cache expiry, failing fetches | 314 thousand | no unverified identity gets through, the cache and its lock do what they are for |
| `events` | 2 orders and a message that is no event, restarts and lost connections of both services | 268 thousand | at most one notification per order, who is connected is subscribed, what is taken in is handled |
| `events_health` | the same | violation | finding 6 |

**The properties.** `StockNeverCreated`: no item deducted twice, none restored that was not. `CompletedIsPaidAndKept`:
a `COMPLETED` row means an approved payment and every item kept. `RolledBackIsReleased`: behind `STOCK_ROLLED_BACK` at
most one item is missing, the one whose deduction had no answer or a 5xx, and none of a row that was ever reserved.
`FlaggedBeforeRestore`: no restore of a reserved order before `STOCK_ROLLBACK_NEEDED` is committed.
`RefusedIsNotCharged`: a 4xx answer means no payment, now or later. `NoOversell`: completed orders never hold more
than there was. `ConflictMeansContention`, `SoldOutMeansScarce`: the two stock errors are true (the first asks for
`MaxRetry` changes of the product where reads are fresh, as in the run, and for one change where they may be stale).
`PromisesKept`: the refinements of `StockAccounts` and `PaymentRecord`; that of `OrderLifecycle` is within
`ProducesEvents`. `ProducesEvents`: to `OrderEvents` the saga is a producer as it expects one, an order being
`running` from its INSERT to its answer (for ever, if its coroutine dies). `EveryOrderSettles`: liveness.
`StockIsAccounted`: no deduction, restoration or edit of another column is lost. `VersionSpentOnce`,
`EventuallyFresh`, `DecidedOnce`, `AnswerIsRecorded`, `RefundedIsPaidBack`, `EveryRequestEnds` say what their comments
say.

`CurrentIsFound`: the current token of a device can be looked up and leads to that device. `ExchangedNeverVerifies`:
once a refresh has been answered, nobody gets past the verification with its old token. `LogoutEnds`: the token in the
body of an answered logout is current nowhere, whatever rotated in between. `SessionsKept`: the refinement of
`Sessions`. `RegisteredOnce`, `RegisterEnds`: two registers of one address. `OnlyVerifiedGetThrough`: what a service
receives as identity comes from a signed, unexpired token. `OneRefreshPerExpiry`: a fresh cache is fetched again only
for a kid it lacks. `NoKeyReturns`, `OutageIsMasked`, `QueueDrains`: slow replies, failing fetches and waiters.
`OneNotificationPerOrder`, `ConnectedIsSubscribed`, `EventsAreHandled`: delivery, start-up and the callback. What an
ended subscription drops is outside `EventsAreHandled`: delivery is at most once. `LogoutEnds` speaks of the token in
the logout's body, not of the session: a refresh that verified before the logout rotates after it. `EventuallyFresh`
shows that no entry lives without a TTL; that the TTL alone may have to end a stale one is finding 5.

**Bounds, and why they are enough.** Two orders that overlap in one scarce product meet in every way two coroutines
can; one of them has two items, so that a prefix can be deducted when the other item fails. Stock 1 and quantities 1
put every deduction at the boundary. `MaxRetry` 2 has both a retried and a last conflict. Each request is sent once
and each order is placed once, so versions stay below the number of deductions and restorations and nothing else needs
a cap; products are switched off and on without limit. Two payers are the race for the index entry, three refunds the
races of two halves and of a half with the whole. Amounts are small because only their sums and equalities matter. One
product is enough for `ProductStore`, whose handlers never touch two. In `sessions` and `gateway` `Arrivals` lets any
three of the requests arrive, so every pair and triple of them interleaves, without the states of more: a rotation
needs one other at its side, a reuse alarm two, a queue a holder and two waiters. `Failing` and `Expiring` name the
requests that may fail and the token that may expire; the others are symmetric to them. The rate limit is 2, so that
the third request meets it. Two keys are one change; a third would repeat it. Two orders and one foreign message fill
an inbox in every order. Only the arrivals and `Failing`, `Expiring` bound anything; the theorems of section 5 have
none of these bounds.

`CHECK_DEADLOCK` is off where the requests are finitely many and the system stops when they are through; it is on in
`events`, whose services restart for ever.

**Fairness.** `OrderSaga`: weak fairness of each coroutine - the event loop resumes a coroutine whose await is over,
and httpx bounds every await by its timeout - and of the services, which answer what reaches them; a lost request is
answered for by the timeout. Crashes and faults are never fair. `Payment` and `ProductStore`: weak fairness of each
handler, for the same reason (one waiting for an index entry is not enabled, and need not be run); `ProductStore`
also of the expiry of entries with a TTL, which Redis guarantees. `RefreshTokens`: weak fairness of each handler once
its request has arrived; a register that waits for an address is not enabled until the other's transaction ends, which
the other's fairness, or the rollback of `get_db`, brings about. `Gateway`: weak fairness of each handler behind its
first await; every wait has a timeout (httpx), and the lock is first in, first out, so nobody needs strong fairness.
`OrderEvents`: only of the callback (`Receive`, `SendEnds`), which the NATS client runs and whose sending is a bounded
sleep; delivery, publishing and restarts are never fair. Liveness runs leave crashes of the saga out: a
crashed order stays where it was (that is what `saga_crash` is about).

## 4. Findings

Each is a run TLC finds violated, and quotes what the repository says instead.

1. `saga_crash`: the row alone does not tell what to recover. Between the first deduction and the commit of step 4 a
   crash leaves stock gone and a row saying `STARTED`, `stock_deducted` false.
2. `saga_charge`: an order that becomes `FAILED` because its payment timed out may be charged all the same; nothing
   refunds it.
3. `saga_rollback`: `STOCK_ROLLED_BACK` does not mean that the stock is back. product-service commits a deduction, loses
   the acknowledgement and answers 500; the saga takes that for not deducted, restores the items before it and reports
   the rollback as complete (`docs/ERD_structure.md` line 44). A deduction that times out ends the same way.
4. `saga_rollback`, the same trace: `saga_status` never becomes `FAILED`. `models.py` (lines 63-64) and
   `docs/ERD_structure.md` (lines 217-230) end every failure there, from `STARTED` at once; the code goes from
   `STARTED` to `STOCK_ROLLED_BACK`, and this is what makes finding 3 a false claim instead of none.
5. `product_stale`: after an edit, a GET may show the old row until the TTL ends: a read that selected the row
   before the edit refills the cache after it was dropped.
6. `events_health`: `nats_connected` is true while nothing is heard. It is `not nc.is_closed`, which holds after a start
   whose subscribe and close both failed (the trace), and as well for a client that is reconnecting, although
   `docs/references/notification-service.md` (line 44) and `docs/micromart_design.md` (lines 378-379) take it for the
   sign of a failed subscribe and of a broken connection.

Seen while modelling, without a run of their own:

* Two partial refunds at a time may pay everything back and leave the payment `APPROVED`, although
  `docs/service_function_definition.md` (line 461) has a fully refunded payment become `REFUNDED`: each is compared with
  what was refundable when it summed (`payment_service.py` lines 232-253). The docstring of `create_refund_service`
  admits that concurrent partial refunds are open. In `Payment`: `SumRefunds` of both, then `CommitRefund` of both.
* A reuse alarm does not end every session, although `docs/micromart_design.md` (line 309) says so: a refresh that has
  verified its token before the alarm rotates it behind the alarm's pipeline (user-service `auth.py` line 246 on), and a
  device has a session again. In `RefreshTokens`: `Verify`, then another request's `Alarm` to `DeleteAll`, then `Rotate`.
* The reread of a version conflict is said to get the latest version (`docs/service_function_definition.md` line 599). It
  goes through the product cache, so one change and a stale entry can use up all attempts; that is why
  `ConflictMeansContention` asks for one change only where reads may be stale.
* The gateway's docs have the rate limit run before the JWT is verified (`main.py` lines 13-17 and 290-296,
  `docs/references/api-gateway.md` line 64). The limit is the decorator of the proxy route, which is reached behind
  `AuthMiddleware`: a request refused with 401 is not counted, and a limited one has been verified. `Gateway` follows
  the code.
* The same comments number the middlewares in the order they run and also call the last one the outermost. The one added
  last runs first, so the latency middleware is inside the authentication and does not see the requests that it refuses.
* A token whose `kid` is no string makes `get_unverified_header` raise `InvalidTokenError`, which `verify_jwt` (`auth.py`
  lines 150-154) does not catch: 500, where `RefusedAtOnce` answers 401. Nothing is forwarded either way.
* Behind a failed fetch of the key every waiter at the lock fetches again; `OneRefreshPerExpiry` is about fetches that
  succeed.
* The `PENDING` record of a payment does not outlive a crash, as a comment (`payment_service.py` line 103) may suggest:
  it is flushed inside the transaction that decides it.
* A rotation whose reply is lost answers 500; the client's retry with its old token is a reuse alarm.

## 5. The proofs

Every invariant and every action property of the passing runs is a theorem, for any finite or infinite sets of orders,
products, devices and messages, any quantities, any number of attempts, any limit and any faults. The assumptions are
those on the constants, which TLC evaluates in every run: `OrderSagaAssumption` (an order has items, no two of the same
product - the schema refuses duplicates - and quantities are positive), `PaymentAssumption` and
`ProductStoreAssumption` (request kinds are disjoint, constants are typed), `RequestsAssumption` of `RefreshTokens` and
of `Gateway` (likewise; the requests are finitely many where `Arrivals` counts them), `ArrivalsAssumption`,
`DevicesAssumption` (a device has one user, and one with a session has an account) and `MessagesAssumption` (foreign
messages are no orders).

One theorem assumes more, because what the code tells a client is not true without it: `SoldOutIsReal` assumes
`"admin" \notin Faults`. The UPDATE of a deduction may miss a product because it is switched off; if it is on again when
the reason is read, and its version as expected, the code can only conclude `INSUFFICIENT_STOCK`. It also assumes
finitely many orders, or what they ask for together would be no number.

| Module | Theorem | Argument |
|---|---|---|
| `OrderSaga_proofs` | `Typing`: `Spec => []TypeOK` | `TypeOK` is not inductive: an index into the items must be in range where it is used. `Placed` adds where `item` and `held` are at each step (`Cursor`) and that the row exists after step 2 |
| `OrderSaga_proofs` | `StockIsNeverCreated` | `StockInv`: a deduction in transit is for the item after the `held` ones and alone of its order (or abandoned, with the saga past it); an item is taken at most once and every one before `held` is; a restore in transit is for an item that is held, taken and not given back yet |
| `OrderSaga_proofs` | `ConflictsAreReal` | `AllTry`: the version last read is at least `Changes` of the attempt - its number if rereads are fresh, 1 if they may be stale -, and on a conflict the row's is above it |
| `OrderSaga_proofs` | `SagaImplementsAccounts`: `Spec => Goods!Spec` | only an executed deduction or restoration touches stock and version, and it changes both of one product on sale |
| `OrderSaga_proofs` | `SoldOutIsReal`, if `"admin" \notin Faults` and `Orders` is finite | `StockBalances`: the stock is the initial one less what the ledger says was taken, plus what was given; a version that is still the one asked for means that the stock is still the one the UPDATE missed (`AskedBehind`, `StockHasVersion`), and then the items taken, with the one that is short, are more than there was |
| `OrderRows_proofs` | `SagaImplementsLifecycle`: `Spec => Lifecycle` | `RowsAgree`: at each step of the coroutine the row has the status of that step; then each commit is one abstract step |
| `OrderRows_proofs` | `FlagComesFirst` | a restore exists only while undoing; `SendRestore` of a reserved order is behind the flag, and flags stay |
| `OrderRows_proofs` | `RefusedIsFree` | `PaysOnce`: an order's payment request is sent once, is alone in transit, and is gone when its answer is back; a refused order has never asked, or was answered by a rejection |
| `OrderRows_proofs` | `SagaImplementsRecord`: `Spec => Money!Spec` | also from `PaysOnce`: while a payment request exists nothing is decided yet. This is why `ServePayment` needs none of the duplicate checks of `Payment` |
| `OrderRows_proofs` | `SagaKeepsPromises`: `Spec => PromisesKept` | `SagaImplementsAccounts` and `SagaImplementsRecord` together |
| `OrderRows_proofs` | `CompletedKeepsItsItems`, `AnnouncedWasCommitted` | `CompletedIsFinal`: behind a `COMPLETED` row there is a payment, every item is held and taken, and no restore exists or will: only a coroutine past the flag sends one, and its row is not `COMPLETED` |
| `OrderRows_proofs` | `SagaProducesEvents`: `Spec => ProducesEvents` | each commit of a coroutine is a `Commit` of `OrderEvents`, its `Publish` is behind a row that `CompletedIsFinal` knows to be `COMPLETED`; a coroutine that dies moves no more |
| `OrderRows_proofs` | `RolledBackKeepsNothing` | `RollbackOK`: what is before the cursor of the compensation is given back, or `rollback_success` is false; the one item that may be missing is the deduction the caller gave up on or was answered with a 5xx (`Loose`) |
| `OrderRows_proofs` | `NothingIsOversold` | the items of completed orders are taken and not given back (`CompletedIsFinal`), and by `StockBalances` what is taken and not given back is at most the initial stock |
| `Payment_proofs` | `Typing`, `RefundedWasPaidBack` | `MoneyInv`: what a refund took for refundable is at least what is left now, since refunds only grow; so the refund that equals it and writes `REFUNDED` pays the rest back or more |
| `Payment_proofs` | `PaymentIsDecidedOnce`, `AnswersAreRecorded`, `PaymentImplementsRecord` | an index entry is held only by the request that is deciding, and only while no payment is committed; so one commit decides, and what the decider answers is the row from then on |
| `ProductStore_proofs` | `Typing`, `VersionIsSpentOnce`, `StoreImplementsAccounts` | `Spent`: the version a committed deduction expected is below the row's - it was the row's, which the same UPDATE moved on, and no step moves it back; each write changes one row, as `StockAccounts` allows |
| `ProductStore_proofs` | `StockIsToThePiece` | `Books`: the requests that have committed are finitely many, and each commit adds one of them to the sum; an edit leaves the column alone unless the stock is what it sets |
| `RefreshTokens_proofs` | `Typing`, `CurrentTokenIsFound`, `LogoutEndsTheSession`, `ExchangedIsNeverVerified`, `SessionsAreKept` | a token belongs to one device for ever, and each handler works on the device of its token; so a pipeline that retires a token replaces the one forward key that may hold it, and a retired token never becomes current again. The forward keys alone are not inductive: the tokens in handlers' locals (`seen`, `values`, `shown`) must be of the same device too |
| `RefreshTokens_proofs` | `AddressIsRegisteredOnce` | the address is held only while there is no account, and a 201 leaves an account |
| `Gateway_proofs` | `Typing`, `OnlyVerifiedIdentities` | a request past the middleware carries the user of a verified token, or none on a public path; this must be said of the requests in flight as well, which outlive their handler |
| `Gateway_proofs` | `OneRefresh`, `KeysOnlyAdvance`, `OutageMasked` | only the holder of the lock is between asking for the key and storing it, and it has seen the cache stale or without its kid: so replies are stored in the order they were made (`KeysInOrder`), and the queue behind it finds the cache fresh |
| `OrderEvents_proofs` | `Typing`, `NotifiedAtMostOnce`, `ConnectedHasSubscription` | `OnceOnly`: the event of an order is in one place at most - wire, inbox or callback - since publishing is the last step of its coroutine; a subscription ends only with its client, and outlives a lost connection |

**Sums.** `Demand`, `Total` and `Moved` add up quantities over sets of items, refunds and requests with the community
modules' `SumFunctionOnSet`, a fold over a finite set. `SumTheorems` proves what it does: the sum of no elements is 0,
one more element adds its value (whichever element the fold takes first), disjoint sets add up, a subset adds up to no
more. The library's induction theorems take an operator and cannot be used; instead the module takes a minimal
counterexample among the subsets of the set, whose proper-subset ordering is well-founded. Everything else about sums is
cited from there.

**Only model-checked.** Liveness: `EveryOrderSettles`, `EveryRequestEnds`, `EventuallyFresh`, `RegisterEnds`,
`QueueDrains`, `EventsAreHandled`. The installed provers cannot reason about `ENABLED`, and so not about fairness.

## 6. What is not modelled

* **Read-only operations** (`get_order`, `list_orders`, `get_payment`, product lists): they change no state.
* **The gateway's metrics and logging middlewares, headers and bodies**: they count or pass through.
* **Telemetry, deployment, load tests**: configuration, or state no service acts on.
* **The batch job for `STOCK_ROLLBACK_NEEDED`** and an outbox for lost events: not in the repository. What they would
  need is in the hazards (rows do not say which items are restored; an event is published at most once).
* **Several processes of one service**: the JWKS cache, its lock and the limiter's counters are per process, and the
  models have one. The databases' and Redis' own concurrency control is what `ProductStore`, `Payment` and
  `RefreshTokens` model, so there more processes change nothing. notification-service is one process at a time, the
  old one gone before the new one subscribes. Its Deployment
  (`k8s/services/base/notification-service/deployment.yaml`, `strategy: {}`) overlaps the two during a rollout, and as
  the subscription is in no queue group (`main.py` line 55) both are given an event of that time and notify of it;
  `OneNotificationPerOrder` is about one process and its restarts.
* **`users.token_version`**: nothing writes it, and it is only copied into access tokens.

## 7. The plan

Done, in this order: `OrderLifecycle` and `OrderSaga` first, because the saga ties the other services together; then
the tables it relies on (`PaymentRecord`, `Payment`, `StockAccounts`, `ProductStore`); then the services around them
(`Sessions` and `RefreshTokens`, `Gateway`, `OrderEvents`). Then the proofs: types and safety invariants, the
refinements, the properties about sums, and how the models meet: the saga's view of the two services is within what
`StockAccounts` and `PaymentRecord` promise, which `ProductStore` and `Payment` implement, and the saga produces events
as `OrderEvents` assumes.

Next:

1. Payments of two orders at a time, and larger instances of the saga where time allows.
2. Two overlapping processes of notification-service, as a rollout has them.
3. What the liveness arguments rest on, as invariants with proofs: that a waiter for an index entry or for the lock
   always has a holder in front of it that can move.
