# energy-bot in TLA+

energy-bot is a Telegram bot that rents TRON energy to its users. A user tops
up a TRX balance through the GMPay gateway, orders energy for a TRON address,
and the bot buys it from one of two upstream markets, TRONow and TronBid. The
program is small, but what it does is not: money is frozen, spent at another
company over an unreliable network, and given back when nothing was bought,
while processes crash, leases expire and answers come late, twice or never.

This directory specifies that behaviour, checks it with TLC on small instances
and proves its most important parts with TLAPS for all instances. All paths below are
relative to `src/src/energy_bot/` unless they begin with `docs/`.

## 1. The system

| Component | Code | State it keeps | Operations |
|---|---|---|---|
| User ledger | `services/wallet.py`, `models/wallet.py` | a row per user (available, frozen), a row per movement with a unique key | `credit`, `hold`, `capture`, `release` |
| Order state machine | `services/rental.py`, `models/order.py`, `models/purchase.py`, `repositories/orders.py`, `handlers/rental.py` | an order (status, wallet_state, retry count, next run, lease), its purchase attempts, its events | `reserve_order`, `cancel_order`, `begin_purchase`, `complete_purchase`, `release_order` |
| Purchase worker | `services/procurement.py` | none of its own: what a pass remembers between two transactions | `_claim`, `process`, `_purchase`, `_apply`, `_error`, `wake_tronow`; the outbox `_notification_once` |
| Provider adapters | `services/providers.py` | none | `submit`, `recover`, `quote` |
| Upstream markets | `services/upstream/*.py` (clients only) | the upstream orders, by business id | POST, query, webhook |
| Deposits | `services/deposit.py`, `models/deposit.py`, `handlers/deposit.py`, `web/gmpay.py`, `services/payment/gmpay.py` | a deposit row: status, gateway number, amount asked, block transaction | `prepare_deposit`, `submit_deposit`, `match_callback`, `mark_paid`, `reconcile_deposit` |
| TRONow webhook | `web/tronow.py` | the deliveries it has seen | check the delivery, `wake_tronow` |
| Request gates | `services/upstream_gate.py` | a semaphore per process; per merchant a row with the next free times or the last second's requests, pauses, told limits | `run`, `_delay`, `observe`, `_defer` |
| Read cache | `services/upstream_cache.py`, `services/cached_upstream.py` | the running flights of a process; rows with a value, its expiry and a refresh token | `get`, `_get`, `invalidate`, `prune` |
| Chat shell, settings, logging, users, migrations | `app.py`, `config.py`, `db.py`, `handlers/{start,echo}.py`, ... | none that the above reads concurrently | |

How they interact. Chat handlers call the order state machine and the deposit
service, one database transaction each. The worker's consumers poll the order
table, and between two transactions they call a provider adapter, which calls
an upstream client through the gate; balances and quotes are read through the
cache, which a purchase invalidates. The two webhooks write the tables the
handlers and the worker use. Between processes nothing is shared but rows, each
read or written under its lock; within a process readers share a flight of the
cache, and requests the slots of a gate.

What is hard about it, and where:

* **Interleaving.** A worker may outlive its lease (`procurement.py:224`) and
  return with an answer while another worker holds the order. The user cancels
  while a worker asks for quotes. The gateway's callback overtakes the reply to
  the request that caused it.
* **Unclear answers.** After a timeout the POST may have been processed, may
  still be on the wire, or may be gone. Whatever the worker then concludes, it
  must neither buy twice nor give money back for something that is delivered.
* **Crashes** between the commit that records the intent and the call, or
  between the call and the commit of its answer; restarts with another
  configuration.
* **Bounds.** The POST budget is spent before the call and survives restarts;
  the rounds without an offer are counted across passes.
* **Progress.** An order is only reachable through `next_run_at` and the expiry
  of its lease: any pass that ends badly can strand the money.
* **Late writers.** A sender, a refresh or a worker that outlives its lease must
  not overwrite what its successor recorded; copies of a delivery race to be the
  first.

`PROJECT.json` lists the hazards one by one, at their lines.

What makes each component correct:

* *ledger*: balances are the sum of the entries, never negative, and each proof
  of payment or settlement is applied once;
* *orders and worker*: frozen before bought, charged only for what was
  delivered, refunded only when nothing can arrive, at most one purchase alive,
  no more POSTs than the budget, every frozen price answered in the end, and
  the user told;
* *deposits*: each payment credited once, to its payer, over the amount stored in
  its deposit's row; what is decided stays decided; no payment is lost, unless the
  gateway pairs its order with another payment;
* *outbox*: the events of an order sent in order, each at least once;
* *webhook*: what is acknowledged was recorded and has woken its order;
* *gates*: no second holds more requests than the merchant's limits, pauses are
  respected, every slot is given back, nobody waits for a slot for ever, and
  sleepers never hold up each other (one of them may be overtaken without end);
* *cache*: no value older than the last invalidation is published or returned;
* *clients and adapters*: nothing is concluded that the upstream does not bear
  out.

## 2. The modules

| Module | What it is |
|---|---|
| `Wallet` | the ledger: one operator per service call, used inside the transactions of the others |
| `Rental` (EXTENDS `Wallet`) | the order rows and their transitions; `Reserve` and `Cancel`, the user's two transactions |
| `Procurement` (EXTENDS `Rental`) | the worker, the adapters' calls, the upstream, crashes, restarts, time; `Spec` |
| `ProcurementProperties` | invariants, action properties, fairness, liveness, the refinement mapping |
| `Escrow` | the abstract specification of an order: freeze, buy, deliver or fail, charge or refund |
| `ProcurementInvariant` | the inductive invariant behind the safety properties, what one step does to one order, and the invariants behind the exclusion list and the budget |
| `UpstreamAnswers` | one call of an adapter: every HTTP answer, what client, adapter and worker make of it |
| `Notifications` | the outbox: events, senders with a lease, calls to Telegram |
| `Mailbox` | the abstract specification of the outbox: read in the order of writing, without a gap, in the end |
| `TronowWebhook` | copies of deliveries handled side by side, the row lock, record and wake, the worker they wake |
| `RequestGate` | both gates: slots, spacing, rolling window, told limits, sleeping, deferral, pauses, a clock |
| `ReadCache` | flights, refresh lease, publication, invalidation around a purchase, pruning, truncation |
| `Deposits` (EXTENDS `Wallet`) | the deposit row with its three writers, the gateway |
| `MC...` | values for TLC, one module per specification |
| `ProcurementSafety` | TLAPS: lemmas about what the operators write; the types, one lemma per kind of step; the few shapes a step can have, every action matched with its shape, and the safety theorems |
| `ProcurementPromises` | TLAPS: the sums of the ledger, what a step does to one order and the promises that follow from it, the budget of the POSTs, the refinement of `Escrow` |
| `DepositsProofs`, `RequestGateProofs`, `ReadCacheProofs`, `TronowWebhookProofs`, `NotificationsProofs`, `UpstreamAnswersProofs` | TLAPS: an inductive invariant for each, and its theorems |

`PROJECT.json` maps every definition to the lines it models. In modules with a
comment `Fault:`, the definition below it is a plausible mistake in the code;
it is used by no action, and each property is known to fail when one of these
replaces the definition it varies.

### How the modules fit together

`Rental` and `Deposits` use the ledger's operators inside their transactions,
`Procurement` those of `Rental`. The other modules are composed through what
one of them shows and another takes for granted, because their product would be
too large to check and they meet in few places:

* `UpstreamAnswers` shows `FitsPurchases`: the results `Procurement` lets a call
  have are those that the adapters can have with the upstream in that state.
  `RejectedMeansNothingBought` is the assumption behind `PostRejected`.
* `Procurement` shows `SettledOrdersStaySilent`: no event is written about an
  order that is settled. `Notifications` lets `Notify` do just that, so an
  order's story ends there too.
* `TronowWebhook` shows when an order is woken; in `Procurement` the same wake
  (`Wake`) may happen to any order with an attempt at any time.
* `RequestGate` hands a request back or lets it through; in `Procurement` and
  `UpstreamAnswers` a request handed back is one that was not sent
  (`PostNotSent`, `NotSent`), which may happen to any request.
* `ReadCache`: quotes and balances may be old within their lifetime; in
  `Procurement` any supporting provider may make the best offer, which covers
  every quote, old or new.

### One transaction, one action

Every transaction of the order, deposit and outbox code locks its row first, and
reads what it decides on under that lock. So a transaction is one action, with
the early returns as guards and everything it writes in its primed variables;
between two transactions of one pass anything else may happen. A pass of the
worker is a program counter per consumer:

| pc | the worker is | actions that leave it |
|---|---|---|
| `idle` | polling | `Claim` (`_claim`) |
| `claimed` | about to run the first transaction of `process` | `ResumeLookup`, `ResumeSubmission`, `ExhaustSubmissions`, `StartQuoting`, `SkipSettled`, `LoseLease` |
| `quoting` | asking for quotes, then in the second transaction | `StartPurchase`, `RequoteLater`, `NoAffordableOffer`, `NoProviderLeft`, `SkipSettled`, `LoseLease` |
| `calling` | calling the adapter | `NeedsReview`, `LookupFound`, `LookupMissed`, `LookupFailed`, `SendPost`, `PostNotSent` |
| `posting` | about to repeat a POST its query did not find | `SendPost`, `PostNotSent` |
| `waiting` | waiting for the answer to its POST | `PostAnswered`, `PostRejected`, `PostUnclear` |
| `result` | about to commit the outcome | `Apply...` (`_apply`), `Error...` (`_error`), `LoseLease` |

`Crash` leaves any of them. It also stands for every exception inside a
transaction: the transaction rolls back, `_safe_once` logs, the lease stays.

The webhook is the exception. Its request first looks for the delivery without a
lock, then waits for the order's row lock, then inserts: the database session
spans several statements, others commit in between, and the insert may fail on
a copy. So `TronowWebhook` has a variable for the row lock, and a transaction
of several actions that ends in `Commit` or `Conflict`.

The cache has no row lock held across statements: `ReadHit`/`ReadMiss`, `Claim`,
`Load` and `Publish` are a statement each, and anything may happen in between.

### What is abstracted, and why nothing is lost

* **Time.** Where the code only compares a stored time with now (`next_run_at`,
  `lease_until`, `expires_at`, `refresh_until`) it is *none / due / later*, *none
  / live / expired* or *none / fresh / expired*, and time is an action such as
  `FallDue` or `LeaseExpires`. A lease may expire at any moment, so every race a
  lease makes possible is there. `RequestGate` calculates with time and has a
  clock that ticks; a NULL time is 0, before every reading of the clock.
* **Tokens.** The lease token is the worker, sender or process that drew it. The
  code draws a uuid per claim; a worker, a sender, and a process' flight for a
  key have one claim at a time and forget it when they end, and before they
  write anything they have claimed anew. So at most one live token names each,
  and comparing owners is comparing tokens.
* **The business id** is (order, sequence), which is what `business_id` hashes.
  The upstream creates one order per business id, as the documentation of both
  markets says of their idempotency keys (`docs/upstream/`).
* **`retry_count`** is only compared with the limit and stops there.
* **Costs and quotes.** Any provider that supports the product may make the
  best offer within the budget, or none does. A cost that differs from the
  stored one is the result `changed`. Wording, formatting and addresses are
  left out.
* **Answers.** `UpstreamAnswers` has them as the clients see them: a status, a
  code, a kind of body, an order state, one value for each way they are treated.
  `Procurement` groups them by what the worker does with them: a state
  (`pending`, `reviewing`, `success`, `failed`), `changed`, what
  `_definite_rejection` accepts (`rejected`), any other refusal that needs a human
  (`refused`: other 4xx, a foreign identity, `ManualReview`), and what leaves
  the outcome open (`unclear`: timeouts, 5xx, 429, an unreadable 2xx, a
  deferral by the gate). An upstream or a gateway in front of it may refuse a
  POST with an answer that is not definite although the order exists or will:
  `PostUnclear` allows both results.
* **A stray POST.** Whoever waited for a POST and stopped leaves it on the
  wire: `stray` says it may still create the order. Once the order exists a
  late POST only finds it and `stray` no longer matters. `stray` in
  `Notifications` and `open` in `UpstreamAnswers` are the same idea.
* **Outbox ids.** Events of an order are inserted under its row lock, so their
  ids grow in the order of the commits; an event's id is its place in `outbox`.
* **The history of the gate** is a set of admission numbers instead of a list of
  times, so that the k-th from the end is defined by order and not by equal
  times. `admitted` and `told` are logs for the properties; the code's row is
  `throttle` alone.
* **Readers of a flight** all get what the flight returns; what is promised of it
  counts from its beginning (`floor`), so a reader that joins a running flight
  may get a balance from before a purchase that was invalidated in between
  (`services/upstream_cache.py:44`). The adapters decide with that balance whether
  they make an offer (`services/providers.py:109`, `:219`). In `Procurement` every
  provider may make an offer or none, whatever its balance, so an old balance adds
  no behaviour there: it costs a round or a fallback, which are there already.
* **Never committed, never reached.** The status DRAFT exists only inside the
  transaction that creates an order. The branch of `_apply` for an order that is
  already captured cannot be reached, as a captured order has no open attempt:
  it is left out, and `AttemptsOK` is the reason.
* **The bound `MaxAttempts`** is the number of providers, and
  `EachProviderTriedOnce` shows that no order needs more.
* **The deposit of a user before the first order** is an initial entry of the
  ledger (`RentalInit`), so that `Procurement` need not carry the deposit
  tables; `Deposits` shows where such entries come from.

* **Admission.** In `RequestGate` a request counts when it is let through
  (`admitted`). It goes on the wire afterwards, so one that was let through before
  a pause was stored may still be sent during it.

In `Deposits` the gateway's number for the payment of deposit *d* is *d*. A
callback that is answered other than ok (400, 401, 413, 503) is rolled back and
changes nothing, so it has no action. Every way to be answered ok has one, for an
ok is what the gateway acts on: it stops repeating the callback. Two of them come
before the database is touched and decide nothing (`CallbackIgnored`: a status
other than 2, and a success without a usable `trade_id`, `web/gmpay.py:78-86`).
`acknowledged` therefore records which payment's success was answered ok, and
`None` for these.

With `Foreign` a callback may name the payment of another deposit that was
really paid: the code binds it if neither is bound yet, and `DecisionsStand` and
`CreditedExactlyOnce` say what must hold even so. The payment that belongs to the
order so bound loses by it: its own callback is refused with 400 for as long as it
comes (`services/deposit.py:122`), so it is never credited here, nor is it
acknowledged. `PaymentsAreDecided` excepts it by name (`Mispaired`). The GMPay
endpoint's delivery rows are read by nothing and left out.

## 3. What TLC checks

| Run | Instance | States | Question |
|---|---|---|---|
| `ProcurementRaces` | 1 order, 2 workers, 2 providers, 2 POSTs, 1 round, 2 attempts | 517 000 | do lost leases, crashes, unclear answers or late POSTs break a safety property, and does every step implement a step of `Escrow`? |
| `ProcurementLedger` | 2 orders of one user who can pay for one at a time, 1 worker | 56 000 | do ledger, balances and orders agree? |
| `ProcurementRestarts` | 1 order, 1 worker, restarts with both or either provider | 104 000 | does a removed provider cause a second purchase? |
| `ProcurementProgress` | 1 order, 2 workers, TRONow only, with fairness | 18 000 | is frozen money answered and delivery charged? |
| `ProcurementFallback` | 1 order, 1 worker, both providers, 2 rounds, with fairness | 7 400 | the same when the order falls back or finds no offer |
| `UpstreamAnswers` | every call of both adapters, every status class, code and body | 23 000 | is a conclusion ever drawn that the upstream does not bear out? |
| `Notifications` | 1 order with any of its stories, 2 senders, with fairness | 4 400 | does the buyer read in order, does a late sender write, is everything sent, and is it a `Mailbox`? |
| `TronowWebhook` | 1 order, 2 deliveries (one with our number), 2 requests, with fairness | 13 000 | is an acknowledged delivery recorded and woken, is its order polled? |
| `RequestGateWindow` | TronowGate, 2 processes, 3 requests, 5 ticks, limits told 0, 1 or 3 against 2 | 1 720 000 | does a second ever hold too much, is a pause ever broken? |
| `RequestGateSpacing` | UpstreamGate, 2 processes with a slot each, 3 requests, 9 ticks, with fairness | 55 000 | do sleepers stay apart, do slots add up, does the gate keep moving? |
| `ReadCache` | 2 processes with a reader each, 1 purchase, 2 balances, with fairness | 75 000 | can an old balance come back, is every reader answered? |
| `Deposits` | 2 deposits of 2 users, 1 status command, 2 block transactions, ignored and foreign callbacks, with fairness | 34 000 | is each payment credited once or parked, what does an ok mean, and does a decision stand? |

The properties, in words:

* `NoRefundWhileUpstreamMayDeliver`, `AtMostOneLivePurchase`,
  `ChargedOnlyForDelivery` - the money follows the goods, where *may deliver*
  counts a POST that is still on the wire;
* `PostsWithinBudget` - `docs/upstream/tronow.md` promises that the number of
  POSTs does not exceed the budget, across crashes and lost leases;
* `HeldOrdersStayScheduled` - no end of a pass strands frozen money;
* `EachProviderTriedOnce` - the exclusion list, read in one transaction and used
  in another, is never stale;
* `UserIsTold` - review, refund and fulfilment always leave their event;
* `OnlyLeaseHolderWrites`, `SettledOrdersStaySilent` - what no step may do,
  whoever wakes up late;
* `ImplementsEscrow` - all of it, seen from the user's side;
* `LedgerMatchesOrders`, `LedgerBalances` - money is neither lost nor made, and
  no settlement finds too little frozen;
* `HeldOrdersGetAnAnswer`, `DeliveriesAreCharged` - progress;
* `RejectedMeansNothingBought`, `ConclusionsAreTheUpstreams`, `FitsPurchases`,
  `RetriesFollowTheRules` - the classification of answers: what is believed, what
  is asked about again, what needs a human;
* `ReadInOrder`, `LateSendersWriteNothing`, `EverythingIsSent`,
  `ImplementsMailbox` - the outbox, although calls fail, repeat and arrive late;
* `AcknowledgedIsWoken`, `CommittedTogether`, `DeliveriesArePolled` - the
  webhook: a 2xx ends the upstream's repetition, so nothing may be left undone
  by then; an event that arrives before its order's number was stored is refused
  until it can be matched;
* `WindowHeld`, `SpacingHeld`, `PausesHeld`, `SlotsBalanced`,
  `GateMovesOn` - the gates, also when an answer lowers the limit while the window
  is full (`request_history[-request_limit]`). `GateMovesOn` promises a sleeper no
  turn of its own, since the code has no order of arrival: only that while it waits
  it, or another one, is let through;
* `CacheIsCurrent`, `ReadsAreCurrent`, `ReadersAreAnswered` - the cache, also
  when a refresh outlives its lease or an invalidation overtakes it;
* `CreditedExactlyOnce`, `AcknowledgedIsDecided`, `DecisionsStand`,
  `PaymentsAreDecided` - deposits. The last two speak of payments and not of
  orders: the payment an ok was given for, or that the gateway saw, is bound to a
  deposit that is paid or parked.

**Why these bounds are enough to be interesting.** Two workers (senders,
requests, processes) are needed for a stale one and its successor; a third would
be another stale one, and stale ones write nothing. Two providers are all there
are, and each is tried once. A budget of two POSTs has a first one, a repeated
one and an exhausted budget. Orders meet only in the wallet, hence two orders
with one worker in `ProcurementLedger` and one order in the runs about races;
the queries of the outbox and the row locks of the webhook look at one order's
rows only. Two events are all an order can have, a review and its end. A window of two requests and
one order, with three requests, is full before the last one; a second of two
ticks has an inside; the limits 1 and 3 are below and above the configured one.
In `ReadCache` the balance before and after the purchase is all that a stale
refresh can confuse, and `Drift` changes it without one.

**Bounds on what the code does not bound**: `MaxAttempts`, `MaxVersion`,
`LastArrival` and `MaxClock` (the clock stops; `GateMovesOn` asks only about
sleepers seen by `LastArrival`, while others still come and the clock still runs).

**Symmetry** is used in `ProcurementRaces` alone, for the workers, which appear in
no other constant; its only temporal properties are about single steps.

**Deadlock** is checked in `ReadCache`, whose balance can always be truncated, and
in `Deposits`, where the gateway may always call. In the others it is not: when
every order or event is settled and nobody asks for anything, the system rests (a
call has its verdict, the clock stops).
That it does not rest too early is what `HeldOrdersStayScheduled` and the
liveness properties say.

### Fairness

* Time passes (`FallDue`, `LeaseExpires`, `Tick`) and the upstream works on what
  it accepted: weak fairness.
* A worker, sender, request or flight does not stand still inside a pass, because
  every call has a timeout and every transaction ends: weak fairness of its moves.
* A consumer polls for ever, so an order or event that becomes claimable again and
  again is claimed: strong fairness of `Claim`, and of the stages of a pass that
  are reached again and again. A worker may crash or lose its lease at each of
  them, any number of times, but not every time.
* A query that is repeated for ever is answered at some time, to a worker that
  holds the lease. The last condition is needed: without it TLC finds a
  behaviour in which only a worker that has lost its lease is ever answered. It
  is justified because the lease outlasts the timeouts of a call many times
  (`services/procurement.py`, `config.py`). The same is assumed of a sender's
  call and of a refresh (70 seconds of lease by default, `config.py`).
* `RequestGateSpacing` takes `Prompt = TRUE`: a task that may run does so before
  the next tick. With a clock that runs ahead of every task nothing could be
  said of a request before the clock's bound. The safety run leaves it FALSE.
* The wait for a slot times out (`services/upstream_gate.py:111`), also when no
  slot ever comes free: weak fairness of `Acquire` or `SlotTimeout`.
* The gateway repeats the true success callback of a payment, and TRONow its
  delivery, until that one is answered with success
  (`docs/gmpay-integration.md`, `docs/upstream/tronow.md`). An ok to another
  callback ends nothing.

`HeldOrdersGetAnAnswer` accepts a review as an answer on purpose: an attempt at
TronBid whose POST was never answered has no number to ask for and stays under
review until a human decides (`services/providers.py`). For the same reason
`DeliveriesAreCharged` speaks of deliveries the worker can ask about.
`PaymentsAreDecided` excepts a payment whose order was bound to another payment
(`Mispaired`): without the exception TLC finds it refused for ever. If the gateway
never pairs an order with another's payment, the exception is never met
(`PairingsAreRight`, proved).

## 4. What TLAPS proves

All theorems hold for every value of the constants that satisfies the named
assumptions of the modules (`OrdersAssumption`, `ProcurementAssumption`,
`DepositsAssumption`, `RequestGateAssumption`, `ReadCacheAssumption`,
`TronowWebhookAssumption`, `NotificationsAssumption`, `AnswersAssumption`), and
use nothing else.

| Theorem | Statement |
|---|---|
| `ProcurementSafety!TypeCorrect` | `Spec => []TypeOK` |
| `ProcurementSafety!PurchasesCorrect` | `Spec => []PurchasesOK` |
| `ProcurementSafety!RefundsAreSafe` | `Spec => []NoRefundWhileUpstreamMayDeliver` |
| `ProcurementSafety!OnePurchaseAtATime` | `Spec => []AtMostOneLivePurchase` |
| `ProcurementSafety!ChargesAreEarned` | `Spec => []ChargedOnlyForDelivery` |
| `ProcurementPromises!EscrowIsKept` | `Spec => ImplementsEscrow` |
| `ProcurementPromises!BalancesAreExplained` | `Spec => []LedgerBalances` |
| `ProcurementPromises!LedgerTellsOrders` | `Spec => []LedgerMatchesOrders` |
| `ProcurementPromises!PostsAreBudgeted` | `Spec => []PostsWithinBudget` |
| `ProcurementPromises!ProvidersAreTriedOnce` | `Spec => []EachProviderTriedOnce` |
| `ProcurementPromises!FrozenMoneyStaysQueued` | `Spec => []HeldOrdersStayScheduled` |
| `ProcurementPromises!UsersHear` | `Spec => []UserIsTold` |
| `ProcurementPromises!SettlementIsTheLastWord` | `Spec => SettledOrdersStaySilent` |
| `ProcurementPromises!WritersHoldTheLease` | `Spec => OnlyLeaseHolderWrites` |
| `NotificationsProofs!EventsAreReadInOrder` | `Spec => []ReadInOrder` |
| `NotificationsProofs!LateSendersAreFenced` | `Spec => LateSendersWriteNothing` |
| `UpstreamAnswersProofs!RejectionsAreDefinite` | `Spec => []RejectedMeansNothingBought` |
| `UpstreamAnswersProofs!ConclusionsAreReported` | `Spec => []ConclusionsAreTheUpstreams` |
| `UpstreamAnswersProofs!AdaptersFitPurchases` | `Spec => []FitsPurchases` |
| `UpstreamAnswersProofs!RetriesAreRuled` | `Spec => []RetriesFollowTheRules` |
| `DepositsProofs!CreditsAreUnique` | `Spec => []CreditedExactlyOnce` |
| `DepositsProofs!AcknowledgementsAreFinal` | `Spec => []AcknowledgedIsDecided` |
| `DepositsProofs!DecisionsAreFinal` | `Spec => DecisionsStand` |
| `DepositsProofs!PairingsAreRight` | `~Foreign` implies `Spec => []RightlyPaired` |
| `RequestGateProofs!WindowsAreKept` | `Spec => []WindowHeld` |
| `RequestGateProofs!DistancesAreKept` | `Spec => []SpacingHeld` |
| `RequestGateProofs!PausesAreKept` | `Spec => []PausesHeld` |
| `RequestGateProofs!SlotsAreReturned` | `Spec => []SlotsBalanced` |
| `ReadCacheProofs!PublicationsAreCurrent` | `Spec => []CacheIsCurrent` |
| `ReadCacheProofs!AnswersAreCurrent` | `Spec => []ReadsAreCurrent` |
| `ReadCacheProofs!LeasesAreRespected` | `Spec => LiveLeasesStand` |
| `TronowWebhookProofs!AcknowledgementsAreSafe` | `Spec => []AcknowledgedIsWoken` |
| `TronowWebhookProofs!RecordsComeWithWakes` | `Spec => CommittedTogether` |

`DepositsProofs`, `RequestGateProofs`, `ReadCacheProofs`, `TronowWebhookProofs`
and `NotificationsProofs` also have a theorem `TypeCorrect`. `PurchasesOK`,
`LiveLeasesStand` and these five type invariants are proved and therefore not
repeated in a run.

### The purchase worker

**Types.** `TypeOK` alone is not inductive: that the attempt a worker commits
exists, and that the budget of the right attempt is incremented, depends on what
the worker remembers. The inductive invariant is `TypeInv == TypeOK /\ PassOK`,
where `PassOK` says that a worker past its first transaction has an order and one
of its attempts, and that only a call or its result may be a first submission.

**Safety.** The three properties speak of the upstream, which the code never
reads in the transaction that decides. So the invariant `PurchaseInv == TypeOK /\
PurchasesOK` has to say what the tables imply about the upstream and why:

* `StatusOK`, `AttemptsOK`: status, money and attempts agree, and only the last
  attempt can be open;
* `UpstreamOK`: a recorded failure is the upstream's own, a recorded success is
  delivered, and of an attempt recorded as rejected there is nothing upstream,
  nothing on the wire, and no worker left that could still post it;
* `ResultOK`: a worker carries no result the upstream did not give;
* `HolderOK`: whoever holds the lease works on the last attempt, which is open
  (so a second pass cannot have concluded it meanwhile);
* `FirstOK`: while the lease of a first submission holds, no other worker was
  ever given that attempt. This is why its rejection may be believed, and why the
  rejection of a repeated POST may not: `_error` tests `first_submission`.

Given the invariant the three theorems are short: what may still be delivered is
an attempt that has not failed (`NothingDelivers`), so it is the last one, and
after a refund there is none.

The proof that a step keeps the invariant does not repeat seven conjuncts for each
of some thirty actions. Part 3 of `ProcurementSafety` proves it once for each shape
a step can have: a call moves one worker on (`CallStep`), passes are forgotten
(`ForgetStep`), a pass ends under its lease (`FinishStep`, `OutcomeStep`), the
upstream moves (`UpstreamMoves`), an order changes while no worker moves
(`StillStep`). It adds the beginning of a pass (`BeginStep`, `ResumeStep`,
`StartPurchaseSafe`) and shows of each action which shape it has.

**Promises.** The properties about one order's row, entries and events need no
second look at the actions. `OrderStep(o)` (in `ProcurementInvariant`) lists the
six things a step can do to an order: let it rest, open it, buy, record an answer,
charge, refund, each with what happens to the money, the queue, the entries and
the events. `ProcurementPromises` shows once that every step is an `OrderStep` for
every order; each promise then takes a page:

* `EachProviderTriedOnce` needs `AskedOK`: a worker that compares offers has in
  its exclusion list every provider tried before the attempt it is about to make.
  The list stays true although it is used a transaction later, because a stale
  worker's `seq` is then no longer the next one.
* `HeldOrdersStayScheduled` needs `StaysQueued` of a step only, since a claim
  leaves `next_run_at` as it is and the lease decides who may pick the order up.

**The budget.** `PostsWithinBudget` is about POSTs that have left; the code counts
them before they leave. `BudgetInv` counts the workers that may still send one
they have paid for (`Payers`) together with those sent, and keeps the sum below
`submit_attempts`. That a worker which came only to look never pays, and that one
which has posted never posts again, is `MemoryOK`.

**The escrow.** The mapping takes an order's goods from all of its attempts, so a
step at one attempt could move the mapped state in ways `Escrow` has no step for.
`OpenIsAlone` and `DeliverableIsAlone` exclude that: of an order at most one
attempt can still deliver, so the mapped goods are those of one attempt (`OneSlot`),
and a step moves either them or the money (`MoneyMoves`), never both.

**The ledger.** `LedgerBalances` compares a balance with a sum over a set, which is
defined by recursion. The prover has no induction over an operator, but the
property of being right is, for all subsets of one finite set, itself a set: the
strict subsets of a finite set are well founded, so a smallest wrong one would have
to exist (`SubsetInduction`). From it follow what the sums need: they exist, they
are integers, they do not depend on which element is taken first (`AnyFirst`), and
one more element adds its value (`SumGrows`). The rest is that every step leaves
wallets and entries alone or posts one entry (`MoneyStep`).

### The others

* **Deposits.** `CreditedExactlyOnce` needs to know that a proof that comes again
  finds its row paid. `DepositInv` adds that a paid row is bound, that a row is
  bound only to a payment the gateway has accepted (so that its amount is there),
  and that a handler posts for a row of its own. A row write is judged once
  (`RowSafe`, by what a row may become), a credit once (`MoneyPaid`: no paid row
  has this payment, so its entry is new). `AcknowledgedIsDecided` is judged once
  as well (`AnswersSafe`): an ok names no payment, or the payment of the row that the
  same step leaves paid or parked, and such a row keeps both. For
  `PairingsAreRight` the only writers of a row's payment are the reply, which brings
  its own, and a callback, which without `Foreign` has no other to name.
* **Gates.** `GateInv` says that the row of a merchant is enough to judge the next
  request: every pause told (`PausesStored`), every distance (`SpacingStored`),
  every admission of the last second (`HistoryStored`). Pruning keeps the last,
  and `WindowHasRoom` shows why the time of the k-th request from the end tells
  whether fewer than k are left, also for a k that has just shrunk. Slots are
  counted by the sets of their holders (`Cardinality`).
* **Cache.** `CacheInv` follows the token: a flight that holds it has not been
  overtaken by an invalidation, so what it loaded is as new as the last one
  (`HolderOK`); what a flight promises is never more than that (`FloorOK`).
* **Webhook.** Who is about to accept has a record (`AcceptsSeen`), records come
  with wakes, and a row lock belongs to the request that is in its transaction.
* **Outbox.** A claim is only made when every earlier event of the order was sent,
  and what was sent has arrived (`SentMeansArrived`). That the buyer has all earlier
  events (`Cleared`) stays true for as long as anyone may act on the claim, be it a
  sender or a call it left behind (`SendersOK`, `StrayOK`): no arrival is taken back,
  and new events come last. So a call that arrives late finds its predecessors there.
* **Clients and adapters.** One call, but every answer. `AnswersInv` says what is
  known while an answer is awaited (`Waiting`); the lemmas before it sort the
  answers by what they prove, among them that noise never carries a documented
  pair of code and status (`NoiseIsNoRejection`), and that every code
  `_definite_rejection` believes is documented.

What is not proved and rests on TLC alone: liveness, which is out of reach of the
prover, as is ENABLED (`HeldOrdersGetAnAnswer`, `DeliveriesAreCharged`,
`PaymentsAreDecided`, `EverythingIsSent`, `DeliveriesArePolled`,
`GateMovesOn`, `ReadersAreAnswered`), and the mapping to `Mailbox`,
whose specification has a fairness part and whose mapping uses `SelectSeq`, which
the provers leave uninterpreted.

## 5. What is not modelled

* **Signatures, parsing of single fields, chat texts, settings, logging, users,
  migrations**: stateless, or pure input and output. Of the two webhooks' checks
  there is what they decide: a request is turned away, or goes on.
* **The GMPay delivery rows**, which nothing reads, and the client's other
  endpoints.
* **Quotes by value.** The upstream's price may change between the quote that
  was shown and the purchase; the code compares the cost of the answer with the
  attempt's (`changed`), which is modelled, and the price the user pays is fixed
  when the order is reserved. Which provider is cheapest is a choice.
* **More than one order in a race.** Workers take orders independently; the claim
  query's order (`next_run_at`, `SKIP LOCKED`) is left to fairness.
* **Operators who change rows by hand** while an order is under review.
* **Client operations without a caller** (`cancel_order`, `set_order_payer`,
  `create_order` of the TronBid client).

## 6. Plan

The model is complete up to section 5, and every safety property that a run checks
is proved. What is left to prove:

1. the safety part of the mapping to `Mailbox`: that each step of the outbox writes,
   reads or does nothing there, from `OutboxInv`, with `SelectSeq` in the mapping
   replaced by the n-th id of an order, which finite sets can count;
2. that the mapped state is in the declared types of `Escrow` and `Mailbox`, so that
   the abstract specifications can be used on their own.
