# pcaarb: TLA+ models and proofs

pcaarb is a multi-tenant point of sale: a NestJS API over PostgreSQL
(`src/apps/api`), a Next.js panel with an offline point of sale
(`src/apps/web`) and the schemas they share (`src/packages/shared`). This
directory models the services of the API and the offline point of sale,
model-checks them with TLC on small instances, and proves their main safety
properties for all values of the constants with TLAPS.

## 1. The system

### Components, their state and their operations

| component | state | operations | what makes it correct |
|---|---|---|---|
| Stock ledger (`modules/stock`) | `products.stock_quantity`, `stock_movements` | `createMovement`; `applyMovement` inside the transactions of sales, returns, purchases, counts, marketplace orders | balance = sum of the movements; balance never negative; a request moves all of its lines or none |
| Sales (`modules/sales/sales.service.ts`) | `sales`, items, payments | `create` | one sale per `clientSaleId`; every answer names a recorded sale; charges and sales agree |
| Loyalty (`modules/loyalty`) | `loyalty_ledger_entries`, `loyalty_programs` | `redeemTx`, `earnTx`, `updateProgram` | a redemption never exceeds the balance it was checked against, unless that fell meanwhile; the balance is explained by the sales on record and what returns took back |
| Offline point of sale (`apps/web/.../pdv`) | the IndexedDB queue, the cart and its draft | finalize, flush, discard, reload | no sale is lost, none is sold twice, every pending one is settled |
| Sale returns (`sale-returns.service.ts`) | `sale_returns` and items, the sale's status | `create` | no more returned than sold, no more refunded than paid, the sale canceled when all came back |
| Fiscal documents (`modules/fiscal`) | `fiscal_documents` | `issueForSale`, `cancelForSale`, `retry` | a canceled sale with a live note is put before a human |
| Payment provider | outside | `charge`, `refund` | approved or declined; what it did is not undone by a rollback |
| Cash sessions, stores | `cash_sessions`, `cash_movements`, `stores` | open, close, movement; create, deactivate | one open session per user; the figures of a closed session are final |
| Purchase orders, stock counts, finance | documents with a status, and what they post | create; receive / cancel; tally, finalize / cancel; edit, pay / cancel | a document takes effect once, and as its status says; a count leaves the balance at what is on the shelf |
| Marketplace | channel, listings, imported orders | sync a product, pull orders | an order is imported whole and once, or left with a reason |
| Customers, catalogue, data privacy | registers, the rows that refer to them, audit rows | create, update, remove, anonymize, export | history outlives the removal of a row; every erasure is on record |
| Reports, commissions | nothing but the rates | the ten reports and exports, rates | reports of one period agree with each other |
| Billing, trial expiry, tenant guard | `tenants.status`, `subscriptions`, `subscription_invoices` | register, subscribe, cancel; the nightly charge; the hourly expiry | a tenant stands for what it paid; a period is charged once |
| Users, authentication, invites | `users`, `refresh_tokens`, reset tokens, invites | register, login, refresh, logout, reset, invite, accept, role, deactivate | a session ends with the access it stems from; tokens are used once; an owner remains |
| API keys, overrides, abilities, guards | `api_keys`, `user_permission_overrides` | mint, revoke, set, remove; `buildAbility` | nobody gains by a grant what the granting rules keep from him |
| Audit log, email, health | `audit_logs` | `record`, `recordTx` | the row of an erasure commits with it |
| Web panel | nothing | forms and lists over the API | - |

Every service writes **inside its own database transaction** (`runWithTenant`,
`database/tenant-context.ts`), and they interact through shared rows under READ
COMMITTED. Many handlers use two transactions or more: one that reads and
decides, another that writes. The point of sale reaches `POST /sales` over a
network that loses requests and answers, and knows the sale by the
`clientSaleId` it drew. Payment, fiscal and marketplace providers are called
in the middle of transactions. Two jobs (`processDueBilling` every night,
`expireOverdueTrials` every hour) write the rows the owner's requests write.

### What is hard

* Read a row with SELECT, decide, write it later without a lock (stock
  balances, points, returned quantities, the status of a document, the failed
  logins of an account, the number of owners): what was read may be stale.
* External effects inside, or before, a transaction that can still roll back.
* Retries that overlap the request they repeat.
* Row locks taken in the order of the input; a second connection asked for while
  a transaction holds the first.
* A page that can be reloaded between any two awaits, and overlapping flushes
  that work on lists they read before.
* The end of a right (a deactivation, a reset, a revoked key, a block for want of
  payment) while requests that were let in before are still in flight.
* A job that dies between the charge and its record.

`PROJECT.json` lists these hazards at their lines, with the properties that
watch them. Two have none. `fiscal.service.ts:114`: a note canceled outside while the
transaction rolls back is dead at the tax authority and authorized here; nothing in
the repository says what should hold then, and the authority's side is not modelled.
`stores.service.ts:107`: the oldest store may be deactivated; what the comment
there says is about the plan, and `OpensWhereUsable` has it.

## 2. The modules

A **worker** (`Workers`, `Pullers`, `Clerks`, `Payers`) is a request in flight.
Its phases are the places in the handler between which others may step; a phase
ends where the code awaits a statement that sees, or is seen by, others.
Uncommitted writes stay with the worker, and a rollback forgets them. A request
that is refused leaves no trace.

| module | models | state and actions |
|---|---|---|
| `StockBook` | what stock promises its callers | `book`: `Apply` a whole request or nothing |
| `StockLedger` | `applyMovement` and its transactions | `stock`, `ledger`: committed balance and sum of movements; per worker the line at hand, the value computed from the SELECT (`newBalance`), the rows updated and not committed (`dirty`, `draft`, `moved`). `ReadBalance`, `Reject`, `UpdateBalance` (waits for a row another worker holds), `Commit`, `Fail`, `AbortVictim` (the deadlock detector) |
| `Sales` | `SalesService.create`, with loyalty and the charges | `sales`, `points` (and of them what returns took back, `clawed`), `program`, `till`; the provider's `sent` and `charges`. `Replay`/`ReplayMiss`, `CheckSession`, `Validate`, `InsertSale` (waits while another holds the key), `InsertConflict`, `Redeem`, `ApplyStock`, `Charge` (sends every charge of the attempt), `ChargesApproved`, `Commit`, `Fail`; the provider's `Approve` and `Decline` of one charge, whose attempt may be over; `ReturnSale`, `ToggleTill`, `UpdateProgram` |
| `SaleDelivery` | what the offline queue promises | a held sale is let go once it is recorded or has been refused, and does not come back |
| `OfflineQueue` | the queue, the cashier, the flushes, the network | `queue` (IndexedDB), `till`/`cart`/`cartOf`, `phase`/`toSync` of each flush, `conn`, `stray` requests, the server's `recorded` |
| `SaleReturns` | returns of one sale and reissues of its note | committed sums (`returned`, `refunded`, of it `onCard`, `clawed`, `lines`), `status`, `note`, the provider's `cardRefunds`; `ReadReturns`, `GiveBack`, `CancelNote`, `VoidNote`, `Commit`; `Retry`, `Reissue`, `RetryCommit` |
| `CashSessions` | `CashSessionsService`, `StoresService`, and the sales and cash refunds that write into a session | rows `sessions`, stores (`active`), `multi` (the plan); per worker the request and the session it found (`at`). Check and write apart: `OpenCheck`, `StoreCheck`, `ReadPlan`, `InsertSession`; `CloseCheck`, `Close`; `MovementCheck`/`SaleCheck`, `Enter`; `CreateRead`, `AddStore`; `UpdateRead`, `CountActive`, `SetActive`; a refusal for each; `ChangePlan`, `Fail` |
| `Documents` | `PurchaseOrdersService`, `StockCountsService`, `FinanceService` | `docs` by id, `goods` (units posted in the name of a document), `stock`, `cost`, `active`; `shelf`, the units really there. `Create*`; `Check` (the read and the test of the status, in a transaction of its own), then `Receive`, `Tally`, `Finalize`, `Edit`, `Pay`, `Cancel*`, or `Fail`; `Shift` (a unit sold or lost), `SwitchProduct` |
| `Marketplace` | channels, listings, `pullOrders` with `applyOrder` | `channelOn`, `listings`, `market` (imported orders), `taken` (their movements), `pulls` (transactions with the rows inserted and the units held so far). `SyncProduct`/`SyncFails`; `StartPull`, `SkipOrder`, `ImportOrder`, `LeaveOrder`, `CommitPull`, `PullFails`. EXTENDS `Documents`: one stock |
| `Reports` | `ReportsService`, `CommissionsService`, the reports of `FinanceService` | `book` (sales, with the discount and the redeemed points apart, and what came back of them), `rates`, `view` (what the reports have read). `ReadSales`, `ReadRefunds`, `ReadLines`, three transactions; an operator for each report: `Summary`, `SellerRanking`, `StoreRanking`, `ProductRanking`, `AbcCurve`, `Commissions`, `SalesCsv`, `ReorderSuggestions`, `PricingSuggestions`, `Cashflow`, `Dre`, `FinanceCsv` |
| `Registry` | customers, suppliers, categories, products, cost centers, data privacy | `rows`, `refs` (rows of each kind that refer to one), `logged`/`exported` (audit rows). `Create*`, `Refer`; a request finds its row (`Find`), then `UpdateCustomer`/`UpdateProduct`, `CheckHistory` or `CheckUse`, `Erase` or `Delete`, `LogExport` |
| `BackOffice` | the last four over the same products and stock | `BackNext`: a step of one of them; documents wait for rows a pull has locked (`WaitsForPulls`) |
| `Access` | `AuthService`, `UsersService`, `ApiKeysService`, `PermissionOverridesService`, the guards and `AbilityFactory` | `users`, `sessions` (refresh tokens), `claims` (access tokens out), `links`, `invites`, `keys`, `overrides`; `req`, the requests with what they read. `Login` then `RegisterFailedLogin` or `ClearLoginLockout`, `Issue`; `Refresh`, `Rotate`, `Issue`; `OpenLink`, `ResetPassword`; `Manage`, `Judge`, then `SetRole`, `Deactivate`, `SendInvite`, `MintKey`, `SetOverride`; `OpenInvite`, `AcceptInvite`; `Apply`, `Found` |
| `Billing` | `BillingService`, `TrialExpiryService`, `TenantStatusGuard` | `tenants`, `subs`, `invoices`, `job` (a run of the nightly job with the rows it read), `pays` (requests of owners). `Subscribe`/`Activate`, `AskCancel`/`CancelSubscription`; `StartRun`, `Charge`, `Renew` or `MarkPastDue`, `EndRun` (also a crash); `ExpireTrials`, `Tick` |
| `Platform` | `Access` and `Billing` for one tenant | `Register` (the tenant with its owner), `Guarded` (routes behind the guard need a tenant in standing), `Unguarded`, `AskBilling` (an owner's token), `Time`, `RunBilling` |

How they meet:

* `Sales` and `StockLedger` meet in `ApplyStock`: the lines of a sale are a
  request of `StockLedger`, which has the same rollbacks. `Documents` and
  `Marketplace` take reading and writing a balance as one step for the same
  reason: what happens between the two is the subject of `StockLedger`.
* `OfflineQueue` takes from `Sales` that a key is recorded at most once
  (`OneSalePerKey`) and that an answer of success is of a recorded sale
  (`OkMeansRecorded`); both are proved there.
* `CashSessions` takes a sale or cash refund as two steps, the look-up of the open
  session and the write; what happens between them is in `Sales` and `SaleReturns`,
  where the session is open or not (`till`).
* `Reports` takes sales and returns as single steps, from `Sales` and
  `SaleReturns`, and shares entries, stock and costs with `Documents`.

`MC*` modules hold the instances, `*_proofs` the theorems. Operators marked
`Mutant:` in a module are forms of the definition after them with a plausible
bug in it; no specification uses them, and each property fails for at least one
of them.

### Abstractions

* One tenant, except in `Billing`. Names, reasons, wording and reads are left
  out, and audit rows where nothing depends on them.
* Money is exact. `Math.round(x * ratio)` is modelled as rounding half up of the
  exact fraction; the double-precision ratio can differ in the last cent when it
  is not a binary fraction, so the run uses a sale at half price.
* Points and charges of a sale are numbers; the items of a sale in `Sales` are
  their subtotal. A return of one there takes back any number of points up to what
  it earned, and may be repeated; how many exactly is in `SaleReturns` (`clawed`).
* `getOrCreateProgramTx` is a read: its insert ignores conflicts.
* The provider's answers are free: approve, decline, or fail. A marketplace answers a
  pull with any of a few sequences of orders, repeated ones among them.
* Sessions and stores are numbered in the order they were inserted, which stands
  for `openedAt` and `createdAt`: two overlapping opens may start in the other
  order, which only changes which of two open sessions is the current one.
* In `CashSessions` a transaction of one statement is one step and holds a
  connection for that step; the transactions of `StoresService`, which ask for a
  second connection or count before they write, hold one from phase to phase.
* Secrets, hashes and the expiry of links and invites: a request has the right
  secret in time, or it is not made. Tokens out (`claims`) never expire: what
  holds of them holds of fewer.
* Ids are uuids: a deleted one (`Gone`, `Revoked`) is not drawn again.
* Bounds: `MaxTx`, `MaxRequests`, `MaxSales`, `MaxFaults`, `MaxShifts`,
  `MaxRefs`, `MaxFailures`, `MaxInvoices`, `LastTick`, `LastMoment` count requests,
  carts, faults, moves of units, references, failed logins, charges and time; nothing else in the state is cut.
* Variables called history (`raced`, `overlapped`, `overtaken`, `late`, `missed`, `doubtful`, `gone`,
  `answers`, `contested`, `inFlight`, `lapsed`, `crossed`, `doubled`, `epoch`,
  `renewals`, and the field `strayed` of a session) record what happened and guard
  nothing.
* `agenda` (in `Documents`) and `plan` (in `Access`) are chosen at the start
  and never change: the operations a behaviour may be made of. With all of them
  in one the runs and the proofs are about all behaviours; the runs take one
  combination at a time, the proofs any.

## 3. The runs

| run | instance | shows |
|---|---|---|
| `stock_shared` | two workers, two products, five transactions: a receipt, sales of both products in either order, a sale with two lines of one product, a return | balances never negative; equal to the ledger for every product on which no two transactions overlapped; the ledger moves by whole requests; without a lost update the steps implement `StockBook`; every transaction ends, deadlocks included |
| `stock_drift` | the same | *violated*: `products.schema.ts:19` says the balance is kept in sync |
| `sales_retries` | two workers, three requests or returns: a queued sale with two cards that redeems a point, sent by both and again; online sales of the same customer, one that earns a point and one that redeems two; charges answered in any order, before or after their attempt is over | one sale per key; answers name recorded sales, with every card approved; no charge sent once a sale is recorded; a redemption leaves no customer below zero unless another or a return overlapped it; points explained by the recorded sales and the returns; every request answered |
| `sales_charged` | one card sale and its retry | *violated*: the README's claim that a resend charges once |
| `queue_sync` | two flushes, two sales, two faults beside those of an offline device | `SaleDelivery` implemented; a cart sold once unless it was left in doubt; pending sales settled, but for those in `missed` (see Fairness) |
| `queue_attention` | the same | *violated*: "needs_attention: the server ... rejected the sale" |
| `returns_overlap` | two workers, four requests among six returns, one sale of three units | returned within sold, refunds within rounding, canceled exactly when all came back, live notes flagged |
| `returns_card` | one worker, the same sale, 76 of its 126 cents paid by card | *violated*: refunds on the card stay within what it charged (two returns of 51 cents, both recorded) |
| `cash_tills` | two workers, four requests of one user among opens, closes with different amounts, movements, sales, new stores and deactivations of either of two stores; the plan changes at any time; two connections | one open session per user, a count that is final, a last active store, and sessions in usable stores, each unless two requests that could break it really overlapped; a closed session takes the entries in flight at its closing and no more; every request answered unless the pool is exhausted for good |
| `back_office` | two requests on two documents, two pulls of two orders (one fetched twice), two clerks on two rows, two products of which one is tracked, two sales over two days of three ticks; ten agendas | posted units and payments are those of the document's status; nothing decided changes; a count finalized leaves the shelf's balance; orders whole or not at all; reports of one period agree; history outlives the rows removed; `BackInv` |
| `access_billing` | two requests, two people, one key, two sessions, one link, two invites, a lock after two failures; one subscription, two requests of owners, periods, grace and trial of one day, four days, three charges; eight plans | sessions end with the access they stem from; a tenant stands for what it paid; `PlatformInv`, whose parts say that tokens, links and invites are used once (`UsedOnce`), locks follow failures (`LockFollowsFailures`), an owner remains (`OwnersRemain`) and no override delegates access |
| `owners_meet` | one request at a time, two owners | *violated*: the README's promise that a tenant is never left without an active owner |

### Why the bounds are enough

Each hazard listed is a race of two requests, at most with a third that comes
later (a retry, or a request that sees the result), and a request has at most
two lines or cards that can differ. Three overlapping requests add no kind of
step: the guards look at one other worker at a time. The theorems cover the
rest for the properties they state.

`back_office` and `access_billing` take one agenda, or plan, at a time: a set of
operations that touch the same rows. `BackOffice` has ten: orders; counts;
entries; a receipt during a count; a product switched off during a count; a
channel or a listing that changes during a pull; a receipt during a pull; returns
during a report; rates that change during a report; the registers. `Access` has
eight: logins, refreshes and resets; logins and deactivations; roles and
deactivations; registration, then refreshes and resets; invites; keys while the
trial runs out; overrides; the trial and the subscription. Two operations in no
common agenda write no row in common, or the proofs cover them together. Requests
of any kind have the names `w1` and `w2`, the ids of sales and of rows `i1` and
`i2`; they are interchangeable, and these runs use that symmetry (they check safety
only).

Time: four days of one moment hold a trial, a period, the grace after it, and
the run in which it is over by one day (`GraceExpired` is strict); a day of three
ticks has a first tick, a last one and one between, which is what the
rounding of a period to days (`WindowDays`) tells apart.

Deadlock is checked except in the runs of `SaleReturns`, `BackOffice` and
`Platform`: when the bounds are used up nothing is left to do there. (In
`CashSessions` the plan can always change, so that a deadlock shows as a request
never answered.)

### The violated claims

Five things the repository says of itself do not hold. Each has a run that shows
it, a finding in `PROJECT.json`, and, beside it, what does hold:

| claim | what holds |
|---|---|
| the balance is kept in sync (`KeptInSync`) | `InSyncUnlessRaced`: the drift is exactly the lost update |
| a resend charges once (`ChargedOnce`) | `NoChargeSentOnceRecorded`: what is charged twice was sent by an attempt that failed, before the sale was recorded |
| needs_attention means rejected (`AttentionMeansRejected`) | `ImplementsSaleDelivery` |
| card refunds are covered (`CardRefundsCovered`) | `ReturnedWithinSold`, `RefundWithinRounding`; in `IInv`, `CardRefundsMade`: what is recorded as refunded on the card, the provider has refunded |
| an active owner stays (`ActiveOwnerStays`) | `OwnersRemain`, in `PlatformInv`: an owner stays, active or not, unless two requests met |

Noted while modelling, without a run:

* `stock-counts.service.ts:158` and `README.pt-BR.md:49` say that finalizing a
  count undoes no sale made in the middle of it. That holds of sales before the
  product is tallied, which is what `FinalizeSetsShelf` says; the adjustment at line
  162 makes the balance what was counted, so a unit sold after its tally is put back.
* `README.pt-BR.md:116` averages demand over the days of the period;
  `reports.service.ts:466` (`WindowDays`) has one day more when both ends are given,
  and is right by default.
* `finance-entries.schema.ts:22` says that an entry has the counterparty of its
  type only; `create` checks it, `update` (`finance.service.ts:81`, `Edit`) does not.
* `README.pt-BR.md:174` says that attempts during a lock extend it, while the code
  refuses them before it counts (`users.service.ts:47-52` explains the change).
* `commission_settings.active` is shown by the panel and read by no report; a sole
  product with all of the revenue is of class C; a listing whose last sync failed
  still resolves orders; in a long period a product that sells little rounds to an
  average of zero and is not listed for reorder.

### Fairness

* `StockLedger`, `Sales`: strong fairness of each worker's own steps; in `Sales` also
  of the provider's answer to a charge its attempt waits for, approval or refusal.
  A charge nobody waits for any more need never be answered. The event
  loop runs a handler whose query has been answered, and PostgreSQL grants row
  and key locks in order of arrival, so a waiter that is enabled again and again
  gets its turn. Failures and new requests are never required.
* `CashSessions`: the same; who waits for a connection of the pool gets one in
  turn. `StoresService` reads the plan on a second connection while its own
  transaction holds the first (`stores.service.ts:34-44`, `55-76`). The run has
  `PoolSize = 2`, so that two such requests wait for each other, each with its
  first connection in hand (`PoolExhausted`), and others for either of them:
  `EveryRequestAnswered` says that this is the only way a request stays
  unanswered. The code answers while fewer requests than the pool has connections
  (ten by default, `drizzle.provider.ts:19` sets no size and no time-out) are in
  that place together.
* `OfflineQueue`: weak fairness of the page's handlers and of the server's
  answers, and of reconnection, which is what the page's own text promises
  ("quando a internet voltar"). Nothing schedules a load of the page, and none is
  assumed. A sale that is queued, or that a flush gives up, while the browser says
  it is online waits for the next change of `isOnline` or the next load
  (`page.tsx:170-176` has no timer), and these may not come: `missed` holds such
  sales until the device goes offline or a flush lists them, and
  `PendingIsSettled` is about the others, and about these from then on. The mutant `ReconnectIdle`, an effect
  that does not depend on `isOnline`, shows what the reconnection is for. Failures
  while the device counts as online are bounded by `MaxFaults`; requests fail
  freely while it is offline.
* `BackOffice`, `Platform`: none. Their handlers wait for nothing but a row
  another transaction holds; that such waits end is shown in `StockLedger`. A
  nightly job may be late or die, and nothing else in the code makes up for it.

## 4. The proofs

| theorem | module |
|---|---|
| `SpecIInv`, `SpecNoNegativeStock`, `SpecInSyncUnlessRaced`, `DisjointKeptInSync`, `SpecRacelessStepsImplementBook`, `SpecLedgerMovesByWholeRequests`, `DisjointImplementsBook` | `StockLedger_proofs` |
| `SpecIInv`, `SpecOneSalePerKey`, `SpecOkMeansRecorded`, `SpecPaidInFull`, `SpecRedeemedWithinBalance`, `SpecNoChargeSentOnceRecorded`, `SpecPointsExplainedBySales` | `Sales_proofs` |
| `SpecIInv`, `SpecReturnedWithinSold`, `SpecCanceledWhenAllReturned`, `SpecLiveNoteIsFlagged`, `SpecRefundWithinRounding` | `SaleReturns_proofs` |
| `SpecIInv`, `SpecOneOpenPerUser`, `SpecLateEntriesWereInFlight`, `SpecLastStoreStays`, `SpecCountIsFinal`, `SpecOpensWhereUsable` | `CashSessions_proofs` |
| `SpecIInv`, `SpecCartSoldOnce`, `SpecImplementsSaleDelivery` | `OfflineQueue_proofs` |
| `SpecDocInv`, `SpecEffectsMatchStatus`, `SpecDecidedIsFrozen`, `SpecFinalizeSetsShelf` | `BackOffice_proofs`, of `Documents` |
| `SpecRegInv`, `SpecHistoryOutlivesRows` | `BackOffice_proofs`, of `Registry` |
| `SpecBackInv`, `SpecOrdersAllOrNothing`, `SpecReportsAgree`, `BackEffectsMatchStatus`, `BackDecidedIsFrozen`, `BackFinalizeSetsShelf`, `BackHistoryOutlivesRows` | `BackOffice_proofs` |
| `SpecBillingInv`, `SpecStandingIsEarned`, `SpecSessionsEndWithAccess`, `SpecUsedOnce`, `SpecLockFollowsFailures`, `SpecOwnersRemain`, `SpecPlatformInv` | `Platform_proofs` |
| `LeastNumber`, `NumberInduction`, `SubsetInduction`, and of sums `SumSame`, `SumUpdate`, `SumByGroup`, `SumExchange`, `SumPadded`, `SumWithin` and others | `SumTheorems` |

The only assumptions are the named ASSUMEs of the modules, which TLC evaluates:
the types of the constants, and that what a sum runs over (items, products, sales,
entries, sellers) is a finite set.
Every safety property of a passing run, invariant, action property or refinement,
is a theorem; the four liveness properties are not.
Each `IInv`, and `DocInv`, `RegInv`, `MarketInv`, `RepInv`, `BackInv`, is in its component's
module, is checked by TLC as an invariant of a run, and is inductive. Two
invariants of `Platform` are strengthened in `Platform_proofs` (`EarnedInv`,
`CoreInv`).

* **Stock.** Two facts carry the proof: a row has one uncommitted version at
  most (`RowLocks`), and on a row nobody raced the uncommitted version is the
  committed balance plus the worker's own movements (`DraftFollowsMoves`). A
  value read is fresh until another worker commits the row (`ReadIsFresh`), and
  that commit is what puts the row in `raced`. `DisjointKeptInSync` shows that
  where requests in flight share no product the documented claim is true.
  What a worker has moved is what the lines of its request up to the one at hand
  move, and on a row nobody raced each prefix of them left the balance at zero or
  more (`LinesApplied`): so a COMMIT is one `Apply` of `StockBook`, with the
  guard of `Apply` true of the balance committed then, and the ledger moves by
  the whole of a request. `DisjointImplementsBook` puts them together: without a
  shared product the ledger is the stock book.
* **Sales.** A key is held by one inserter at a time and by none once a sale is
  recorded under it (`KeysHeldOnce`): the unique index. From it follow
  `OneSalePerKey` and, as an action property, `NoChargeSentOnceRecorded`: who sends
  charges has the row of the key inserted. Nothing of the kind holds of approvals,
  because a refusal ends an attempt while its other charges are on their way. A
  sale about to commit has its cards approved (`CardsApproved`), and the points it
  redeems are covered unless a redemption or a return came in between, which is
  what puts it in `overtaken` (`RedeemCovered`); so its COMMIT leaves the customer
  at zero or more (`RedeemedWithinBalance`). A return looks at no balance
  (`sale-returns.service.ts:158-170`) and may leave it below. These are
  `Keyed`; `Counted` adds that a sale at work has a number no recorded sale has
  (`AttemptIsNew`), so that its COMMIT adds one sale to the sum
  `PointsExplainedBySales` is about, and a rollback none.
* **Offline queue.** A key is drawn for one cart (`Drawn`). From the post to the
  end of the mutation the last sale is the cart on the screen, and until it is
  queued its id is nowhere else (`TillFits`). A sale is `Live` when it is on the
  server or something may still bring it there, a stray request or a lost answer
  included; of a cart one sale at most is live, and none when the cart may be
  finalized again, unless the cart is doubtful (`OneLiveSalePerCart`).
  `CartSoldOnce` is the part of it about recorded sales. The refinement maps
  each step to one of `SaleDelivery` or to none, from the same invariant: what a
  flush removes it has had answered, and what a discard removes is shown as
  refused.
* **Returns.** What a return read is what is committed, unless a return
  committed in between (`SeenIsFresh`); what it found about the note still holds
  unless a retry came late (`NoteSettled`). `RefundWithinRounding` is not inductive: it
  compares the refunds with what the sale received, however little of it came
  back. `PaidInProportion` compares them with the share of the returned units
  (`Worth`) in what was paid; each line adds its units to one side and their
  rounded share to the other. When no return overlapped no more came back than
  was sold, and the worth of that is the subtotal at most. `CardRefundsMade` counts,
  beside the refunds on record, those of transactions still open; what the provider
  refunded is that much or more, as a rollback leaves its refund behind.
* **Cash sessions.** What a request has read still holds at its write, or the
  history names who changed it: an open finds its user without a session
  (`OpensAlone`) and its store usable (`StoreChecked`), a close finds its session
  open (`ClosesOnce`), an entry finds it open or was in flight at its closing
  (`EntersOpen`), and an update that takes a store away leaves another
  (`LeavesAnother`). The proofs are for any users, stores, requests and pool:
  safety does not depend on the number of connections.
* **Documents.** A request past its check finds its document open, unless the
  document was decided while it was in flight, which is what puts it in
  `contested`. So a document that is not contested takes effect from an open one,
  once, and nothing moves it afterwards. For a count the same invariant keeps that
  what was tallied is what was on the shelf while nothing moved (`shifts`).
* **Registry.** A removal past its check finds its row as the check left it, free
  of what would keep it, unless a reference was made in between (`Free`). Erasures
  are in the audit log because the two rows are written by one transaction.
* **Back office.** An order of the channel is in at most one pull or in the table;
  no product is held by two pulls; no pull holds more than there is, because
  documents wait for the rows it has written (`MarketInv`). Each part's invariant
  is kept by its own steps, and the composition asks in addition that a commit of
  a pull, which moves stock and shelf, keeps that of the documents
  (`CommitDocInv`), and that a step of a document, which may move stock no pull
  holds, keeps that of the pulls (`StockMarketInv`).
* **Reports.** The figures are sums over whatever was sold, returned and due, so
  `SpecReportsAgree` is about sums: a ranking is a sum by groups (`SumByGroup`),
  the products against the sales a sum of a table by columns and by rows
  (`SumExchange`), a curve of classes a sum over a growing set (`SumWithin`),
  commissions a bound on each row (`SumAtMost`). The rest is arithmetic: the ticket
  is the revenue to half a cent a sale (`RoundedOff`), no price is suggested below
  the cost (`SuggestedAboveCost`), a sale exported is short of its subtotal by its
  discount and the points redeemed (`ShortByRedeemed`), and what is overdue is what
  the export of the days before has as pending (`OverdueExported`). Of the behaviour it needs
  `RepInv`: what a report has read is of sales that are there, no more came back
  than was sold and no money for none of it, a total is the subtotal less discount
  and points (`Priced`), from read to read the revenue can only fall
  (`RefundOfUnits` is never negative), and an entry that is paid has its date
  (`PaidIsDated`), also when it was decided by two requests at once.
* **Billing.** For a tenant whose writers have not crossed, `EarnedInv` says: the
  subscription is for the period of the last paid invoice; its status follows
  from the tries after it; the job holds the row as it is; each charge is for a
  period after the one before, and recorded or about to be. `StandingIsEarned`
  alone is not inductive: it needs that what the job read in the evening is what
  it writes over at night. It counts the charges of the job; the one `subscribe` makes
  before its transaction (`billing.service.ts:71`) leaves no trace when that fails,
  and is not counted.
* **Access.** `CoreInv` says: every row names an account there is; a session, and a
  request about to issue one, is of the present `epoch` of its account or
  strayed; a session, link or address has one request at it at most, unless two met
  (`doubled`); what a request read of an account has a fitting lock; and for each
  request judged to take an owner away another stays, unless two such requests
  met (`raced`). `LockFollowsFailures` is about one lock: once it has ended, more
  failures are past the threshold and set no other, and that the account is locked
  again is neither so nor said. `AccessIsNotDelegated` follows from the types: no override is
  about access, so `May` is what the role gives.
* **Platform.** Each step is a step of one side that leaves the other as it is
  (`PlatformAccess`, `PlatformBills`), except the registration, which is both.

**Sums, and induction.** A sum over a finite set is a recursion, and the
library's induction theorems take an operator the provers cannot instantiate.
`SumTheorems` states induction over sets instead: of a set of numbers, or of
subsets of a finite set, that holds every element whose predecessors it holds
(`NumberInduction`, `SubsetInduction`), which follows from `WFMin`, a theorem
with no operator in it. A proof by induction then names the set of those for which the
statement holds. The same gives the equation of `SumFunctionOnSet`, which
the community module defines by a `CHOOSE` of a recursive function (`SumsExist`,
`SumsEquation`), and from it how a sum changes with a term, and how sums
over groups, tables and parts relate.

Model-checked only: liveness (`EveryTxEnds`, `EveryRequestAnswered` of sales and
of cash sessions, `PendingIsSettled`): fairness and ENABLED are beyond the
provers here.

## 5. Not modelled

* **The web panel**, but for the point of sale: forms and lists that fetch what
  they show and send what was typed, and keep nothing between loads. About half
  of the repository's TypeScript is of this kind; there is no state in it that a
  model could go wrong with.
* **Row-level security and other tenants**: a model is one tenant. `Billing`
  is for any set of tenants.
* **Prices and names of the catalogue**, the creation of a marketplace channel,
  and a product that starts or stops being tracked: single statements over rows.
* **Email** (a call that may fail), **health** (a constant answer), audit rows
  nothing depends on, the layout of exports.
* **The rate limit by address**, hashes and the expiry of tokens other than by
  use.

## 6. Plan

All modules of section 2 are done. What would come next:

1. the sale and the return as documents in `BackOffice`, so that the movements of
   `Sales` meet those of a pull in one model;
2. what the offline queue takes from the server as an abstract specification that
   `Sales` is shown to implement, in place of the two theorems it rests on now;
3. the documented claims that fail, under the conditions that make them true, as
   `DisjointKeptInSync` has it for stock.
