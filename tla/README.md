# TLA+ for erp71

TLA+ specifications of the parts of this multi-tenant ERP whose correctness hangs on
interleavings, crashes and retries, the TLC configurations that check them on small
instances, and TLAPS proofs of what matters most for every size.

The backend is a NestJS application over PostgreSQL through Prisma. Three facts shape every
model here:

- Several instances of the API, and its cron jobs, run at once. Any two requests may interleave
  between any two `await`s.
- A Prisma interactive transaction runs at READ COMMITTED unless it says otherwise (accounting
  does). It reads without locks; a row it writes is locked until it commits; an `updateMany` with
  a condition in its `where` looks at that condition again once it holds the row.
- Code outside `$transaction` commits statement by statement, and a process can die between two.

The browser side has the same shape once: the tabs of one browser share stored credentials and a
lock, and any of them may be suspended, lose its connection or be closed between two `await`s.

## 1. Inventory

| component | state | operations | what is hard | what makes it correct |
|---|---|---|---|---|
| **Warehouse transfers** (`warehouse-transfers/`) | a transfer, its lines, its stock movements | create, update, remove, send, approve, reject, receive | handlers read the status first and write by id later; only approve and reject claim the row | stock and document agree, nothing leaves without approval, no over-receipt, goods conserved |
| **Stock movements** (`database/inventory.utils.ts`) | `product_stocks`, `inventory_movements` | `applyInventoryMovement` | last units; several lines in one transaction | never below zero unless the tenant allows it; movement rows add up to the balance |
| **Campaign dispatch** (`crm-campaigns/`) | campaign, recipients with `claimed_at` | queue, drain pass, sweep, heartbeat, complete, cancel, update, remove | overlapping passes, slow providers, deaths, cancels mid-batch | nobody is messaged twice, totals add up, a campaign ends |
| **Manual payments** (`credit-topups/`, `activation/`) | top-up and activation requests, billing events, subscription | submit, approve, reject | racing submissions of one receipt, racing admins, statements outside transactions | one receipt buys one thing, one approval grants once |
| **Prepaid balance** (`sms/sms-credit.service.ts`) | credits and their ledger | consume, grant | racing sends, death between balance and ledger | never negative; the ledger explains the balance |
| **Sales and returns** (`sales/`, `sales-returns/`) | sale, lines, payments, returns, stock, vouchers | create, from quotations, draft, finalize, update, cancel, remove, return, edit and delete a return | status read without a lock; impacts undone from ledger rows, not from the document | each impact posted once and reversed once; no over-return |
| **Customer account** (`customers/`) | `due_balance`, the ledger rows behind it, the credit limit | pay, pay out, write off, edit, delete, reverse | the balance is written as read plus a change | balance, ledger and Accounts Receivable agree |
| Document numbering | `document_sequences` | issueDocumentNumber | concurrent first use; numbers typed by hand | no duplicates, no gaps |
| Product cost pool | weighted average per product | applyCostMovement | order of receipts and issues | value and quantity move together |
| Cashier sessions | sessions, unique open keys | open, close, cash in and out | a sale while closing | one open session per till and per cashier; the frozen count matches |
| **Sign-in sessions** (`auth/`, `database/auth-cache.service.ts`) | refresh-token families, token version, its cached row | login, refresh, log out one session, log out everywhere | rotation racing revocation; reads in flight across an invalidation | a family signed out stays out, a sign-out takes effect at once |
| **Browser session** (frontend `lib/`) | stored credentials, the renewal lock, tabs | request, renew, sign in and out | tabs racing on one token, lost answers, outages | no replay, nobody signed out for want of an answer, no request waits for ever |
| Circuit breaker | state, failures | execute | concurrent calls, late answers | one trial when half open |
| Stock takes, fund transfers, loyalty | sessions, vouchers, points | post, receive, redeem | check, then act | once only |
| Offline point of sale (frontend) | pending sales in IndexedDB | save, sync, remove | lost answer, sent again | each sale is booked once |
| Accounting beyond posting once, billing, purchases, payroll, referrals, backup, AI, storefront, reports | | | | see section 7 |

Interactions: transfers, sales, returns, purchases and stock takes all move stock through
`applyInventoryMovement`, inside their own transaction. Campaign delivery calls
`SmsService`/`WhatsAppService`/`EmailService`, which take credits from the prepaid balance before
they call a provider. A top-up approval grants credits in its own transaction. An activation
approval calls `BillingService.applySubscriptionChange`. The cron drives campaign dispatch; the
queue endpoint drives it too.

The hazards each of these is exposed to are listed, at their lines, in `PROJECT.json`.

## 2. Modules

| module | what it is |
|---|---|
| `WarehouseTransfers` | transfers and the stock movements they make |
| `GoodsInTransit` | what a transfer promises, with the paperwork left out |
| `TransferProperties` | invariants, action property, and the refinement of `GoodsInTransit` |
| `TransferProofs` | types, ledger, approval and receipts, proved |
| `TransferPromiseProofs` | completeness of receipts, no step back, conservation of goods, and the refinement of `GoodsInTransit`, proved |
| `CampaignDispatch`, `CampaignProperties` | sending one campaign, and what it must guarantee |
| `CampaignProofs` | types, claims, no second message, finality, cancellation and totals, proved |
| `ManualPayments`, `PaymentProperties` | top-ups, activations and the balance, and what they must guarantee |
| `PaymentProofs` | types, single grant, single use of a receipt, finality, the balance explained by its ledger, proved |
| `CustomerSales`, `SalesProperties` | a customer's sales, returns and payments, and the agreement of shelf, account and books |
| `SalesProofs` | every property of `SalesProperties`, proved |
| `SumLemmas` | sums over finite sets, and how they change: used by the three modules above that prove about totals |
| `SignInSessions`, `SessionProperties` | refresh tokens, the token version behind its cache, and the tabs that renew, and what they must guarantee |
| `SessionProofs` | types, sign-outs that stick and take effect, proved |
| `RenewalProofs` | the renewal lock, no token presented twice, and nobody signed out by mistake, proved |
| `MCTransfers`, `MCCampaign`, `MCPayments`, `MCSales`, `MCSessions` | values and symmetry for TLC |

Definitions marked "Broken" are plausible bugs (a guard dropped, a status not matched
again, a heartbeat left out). They are part of no specification. Each stands in for the
definition below it to show that a property notices.

### 2.1 Warehouse transfers

`transfer[t]` is the row with its lines, `stock` the balances, `moved[t]` the sum of the movement
rows written for `t`, `request[r]` a handler in the middle of its transaction.

| action | code |
|---|---|
| `Create` | `create`: branch columns and status derived from the warehouses, stock taken if SENT |
| `Begin` | the first read of update, remove, send, approve, reject, receive, and the refusal by status |
| `Send`, `Approve`, `Reject`, `Remove`, `Update` | the writes and the commit of each handler |
| `ReceiveLines`, `ReceiveRefresh`, `ReceiveCommit` | receive: lines and stock, the read back, the status and the commit |
| `Abort` | any throw or crash: nothing is written |

Why a handler is two steps. It writes only rows it then holds until it commits, so another
transaction sees either none or all of its writes and waits if it wants the same rows: the writes
move together to the commit. `receive` is the exception, since it reads again between its writes
and that read can miss what another receive has not committed, so it has three steps, and the rows
it has locked are honoured by `LinesFree` and `StockFree`. Two transactions that lock in opposite
orders deadlock and PostgreSQL aborts one, which is `Abort`.

`Rewritten` is the one subtle READ COMMITTED effect: `deleteMany` takes its snapshot when the
statement starts, so lines another rewrite commits while it waits are not deleted and stay beside
the new ones, unless the unique index on (transfer, product) refuses.

Quantities are small numbers. `autoPostFromRules` is left out because it books nothing for
these transfers; a locked fiscal period, which makes it throw, is an `Abort`.

`Serial` names an assumption about the environment: the kinds of request that do not overlap
another on the same transfer. It is there because the code locks for some kinds and not for
others. With `Serial` empty anything may overlap.

### 2.2 Campaign dispatch

`row[r]` is the recipient row of customer `r`: its status, the pass whose stamp it holds, and
the age of the stamp. `pass[p]` is a drain pass, `user[u]` a caller of queue, cancel, update or
remove, `out[r]` the messages the provider took.

A pass goes sweep, read, claim, read the batch, then for each recipient: check, deliver, record;
and at last count and finish, each step one database call or one delivery. `Proceed` joins the
status check and the heartbeat, which follow each other: a cancellation flips the rows before
it touches the campaign, so one that lands between them is seen by the heartbeat as rows no longer
held, and ends the pass as the status would have. `Deliver` keeps two things apart, whether the
provider took the message and whether the call returned: `SmsService.sendSms` answers
`sent: true` without an API key, with the breaker open and when the request fails
(`sms.service.ts` 134-137, 161-164), and a call can time out on a message that went. So SENT on a
row means that `deliver` returned and FAILED that it threw, and no property reads more into them;
`out` counts what the provider took. `CountOutcomes` joins `outstanding` and the
grouped counts: with nothing outstanding no row's outcome changes between them.

Time is counted in heartbeats: `Heartbeat = 1`, and `Stale` says how many make a claim stale (3
in the code, 2 in the runs, which is tighter). `Tick` lets time pass only while every working pass
returns to its heartbeat check within `MaxDelivery`; the code's providers time out after 10 to
35 seconds, against a heartbeat of five minutes. A claim is identified by the pass that made it
rather than by a millisecond stamp.

A recipient has a row of its own because of `@@unique([campaign_id, customer_id])` and
`@@unique([campaign_id, email])`; the set of customers a segment resolves to does not change.

### 2.3 Manual payments

`topup`, `activation` are the two tables; `granted[q]` is what the ledger rows of a top-up add up
to; `posted` the claims with a billing event; `balance` and `booked` the balance and the sum of
its ledger; `lost` what dead calls moved and never booked; `call[w]` a worker between two statements.

Creating, approving and rejecting a top-up each commit in one step, as they run in a transaction.
Everything else is one step per statement: three for approving an activation, two for a send and
for an admin grant. `GiveUp` is a refusal, a throw or a death; what was committed stays.

Both kinds of claim can be paid by bKash, and only that method is modelled, because it is
the one they share. An admin may correct the credits of a top-up, so the amount granted is chosen
at approval. `balance_after`, which a ledger row repeats, is left out.

### 2.4 Customer sales

`sale[s]` is the row with its lines and payments summed, `ret[x]` a return, `entry[e]` a payment,
payout or write-off, `owed[s]` the ledger rows that reference a sale (its credit, and its receipt
as a row of its own), `adjusted[x]` what those of a return add up to, `due` the balance the handlers move by hand, `voucher[d]` the postings of a
document by the leg that is part of their idempotency key, `request[r]` a handler between its
first read and its transaction's commit.

| actions | code |
|---|---|
| `CreateDraft`, `CreatePaid`, `BeginCreate` and `CreateOnCredit` | `create`; with something kept as due it reads the balance before the transaction |
| `Select`, `BeginBill`, `Bill` | `createFromQuotations`: the selection, then one claim per quotation |
| `BeginFinalize`/`FinalizeDraft`, `BeginEdit`/`Update`, `BeginCancel`/`Cancel`, `BeginRemove`/`Remove` | the handlers of the same names |
| `BeginReturn`/`SaveReturn`, `BeginEditReturn`/`EditReturn`, `BeginUnreturn`/`Unreturn` | `SalesReturnsService.create`, `update`, `remove` |
| `BeginEntry` with `Pay`, `WriteOff`, `Unpay` | `recordCreditPayment`, `updateCreditPayment`, `writeOffDebt`, `deleteCreditPayment`, `reverseWriteOff` |
| `BeginReceipt` with `EditReceipt`, `Unreceipt` | `updateCreditPayment` and `deleteCreditPayment` of the receipt of an overpaid sale |
| `Abort` | any refusal, throw or crash: nothing is written |

A handler reads first and writes later, so it is two steps; within the transaction the update of
the customer's `total_spent` locks the customer row, and what is read of the account after it is
current. `UnlinkReturns` is what the schema does when a sale's lines are replaced: the lines of
its returns lose their reference (`onDelete: SetNull`), and `FinishAndBreak` that a return in
flight then fails on the foreign key. `batch` marks the sales `createFromQuotations` made; the
program keeps no such column, and nothing but a property reads it.

The receipt of an overpaid sale is an ordinary PAYMENT row that happens to reference the sale, and
the payments page edits and deletes it like any other; two services then own one row. The sale
rewrites its amount and keeps the rest (`Restated`), leaves its vouchers alone when neither the
amount nor the tenders changed, and, when it drops the row, voids the vouchers of a PAYMENT only
(`DropReceipt`). What a dropped row leaves posted is kept in the leg `stray`. A payment may carry a
discount, which settles that much more of the due and posts on its own leg (`RowDelta`,
`PaymentVouchers`).

One product at a price of one, so an amount is a quantity: a sale of two with one paid has one
due. The tenant has no loyalty programme, refuses negative stock, has a rule for every posting
and no closed period.

Seven constants name what the environment is assumed to do, each because the code does not
guard against the contrary, and with any of them lifted the run fails:

| constant | in the run | what the code does otherwise |
|---|---|---|
| `Alone` | handlers that write `due_balance` as a value they read overlap no other handler | an update in between is lost |
| `OnePerSale` | two requests do not overlap on one sale | two cancellations both reverse |
| `Offered` | returns are made on completed sales | a draft or cancelled sale is accepted |
| `EditsReturned` | a sale that has returns is not edited | the returns are forgotten, and the sale's goods are returnable again |
| `Asked` | an edit of a posted sale keeps it completed | the status the request names is written, DRAFT included, and nothing is reversed |
| `Tendered` | a return says how it was refunded | the guess credits Accounts Receivable with the whole total and the balance with at most what is owed |
| `ReceiptEdits` | the receipt of a sale stays a payment, and is given no discount | see below |

Two sequences of legal calls by one user break the books through that receipt, and `ReceiptEdits`
keeps both out of the passing run. Each was run with TLC:

- A sale is overpaid, its receipt is turned into a PAYOUT, and the sale is edited or cancelled: the row
  is deleted, its voucher is not (`sales.service.ts` 2464, 2573). `PostedInFull` and
  `ReceivableFollowsLedger` fail, in six steps. The comment where the receipt is written (1024-1027)
  says that it is linked to the sale "so cancelling the sale takes it back too".
- A sale on credit and an overpaid one; the receipt of the latter is given a discount, and its sale
  is edited. `restateSaleLedger` counts the discount in what the sale's rows had moved
  (2363), but not in the running balance it compares that with (2411, 2469), so the due goes up by
  the discount while the row keeps it; when the amount or the tenders change, its vouchers are
  voided and only the money is posted again. `DueFollowsLedger` and `ReceivableFollowsLedger` fail, in eight steps.

With a payout the run has no end, since what strays adds up; the properties that do not depend on it
were checked over 1.6 million states.

### 2.5 Sign-in sessions

`token` is `refresh_tokens`, `version` is `users.token_version`, `leaving` how far a sign-out
everywhere has come (bump, invalidate, revoke, three statements), `cache` and `load` the
entry of `AuthCacheService` and the reads of the user row in flight, `handler[h]` a refresh on the
server, `storage` the browser's localStorage, `queue` the Web Lock's, `tab[t]` what a tab is doing.
`barred`, `ended` and `spent` remember, for the properties only, that a request should be refused,
which families were signed out and which tokens the browser has replaced.

| actions | code |
|---|---|
| `Judge`, `Rotate`, `Sign` | `RefreshTokenService.rotate` and `AuthService.refreshSession`: check, successor, signature |
| `EndSession` | `logoutSession` |
| `Bump`, `Invalidate`, `RevokeAll` | `logout` and `changePassword` |
| `Arrive`, `LoadReads`, `LoadEnds`, `LoadFails` | `JwtStrategy.validate` through `AuthCacheService.remember` |
| `Request`, `Receive`, `LoseRequest` | `requestWithAuth` and `renewSession` |
| `Enter`, `Deliver`, `Fail`, `Drop` | `performRenewal` under the lock, `exchangeRefreshToken` and its four outcomes |
| `SignOutHere`, `SignIn`, `Reopen` | `clearAuthSession`, login with `storeAuthResponse`, a page opened again |

What `remember` caches is the promise, so an entry is a load in flight (`by`) or a value (`row`),
every request that finds the load shares it, and a load that ends writes nothing: that is what
the cache's comment about dropped entries relies on, and `LoadEndsCaching` is the other way.

Time is left out: an access token may near its end or be over whenever it is looked at, a refresh
token's days may be over at the check, a cache entry may have expired. So a token is only live or
over, and `version` tells access tokens apart.

`Quiet` names what is assumed to wait. `"revoke"`: no sign-out comes between `rotate`'s check and
its successor; without it the successor is live in a family just signed out. `"signIn"`: nobody
signs in again while a request of another tab is in flight; without it a late 401 in that tab
clears the new session, since `handleExpiredSession` compares no token.

## 3. What the runs check

| run | instance | result |
|---|---|---|
| `transfers_decisions` | 2 requests, 2 transfers, 3 warehouses in 2 branches, a stocked product and a service, `Serial` = all but approve and reject | all eight properties hold |
| `transfers_delete` | 2 requests, 1 transfer, `Serial = {}` | `DeletedNeverMoved` fails |
| `transfers_bypass` | the same | `ApprovalBeforeDispatch` fails |
| `transfers_receipts` | `Serial` = update, remove, send: receipts race | `NoOverReceipt` fails |
| `campaign_drain` | 2 passes, 1 user, 2 customers, 1 death, upload or segment | all eight properties hold |
| `campaign_callers` | 1 pass, 1 user, the cron, 2 customers, batch of 1, 1 death | queueing twice at once sends to nobody twice, keeps the totals and final outcomes |
| `campaign_cancel` | 1 pass, 2 users | `CancelledStaysCancelled` fails |
| `campaign_scheduled` | 1 pass, the cron, 1 death, a segment | `ScheduledIsFired` fails |
| `payments_decisions` | 2 workers, 2 top-ups, 2 activations, 2 receipts | all six properties hold, and no deadlock |
| `payments_receipt` | the same | `ReceiptServesOnePurpose` fails |
| `sales_account` | 2 requests, 2 sales, 2 returns, 1 payment or write-off, 1 quotation, 3 in stock, credit limit 2 | all eight properties hold |
| `sessions_tabs` | 2 tabs, 1 exchange at a time on the server, 3 tokens, 1 sign-out everywhere | all six properties hold |

What the passing runs show:

- **Transfers.** `LedgerMatchesDocument`: movements add up to what the row says, for every
  status. `ApprovalBeforeDispatch`, `NoOverReceipt`, `ReceivedWhenAllArrived`, `GoodsConserved`.
  `ForwardOnly`: no step takes a transfer back. `KeepsPromise`: every behaviour, read through
  `Phase` and `Transit`, is one of `GoodsInTransit`. So claiming the row in approve and reject
  is enough for those two, even racing each other on stock that suffices for one transfer only.
- **Campaigns.** `NobodySentTwice` (a second message needs a death), `LiveClaimIsHeld` (the sweep
  takes nothing from a live pass), `CompletedAddsUp`, `SoleSender` (two passes side by side never have
  the same recipient left to send to), `OutcomeIsFinal`,
  `CancelledStaysCancelled` for a single user racing passes, and `DrainEnds`. Nothing is said of
  what SENT means: see section 2.2.
- **Payments.** `GrantedIffApproved`, `ReceiptBuysOnce`, `SwitchedOnByReview`, `DecisionsFinal`,
  `WalletReconciles`.
- **Sales.** `StockFollowsDocuments`, `DueFollowsLedger`, `ReceivableFollowsLedger` and
  `PostedInFull`: after any sequence of sales, edits, refunds, payments, discounts, reversals and deletions,
  an overpaid sale's receipt edited or deleted behind its back included, each of shelf, balance, ledger and vouchers follows from the documents that are left.
  `NothingReturnedTwice`, `BilledOnceByBatch`, and `LifeMovesForward` for every step.
- **Sessions.** `SignOutTakesEffect` and `SignOutReachesEveryCopy`: a sign-out everywhere is
  obeyed by the next request, whatever reads were in flight, and a sign-out of one sign-in leaves
  none of its tokens live, successors whose answers were lost included. `NoReplay`: a tab that waited for
  the lock never presents the token whose successor another tab has stored. `ClearedOnlyWhenOver`: no outage, rate
  limit or dropped connection signs anybody out. `EveryRequestSettles`: the lock, the shared reads
  and the exchanges never leave a tab waiting.

What the failing runs show, each against a sentence of the repository quoted in `PROJECT.json`:

- remove decides from an unlocked read and deletes by id: a transfer approved in between is
  deleted and its movements remain.
- send and update do the same with the status and the approval flag: cross-branch goods leave
  unapproved.
- two receipts pass one outstanding check.
- a user's queue or update that read before a cancellation writes after it.
- a queue that dies between its two writes leaves a scheduled segment campaign that no tick can fire.
- a receipt used for a top-up is accepted for an activation; only the other order is refused.

### Bounds and why they are enough

- *Transfers*: two requests make every pair of racing handlers; two transfers compete for one
  unit of stock; three warehouses give a pair within a branch and pairs across; the service product
  gives lines that move no stock. `MaxQuantity = 1`, so a partial receipt is a receipt of one
  line of two. `MaxEdits = 1` bounds rewrites, also in the racing runs.
- *Campaigns*: a batch of two lets a pass die, or be cancelled, before, between and after its
  recipients; two passes are a live one and a usurper. A batch of one in `campaign_callers` leaves
  recipients for a second pass, while a second caller is still queueing. `MaxDeaths = 1`.
- *Payments*: one credit suffices for racing grants and sends; `MaxPending = 2` reaches the cap;
  `MaxGrants = 1`.
- *Sales*: two sales and two returns give every pair of documents that compete for the last
  goods, for the credit limit and for what is returnable; carts of one and two, paid short, in
  full and beyond. Payments of one with a discount of none or one, and receipts
  edited to one or two. Ids are used once, so no cycle is unbounded. Stock of 3 lets one sale of two
  and one of one stand, and refuses a second of two.
- *Sessions*: two tabs are a winner and a waiter of the lock; three tokens are one sign-in with two
  successors, or a second sign-in; one sign-out everywhere divides time into before and after.
  One exchange at a time on the server: the lock admits one from this browser, and a dropped one
  that goes on then delays the next. The sign-out invariants were also run with two exchanges at
  once and two tokens.

Transfers may stop (all are received, rejected or deleted), so may sales (all ids used), and
sessions (all tokens used and everybody signed out), so those runs do not check for deadlock; the
others do.

### Fairness

*Campaigns.* `WF(StartPass)`: the cron runs every five minutes and
starts a pass for each campaign that is SENDING. `WF(PassStep)`: a pass that has not died goes on,
since every call it awaits returns or throws; this is also where delivery is assumed to
end. `WF(Tick)`: time passes. `WF(FireDue)` and `WF(CallStep)` for cron ticks: the cron goes on
firing what is due. Nothing is assumed of users, and nothing about which outcome a delivery has.

*Sessions.* `WF(ServerStep(h))`: a refresh the server took up ends, in an answer or in a failure.
`WF(LoadStep(t))`: a read of a row returns or throws. `WF(TabStep(t))`: a tab goes on when an
answer is there and when the browser hands it the lock, which Web Locks grant in order. No loss,
no failure and no user step is assumed ever to happen or to stop happening; in particular a
connection need not drop, since a hung `fetch` (it has no timeout) is a server that does not answer,
which the first condition excludes.

## 4. What is proved

The proof modules hold for every value of the constants that meets `ConstantsAssumption` in the
modules they are about. Between them they prove every safety property that a passing run checks:
the run shows it on a small instance, the theorem for every number of requests, documents, tabs,
passes or workers. What an environment must not do is an assumption with a name, stated by the
theorem that needs it, and the constants of the runs satisfy it.

**Sums.** Three components promise that a total adds up. `SumLemmas` proves what those proofs need
of `SumFunctionOnSet`: that the recursion defines the sum (`SumUnfolds`), and how a sum changes
with one value or one element (`SumTakesOut`, `SumChanges`), over parts and unions. The library's
induction theorems take an operator as a parameter and cannot be used, so the induction is over the
subsets of a finite set and is stated for a set of sets (`SubsetInduction`, from the well-founded
order of cardinalities). It is why transfers, warehouses, workers and documents are assumed finite in
number. No order is assumed of the elements.

**Transfers.** `TypesHold` needs nothing about overlaps: a guarded decrement alone keeps stock
non-negative. `LedgerIsTrue`, `NothingLeavesUnapproved` and `NothingIsOverReceived` assume
`OnlyDecisionsOverlap`: every kind of request but approve and reject is in `Serial`. The failing
runs show that the assumption cannot be dropped. None of the three is inductive. `IInv` adds:

- `RowOK`: on each row, the three properties, and that `requires` is what the warehouses say, and
  that nothing is received before the goods have left;
- `Exclusive`: two requests on one transfer are both decisions;
- `ReadHolds`: a request that is no decision still sees what it read; a decision does as long as
  the transfer is waiting; and a receive adds no more than was outstanding.

The last is the heart: a commit acts on the snapshot, so the snapshot has to be true. One decision
may commit under another's feet; then the status is no longer PENDING_APPROVAL, and the claim in
`Approve` and `Reject` fails, which is the argument in the comment on `claimForDecision`.

`TransferPromiseProofs` builds on `IInv`, under the same assumption. `Complete` adds to it `Sound`
(a transfer that is there has a line, one that has not moved is not approved, one on its way is
RECEIVED exactly when all has arrived) and `FullIsTrue` (a receive that has read its lines back
knows whether they are complete). Its main lemma, `StepMoves`, reduces every action to what
they do to a row and to the stock: `Paperwork`, `Leaves` or `Arrives`. `ReceivedIsComplete` and
`TransfersGoForward` follow by cases of these three; so does the refinement,
`TransfersKeepThePromise`: goods that leave are a `Ship` of `GoodsInTransit`, goods that arrive an
`Arrive`, and paperwork a `Drop` or nothing. `NothingMadeOrLost` is the sum form of the same cases:
what `Leaves` takes from one warehouse it adds to the transfer, what `Arrives` takes from the
transfer it adds to another, and `Exchange` says that the two sums then move against each other.

**Campaigns.** `TypesHold`, `OutcomesAreFinal` and `CompletedTotalsAddUp` assume nothing.
`LiveClaimsAreHeld`, `RecipientsAreNotShared` and `NobodyIsSentTwice` assume `InTime`: a heartbeat interval and the
longest time between two checks of the heartbeat fit into `STALE_CLAIM_MS`. That is the bound the
comments on `CLAIM_HEARTBEAT_MS` and `STALE_CLAIM_MS` rely on; a provider call that hangs longer
breaks it. The inductive parts:

- `Queueing`: once a campaign is queued every customer has a row, so nothing becomes outstanding
  again behind a pass that counted;
- `Claims`: the claims of a working pass are no older than the time since its last beat, which is
  less than a heartbeat interval plus the delivery it is in, so no sweep finds them stale; two
  passes never have the same recipient to send to;
- `SentOnce`: a recipient that is due, and not handed to the provider by a pass that is about to
  record it, has had at most as many messages as there were crashes;
- `Totals`: what a pass holds at its last write is what the rows say.

`CancelledIsFinal` assumes `OneCaller`, which is what `campaign_cancel` shows it needs, and any
number of passes. Its invariant, `NobodyGoesOn`: while the campaign is cancelled the caller is
idle or deleting it, so no write decided on before the cancellation is still to come.

**Payments.** No assumption on the environment at all. `GrantsOnce`, `ReceiptsBackOneClaim` and
`DecisionsAreFinal` follow from types and a frame lemma per table (which action writes it, and
under which guard). `SwitchedOnOnlyByReview` needs `ReviewsInOrder`: a review past its first
statement has its activation VERIFIED, and past its second its payment posted.
`WalletIsExplained` is a sum over the calls in flight: `StepBalanced` gives for each action what it
moves between the balance, the ledger, what dead calls lost and the one call it is about.

**Sales.** `TypesHold` assumes nothing: whatever races, the shelf is not taken below zero.
`BatchesBillOnce` assumes nothing either, since the claim of a quotation is one conditional update.
The other theorems assume as little of section 2.4's constants as they need:

| theorem | property | `SalesApart` | `DueAlone` | `SoldFirst` | `Told` | `Undiscounted` | `StillPayments` |
|---|---|---|---|---|---|---|---|
| `SalesMoveForward` | `LifeMovesForward` | x | | | | | |
| `StockIsExplained` | `StockFollowsDocuments` | x | | | | | |
| `RevenueInFull` | `PostedInFull` | x | | | | | x |
| `DueIsLedger` | `DueFollowsLedger` | x | x | | | x | |
| `BooksAgree` | `ReceivableFollowsLedger` | x | | | x | x | x |
| `ReturnsBounded` | `NothingReturnedTwice` | x | | x | | | |

`SalesApart` is `OnePerSale` with `Asked` no more than COMPLETED; `DueAlone` that the handlers that
write the balance they read are in `Alone`; `SoldFirst` that returns are of completed sales and a
sale with returns is not edited; `Told` that a return says how it was refunded; `Undiscounted` and `StillPayments` that no edit in
`ReceiptEdits` gives a discount or makes a payout. The two sequences of section 2.4 show that
neither can be dropped where it is marked. So the shelf and the
revenue are right even where two writes of the balance race and one is lost, and the books still
agree with the ledger rows then; only the running balance itself goes wrong.

The invariant is `Settled`. Its first parts say what a handler between its read and its commit may
rely on: `Exclusive` (no other works on its sale), `Fresh` (the id it will use is free), `Seen` (the
sale is as it read it), `Found` (so are the returns, the payment and the receipt it will undo) and,
under `DueAlone`, `Solo` (so is the balance). The last, `Rows`, says for each document what its
vouchers, its ledger rows and its state say of one another, a sale's receipt among them: posting,
restating, editing and dropping it each keep its row and its vouchers in step (`ReceiptSteps`,
`Restating`). `OneDocument` then reduces every
action to a step of one sale, of one return, of one entry, or of none, with what it adds to the
shelf, the balance and that document's rows; `Rows` follows document by document, and the totals by
`SumChanges` for the one document that changed. `Bounded`, for the returns, compares what comes
back of a sale with what it holds under the same steps.

**Sessions.** `SignedOutIsRefused` assumes nothing of the environment. Its invariant `Lookups`
says of the version lookup: a read in flight was begun by a tab that waits for it
(`LoadsAreAwaited`), a request that waits for a read, and should be refused, is older than the row
the read has or will fetch (`AwaitedIsInFlight`), and the cached entry, as a value or as a load,
is no older than the version a request arriving now is held to (`CacheIsFresh`). `Exchanges` gives
the frame: a tab with a refresh underway waits for nothing else. `SignOutSticks` assumes
`"revoke" \in Quiet`. Its invariant `Sessions` says that families are closed under succession,
that everything the browser or an exchange holds has been issued, and that an exchange past the
check is of a family not yet over (`CheckedIsNotOver`), which is the part a sign-out between check
and successor would break.

**Renewal.** `LockIsKept` and `NothingIsReplayed` assume nothing of the environment. `Lock` says that
the queue of the Web Lock holds exactly the tabs that queue or ask, each once, and that a tab that
asks the server is at its head, so one exchange with a tab behind it is underway at a time. `Dated`
says that nothing signed or stored is ahead of the version. `Handover` says that the stored token is
not spent, that every token held anywhere has been issued, and that a successor on its way back to
the browser is unspent and held by nobody else: what the tab stores was never presented before.

`ClearedOnlyIfOver` assumes `QuietEnvironment`, both members of `Quiet`. The browser is cleared on
a refused exchange or on a 401 to a retry, and each needs an argument. `Verdicts`: an exchange that
a tab waits for is about the token that is stored, and one that was refused is about a token that is
over and stays over. `Recent`, for the retry: while any token of the user is live and no sign-out
everywhere is under way (`InForce`), the stored access token, every answer on its way and every
retry in flight carry the current version, and the read a retry waits for will return it; so the 401
can only come when nothing is in force. `InForceLasts` is the induction: once nothing is in force
only a new sign-in brings it back, which `"revoke"` and `"signIn"` are each needed for.

TLC checked all of these invariants on small instances before they were proved.

## 5. What is only model-checked

`DrainEnds` and `EveryRequestSettles`, which hold, and `ScheduledIsFired`, which does not: liveness
under fairness needs `ENABLED`, which is out of the prover's reach. The runs that fail show behaviours,
which need no proof. Everything else that a run checks is also proved.

## 6. Plan

Order: what the business loses most by first.

1. Done: transfers and stock, campaign dispatch, manual payments; types and main invariants proved
   for all three.
2. Done: sales, returns and the customer's account; sign-in sessions from the tables to the tabs,
   with the two sign-out invariants and the absence of replays proved.
3. `CashierSession`: opening and closing a till against the sales rung on it; then exchanges and
   loyalty points in `CustomerSales`.
4. `ManualPayments` with fairness: an activation that was verified is switched on unless a call dies.
   `DocumentNumbers` (a series under a row lock; no duplicate, no gap), `CircuitBreaker` (one trial
   when half open).
5. Done: proofs of every safety property of all five components, with the refinement of
   `GoodsInTransit`.

## 7. Not modelled, and why

Accounting and posting rules: a large rule engine, mostly arithmetic; only that a key posts once,
and which keys the sales documents use, is in `CustomerSales`. Loyalty, exchanges, warranty and
cashier sessions around a sale. Offline sales: the browser resends what got no answer and the
server cannot tell, so a sale made twice is two sales. Billing beyond the write of ACTIVE:
calendars. Purchases mirror sales. Payroll: arithmetic. Referrals: not read yet. Backup: bulk input and output. The cached memberships and subscriptions,
and the cache of a second instance of the API, are stale by design, bounded by a time to live.
Browsers without Web Locks, tokens from before families. AI, storefront, reports and the frontend pages keep
no state of their own that a state machine would clarify. Within the modelled parts: messages,
templates, notifications, audit rows, support tickets, listings, wording and money amounts.

## 8. Running

    tlc -config transfers_decisions.cfg MCTransfers
    tlc -config campaign_drain.cfg MCCampaign
    tlc -config payments_decisions.cfg MCPayments
    tlc -config sales_account.cfg MCSales
    tlc -config sessions_tabs.cfg MCSessions
    tlapm TransferProofs.tla
    tlapm TransferPromiseProofs.tla
    tlapm CampaignProofs.tla
    tlapm PaymentProofs.tla
    tlapm SumLemmas.tla
    tlapm SalesProofs.tla
    tlapm SessionProofs.tla
    tlapm RenewalProofs.tla
