# SmartLight: specification of the shop's API

SmartLight is a shop: a NestJS API over PostgreSQL (Prisma), with a web shop and an
admin console as its clients. This directory holds TLA+ models of the parts of it where
several requests, the payment gateways, the carrier, the mail provider, administrators and
the tabs of a browser work on the same rows: stock, checkout, orders, payments, shipments,
vouchers, promotions, carts, products, notifications and login sessions. TLC checks the
models on small instances, TLAPS proves their safety properties for every instance.

Paths below are relative to `src/smartlight/apps/api/src/modules/`, unless they begin with
`docs/` (which is `src/docs/`), `prisma/`, `web/` or `admin/` (below `src/smartlight/apps/`).

## 1. Inventory of the system

| component | state it keeps | operations | what makes it hard | what makes it correct |
|---|---|---|---|---|
| **inventory** | `inventory` (on_hand, reserved, available), `stock_movement` | create, import, adjust, bulk adjust, reserve, release, confirm sale, restore | three columns moved by hand by every statement; guards in SQL, clamps; ReadCommitted | columns agree, nothing promised twice, every unit explained by a movement |
| **checkout** | `checkout_session`, `checkout_item`, `stock_reservation` | create, update address, reserve, cancel, expire | customers race for the last units; expiry races order; status checked outside the transaction | a unit is kept by one reservation, given back once; an order keeps its units |
| **orders** | `order`, `order_item`, status history | create from a session, customer and admin transitions | order number read on another connection; session used while it changes | one order per session, numbers without gaps, allowed moves only |
| **payments** | `payment`, `payment_transaction`, `payment_webhook_log` | create, retry, confirm by hand, webhook | the gateway is awaited between two writes; webhooks are repeated, late and out of order | money is booked once and in the end; order and payment agree |
| **shipping** | `shipment`, history, `shipping_webhook_log` | create, cancel, set status, webhook | the carrier is awaited between two writes; reports repeated, late, out of order | one parcel per order, a shipment never goes back, a report is not lost |
| **promotions** | `promotion`, `voucher`, `voucher_usage` | record and roll back a use, create, limit and delete vouchers; apply, publish, archive, delete | counters written apart from the rows they count; roll-backs of nothing; a status read outside the transaction that writes; one loop of stacking rules | a limit is never exceeded, counters count uses; what is applied follows the rules; an archived promotion stays so |
| **cart** | `cart`, `cart_item` | get or create, add, update, select, remove, merge, clear, delete | the active cart is looked up and created without a lock; deletion in two statements; stock bounds a line in three ways | few active carts, totals are those of the lines, lines never above the stock shown |
| **notification** | `notification`, BullMQ job | queue, enqueue, process, retry, cancel | worker and requests on one row; crash or failed write between send and mark | mailed once, no row hangs, a job settles its notification |
| **auth** and the clients' token refresh | `user_session`, `refresh_token`; cookie and local storage of a browser | login, refresh, logout of one and all, cap on sessions | no transaction at all; rotation with reuse detection; two refresh paths in one page, several tabs | the cap holds, a revoked session is dead, the shop's own pages are not taken for thieves |
| **catalog** and its triggers | `product`, `product_variant`, `category`, `brand` | create, update, publish, delete, restore, variants, triggers.sql | everything reads, awaits and updates by id; counts before deletions | a deleted product is never listed, a live one in no deleted group, each variant has a stock row |
| users | `user` | profile | single rows | - |
| media | `media_file`, files in a store outside | upload, delete | one row per file | - |
| platform | connections, cache, metrics | - | wrappers | - |
| admin, audit, review | none | health routes | scaffolds | - |
| HTTP controllers, gateway adapters, seeds | - | routes, signatures and formats, data | stateless | - |
| web shop, admin console, packages, infrastructure | the browser's | pages, forms, deployment | - | - |

How they interact: the modules never send each other messages. They share the
database, and a few of them call another one's tables directly inside their own
transaction: checkout and inventory both write `inventory`; `OrdersService.createOrder`
writes the session, the reservation and the order; `PaymentsService.applyCallback` writes
`order`; the trigger of `prisma/sql/triggers.sql` writes `inventory` for the catalog. The
gateways and the carrier are called over HTTP and call back by webhooks; the mail provider
is only called. The one asynchronous path inside the API is the BullMQ queue of
notifications. There is no scheduler: jobs that the docs speak of (sweeping sessions,
cancelling unpaid orders, sending what failed again) are not registered anywhere.

`PROJECT.json` lists every component with what is modelled of it, and every hazard of the
code with the properties that watch it.

## 2. Modules

| module | models | state and actions |
|---|---|---|
| `Amounts` | `LEAST` and `GREATEST`, `Math.min` and `Math.max` | operators only |
| `StockRow` | one row of `inventory` | each UPDATE statement of `inventory.repository.ts` as a function from row to row (`ReserveRow`, `ReleaseRow`, `AdjustRow`, `ConfirmSaleRow`, `RestoreRow`), its WHERE clause as a predicate (`CanReserve`, ...) |
| `Totals` | - | what "n is the sum of f over 1..N" means, without recursion, so that it can be proved about |
| `StockPromise` | the abstract specification | customers' claims on stock: granted only when covered, then sold or dropped, once |
| `Checkout` | `checkout/service.ts`, `createOrder` of `orders/service.ts`, stock corrections | `inv` rows, `status`/`items`/`hold`/`late` of each session, `orderNo` of its order, `drawn` for the createOrder in flight, `sweep` for the expireCheckout in flight |
| `OrderStatus` | the tables of allowed moves of an order | `MayMove`, used by the three modules below |
| `Storefront` | Checkout composed with the life of its orders | `Checkout`'s variables and `orderStatus` |
| `Payments` | `payments/service.ts` for one order | the row `pay`, `order` and `paid`, the phase of every createPayment, `log` of every event, the event every webhook request is about to apply, `captures` booked |
| `Inventory` | `inventory/service.ts` | `rows`, the sum of each variant's movements `logged`, initial stock still `unlogged` |
| `Shipping` | `shipping/service.ts` for one order | `shipment`, the phase of every createShipment, `log`, the webhook requests, and outside the shop `parcels`, `stage` and the reports `sent` |
| `Vouchers` | the counters of `promotions/service.ts` | rows `voucher` (those of `live`) and `promotion`, rows `uses` of voucher_usage, roll-backs that found nothing `void`, `voidIn` |
| `Promotions` | the life of promotions in `promotions/service.ts`, and `promotion.engine.ts` | the status of each (`statusOf`) and its `offer`, what each administrator's request is about to write (`admin`), and a customer's request (`apply`): the promotions it loads one by one, then the engine's loop, a step per promotion |
| `Cart` | `cart/service.ts` | of each cart its `status`, its `lines` by variant and its `totals`; of each `request` how far it is, the cart it has found or made, and the lines `deleteCart` has locked |
| `Notifications` | `notification/service.ts`, its BullMQ job and processor | `row`, `attempts`, `due` (next_attempt_at), `job`, what each process is `at`, and outside the API the `mails` taken |
| `Sessions` | `auth/auth.service.ts`, its controller, `web/src/lib/api-client.ts` and `auth-context` | `session` and `token` rows, the phase of each request `req`, and of a browser `cookie`, `access`, `busy` |
| `Catalog` | `catalog/service.ts`, `prisma/sql/triggers.sql` | rows of `group`s (categories and brands), `product`s and `variant`s, those `stocked`, whether the triggers are installed, what each request has read |
| `MC...` | instances for TLC | constants and symmetry |
| `Stock_proofs` | theorems about everybody who writes `inventory`: `Checkout` with `Storefront`, `StockRow` and `Totals`, and `Inventory` | |
| `Pricing_proofs` | theorems about what a cart holds and what promotions take off it: `Cart` and `Promotions` | |
| `Payments_proofs`, `Shipping_proofs`, `Vouchers_proofs`, `Notifications_proofs`, `Sessions_proofs`, `Catalog_proofs` | theorems of the module of that name | |

Two components whose theorems share a module have no name in common: the variables, types and
actions of `Inventory` and of `Promotions` carry the module's name where another's would clash
(`InventorySpec`, `PromotionsTypeOK`).

**Where the steps are.** A transaction is one action, because those of checkout, orders,
payments, shipping and promotions are SERIALIZABLE (one that does not serialize aborts,
leaves no trace and is not retried), and those of inventory are a single UPDATE whose row
lock holds until commit. Cart, notification, auth and most of the catalog use no
transaction, or READ COMMITTED: there every statement that another request can come
between is an action. Whatever the code reads before its transaction, or awaits between two writes, is
an action of its own, and the later write does not look again unless the code does:

- `ExpireCheck` / `ExpireCommit`: `expireCheckout` returns early on a status it read before the transaction.
- `DrawNumber` / `PlaceOrder`: `generateOrderNumber` reads the last number on another connection; the unique index decides at the insertion (`CanCommit`).
- `CheckPayable` / `InsertPayment` / `IntentReady` | `IntentFailed` / `ReturnLink`: `createPayment` around the gateway.
- `AcceptWebhook` / `ApplyCallback` | `AbortCallback`: `handleWebhook` outside and inside its transaction; `RejectUnlocated` and `RejectAmount` are its answers that log the event FAILED before.
- `CheckShippable` / `InsertShipment` / `CarrierAccepts` | `CarrierFails` / `WriteWaiting` / `WriteHistory` | `WriteFailed`: `createShipment` around the carrier.
- `AcceptReport` / `HandleReport` | `RejectReport` / `RecordEvent`: the shipping webhook.
- `CreateInventory` / `LogInitialStock`: the two transactions of `createInventory`.
- `Queue` / `Enqueue` | `EnqueueSkipped` / `SendInline`, `Take` / `MarkProcessing` / `ProviderAccepts` | `ProviderRefuses` / `MarkSent` | `MarkFailed`, `CancelRead` / `MarkCancelled`: each read and mark of a notification. `AnswerLost`, `MarkSentFails`, `WriteFails` and `Crash` are the faults.
- finding or creating the active cart / the operation on it; the two statements of `deleteCart`.
- `Read...` / the write, for every operation of `Catalog`; the write tells the other requests what they have read is stale.
- `ReadStatus` / `WriteStatus`: `publishPromotion`, `archivePromotion` and `deletePromotion` read on another connection than they write on.
- in `Sessions` every statement: rotation, count, pick, revocation of sessions, revocation of their tokens, creation, signature, answer; `ErrorAnswer` is the answer that is lost or a 5xx.

A process that dies is one that takes no further step; every specification allows it,
since only the steps named under "Fairness" are owed.

**Composition.** `Storefront` extends `Checkout` and `OrderStatus` and adds the moves of
orders; `Payments` and `Shipping` have the order's status as a variable and let
`OrdersService` move it (`MoveOrder`). A payment or a shipment joins no two orders
(`order_id` is unique in both tables), so one order shows everything. `Sessions` composes the
API with its client: the browser's cookie, its tabs and the page's two ways to refresh are
variables beside the rows of the database.

**Mutants.** Definitions that no action uses (`CloseAnyHold`, `CanReserveOnHand`, ...) are
the definition that follows them with a plausible bug. Each property is known to fail when
one of them takes the place of the original; the pairs are in `PROJECT.json`.

## 3. Runs

Runs that pass:

| run | instance | shows |
|---|---|---|
| `storefront_safety` | 2 sessions, 2 variants with 2 and 1 units, 2 createOrder in flight, corrections of one unit, expireCheckout called at any time, orders that are paid or cancelled | `LedgerEquation`, `HoldFollowsSession`, `OrderOwnsHold`, `ReservedIsSumOfHolds`, `OrderNumbersGapFree`, `ClosedHoldIsFinal`; `OwedUnitsSetAside`: the units of orders still to be shipped stay set aside; the checkout implements `StockPromise` (`ImplementsPromise`) |
| `payments_safety` | 2 createPayment, 2 webhooks at a time, a failure and 3 charges (one with the transaction id of the intent, one of the wrong amount), verification that may fail | `CapturedOnce`, `SuccessClosesOrder`, `PaidWasCaptured`, `SuccessSurvivesWebhooks`; `ChargeNotLost`: redelivery books every charge that fits its payment (`Bookable`), unless a verification of it failed |
| `inventory_safety` | 2 variants, quantities 1 and 2, columns of at most 4 | `StockIsSumOfMovements`, `NeverOverstated` |
| `shipping_safety` | 2 createShipment, 2 webhooks at a time, all reports of a parcel | `RegisteredOnce`, `NeverRegresses` |
| `vouchers_safety` | 2 vouchers of one promotion, 3 orders of 2 customers, limits up to 2, one void roll-back | `CountersExplained`: counters are the uses less at most the void roll-backs; `TotalLimitsKept` |
| `notifications_safety` | a mail and one that cannot be sent, a worker, an administrator, one retry by hand, one fault | `MailedOnce`, `ProcessingIsOwned`, `ScheduleMatchesTries`, `TriesBounded`; `EnqueuedSettles`: a job ends with its row sent, failed or cancelled |
| `cart_safety` | 2 requests of one customer, 2 variants, 2 carts, stock that changes | `TypeOK`, `TotalsMatchLines`, `LinesCovered`, `ActiveCartsBounded`: racing requests make no more active carts than there are of them |
| `catalog_safety` | a category, a brand, a product and a variant, 2 requests of administrators | `DeletedStaysDown`, `GroupsKeepProducts`, `VariantsStocked` |
| `promotions_safety` | 2 promotions, each of any of 9 kinds, 2 requests of administrators, a cart of 200 with 20 of shipping | `PromotionsTypeOK`; `FlashSaleNotWithPercentage`, `HigherPriorityFirst`: the two stacking rules the engine keeps; `TotalsAddUp`: its sums; `ArchivedStays` |
| `sessions_safety` | a browser with 2 tabs, 2 requests, 3 sessions, a cap of 1 | `ActiveWithinCap`: at most one session over the cap for each other request under way; `RevokedIsDead`; `NeverAccusedWrongly` |

Each run that ends in a counterexample checks a statement of the repository's own docs and
shows an execution of the code that does not satisfy it; the quoted lines are under
"findings" in `PROJECT.json`:

| run | statement | what the code does |
|---|---|---|
| `payments_paypal` | a capture reported by PayPal confirms the order (docs/04, API_TRACEABILITY.md:293): `ChargeBooked` | the capture's own id matches no transaction, so its event is logged FAILED and skipped from then on; the events of the order carry the id of the INITIATED row, and a second row with it meets the unique index (payment, transaction id), so the transaction rolls back each time |
| `shipping_undelivered` | transit reports are handled (docs/04, WEBHOOK_SPECIFICATION) | the event id is the parcel's code: all but the first are duplicates |

Other places where code and docs part, or where the code does what its author can hardly
have meant, read while modelling and kept without a run. The models behave as the code does
in each of them.

*Stock, checkout, orders.*
- `expireCheckout` has no caller and no scheduler, so an abandoned session keeps its stock for ever, where BR-INV-002 and BR-INV-007 (docs/01) promise its release by a scheduled job. No property claims that release. `LateHoldIsSweepable` says only that the early returns of expireCheckout, once somebody calls it, let every late reservation through; all other properties hold whether it is called or not.
- `cancelCheckout` also cancels a COMPLETED session, and `expireCheckout` may expire one; their order and its units stay, which is what `OrderOwnsHold` checks.
- `createOrder` never looks at `expires_at` (docs/04, CHECKOUT_API: EXPIRED_SESSION).
- Cancelling an order leaves its reservation CONFIRMED and the units reserved for ever (orders/service.ts:516; docs/02, STATE_MACHINE.md:91).
- A correction may take reserved units and push `available` below zero (BR-INV-001).
- Nothing calls `confirmSale`: the stock on hand of a paid order is not decremented; and `confirmSale` subtracts from `available` what `reserveStock` subtracted already.
- `createInventory` logs its initial stock in a transaction of its own.

*Payments and shipping.*
- An event that fails its verification, finds no payment or states another amount is logged FAILED (payments/service.ts:513-603), and an event in the log counts as seen: its redelivery is answered as a duplicate for ever (payments/service.ts:533; docs/01, BUSINESS_RULES.md:1158). That is why `ChargeNotLost` is about `Bookable` charges whose verification has not failed. MoMo reports whole dong, which is another amount when the payment's has a fraction; PayPal's charges are never booked (`payments_paypal`), only a confirmation by hand helps (`BookedByHandOnly`).
- A createPayment in flight overwrites SUCCESS, also that of a confirmation by hand (payments/service.ts:195; controller.ts:142): the exception in `SuccessSurvivesWebhooks`.
- A failed payment turns SUCCESS by a late charge, and a charge of a cancelled order is booked; a retry meets the unique `order_id` and fails; a capture under the transaction id of the intent is refused by the unique index.
- The carrier's answer overwrites a CANCELLED shipment; a second shipment after a failed one is refused by the unique `order_id`; a parcel may be registered for an order that was cancelled meanwhile (shipping/service.ts:211).

*Promotions.*
- `incrementUsage` compares with `>` where the docs have `>=`: a customer gets one use more than the limit (promotions/service.ts:199; docs/02, ERROR_HANDLING.md:139).
- `createPromotion` reads back what it has just inserted on another connection, finds nothing, and is rolled back: promotions come from the seed only.
- The engine's own header (promotion.engine.ts:8,98), promotion.constants.ts:79-80 and BR-PRM-005 (docs/01, BUSINESS_RULES.md:621-629) allow one order promotion at most and none beside an exclusive one. The loop tests `stackable` of the later promotion only, so a stackable one comes on top of any other, an exclusive one included. The properties state the two rules the code does keep (promotion.constants.ts:81 and :83) and not that one.
- Two stackable promotions together may discount more than the subtotal; `TotalsAddUp` is about what is left, the sum of the discounts itself is not clamped (BR-PRM-006, BUSINESS_RULES.md:631-639).
- A promotion found through a voucher is applied whatever its status. A publish that had read the status before an archive revives the promotion: the exception in `ArchivedStays`.

*Cart.* Nothing enforces the single active cart that service.ts:5 speaks of; `ActiveCartsBounded` says what is true instead. `mergeCart` does not look at the status of products; merging a line that was removed meets the unique index. No cart becomes CHECKED_OUT.

*Notifications.* With `sendImmediately` the controller calls `queue()`, which makes no job: the row stays QUEUED. A job that cannot be added is only logged. `findRetryable` has no caller, so `next_attempt_at` is never acted on. A notification addressed by user id alone fails. A cancelled one is still sent, by its job. When `markSent` fails the mail is sent again. `findTemplate` looks at neither `isActive` nor the locale.

*Catalog.* `parent_id` is never written, so the check for child categories finds none. Publishing does not ask for images or variants (BR-CAT-002). Where the triggers are installed `createVariant` always fails, because it inserts the inventory row itself; where they are not, variants inserted with their product have none. `restoreProduct` restores into a deleted category. Publishing and moving race deletion: `overtaken`, `unchecked` and `miscounted` are these exceptions.

*Sessions.* A loading page refreshes on its own (`bootstrap`) beside the client's `isRefreshing`, and each tab has its own: two of them may present one token, which counts as theft and signs the customer out everywhere; `NeverAccusedWrongly` says that nothing but such overlaps, and answers that are lost or are a 5xx after the rotation (`ErrorAnswer`), has that end; browsers they happened to are `crossed`. In development `StrictMode` (web/src/main.tsx:16) runs the bootstrap twice, with the same result. A rotated session stays ACTIVE, so refreshes use up the cap. A token revoked by the cap or a logout and presented later is also taken for theft. The cookie survives a 401, and a logout whose access token has expired. Administrators' sessions have an expiry of their own, `last_seen_at` is not stamped again, and `revokeAllSessionsForSubject` finds none of them. A token inserted after its session was revoked stays live (`late`). The admin console's client does not store the access token of a refresh. `last_seen_at` is stamped again in a statement of its own after a login (auth.service.ts:544-547), so among interleaved logins another session may be the oldest than in `Oldest`, which goes by creation; how many are revoked, which is all `ActiveWithinCap` depends on, is the same.

*Read but not modelled.* Accounts: `failedLoginCount` is read before the password is hashed and written after; one column serves the verification and the reset token, so asking for a reset invalidates a pending verification; accounts from OAuth stay PENDING_VERIFICATION. The web shop's checkout page: after "back" from a reserved session it reserves again, which the API refuses; a lost answer of reserve or of the order leaves it stuck; a reload opens a new session that competes with the customer's own reservation; it calls `/checkout/:id/coupon`, which the API lacks, and POSTs to `/orders/:id/cancel`, which is a PATCH.

**Bounds and why they are enough.** Every counter is bounded by a constant. One cfg has a
constraint, `Followed` of `storefront_safety`: an order is followed until it is cancelled or leaves PAID.
What is cut off is only the later life of an order, whose status the checkout never reads; the theorems
are about all of it. `NumSessions`, `Request`, `Call`, `Hook`, `Admin`, `Tab` and `Worker`
are the parties in flight at once: two for every race between two of them.

- *Checkout, Storefront.* Of the second variant there is one unit, which both sessions want: one wins, the other is refused, and comes back when the winner cancels or expires; of the first there are two, so that two reservations stand beside each other in one row. Two variants, so that a session takes a second line and one line can fail after another passed. A correction (`Deltas`) takes one unit away, also a reserved one; what cancelled reservations give back is what stock grows by. A line has one unit (`MaxQuantity`); more units, lines, sessions and corrections both ways are covered by the theorems.
- `MaxInt` stands for the largest INTEGER: `Inventory` reaches it by every operation. In `Checkout` it only bounds corrections upwards, which loses nothing, as more stock than everyone wants refuses nobody.
- *Payments.* A failure can be delivered before, between and after three charges, again and again: one plain, one (`SameTxn`) that repeats the transaction id of the intent, one (`Misstated`) of another amount, so that a booked, a refused, a rejected and a repeated charge meet. `payments_paypal` has what PayPal sends: an event with the id of the intent and one that finds no payment (`Unmatched`).
- *Vouchers.* Three orders and limits of 1 and 2 reach each limit by either voucher, and one void roll-back (`MaxVoid`) is enough for a counter to fall behind; that more of them add up is proved.
- *Notifications.* `MaxTries` 2, so that a try is not the last, and one retry by hand beside the job; one worker and one request are two processes on one row; one fault shows what each fault does, and the properties exclude notifications it hit. That more workers, tries and retries change nothing is proved.
- *Cart.* `NumCarts` 2 counts the carts ever made: two at the same time, or one after another was deleted; a request that has found none counts against `ActiveCartsBounded` before the bound stops it. `Stock` has a variant sold out, owed, and in more units than a line may have (`MaxQty` 2), so every one of the three ways to bound a line bites. A merge brings one line (`MaxMerge`): merging takes its lines one by one, alike. `MaxLines` (100 in the code) is as large as the number of variants, so that limit is never reached.
- *Catalog.* The properties are about one product and one group at a time, and the requests tell them apart by what is stale; two requests make each read race each write. More of everything is proved. `Settable` is the status updateProduct is asked to set beside what else it changes: ARCHIVED; the others reach a product through publishing and unpublishing, whose reads and writes race alike, and the theorems are about any set of them.
- *Promotions.* Any two of nine kinds: alone and stackable, percentages over a hundred, with a maximum, a minimum met or not, out of time or scope, flash sales and free shipping. The stacking rules relate two promotions.
- *Sessions.* `MaxSessions` 3: two tabs signed in, and one more session for the refresh or login that goes beyond the cap of 1. `SessionsLeft` stops new logins when the requests under way may use up the rest, so that no request is cut off half way.

Symmetry is used in safety runs only, over requests, webhooks, variants, vouchers, tabs and
the orders of one customer, which no action tells apart.

**Fairness.** Only what the environment or the runtime owes:
- `Payments` (`FairSpec`): a gateway delivers each charge again, to whichever webhook request is free, until it is answered with a 200 (`Redelivery`, strong fairness), and a webhook tried again and again gets through its transaction (it may be aborted any number of times, not always). createPayment, the administrator and the customer owe nothing.
- `Shipping` (`FairSpec`): the same for each report of the carrier.
- `Notifications` (`FairSpec`): a BullMQ worker takes every waiting job some time, and a process that has begun gets on until its last write. Requests that queue, retry or cancel owe nothing.

A request of a customer or an administrator need never come, and nobody calls expireCheckout,
so there is nothing to be fair about in `Storefront`, `Cart`, `Catalog`, `Promotions` and `Sessions`.

## 4. Proofs

`tlapm` checks every leaf; the theorems hold for every value of the constants that satisfies
the named assumption of the module (`CheckoutAssumption`, `PaymentsAssumption`, ...: positive
bounds, initial stock in range, disjoint sets of events, finite sets of requests and variants).

| module | theorems | argument |
|---|---|---|
| `Stock_proofs` | of `Checkout`, `TypeOK`, `LedgerEquation`, `HoldFollowsSession`, `OrderOwnsHold`, `ReservedIsSumOfHolds`, `NeverOversold`, `ClosedHoldIsFinal`, `OrderNumbersGapFree`, `ImplementsPromise`; of `Storefront`, `OwedUnitsSetAside`, `ImplementsPromise`, and that it implements `Checkout` | see below |
| | of `Inventory`, `InventoryTypeOK`, `StockIsSumOfMovements`, `NeverOverstated`, `NeverOverReserved` | `available <= on_hand - reserved` is kept by every statement because the clamps of `ReleaseRow` stop at `on_hand`, and with it a reservation never passes `on_hand` |
| `Pricing_proofs` | of `Cart`, `TypeOK`, `TotalsMatchLines`, `LinesCovered`, `ActiveCartsBounded`; of `Promotions`, `PromotionsTypeOK`, `FlashSaleNotWithPercentage`, `HigherPriorityFirst`, `TotalsAddUp`, `ArchivedStays` | see below |
| `Payments_proofs` | `TypeOK`, `CapturedOnce`, `SuccessClosesOrder`, `PaidWasCaptured`, `SuccessSurvivesWebhooks`; `ChargesStayDue`, `BookedByHandOnly` | see below |
| `Shipping_proofs` | `TypeOK`, `RegisteredOnce`, `NeverRegresses` | at most one request is past the insertion, and no parcel is registered before it |
| `Vouchers_proofs` | `TypeOK`, `CountersExplained`, `TotalLimitsKept` | see below |
| `Notifications_proofs` | `TypeOK`, `MailedOnce`, `ProcessingIsOwned`, `ScheduleMatchesTries`, `TriesBounded`; `NoneIsStranded` | see below |
| `Sessions_proofs` | `TypeOK`, `RevokedIsDead`, `NeverAccusedWrongly`, `ActiveWithinCap` | see below |
| `Catalog_proofs` | `TypeOK`, `DeletedStaysDown`, `GroupsKeepProducts`, `VariantsStocked` | see below |

*Checkout.* Neither `LedgerEquation` nor `ReservedIsSumOfHolds` is inductive: a release is
clamped (`GREATEST(reserved - q, 0)`), and a clamp that bites breaks both. It never bites
because the units given back are part of `reserved`, and that is what `ReservedIsSumOfHolds` says,
provided that a closed reservation is never given back again and an ACTIVE one has its
session RESERVED. The inductive invariant is their conjunction with the types, `HoldFollowsSession`,
`OrderOwnsHold` and the fact that sessions not opened hold nothing; each action has a step, and
the sums change by the lemmas about `Totals` (a sum exists, is unique, and changes by what
one entry changes by).

*Order numbers.* `OrderNumbersGapFree` is strengthened by `DrawnWithinReach`: a number drawn
and not yet used is at most one above those in use. It stays so because numbers in use only
grow; and at the insertion the unique index leaves the one number that is next.

*The promise.* `PromiseImplemented` maps the hold of each session to a claim and shows that
initial states map to initial states and every step to a step of `StockPromise` or a
stutter: `ReserveGrants`, `PlaceSettles`, `CloseSettles`, `AdjustRecounts`. That a grant is covered
is `ReservedIsSumOfHolds` and `LedgerEquation` again.

*Orders owed.* The units of orders to be shipped are a total below that of the reservations,
term by term (`TotalBelow`): the least index at which the partial sums would go wrong
(`LeastIndex`, by the well-foundedness of an interval) leads to a contradiction.

*Payments.* `CapturedOnce` fails to be inductive because a createPayment in flight may take
SUCCESS away, after which a second success would be booked again.
The strengthening says where that cannot happen: it relates the number of captures to the
status of the order, of the payment and of the requests that wait for the gateway; the checkout
URL reaches the customer only after the write, so no event of the gateway exists while
a request waits.

*Vouchers.* `CountersExplained` is inductive with the types, the finiteness of `uses` and the
foreign key (`NoOrphans`: a use is of a voucher that has a row), without which a voucher
deleted and created anew would start at zero with old uses. Each step changes the uses of one
voucher and of its promotion by the same element, and the counters by one (`UseAdded`,
`UseRemoved`, over the library's facts about cardinality); where nothing is deleted, the void
count takes what the counter loses. `TotalLimitsKept` follows: what was free by the counter was free
by the rows, but for the void roll-backs.

*Notifications.* `JobInv` relates each job to the one worker at it. For a notification that
nobody else worked on and no fault hit, `MailSeen` says what each phase of its only process
implies about the mails taken and the row. `TriesKnown` bounds `attempts` by the tries the job has
spent, the retries, and the processes that have read and not yet counted.

*Sessions.* `TokenInv` relates tokens to sessions; `HolderInv` and `WaitInv` relate the requests of a
browser to its tabs' `busy` flags and its cookie. `FreshPresented`, `FreshBrought` and `RotatedAwaits`
say for a browser that is not `crossed` that a rotated token has its successor on the way to
the same cookie, so nobody presents it.

*The cap.* `ActiveWithinCap` needs to know what each request between its count and its
revocation will revoke (`Doomed`). `CapInv` says that for every set of such requests the
sessions those requests spare, the sessions about to be made and the requests of the set stay
below `Cap + |Request|` together: a request that counts spares fewer than `Cap` (`OldestEnough`: of the n seen
longest ago there are n, by the least of the sets below a session), one that revokes leaves the set and
makes one session more, and a session that is made is the newest (`InOrder`), so that it saves
none that was doomed. The empty set gives the bound.

*Catalog.* The properties are about rows, and rows are written from what a request has read. The
strengthening (`Sound`) says of each request what still holds of the products and groups it has
read and nobody has written since.

*Folds.* The totals of a cart and of what was discounted are the library's `SumFunctionOnSet`, a
merge is its `FoldLeft`. The library's induction theorems take the property as an operator,
which the provers cannot instantiate; `SubsetInduction` takes it as a set instead, the subsets of
a finite set that have it, and follows from the well-foundedness of the strict subset ordering. From
it follow that the partial results a fold chooses exist and are unique (`SummingExists`,
`SummingUnique`, `MergingExists`, `MergingUnique`), that any element of a sum may be taken out
first (`SumWithout`), and that what each merged line keeps, the whole merge keeps (`FoldSound`).

*Cart.* Whatever changes lines ends in the same way, so one lemma does for adding, setting,
removing, selecting, merging and clearing: from `SoundLines` (typed, and each covered by the
stock it was shown) to sound ones, with the totals of the new ones (`LinesWritten`). It needs to
know that the cart was made (`KnownCarts`), as one that is still to be made must stay without
lines and with totals of nothing (`NewCartsEmpty`): that is what it has when it turns ACTIVE. `deleteCart` does not
write the totals, but its cart is not active any more. `ActiveCartsBounded` counts the requests that have
found no cart: only a request that sees no active one joins them, and making a cart takes one
of them away.

*Promotions.* `HigherPriorityFirst` and `FlashSaleNotWithPercentage` compare what is applied with what
was passed over, the loop only counts what it has applied. `AppliedSoFar` joins the two: applied are, of
the promotions the loop has come to, the `Chosen` ones, told without counters. A counter of a category
is up exactly when somebody eligible of it comes before, because the first eligible one of a category is
always applied (`FirstOfCategory`, `CrowdedIsNotChosen`); with `AppliedIsChosen` the first of its category
is also the witness that `HigherPriorityFirst` asks for. `TotalsAddUp` follows by `LeftTwice`, clamping
twice is clamping once, and `OrderDiscountAdded` for the promotion added. `ArchivedStays` needs
`WritesWhatItRead`: the status read by a request that nobody has overtaken is still there.

*The store front.* Each step of `Storefront` is a step of `Checkout` or leaves its variables alone
(`StorefrontIsCheckout`), so that whatever is proved of the checkout, the promise included
(`StorefrontKeepsPromise`), is proved of the checkout composed with the life of its orders.

*Safety halves.* Liveness cannot be proved (see below); what can is that the state it needs is never
lost. `ChargesStayDue`: while no money is booked, a reported charge that is `Bookable` finds the gateway's
payment and, unless a verification of it failed, a log without its row; this rests on `RowsExplained` (a
SUCCESS or a confirmation by hand has booked money, so a mismatch or a duplicate is never the
first word about it). `BookedByHandOnly` is the other side: from a gateway none of whose charges are
`Bookable`, as PayPal's, no report ever books anything. `NoneIsStranded`: a notification with a job, without a
fault, is waiting, at a worker (`ActiveIsHeld`), settled, or at a request that will mark it
(`GoneWasTried` with `ProcessingIsOwned`). `LateHoldIsSweepable` claims no progress, as nobody calls
expireCheckout: a late ACTIVE reservation is never in a session its early returns pass over.

**Only model-checked.** `ChargeNotLost`, `EnqueuedSettles` and, refuted, `ChargeBooked` and
`TransitRecorded`: liveness under fairness, which TLAPS 1.4.5 does not support (no ENABLED). Every invariant
and every action property of the runs that pass is proved.

## 5. Not modelled, and why

- Prices and discounts outside the engine, texts, addresses, histories, listings: data that no property about states tells apart.
- Signatures and formats of the gateways, fee calculation, labels: pure computation at the edge. What a callback *says* (success, failure, the word for a stage, the event id) is modelled, including GHN's mapping of unknown words and its event ids.
- Users and ownership: each check refuses before anything is written, and no property is about who acts.
- Idempotency keys: a replay returns the row it finds.
- Rows for refunds: no code makes one.
- Accounts (passwords, lockout, verification of addresses, reset, OAuth), and the expiry of refresh tokens after a week.
- Templates of notifications, targets and validation of vouchers, paths of categories, images and attributes of products.
- The web shop's pages, its cart store and the steps of its checkout page; the admin console, whose session code has a cookie and an expiry of its own and does not store the token of a refresh.
- users, media, admin, audit, review, platform, packages, infrastructure: single-row operations, wrappers, scaffolds or deployment.

The models map about a tenth of the repository's lines. The rest is, in the order of its
size: pages and tables of the two React clients, DTOs with their validation, listings and
their mapping to responses, seeds in three copies, controllers and Swagger decorators,
exceptions, configuration. It has no state that two actors share, or reads it only.

## 6. Plan

Order of work, the most important behaviour first.

1. *(done)* `StockRow`, `Totals`, `StockPromise`, `Checkout`, with proofs, the refinement among them.
2. *(done)* `OrderStatus`, `Payments`, `Inventory`, `Shipping`, with proofs; `Storefront` composing checkout and orders, with proofs.
3. *(done)* `Vouchers`, `Notifications`, `Sessions`, `Catalog`, `Promotions`, `Cart`, with proofs.
4. The checkout page of the web shop composed with `Checkout`: what a lost answer, a reload and the back button leave reserved.
5. Accounts: the columns shared by verification, reset and lockout under concurrent requests.
6. `OrderNumber`: the number as text, its order against the number's, at the end of the six digits.
