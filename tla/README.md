# A TLA+ model of the Walrus marketplace API

This directory models the concurrent core of the marketplace backend
(`apps/api`, a NestJS application over PostgreSQL through Prisma): the
idempotency wrapper around every mutation, the cart, the stock it reserves, the
orders placed from it and the payments that settle them; and the protocols of the
people behind it: sessions and password resets, privileged identities, sellers
and the moderation of their products. Paths below are
relative to the repository; `M/` stands for `apps/api/src/modules/`.

Run a model with `tlc -config MCStockPool.cfg MCStockPool`, check a proof module
with `tlapm OrdersProofs.tla`.

## 1. The system

The API is one stateless process type, of which several instances may run. All
state is in PostgreSQL. A mutation is an `async` service method; between two
`await`s of one request any other request may run, in the same process or in
another. Three devices keep concurrent requests apart:

* **optimistic versions**: an aggregate is read, a change set is computed, and
  `save` updates the row `WHERE aggregateVersion = <the version read>`, in one
  transaction with the rows that go with it (`assertVersionUpdated`);
* **unique constraints**, where no row exists yet whose version could be compared;
* **idempotency rows** (`api_idempotency_records`), inserted before the operation
  and completed or deleted after it.

Stock alone uses a **row lock** (`SELECT ... FOR UPDATE`). No transaction spans two
modules, and nothing repairs what a dead process left half done.

| Component | State | Operations | What makes it correct |
|---|---|---|---|
| Idempotency (`M/identity-authentication/.../api-idempotency.service.ts`) | rows PROCESSING or COMPLETED per scope, operation and key | `execute` = acquire, run, complete or abandon | one effect per key, replays match the request, failures free their key |
| M01 identity and authentication | identities, credentials, sessions with rotating refresh tokens, challenges, MFA factors, recovery requests | login, refresh, logout, revoke, `requestReset` and `confirmReset`, lifecycle changes, provisioning of privileged identities | tokens form a chain, what was revoked stays revoked, a challenge resets one password |
| M02 authorization | authorities, bootstrap control, activation sagas, readiness inbox, role assignments, eligibility | issue, authorize, begin, `receive`, `complete`, `cancel`, `expireDue`, reconcile, `invalidateEligibility`; `revokeRole`; assign and revoke the SELLER role | a role comes from one completed saga and one attestation, and eligibility lasts until it is withdrawn |
| M03 sellers | profiles, associations, verifications, state transitions, warehouses, legal holds | onboard, submit, claim, decide, activate, suspend, reactivate, members, warehouses | reviewer and decider differ and are outsiders, the log tells the life, ACTIVE means the owner has the role |
| M04 catalog | products, variants, SKUs, media, state transitions | create, edit, submit, review, approve, publish, close | the data of what is published were reviewed by two people after their last edit, its SKUs are frozen |
| M05 inventory | stock pools (`onHand`, `reserved`, version), movement ledger, thresholds | `adjustStock`, `adminCorrectStock`, `reserve`, `release` | never oversold, the ledger explains the stock |
| M06 customers | profiles, addresses, preferences | create, update, suspend, close | one default address, closed stays closed |
| M07 cart | one cart per customer, its lines and totals | add, update, remove, clear, `checkoutHandoff`, `expireCart` | totals are those of the lines, the snapshot is the cart |
| M08 orders | orders, order lines, state transitions | `createOrder`, `cancelOrder`, `transitionOrder` | the lifecycle, one order per key, a grant of module 05 for every order |
| M09 payments | payments, attempts, refunds, state transitions | `initiatePayment`, `processWebhook`, `initiateRefund` | the lifecycle, paid means at least authorised, one provider order, one refund |
| platform, web, mobile, packages | none the server depends on | request context, health, clients | |

How they interact: M07 asks M05 to reserve and release (`InventoryReservationPort`)
and hands a snapshot of the cart to M08; M08 asks M05 once more to confirm every
line by reserving it; M09 moves orders (PENDING to CONFIRMED, CONFIRMED to PAID)
through `transitionOrder` and talks to the payment provider, which answers by
webhooks that it may send late, twice or out of order. M01 asks M02 to reserve and
consume the authority behind every privileged identity, and attests to it when the
identity is ready; M03 asks M02 for the SELLER role of an owner before it saves an
activation, and takes it back when the save fails; M04 and M05 ask M03 who owns a
seller, once, at the start of a call.

The **hard behaviours** are listed as hazards, each at its line, in `PROJECT.json`:
check-then-act across awaits (the pending-order check, the payment check, stock
activation), results stored under a key that outlives its request, side effects
made before a guarded save (reserve, then save; release, then save), commits of
two modules with a possible crash in between (CAPTURED, then PAID; locked, then
logged out; role granted, then seller activated), compensations that undo another
call's work, attestations and webhooks out of order, checks of separation of
duties on data that another call may have changed, and unique constraints that a
long legal history runs into.

### What the code does not do yet

Three facts a reader of the models should know, because the models describe the
modules as their ports are specified:

* `OrderCartSnapshotAdapter.registerSnapshot` has no caller, so in this build
  every `createOrder` ends in `ORDER_SNAPSHOT_NOT_FOUND`. `Orders` takes snapshots
  as registered.
* the provider adapter's `createProviderOrder` and `initiateRefund` are stubs that
  always throw. `Checkout` models a provider that behaves as the port's interface
  asks.
* no SQL migration creates the orders tables; `schema.prisma` is taken as the
  definition of their constraints.

Also, a comment of the cart speaks of module 05's 15-minute reservation; no code
lets a reservation lapse, so no model does.

## 2. The modules

```
IdempotencyRecords ---- ApiIdempotency ----implements----> AtMostOnce
      |  |                    ^
      |  |        CartAndIdempotencyProofs   (the wrapper, and Cart)
      |  |
      |  +-- StockPolicy -- StockPool ---------implements----> Stock <-- used by -- Cart
      |                         ^
      |                   StockPoolProofs
      |
      +-- OrderLifecycle -- Orders ------------implements----> OrderBook <-- used by --+
                              ^                                                        |
                         OrdersProofs                  PaymentLifecycle -- Checkout ---+
                                                                              ^
                                                                       CheckoutProofs
```

```
Sellers <-- SellersProofs          Activation <-- ActivationProofs
Sessions <-- SessionsProofs        Catalog <-- CatalogProofs
```

The components that others call are checked against an abstract specification,
and the component that calls one is composed with the abstract one: `Cart` with
`Stock`, `Checkout` with `OrderBook`. That keeps each state space small without
inventing an environment: what the caller relies on is what the callee is shown to
do. `Activation` and `Sellers` hold both sides of their exchange with M02, since
the exchange is what they are about.

| Module | Models | Variables and the tables they stand for |
|---|---|---|
| `IdempotencyRecords` | the row of a key and what acquiring it finds | - |
| `ApiIdempotency` | `ApiIdempotencyService.execute` over its repository, every await a step | `record` = api_idempotency_records; `pc`, `answer` per request |
| `AtMostOnce` | abstract: a key takes effect once | |
| `OrderLifecycle`, `PaymentLifecycle` | the transition tables and `transition()` | - |
| `Orders` | `OrderApplicationService` over `PrismaOrderRepository` | `orders`, `transitions`, `record`; `answers` = module 05's reservation rows, `granted` = what it ever granted (history); `task` = the calls in flight |
| `OrderBook` | abstract: orders move along the lifecycle, one per customer and state | `book` |
| `Checkout` | `PaymentApplicationService`, the order book and the provider | `payments`, `history`, `refunds`; `gateway`, `sent` = the provider; `book`; `task` |
| `StockPolicy` | `InventoryStockPolicy`: pure functions on a pool | - |
| `StockPool` | `InventoryApplicationService`, `InventoryReservationService` over `PrismaInventoryRepository` | `pool`, `ledger`, `record`, `task` |
| `Stock` | abstract: units on hand and units reserved | `onHand`, `reserved` |
| `Cart` | `CartApplicationService` over `PrismaCartRepository` | `carts`, `lines`, `snapshots`; `confirmed` (history); `onHand`, `reserved`, `answers` = module 05's side; `task` |
| `Sellers` | the services of M03 over `PrismaSellerProfileRepository`, with M02's SELLER role | `profiles`, `associations`, `compliance` (derived of the verifications), `log` = seller_state_transitions, `sellerRole` = the last SELLER assignment, `task` |
| `Sessions` | `AuthenticationApplicationService`, `SessionManagementApplicationService`, `IdentityLifecycleApplicationService`, `PasswordResetApplicationService`, for one identity | `identity`, `resets` = credential_history_records, `challenges`, `sessions`, `families`, `tokens`, `task` |
| `Activation` | `PrivilegedProvisioningApplicationService` (M01), `PrivilegedActivationService`, `ReadinessInboxService` and the authority adapters (M02) | `authorities` = provisioning and bootstrap records, `identities`, `sagas`, `inbox`, `grants` = the assignments made, `revoked` = those taken back, `eligible`, `withdrawn` (history), `task` |
| `Catalog` | the product, SKU and moderation services of M04 over `PrismaProductCatalogRepository` | `products`, `skus`, `media` = the number of media references, `log` = product_state_transitions, `task` |

In `Sellers` every operation is a read with its checks (the actions under *The
reads*), an exchange with M02 where there is one, and one `Save` under the version
that was read; `Advanced` says which operations raise the version and
`Compensate` is the catch block of an activation. In `Sessions` the row of a
challenge has no version: `confirmOtpChallenge` compares its state and its count
of attempts (`Unchanged`), so both are in the model; `DeliverOtp` is the delivery
that follows the insertion of a challenge, and cancels it when it fails, provided
the row is still as it was inserted (`AsInserted`). In `Activation` time is left
open: wherever the code compares `expiresAt`, both outcomes are possible. Two actions
end a privilege: `WithdrawEligibility` is what the identity service asks of M02
(`invalidateEligibility`, on a change of MFA or a deactivation), and `RevokeRole` is
an administrator's, which keeps the last super administrator and leaves
eligibility alone. In `Catalog` the data of a product (its own columns) are its
`revision`, the version at which they were last edited; SKUs and media are tables of
their own, which `CloseSku` and `RecordMedia` change without touching the product's
version. A call that reads the SKUs, the media or the log after the product has a
step of its own for that read (`Check`, `CountMedia`).

Module 05 answers a reservation that carries a correlation id once, and repeats
that answer, RESERVED or denied, to every later request under the same id.
`answers` keeps these rows in `Orders` and in `Cart`, and since carts and orders
share them, each has an action for a reservation made by the other
(`ReservedElsewhere`). `Orders` does not hold the counter `reserved` itself: carts
lower it too, and not always rightly (see below), so what orders can rely on is
only what was granted.

**Conventions.** A *call* is one request or callback; `task[t]` holds what its local
variables hold between two awaits, and `pc` names the step it is about to take. A
request that its validation refuses changes nothing and is not a step. The reads
that precede the first write of a call are one step where nothing between them can
matter, and separate steps where it can (the cart row and the cart lines, the
product and its media). A repository transaction is one step. `Drop` is the death of
the process serving a call, possible before every step. Fields marked as history
(the key of an order, what the author of a movement saw, `granted`, `confirmed`) are
written and never read by an action.

A section *Faulty variants* of each module holds mutated forms of its
definitions, each a bug the code could have; no specification uses them. They
show that the properties can fail.

**Data left out.** Prices, addresses, names, audit rows, rate limits, encryption
and the grants that only refuse a request. Correlation ids matter where they
key a reservation: a client may supply one, and only a UUIDv7 is kept (the ids
the platform makes are UUIDv4 and are dropped), so most requests carry none
(`NoCorrelation`, `NoKey`).

## 3. The runs

| Run | Question | Size | Answer |
|---|---|---|---|
| `idempotency` | Do calls under one key, lost anywhere, take effect once, replay only what matches, and always end? | 3 requests, 2 keys, 2 bodies | yes |
| `orders` | Do creations, cancellations and transitions keep the lifecycle, one order per key, grants for live orders, and implement the order book? | 1 customer, 2 orders, 2 calls, 2 keys, 2 SKUs, 1 correlation id; 1.1 million states | yes |
| `checkout` | Was every paid order authorised at the provider, with one provider order, and do refund rows tell one refund? | 1 customer, 2 orders, 2 calls; 2.2 million states | yes |
| `checkout_live` | Does what the provider announced reach the payment? | 1 order | yes |
| `checkout_paid` | Does the order of a captured payment get paid? | 1 order | **no** |
| `stock` | Never oversold, explained by the ledger, movements once per key, implementing `Stock`? | 1 SKU, 2 calls, 1 key | yes |
| `cart` | Totals and snapshot agree with the lines, ended carts stay, nothing unconfirmed? | 1 customer, 2 SKUs, 2 calls, 1 correlation id; 580 000 states | yes |
| `sellers` | Is whoever decides a seller's review neither the reviewer nor an associate, and does the log tell the whole life? | 1 seller, 3 identities, 2 calls, 6 versions; 1.15 million states | yes |
| `sellers_role` | Does the owner of an ACTIVE seller have the SELLER role? | same, 5 versions | **no** |
| `sessions` | Do tokens form a chain, do ended sessions stay ended, does a challenge reset one password? | 1 identity, 2 sessions, 3 tokens, 2 challenges, 2 calls; 450 000 states | yes |
| `activation` | Does a role come from one completed saga and one attestation, does eligibility last until withdrawn, and does the inbox tell the truth? | 1 provisioning, the bootstrap, 2 identities, 2 attestations, 2 calls; 3.4 million states | yes |
| `catalog` | Were the data of what is published reviewed by two people after their last edit, and are its SKUs frozen? | 1 product, 2 SKUs, the owner and 1 other administrator, 2 calls, 8 versions; 3.9 million states | yes |

**Bounds.** Two calls in flight are what a lost update, a check-then-act race or a
duplicate needs; the idempotency run has three, since a third call can come between
the insert and the completion of another and its retry. Everything a unique
constraint or a lock separates (customers, SKUs of different pools) does not
interact, so one of each shows every interleaving; the cart and an order get two
SKUs, because a failure between the first and the second line is the interesting
case. Named bounds: `MaxVersion` (saves of a cart, changes of a pool),
`MaxConfirmed` (units ever confirmed to a cart: one that was reserved and one by a
repeated answer), `MaxTries` (provider orders), two idempotency rows in
`MCStockPool`. `MCOrders` follows orders to PAID and CANCELLED (SHIPPED, DELIVERED
and CLOSED are further edges of the same kind); `MaxGranted` lets module 05 grant
each line twice, so that one grant may be lost, or made to a cart, and the next one
used. The creations under its second key carry the correlation id and those under
the first may, which covers shared and separate ids. `MCCart` keeps at most one
answer of module 05 at a time, since one is what a repetition needs. `Checkout`
follows orders to the end. `MCSellers` follows a profile to version 6, past a
request for corrections and a second review to a decision, and three identities are
what separation of duties needs (owner, reviewer, decider); `MCCatalog` to version
8, past a request for corrections and a resubmission to a second review and a
publication, with the owner among the administrators and a limit of one media
reference; `MCSessions` has three tokens, so a rotated token can be rotated again,
and two attempts, so that one wrong code leaves the challenge open and two close it;
in `MCActivation` a saga can fail, resume, expire or be cancelled within version 4
(`MaxVersion`), the two together within 6 (`MaxVersions`), and the two operations
may be for one identity or for two. `MaxQuantity`, `MaxLines`, `MaxItems` and
`MaxUnits` are small values of the code's limits, so that runs reach them.

**Deadlock** is not checked: all calls may have been lost or answered, with every
identifier and key used up, and then nothing is left to do.

**Symmetry** is used in runs without liveness only, over calls, and over order ids,
SKUs and identities where the constants treat them alike (in `MCCatalog` the owner is
one of the administrators, so these are not).

**Fairness.** `ApiIdempotency`: a call that is not lost is resumed (weak fairness of
its own step; Node runs every settled promise). `Checkout!FairSpec`: strong
fairness of each call's work and of the reception of each webhook that was sent.
The provider repeats a webhook until it is accepted, and a process that dies is
restarted; a call may be dropped any number of times, but not every time it
could have gone on. No fairness is assumed of customers, administrators or the
provider's decisions.

`Sellers`, `Sessions`, `Activation` and `Catalog` state safety only: people start
every operation, and no code of theirs runs by itself.

### Findings

1. **Captured, but never paid** (`checkout_paid`). CAPTURED is committed before
   module 08 is told. If the process dies in between, the repeated webhook is
   refused (CAPTURED to CAPTURED is no edge) and the order stays CONFIRMED.
2. **An ACTIVE seller whose owner lost the role** (`sellers_role`). One
   approved seller is activated twice at the same time. Both calls are told that
   the owner has the SELLER role, one saves, and the save of the other is refused;
   its compensation then revokes the role the first activation stands on.
   `seller-authorization-application.service.ts:75` promises that concurrent
   activation resolves without partial state, and line 83 that there is no ACTIVE
   seller without a role.

### What the models also show

Disagreements and gaps that no run is spent on, since a property would restate
the guard or the missing guard that causes them. The actions reproduce each.

* *Orders.* What orders hold is bounded by what module 05 granted, not by what it
  has reserved now: carts lower the same counter, and a refused save or a retry of
  theirs releases units twice (`cart-application.service.ts:403`, 468, 540, 612),
  which takes from whoever else reserved. The retry of a completed creation is
  refused because of the order it created (decision D-12 promises the stored
  answer). `@@unique([customerProfileId, state])` was meant for PENDING, but a
  customer with one CANCELLED order can never cancel another. Reservations of ended
  orders are never released. Two requests that share a correlation id share one
  reservation, so two orders may stand on one grant: `OrdersStandOnGrants` counts
  such units once.
* *Cart.* Releases come before the save that gives the lines up, so a refused save
  leaves a cart with unreserved lines (D-06 of module 07). Under a repeated
  correlation id a line is confirmed by the answer to an earlier request and
  reserves nothing, against D-06 as well: `LinesWereConfirmed` therefore speaks of
  answers, not of units set aside. A line that grows is not checked
  against the total (D-18). An ended cart's row bars its customer from another.
* *Payments.* `processWebhook` takes `payment.authorized` for a capture: it moves the
  payment to CAPTURED and the order to PAID before the provider has captured
  anything. Decisions D-03 and D-05 of module 09
  (`docs/module-09/decision-register-review-draft.md:45`, 47) ask for a capture, so
  `PaidOrdersWereAuthorized` promises an authorisation only. The webhook of a refund
  appends a REFUNDED row of the full amount beside the PENDING row that the
  administrator's request wrote, so the rows together exceed what was captured
  (D-04, line 46). A declined attempt ends the payment although the customer may try
  again at the provider. A payment whose provider order was refused blocks every
  later initiation.
* *Sellers.* Two concurrent creations with one identity and different registration
  data give it two sellers: the unique pair is (seller, identity).
* *Sessions.* A password reset whose code could not be delivered is cancelled,
  unless somebody confirmed it or failed to in the meantime: the cancellation is
  then refused and the challenge stays what it was
  (`password-reset-application.service.ts:188-215`). A login that read the identity
  before it was locked, or a crash between locking and logging out, leaves a live
  session. Every access checks the identity's state
  (`authoritative-session.guard.ts:73`), so it is of no use until the identity is
  active again.
* *Activation.* `revokeRole` (`authorization-application.service.ts:213-260`) leaves
  the eligibility of the identity ELIGIBLE, while amendment 003
  (`m4-post-provisioning-activation-contract-amendment-review-draft.md:353-355`)
  says that a revocation invalidates it. The privilege is denied all the same, since
  a decision needs an ACTIVE assignment too (lines 478-483). A second call for the
  bootstrap that fails moves the record, which the first has RESERVED, to
  RECONCILIATION_REQUIRED; nothing leaves that state, so neither can complete
  (ANNEX-05 section 7: concurrent consumption permits one winner).
* *Catalog.* What is published need not be what was reviewed, apart from the product's
  own data. Closing a SKU is allowed in UNDER_REVIEW and APPROVED, and recording a
  media reference in every state, and neither raises the product's version
  (`product-variant-sku-application.service.ts:186`,
  `product-media-application.service.ts:41-107`); the formal specification of module 04
  (section 5, invariants 3 and 12, and section 13.6) has them covered by the approval.
  A submission that counted the SKUs before one was closed still saves, and the
  product can be published without an active SKU (section 22; D-16,
  `docs/module-04/decision-register-review-draft.md:64`, asks for at least one). Two
  recordings that both counted the media exceed the limit of ten (D-16 too). That the
  owner neither reviews nor approves (D-10, line 58) is not checked either: what is
  shown is that the reviewer and the approver differ, the owner possibly being one.

## 4. The proofs

TLC answers for the sizes above; the theorems hold for every value of the
constants. They rest on the named assumptions of the modules (`NoneAssumption`
and its like: a marker is not a key; limits are natural numbers), which TLC
evaluates in each run. `Cart` adds that the catalog is finite, which the proofs
need to count what is in a cart.

Sums (the items of a cart, the units owed to orders) are stated as the size of a set
that has one element for each item or unit. A fold computes the same number, but its
laws need induction over data; the size of a set obeys the library's theorems on
finite sets.

* **`CartAndIdempotencyProofs`**, on `ApiIdempotency`. The properties are not
  inductive: that a key has at
  most one effect depends on who owns its row. `Ownership` adds it: a call between
  its insert and its answer owns the PROCESSING row of its key (`Running`), a row
  vouches for what was committed under its key (`Vouched`), and an answer is the
  stored one (`Answered`). From `Init => Ownership` and its preservation by every
  action follow `TypeCorrect`, `EffectsAreUnique`, `FailuresFreeTheirKeys` and
  `ReplaysMatch`. `ImplementsOnce` maps each step to a step of `AtMostOnce` or to
  a stutter: committing is the abstract effect, everything else stutters.
* **`CartAndIdempotencyProofs`**, on `Cart`. `CartInv` adds to the properties what a
  call in flight knows: the cart it read is the stored one, and open, while the
  version stands (`ReadIsFresh`), and the lines it plans to save have the totals it
  plans to save and hold only units it was answered RESERVED for, for as long as it
  may save them (`PlanIsSound`). The guarded save then keeps the properties, since a
  refused one changes nothing: `CartTypeCorrect`, `TotalsAreRight`,
  `SnapshotsAreTheCarts`, `CartsHoldConfirmedUnits`, and step by step
  `EndedCartsAreFinal`. `CartsUseStock` shows that whatever a cart call does to the
  counters is a step of `Stock`, which `StockImplemented` shows `StockPool` to
  implement.

* **`StockPoolProofs`**. The invariant has three layers, because the properties need
  different memories of a call. `Sound`: the shapes of the tables, what each step
  of a call holds (`Fits`), and `reserved <= onHand`; it is kept because every
  change is `StockPolicy`'s and the policy refuses what would oversell
  (`TypeCorrect`, `StockNeverOversold`, and, step by step, `StockImplemented`).
  `Explained`: the ledger leads to the pool, and what a pending movement saw has a
  version the pool has reached, and is the pool's stock while the version is the
  same (`Seen`); without it the guarded write could not be
  shown to act on what its author read (`LedgerIsComplete`,
  `MovementsActOnSeenStock`). `Keyed`: a call past its insert owns its PROCESSING
  row, and no row of a movement that took effect is ever deleted (`KeysMoveOnce`).
* **`OrdersProofs`**. Four layers. `Sound`: shapes, and `Recalls`: a call that
  read an order knows its state for as long as the order has the version it read;
  this is what turns the version comparison of `save` into a check of the
  lifecycle (`TypeCorrect`). With it, `OrderSteps` shows that every step leaves the
  orders alone, places one, or saves one along an edge from the state it is in,
  from which `HistoryIsComplete` (layer `Told`) and the refinement
  `OrderBookImplemented` follow. `Keyed`: a creation between its insert and its
  order owns its row and no order has its key; the row of a placed order is never
  deleted (`KeysPlaceOneOrder`). `Covered`: the units owed
  to orders, those that unfinished creations hold, and those that a repeated answer
  would hand out once more (`Shared`), are together no more than what was granted.
  The property speaks of the first only and is not inductive, since `InsertOrder`
  adds to them without a grant: it hands over what its call held, or what the answer
  under its correlation id stood for. Units are tagged with their owner, which is the
  correlation id where there is one, so that requests sharing an id share the units
  too. `OrdersAreGranted` concludes `OrdersStandOnGrants` for any set of correlation
  ids and any reservations of carts under them.

* **`CheckoutProofs`**. The composed state of payments, order book and provider
  needs five parts. `KnownInv`: what a call read of a payment is its state as long
  as the version stands. `Told`: the episodes lead along the lifecycle to the stored
  row (`SpecPaymentHistoryMatches`). `Opened`: only the call that inserted the
  payment of an order may open an order at the provider, and while it may, none is
  open (`SpecOneProviderOrder`). `Backed`: it follows an authorisation from the
  provider over each webhook that was sent and each call that handles one to the
  payment and to module 08's order (`SpecPaidOrdersWereAuthorized`). `AskedOnce`: a
  payment was asked to be refunded exactly if its history went through
  REFUND_PENDING, and then once, because no edge leads back to CAPTURED and a second
  request is refused by the version; and it was made at most once, for nothing
  leaves REFUNDED (`SpecRefundRowsTellTheLife`). `SpecUsesOrderBook`: whatever a
  call does to an order, the abstract order book allows. With `OrderBookImplemented`
  it closes the composition: `Checkout` relies on nothing that `Orders` is not shown
  to do.

* **`SellersProofs`**. `SeenInv`: what a call has read is the profile as long as the
  version stands, and what it has checked of the ties and of the log stays true
  as long, because every change of them raises the version. `LogInv`: episodes
  have distinct versions, none beyond the profile's. Together they make the
  version comparison of `Save` a check of the whole change set, from which
  `LogTellsTheLife`, `DecisionsAreSeparated` and the action property
  `DecidersAreOutsiders` follow. `TiesInv`: a seller without a profile has no ties
  and no log.
* **`SessionsProofs`**. `Paired`: a session and its family end together, so a rotation
  that finds the family active cannot revive one (`SpecRevokedForGood`).
  `Chain`: it says `TokensFormAChain` by the links of the tokens instead of by
  counts, with what a fresh token needs (`Linked`: no token names a parent that does
  not exist), and `ChainCounts` leads back to the counts (`SpecTokensFormAChain`).
  `OneReplacement`: a call about to replace the password is the only one its
  challenge admitted, and no password was set by it before. A failed delivery cancels
  only a challenge that admitted nobody, so it disturbs neither
  (`SpecOneResetPerChallenge`); `AttemptsLeft` bounds the attempts, which the type
  invariant needs.
* **`ActivationProofs`**. Four layers: `Authorized` (whoever prepares or expires
  something has an authority), `Held` (the one call that inserted an identity works
  for the one operation that may found a saga for it: `SpecOneSagaPerIdentity`),
  `Granted` (what a completed saga leaves, and that only a withdrawal of its own takes
  its eligibility back: `SpecPrivilegeFollowsSaga`; that the expiry of another
  operation does not needs `Held`) and
  `Delivered` (what a delivery under way has stored: `SpecInboxTellsTheTruth`).
* **`CatalogProofs`**. `SeenInv` as in `SellersProofs`, with what a call may do in
  the state it read; `LogInv`; `ReviewInv`, which says for every state from
  UNDER_REVIEW to PUBLISHED which review it stands on
  (`SpecPublishedDataWasReviewed`); `CheckInv`, that the reviewer found in the log
  is the last while the version stands. `SkuInv` ties SKUs to existing products
  (`SpecPublishedSkusAreFrozen`).

The type invariants of `Sellers`, `Activation` and `Catalog` are only proved; those
of the other modules are also checked by the runs.

Only model-checked: the liveness properties (`EveryCallAnswered`,
`PaymentsSettle`), which need fairness and ENABLED. The properties that the code
violates (the findings) are refuted by TLC. Every other property of a run is also a
theorem.

## 5. Not modelled

* **M01**: registration and the verification of an address or number, MFA enrollment
  and replacement, recovery requests. Their challenges follow the protocol of
  `Sessions` (bounded attempts, confirmation that compares the row), their records
  the version guard; keys, digests and codes are data.
* **M02**: decisions on permissions are reads; signatures, audiences and key rotation
  only refuse a message. Role assignments that an administrator makes by hand
  are single transactions.
* **M03, M04**: retention, legal holds and purges are batch deletions of ended
  sellers' evidence; attribute values and the data of variants are saved with the
  product. Of media, `Catalog` has the number only.
* **M05 thresholds**: one configuration record, changed by administrators; replacing
  a value a second time meets the unique pair (configKey, RETIRED).
* **M06 customers**: profiles, addresses and preferences belong to one customer, are
  saved in one transaction under the version guard, and no modelled call depends
  on them after its first step.
* Reads, audit trails, rate limits, encryption and provider signatures are pure
  functions or input and output. The **web and mobile clients** and the **generated
  Prisma code** make up most of the repository's lines; they hold no state the
  protocols depend on, so the models cover a small share of the lines and most of
  those that decide an order of steps.
