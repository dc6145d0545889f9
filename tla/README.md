# A TLA+ model of the e-commerce backend

This directory holds TLA+ modules for the Django/Celery e-commerce backend under
`src/`, TLC configurations that check them on small instances, and TLAPS proofs
of their main invariants. The modules are translated from the code: an action is
a statement (or a run of statements nobody else can observe in between) of a
service method, and `PROJECT.json` maps every definition to the lines it models.

## 1. Inventory of the system

| Component | State | Operations | Talks to | What is hard |
|---|---|---|---|---|
| Order service (`apps/orders/services.py`) | `orders`, `order_items` | `place_order`, `update_order_status`, two read queries | cart, inventory, Celery | two long transactions over several rows, with stale in-memory instances, row locks, rollback, tasks sent before the commit |
| Inventory (`apps/inventory/models.py`) | `quantity_on_hand`, `quantity_reserved`, `stock_movements` | `reserve`, `release_reservation`, `deduct` | called by the order service | read-modify-write without lock; clamping at zero |
| Cart (`apps/cart/models.py`) | `carts`, `cart_items` | none of its own (views are stubs) | read and emptied by `place_order` | rows arriving while an order is placed |
| Background tasks (`celery_tasks/`) | Celery queue, mails sent, notification rows | confirmation mail, notification, three account mails, low stock, daily report, token cleanup | everything, by id | run before the publisher commits; retries; workers that die |
| Authentication (`apps/authentication/`) | verification tokens, reset tokens, password, refresh-token blacklist | register, verify, resend, login, logout, forgot, reset, change, OAuth | users, Celery | check-then-act on one-time tokens, no row locks |
| Users (`apps/users/`) | role, status, activity flag, failed-login counter, lock | profile, role, status, soft delete, login bookkeeping | permissions | lost updates of the counter, a lock cleared by an overtaken login; actors judged on copies that outlive their role |
| Product catalog (`apps/products/`) | products, variants, categories, Redis cache | cached reads, create, update, soft delete | cache | cache filled with pre-commit values, invalidation before the commit and under the new slug only, full saves from stale instances, soft-deleted slugs |
| Permissions (`core/permissions/`) | none | role predicates | users, products, dashboard | lists of roles that are not cuts of the hierarchy |
| Dashboard (`apps/dashboard/`) | a cached summary per role | a dozen queries, one `cache.set` | orders, users | torn snapshots; the day ends between two queries |
| Audit logs | an append-only table | reads | users | - |
| Payments, invoices, files, notifications, categories, reports | model classes | none (stub views) | - | - |
| Core and configuration | none between requests | envelopes, paging, errors, middleware | - | sets the concurrency: 4 gunicorn workers of 2 threads, Celery concurrency 4, PostgreSQL READ COMMITTED, no ATOMIC_REQUESTS |

Nothing in `src/` calls the order service over HTTP (the order and cart views are
stubs). Its callers are therefore external, and the models let them do whatever
the method signatures accept, or, where a run says so, only what the life cycle of
an order suggests.

What makes the components correct:

- *Orders and inventory*: reservations equal what open orders ask for; no unit is
  promised twice; what leaves the shelf was delivered and is in the audit log;
  delivering is all or nothing; a timestamp once written stays; every request ends.
- *Tasks*: no mail about an order that does not exist; every task ends.
- *Authentication*: a one-time token works once; of several links only the latest
  works; an address counts as verified, and a password changes, only with the link
  that allows it consumed in the same transaction; no link lifts a suspension; single-row
  statements in opposite lock orders do not deadlock.
- *Sign-in*: wrong passwords in a row lock the account, a lock is never set for nothing,
  and only requests that had read the user earlier disturb it.
- *Users*: no chain of role changes gives a rank nobody was above; the administration is
  not locked out by requests of people in charge; one request writes one column.
- *Catalog*: a deletion that no update overlapped is final; what a reader put into the
  cache undisturbed stays right but for the known gaps; staleness ends with the timeouts.
- *Dashboard*: the figures of one summary are consistent with each other.

## 2. Plan

1. (done) `StockLedger`: the abstract ledger. `OrderService`: the two transactions
   statement by statement, and that, kept apart, they implement the ledger.
   `OrderTasks`: the worker beside them. Type invariants, the inductive invariant
   of the order service and the ledger's invariants proved.
2. (done) Authentication: verification and reset links of one account with
   register, verify, resend, forgot, reset, change, an administrator's status change
   and the cleanup task. Two inductive invariants, of any number of requests and of one
   at a time, and every safety property proved.
3. (done) Account lock: `SignIn`, `login` with `record_failed_login` and `record_login`
   as read-modify-write, and a clock. Inductive invariant and all properties proved.
4. (done) `Catalog`: cache and table with readers, transactions and soft deletes.
   Invariant and safety properties proved, eventual coherence checked.
5. (done) `Permissions` and `Staff`: role, status, deactivation and profile requests
   with the permission classes that guard them. Proved.
6. (done) `Dashboard`: the summary as a snapshot taken piece by piece. Proved. The worker
   beside the service: it disturbs nothing, and mails committed orders only. Proved.
7. (done) `OrderSerial`: the order service implements the ledger as long as the requests in
   flight concern different orders and different records, for every cart and stock that
   meets the conditions the module names, and the ledger's theorems carry over.
   `CustomerTold`; the serial properties of the links; which requests can wait in a circle.
8. (done) `OneTimeLinks`: what an account and its links promise, implemented by
   `AccountLinks` one request at a time.
9. (left) The same for links under a weaker condition than one request at a time; what
   `Catalog` and `Staff` promise when requests do not overlap.

## 3. Modules

| Module | Contents |
|---|---|
| `StockLedger` | The abstract specification: orders are placed, cancelled, delivered atomically. |
| `MCStockLedger` | Two records, three orders. |
| `StockLedgerProofs` | Its inductive invariant `LedgerInv` and four properties, proved. |
| `OrderService` | The detailed specification of `place_order` and `update_order_status`. |
| `MCOrderService` | Two customers, three cart items, two records, with variants or a missing record. |
| `OrderSerial` | Extends `OrderService` with the conditions under which the counts stay exact, the specification `ApartSpec` of requests that never meet, and the invariants that show it. |
| `OrderTasks` | Extends `OrderService` with the Celery worker and the account mails beside. |
| `MCOrderTasks` | One order, one item, one account mail. |
| `OrderServiceProofs` | `OrderInv` inductive; `TypeOK`, `DeliveryLogged`, `StampsKept`, `OnHandOnlyByDelivery`, `CustomerTold`; the composition implements `OrderService!Spec`; `MailOnlyForOrders`, `EffectsBounded`. |
| `OrderSerialProofs` | `CartInv` and `ApartInv` inductive. Any number of requests that are apart: `RowsConserved`, `OnHandAudited`, `ImplementsLedger`, and through it `ReservedIsHeld` and no overselling; `MovesExact`. One request at a time as a special case. |
| `OneTimeLinks` | The abstract specification of the account: links are sent, replaced and followed atomically, one of each kind at most works. |
| `AccountLinks` | `AuthService` around one address, and the token cleanup. |
| `MCAccountLinks` | Workloads: all kinds of request one at a time, and a contended account. |
| `AccountLinksProofs` | `AccountInv` inductive; `TypeOK`, `SpentIsUsed`, `VerifiedByLink`, `TokensOnlyAge`, `PasswordByHolder`, `CirclesAreSweeps`. `SerialInv` inductive for one request at a time; `SingleUse`, `OneLiveLink`, `VerifiedNeedsNoLink`, `StatusByAdministrator`, `ImplementsLinks`. |
| `SignIn`, `MCSignIn`, `SignInProofs` | `login` and the brute force lock of one account. |
| `Permissions` | Ranks, allowed roles, `has_permission`. |
| `Staff`, `MCStaff`, `StaffProofs` | Extends `Permissions`: who changes whose role, status, activity flag and profile. |
| `Catalog`, `MCCatalog`, `CatalogProofs` | `ProductService`: cache, transactions, soft deletes, slugs. |
| `Dashboard`, `MCDashboard`, `DashboardProofs` | `DashboardSummaryView` beside orders and the calendar. |

Operators whose comment says *Mutant* are seeded faults: each is a variant of the
definition that follows it, used to test that the named property notices the
fault. They are no part of the specifications.

### State of `OrderService`

| Variable | Code |
|---|---|
| `inv` | committed rows of `inventory` (`onHand`, `reserved`) |
| `cart`, `shelf` | committed `cart_items`; items not in any cart yet |
| `orders` | committed `orders` and `order_items`: lines, status, which timestamps are set |
| `moves` | committed `stock_movements` |
| `queue` | every task passed to `.delay` |
| `pc`, `arg` | position and arguments of a request |
| `inst`, `order`, `todo` | the Python objects of a request: an `Inventory` instance per item, its `Order`, the rest of the loop |
| `rows`, `sales`, `cleared` | what its transaction wrote and nobody else sees yet; also its row locks |

An order and the request that places it have the same name; its lines are the cart
rows it was built from, so that buying a row twice can be seen.

### Actions and code

| Action | `apps/orders/services.py` |
|---|---|
| `StartPlace`, `EmptyCart` | 48-57, 224-229: cart and items are read with their inventory instances |
| `Reserve`, `ReserveRefused` | 234-246 with `Inventory.reserve` (`inventory/models.py` 62-68): check and sum on the instance, UPDATE of one column |
| `CreateOrder` | 62-118: INSERT of order and items, DELETE of the cart's rows |
| `PublishEmail`, `PublishPlaced` | 121-133 |
| `StartUpdate`, `OrderMissing`, `Lock` | 147-167: SELECT FOR UPDATE, status and timestamp on the instance, query of the items |
| `Release`, `Deduct` | 251-258 with `release_reservation`, 263-279 with `deduct` and the movement |
| `PublishStatus` | 169-190 |
| `Commit`, `Rollback`, `Abort` | `@transaction.atomic`, lines 34 and 138; the INSERT that meets a taken order number |
| `WaitsFor`, `BreakDeadlock`, `Visible`, `Orderings` | PostgreSQL: row locks, deadlock detection, own uncommitted writes, no ORDER BY |
| `AddToCart` | external: the cart's clients |

Three granularity choices need a word. `Lock` reads the order and its items in
one step: the order row is locked and nothing changes the items of a committed
order, and a concurrent commit between the two queries of the inventory is covered
because the inventory read is the last of them and `Lock` may be delayed to that
point (another update of this order would wait anyway). `Deduct` writes the
inventory row and its movement in one step, since the row is locked and the
movement invisible until the commit; a crash between the two has the same effect
as a crash after both, a rollback. The full save in `PublishStatus` is followed by
`.delay`, whose effect is the only visible one.

### State and actions of `AccountLinks`

| Variable | Code |
|---|---|
| `user` | the committed row of one address in `users`: verified, status, password |
| `tokens`, `expired` | committed rows of both token tables (absent, unused, used, deleted); tokens whose `expires_at` has passed |
| `mail` | tasks passed to `.delay`: a link per token, a welcome per verification |
| `spent` | history: committed verifications and resets with their token |
| `pc`, `arg` | position and locals of a request |
| `wuser`, `wtok` | what its transaction or statement wrote and nobody else sees yet; also its row locks |

| Action | `apps/authentication/services.py` |
|---|---|
| `StartRegister`, `InsertUser`, `AddressTaken`, `MailLink` | 51-81: `validate_email` in the serializer, the two INSERTs (invisible until the commit, hence one step), the unique constraint, `.delay` |
| `StartVerify`, `LinkRefused`, `Consume`, `ConsumeDeleted`, `Activate`, `MailWelcome` | 87-110; `consume` is `save(update_fields=["is_used"])`, which raises when the row is gone |
| `StartLink`, `NoLink`, `RevokeBegins`, `VisitRow`, `RevokeEnds`, `Issue`, `MailLink` | resend 112-132 and forgot 202-223, in autocommit mode |
| `StartReset`, `SetPassword`, `Consume`, `RevokeBegins`, `VisitRow`, `RevokeEnds` | 225-244, in one transaction |
| `StartChange`, `ChangePassword` | 246-252 |
| `SetStatus` | `UserService.update_status`, one UPDATE of one column |
| `StartCleanup`, `VisitRow`, `SweepEnds` | `celery_tasks/notification_tasks.py` 89-101: one cutoff, two DELETEs |
| `Commit`, `Rollback`, `Abort` | `@transaction.atomic`; a failure at any statement |
| `Expire`, `Fresh`, `UserFree`, `TokenFree` | external: the clock, `secrets.token_urlsafe`, PostgreSQL's row locks |

A link is used by a request only after it was mailed; a token that does not exist is
like one whose registration rolled back. The UPDATE of all unused tokens and the DELETE of
the expired ones take their rows from a snapshot (`arg.old`), lock them one by one in any
order (`VisitRow`), and hold what they have while they wait for the next. So two of them can
wait for each other, as can a reset, which keeps the lock of the token it consumed, and such
a statement; PostgreSQL ends this with an error for one of them, a failure that `Abort`
stands for. One account is enough: no statement here
touches the rows of two, except the cleanup, which treats each row alone.

### State and actions of `OrderTasks`

`outcome`, `tries` and `effects` are the result, the retries and the mails or rows of
every task, `posted` the account mails (`AuthService` calls `.delay` for them; whether it
does is the matter of `AccountLinks`). `Run` is one execution: `DropMail` when the order
is not there (`email_tasks.py` 145-151), `Succeed`, or `Fail` before or after the effect,
with `self.retry` until `max_retries`. `WorkerDies` loses an acknowledged task.

### State and actions of `SignIn`

| Variable | Code |
|---|---|
| `row` | committed `failed_login_attempts`, `locked_until` of one user |
| `open` | verified, status active and `is_active`, all three |
| `now` | the clock, in ticks |
| `pc`, `copy` | position of a thread and its `User` instance |
| `wrong`, `locks`, `streak` | history: failures recorded, locks set, failures in a row from fresh copies |

| Action | Code |
|---|---|
| `Read`, `RefuseLocked`, `WrongPassword`, `RightPassword`, `RefuseClosed` | `authentication/services.py` 138-178 |
| `RecordFailedLogin`, `RecordLogin` | `users/models.py` 166-179: both columns, computed from the copy |
| `Read(w, "unlock")` | `unlock_account`, 181-185: no code calls it, a console session may |
| `SetOpen`, `Tick`, `Abort` | verification, suspension, deactivation; the clock; a killed thread |

### State and actions of `Staff`

| Variable | Code |
|---|---|
| `row` | committed `role`, `status`, `is_active` of every user |
| `pc`, `req` | position of a request; its actor with the role that was judged, target, what is asked, the loaded instance |
| `first`, `saves` | history: the roles given at creation; a bound |

| Action | Code |
|---|---|
| `Admit` | JWT authentication, permission class (`users/views.py` 81-126) and serializer (`serializers.py` 89-107) |
| `AdmitProfile` | `MeView.patch`: the authenticated instance itself is saved |
| `Load` | `get_user_or_404` and the rules of `update_role`, `update_status`, `soft_delete_user` |
| `Save` | `UserRepository.update` with `update_fields` |

The names and phone of a profile are data; what matters is that its save, from a copy as
old as the request, touches none of the three columns.

### State and actions of `Catalog`

| Variable | Code |
|---|---|
| `rows` | committed products: absent, live or soft-deleted, slug, how shown, last writer |
| `cache` | Redis: one key per slug and `products:featured` |
| `wpc`, `task` | position of a write transaction and its instance; also its row locks |
| `rpc`, `page` | position of a reader, its key, what its query returned |
| `alone`, `clean`, `sealed` | history: undisturbed readers, keys they filled, products deleted while no update held an instance |

| Action | `apps/products/services.py` |
|---|---|
| `Miss`, `Query`, `Fill`, `LeaveUnserved` | 36-54 and 91-105; a cached empty list is a miss too (`if cached`) |
| `StartCreate`, `StartUpdate`, `StartDelete` | 56-65 and the first lines of each service, with `ProductWriteSerializer` |
| `SaveAll`, `SaveDeleted` | `product.save()` of every column; `SoftDeleteModel.delete` of the deletion columns |
| `Invalidate` | 160-164: after the save of an update, before that of a delete, never after a creation |
| `Commit`, `Abort`, `Expire` | `transaction.atomic`; a refused slug, Redis or a worker that fails; TTL or eviction |
| `Locked`, `InQuestion` | external: PostgreSQL's row locks and its unique index, which waits for an open transaction |

The order of the featured list and its limit of twelve are left out: the instances are
smaller than twelve, and an entry is compared as a set.

### State and actions of `Dashboard`

`born` is `created_at` of the committed orders, `day` the clock, `cache` the summary per
role, `today` and `sums` the locals of `get`. `Begin`, `CountTotal`, `CountToday`,
`CountMonth`, `CountSpread` and `Keep` are the queries of `apps/dashboard/views.py`
33-115 in their order; `Place` is the commit of an order, `NextDay` and `Expire` the
clock and the cache timeout.

## 4. Runs

| Run | Shows |
|---|---|
| `StockLedger` | The ledger keeps `ReservedIsHeld`, `StockConserved`, `NoOversell`. 3 orders of 0-2 units of 2 records (3 and 2 units). |
| `OrdersApart` | `ApartSpec`: two requests at a time that concern different orders and records, nobody touching a cart that is being bought, disciplined callers and one record per line. `reserved` is what open orders hold, units and cart rows are accounted for, and the service implements `StockLedger!Spec`, whose theorems (`NoOversell` among them) so carry over. Failures (`Abort`) happen at every statement. 3 placements, 2 updates. |
| `OrdersConcurrent` | 2 placements and 2 updates, three of them at a time, callers asking for any status at any time: what holds regardless of the races. |
| `OrdersLiveness` | Under `FairSpec` every request ends, with lock waits and deadlocks over two records, and items without an inventory record. |
| `OrderTasks` | The worker races the transactions: no mail without an order, and under `FairTasksSpec` every task settles. One order, whose confirmation and notification, with one account mail, are all the worker has to tell apart. |
| `LinksSerial` | One at a time: `SingleUse`, `VerifiedNeedsNoLink`, `StatusByAdministrator`, and that the services implement `OneTimeLinks!Spec` (so that one link of a kind works at most). Ten requests with two links of each kind, the cleanup, expiry and failures. |
| `LinksConcurrent` | Three at a time out of eight requests: types, `SpentIsUsed`, `VerifiedByLink`, `TokensOnlyAge`, `PasswordByHolder`, and `CirclesAreSweeps`: requests that wait for each other include two statements on many rows of one table. Such circles do occur, between a reset and the cleanup that take two tokens in opposite orders. 450,000 states. |
| `SignIn` | Three logins at a time, `Threshold = 5`, six failures, a lock of two ticks that runs out: `LocksAreEarned`, `FailuresInARowLock`, `LockKept`. 2.8 million states. |
| `Staff` | Two requests at a time, two of them saving, on three users with any of four roles: `RanksFromAbove`, `SomeoneStays`, `OneColumnAtATime`. 1.3 million states. |
| `Catalog` | One reader beside two writers on two products and two slugs: `CleanEntriesCurrent`, `SealedStaysDeleted`, and under `FairSpec` `EventuallyCoherent`. 1 million states. |
| `Dashboard` | Two viewers of two roles, three orders, four days with a month that ends in between: `SummaryAddsUp`. 1.6 million states. |
| `VOversell` | Fails: two overlapping orders reserve the same units (`orders/services.py` 43 says "atomically"). |

*Bounds.* Every race in this code needs two requests on one record; a third
(the `MaxInFlight = 3` of the concurrent runs) lets one commit between two
statements of another that itself overtakes a third. Three items give an order with
two lines, on two records in either loop order (deadlock), and a
competitor for the same record. Stock of 2 or 3 units makes both success and
refusal happen. `OrdersApart` has room for two requests that are
past their first query on two records, with a third placement to find the stock they leave, and
two updates so that one order is delivered and another cancelled. `MaxRetries = 3` is the
code's value. Symmetry permutes requests, users, orders or token values and is used in
safety runs only. Bounds that stand in guards: `MaxInFlight` (orders, links), `MaxWrong`
and `MaxTime` (`SignIn`), `MaxSaves` (`Staff`), `MaxDay` (`Dashboard`); a writer of `Catalog`
is one transaction, and `Writers` bounds their number.

`SignIn` has the code's threshold, because the races are about reaching it: with six
failures a lock runs out and the next failure locks again, and three threads let one
login be overtaken by a lock that two others set. In `Staff` the third user is the one
who changes an actor whose request is still open. `Catalog` needs a second writer to rename
into the slug that the first gives up, and one reader that may read before, between and
after their commits; a second reader only fills as the first does, and the proofs are
about any number.

For the links, each request is served at most once and `Requests` bounds them; there
are as many token values as links that can be issued, so that `Fresh` never blocks.
Two reset tokens let a reset and the cleanup have two rows to take. `ImplementsLinks` and
`SingleUse` need the serial run: two overlapping `forgot_password` leave two valid links, and
two resets that judge the same token before either consumes it both go through.

*What the run of requests that are apart assumes.* Two requests in flight concern different
orders, and once past their first query different inventory records (`Apart`); a cart is
left alone while it is bought (`CartsKept`); no two lines of a cart share a record
(`OneRecordPerLine`); an order is settled once (`Disciplined`, which has `SettledOnce`).
`MCOrderService` assumes the last two of its shops, so that TLC evaluates them.
`RowsConserved` needs `CartsKept` alone, `OnHandAudited` needs `Apart` and
`OneRecordPerLine`, and `ReservedIsHeld` needs these two and `SettledOnce`: without any one
of the three TLC finds a counterexample. Nothing in the code provides them. A service that
takes one request at a time (`MaxInFlight = 1`) has the first two, which
`SerialApart` proves; the links are checked under that stronger condition.

- two overlapping orders reserve the same units (`VOversell`), and of two overlapping
  deliveries of one record the later writes a quantity computed before the earlier;
- `update_order_status` does not look at the old status: a repeated cancellation
  releases units of another order, even if it is the only request;
- two lines on one record (variants without a record of their own, or cart rows without
  a variant, which `unique_together` lets repeat since NULLs differ) hold two
  copies of it, and the second sum forgets the first;
- a row put into the cart between the cart query and `cart.items.all().delete()` is
  deleted and never bought (`RowsConserved`).

Likewise, a confirmation taken before the commit is dropped, not retried:
`MailOnlyForOrders` holds at the price of a mail that may never be sent.

*Deadlock* is checked in every run but `Staff`; `Finished`, `Settled` and `Quiet` allow the
stutter of a system that has served all its requests. In `Staff` the system may really
stop: two administrators who deactivate each other leave no active account, and nobody
can be authenticated any more. `SomeoneStays` says what it takes.

*Fairness.* A request that can take a step takes it: gunicorn threads are preempted
but not paused for ever (a hung worker is killed after 120 s, which is `Abort`).
PostgreSQL resolves every deadlock after `deadlock_timeout`. Weak fairness per
request suffices, because a lock holder never has to wait for a request that starts
later unless there is a cycle. Nothing is assumed about `Start`, `Abort`
or `AddToCart`. For the worker: some process takes the next task. For `Catalog`: only
that Redis drops an entry whose timeout (5 and 10 minutes) has run out; readers and
writers may stop anywhere. `AccountLinks`
needs no fairness: none of its properties is a liveness property. That requests wait in a
circle only around statements on many rows, which PostgreSQL breaks as any deadlock, is the
safety part of their end.

## 5. Proofs

All proofs hold for every value of the constants that satisfies the named
assumptions of the modules (finite items, quantities at least one, disjoint request
sets, `None` outside the data). What a theorem needs besides it names as a hypothesis:
those of `OrderSerialProofs` some of `[]Apart`, `[]CartsKept`, `OneRecordPerLine` and
`SettledOnce`, the conditions of section 4, and those about links one at a time
`MaxInFlight = 1`. Nothing else is assumed.

- `LedgerInv` counts units as elements of disjoint finite sets, so that a step adds
  or removes the units of one order; it is inductive as it stands, because
  `NoOversell` and `ReservedIsHeld` together make every clamp idle. From it:
  `LedgerTypeCorrect`, `LedgerReservedIsHeld`, `LedgerStockConserved`,
  `LedgerNoOversell`.
- `OrderInv` is what makes `DeliveryLogged` inductive under all interleavings:
  requests are where their kind may be (`RequestsTyped`), the loop visits lines of the
  order (`LoopsBounded`), no row is locked twice (`LocksExclusive`, for which the lock
  guards are needed), a locked order is what was read (`CopiesFresh`, for which
  exclusion is needed), uncommitted rows change the on-hand column only in deliveries
  (`OnHandClean`), and a delivery has logged every line its loop has passed
  (`SalesCovered`). `OrderInvariant` proves it step by step, one lemma per group of
  actions; `OrderTypeCorrect` and `OrderDeliveryLogged` follow, and the
  action properties `OrderStampsKept` and `OrderOnHandOnlyByDelivery` follow from it and
  the commit step.

- `CustomerTold` is proved from `PublishedFirst`: a request past its publishing step has
  its tasks in `queue` before it commits. The queue only grows, so a committed order or
  status has what was sent for it.
- *Order requests that are apart.* Two invariants, each with the hypotheses it needs.
  `CartInv` (`CartsKept` alone): a placement empties the cart rows that are the lines of its
  order and no others; `RowsConserved` is part of it. `ApartInv(L)` (`Apart`,
  `OneRecordPerLine`), where `L` are the statuses from which an order can still be settled:
  the instances of every working request are the committed rows, its loop visits each line
  once, what it has written is exactly what `reserve`, `release_reservation` or `deduct`
  makes of them (`LoopExact`), every line it has reserved was available (`ReservedFrom`), and
  an order whose status is in `L` still holds its stock (`OrderWhole`). The invariant says
  nothing of two requests together: a step that writes no committed row leaves what it
  says of the others alone (`OthersStay`), and a commit writes only records and orders that
  the others do not look at (`CommitElsewhere`), which is where `Apart` is used.
  `OneRecordPerLine` makes the rows of the lines independent, `SettledOnce` keeps a settled
  order out of `L`. A commit is then one step of `StockLedger` (`CommitPlaces`,
  `CommitSettles`) and everything else a stutter (`ApartImplementsLedger`). The theorems of
  the ledger come back through the mapping, where counts of units correspond by
  bijections (`HeldIsOpen`): `ApartReservedIsHeld`, `ApartNoOversell`. `L = {}` gives what
  holds of callers who may ask for anything, and `ApartOnHandAudited` is proved of those,
  commit by commit: what leaves a shelf is the sum of the movements, clamped or not.
  `ApartMovesExact` adds that with `SettledOnce` the clamp never bites. `ApartSpecMeans`
  says that `ApartSpec`, which TLC runs, has exactly the behaviours these theorems speak
  of; `SerialApart` and `SerialService` give service one request at a time as a corollary.

- `AccountInv` rests on ownership: no row is written by two transactions
  (`LocksExclusive`), so what a transaction has written still fits the rows it will
  replace (`WritesFit`: a new token is absent, a consumed one is unused or used, a
  verification keeps the password, a registration finds no user), and a request knows
  what it has done by its position (`OnTrack`). `OthersKeep` and `LocksKeep` say once
  that a step of one request leaves these facts of the others alone; each
  `<Action>Keeps` then speaks of one request only. `SpentIsUsed` and `VerifiedByLink`
  are conjuncts that only `CommitKeeps` has to argue about; the action properties
  `AccountTokensOnlyAge` and `AccountPasswordByHolder` follow from the invariant.
- *One link request at a time.* `SerialInv` says that what the open request has read still
  stands (`StillStands`): the token it accepted is unused, the links it revokes stay revoked
  until it issues its own, the user row it will commit differs from the committed one in what
  its service writes (`Rewritten`). With it `SingleUse`, `OneLiveLink`, `VerifiedNeedsNoLink`
  and `StatusByAdministrator` hold. `OneUnused` is `OneLiveLink` without the clock: the
  revocation sees every unused link, expired or not, so that nothing has to be argued about
  expiry. `AccountImplementsLinks` is the refinement: `Live` and `Dead` are read off the token
  rows, a transaction is a step of `OneTimeLinks` at its commit (`CommitIsAtomic`), a new link
  is a `Revoke` and a `Send` (`NewLinkIsTwoSteps`; a failure in between leaves no link, never
  two), the cleanup is a `Revoke` or nothing (`SweepRevokes`), and every other step is
  a stutter. That a committed transaction kills one link only (`FollowedDies`) takes
  `OneUnused` and the place of its locks (`LocksInOrder`).
- `CirclesAreSweeps` is about any number of requests. `LocksInOrder` says where a request holds
  which rows: whoever holds the user row waits, if at all, for token rows of its reset;
  whoever holds a token without it is `verify_email` at its UPDATE of the user, or in the
  middle of a statement on many rows of that token's table. In a circle without two such
  statements on one table that wait for each other, a request that works through the reset
  tokens waits for the holder of one, which is another that works through them, or one that
  waits for nobody; so nobody in the circle holds the user row, nobody waits for it, no
  `verify_email` holds a token, and the same argument ends it for the verification
  tokens (`NoCircle`). A request that is over holds nothing (`HoldersAreOpen`). `AccountCirclesAreSweeps` does not say that deadlocks do not happen:
  among statements on many rows they do, in the run `LinksConcurrent` too.

- `MailInv` adds to `OrderInv` that effects of confirmations belong to committed orders. A
  worker step keeps it because the task looks for the order; a service step because
  committed orders stay (`OrdersStay`, which also carries `OrderStampsKept`).
  `EffectsBounded`: the retries counted bound the mails of one task by `MaxRetries + 1`.
  `TasksImplementOrders` makes every theorem about `OrderService!Spec` one about the
  composition.
- `SignInInv`: what a worker holds was true once (`CopiesAreOld`: its counter was reached by
  failures on record, and a lock it has seen was set by one of them), and whoever passed
  the lock check held no lock in force, now or later, since the clock only advances
  (`CheckPassed`). Both are needed: without them a stale copy could write a counter or a
  lock nobody earned. `SignInLockKept` follows from `CheckPassed`.
- `StaffInv`: an admitted request was judged on a role that its actor had from the start or
  that somebody began above (`HeldIsOld`), and one about to save has passed the rank rules on
  it (`Judged`). That makes `RanksFromAbove` inductive although the actor may have lost the
  role meanwhile.
- `CatalogInv`: writers in progress have a product there is or a fresh one to themselves
  (`WritersFit`), a lone query is current until it is stored (`AloneCurrent`), a writer finds
  the keys it invalidated empty or filled by a reader that overlapped it (`KeysCleared`), and
  no update holds a sealed product (`NoneHeld`). `CommitKeeps` is the heart: whatever the
  commit changes, no clean key holds the old of it but under a slug given up.
- `DashboardInv`: what a viewer has counted can only have grown since (`SumsSoFar`), because
  the sets counted are nested (`QueriesNest`) and orders are never deleted.

Model-checked only: liveness (`EveryRequestEnds`, `EveryTaskSettles`, `EventuallyCoherent`),
which is out of the prover's reach.

## 6. Not modelled

- Prices, taxes and addresses (no property tells them apart; `total_amount` is a sum
  without state); read queries: order history, product list, category tree, user list, the
  dashboard's other reports; the report tasks, which only log.
- In the summary: revenue, which no code fills since nothing marks an order as paid, and
  customers, which are counted as orders are. That today's orders are part of the total
  does not hold: an order may come between these two queries.
- `logout` and the rotation of refresh tokens, rows of djangorestframework-simplejwt.
- Code without a caller in the repository: `oauth_authenticate`, `create_staff`,
  `get_locked_accounts`, `invalidate_cache` of the category tree, `_unique_slug` (the serializer
  requires a slug), `restore`, `IsOwnerOrAdmin`, `mark_read`, `AuditLog.log`. `unlock_account` has
  none either, and is modelled as a console session.
- Variants and images of products: no service writes them.
- Payments, invoices, files, categories and reports: stub apps with no code that changes
  state. Audit logs: rows are never changed, and no code writes them.
- Settings and middleware hold no state between requests. They are read for what the
  models assume: 4 gunicorn workers of 2 threads, READ COMMITTED, no ATOMIC_REQUESTS,
  `acks_late` unset. The development settings, under which tasks run
  inside `.delay` and see the open transaction (`CELERY_TASK_ALWAYS_EAGER`), are not modelled.
