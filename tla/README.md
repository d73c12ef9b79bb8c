# Verification of go-gadget-api

TLA+ models of the shop's backend, the TLC configurations that check them, and
machine-checked proofs of every safety property they check.  Every action names
the Go function or SQL statement it stands for; `PROJECT.json` holds the exact
lines (`map`), the runs, the mutants each property was tried against, and the
hazards the properties are aimed at.

## The system

Three processes share one PostgreSQL database: the HTTP API (`cmd/api`), the
outbox worker (`cmd/worker`) and the event consumer (`cmd/consumer`).  Redis
holds idempotency records for the API, Kafka carries events from the worker to
the consumer, and Midtrans (payments), Cloudinary (images) and an e-mail service
are called over HTTP.

| component | state it keeps | operations | talks to | what is hard | what makes it correct |
|---|---|---|---|---|---|
| order service (`internal/order`) | `orders`, `order_items`, rows of `outbox_events`, Snap transactions at Midtrans | Checkout, Cancel, Complete, UpdateStatusByAdmin, UpdatePaymentStatus, HandleMidtransNotification, ContinuePayment, listings | PostgreSQL, Midtrans, the outbox | reads and writes in separate statements at READ COMMITTED; notifications late, repeated and out of order; a row lock on one path only | status, payment and timestamps agree; payment follows its table; each payment move has its event; no lock is kept |
| outbox and worker (`internal/outbox`, `messaging/kafka/producer`, `app/worker.go`) | `outbox_events.status`, the batch in memory | poll, publish, mark SENT or FAILED | PostgreSQL, Kafka | crash between publish and mark; two workers on one table; a writer that asks for no acknowledgement | no event vanishes without an error |
| consumer (`messaging/kafka/consumer`, `app/consumer.go`) | reader position, committed offsets | fetch, handle (clear cart, send e-mail), commit | Kafka, cart service, e-mail | lost commits, restarts, handler errors that are only logged | nothing is committed before a handler has had it; every event takes effect |
| checkout gate (`middleware/idempotency.go`, `middleware/rate_limit.go`, `order_handler.go`) | Redis response cache and lock; an in-memory bucket per user | look up, lock, check out, save the response, unlock | Redis, order service | a lock that expires under its holder; a client that leaves; a cache looked at before the lock | one checkout at a time per key; no duplicate without a cause; no lock stays |
| cart service (`internal/cart`) | `carts`, `cart_items` | Create, AddItem, UpdateQty, Increment, Decrement, DeleteItem, ClearCart, Delete, Count, Detail | PostgreSQL; called by the API and the consumer | two statements without a transaction; stale cart ids | an empty line is on its way out; a stale id writes nothing |
| accounts and tokens (`internal/auth`) | `users`, `password_reset_tokens`, `email_confirmation_tokens` | Register, Login, RefreshToken, request, resend and redeem tokens | PostgreSQL, e-mail | a token redeemed twice at once; a mail that fails after its token is stored; a phone number checked and inserted later | a recent mail works; a used token goes; nobody takes another user's token away |
| reviews (`internal/review`) | `reviews` | CheckEligibility, Create, Update, Delete, listings | PostgreSQL (also `orders`, `order_items`) | eligibility read in three statements before the INSERT; soft deletion against a unique constraint | a review has a completed order behind it |
| addresses (`internal/address`) | `addresses` | Create, Update, Delete, listings | PostgreSQL | two requests that make an address primary; locks taken in different orders | two primary addresses only after a race; a failed request takes no mark away; every request ends |
| brands, categories, products (`internal/brand`, `category`, `product`) | their tables, images at Cloudinary | Create, Update, Delete, Restore, listings | PostgreSQL, Cloudinary | a row and an image written one after the other, with compensation | a row shows an image that exists, or there is a cause |
| wishlist (`internal/wishlist`) | `wishlists`, `wishlist_items` | Create (adds an item), Delete, List | PostgreSQL | two additions at once; ON CONFLICT DO NOTHING | what a client is told was added, was |
| customers (`internal/customer`) | the profile columns of `users` | UpdateProfile, ToggleCustomerStatus, listings | PostgreSQL | the user is read before the transaction; a password reset meanwhile | a new password needs the old one |
| listings (of all of the above) | none; a client walks their pages | ListPublic, ListAdmin, List, GetByProductSlug, GetByUserID, ListCustomers, ... | PostgreSQL | a limit replaced in two places; a table that changes between pages | a walk to the last page misses no row that stayed |
| dashboard (`internal/dashboard`) | none | SQL reads in parallel | PostgreSQL | none | formatting only |
| authorization middleware | none | checks a JWT and a role | none | none | stateless |
| service clients (`midtrans`, `cloudinary`, `email`) | none | one call each | the outside world | their failures are choices in the modules that call them | |
| bootstrap, seed, response and request helpers, generated code (`dbgen`), mocks | none | wiring | | | |

How they interact: POST /orders/checkout passes the rate limiter and the
idempotency middleware, then the order service writes the order, its items and a
DELETE_CART event in one transaction.  The worker publishes the event, the
consumer clears the cart.  Status changes by Complete and UpdateStatusByAdmin,
and payment changes, write ORDER_STATUS_CHANGED and ORDER_PAYMENT_UPDATED events
the same way; the consumer answers the former with an e-mail and commits types
it does not know without effect.

## Modules

| module | stands for | checked by |
|---|---|---|
| `Orders` | the order service, one process per request | `orders`, `purchases` |
| `PaymentLedger` | abstract: one payment status per order, each move logged in its step | |
| `OrdersRefinement` | `Orders` implements `PaymentLedger` (refinement mapping) | `orders` |
| `Orders_proofs` | the theorems about `Orders` and about `Purchases` | the proof system |
| `Reviews` | the review service, over an orders table that its caller supplies | `purchases` |
| `Purchases` | `Orders` and `Reviews` on one database | `purchases` |
| `EventPipeline` | outbox, worker, topic, consumer | `pipeline`, `handler_error_skipped` |
| `AtLeastOnce` | abstract: what is recorded takes effect | `pipeline_delivery` |
| `EventPipeline_proofs` | the theorems about `EventPipeline`, and that it refines `AtLeastOnce` as far as safety goes | the proof system |
| `CheckoutGate` | rate limit, idempotency middleware, checkout handler, delayed clearing | `gate`, `duplicate_order` |
| `CheckoutGate_proofs` | the theorems about `CheckoutGate` | the proof system |
| `Cart` | the cart service at the grain of its statements | `cart` |
| `Cart_proofs` | the theorems about `Cart` | the proof system |
| `Accounts` | registration, confirmation and reset tokens, their mails | `accounts` |
| `Accounts_proofs` | the theorems about `Accounts` | the proof system |
| `Catalogue` | a brand, category or product and its images at Cloudinary | `catalogue` |
| `Catalogue_proofs` | the theorems about `Catalogue` | the proof system |
| `AddressBook` | addresses and the row locks of their transactions | `customer_records` |
| `Wishlist` | the wishlist under its upsert | `customer_records` |
| `Profile` | the row of one customer: name, password, status | `customer_records` |
| `Registration` | the phone number of a registration, checked and then inserted | `customer_records` |
| `CustomerRecords` | the four above, one of them in each behaviour | `customer_records` |
| `CustomerRecords_proofs` | the theorems about the four, as parts of `CustomerRecords` | the proof system |
| `Listings` | a client that walks one of the fourteen paged listings | `listings` |
| `Listings_proofs` | the theorems about `Listings` | the proof system |
| `MC...` | values of constants | |

### Orders

`row` is the `orders` table (a timestamp column is "is it set"), `lock` the row
locks taken by SELECT ... FOR UPDATE, `outbox` the `outbox_events` table, `snap`
the transactions at Midtrans, `req` what each request handler has read and is
about to write.  A handler that reads and later writes is two actions: CancelRead
and CancelCommit, CompleteRead or AdminRead and StatusCommit, PaymentRead and
PaymentCommit or PaymentRefused, ContinueRead, ContinueCreate and ContinueSave.
UPDATE, outbox INSERT and COMMIT are one action: at READ COMMITTED nobody sees
the row before COMMIT, and a second UPDATE of it waits, which here is that the
action is not enabled while another transaction holds the row.  Checkout is one
action, for nobody can refer to the order before it commits.  Abort is a database
error, a cancelled context or a crash at any point; what Midtrans created stays.
A notification may arrive at any time after Midtrans settled or expired the
transaction and any number of times, and it may come from any Snap transaction of
the order, for the handler cuts off the suffix that tells them apart.

### Reviews and Purchases

`reviews` is the table, with `deleted` for `deleted_at`; `task` what each handler
has read.  Create is four steps: CheckReviewExists, CheckUserPurchasedProduct,
GetCompletedOrderForReview, and the INSERT with its COMMIT, which
`uniq_user_product_review` may refuse.  Update and Delete read the live review and
write later, Update only if it is still live.  `Reviews` takes `orders` as a
variable; `Purchases` instantiates it with the joined rows of `Orders`, so that
administrators, customers and Midtrans change an order between any two of the
reads.  An order once completed keeps `completedAt`, which is what a review can
rely on: its status may be overwritten at any time.

### EventPipeline

`status` is `outbox_events.status`; an event is its rank by `created_at`, which
is the start of the transaction that wrote it, so rows may appear in another
order than that.  `todo` and `stage` are a worker's batch and the next step for
its first event; nothing is locked between the poll and the marks.  `topic` holds
a sequence per partition; the writer's LeastBytes balancer does not look at the
key, so any partition may be chosen.  The writer is configured without required
acknowledgements, so a publication without an error may still be lost
(`BrokerDrops`).  The consumer's reader is `position`, `current`, `done` and
`committed`: FetchMessage advances the position, an error of a handler is logged
and the loop goes on, a restart begins at the committed offset.  One consumer of
the group is modelled, over all partitions.

### CheckoutGate

Each request goes client, lookup, lock, checkout, save, unlock, end; each step is
one Redis command, or the call of the service.  Time runs in units of ten
seconds (the limiter gives 0.1 requests per second with a burst of one).  Redis
commands may fail, with or without their effect, and they are issued under the
request's context: once the client has left (`gone`) the handler's SET and DEL do
nothing.  The checkout itself may end in an error after PostgreSQL has committed
(PlaceUnnoticed).  `expired`, `unsaved` and `late` record why a duplicate is
possible.

### Cart

`cart` is the id of the user's cart row, `lines` and `qty` its lines; ids are not
used again.  Every operation reads the id first (getOrCreateCart or getCartOnly)
and writes under it later.  Decrement is two statements without a transaction:
the UPDATE, then the DELETE of a line at zero or below; after an error other than
"no rows" the zero value of the returned row has the same effect.  The service's
`Delete` has no route, but it is an operation of the service, and modelled.

### Accounts

`token` is the sequence of all tokens ever stored, `live` those in the two token
tables now (`user_id` is unique in both, so a user has at most one row of each
kind), `req` the statement each request is about to run.  Time runs in units of ten minutes, the
throttle.  No operation of `auth_service.go` is a transaction, so each statement
and each mail is an action, and Abort may come between any two.  Deleting by PIN
is modelled as the SQL has it: every row with that PIN goes.  The histories
(`mailed`, `applied`, `leftover`, `raced`) are forgotten by Tick as soon as no
property asks for them.  Phone numbers are in `Registration`; roles and logins are left out.

### Catalogue

The life of one item of one kind.  `row` is its row, with the image its
`image_url` shows; `store` the public ids that exist at Cloudinary; `job` what
each request has read and the stage it is at.  A public id has a form, because
the code mixes three: UploadImage stores under folder and name, ExtractPublicID
cuts that back out of a URL, the compensation after a failed transaction deletes
the bare name, and the products' cleanup deletes the URL itself.  The last two
name no image, so they change nothing: `CompensationId` and `CleanupId` say
so.  Uploading a file of the same name replaces the image under the same id.
Brands and categories are one algorithm, products another; the handlers at the
end tie the twelve operations to the two.

A call of Cloudinary ends in one of four ways: it has its effect; it answers with
an error, with or without its effect (`Fail`); or it is refused, which the client
library reports in a field of the result next to `err = nil` and
`cloudinary_service.go:41-69` does not read.  A refused upload then returns an empty
URL, which goes into the row as NULL (`CreateUpload`, `UpdateUpload`); a refused
deletion counts as done (`DestroyRefused`).

Two history variables say for each image of a brand or category why the row and
the store may disagree about it: `lost` (the row may show it though it is gone) and
`stray` (it may be stored though no live row shows it).  An image enters one of
them in the step that sets it and the row apart, and leaves it when it is uploaded, or
deleted, again.  The properties are about each image by itself: that some request failed,
or that two overlapped, explains nothing about an image they did not touch.

### AddressBook, Wishlist, Profile, Registration and CustomerRecords

`AddressBook` models what PostgreSQL does for UnsetPrimaryAddressByUser: the
statement works on the rows of its snapshot (`unset`), locks them one at a time
in any order and holds them until COMMIT; what a transaction writes is seen only
then.  Two transactions that wait for each other's rows are broken up by
DeadlockDetected.  `PrimaryIsKept` excuses a deletion, an update of the row itself,
and a request of the owner that makes a foreign address primary, which clears the
owner's flags.  `raced` records the two causes of a second primary address:
two transactions that each made one primary, and UpdateAddress, whose WHERE has
no user.  `Wishlist` has the lock that INSERT ... ON CONFLICT DO UPDATE takes on
the user's row (`holder`).  In `Profile` a hash is the password it was made of;
`seen` is what GetByID returned before the transaction, `writer` the
transaction that holds the row, `overtaken` the requests whose `seen` is stale.
`Registration` is the SELECT and the INSERT of Register for the phone number,
which `Accounts` leaves out.  The four share no column but `password`, which only
`Profile` has, so `CustomerRecords` runs one of them per behaviour.

### Listings

For each of the fourteen paged endpoints, `Reply` gives the limit the query runs
with and the limit the pages are counted with, composed from the service's and
the handler's own operators; `QueryOf` gives the rows the query shows and whether
the total is a window count (0 on a page without rows) or a statement of its own.
`walk` is a client that asks for page after page until the last one it was told
of, while rows are inserted, deleted, restored, hidden and marked primary.
`stable` are the rows visible all along, `changed` what happened meanwhile.

## Runs

| run | instance | shows |
|---|---|---|
| `orders` | one order, three requests, two Snap transactions, six events | columns, timestamps and outbox stay consistent under every interleaving of three handlers, and `PaymentLedger` is implemented |
| `purchases` | one order, two order requests, two review requests, two review rows, three events, fairness | a review is of a buyer, and every order request ends |
| `pipeline` | two events, two workers, two partitions, batches of one, one crash, failed mark or failed commit, and any number of writer, broker and handler errors | the safety of the pipeline |
| `pipeline_delivery` | two events, one worker with batches of two, two partitions, two crashes or failed commits, all errors, fairness | at-least-once delivery, but for events the writer, the broker or a handler failed on |
| `handler_error_skipped` | one worker, one partition, handler errors only | refutes "consumer retry event yang sama" (docs/email-notification-flow.md:68) |
| `gate` | three requests with one key, lock of two units, Redis and COMMIT failures, one client that may leave, fairness | what the middleware guarantees, and that no lock stays |
| `duplicate_order` | two requests, no failures | refutes that a key never places two orders (README.md:87) |
| `cart` | one product, three requests, two carts, quantities up to three, failures | a line at zero is on its way out; a stale cart id writes nothing |
| `accounts` | two users, two requests, two tokens, two PINs, lives of two units, failures | a recent mail works; a used token is on its way out; tokens are their users' own |
| `catalogue` | one item of each kind, three requests, two file names, failures and refusals | a product has its image; a brand's or category's image is missing, or left over, only for something that happened to that image |
| `customer_records` | two users and two requests on two addresses, two products, one profile or two phone numbers, failures, fairness | two primary addresses need a race, none is lost to a failure, every address request ends; a shared phone number needs a race; what is said to be added was; a new password needs the old one |
| `listings` | every endpoint, limits -1 to 4 around maxima of 1, 2, 2 and 3, up to four rows | at the limits handler and service agree on, no stable row is missed and none comes twice without an arrival |

Bounds, and why they are enough.  The races of this code are between two
handlers on one row; a third request (`orders`, `gate`, `cart`) adds the cases in
which one undoes what two others raced for, such as a late holder that deletes
the lock of the next one while a third waits.  Six outbox rows let an order be
placed, paid, reversed, paid again and refunded with a status change in between;
`MaxEvents` is met when a request starts, never when it ends, so no handler is
stuck at a bound.  Two events in two partitions give every order of publication,
handling and commit between them, and batches of one and of two the loop over a
batch.  A lock of two units can be held, expire, and be taken again and expire
again within three requests.  `MaxQty` is the largest value of the quantity
column and at the same time a bound: no decrement starts close to its negative,
where the 32-bit column is far from its limit.  `MaxCarts` = 2 is one cart and
the cart that replaces it.

Two tokens are an old one and its replacement, or those of two users, and two
requests those that race to store or to redeem.  A third request, one that redeems
while two store, has been checked as well with the same result (2.5 million states);
the run keeps two so that it takes seconds.  A life of two units has a recent, an
older and an expired age, and a longer one repeats the middle.

Two review rows hold a review and the one a second creation would add; three
events place, pay and complete an order.

Two file names are an image and the one that replaces it; that a third request
sends the first name again is then among the cases, and each image has its causes
for itself.  Three requests are one that deletes an image, one that has uploaded it
and is about to write it, and one that changes the row between the two (380 000
states; two requests with three file names have been checked as well, 172 000).

Two addresses are enough to have two primaries, to lock in two orders and to wait
in a circle; `Room` keeps the number of rows from stopping a transaction that has
begun.  In `Listings` the maxima are scaled down in their order, and the limits
reach past each of them on both sides; four rows make up to four pages.

CHECK_DEADLOCK is off where the system may really stop: when all bounded requests
or events are used up, when a walk has ended, or when a deleted item or a full
table leaves no operation.  `Cart` can always take another request and time
always passes in `Accounts`: deadlock is checked there.

Symmetry (requests, Snap transactions, workers, partitions, users, PINs, jobs, file
names) is used in the safety runs `orders`, `pipeline`, `accounts` and `catalogue`
only, none of which checks liveness.

## Fairness

Nothing is assumed of clients, of Midtrans, of failures, or of the order service
writing events.

* `Orders`: SF on the next step of each handler.  The Go scheduler runs every
  goroutine on; PostgreSQL queues the waiters for a row lock, so a handler that
  can have the row again and again gets it.  Weak fairness would not do: another
  request may take the row before it each time.
* `EventPipeline`: WF on each worker's loop and on the consumer's loop, which
  poll for ever and are restarted by their environment.  Faults are bounded by
  `MaxFaults`: a process that crashes for ever delivers nothing.
* `CheckoutGate`: WF on each request's next step and on time.
* `Purchases`: that of `Orders`; nothing is assumed of the review handlers.
* `CustomerRecords`: SF on the next statement of each address transaction, for the
  reason given for `Orders`; it includes the database's deadlock detection, which
  breaks a circle of waiting transactions after a second.
* `Cart`, `Accounts`, `Catalogue`, `Listings`: none; they have safety properties only.

## What is proved

Each theorem is of the specification of its module, for every value of the
constants that satisfies the module's assumption: any number of requests, users,
orders, rows, workers and failures, where the runs have two or three of each.
They cover every invariant and every action property of the passing runs.

| module | theorem | property |
|---|---|---|
| `Orders_proofs` | `TypeCorrect` | `TypeOK` |
| | `PaymentSnapshots` | `PaymentSnapshotIsCurrent` |
| | `StatusAndPayment` | `StatusMatchesPayment` |
| | `Timestamps` | `TimestampsMatch` |
| | `FulfilmentIsPaid` | `NoFulfilmentWithoutPayment` |
| | `PaymentTable` | `PaymentMovesByTheTable` |
| | `PastCheckout` | `NoWayBackToCheckout` |
| | `Traces` | `TracesAreKept` |
| | `Refinement` | `ImplementsPaymentLedger` |
| | `VerifiedPurchases` | `ReviewsAreOfBuyers` of `Purchases` |
| `EventPipeline_proofs` | `TypeCorrect` | `TypeOK` |
| | `OffsetsFollow` | `CommitsFollowAttempts` |
| | `NothingIsLost` | `NoEventIsLostSilently` |
| | `SafeDelivery` | the safety half of `ImplementsAtLeastOnce` |
| `CheckoutGate_proofs` | `TypeCorrect` | `TypeOK` |
| | `LockExcludes` | `OneAtATime` |
| | `DuplicatesAreExplained` | `DuplicateHasACause` |
| `Cart_proofs` | `TypeCorrect` | `TypeOK` |
| | `EmptyLinesLeave` | `EmptyLineIsOnItsWayOut` |
| | `StaleCartsAreSafe` | `StaleCartIsNotWritten` |
| `Accounts_proofs` | `TypeCorrect` | `TypeOK` |
| | `RecentMails` | `RecentMailWorks` |
| | `AppliedTokensLeave` | `AppliedTokenIsOnItsWayOut` |
| | `TokensAreOwned` | `TokensAreTheUsersOwn` |
| `Catalogue_proofs` | `TypeCorrect` | `TypeOK` |
| | `ProductsKeepTheirImage` | `ProductHasItsImage` |
| | `LossesAreExplained` | `DanglingHasACause` |
| | `LeftoversAreExplained` | `LeftoverHasACause` |
| `CustomerRecords_proofs` | `SharedPhonesAreExplained` | `SharedPhoneNeedsARace` |
| | `AdditionsAreInsertions` | `AddedWasInserted` |
| | `PasswordsAreKnown` | `NewPasswordNeedsTheOld` |
| | `TwoPrimariesAreExplained` | `TwoPrimariesHaveACause` |
| | `PrimariesAreKept` | `PrimaryIsKept` |
| `Listings_proofs` | `TypeCorrect` | `TypeOK` |
| | `WalksMissNothing` | `StableRowsAreSeen` |
| | `RepetitionsAreExplained` | `SeenTwiceNeedsAnArrival` |

From what.  The assumptions stand in the modules that declare the constants, and
TLC evaluates them in the runs.  Most say what a constant is: an order has an
owner, a flag is a Boolean, a bound is a number, a time to live is at least one
unit, the default limits do not exceed the maxima they are checked against.
Three kinds say more.

* A value that stands for "nothing" (`NoRow`, `NoReview`, `NoAddress`, `Absent`,
  `NoOne`, `Nobody`, `NoFile`) is none of the things it is the absence of: in the
  code a missing row is an error of the query, not a row.
* `Accounts` and `Cart` have finitely many requests at a time, because their
  type invariants count those that are about to store a token, or to decrement a line.
* In `Cart` there are no more of them than the largest value of the quantity
  column.  The column has 32 bits and no CHECK, and Decrement subtracts one
  without looking at it first, so what keeps a quantity in its range is that each
  request still to run takes one away: 2^31 at once would be needed.

Along which argument.  None of the properties that speak of several requests is
inductive alone.  The inductive invariant of each module is `IInv`, a conjunction
of named parts under "Why they hold"; TLC checked each on the instance of the
run before it was proved.  The proofs show Init => IInv and, action by action,
that each conjunct an action can disturb is kept.  Action properties and
refinements are consequences of one step from a state in `IInv`.

* `Orders`.  A payment transaction writes back columns it read earlier, so what
  it writes is right only if what it read still is: `PaymentSnapshotIsCurrent`,
  which holds because the row lock makes every other writer of the row wait.
  With it, PaymentCommit computes from the current row.  Cancel and the admin
  updates write without looking at the row again; that they break nothing rests on
  what they may write at all (`RequestsAreSound`): CANCELLED, COMPLETED, or a
  fulfilment status for an order that was PAID, PROCESSING or SHIPPED when it was
  read, and such an order had been paid (`PaidIsRemembered`, a history variable,
  since a payment may be reversed meanwhile).
* `Purchases`.  An order found completed keeps `completedAt` whatever follows
  (`FoundStaysTrue`), so what Create found between its reads and its INSERT is
  still a purchase.  Every step of `Purchases` is one of `Orders` or one of
  `Reviews` that leaves the orders alone, so the invariant of `Orders` carries over.
* `EventPipeline`.  The reader lies between the committed offset and the end of
  the partition (`ReaderIsInRange`), and all it passed but the message in work has
  met a handler (`FetchedWasAttempted`).  A mark in a worker's hands tells the
  truth about its event (`MarksAreTrue`), also when the other worker marked the
  row meanwhile.  For the refinement, each step is a recording, a first
  delivery or invisible.
* `CheckoutGate`.  Whoever is in the handler has its key locked unless the lock ran
  out on it (`HolderHasTheLock`); an order leads to a cached response or is on its
  way there (`OrderIsKnown`); and who is about to place an order has passed a
  cached response only by being late (`CheckoutMissedTheCache`).
* `Cart`.  `DecrementsFit`, the counting described above, and that the user's cart is
  the last one created (`CartsFit`).
* `Accounts`.  The throttle keeps everybody out of the way of a fresh token
  (`NobodyReplacesAFreshToken`), and a token is only deleted for having been used or
  for its age (`DropsAreDue`), so a fresh one works (`FreshTokenWorks`), the ones not
  yet mailed included.
* `Catalogue`.  What a product's update may write is there and stays
  (`ProductsWriteWhatIsThere`).  For brands and categories the argument is made for one
  image at a time.  Whether the row may show it when it is gone depends on the images about
  to be written: what a request has uploaded is there, or was deleted under it
  (`UploadedIsThere`).  Whether it may stay when no row shows it depends on the deletions
  behind: what a request believes to have deleted is gone, unless the deletion was refused
  or it has been uploaded since (`DeletedIsGone`).  Each of the two halves is inductive with
  its property and the stages the requests can be at (`LossNext`, `StrayNext`).
* `CustomerRecords`.  A step belongs to one of the four parts and leaves the others
  alone (`Projections`), so each has an invariant of its own.  `AddressBook` is the
  hard one: an unraced transaction that makes an address primary is the only one of
  its user (`UnracedAreAlone`), and all primary addresses of the user are among the
  rows it holds or still has to reach (`PrimariesWillGo`).
* `Listings`.  What the client has seen is what was on the pages it turned
  (`SeenIsWhatWasTurned`): rows that stay keep their order, an arrival moves a row
  back and a departure moves it up (`RanksMove`).  That an empty page has nothing
  behind it, which is what the window count's 0 relies on, is a counting argument:
  the ranks of the visible rows are an injection into as many numbers, so none is
  skipped (`RanksAreTaken`).  Rounding up makes the pages hold the rows
  (`PagesHoldTheRows`).

Only model-checked: the liveness properties (`RequestsEnd`, `LockGoes`,
`AddressRequestsEnd`, and the half of `ImplementsAtLeastOnce` that events take
effect), for liveness under fairness is out of reach of the provers in use; and the
two refutations, which are behaviours TLC shows.  `Reviews`, `AddressBook`,
`Wishlist`, `Profile` and `Registration` state type invariants that are in no run; the
proofs use them as parts of the inductive invariants.

## What the code does and its documents do not say

Refuted by a run, and listed under `findings`: a message whose handler failed is
skipped by the next commit; one idempotency key places two orders when a lookup
precedes the first answer by a moment.

Met while modelling, and true of the models:

* Orders.  Complete looks at no status, though the comment above it
  (`order_service.go:613`) says "DELIVERED -> COMPLETED": an order that is unpaid,
  cancelled or refunded can be completed, and then reviewed.  A settlement between
  the check and the write of Cancel leaves a cancelled order that is paid.  The
  expiry of an old Snap transaction refunds an order paid through a newer one.
  Cancel writes no event at all, so no mail is sent for it.  PROCESSING and SHIPPED,
  the administrator's statuses, are not those the migration lists.  A Midtrans
  transaction created for a checkout that then fails stays payable.
* Reviews.  A review is deleted softly while the unique constraint counts it
  (`review_service.go:411`): afterwards the user is told to be eligible and every insert
  fails.  The path of
  the route that creates a review has no slug, which the handler asks for.
* Events.  A failed publication is final, though docs/email-notification-flow.md:46
  says that the worker retries: the event is FAILED and no poll lists it.
* Cart.  Decrement deletes what another request adds between its two statements
  (`cart_service_test.go:270` expects the deletion of a line that reached zero).
  What is put into the cart between checkout and its clearing is deleted unordered.
* Accounts.  The PIN of one token, equal to that of another, deletes both.  An
  administrator's password reset reports success and changes nothing.  The throttle
  says that a mail was recently sent even when sending it failed.  Two
  registrations at once may share a phone number.
* Catalogue.  README.md:136 names "rollback/cleanup safeguards when transaction
  fails"; the compensation deletes a name without its folder and the products'
  cleanup deletes a URL, so neither deletes anything and images are left over.  `ProductHasItsImage` rests on that: with ids that named the
  image, a client that sends a file of the same name again, or a COMMIT that took
  effect and answered with an error, would lose the image that is shown (these are
  its two mutants).  A restored brand or category has lost its image.  An upload that
  Cloudinary refuses is reported as a success and leaves the item without an image, the
  old one of a brand or category being deleted already; a deletion it refuses leaves
  the image stored, and a brand or category deleted all the same.
* Customers.  UpdateAddress has no condition on the user.  A password reset between
  the read and the comparison of UpdateProfile is overwritten by whoever knew the
  old password.
* Listings.  Where handler and service replace the limit differently, rows are on
  no page: the reviews of a user at limits of 51 to 100, those of a product above
  50 or below 1, and the lists that replace a limit below 1 in the service alone.
  The public lists pass the limit on as it is: 0 lists nothing, a negative one is an
  error.  A user's reviews, their count and the rating breakdown are separate
  statements.  An unknown category slug lists all products.  The order listing of
  a customer parses a decimal price as an integer and shows 0.  The offset is
  computed in 32 bits, and rows with the same time of creation have no order.

## Not modelled, and why

The dashboard reads only.  Details of one order, product or customer, and the
wishlist's and the cart's listing, are one read each.  Authorization, the service
clients, bootstrap, seeding and formatting are stateless; `dbgen/db.go`
prepares and closes statements.  `internal/outbox/outbox_service.go` is a second
outbox processor that nothing starts.  Amounts, prices, stock (the code keeps none
at checkout), notes, payment methods, names and slugs are data no modelled branch
depends on; searching and the requested sort order of the listings select rows
and do not change how pages are cut.

## Plan

1. A composition of `Orders`, `EventPipeline` and `Cart` around one checkout: from
   the order to the cleared cart, and what is in the cart when it is cleared.
2. Theorems that join modules: that the events `Orders` records are those that
   `EventPipeline` takes up.
