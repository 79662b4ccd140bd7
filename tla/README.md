# Verification of the order system and of the shop

The repository holds two programs. The *order system* takes orders over HTTP, pays for them and
notifies the user through Kafka; `go_clean_code` is its current form and `go_kafka` an earlier one
with the same files under the models here (repository, outbox, relay, producer and consumer are
identical up to names). The *shop* (`go_redis`) is a small web shop on PostgreSQL and Redis. This
directory holds TLA+ models of both, the TLC configurations that check them, and TLAPS proofs.

Run `tlc -config X.cfg M` for a run of the table below, `tlapm M.tla` for a module of proofs.

## 1. Inventory

### The order system

| Part | State | Operations | Talks to |
|---|---|---|---|
| Order service (`service/order_service.go`, `handler/`) | none of its own | CreateOrder, GetOrderByID | cached repository |
| Cached repository (`repository/cached_order_repo.go`, `cache/redis.go`) | `orders` rows, `order:<id>` keys with a 10 minute TTL | CreateWithOutbox, GetByID, UpdateStatus | PostgreSQL, Redis |
| Outbox (`repository/order_repo.go`, `outbox_repo.go`) | `orders`, `outbox_events` | CreateWithOutbox, ProcessPending | PostgreSQL |
| Relay (`outbox/relay.go`) | a batch and its transaction | Start, ProcessOnce | outbox, producer |
| Producer (`kafka/producer.go`) | a writer with up to ten attempts | PublishEvent | Kafka |
| Consumer loop (`kafka/consumer.go`) | reader position, attempt, record in hand | Consume, processWithRetry, sendToDLQ | Kafka, its handler |
| Payment service (`service/payment_service.go`) | `processed_messages`, a random generator | HandleOrderCreated | cached repository, producer |
| Notification service (`service/notification_service.go`) | `processed_messages` | HandlePaymentProcessed | a sender |

An order is stored together with its event; a relay moves the event to topic `order.created`; a
member of the payment group draws an outcome, updates the order, announces the outcome on
`order.payment.processed` and records the event; a member of the notification group tells the user.
Relays, payment and notification processes may run several times each.

What is hard: everything behind the database is at-least-once. A relay publishes inside a
transaction that may be rolled back; a handler makes up to four calls to three systems without a
transaction and is retried, or redelivered to another process, after any of them; the loop commits
offsets, so what a commit skips is gone; the cache is written by callers in any order.

What makes each part correct: the consumer commits no offset past a record that has not reached one
of its ends; a processed event is final, and was announced before it was recorded; an order and its
event are stored together, no event marked sent is missing from the topic, relays do not handle one
event together, and nothing but a fault causes a copy; the cache never holds an order that is not
stored, and a stale copy goes away; the user hears of every processed event, unless a send of
`go_clean_code` failed. Of the whole: an order
that was placed is decided or given up, and row, cache and topic agree on the decision in the end.

### The shop

| Part | State | Operations | Talks to |
|---|---|---|---|
| Checkout (`service/order_service.go`, `cart_service.go`) | `cart:<user>`, `lock:order:<user>`, `products.stock`, `orders` | AddToCart, GetCart, ClearCart, CreateOrder | Redis, PostgreSQL |
| Leaderboard, notifications | a sorted set, a Pub/Sub channel | AddScore, PublishOrderCreated | Redis |
| Sessions (`service/auth_service.go`, `auth_middleware.go`) | `session:<id>` keys, the ids of each user | Login, GetSession | Redis, PostgreSQL |
| Rate limit (`rate_limit_middleware.go`) | `rl:<user>:<window>` counters | the middleware | Redis |
| Product pages (`service/product_service.go`) | `cache:products:...` keys | GetProducts | Redis, PostgreSQL |

What is hard: the checkout lock can expire while it is in use; rows are locked in the iteration
order of a map, so two checkouts can deadlock; the cart is cleared outside the transaction; every
Redis command is a step of its own, with keys that expire between two of them.

What makes it correct: the stock never goes below zero and matches the orders to the unit; a call
gives back its own lock only, every call ends and no crash locks a user out; a request is served
only with a session and within the quota of its window; a page is not older than its TTL explains.

## 2. Modules

`X` EXTENDS or instantiates what stands below it.

               OrderSystem ------------------+
                 |      |                    |
    OrderStore --+   Payment  Notification   |  OrderOutbox   Checkout    ShopApi
                        |          |         |      |             |
                        KafkaConsumer        +- Announcements  Inventory

The theorems about `X` are in `XProofs`, which EXTENDS it; PaymentProofs and NotificationProofs
build on KafkaConsumerProofs, and OrderSystemProofs on PaymentProofs. `MCX` gives TLC the functions
among the constants of `X`.

**KafkaConsumer** is the group of processes that run `Consume`. `pc[c]` is the line of the loop a
member is at (`fetching`, `handling`, `backoff`, `dlq`, `commit`), `current[c]` and `attempt[c]` its
`msg` and the loop variable of `processWithRetry`. `position` belongs to the reader and moves with
FetchMessage, `committed` to the coordinator and moves with CommitMessages: that the two differ is
what the finding at `consumer.go:96` is about. The broker, the coordinator and the reader of
kafka-go are external. A rebalance is one step that gives a partition to its new owner at the
committed offset and does not interrupt the old owner; this includes the runs in which the old
owner's commit arrives late. A handler does all its work through `ctx` and cannot succeed once it is
cancelled, but the timer of a pause may win against the cancelled `ctx`, and a commit may get through.

**Payment** and **Notification** extend it with their handler, one step per call of the database,
the broker or the sender. `HandlerSucceeds` and `HandlerFails` of the loop happen together with the
handler's last step, so every behaviour of a service is one of the loop: that is the property
`ConsumerSpec`. In Notification a member runs either form of the service, which share the name of
their group. The service of `go_clean_code` knows its sender by the interface only, logs any error of
it and goes on to MarkProcessed, so there a send may fail at any time (`SendErrorIsLogged`; its test
`SenderError_StillMarksProcessed`); that of `go_kafka` includes its sender, which fails only when `ctx`
is cancelled, and returns the error. A member of `processed_messages` is a message id: the event's own, or in Notification the place of the record
for an event without one. An event is published under the key of its order and so always to the
partition `PartitionOf` gives; that keeps a duplicate away from every member but the owner of that
partition and those that have just lost it, which the bound on repeated notices rests on.

**OrderOutbox** models `CreateWithOutbox` as a transaction of two inserts (`creating[o]`), and
a relay round as `ClaimBatch` (the SELECT with SKIP LOCKED), one publish and one UPDATE per event,
and a commit. `batch[r]` is what the loop has yet to handle, `marked[r]` what its transaction
has set to sent. `createdAt` decides the order and is distinct per event. **Announcements** is the
promise: an order is announced only once it is stored, and in the end if it can be.

**OrderStore** has the three methods of `CachedOrderRepository` as sequences of database and Redis
operations; any of them may fail, with or without effect, and any caller may die in between. It is
about one row and one key per order, and leaves the outbox to OrderOutbox. `RepositorySpec` is the
repository for any number of calls, `StoreSpec` the same with the calls of each caller counted.

**OrderSystem** puts the order system together. It extends Payment, whose `status` becomes the row of
an order once the order is `placed`, and uses OrderStore twice: for the requests of the order API and
for the part of `HandleOrderCreated` that is inside `UpdateStatus`, so the handler takes one step of
Payment and one of the store at the same time (`StartUpdate`, `ChangeRow`, `UpdateFails`), or a step of
the store alone while it reads back and caches the row. Outbox and relay are represented by their
promise, Announcements, which OrderOutbox is shown to keep: `CommitOrder` is its `Store`,
`RelayPublishes` its `Announce`. What a reader of the code has to piece together from five files is
stated here: `UpdatesFindTheirRow`, `PlacedIsDecided`, `ReadersLearnOutcome`.

**Checkout** is `CreateOrder` call by call. `pc[r]` names the next call, `items[r]` the snapshot of
the cart, `want[r]` and `rowLock` the row a transaction waits for and holds. **Inventory** is the
promise about the stock: it changes only when a call places its one order, downwards, to no less
than zero.

**ShopApi** sends requests through both middlewares to `GET /products`. Every expiry is an absolute
time, and the clock may tick between any two commands. There is one user, because counters are per
user, and one page.

Definitions that carry `Mutant:` in their comment are not part of a model. Each is a plausible
mistake in the code above or below it, and the property it is paired with in `PROJECT.json` is
violated when the definition is replaced by it.

## 3. Runs

| Run | Bounds | Shows |
|---|---|---|
| `consumer` | 2 members, 1 partition, 2 records, 3 faults | `CommittedAreSettled`, the inductive invariant `ConsumerInv`, `EveryRecordSettles` |
| `payment_group` | 2 members, an order event and a malformed one, 2 records, 1 fault | write order with the inductive invariant `PaymentInv`, finality, and that the service is a consumer |
| `order_system` | 1 order, 1 payment process, 1 client with 2 requests, 2 records, 1 fault | the status is the outcome announced last; a placed order is decided; readers learn the outcome |
| `notification` | 2 members of either form, 3 payloads, 2 records, 2 faults | the inductive invariant `NotificationInv`; only a failed send of `go_clean_code` lets an event be recorded that nobody was told of; repeated notices are explained |
| `outbox` | 3 orders, one without a topic, 2 relays, batches of 2, 2 faults | every property of section 1, the promise of Announcements, `OutboxDrains` |
| `store` | 1 order, 3 callers with 2 calls each | the inductive invariant `StoreInv` (no phantom in the cache), stale copies go away |
| `checkout` | 2 users, 3 calls, a product with one unit and one with two, 1 fault | every property of section 1, the inductive invariant `CheckoutInv`, the promise of Inventory |
| `shop` | 3 requests, 2 at a time, 4 ticks, 1 fault | the inductive invariant `ShopInv`; quota, age of pages, sessions |
| `consumer_keeps_failed` | 2 members, 2 records, 1 fault | **violated**, see section 5 |
| `payment_once`, `store_agree`, `checkout_twice` | the smallest that show it | **violated**, see section 5 |

Why the bounds are enough to be of interest. The consumer needs a second record for a commit to skip
the first, and a second member for a commit to arrive late; three faults let a failed dead letter
publish, a rebalance and a crash meet. In the order system two records are the event and a duplicate of
it, and two requests a creation whose answer is lost and a second attempt, or a creation and a read; the
handler and each call of the store fail as often as they like. Members that share the work are in
`payment_group`: with two of them the status need not be the outcome announced last. In the outbox the batch is smaller than the number of orders,
and one event that never succeeds takes one of its places. In the shop the limit is one request per
window of two ticks and every TTL is two or three of four ticks, so sessions, counters and pages all
expire in the middle of a request. In the checkout two users order both products in opposite orders
(deadlock), and two calls belong to one user (the lock). Counters are bounded in guards: `MaxLog`,
`MaxAdded`, `MaxCalls`, `MaxRequests`, `MaxTime` bound what the outside may ask for, `MaxFaults` the
failures. `MaxRetry` is the code's own constant 3 where the loop is checked by itself and in
`payment_once`. The larger runs `payment_group`, `order_system` and `notification` have 2, an attempt that
is retried and one that is the last, as the loop does the same after every attempt but the last; the
theorems are about any number. When everything asked for is done the models have no
next step, hence `CHECK_DEADLOCK FALSE`; that nothing waits forever is stated as liveness instead.

## 4. Fairness

Weak fairness, and only for what the processes do by themselves:

- a member's loop and handler take their next step, the coordinator assigns a partition nobody owns,
  and a stopped member is started again. The last is the operator's part, the repository has no
  supervisor: without it nothing would handle the records of a group that is not running;
- a relay's ticker fires (every tick of `Relay.Start` runs a round) and the round goes on; a stopped
  relay is started again, as above;
- a call of the cached repository or of `CreateOrder` takes its next step, since PostgreSQL resolves
  deadlocks and frees row locks in time;
- a key with a TTL expires;
- in OrderSystem the relay announces a placed order in the end. That is the promise of Announcements,
  which the run `outbox` derives from the fairness of the relay itself; later copies are not promised.

No fairness is assumed for users, producers, faults, signals or for the outcome of a call: each call
may fail as often as `MaxFaults` allows. A handler may return errors without such a bound: retries are
bounded by `MaxRetry`, and the record then goes to the dead letter topic.
`ShopApi` and `Notification` state safety only.

## 5. Where code and documentation disagree

- `consumer.go:96`. A record whose dead letter publish failed is not committed, but the reader has
  moved on, and the commit of the next record passes over it. The comment at line 88 and README.md:352
  say it will be processed again. Shown by `FailedRecordIsKept`. A restart or a rebalance before that
  commit does bring it back; `CommittedAreSettled` says that nothing else is ever skipped.
- `payment_service.go:81`. The outcome is drawn anew on every attempt, so one event can announce both
  outcomes. README.md:349 and :406 say `processed_messages` prevents double processing. Shown by
  `OutcomeAnnouncedOnce`. `ProcessedIsFinal` and `StatusIsLastAnnounced` are what does hold. As both
  announcements carry one event id, the notification service tells the user the first and takes the
  second, the one the order keeps, for a duplicate.
- `cached_order_repo.go:77-78` promises agreement of cache and row after UpdateStatus; another call
  that holds an older row may warm the cache afterwards. Shown by `AgreeAfterUpdate`;
  `StaleIsTransient` is what does hold.
- `go_redis/.../order_service.go:47` promises that a cart is not taken from the stock twice; the lock
  may expire in use. Shown by `CartOrderedOnce`; `CartOrderedOnceWithoutFaults` is what does hold.

Also worth knowing, seen while modelling:

- `go_redis/README.md:40` promises at most ten requests per minute. Windows are fixed, so twenty pass
  around a boundary, and a request that stalls past its window is counted by a counter that may
  start again. `WindowQuota` states what holds: at most the limit among the requests whose INCR comes
  within the window they are counted in.
- An event that is dead lettered may have left a decided order nobody was told about.
- The order API answers 400 "invalid request body" when the commit of an order is unanswered, and draws
  a new order id when the request is repeated: the user then has two orders, both of them paid for
  (`PlacedIsDecided`).
- Items added between the snapshot and `ClearCart` are deleted without being ordered; a cart with more
  units than the stock, or with an unknown product, blocks every later checkout of its user.
- `auth_middleware.go:23-28` answers a malformed header without `Abort`; only the rate limit behind it
  stops the request (`AdmittedHaveSession`). A route with the first middleware alone would be open.
- A session is extended to 30 minutes by its first request although Login gave it 60, and the index of
  a user's sessions is not extended at all.
- After a failed send the notification service of `go_clean_code` records the event all the same, as
  the comment at `notification_service.go:75-76` intends: the notice is never sent again, and the user
  does not hear of the outcome. `UntoldNeedsFailedSend` says that nothing else has this effect.

## 6. Proofs

Every safety property of a passing run is a theorem. The assumptions are those the modules state
about their constants (`ASSUME`): retry and batch sizes and times to live are positive, limits and
bounds are naturals, `NoMember` is no member, `Absent` is no order and no status, the seeded stock is
not negative, a malformed header is no session id. Members and requests are finite sets where they
are counted; otherwise members, partitions, orders, relays, users, products, calls and the number of
faults are arbitrary. The two theorems about `StatusIsLastAnnounced` are about a group of one member
(`OneMember`): with two the property is false, as section 3 says.

**KafkaConsumerProofs.** `NoSilentSkip` is `[]CommittedAreSettled`: a commit of any member, however
late, passes over no record that is not handled, dead lettered or lost with its dead letter publish.
The property alone is not inductive, since a commit stores the offset of the record in hand, without
regard to those below. `ConsumerInv` adds that everything below a record in hand is settled
(`HeldInOrder`), that a record about to be committed is (`CommitIsSettled`), and that the
reader of an owner has passed over nothing but the record it holds (`ReaderSkipsNothing`). The
last two speak of uncancelled members only: a pause cut short drops its record, and the loop may
fetch one more. A handler cannot succeed and a dead letter publish cannot be acknowledged with a
cancelled `ctx`, so that record is never committed; this is why the code needs no check
between the dropped record and the next fetch. `AtLeastOnce`: if the dead letter publish cannot
fail, every committed record was handled or dead lettered. Two facts the services need are here as
well: what a member holds stays in the log while the topic grows (`HeldIsInLog`, `MessageStays`),
and the members that hold a record of a partition they no longer own are no more than the faults
that took it from them (`StraysNeedFaults`).

**PaymentProofs.** `PaymentIsAConsumer`: every step of the handler, its crash included, is a step of
the loop or leaves the loop alone, so the group inherits `NoSilentSkip`. `ProcessedWasAnnounced`
is not inductive: what MarkProcessed records was announced some steps before, perhaps while the
partition had another owner. `WritesAreInOrder` says that a call past a write finds its effect; no
other call takes it back, as statuses are only overwritten by decisions and announcements only
added. `HandledAreProcessed` joins the two halves, the offsets of the loop and the rows of the
handler, and gives `ConsumedWasProcessed`. `ProcessedStaysFinal` is the action property
`ProcessedIsFinal`: a call starts with a lookup, and a call for the order that started earlier is
excluded by its hypothesis. `LastOutcomeStands` is `[]StatusIsLastAnnounced` for one member. A retry
that fails may leave the status and the last announcement apart, so the property says nothing
inductive of orders not yet processed; `DecisionsAgree` says instead that a call past a write finds
its *own* outcome there, and that a processed order has no call. Both need that nobody else writes
between two writes of a call, and `ProcessedIsFinal` then keeps what MarkProcessed recorded.

**NotificationProofs.** `NotificationIsAConsumer` for both forms of the service, as above.
`UntoldOnlyByFailedSend` is `[]UntoldNeedsFailedSend`: an event recorded although nobody was told of it
was recorded by a call of `go_clean_code` whose own send had failed. It needs `MarkingHasTried`: a call
on its way to MarkProcessed has told the user, or is one of `go_clean_code` past a failed send; what it
has told stays told whatever happens to the call. `StrictGroupTellsAll` is what follows for a group of
`go_kafka` only: every recorded event was told. `NoticesNeedReasons` bounds what the user hears of one event. An invariant about what was told
is not enough, since several calls may be past the lookup; `NoticesAreBudgeted` counts the calls about
to send as notices already. A call enters that count only if the event is not recorded, and then what
was told is accounted for by calls that gave up (`unmarked`) and calls at MarkProcessed
(`TellingsAreAccounted`). All calls for one event hold records of one partition, because of its key,
so all but one are of members that lost the partition, and of these there are no more than faults.
`ConsumedWasRecorded` is the counterpart of `ConsumedWasProcessed`.

**OrderStoreProofs.** `RepositoryInvariant`, and `StoreInvariant` for the runs: the absence of phantoms
needs no strengthening beyond the types, because a call takes its copy from a committed row and rows
are never deleted.

**OrderSystemProofs.** `SystemRunsPayment`: the composition adds nothing to Payment that Payment does
not allow, so all of PaymentProofs holds in it, `SystemKeepsLastOutcome` included.
`UpdatesAlwaysFindTheirRow` adds `LogIsPlaced`, which holds because only the relay publishes and
Announcements lets it publish stored orders only. `SystemImplementsStore` is the other half: under
`row`, which puts together the place in the table the API keeps and the status Payment keeps, every
step is an operation of the repository or leaves it alone. Payment could write the status in a step
outside the store, when UpdateStatus fails after its write; `UpdatesAreInStore` says that a handler at
that write is inside UpdateStatus. `SystemHasNoPhantoms` follows through the refinement.

**OrderOutboxProofs.** `OutboxInvariant`, from which `SentImpliesPublished`, `RelaysDoNotOverlap`,
`DuplicatesNeedFaults` and `OrdersHaveEvents` follow, and `OutboxImplementsAnnouncements`, the safety
part of the refinement. The bound on copies is inductive only with `CopyBudget`: an event that can
still be published has a fault for *every* copy it has. `RowsAreOrdered` is there because the batch is
the oldest rows and the loop follows their order.

**CheckoutProofs.** `NeverOversold` is `[]NoOversell`, and `CheckoutImplementsInventory` the whole of
the refinement, which has no liveness. That stock is not negative is not inductive: the check of
`SellItem` and the subtraction of `TakeStock` are far apart, and other calls commit in between.
`SellingIsCovered` says what holds in between: a transaction has the row of each product it has sold,
and the row has the units. It survives the commit of another call because that call takes units only
from rows of its own, by the same invariant. The type invariant includes that a transaction waits only
for a row it has yet to sell, without which a row could be taken from twice.

The units some calls have of a product are the pairs of a call and a number (`UnitsOf`), and their sum
is the cardinality of that set: a commit adds a disjoint interval, so `StockMatches` needs no induction
over the calls. `EffectsNeedOrders` adds `EffectsAreDue`: past the transaction the order is there, so a
call that stops early is one more order without a notification, and had a fault to stop it.
`CartsAreOrderedOnce` is the argument for the lock, in three layers that each hold as long as there was
no fault: a call at work has its user's lock (`CallsHoldTheirLock`), so the cart still covers the
snapshot it sells from (`CartCoversItems`), and what was ordered and what is in the cart was added
(`CartIsBalanced`, without the cart of an order that is yet to be cleared). `LockStaysRespected` is
about one step: the release script compares the owner, so only the expiry of the key, a fault while
its call is at work, takes it away.

**ShopApiProofs.** `QuotaHolds`: INCR, the first EXPIRE and the comparison are three commands, so
between them the requests let through say little. Those counted and not yet judged (`Admissible`) are
weighed with them: the weight of a window never exceeds its counter while the window lasts
(`EveryoneIsCounted`), and never the limit (`QuotaIsKept`), since a request of count `n` finds at most
`n - 1` before it. A counter starts again only when its window is over (`CounterCoversWindow`), and from
then on no INCR within the window adds to the weight. `PagesAgeBoundedly`: the age of a page is
accounted for by when the stock it shows was last right, the time between list and SET of the slowest
request, and the TTL (`PageIsAccounted`); `ListedIsAccounted` says the same of what a request has in
hand. `HandlersHaveUsers` and `EndedSessionsStayEnded` rest on `SessionIsFound`.

The inductive invariants are checked by TLC as well, in `consumer`, `payment_group`, `notification`,
`store`, `outbox`, `checkout` and `shop`; `DecisionsAgree` and the refinement of the store have been
checked on the bounds of `order_system`.

Only model-checked: liveness (`EveryRecordSettles`, `PlacedIsDecided`, `ReadersLearnOutcome`,
`OutboxDrains`, `StaleIsTransient`, `EveryCheckoutEnds`, `LockIsFreed` and the liveness half of
`AnnouncesStoredOrders`), since TLAPS does not reason about ENABLED. The models have no recursive
definitions.

## 7. Abstractions, and what is not modelled

- Payloads are model values; formats, encodings, hashing of keys to partitions, logging and HTTP
  status codes are left out. A message is malformed or it is not.
- A product that does not exist is one without stock: both end `CreateOrder` before it writes.
- The writer's own retries appear in OrderOutbox (`PublishRetries`); in Payment they would repeat an
  outcome under the same event id and are left out.
- A command or publish that returned an error takes effect at once or never: one that is still on its
  way and arrives after its caller has gone on is not modelled, and neither are the retries go-redis
  makes of a command, which would repeat a SET, an INCR or an EXPIRE.
- A send that returns an error has not told the user; a sender that fails after it has delivered could
  tell the user once more than `NoticesAreExplained` allows.
- OrderSystem has no rebalance. It is checked with one payment process, which has nobody to lose its
  partition to; members that take partitions from each other are in `payment_group`. The theorems of
  OrderSystemProofs are about any number of members, none of which takes a partition from another.
- The clock of `ShopApi` is that of Redis and of the server; the two are assumed to agree.
- Validation of requests is left out: a request that fails it changes nothing. So is the subscriber of
  `notif:orders`, which logs what it receives and keeps nothing; a message published while it is not
  connected is gone, and nobody waits for it.
- OrderSystem has no malformed messages (they are in `payment_group`) and no notification group: both
  groups are instances of KafkaConsumer, and their product is beyond what can be enumerated.
- Not modelled: start-up, migration and seeding code, topic creation, the manual score endpoint and
  the ranking (ZINCRBY and ZREVRANGE do all the work), and `OrderRepository.Create`, which is never
  called.

## 8. Plan

Done, in this order: KafkaConsumer and its proofs, Payment, OrderOutbox with Announcements and its
proofs, OrderStore, Checkout with Inventory and its proofs, Notification, ShopApi, OrderSystem;
PaymentProofs, OrderStoreProofs and OrderSystemProofs; NotificationProofs, ShopApiProofs, the rest of
the safety properties of Checkout, Payment and OrderOutbox, and the refinement of the store.

Next:

1. What a user hears in the end: an abstract specification of the notices, implemented by Notification.
2. `NoticesAreBudgeted` without the faults that hit other partitions: a sharper bound per partition.
3. The composed system with more than one payment process: which outcome the row keeps.
