# Order service: specifications, model checking and proofs

TLA+ modules for the shopping-cart order service: the Go service in `go/`, the Java service in `src/main/java` that it
is a port of, and the programs both talk to. Paths below are relative to the repository; `order/`, `checkout/`,
`events/`, `httpx/` and `auth/` stand for directories of `go/internal/`.

1. [The system](#1-the-system) — components, state, operations, interactions, hard behaviours
2. [Modules](#2-modules) — what models what, and how
3. [Runs](#3-runs) — what each TLC run checks and shows, bounds
4. [Fairness](#4-fairness)
5. [Proofs](#5-proofs)
6. [Where documents and code disagree](#6-where-documents-and-code-disagree)
7. [Limits: abstractions, only model-checked, not modelled](#7-limits)
8. [Plan](#8-plan)

## 1. The system

| component | state it keeps | operations |
|---|---|---|
| Order status model, `order/model.go` | none (a table of transitions, an order's timestamps and money) | `NewOrder`, `CanTransitionTo`, totals |
| Order service, `order/{handler,service,store}.go` | the `orders` and `order_items` tables in PostgreSQL | `CreateOrder`, `UpdateOrderStatus`, `CancelOrder`, `GetOrder`, `ListOrdersByCustomer` |
| Checkout orchestrator, `checkout/{handler,client}.go` | none of its own; the basket's cart and the payment service's payments | `POST /api/orders/checkout` |
| Event publisher, `events/publisher.go` | one cached AMQP connection and channel, two mutexes | `Publish`, `Close` |
| Rate limiter, `httpx/middleware.go` | a map from client address to token bucket | the middleware, a cleanup goroutine |
| Authentication, `httpx/auth.go`, `auth/jwt.go` | the cache of the issuer's public keys | the middleware, `ValidateToken`, `fetchJWKS` |
| Health, configuration, start and stop, `health/`, `config/`, `cmd/server/main.go` | whether the server serves, drains or stops | ping, environment, wiring, graceful shutdown |
| Java order service, `service/`, `entity/`, `controller/` | the `orders` tables, through Hibernate | the same as the Go service |
| Java filters, `config/` | Bucket4j buckets in a Caffeine cache | per-request filters around libraries |
| Scripts, manifests, CI | none | build tooling |

**How they interact.** A request passes the rate limiter, then authentication, then a handler (`main.go:60-79`). A handler
of the order service calls `Service`, which calls `Store` (one database transaction per call) and then `Publisher` (one
AMQP publish, whose error is only logged). The checkout handler calls the basket over HTTP, `Service.CreateOrder`, the
payment service over HTTP, `Service.UpdateOrderStatus`, and the basket again. The Java service publishes inside its
database transaction. Nothing is shared between two server processes but the database, the broker and the other services.

**What is hard.**

* *Races on a row.* `UpdateOrderStatus` and `CancelOrder` read the row outside the transaction that writes it, judge the
  transition by what they read, and overwrite the whole row without a version check (`service.go:115`, `store.go:212`).
* *A commit and an event.* There is no transaction over both. The Go service publishes after the commit and may lose the
  event; the Java service publishes before it and may announce what is then rolled back.
* *Unknown outcomes.* `tx.Commit` may fail after the database committed; a payment call may time out after the payment
  was captured; a server may die between any two steps.
* *A checkout is a saga* over four programs with no compensation: each intermediate failure has an outcome of its own.
* *A shared connection* that is used outside the mutex guarding it, and reset by whoever sees an error first.
* *Reservations that are cancelled* while others have been made since, and a map emptied under the requests using it.
* *A cache filled by overlapping fetches* while the issuer rotates its keys, and emptied only by a restart.
* *A shutdown that stops waiting* and closes the publisher and the database pool under the requests that are left.
* *Two sets of prices*: those of the request, in memory, and those in whole cents, in the table. Totals are computed from
  either; an order is written by several statements and read by two queries.

**What makes each part correct.** Orders: status changes follow the table, no step of the path is skipped, timestamps go
with the status, events announce what happened and, without faults, everything that happened. Checkout: only a captured
payment makes an order PAID, a declined or unanswered one does not, the cart is cleared only for a PAID order, and
captured money ends in a PAID order unless the order was cancelled meanwhile. Money: nobody is shown half an order, and a
checkout charges the total that everybody sees afterwards. Publisher: no connection leaks, every call
returns, a lost connection does no lasting damage. Shutdown: a signal ends the process, and a clean end leaves nothing behind.
Limiter: the rate is kept, a refusal leaves no debt. Authentication: a published key is never unknown, a withdrawn one is
forgotten with the process.

`PROJECT.json` lists the components with their status, every hazard at its line with the properties that cover it
(and a note on what they leave open), and for every definition the source lines it models.

## 2. Modules

```
OrderStatus ──── OrderContract            abstract: what is promised about an order
     │                ▲      ▲
     │       refines  │      │ refines (stored statuses)
     ├── OrderLifecycle      JpaOrderService ── JpaOrderServiceProofs
     │        │   └── OrderLifecycleProofs
     │        └── Checkout ── CheckoutProofs     the order service inside the checkout saga
     │                │ refines
     │                ▼
     │          CheckoutContract          abstract: what is promised to a customer
OrderMoney ── OrderMoneyProofs            lines, prices and totals; the store's statements and queries
RabbitPublisher ── RabbitPublisherProofs
     └── ServerShutdown ── ServerShutdownProofs      main with requests that publish
RateLimiter ── RateLimiterProofs
     └── JwksCache ── JwksCacheProofs     authentication behind the limiter
```

Each has an `MC…` module for the TLC runs where one is needed. A definition named `X_Y` just before a definition `X`,
with a comment that begins "Mutant", is `X` with a plausible bug; it is used in no specification. Replacing `X` by it makes
TLC report the property that the pair is listed with in `PROJECT.json`.

**OrderStatus** is `CanTransitionTo`. **OrderContract** is the abstract specification: an order is placed once,
as PENDING; it advances along the table; events announce it. `Serial = TRUE` judges a transition by the current status, as
the documentation has it, and lets an event announce only the current status; `Serial = FALSE` takes any status the order has
held, for both, which is what is left when requests race.

**OrderLifecycle** is the order service. A request is one goroutine, and its service call has the points where others can
interleave: `BeginCreate` / `Prepare` (up to the edited entity in memory; early returns are `RejectRequest`, `NotFound`,
`Refuse`, `LoadFails`), `Write` (the transaction, with `WriteFails` and `WriteUnknown`), `Publish` (`PublishFails`), `Respond`.
`Crash(lost)` ends any set of requests: all of one process, and some others if several processes run. `rows[o]` is
the row, reduced to the status and which of the four timestamps are set; `entity[r]` is the `*Order` in memory.
`committed` and `published` are history.

**Checkout** extends it. The handler's stages are its calls; the calls of `CreateOrder` and
`UpdateOrderStatus` are the request's service call in OrderLifecycle, all steps and failures included. The basket (a set of cart lines)
and the payment service (one payment per idempotency key, which is the order id) are external. Other requests cancel orders and move
them on through the API beside it (`OtherEdit`, to the statuses of `OtherStatuses`; PAID is not one of them, since whoever sets it by
hand answers for the money). **CheckoutContract** is what the saga promises whatever fails: an order is placed from lines that were
in the cart, its payment is decided once and after that, it is booked only if the payment was captured, and the cart is
emptied once, for an order that was booked. In the refinement an order is placed when its row is committed, money is decided
when the payment service decides, and an order is booked when PAID is committed.

**OrderMoney** is about what OrderLifecycle leaves out: `Submit` makes the order from the lines of a request (`Priced`: rounded to
cents by a checkout, as given through the API), `InsertRow`, `InsertLine` and `Commit` are the transaction of `store.Create`,
`ReadRows` and `ReadItems` the two queries of a read (of one order, of a listing, or before an update), `Write` the total that
`store.Update` writes back, and `Tell` is everything that leaves with the total of the order in memory: the answer, `order.created`,
the payment request, `order.paid`. Amounts are numbers of fractions of a cent, `Cent` of them to the cent; `MaxAmount` is what
NUMERIC(10,2) holds. Statuses are left out: an update here is any read that is followed by a write.

**RabbitPublisher** is `Publish` with `ensureChannel`, `reset` and `closeLocked`. `mu` is the mutex; the steps that hold it
without blocking are atomic, and dialling and setting up (`Dial`, `SetUp`, `Install` and their failures), which wait for the broker, are
not. The error of an empty URI is left out: `Config.RabbitMQURI` never returns one. `link[c]` is what has become of a connection:
the broker may close its channel, or it may be lost, at any time. `excused` and `unnoticed` are history: has
something happened that explains why this publish fails?

**ServerShutdown** is `main` from `ListenAndServe` to its return, composed with the publisher: a goroutine serves a request, which takes a
connection of the database pool and gives it back (`UseStore`, `LeaveStore`) and publishes (`StartPublish`, `PublishStep`), any number
of times. `Signal` closes the listener, `Drained` or `GiveUp` is the return of `Shutdown`, `ClosePublisher` and `Exit` are
`publisher.Close` and the deferred `store.Close`, which wait for `mu` and for the pool.

**RateLimiter** is the middleware and the cleanup goroutine; `golang.org/x/time/rate` is external and counted in whole
tokens, time in the time a token takes. **JwksCache** extends it with authentication, in the order of `main.go:69-70`: the
lookup, the fetch, the merge and the second lookup are separate steps, since no lock spans them, and the
issuer introduces and withdraws keys between them. `Restart` ends the process: requests, buckets and cached keys are gone.

**JpaOrderService** is the Java service. The order of the steps is the difference that matters: read and edit, then
`Publish`, then `Commit` (Hibernate's flush and the commit). An exception or a crash anywhere leaves no write, and
recalls no event. Its row keeps the status and the set of timestamps; its transition table is translated from
`validateStatusTransition` and compared with the Go table by the refinement.

## 3. Runs

State counts are of one TLC run with two workers; with symmetry they are counts of classes.

| run | instance | shows |
|---|---|---|
| `lifecycle_races` | 1 order, 3 requests, all faults; 647 thousand states | `TypeOK`, `RowConsistent`, `ShippedWasPaid`, `AnnouncedWasCommitted`; refinement of OrderContract with `Serial = FALSE` |
| `lifecycle_serial` | 2 orders, 1 request at a time, all faults | refinement of OrderContract with `Serial = TRUE`; each lifecycle event at most once (`PublishedOnce`) |
| `checkout_faults` | 2 orders, 2 cart lines, 2 requests, others set PROCESSING and CANCELLED, all faults; 658 thousand states | `PaidWasCaptured`, `FailedIsNotPaid`; refinement of CheckoutContract |
| `checkout_live` | 2 orders, 1 line, 2 requests, others set PROCESSING, SHIPPED and COMPLETED or cancel, no faults; 153 thousand states | a success answer is true (`AnsweredIsDone`); every commit to PENDING, PAID, SHIPPED, COMPLETED is announced in the end (`CommitsAnnounced`); captured money is booked (`ChargeIsBooked`); until then a request still carries the event (`NoEventIsForgotten`) or the charge (`NoChargeIsAbandoned`) |
| `shutdown` | 2 goroutines, 3 connections, 1 signal; 137 thousand states | `NoConnectionLeaked`, `FailureIsExcused`, `CleanExit`, `PublishReturns`, `ShutdownEnds` |
| `jpa_races` | 1 order, 3 transactions, all faults; 49 thousand states | `CommittedWasAnnounced`, `RowConsistent`, refinement of OrderContract by the stored statuses |
| `request_chain` | 1 client, 2 requests, 2 buckets of 1 token, 2 token times, 2 keys, restarts; 4.6 million states | `AdmittedWithinRate`, `RefusalLeavesNoDebt`, `RejectedWasUnknown`, `TrustEndsWithProcess` |
| `order_money` | 2 orders, 3 requests, 4 carts in quarters of a cent; 299 thousand states | `ShownIsWhole`, `MoneyAgrees`, `AtMostTwoTotals`, `TotalsClose` |
| `lifecycle_final`, `lifecycle_record`, `checkout_charge`, `jpa_ghost` | small | counterexamples to what documents say, see [6](#6-where-documents-and-code-disagree) |

**Why these bounds are enough to be interesting.** Orders never touch each other's rows, so one order shows every
race; three requests are needed for a stale write that overwrites a stale write, and for two requests to hold different old
versions while a third commits. Two orders matter when one request at a time visits both, and in the checkout, where a retry
makes a second order of the same cart. Two cart lines let one be added between reading and clearing. Two goroutines and three
connections let one publish dial while the other still holds a lost channel, be reset, and dial again, before and after the publisher is
closed. The four carts have a price that rounds to nothing, one that makes the stored total too large for its column, one that makes it
smaller, and two lines that round apart; three requests let a read fall between the statements of a create and the write
of an update. In the
request chain a second bucket exists only after a cleanup or a restart, two units of time let a cancellation come before, at and
after the token it cancels, and two keys let the issuer rotate while two fetches overlap.

**Bounds**, all named in the modules: `MaxCount` (published events are counted up to it), `IdsLeft` (a checkout starts only while an
order id is left), `Items` (each line is added once), `Conns`, `MaxBuckets`, `MaxTime`, `MaxDebt`, and the order ids of OrderMoney.
`CHECK_DEADLOCK FALSE` is set where the model stops: for `request_chain` (time and buckets run out), `order_money` (order
ids do) and `shutdown` (the process has exited).

`checkout_faults` has a `VIEW` that leaves the history of published events aside: no guard and none of its properties reads it, so states that
differ only there have the same futures.

## 4. Fairness

* `CheckoutFairness`: weak fairness of each request's own steps. A goroutine that can run is
  scheduled, and each call to the database, the broker and the basket returns. Failures are never forced, and in `checkout_live`
  do not happen. The payment service decides each payment in the end (weak fairness of `Decide`): the handler waits
  for it at most 30 s, which is a fault in the model.
* `ServerFairness`: strong fairness of the steps of each request in progress, and of `main` once it has the signal. Weak would not do,
  since whoever waits for `mu` is disabled each time another one takes it; Go's mutex hands itself to a waiter that has waited for
  a millisecond. Dialling ends within its 5 s: `Dial` or `DialFails`. Setting up ends, since the broker
  answers or the connection breaks: `SetUp` or `SetUpFails`. A request that holds a connection of the pool gives it back: the
  database answers, or its connection breaks. New requests, new publishes and queries, losses and the signal are not fair: they need
  never happen.

## 5. Proofs

`tlapm` checks every proof, for all values of the constants.

**OrderLifecycleProofs.** For any set of orders and requests, with or without faults: `TypeCorrect`, `RowsAreConsistent`,
`NothingIsSkipped`, `EventsAreTrue`, `AnswersAreTrue`, and `ServiceKeepsContract`, the refinement of OrderContract with
`Serial = FALSE`. The assumptions are the named ones of OrderLifecycle (`Faults` is Boolean, `MaxCount` a positive natural number).

None of these properties is inductive: what the next row will be was decided when a request read an older one. The
inductive invariant `IInv` therefore speaks of the requests in flight. A request about to update holds an entity that is consistent
and whose status follows from *some* committed status of its order (`Updating`); history only grows, so no other
request can make that false. That is also why the weak contract is the right one, and it is what the strict contract
lacks. A request about to insert holds a new order with an id that nobody else holds (`Inserting`, `FreshIds`). A request about to
publish has committed what it announces (`PublishersOK`). `Grounded` says that every committed status but PENDING follows from
another committed one; `NothingIsSkipped` reads it backwards through the table. Refinement follows
step by step: `Write` and `WriteUnknown` map to `Place` or `Advance`, `Publish` to `Announce`, everything else to a stutter.

Another section adds the hypothesis that requests do not overlap on an order between read and event (`[]NoOverlap`), for any
number of them at once on different orders. Then the version a request has read is still the current one when it writes (`SerialInv`), and
with that the documented contract holds: `SerialKeepsStateMachine` is the refinement with `Serial = TRUE`, `SerialPublishesOnce`
that each lifecycle event is published at most once, `SerialStatusesAreFinal` that COMPLETED and CANCELLED are final. The races
are thus the only reason why the strict contract fails.

Two more sections are about events. `EventsAreOwed` (`NoEventIsForgotten`): without faults, the event of every commit is out or some
request stands before `Publish` with it; `OwedInv` needs to know which calls there are (`CallsOK`), as a commit owes its event only
because of the call that made it. This is the safety part of `CommitsAnnounced`, to which fairness adds that the request
goes on. `CancelOrderIsRecorded` (`CancellationIsRecorded`): without faults, and if nobody cancels through `PATCH /status`
(`[]NobodyPatchesCancelled`), every CANCELLED row has its timestamp and its event, however requests race. `RecordInv` follows
the timestamp from the entity of the request into the row.

**CheckoutProofs.** For any number of orders, requests and cart lines, with or without faults. `CheckoutInside`: a checkout is a behaviour
of OrderLifecycle, so everything above holds in it. `CheckoutTypeCorrect`, `BookedWasCaptured` (`PaidWasCaptured`),
`RetryFindsUnpaid` (`FailedIsNotPaid`) and `CheckoutKeepsContract`, the refinement of CheckoutContract. The invariant `CInv` adds to
`IInv` who owns an order: the checkout that called `CreateOrder` with its id, and nobody else, may charge it, mark it PAID and empty
the cart for it. What is true of payment, books and cart is said per stage of the owner. Ownership is the point: without it
a second checkout could book what the first one has not been paid for.
The assumption, besides those of OrderLifecycle, is that the other clients of the API do not set PAID (`OtherStatuses`).

`ChargesAreFollowed` (`NoChargeIsAbandoned`): without faults, captured money is booked, or its order was cancelled, or its checkout is
on the way to book it. The point of `FollowInv` is that `UpdateOrderStatus` can be refused only for an order that is not PENDING any
more, and that such an order was paid or cancelled, whatever others did to it since (`PastPending`, from `Grounded`).
`SafeRetryChargesOnce` (`ChargedOnce`), with every failure: no line is charged twice if a checkout begins only when no other is open and
every payment ever sent is declined or has emptied its cart (`[][SafeRetry]`). `OnceInv` says that the orders that are or may yet be
charged have different lines (`Chargeable`), and that neither the cart of an emptied order nor what a checkout has read of it
holds any of them. `CheckoutKeepsService` restates `AnsweredIsDone` and `NoEventIsForgotten` for the checkout.

**RabbitPublisherProofs.** For any number of goroutines and connections: `PublisherTypeCorrect` (with mutual exclusion of dialling),
`NothingLeaks` and `FailuresAreExcused`. `Install` overwrites the cache, so nothing leaks only because the cache has been
empty since the holder of `mu` discarded it (`DialsWithEmptyCache`). A publish is doomed long before it fails, so its
excuse must be there by then: goroutines that overlap are excused (`OverlapIsExcused`), a stale cache is unnoticed or
somebody is about to empty it (`StaleIsSeen`), and whoever is about to run into it is excused (`StaleIsExcused`).

**ServerShutdownProofs.** `PublisherInside`: a server is a behaviour of the publisher, as each of its steps is one of the publisher's or a
stutter, so the theorems above hold in it. `ServerTypeCorrect` and `CleanExitLeavesNothing` rest on an invariant (`SInv`) that the exit alone
does not tell: once Shutdown has seen every request off nobody serves a request again, so nobody dials after `publisher.Close`.

**JpaOrderServiceProofs.** For any number of orders and transactions: `JpaTypeCorrect`, `JpaRowsAreConsistent`, `EventsComeFirst`
(`CommittedWasAnnounced`) and `JpaKeepsContract`, the refinement of OrderContract. As in the Go service, what a commit writes was decided when
the row was read, so `JInv` speaks of the transactions in progress (`Inserting`, `Updating`, `WorkingOK`); in addition, the event of one that is
about to commit is out. `EventsHoldWithoutRollback` (`AnnouncedWasCommitted`): if no transaction is rolled back once its event is out
(`[][NoLateRollback]`), every status announced is committed or about to be (`EventsHoldInv`), and the property follows.

**OrderMoneyProofs.** For any orders, requests, carts and precision of the amounts: `MoneyTypeCorrect` (`MoneyTypeOK`), `TotalsChangeOnce`
(`AtMostTwoTotals`), `CheckoutHasOneTotal` (`MoneyAgrees`), `NobodySeesAPart` (`ShownIsWhole`) and `TotalsAreNear` (`TotalsClose`). `MInv`
says that whatever is told or in memory has the lines as they were made or as the table keeps them: keeping them a second time
changes nothing, which is why there are at most two totals; a checkout rounds its prices first, so both are the same. `TypesInv` adds the
types of the sums in the table and in memory.

What they need of sums is `SumsCompare`: sums of natural numbers are natural numbers, and what holds between the terms line by line
(here, that two prices differ by at most half a cent a piece) holds between the sums. `SumFunction` is a recursion over a set
of which one knows something only if it has a solution. It has: the number of elements of `Units(f, s)`, which has `f[x]` elements for each
`x` in `s`, satisfies it (`UnitsOfPick`). Facts about it are then proved by induction over the subsets of a finite set, as a theorem
about a set of good subsets instead of a predicate (`SubsetInduction`): a smallest subset outside the set would have a smaller one.
The assumptions: there is a cent (`CentAssumption`), and carts are sequences of lines (`CartsAssumption`).

**RateLimiterProofs.** For any clients, any finite set of requests (`RequestsAssumption`) and any burst: `LimitIsKept` (`AdmittedWithinRate`)
and `RefusalsLeaveNoDebt` (`RefusalLeavesNoDebt`). The counts alone are not inductive, since a cancellation gives back a token of an earlier
time. `LimiterInv` keeps accounts of each bucket: those it let pass, those whose token has come and the tokens left are no more
than its burst and what has come since it was made (`Paid`); a token that somebody waits for is owed by the bucket (`Owed`), so `Cancel` never returns one that was
not taken; and a client whose requests do not overlap has at most one debt (`OneDebt`).

**JwksCacheProofs.** For any clients, requests and keys: `SteadyKeysAreKnown` (`RejectedWasUnknown`), `TrustEnds` (`TrustEndsWithProcess`),
`ChainTypeCorrect`, and `ChainLimits`: the limiter keeps its two promises as the first link of the chain, although the process restarts.
A request's *steady* keys are those published since it began to look. The invariant follows them from the issuer into the request's answer and
from there into the cache, which only grows while the process lives; `KnownWasSeen` says that whatever is in the cache or in an
answer was published in the life of this process.

## 6. Where documents and code disagree

Each is a run that TLC ends with a counterexample, and beside it a theorem says when the promise does hold.

* `lifecycle_final`: `memory-bank/systemPatterns.md:105-106` calls COMPLETED and CANCELLED terminal. Two requests suffice: one reads
  PENDING, the other cancels, the first marks the order PAID. The strict contract holds for requests that do not overlap
  (run `lifecycle_serial`, and proved for any number of them: `SerialKeepsStateMachine`, `SerialStatusesAreFinal`); what holds for
  those that do is the weak one.
* `lifecycle_record`: `memory-bank/projectbrief.md:11` promises cancelledAt and `README.md:3` an event for each state change. A cancellation through
  `PATCH /status` sets no timestamp and publishes nothing. One through `POST /cancel` does both when nothing fails, also in a race
  (`CancelOrderIsRecorded`).
* `checkout_charge`: `docs/plans/stripe-checkout-orchestrator.md:419-420` lets a client retry "the same order id" and relies on the
  payment service to de-duplicate. Every checkout makes a new order, so a new key: a retry after a lost answer charges
  the same lines again. A client that waits until no checkout of its cart is open, and tries again only if every charge so far is declined or
  has emptied the cart, is safe (`SafeRetryChargesOnce`); a 402 alone does not tell it so.
* `jpa_ghost`: `memory-bank/systemPatterns.md:109` says that a transition saves and publishes atomically within the database
  transaction. A commit that fails leaves the event behind. The converse does hold: `CommittedWasAnnounced`.
  Rollbacks after the event are the only cause (`EventsHoldWithoutRollback`).

Two observations that contradict no document. When refused requests of one client overlap, the limiter loses a token each time the earlier
reservation is cancelled first, and the debt of the bucket has no bound (`MaxDebt` bounds it in the model only). And a `reset` by one
publish may close the connection another has just dialled, so one loss may fail several overlapping publishes.

## 7. Limits

**Abstractions.** Addresses and the text of messages are left out; lines and prices are in OrderMoney only. Columns written together with a timestamp
(tracking number, carrier, reason) are represented by it. An unknown commit takes effect before its error is returned,
not later. A request rejected by its handler is one action. Rows are never deleted, so the "no rows affected" branch of `store.Update`
cannot be taken and has no action. The checkout module leaves out requests that are refused, and has one customer. In OrderMoney a read
that shows nothing (another customer's order, a failed query) is `Withhold`, in which sequence an answer lists the lines is left out, and so are the
raw prices of the lines in `order.created`, which may have fractions of a cent although its total has not. The publisher's model takes a publish
on an open channel for a success; without publisher confirms the message may still be lost, which `PublishFails` of OrderLifecycle
stands for. A request of ServerShutdown uses the database and publishes in any order and number, which covers every handler. Of a token
only its key is kept; a malformed key in the issuer's answer is skipped by the code and is the same as a key not issued.

**Only model-checked.** Liveness (`CommitsAnnounced`, `ChargeIsBooked`, `PublishReturns`, `ShutdownEnds`): fairness and ENABLED are out of the
prover's reach. Of the first two the safety part is proved: that somebody still carries the event (`EventsAreOwed`) or the charge
(`ChargesAreFollowed`). Every other property of a passing run is a theorem, for all values of the constants.

**Not modelled.** Configuration and health checks keep no state: environment variables with defaults, and a constant or a ping. Headers, correlation
ids and logging neither. Signature checks, Bucket4j and Spring Security are libraries. Scripts and manifests are build tooling.
Of the Java service the money and the reads are left out: Hibernate decides what is written when, inside one transaction, and the
code computes totals once, when an order is created.

## 8. Plan

Done, in this order: OrderStatus, OrderContract, OrderLifecycle with its proofs; Checkout; RabbitPublisher with its
proofs; JpaOrderService; RateLimiter and JwksCache; ServerShutdown with its proofs; OrderMoney; CheckoutContract.

After these, the proofs of Checkout, JpaOrderService, OrderMoney, RateLimiter and JwksCache, and the strict contract for requests that do not
overlap; then the sums of OrderMoney, the safety parts of the liveness properties, and for each disagreement of section 6 the hypothesis
under which the promise holds. Left is a safety part for `PublishReturns` and `ShutdownEnds`: that whoever waits for `mu` or for the
pool waits for somebody who can go on. A change of the code would come back here first: a version check in `store.Update` would make the
strict refinement hold in `lifecycle_final`, an outbox would make `CommitsAnnounced` hold with faults, and an idempotency
key from the client would turn `checkout_charge` into a passing run.
